------------------------------ MODULE Retention ------------------------------
(***************************************************************************)
(* The numeric history (pkg/health/store/history.go): samples written by    *)
(* the checkpoints, perhaps long after they were taken; the daily job that  *)
(* rolls those past their retention up into one row per day; and the        *)
(* figures /status shows of the last days.                                  *)
(*                                                                          *)
(* One metric; a sample is its time and value.  A daily row keeps the sum   *)
(* in place of the average (avg * n).  The alert log's and the queue's      *)
(* retention are plain deletes by age and left out.                         *)
(***************************************************************************)
EXTENDS Integers, FiniteSets, FiniteSetsExt

CONSTANTS
  DayLength, SampleKeep, StatsWindow, \* a day, sampleRetention, statsWindow
  SampleValues,
  MaxTime, MaxCrash                   \* bounds: clock, crashes

VARIABLES
  time, crashes,
  pending,     \* samples the store could not write yet
  samples,     \* table samples
  daily,       \* table samples_daily, by day
  written      \* history: every sample ever written

vars == <<time, crashes, pending, samples, daily, written>>

Samples == [at : 1 .. MaxTime, value : SampleValues]
NoRow == [min |-> 0, max |-> 0, sum |-> 0, n |-> 0]

\* dayStart
DayStart(t) == t - (t % DayLength)
Days == {DayStart(t) : t \in 0 .. MaxTime}

Init ==
  /\ time = 1 /\ crashes = 0 /\ pending = {} /\ samples = {} /\ written = {}
  /\ daily = [d \in Days |-> NoRow]

\* aggregateOldSamples: one day's samples as a row.
Aggregate(ss) ==
  IF ss = {} THEN NoRow
  ELSE [min |-> Min({s.value : s \in ss}), max |-> Max({s.value : s \in ss}),
        sum |-> MapThenSumSet(LAMBDA s : s.value, ss), n |-> Cardinality(ss)]

\* Fault: a day's later part replaces its row.
Overwrite(old, new) == IF new.n = 0 THEN old ELSE new

\* rollUpSamples: merged with the row of the same day.
Combine(old, new) ==
  CASE old.n = 0 -> new
    [] old.n # 0 /\ new.n = 0 -> old
    [] OTHER -> [min |-> Min({old.min, new.min}), max |-> Max({old.max, new.max}),
                 sum |-> old.sum + new.sum, n |-> old.n + new.n]

-----------------------------------------------------------------------------

Sample(v) ==
  /\ \A s \in pending \cup samples \cup written : s.at # time
  /\ pending' = pending \cup {[at |-> time, value |-> v]}
  /\ UNCHANGED <<time, crashes, samples, daily, written>>

\* writeSamples, in a checkpoint that succeeds
WriteSamples ==
  /\ pending # {} /\ pending' = {}
  /\ samples' = samples \cup pending /\ written' = written \cup pending
  /\ UNCHANGED <<time, crashes, daily>>

\* Fault: the samples of the cutoff itself are deleted, too.
KeptAfter(s) == s.at > time - SampleKeep

Kept(s) == s.at >= time - SampleKeep

\* Retention, in one transaction
Retain ==
  LET old == {s \in samples : s.at < time - SampleKeep} IN
  /\ old # {}
  /\ daily' = [d \in Days |-> Combine(daily[d], Aggregate({s \in old : DayStart(s.at) = d}))]
  /\ samples' = {s \in samples : Kept(s)}
  /\ UNCHANGED <<time, crashes, pending, written>>

Tick == time < MaxTime /\ time' = time + 1 /\ UNCHANGED <<crashes, pending, samples, daily, written>>

Crash ==
  /\ crashes < MaxCrash /\ crashes' = crashes + 1 /\ pending' = {}
  /\ UNCHANGED <<time, samples, daily, written>>

Next == (\E v \in SampleValues : Sample(v)) \/ WriteSamples \/ Retain \/ Tick \/ Crash

Spec == Init /\ [][Next]_vars

-----------------------------------------------------------------------------
(* Properties *)

\* Metrics: the raw samples of the window and the rows of its days.
Metrics ==
  LET from == time - StatsWindow
      rows == {d \in Days : daily[d].n > 0 /\ d >= DayStart(from) /\ d <= time}
      raw == Aggregate({s \in samples : s.at >= from /\ s.at <= time})
      all == {daily[d] : d \in rows} \cup (IF raw.n = 0 THEN {} ELSE {raw})
  IN [min |-> IF all = {} THEN 0 ELSE Min({r.min : r \in all}),
      max |-> IF all = {} THEN 0 ELSE Max({r.max : r \in all}),
      n |-> raw.n + MapThenSumSet(LAMBDA d : daily[d].n, rows)]

EachCountedOnce ==
  \A d \in Days :
    Combine(daily[d], Aggregate({s \in samples : DayStart(s.at) = d}))
      = Aggregate({s \in written : DayStart(s.at) = d})

FiguresExact ==
  LET in == {s \in written : s.at >= time - StatsWindow /\ s.at <= time} IN
  Metrics = [min |-> Aggregate(in).min, max |-> Aggregate(in).max, n |-> Cardinality(in)]

\* Every sample written counts once, raw or in its day's row, whenever it was
\* written and however often the daily job ran; and the figures of the last days
\* are those of the samples written, the roll-up notwithstanding.
HistoryExact == EachCountedOnce /\ FiguresExact
=============================================================================
