------------------------------ MODULE Freshness -------------------------------
(***************************************************************************)
(* One freshness entry (pkg/health/check/freshness/freshness.go) and the     *)
(* state the entries share (freshnessState, cmd/health_services.go).  A file *)
(* older than MaxAge, or dated in the future, is bad; a missing one only     *)
(* MaxAge after the first run that saw it missing, and until then it gives   *)
(* no reading.  That mark and the last stamp live in the store's kv, which   *)
(* only ever upserts, over restarts, late loads and runs that hang on the    *)
(* read.                                                                     *)
(***************************************************************************)
EXTENDS Integers, FiniteSets

CONSTANTS
  MaxAge, FutureTolerance,
  LastTime, MaxEnds      \* bounds

VARIABLES
  time, ends, loaded,
  run,           \* {} or {[now, seen, ok]}, the read a run is judging
  mark, stamp, readOK,   \* the entry's keys in KVState: {} absent, or {value}
  kv,            \* the store's kv: the stored mark and stamp, with a checkpoint's text
  verdict,       \* the last run's verdict and why
  \* history
  missing,       \* {} or {t}: every run judged since t found the file missing
  unsaved,       \* a run was judged since the last checkpoint
  blurred        \* a crash or a late load put the marks out of step with the runs

kvState == <<mark, stamp, readOK>>
history == <<missing, unsaved, blurred>>
vars == <<time, ends, loaded, run, kvState, kv, verdict, history>>

None == [judged |-> FALSE, bad |-> FALSE, missing |-> FALSE, at |-> -1]

Init ==
  /\ time = 0 /\ ends = 0 /\ loaded = FALSE
  /\ run = {}
  /\ mark = {} /\ stamp = {} /\ readOK = FALSE
  /\ kv = [mark |-> {}, stamp |-> {}, readOK |-> FALSE]
  /\ verdict = None /\ missing = {} /\ unsaved = FALSE /\ blurred = FALSE

-----------------------------------------------------------------------------
(* The check *)

\* timestamp: the clock is read first, and the read may hang; the file is missing,
\* unreadable, or was written once, now, or by a clock that is ahead.
Read ==
  /\ run = {}
  /\ \E seen \in {{}} \cup {{t} : t \in {0, time, time + FutureTolerance + 1}}, ok \in BOOLEAN :
       run' = {[now |-> time, seen |-> seen, ok |-> ok]}
  /\ UNCHANGED <<time, ends, loaded, kvState, kv, verdict, history>>

\* judgeAge
Stale(age) == age > MaxAge \/ -age > FutureTolerance

\* A plausible fault: one run too early.
OverEarly(elapsed) == elapsed >= MaxAge

\* judgeMissing: whole seconds, and still in grace at MaxAge.
Over(elapsed) == elapsed > MaxAge

\* The first run that misses the file sets the mark.
FirstMissing(now) == IF mark = {} THEN {now} ELSE mark

\* A plausible fault: an unreadable file restarts the grace.
ClearMark(m) == {}

KeepMark(m) == m

Judge ==
  /\ \E r \in run :
       IF ~r.ok THEN
         /\ mark' = KeepMark(mark) /\ stamp' = {} /\ readOK' = FALSE
         /\ verdict' = [None EXCEPT !.at = r.now] /\ UNCHANGED missing
       ELSE IF r.seen = {} THEN
         /\ mark' = FirstMissing(r.now) /\ stamp' = {} /\ readOK' = TRUE
         /\ LET over == \E t \in mark' : Over(r.now - t)
            IN verdict' = [judged |-> over, bad |-> over, missing |-> TRUE, at |-> r.now]
         /\ missing' = (IF missing = {} THEN {r.now} ELSE missing)
       ELSE
         /\ mark' = {} /\ stamp' = r.seen /\ readOK' = TRUE
         /\ verdict' = [judged |-> TRUE, bad |-> \E t \in r.seen : Stale(r.now - t), missing |-> FALSE, at |-> r.now]
         /\ missing' = {}
  /\ run' = {} /\ unsaved' = TRUE
  /\ UNCHANGED <<time, ends, loaded, kv, blurred>>

-----------------------------------------------------------------------------
(* The shared state *)

\* A plausible fault: a key that is gone is left out of the upsert.
UpsertPresent(old, new) == IF new = {} THEN old ELSE new

\* Save writes an absent key as an empty value, which reads as absent.
Upsert(old, new) == new

Checkpoint ==
  /\ loaded
  /\ kv' = [mark |-> Upsert(kv.mark, mark), stamp |-> Upsert(kv.stamp, stamp), readOK |-> readOK]
  /\ unsaved' = FALSE
  /\ UNCHANGED <<time, ends, loaded, run, kvState, verdict, missing, blurred>>

\* Restore replaces the state, also when runs have already judged from an empty one.
Restore ==
  /\ ~loaded /\ loaded' = TRUE
  /\ mark' = kv.mark /\ stamp' = kv.stamp /\ readOK' = kv.readOK
  /\ blurred' = (blurred \/ verdict /= None)
  /\ UNCHANGED <<time, ends, run, kv, verdict, missing, unsaved>>

\* The process ends, after a last checkpoint or with what was last saved.
End ==
  /\ ends < MaxEnds /\ ends' = ends + 1
  /\ loaded' = FALSE /\ run' = {} /\ mark' = {} /\ stamp' = {} /\ readOK' = FALSE /\ verdict' = None
  /\ blurred' = (blurred \/ unsaved) /\ unsaved' = FALSE
  /\ UNCHANGED <<time, kv, missing>>

Pass ==
  /\ time < LastTime /\ time' = time + 1
  /\ UNCHANGED <<ends, loaded, run, kvState, kv, verdict, history>>

Next ==
  \/ Read \/ Judge
  \/ Checkpoint \/ Restore \/ End \/ Pass

Spec == Init /\ [][Next]_vars

-----------------------------------------------------------------------------

\* A missing file is judged bad exactly when every run since more than MaxAge ago
\* missed it, over unreadable reads, hung reads and restarts; a run that found it
\* starts the grace anew.  Only a crash that lost a mark, or a load after the first
\* runs, may move the grace.
MissingJudged ==
  verdict' /= verdict /\ verdict'.missing /\ loaded' /\ ~blurred =>
       verdict'.bad <=> \E t \in missing' : verdict'.at - t > MaxAge

\* The summary's stamp is of a file the last judged run saw: a file it missed or could
\* not read leaves no stamp behind in the store either.
StampIsSeen == loaded /\ ~blurred /\ stamp /= {} => readOK /\ missing = {}
==============================================================================
