----------------------------- MODULE StateStore -----------------------------
(***************************************************************************)
(* The state database (pkg/health/store: deferred.go, state.go): opened by  *)
(* the first Load, Checkpoint or PutKV that can, closed for good at the     *)
(* stop; a checkpoint replaces the snapshots and upserts the keys in one    *)
(* transaction, and what could not be written is kept and merged with the   *)
(* next one.                                                                *)
(*                                                                          *)
(* Snapshots (conditions, queue, rate marks) are one value, upserts         *)
(* (baselines, kv) a function from keys; a value is the number of the       *)
(* checkpoint it came with.  The alert and sample records are modelled in   *)
(* Tick and Retention.                                                      *)
(***************************************************************************)
EXTENDS Integers

CONSTANTS
  UpsertKeys,            \* keys of a checkpoint's upserts
  GuardKey,              \* the key of PutKV (memory.guard)
  MaxSeq, MaxStarts      \* bounds: checkpoints and puts, process starts

Users == {"runner", "guard"}

VARIABLES
  db,         \* the stored snapshot and upserts
  st, closed, \* Deferred: its store is open; it was closed
  openMu,     \* who holds it, or "none"
  pc,         \* each user: idle, waiting for openMu, holding it, got the store, in a transaction
  early,      \* the user's transaction began before Close
  loaded, seq, starts,
  pend,       \* checkpointer.state, the merged snapshot and upserts not written
  degraded,
  given       \* history: what a store that never failed would hold

vars == <<db, st, closed, openMu, pc, early, loaded, seq, starts, pend, degraded, given>>

NoUpserts == [k \in {} |-> 0]
Nothing == [snap |-> 0, kv |-> NoUpserts]

\* Upserts f, over those of g (maps.Copy; ON CONFLICT DO UPDATE).
Over(f, g) == [k \in DOMAIN f \cup DOMAIN g |-> IF k \in DOMAIN f THEN f[k] ELSE g[k]]

Init ==
  /\ db = Nothing /\ st = FALSE /\ closed = FALSE /\ openMu = "none"
  /\ pc = [u \in Users |-> "idle"] /\ early = [u \in Users |-> TRUE]
  /\ loaded = FALSE /\ seq = 0 /\ starts = 1 /\ pend = Nothing /\ degraded = FALSE
  /\ given = Nothing

Go(u, where) == pc' = [pc EXCEPT ![u] = where]

-----------------------------------------------------------------------------
(* Deferred *)

\* opened, before the lock: closed fails at once, an open store is used.
Get(u) ==
  /\ pc[u] = "idle" /\ seq < MaxSeq
  /\ Go(u, CASE closed -> "idle" [] ~closed /\ st -> "got" [] OTHER -> "wait")
  /\ UNCHANGED <<db, st, closed, openMu, early, loaded, seq, starts, pend, degraded, given>>

LockMu(u) ==
  /\ pc[u] = "wait" /\ openMu = "none"
  /\ openMu' = u /\ Go(u, "locked")
  /\ UNCHANGED <<db, st, closed, early, loaded, seq, starts, pend, degraded, given>>

\* Fault: what was seen before the lock still holds.
NoRecheck == FALSE

\* opened, again under the lock
Recheck == closed

\* get under the lock: another user may have opened it, or Close come first.
Open(u, ok) ==
  /\ pc[u] = "locked" /\ openMu' = "none"
  /\ CASE Recheck -> ~ok /\ Go(u, "idle") /\ UNCHANGED st
       [] ~Recheck /\ st -> ok /\ Go(u, "got") /\ UNCHANGED st
       [] OTHER -> st' = ok /\ Go(u, IF ok THEN "got" ELSE "idle")
  /\ UNCHANGED <<db, closed, early, loaded, seq, starts, pend, degraded, given>>

\* Close waits for a pending open; a transaction that has begun is not waited for.
Close ==
  /\ ~closed /\ openMu = "none" /\ closed' = TRUE /\ st' = FALSE
  /\ UNCHANGED <<db, openMu, pc, early, loaded, seq, starts, pend, degraded, given>>

-----------------------------------------------------------------------------
(* Store *)

\* Load, of an open database; it fails on a closed one.
Load(ok) ==
  /\ pc["runner"] = "got" /\ ~loaded /\ (ok => st)
  /\ loaded' = ok /\ Go("runner", "idle")
  /\ UNCHANGED <<db, st, closed, openMu, early, seq, starts, pend, degraded, given>>

\* Fault: a newer checkpoint replaces the pending upserts as well.
Replace(dirty) == dirty

\* merge: snapshots replace, upserts accumulate.
Merge(dirty) == [snap |-> dirty.snap, kv |-> Over(dirty.kv, pend.kv)]

\* Checkpoint: the data is merged, then the transaction begins.  A store closed
\* since get fails it.
Checkpoint(keys) ==
  /\ pc["runner"] = "got" /\ loaded /\ seq < MaxSeq
  /\ seq' = seq + 1
  /\ LET dirty == [snap |-> seq', kv |-> [k \in keys |-> seq']] IN
       /\ pend' = Merge(dirty)
       /\ given' = [snap |-> dirty.snap, kv |-> Over(dirty.kv, given.kv)]
  /\ Go("runner", "tx") /\ early' = [early EXCEPT !["runner"] = st]
  /\ UNCHANGED <<db, st, closed, openMu, loaded, starts, degraded>>

\* write: all of it or nothing.
Write ==
  /\ pc["runner"] = "tx" /\ early["runner"] /\ Go("runner", "idle")
  /\ db' = [snap |-> pend.snap, kv |-> Over(pend.kv, db.kv)]
  /\ pend' = Nothing /\ degraded' = FALSE
  /\ UNCHANGED <<st, closed, openMu, early, loaded, seq, starts, given>>

\* The write fails, or its ctx ends (cut): the data is kept.
WriteFails(cut) ==
  /\ pc["runner"] = "tx" /\ Go("runner", "idle")
  /\ degraded' = (degraded \/ ~cut)
  /\ UNCHANGED <<db, st, closed, openMu, early, loaded, seq, starts, pend, given>>

\* PutKV
BeginPut ==
  /\ pc["guard"] = "got" /\ seq < MaxSeq /\ seq' = seq + 1
  /\ Go("guard", "tx") /\ early' = [early EXCEPT !["guard"] = st]
  /\ UNCHANGED <<db, st, closed, openMu, loaded, starts, pend, degraded, given>>

Put(ok) ==
  /\ pc["guard"] = "tx" /\ (ok => early["guard"]) /\ Go("guard", "idle")
  /\ db' = IF ok THEN [db EXCEPT !.kv = Over([k \in {GuardKey} |-> seq], @)] ELSE db
  /\ given' = IF ok THEN [given EXCEPT !.kv = Over([k \in {GuardKey} |-> seq], @)] ELSE given
  /\ UNCHANGED <<st, closed, openMu, early, loaded, seq, starts, pend, degraded>>

-----------------------------------------------------------------------------

\* The process ends; another one starts.
Restart ==
  /\ starts < MaxStarts /\ starts' = starts + 1
  /\ st' = FALSE /\ closed' = FALSE /\ openMu' = "none" /\ pc' = [u \in Users |-> "idle"]
  /\ early' = [u \in Users |-> TRUE] /\ loaded' = FALSE /\ pend' = Nothing /\ degraded' = FALSE
  /\ given' = db
  /\ UNCHANGED <<db, seq>>

Next ==
  \/ \E u \in Users : Get(u) \/ LockMu(u) \/ \E ok \in BOOLEAN : Open(u, ok)
  \/ Close
  \/ \E ok \in BOOLEAN : Load(ok) \/ WriteFails(ok) \/ Put(ok)
  \/ \E keys \in SUBSET UpsertKeys : Checkpoint(keys)
  \/ Write \/ BeginPut \/ Restart

Spec == Init /\ [][Next]_vars

-----------------------------------------------------------------------------
(* Properties *)

TypeOK ==
  /\ openMu \in Users \cup {"none"}
  /\ pc \in [Users -> {"idle", "wait", "locked", "got", "tx"}]
  /\ DOMAIN db.kv \subseteq UpsertKeys \cup {GuardKey}

\* Once a checkpoint is written, the database holds what it would hold had none
\* ever failed: no key of a failed checkpoint is lost because later ones leave it
\* out, no older value comes over a newer one, and the guard's own key stays.
NothingLostInOutage == loaded /\ pend = Nothing => db = given

\* Nothing that begins after Close reaches the database: a user that waited for
\* the lock while Close took it does not open the database again.
ClosedForGood == closed => ~st
=============================================================================
