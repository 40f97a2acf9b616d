----------------------------- MODULE TickProofs -----------------------------
(***************************************************************************)
(* Proofs about Tick for any checks, bounds and number of starts.           *)
(*                                                                          *)
(* What the store holds agrees with the notifier because memory does, at    *)
(* every point of the tick and in the sense of that point (AgreeInv); the   *)
(* log gets a record once because no record waits in two places (RecInv);   *)
(* and the recovery notice is right because an outage that was reported is  *)
(* an outage still (OutageInv).                                             *)
(***************************************************************************)
EXTENDS Tick, TLAPS, SequenceTheorems, FiniteSetTheorems

\* The conditions o and the notifier's a: every open condition's PROBLEM was handed over,
\* and what was handed over is open, or was cleared; but for what was stored unseen.
Agree(o, a) == o \subseteq a \cup unseen /\ a \subseteq o \cup cleared \cup unseen

\* What the notifier will hold once the tick's alerts are dispatched.
Dispatched == (announced \cup raised) \ resolved

\* Agreement at each point of the tick.  Of an interrupted tick the conditions before its
\* runs agree, and the live ones would, had its alerts been dispatched; these are the
\* network check's.
AgreeInv ==
  /\ Agree(stored.open, stored.announced)
  /\ pc \in {"network", "batch", "interrupt"} => Agree(before, announced)
  /\ pc \in {"network", "batch", "dispatch"} \/ interrupted => Agree(open, Dispatched)
  /\ pc \in {"idle", "save", "down"} /\ ~interrupted => Agree(open, announced)
  /\ pc = "network" => raised = {} /\ resolved = {}
  /\ pc = "batch" \/ interrupted => raised \cup resolved \subseteq {Network}
  /\ unseen \subseteq {Network}

\* A tick that was cut short is the last one of its process.
StopInv ==
  /\ interrupted => shutdown /\ pc \in {"interrupt", "idle"}
  /\ pc = "interrupt" => interrupted

\* A reported outage lasts.
OutageInv == saveReported /\ ~interrupted => degraded

\* s lists every member of its range once.
Listing(s) == s \in Seq(Nat) /\ \A i, j \in 1..Len(s) : s[i] = s[j] => i = j

Disjoint(s, t) == Range(s) \cap Range(t) = {}

\* A record is in one place, in one copy, or lost; fixes wait only until their tick ends.
RecInv ==
  /\ nextRec \in Nat
  /\ Listing(fixes) /\ Listing(logged) /\ Listing(pending) /\ Listing(held) /\ Listing(log)
  /\ Disjoint(fixes, logged) /\ Disjoint(fixes, pending) /\ Disjoint(fixes, held)
  /\ Disjoint(fixes, log) /\ Disjoint(logged, pending) /\ Disjoint(logged, held)
  /\ Disjoint(logged, log) /\ Disjoint(pending, held) /\ Disjoint(pending, log)
  /\ Disjoint(held, log)
  /\ fixes # <<>> => pc \in {"interrupt", "dispatch", "save"}
  /\ 1..nextRec \subseteq
       Range(fixes) \cup Range(logged) \cup Range(pending) \cup Range(held) \cup Range(log) \cup lost

TickInv == TypeOK /\ RecInv /\ StopInv /\ OutageInv

-----------------------------------------------------------------------------
(* Listings *)

\* A sequence of records' range, written out.
LEMMA RangeIs ==
  \A s \in Seq(Nat) :
    /\ Len(s) \in Nat /\ \A i \in 1..Len(s) : s[i] \in Range(s)
    /\ \A x \in Range(s) : \E i \in 1..Len(s) : s[i] = x
<1> TAKE s \in Seq(Nat)
<1>1. Range(s) = {s[i] : i \in 1..Len(s)} BY RangeEquality
<1> QED BY <1>1

\* The empty listing.
LEMMA EmptyListing == Listing(<<>>) /\ Range(<<>>) = {}
  BY DEF Listing, Range

\* Two listings of different records, one after the other, are a listing of both.
LEMMA ConcatListing ==
  ASSUME NEW s, NEW t, Listing(s), Listing(t)
  PROVE  /\ s \o t \in Seq(Nat) /\ Range(s \o t) = Range(s) \cup Range(t)
         /\ Disjoint(s, t) => Listing(s \o t)
<1>1. s \in Seq(Nat) /\ t \in Seq(Nat) BY DEF Listing
<1>2. /\ s \o t \in Seq(Nat) /\ Len(s \o t) = Len(s) + Len(t)
      /\ \A i \in 1..Len(s) + Len(t) :
           (s \o t)[i] = IF i <= Len(s) THEN s[i] ELSE t[i - Len(s)]
  BY <1>1, ConcatProperties
<1>3. Range(s \o t) = Range(s) \cup Range(t) BY <1>1, RangeConcatenation
<1>4. ASSUME Disjoint(s, t) PROVE Listing(s \o t)
  <2>1. \A i \in 1..Len(s), j \in 1..Len(t) : s[i] # t[j]
    BY <1>1, <1>4, RangeIs DEF Disjoint
  <2>2. Len(s) \in Nat /\ Len(t) \in Nat BY <1>1
  <2>3. ASSUME NEW i \in 1..Len(s) + Len(t), NEW j \in 1..Len(s) + Len(t),
               (s \o t)[i] = (s \o t)[j]
        PROVE  i = j
    <3>1. CASE i <= Len(s) /\ j <= Len(s) BY <1>2, <2>2, <2>3, <3>1 DEF Listing
    <3>2. CASE i > Len(s) /\ j > Len(s)
      <4>1. i - Len(s) \in 1..Len(t) /\ j - Len(s) \in 1..Len(t) BY <2>2, <3>2
      <4>2. t[i - Len(s)] = t[j - Len(s)] BY <1>2, <2>2, <2>3, <3>2
      <4>3. i - Len(s) = j - Len(s) BY <4>1, <4>2 DEF Listing
      <4> QED BY <2>2, <4>3
    <3>3. CASE i <= Len(s) /\ j > Len(s)
      <4>1. i \in 1..Len(s) /\ j - Len(s) \in 1..Len(t) BY <2>2, <3>3
      <4>2. (s \o t)[i] = s[i] /\ (s \o t)[j] = t[j - Len(s)] BY <1>2, <2>2, <3>3
      <4> QED BY <2>1, <2>3, <4>1, <4>2
    <3>4. CASE i > Len(s) /\ j <= Len(s)
      <4>1. j \in 1..Len(s) /\ i - Len(s) \in 1..Len(t) BY <2>2, <3>4
      <4>2. (s \o t)[j] = s[j] /\ (s \o t)[i] = t[i - Len(s)] BY <1>2, <2>2, <3>4
      <4> QED BY <2>1, <2>3, <4>1, <4>2
    <3> QED BY <2>2, <3>1, <3>2, <3>3, <3>4
  <2> QED BY <1>2, <2>3 DEF Listing
<1> QED BY <1>2, <1>3, <1>4

\* One more record.
LEMMA AppendListing ==
  ASSUME NEW s, Listing(s), NEW r \in Nat
  PROVE  /\ Append(s, r) \in Seq(Nat) /\ Range(Append(s, r)) = Range(s) \cup {r}
         /\ r \notin Range(s) => Listing(Append(s, r))
<1>1. s \in Seq(Nat) BY DEF Listing
<1>2. Append(s, r) = s \o <<r>> BY <1>1, AppendIsConcat
<1> DEFINE t == <<r>>
<1>3. t \in Seq(Nat) /\ Len(t) = 1 /\ t[1] = r OBVIOUS
<1> HIDE DEF t
<1>4. Listing(t) BY <1>3 DEF Listing
<1>5. Range(t) = {r}
  <2>1. r \in Range(t) BY <1>3, RangeIs
  <2>2. \A x \in Range(t) : x = r BY <1>3, RangeIs
  <2> QED BY <2>1, <2>2
<1>6. r \notin Range(s) => Disjoint(s, t) BY <1>5 DEF Disjoint
<1>7. Append(s, r) = s \o t BY <1>2 DEF t
<1>8. /\ s \o t \in Seq(Nat) /\ Range(s \o t) = Range(s) \cup Range(t)
      /\ Disjoint(s, t) => Listing(s \o t)
  BY <1>4, ConcatListing
<1> QED BY <1>5, <1>6, <1>7, <1>8

\* KeepNewest keeps at most MaxPending records, each once, and drops the others.
LEMMA KeepNewestListing ==
  ASSUME NEW s, s \in Seq(Nat)
  PROVE  /\ KeepNewest(s) \in Seq(Nat) /\ Len(KeepNewest(s)) <= MaxPending
         /\ Range(KeepNewest(s)) \subseteq Range(s)
         /\ Range(s) = Range(KeepNewest(s)) \cup DroppedOf(s)
         /\ DroppedOf(s) \subseteq Range(s)
         /\ Listing(s) => Listing(KeepNewest(s))
<1>1. Len(s) \in Nat /\ MaxPending \in Nat BY TickAssumption
<1>2. CASE Len(s) <= MaxPending BY <1>2 DEF KeepNewest, DroppedOf
<1>3. CASE ~(Len(s) <= MaxPending)
  <2> DEFINE m == Len(s) - MaxPending + 1
             t == KeepNewest(s)
  <2>1. m \in Int /\ m >= 1 /\ m <= Len(s) + 1 /\ Len(s) - m + 1 = MaxPending BY <1>1, <1>3
  <2>2. t = SubSeq(s, m, Len(s)) BY <1>3 DEF KeepNewest
  <2>3. \A i \in m..Len(s) : s[i] \in Nat BY <1>1, <2>1
  <2> HIDE DEF m, t
  <2>4. /\ t \in Seq(Nat) /\ Len(t) = IF m <= Len(s) THEN Len(s) - m + 1 ELSE 0
        /\ \A i \in 1..Len(s) - m + 1 : t[i] = s[m + i - 1]
    BY <1>1, <2>1, <2>2, <2>3, SubSeqProperties
  <2>5. Len(t) = MaxPending BY <1>1, <2>1, <2>4
  <2>6. \A i \in 1..Len(t) : m + i - 1 \in 1..Len(s) /\ t[i] = s[m + i - 1]
    BY <1>1, <2>1, <2>4, <2>5
  <2>7. Range(t) \subseteq Range(s)
    <3> SUFFICES ASSUME NEW x \in Range(t) PROVE x \in Range(s)
      OBVIOUS
    <3>1. PICK i \in 1..Len(t) : t[i] = x BY <2>4, RangeIs
    <3>2. m + i - 1 \in 1..Len(s) /\ s[m + i - 1] = x BY <2>6, <3>1
    <3> QED BY <3>2, RangeIs
  <2>8. Listing(s) => Listing(t)
    <3> SUFFICES ASSUME Listing(s), NEW i \in 1..Len(t), NEW j \in 1..Len(t), t[i] = t[j]
                 PROVE  i = j
      BY <2>4 DEF Listing
    <3>1. m + i - 1 = m + j - 1 BY <2>6 DEF Listing
    <3> QED BY <2>1, <3>1
  <2> QED BY <1>1, <2>4, <2>5, <2>7, <2>8 DEF t, DroppedOf
<1> QED BY <1>2, <1>3

-----------------------------------------------------------------------------
(* Records *)

\* The tick's alert records are new ones, one for each alert.
LEMMA AlertRecordsListing ==
  ASSUME TypeOK, nextRec \in Nat
  PROVE  /\ AlertCount \in Nat /\ Listing(AlertRecords)
         /\ Range(AlertRecords) = nextRec + 1 .. nextRec + AlertCount
<1>1. AlertCount \in Nat
  <2>1. IsFiniteSet(Keys) BY TickAssumption, FS_AddElement DEF Keys
  <2>2. raised \cup resolved \subseteq Keys BY DEF TypeOK
  <2> QED BY <2>1, <2>2, FS_Subset, FS_CardinalityType DEF AlertCount
<1> DEFINE n == AlertCount
           s == AlertRecords
<1> HIDE DEF n
<1>2. n \in Nat BY <1>1 DEF n
<1>3. s = [i \in 1..n |-> nextRec + i] BY DEF AlertRecords, n
<1> HIDE DEF s
<1>4. s \in Seq(Nat) /\ Len(s) = n /\ \A i \in 1..n : s[i] = nextRec + i
  <2>1. s \in [1..n -> Nat] BY <1>2, <1>3
  <2>2. s \in Seq(Nat) BY <1>2, <2>1, SeqDef
  <2>3. Len(s) = n BY <1>2, <2>1, <2>2
  <2> QED BY <1>3, <2>2, <2>3
<1>5. Listing(s) BY <1>2, <1>4 DEF Listing
<1>6. Range(s) = nextRec + 1 .. nextRec + n
  <2>1. ASSUME NEW x \in Range(s) PROVE x \in nextRec + 1 .. nextRec + n
    <3>1. PICK i \in 1..n : s[i] = x BY <1>4, <2>1, RangeIs
    <3> QED BY <1>2, <1>4, <3>1
  <2>2. ASSUME NEW x \in nextRec + 1 .. nextRec + n PROVE x \in Range(s)
    <3>1. x - nextRec \in 1..n /\ nextRec + (x - nextRec) = x BY <1>2, <2>2
    <3> QED BY <1>4, <3>1, RangeIs
  <2> QED BY <2>1, <2>2
<1> QED BY <1>1, <1>5, <1>6 DEF n, s

\* What a checkpoint of the new records all leaves in the checkpointer and in the log:
\* each record still once, and all of them but those a bound dropped.
LEMMA StoreRecords ==
  ASSUME Listing(held), Listing(log), Disjoint(held, log),
         NEW all, Listing(all), Disjoint(all, held), Disjoint(all, log),
         NEW w, NEW conds, StoreCheckpoint(w, conds, KeepNewest(all))
  PROVE  /\ Listing(held') /\ Listing(log') /\ Disjoint(held', log')
         /\ Len(held') <= MaxPending
         /\ Range(held') \cup Range(log') \subseteq Range(all) \cup Range(held) \cup Range(log)
         /\ Range(all) \cup Range(held) \cup Range(log) \subseteq
              Range(held') \cup Range(log') \cup DroppedOf(all) \cup DroppedOf(held \o KeepNewest(all))
<1> DEFINE new == KeepNewest(all)
           both == held \o new
           kept == KeepNewest(both)
<1>1. /\ Listing(new) /\ Range(new) \subseteq Range(all)
      /\ Range(all) = Range(new) \cup DroppedOf(all)
  BY KeepNewestListing DEF Listing
<1>2. Disjoint(held, new) BY <1>1 DEF Disjoint
<1> HIDE DEF new
<1>3. Listing(both) /\ Range(both) = Range(held) \cup Range(new)
  BY <1>1, <1>2, ConcatListing DEF Listing
<1> HIDE DEF both
<1>4. /\ Listing(kept) /\ Range(kept) \subseteq Range(both) /\ Len(kept) <= MaxPending
      /\ Range(both) = Range(kept) \cup DroppedOf(both)
  BY <1>3, KeepNewestListing DEF Listing
<1> HIDE DEF kept
<1>5. Disjoint(log, kept) BY <1>1, <1>3, <1>4 DEF Disjoint
<1>6. Listing(log \o kept) /\ Range(log \o kept) = Range(log) \cup Range(kept)
  BY <1>4, <1>5, ConcatListing DEF Listing
<1>7. CASE w = "ok"
  <2>1. held' = <<>> /\ log' = log \o kept
    BY <1>7 DEF StoreCheckpoint, AfterWrite, new, both, kept
  <2>2. Listing(held') /\ Range(held') = {} /\ Len(held') = 0 BY <2>1, EmptyListing
  <2>3. Len(held') <= MaxPending BY <2>2, TickAssumption
  <2> QED BY <1>1, <1>3, <1>4, <1>6, <2>1, <2>2, <2>3 DEF Disjoint, both, new
<1>8. CASE w # "ok"
  <2>1. held' = kept /\ log' = log
    BY <1>8 DEF StoreCheckpoint, new, both, kept
  <2> QED BY <1>1, <1>3, <1>4, <1>5, <2>1 DEF Disjoint, both, new
<1> QED BY <1>7, <1>8

\* Conjuncts of TypeOK that are not about records.
StateTypes ==
  /\ pc \in {"down", "idle", "network", "batch", "interrupt", "dispatch", "save"}
  /\ \A K \in {open, announced, raised, resolved, before, cleared, unseen} : K \subseteq Keys
  /\ {degraded, saveReported, loaded, shutdown, interrupted} \subseteq BOOLEAN
  /\ stored \in [open : SUBSET Keys, announced : SUBSET Keys]
  /\ starts \in Nat

\* ... and those that are.
RecTypes ==
  /\ \A s \in {fixes, logged, pending, held, log} : Range(s) \subseteq 1..nextRec
  /\ Len(pending) <= MaxPending /\ Len(held) <= MaxPending
  /\ lost \subseteq 1..nextRec

\* TypeOK in two parts.
LEMMA TypeParts == TypeOK <=> StateTypes /\ RecTypes
  BY DEF TypeOK, StateTypes, RecTypes

\* A checkpoint keeps the types of the stored state.
LEMMA StoreTypes ==
  ASSUME TypeOK, NEW w \in {"ok", "fail", "cut"}, NEW conds \in SUBSET Keys, NEW recs,
         StoreCheckpoint(w, conds, recs)
  PROVE  degraded' \in BOOLEAN /\ stored' \in [open : SUBSET Keys, announced : SUBSET Keys]
<1>1. degraded' \in BOOLEAN
  <2>1. CASE w = "ok" BY <2>1 DEF StoreCheckpoint
  <2>2. CASE w = "fail" BY <2>2 DEF StoreCheckpoint
  <2>3. CASE w = "cut" BY <2>3 DEF StoreCheckpoint, TypeOK
  <2> QED BY <2>1, <2>2, <2>3
<1>2. stored' \in [open : SUBSET Keys, announced : SUBSET Keys]
  BY DEF StoreCheckpoint, TypeOK
<1> QED BY <1>1, <1>2

\* Every step keeps the types of what is not a record.
LEMMA StateTypesStep == TypeOK /\ [Next]_vars => StateTypes'
<1> SUFFICES ASSUME TypeOK, [Next]_vars PROVE StateTypes'
  OBVIOUS
<1> USE DEF TypeOK, StateTypes, tickVars, recVars, storeVars, lifeVars
<1>1. ASSUME NEW ok \in BOOLEAN, BeginTick(ok) PROVE StateTypes' BY <1>1 DEF BeginTick
<1>2. ASSUME NEW K \in SUBSET {Network}, RunNetwork(K) PROVE StateTypes'
  BY <1>2 DEF RunNetwork, Turn, Keys
<1>3. ASSUME NEW K \in SUBSET Others, NEW fix \in BOOLEAN, RunBatch(K, fix) PROVE StateTypes'
  BY <1>3 DEF RunBatch, Turn, Keys
<1>4. ASSUME NEW fix \in BOOLEAN, Interrupt(fix) PROVE StateTypes' BY <1>4 DEF Interrupt
<1>5. ASSUME NEW w \in {"ok", "fail", "cut"}, SaveInterruptedFixes(w) PROVE StateTypes'
  <2>1. degraded' \in BOOLEAN /\ stored' \in [open : SUBSET Keys, announced : SUBSET Keys]
    BY <1>5, StoreTypes DEF SaveInterruptedFixes, BeforeRuns
  <2>2. pc' = "idle" /\ UNCHANGED <<open, announced, tickVars, saveReported, lifeVars>>
    BY <1>5 DEF SaveInterruptedFixes
  <2> QED BY <2>1, <2>2
<1>6. ASSUME NEW w \in {"ok", "fail", "cut"}, StopCheckpoint(w) PROVE StateTypes'
  BY <1>6 DEF StopCheckpoint, Gone
<1>7. CASE Dispatch BY <1>7 DEF Dispatch
<1>8. ASSUME NEW w \in {"ok", "fail", "cut"}, NEW reported \in BOOLEAN, Save(w, reported)
      PROVE  StateTypes'
  <2>1. degraded' \in BOOLEAN /\ stored' \in [open : SUBSET Keys, announced : SUBSET Keys]
    BY <1>8, StoreTypes DEF Save, RunnerCheckpoint
  <2>2. saveReported' \in BOOLEAN BY <1>8 DEF Save, RunnerCheckpoint, SaveRecovered
  <2>3. /\ pc' = "idle" /\ raised' = {} /\ resolved' = {}
        /\ UNCHANGED <<open, announced, before, lifeVars>>
    BY <1>8 DEF Save
  <2> QED BY <2>1, <2>2, <2>3
<1>9. ASSUME NEW k \in Keys, Clear(k) PROVE StateTypes' BY <1>9 DEF Clear
<1>10. CASE Push BY <1>10 DEF Push
<1>11. CASE Shutdown BY <1>11 DEF Shutdown
<1>12. CASE Crash BY <1>12 DEF Crash, Gone
<1>13. CASE Start BY <1>13 DEF Start
<1>14. CASE UNCHANGED vars BY <1>14 DEF vars
<1> QED
  BY <1>1, <1>2, <1>3, <1>4, <1>5, <1>6, <1>7, <1>8, <1>9, <1>10, <1>11, <1>12, <1>13, <1>14
  DEF Next, Ended

\* A fix, a push or a clear makes a new record.
LEMMA NewRecord ==
  ASSUME TypeOK, RecInv
  PROVE  /\ nextRec + 1 \in Nat /\ nextRec + 1 \in 1..nextRec + 1
         /\ 1..nextRec \subseteq 1..nextRec + 1
         /\ 1..nextRec + 1 \subseteq 1..nextRec \cup {nextRec + 1}
         /\ \A s \in {fixes, logged} :
              /\ Listing(Append(s, nextRec + 1))
              /\ Range(Append(s, nextRec + 1)) = Range(s) \cup {nextRec + 1}
         /\ \A s \in {fixes, logged, pending, held, log} : nextRec + 1 \notin Range(s)
<1>1. nextRec \in Nat BY DEF RecInv
<1>2. \A s \in {fixes, logged, pending, held, log} : nextRec + 1 \notin Range(s)
  BY <1>1 DEF TypeOK
<1>3. ASSUME NEW s \in {fixes, logged}
      PROVE  /\ Listing(Append(s, nextRec + 1))
             /\ Range(Append(s, nextRec + 1)) = Range(s) \cup {nextRec + 1}
  <2>1. Listing(s) /\ nextRec + 1 \notin Range(s) /\ nextRec + 1 \in Nat
    BY <1>1, <1>2 DEF RecInv
  <2> QED BY <2>1, AppendListing
<1> QED BY <1>1, <1>2, <1>3

\* The steps that make at most one record keep the records in their places.
LEMMA AddStep ==
  ASSUME TypeOK, RecInv,
         \/ \E fix \in BOOLEAN : Interrupt(fix) \/ \E K : RunBatch(K, fix)
         \/ Push \/ \E k : Clear(k)
  PROVE  RecTypes' /\ RecInv'
<1> USE DEF Disjoint
<1>1. UNCHANGED <<pending, held, log, lost>>
  BY DEF Interrupt, RunBatch, Push, Clear, storeVars
<1>2. \/ UNCHANGED <<nextRec, fixes, logged>>
      \/ nextRec' = nextRec + 1 /\ fixes' = Append(fixes, nextRec + 1) /\ UNCHANGED logged
      \/ nextRec' = nextRec + 1 /\ logged' = Append(logged, nextRec + 1) /\ UNCHANGED fixes
  BY DEF Interrupt, RunBatch, Push, Clear
<1>3. fixes' # <<>> => pc' \in {"interrupt", "dispatch", "save"}
  BY DEF Interrupt, RunBatch, Push, Clear, RecInv
<1>4. CASE UNCHANGED <<nextRec, fixes, logged>>
  BY <1>1, <1>3, <1>4 DEF RecTypes, TypeOK, RecInv
<1>5. CASE nextRec' = nextRec + 1 /\ fixes' = Append(fixes, nextRec + 1) /\ UNCHANGED logged
  <2>1. Listing(fixes') /\ Range(fixes') = Range(fixes) \cup {nextRec + 1}
    BY <1>5, NewRecord
  <2>2. RecTypes'
    <3>1. \A s \in {fixes, logged, pending, held, log} : Range(s) \subseteq 1..nextRec + 1
      BY NewRecord DEF TypeOK
    <3>2. Range(fixes') \subseteq 1..nextRec + 1 BY <2>1, <3>1, NewRecord
    <3>3. lost \subseteq 1..nextRec + 1 BY NewRecord DEF TypeOK
    <3>4. Len(pending) <= MaxPending /\ Len(held) <= MaxPending BY DEF TypeOK
    <3> QED BY <1>1, <1>5, <3>1, <3>2, <3>3, <3>4 DEF RecTypes
  <2>3. RecInv' BY <1>1, <1>3, <1>5, <2>1, NewRecord DEF RecInv
  <2> QED BY <2>2, <2>3
<1>6. CASE nextRec' = nextRec + 1 /\ logged' = Append(logged, nextRec + 1) /\ UNCHANGED fixes
  <2>1. Listing(logged') /\ Range(logged') = Range(logged) \cup {nextRec + 1}
    BY <1>6, NewRecord
  <2>2. RecTypes'
    <3>1. \A s \in {fixes, logged, pending, held, log} : Range(s) \subseteq 1..nextRec + 1
      BY NewRecord DEF TypeOK
    <3>2. Range(logged') \subseteq 1..nextRec + 1 BY <2>1, <3>1, NewRecord
    <3>3. lost \subseteq 1..nextRec + 1 BY NewRecord DEF TypeOK
    <3>4. Len(pending) <= MaxPending /\ Len(held) <= MaxPending BY DEF TypeOK
    <3> QED BY <1>1, <1>6, <3>1, <3>2, <3>3, <3>4 DEF RecTypes
  <2>3. RecInv' BY <1>1, <1>3, <1>6, <2>1, NewRecord DEF RecInv
  <2> QED BY <2>2, <2>3
<1> QED BY <1>2, <1>4, <1>5, <1>6

\* The process ends: what waits is written, or lost.
LEMMA EndStep ==
  ASSUME TypeOK, RecInv, Crash \/ \E w : StopCheckpoint(w)
  PROVE  RecTypes' /\ RecInv'
<1>1. /\ fixes' = <<>> /\ logged' = <<>> /\ pending' = <<>> /\ held' = <<>>
      /\ nextRec' = nextRec
  BY DEF Crash, StopCheckpoint, Gone
<1>2. Len(<<>>) <= MaxPending /\ nextRec \in Nat BY TickAssumption DEF RecInv
<1>3. SUFFICES /\ Listing(log') /\ Range(log') \subseteq 1..nextRec /\ lost' \subseteq 1..nextRec
               /\ 1..nextRec \subseteq Range(log') \cup lost'
  <2>1. RecTypes' BY <1>1, <1>2, <1>3, EmptyListing DEF RecTypes
  <2>2. RecInv' BY <1>1, <1>2, <1>3, EmptyListing DEF RecInv, Disjoint
  <2> QED BY <2>1, <2>2
<1>4. /\ Listing(fixes) /\ Listing(logged) /\ Listing(pending) /\ Listing(held) /\ Listing(log)
      /\ \A s \in {fixes, logged, pending, held, log} : Range(s) \subseteq 1..nextRec
      /\ lost \subseteq 1..nextRec
  BY DEF RecInv, TypeOK
<1>5. CASE Crash
  <2>1. log' = log /\ lost' = lost \cup Range(((held \o pending) \o logged) \o fixes)
    BY <1>5 DEF Crash
  <2>2. Listing(held \o pending) /\ Range(held \o pending) = Range(held) \cup Range(pending)
    BY <1>4, ConcatListing DEF RecInv, Disjoint
  <2>3. /\ Listing((held \o pending) \o logged)
        /\ Range((held \o pending) \o logged) = Range(held) \cup Range(pending) \cup Range(logged)
    BY <1>4, <2>2, ConcatListing DEF RecInv, Disjoint
  <2>4. Range(((held \o pending) \o logged) \o fixes)
          = Range(held) \cup Range(pending) \cup Range(logged) \cup Range(fixes)
    BY <1>4, <2>3, ConcatListing
  <2> QED BY <1>4, <2>1, <2>4 DEF RecInv
<1>6. ASSUME NEW w, StopCheckpoint(w)
      PROVE  /\ Listing(log') /\ Range(log') \subseteq 1..nextRec /\ lost' \subseteq 1..nextRec
             /\ 1..nextRec \subseteq Range(log') \cup lost'
  <2> DEFINE recs == pending \o logged
             new == KeepNewest(recs)
             all == held \o new
             kept == KeepNewest(all)
             written == loaded /\ w = "ok"
  <2>1. Listing(recs) /\ Range(recs) = Range(pending) \cup Range(logged)
    BY <1>4, ConcatListing DEF RecInv, Disjoint
  <2>2. /\ log' = IF written THEN log \o kept ELSE log
        /\ lost' = IF written THEN lost \cup DroppedOf(recs) \cup DroppedOf(all)
                   ELSE lost \cup Range(held \o recs)
    BY <1>6 DEF StopCheckpoint, Pended
  <2> HIDE DEF recs
  <2>3. Range(held \o recs) = Range(held) \cup Range(pending) \cup Range(logged)
    BY <1>4, <2>1, ConcatListing
  <2>4. /\ Listing(new) /\ Range(new) \subseteq Range(recs)
        /\ Range(recs) = Range(new) \cup DroppedOf(recs)
    BY <2>1, KeepNewestListing DEF Listing
  <2> HIDE DEF new
  <2>5. Disjoint(held, new) BY <2>1, <2>4 DEF Disjoint, RecInv
  <2>6. Listing(all) /\ Range(all) = Range(held) \cup Range(new)
    BY <1>4, <2>4, <2>5, ConcatListing
  <2> HIDE DEF all
  <2>7. /\ Listing(kept) /\ Range(kept) \subseteq Range(all)
        /\ Range(all) = Range(kept) \cup DroppedOf(all)
    BY <2>6, KeepNewestListing DEF Listing
  <2> HIDE DEF kept
  <2>8. Disjoint(log, kept) BY <2>1, <2>4, <2>6, <2>7 DEF Disjoint, RecInv
  <2>9. Listing(log \o kept) /\ Range(log \o kept) = Range(log) \cup Range(kept)
    BY <1>4, <2>7, <2>8, ConcatListing
  <2>10. Range(fixes) = {} BY <1>6, EmptyListing DEF StopCheckpoint, RecInv
  <2>11. /\ DroppedOf(recs) \subseteq Range(recs) /\ DroppedOf(all) \subseteq Range(all)
    BY DEF DroppedOf
  <2>12. CASE written
    BY <1>4, <2>1, <2>2, <2>4, <2>6, <2>7, <2>9, <2>10, <2>11, <2>12 DEF RecInv
  <2>13. CASE ~written BY <1>4, <2>2, <2>3, <2>10, <2>13 DEF RecInv
  <2> QED BY <2>12, <2>13
<1> QED BY <1>5, <1>6

\* A checkpoint of the new records all, of records 1 to n, where all holds what was
\* pending and everything else that waited, and nothing the store has.
LEMMA CheckpointStep ==
  ASSUME TypeOK, RecInv,
         NEW n \in Nat, 1..nextRec \subseteq 1..n,
         NEW all, Listing(all), Disjoint(all, held), Disjoint(all, log), Range(all) \subseteq 1..n,
         1..n \subseteq Range(all) \cup Range(logged') \cup Range(held) \cup Range(log) \cup lost,
         Listing(logged'), Disjoint(logged', all), Disjoint(logged', held), Disjoint(logged', log),
         Range(logged') \subseteq 1..n,
         fixes' = <<>>, nextRec' = n,
         \/ /\ pending' = KeepNewest(all) /\ lost' = lost \cup DroppedOf(all)
            /\ UNCHANGED <<held, log>>
         \/ /\ pending' = <<>>
            /\ lost' = lost \cup DroppedOf(all) \cup DroppedOf(held \o KeepNewest(all))
            /\ \E w, conds : StoreCheckpoint(w, conds, KeepNewest(all))
  PROVE  RecTypes' /\ RecInv'
<1> USE DEF Disjoint
<1>1. /\ Listing(held) /\ Listing(log) /\ Disjoint(held, log) /\ nextRec \in Nat
      /\ Len(held) <= MaxPending /\ lost \subseteq 1..n
      /\ Range(held) \subseteq 1..n /\ Range(log) \subseteq 1..n
  BY DEF RecInv, TypeOK
<1>2. Listing(<<>>) /\ Range(<<>>) = {} /\ Len(<<>>) <= MaxPending
  BY EmptyListing, TickAssumption
<1>3. CASE /\ pending' = KeepNewest(all) /\ lost' = lost \cup DroppedOf(all)
           /\ UNCHANGED <<held, log>>
  <2>1. /\ Listing(pending') /\ Range(pending') \subseteq Range(all) /\ Len(pending') <= MaxPending
        /\ Range(all) = Range(pending') \cup DroppedOf(all) /\ DroppedOf(all) \subseteq Range(all)
    BY <1>3, KeepNewestListing DEF Listing
  <2>2. RecTypes' BY <1>1, <1>2, <1>3, <2>1 DEF RecTypes
  <2>3. RecInv' BY <1>1, <1>2, <1>3, <2>1 DEF RecInv
  <2> QED BY <2>2, <2>3
<1>4. ASSUME NEW w, NEW conds, StoreCheckpoint(w, conds, KeepNewest(all)), pending' = <<>>,
             lost' = lost \cup DroppedOf(all) \cup DroppedOf(held \o KeepNewest(all))
      PROVE  RecTypes' /\ RecInv'
  <2>1. /\ Listing(held') /\ Listing(log') /\ Disjoint(held', log')
        /\ Len(held') <= MaxPending
        /\ Range(held') \cup Range(log') \subseteq Range(all) \cup Range(held) \cup Range(log)
        /\ Range(all) \cup Range(held) \cup Range(log) \subseteq
             Range(held') \cup Range(log') \cup DroppedOf(all) \cup DroppedOf(held \o KeepNewest(all))
    BY <1>1, <1>4, StoreRecords
  <2>2. DroppedOf(all) \cup DroppedOf(held \o KeepNewest(all)) \subseteq Range(all) \cup Range(held)
    <3>1. Listing(KeepNewest(all)) /\ Range(KeepNewest(all)) \subseteq Range(all)
      BY KeepNewestListing DEF Listing
    <3>2. Range(held \o KeepNewest(all)) = Range(held) \cup Range(KeepNewest(all))
      BY <1>1, <3>1, ConcatListing
    <3> QED BY <3>1, <3>2 DEF DroppedOf
  <2> HIDE DEF Disjoint
  <2>3. RecTypes'
    <3>1. Range(held') \subseteq 1..n /\ Range(log') \subseteq 1..n BY <1>1, <2>1
    <3>2. lost' \subseteq 1..n BY <1>1, <1>4, <2>2
    <3> QED BY <1>2, <1>4, <2>1, <3>1, <3>2 DEF RecTypes
  <2>4. 1..n \subseteq Range(logged') \cup Range(held') \cup Range(log') \cup lost'
    BY <1>4, <2>1
  <2>5. /\ Disjoint(fixes', logged') /\ Disjoint(fixes', pending') /\ Disjoint(fixes', held')
        /\ Disjoint(fixes', log') /\ Disjoint(logged', pending') /\ Disjoint(pending', held')
        /\ Disjoint(pending', log')
    BY <1>2, <1>4 DEF Disjoint
  <2>6. Disjoint(logged', held') /\ Disjoint(logged', log') BY <2>1 DEF Disjoint
  <2>7. RecInv' BY <1>2, <1>4, <2>1, <2>4, <2>5, <2>6 DEF RecInv
  <2> QED BY <2>3, <2>7
<1> QED BY <1>3, <1>4

\* The tick's save: the records of its alerts are new.
LEMMA SaveStep ==
  ASSUME TypeOK, RecInv, NEW w, NEW reported, Save(w, reported)
  PROVE  RecTypes' /\ RecInv'
<1> DEFINE n == nextRec + AlertCount
           recs == (logged \o AlertRecords) \o fixes
           all == pending \o recs
<1>1. /\ nextRec \in Nat /\ Listing(fixes) /\ Listing(logged) /\ Listing(pending)
      /\ \A s \in {fixes, logged, pending, held, log} : Range(s) \subseteq 1..nextRec
  BY DEF RecInv, TypeOK
<1>2. /\ AlertCount \in Nat /\ Listing(AlertRecords)
      /\ Range(AlertRecords) = nextRec + 1 .. nextRec + AlertCount
  BY <1>1, AlertRecordsListing
<1>3. n \in Nat /\ 1..nextRec \subseteq 1..n /\ 1..n = 1..nextRec \cup Range(AlertRecords)
  BY <1>1, <1>2
<1>4. \A s \in {fixes, logged, pending, held, log} : Disjoint(s, AlertRecords)
  <2>1. \A x \in 1..nextRec : x \notin Range(AlertRecords) BY <1>1, <1>2
  <2> QED BY <1>1, <2>1 DEF Disjoint
<1>5. /\ Listing(logged \o AlertRecords)
      /\ Range(logged \o AlertRecords) = Range(logged) \cup Range(AlertRecords)
  BY <1>1, <1>2, <1>4, ConcatListing
<1>6. Listing(recs) /\ Range(recs) = Range(logged) \cup Range(AlertRecords) \cup Range(fixes)
  <2>1. Disjoint(logged \o AlertRecords, fixes) BY <1>4, <1>5 DEF Disjoint, RecInv
  <2> QED BY <1>1, <1>5, <2>1, ConcatListing
<1>7. /\ Listing(all)
      /\ Range(all) = Range(pending) \cup Range(logged) \cup Range(AlertRecords) \cup Range(fixes)
  <2> HIDE DEF recs
  <2>1. Disjoint(pending, recs) BY <1>4, <1>6 DEF Disjoint, RecInv
  <2> QED BY <1>1, <1>6, <2>1, ConcatListing
<1>8. /\ logged' = <<>> /\ fixes' = <<>> /\ nextRec' = n
      /\ \/ /\ pending' = KeepNewest(all) /\ lost' = lost \cup DroppedOf(all)
            /\ UNCHANGED <<held, log>>
         \/ /\ pending' = <<>>
            /\ lost' = lost \cup DroppedOf(all) \cup DroppedOf(held \o KeepNewest(all))
            /\ StoreCheckpoint(w, open, KeepNewest(all))
  BY DEF Save, RunnerCheckpoint, Pended
<1> HIDE DEF all, n
<1>9. Disjoint(all, held) /\ Disjoint(all, log) BY <1>4, <1>7 DEF Disjoint, RecInv
<1>10. /\ Range(all) \subseteq 1..n
       /\ 1..n \subseteq Range(all) \cup Range(held) \cup Range(log) \cup lost
  BY <1>1, <1>3, <1>7 DEF RecInv
<1>11. Listing(logged') /\ Range(logged') = {} BY <1>8, EmptyListing
<1>12. /\ Disjoint(logged', all) /\ Disjoint(logged', held) /\ Disjoint(logged', log)
  BY <1>11 DEF Disjoint
<1> QED BY <1>3, <1>7, <1>8, <1>9, <1>10, <1>11, <1>12, CheckpointStep

\* An interrupted tick's save: the pushes and clears go on waiting.
LEMMA InterruptedStep ==
  ASSUME TypeOK, RecInv, NEW w, SaveInterruptedFixes(w)
  PROVE  RecTypes' /\ RecInv'
<1> DEFINE all == IF fixes = <<>> THEN pending ELSE pending \o fixes
<1>1. /\ nextRec \in Nat /\ Listing(fixes) /\ Listing(pending) /\ Listing(logged)
      /\ \A s \in {fixes, logged, pending, held, log} : Range(s) \subseteq 1..nextRec
  BY DEF RecInv, TypeOK
<1>2. Listing(all) /\ Range(all) = Range(pending) \cup Range(fixes)
  <2>1. CASE fixes = <<>> BY <1>1, <2>1, EmptyListing
  <2>2. CASE fixes # <<>>
    <3>1. Disjoint(pending, fixes) BY DEF Disjoint, RecInv
    <3> QED BY <1>1, <2>2, <3>1, ConcatListing
  <2> QED BY <2>1, <2>2
<1>3. /\ logged' = logged /\ fixes' = <<>> /\ nextRec' = nextRec
      /\ \/ /\ pending' = KeepNewest(all) /\ lost' = lost \cup DroppedOf(all)
            /\ UNCHANGED <<held, log>>
         \/ /\ pending' = <<>>
            /\ lost' = lost \cup DroppedOf(all) \cup DroppedOf(held \o KeepNewest(all))
            /\ StoreCheckpoint(w, BeforeRuns, KeepNewest(all))
  BY DEF SaveInterruptedFixes, Pended
<1> HIDE DEF all
<1>4. /\ Disjoint(all, held) /\ Disjoint(all, log) /\ Disjoint(logged', all)
      /\ Disjoint(logged', held) /\ Disjoint(logged', log)
  BY <1>2, <1>3 DEF Disjoint, RecInv
<1>5. /\ Range(all) \subseteq 1..nextRec
      /\ 1..nextRec \subseteq Range(all) \cup Range(logged') \cup Range(held) \cup Range(log) \cup lost
  BY <1>1, <1>2, <1>3 DEF RecInv
<1> QED BY <1>1, <1>2, <1>3, <1>4, <1>5, CheckpointStep

\* Every step keeps the records in their places.
LEMMA RecStep == TickInv /\ [Next]_vars => RecTypes' /\ RecInv'
<1> SUFFICES ASSUME TypeOK, RecInv, [Next]_vars PROVE RecTypes' /\ RecInv'
  BY DEF TickInv
<1>1. ASSUME UNCHANGED <<recVars, held, log>>,
             fixes = <<>> \/ pc' \in {"interrupt", "dispatch", "save"}
      PROVE  RecTypes' /\ RecInv'
  BY <1>1 DEF recVars, RecTypes, RecInv, TypeOK, Disjoint
<1>2. ASSUME NEW ok \in BOOLEAN, BeginTick(ok) PROVE RecTypes' /\ RecInv'
  BY <1>1, <1>2 DEF BeginTick, storeVars, RecInv
<1>3. ASSUME NEW K, RunNetwork(K) PROVE RecTypes' /\ RecInv'
  BY <1>1, <1>3 DEF RunNetwork, storeVars, RecInv
<1>4. CASE Dispatch BY <1>1, <1>4 DEF Dispatch, storeVars
<1>5. CASE Shutdown BY <1>1, <1>5 DEF Shutdown, storeVars, RecInv
<1>6. CASE Start BY <1>1, <1>6 DEF Start, storeVars, RecInv
<1>7. CASE UNCHANGED vars BY <1>1, <1>7 DEF vars, storeVars, RecInv
<1> QED
  BY <1>2, <1>3, <1>4, <1>5, <1>6, <1>7, AddStep, EndStep, SaveStep, InterruptedStep
  DEF Next, Ended

\* A save leaves the outage's report standing exactly while the store is degraded.
LEMMA SaveReports ==
  ASSUME TypeOK, OutageInv, ~interrupted, NEW w \in {"ok", "fail", "cut"},
         NEW reported \in BOOLEAN, NEW recs, RunnerCheckpoint(w, reported, recs)
  PROVE  (saveReported' => degraded') /\ (saveReported => (saveReported' <=> degraded'))
<1>1. {degraded, saveReported} \subseteq BOOLEAN /\ (saveReported => degraded)
  BY DEF TypeOK, OutageInv
<1>2. CASE ~loaded BY <1>1, <1>2 DEF RunnerCheckpoint
<1>3. CASE loaded
  <2>1. /\ reported => w = "fail" /\ ~degraded
        /\ saveReported' = (reported \/ (saveReported /\ ~(w = "ok")))
        /\ degraded' = CASE w = "ok" -> FALSE [] w = "fail" -> TRUE [] w = "cut" -> degraded
    BY <1>3 DEF RunnerCheckpoint, StoreCheckpoint, SaveRecovered
  <2>2. CASE w = "ok"
    <3>1. degraded' = FALSE /\ reported = FALSE BY <2>1, <2>2
    <3> QED BY <2>1, <2>2, <3>1
  <2>3. CASE w = "fail"
    <3>1. degraded' = TRUE BY <2>1, <2>3
    <3> QED BY <1>1, <2>1, <2>3, <3>1
  <2>4. CASE w = "cut"
    <3>1. degraded' = degraded /\ reported = FALSE BY <2>1, <2>4
    <3>2. saveReported' = saveReported BY <1>1, <2>1, <2>4, <3>1
    <3> QED BY <1>1, <3>1, <3>2
  <2> QED BY <2>2, <2>3, <2>4
<1> QED BY <1>2, <1>3

\* An interrupted tick is its process's last, and the notice of an outage's end goes out
\* with its end: nothing else ends it while ticks follow.
LEMMA OutageStep == TickInv /\ [Next]_vars => StopInv' /\ OutageInv'
<1> SUFFICES ASSUME TypeOK, StopInv, OutageInv, [Next]_vars PROVE StopInv' /\ OutageInv'
  BY DEF TickInv
<1> USE DEF StopInv, OutageInv, tickVars, recVars, storeVars, lifeVars
<1>1. ASSUME NEW ok \in BOOLEAN, BeginTick(ok) PROVE StopInv' /\ OutageInv'
  BY <1>1 DEF BeginTick
<1>2. ASSUME NEW K, RunNetwork(K) PROVE StopInv' /\ OutageInv' BY <1>2 DEF RunNetwork
<1>3. ASSUME NEW K, NEW fix \in BOOLEAN, RunBatch(K, fix) PROVE StopInv' /\ OutageInv'
  BY <1>3 DEF RunBatch
<1>4. ASSUME NEW fix \in BOOLEAN, Interrupt(fix) PROVE StopInv' /\ OutageInv'
  BY <1>4 DEF Interrupt
<1>5. ASSUME NEW w \in {"ok", "fail", "cut"}, SaveInterruptedFixes(w) PROVE StopInv' /\ OutageInv'
  <2>1. pc = "interrupt" /\ pc' = "idle" /\ UNCHANGED <<saveReported, interrupted, shutdown>>
    BY <1>5 DEF SaveInterruptedFixes
  <2>2. ASSUME ~interrupted PROVE degraded => degraded'
    <3>1. interrupted BY <2>1
    <3> QED BY <2>2, <3>1
  <2> QED BY <2>1, <2>2
<1>6. ASSUME NEW w \in {"ok", "fail", "cut"}, StopCheckpoint(w) PROVE StopInv' /\ OutageInv'
  BY <1>6 DEF StopCheckpoint, Gone
<1>7. CASE Dispatch BY <1>7 DEF Dispatch
<1>8. ASSUME NEW w \in {"ok", "fail", "cut"}, NEW reported \in BOOLEAN, Save(w, reported)
      PROVE  StopInv' /\ OutageInv'
  <2>1. /\ pc = "save" /\ pc' = "idle" /\ UNCHANGED <<interrupted, shutdown>>
        /\ RunnerCheckpoint(w, reported, logged \o AlertRecords \o fixes)
    BY <1>8 DEF Save
  <2>2. ~interrupted BY <2>1
  <2>3. saveReported' => degraded' BY <2>1, <2>2, SaveReports
  <2> QED BY <2>1, <2>2, <2>3
<1>9. ASSUME NEW k, Clear(k) PROVE StopInv' /\ OutageInv' BY <1>9 DEF Clear
<1>10. CASE Push BY <1>10 DEF Push
<1>11. CASE Shutdown BY <1>11 DEF Shutdown
<1>12. CASE Crash BY <1>12 DEF Crash, Gone
<1>13. CASE Start BY <1>13 DEF Start
<1>14. CASE UNCHANGED vars BY <1>14 DEF vars
<1> QED
  BY <1>1, <1>2, <1>3, <1>4, <1>5, <1>6, <1>7, <1>8, <1>9, <1>10, <1>11, <1>12, <1>13, <1>14
  DEF Next, Ended

\* The first start.
LEMMA TickInit == Init => TickInv
<1> SUFFICES ASSUME Init PROVE TickInv
  OBVIOUS
<1>1. Listing(<<>>) /\ Range(<<>>) = {} /\ Len(<<>>) = 0 BY EmptyListing
<1>2. StateTypes BY DEF Init, StateTypes
<1>3. RecTypes BY <1>1, TickAssumption DEF Init, RecTypes
<1>4. RecInv BY <1>1 DEF Init, RecInv, Disjoint
<1>5. StopInv /\ OutageInv BY DEF Init, StopInv, OutageInv
<1> QED BY <1>2, <1>3, <1>4, <1>5, TypeParts DEF TickInv

\* Every step of the runner, of the stops and of the crashes keeps the invariant.
LEMMA TickStep == TickInv /\ [Next]_vars => TickInv'
<1> SUFFICES ASSUME TickInv, [Next]_vars PROVE TickInv'
  OBVIOUS
<1>1. StateTypes' BY StateTypesStep DEF TickInv
<1>2. RecTypes' /\ RecInv' BY RecStep
<1>3. TypeOK' BY <1>1, <1>2 DEF TypeOK, StateTypes, RecTypes
<1> QED BY <1>2, <1>3, OutageStep DEF TickInv

-----------------------------------------------------------------------------
(* Theorems *)

\* Types, the records in their places, and the outage: the invariant of every state.
THEOREM TickInvariant == Spec => []TickInv
  BY TickInit, TickStep, PTL DEF Spec

\* The places a record waits in, as RecordedOnce writes them.
LEMMA WaitingRange ==
  ASSUME RecInv
  PROVE  Range(fixes \o logged \o pending \o held \o log)
           = Range(fixes) \cup Range(logged) \cup Range(pending) \cup Range(held) \cup Range(log)
<1>1. fixes \in Seq(Nat) /\ logged \in Seq(Nat) /\ pending \in Seq(Nat) /\ held \in Seq(Nat)
        /\ log \in Seq(Nat)
  BY DEF RecInv, Listing
<1>2. fixes \o logged \in Seq(Nat) /\ Range(fixes \o logged) = Range(fixes) \cup Range(logged)
  BY <1>1, RangeConcatenation
<1> DEFINE t == fixes \o logged
           u == t \o pending
           v == u \o held
<1>t. t \in Seq(Nat) BY <1>2
<1> HIDE DEF t
<1>3. u \in Seq(Nat) /\ Range(u) = Range(t) \cup Range(pending)
  BY <1>1, <1>t, RangeConcatenation
<1> HIDE DEF u
<1>4. v \in Seq(Nat) /\ Range(v) = Range(u) \cup Range(held)
  BY <1>1, <1>3, RangeConcatenation
<1> HIDE DEF v
<1>5. Range(v \o log) = Range(v) \cup Range(log) BY <1>1, <1>4, RangeConcatenation
<1> QED BY <1>2, <1>3, <1>4, <1>5 DEF t, u, v

\* The alert log gets every record of an alert, a fix, a push or a clear exactly once, by
\* whatever ticks, interrupted ticks, retries of a degraded store and stops it gets there,
\* unless a bound dropped it or a process died with it: for any checks and bounds.
THEOREM RecordsOnce == Spec => []RecordedOnce
<1>1. TickInv => RecordedOnce
  <2> SUFFICES ASSUME TickInv PROVE RecordedOnce
    OBVIOUS
  <2>1. \A i, j \in 1..Len(log) : log[i] = log[j] => i = j BY DEF TickInv, RecInv, Listing
  <2>2. 1..nextRec \subseteq Range(fixes \o logged \o pending \o held \o log) \cup lost
    BY WaitingRange DEF TickInv, RecInv
  <2> QED BY <2>1, <2>2 DEF TickInv, RecordedOnce
<1> QED BY <1>1, TickInvariant, PTL

\* FR-032: the notice of a store's recovery goes out with the save that found it written
\* again, after every reported outage (Runner.checkpoint).
THEOREM RecoveryIsNoticed == Spec => RecoveryNoticed
<1>1. TickInv /\ [Next]_vars =>
        [pc = "save" /\ pc' = "idle" /\ saveReported => (saveReported' <=> degraded')]_vars
  <2> SUFFICES ASSUME TickInv, Next, pc = "save", pc' = "idle", saveReported
               PROVE  saveReported' <=> degraded'
    OBVIOUS
  <2>1. PICK w \in {"ok", "fail", "cut"}, reported \in BOOLEAN : Save(w, reported)
    BY DEF Next, BeginTick, RunNetwork, RunBatch, Interrupt, SaveInterruptedFixes, StopCheckpoint,
           Dispatch, Clear, Push, Shutdown, Crash, Gone, Start, Ended, vars
  <2>2. ~interrupted BY DEF TickInv, StopInv
  <2>3. RunnerCheckpoint(w, reported, logged \o AlertRecords \o fixes) BY <2>1 DEF Save
  <2> QED BY <2>2, <2>3, SaveReports DEF TickInv
<1> QED BY <1>1, TickInvariant, PTL DEF Spec, RecoveryNoticed

\* What checks turn before their alerts are handed over agrees with what will be: the
\* conditions in K have not been turned by this tick yet.
LEMMA TurnAgrees ==
  ASSUME NEW K, Turn(K), K \cap (raised \cup resolved) = {}, Agree(open, Dispatched),
         UNCHANGED <<announced, cleared, unseen>>
  PROVE  Agree(open', Dispatched')
<1>1. /\ open' = (open \cup K) \ (open \cap K)
      /\ raised' = raised \cup (K \ open) /\ resolved' = resolved \cup (K \cap open)
  BY DEF Turn
<1>2. /\ open \subseteq ((announced \cup raised) \ resolved) \cup unseen
      /\ (announced \cup raised) \ resolved \subseteq open \cup cleared \cup unseen
  BY DEF Agree, Dispatched
<1>3. ASSUME NEW x \in open' PROVE x \in ((announced \cup raised') \ resolved') \cup unseen
  <2>1. CASE x \in K BY <1>1, <1>3, <2>1
  <2>2. CASE x \notin K BY <1>1, <1>2, <1>3, <2>2
  <2> QED BY <2>1, <2>2
<1>4. ASSUME NEW x \in (announced \cup raised') \ resolved' PROVE x \in open' \cup cleared \cup unseen
  BY <1>1, <1>2, <1>4
<1> QED BY <1>3, <1>4 DEF Agree, Dispatched

\* Every step keeps the conditions and the notifier in agreement.
LEMMA AgreeStep ==
  ASSUME TickInv, AgreeInv, [Next]_vars
  PROVE  AgreeInv'
<1>1. ASSUME NEW ok \in BOOLEAN, BeginTick(ok) PROVE AgreeInv'
  <2>1. /\ pc = "idle" /\ pc' = "network" /\ ~shutdown /\ raised' = {} /\ resolved' = {}
        /\ UNCHANGED <<stored, cleared, unseen, interrupted>> /\ before' = open'
        /\ \/ open' = open /\ announced' = announced
           \/ open' = open \cup stored.open /\ announced' = announced \cup stored.announced
    BY <1>1 DEF BeginTick, storeVars
  <2>2. Agree(open, announced) /\ Agree(stored.open, stored.announced)
    BY <2>1 DEF AgreeInv, TickInv, StopInv
  <2>3. open' \subseteq announced' \cup unseen /\ announced' \subseteq open' \cup cleared \cup unseen
    BY <2>1, <2>2 DEF Agree
  <2> QED BY <2>1, <2>2, <2>3 DEF AgreeInv, Agree, Dispatched
<1>2. ASSUME NEW K \in SUBSET {Network}, RunNetwork(K) PROVE AgreeInv'
  <2>1. /\ pc = "network" /\ pc' = "batch" /\ Turn(K)
        /\ UNCHANGED <<stored, cleared, unseen, interrupted, announced, before>>
    BY <1>2 DEF RunNetwork, storeVars, lifeVars
  <2>2. raised = {} /\ resolved = {} /\ Agree(open, Dispatched) BY <2>1 DEF AgreeInv
  <2>3. Agree(open', Dispatched') BY <2>1, <2>2, TurnAgrees
  <2>4. raised' \cup resolved' \subseteq {Network} BY <2>1, <2>2 DEF Turn
  <2> QED BY <2>1, <2>3, <2>4 DEF AgreeInv, Agree
<1>3. ASSUME NEW K \in SUBSET Others, NEW fix \in BOOLEAN, RunBatch(K, fix) PROVE AgreeInv'
  <2>1. /\ pc = "batch" /\ pc' = "dispatch" /\ Turn(K) /\ ~interrupted
        /\ UNCHANGED <<stored, cleared, unseen, interrupted, announced, before>>
    BY <1>3 DEF RunBatch, storeVars, lifeVars, TickInv, StopInv
  <2>2. K \cap (raised \cup resolved) = {} /\ Agree(open, Dispatched)
    BY <2>1, TickAssumption DEF AgreeInv
  <2>3. Agree(open', Dispatched') BY <2>1, <2>2, TurnAgrees
  <2> QED BY <2>1, <2>3 DEF AgreeInv, Agree
<1>4. ASSUME NEW fix \in BOOLEAN, Interrupt(fix) PROVE AgreeInv'
  BY <1>4 DEF Interrupt, AgreeInv, Agree, Dispatched, storeVars, tickVars
<1>5. ASSUME NEW w \in {"ok", "fail", "cut"}, SaveInterruptedFixes(w) PROVE AgreeInv'
  <2>1. /\ pc = "interrupt" /\ pc' = "idle" /\ UNCHANGED <<interrupted, cleared, unseen, open, announced, raised, resolved>>
        /\ stored' = stored \/ StoreCheckpoint(w, before, KeepNewest(Pended(fixes)))
    BY <1>5 DEF SaveInterruptedFixes, lifeVars, tickVars, BeforeRuns
  <2>2. Agree(before, announced) /\ interrupted' BY <2>1 DEF AgreeInv, TickInv, StopInv
  <2>3. stored' = stored \/ stored' = [open |-> before, announced |-> announced]
    BY <2>1 DEF StoreCheckpoint
  <2> QED BY <2>1, <2>2, <2>3 DEF AgreeInv, Agree, Dispatched
<1>6. ASSUME NEW w \in {"ok", "fail", "cut"}, StopCheckpoint(w) PROVE AgreeInv'
  <2>1. /\ pc = "idle" /\ cleared' = cleared /\ pc' = "down" /\ ~interrupted'
        /\ open' = {} /\ announced' = {}
        /\ \/ stored' = stored /\ unseen' = unseen
           \/ /\ stored' = [open |-> open, announced |-> announced]
              /\ unseen' = IF interrupted THEN unseen \cup raised \cup resolved ELSE unseen
    BY <1>6 DEF StopCheckpoint, Gone
  <2>2. CASE stored' = stored /\ unseen' = unseen BY <2>1, <2>2 DEF AgreeInv, Agree
  <2>3. CASE /\ stored' = [open |-> open, announced |-> announced] /\ ~interrupted
             /\ unseen' = unseen
    BY <2>1, <2>3 DEF AgreeInv, Agree
  <2>4. CASE /\ stored' = [open |-> open, announced |-> announced] /\ interrupted
             /\ unseen' = unseen \cup raised \cup resolved
    <3>1. /\ open \subseteq ((announced \cup raised) \ resolved) \cup unseen
          /\ (announced \cup raised) \ resolved \subseteq open \cup cleared \cup unseen
          /\ unseen \cup raised \cup resolved \subseteq {Network}
      BY <2>4 DEF AgreeInv, Agree, Dispatched
    <3>2. open \subseteq announced \cup unseen' /\ announced \subseteq open \cup cleared \cup unseen'
      BY <2>4, <3>1
    <3> QED BY <2>1, <2>4, <3>1, <3>2 DEF AgreeInv, Agree
  <2> QED BY <2>1, <2>2, <2>3, <2>4
<1>7. CASE Dispatch
  BY <1>7 DEF Dispatch, AgreeInv, Agree, Dispatched, storeVars, lifeVars, TickInv, StopInv
<1>8. ASSUME NEW w \in {"ok", "fail", "cut"}, NEW reported \in BOOLEAN, Save(w, reported)
      PROVE  AgreeInv'
  <2>1. /\ pc = "save" /\ pc' = "idle" /\ ~interrupted
        /\ UNCHANGED <<open, announced, interrupted, cleared, unseen>>
        /\ stored' = stored \/ stored' = [open |-> open, announced |-> announced]
    BY <1>8 DEF Save, RunnerCheckpoint, StoreCheckpoint, lifeVars, TickInv, StopInv
  <2>2. Agree(open, announced) BY <2>1 DEF AgreeInv, TickInv, StopInv
  <2> QED BY <2>1, <2>2 DEF AgreeInv, Agree
<1>9. ASSUME NEW k \in Keys, Clear(k) PROVE AgreeInv'
  <2>1. /\ UNCHANGED <<pc, stored, announced, raised, resolved, before, interrupted, unseen>>
        /\ open' = open \ {k} /\ cleared' = cleared \cup {k}
    BY <1>9 DEF Clear, storeVars, tickVars
  <2> QED BY <2>1 DEF AgreeInv, Agree, Dispatched
<1>10. CASE Push
  BY <1>10 DEF Push, AgreeInv, Agree, Dispatched, storeVars, tickVars, lifeVars
<1>11. CASE Shutdown
  BY <1>11 DEF Shutdown, AgreeInv, Agree, Dispatched, storeVars, tickVars
<1>12. CASE Crash BY <1>12 DEF Crash, Gone, AgreeInv, Agree
<1>13. CASE Start
  BY <1>13 DEF Start, AgreeInv, Agree, Dispatched, storeVars, tickVars
<1>14. CASE UNCHANGED vars
  BY <1>14 DEF vars, AgreeInv, Agree, Dispatched, storeVars, tickVars, lifeVars
<1> QED
  BY <1>1, <1>2, <1>3, <1>4, <1>5, <1>6, <1>7, <1>8, <1>9, <1>10, <1>11, <1>12, <1>13, <1>14
  DEF Next, Ended

\* Wherever the tick is cut and whichever checkpoint writes, the store never holds an open
\* condition the notifier was not told of, nor loses one whose RESOLVED is due
\* (saveInterruptedFixes), but for the network check's own condition after a stop's
\* checkpoint that followed an interrupted tick.
THEOREM StoreIsAnnounced == Spec => []StoredIsAnnounced
<1>1. Init => AgreeInv BY DEF Init, AgreeInv, Agree, Dispatched
<1>2. TickInv /\ AgreeInv /\ [Next]_vars => AgreeInv' BY AgreeStep
<1>3. AgreeInv => StoredIsAnnounced BY DEF AgreeInv, Agree, StoredIsAnnounced
<1> QED BY <1>1, <1>2, <1>3, TickInvariant, PTL DEF Spec
=============================================================================
