--------------------------- MODULE GuardLoopProofs ---------------------------
(***************************************************************************)
(* Proofs about GuardLoop for any services, windows, buffer and clock.      *)
(*                                                                          *)
(* The three properties rest on one fact, that an action under way or its   *)
(* result is the current episode's (Serial): only then is a decision made   *)
(* after the last action has ended (Spaced), against records that hold all  *)
(* earlier ones (Kept), and told by the time the reporter is done (Told).   *)
(***************************************************************************)
EXTENDS GuardLoop, TLAPS, SequenceTheorems, FiniteSetTheorems

Action == [svc : Services, act : {"restart", "stop"}, at : Nat, pc : {"run", "kill"}]

Result == [svc : Services, act : {"restart", "stop", "kill"}, decided : {"restart", "stop"},
           at : Nat, ok : BOOLEAN]

Finished == [svc : Services, act : {"restart", "stop"}, at : Nat, done : Nat, ok : BOOLEAN]

Outcome == [kind : {"action", "error", "not_recovered", "reported"}, at : Nat]

\* TypeOK in full: what the channels and the sets hold too.
GuardTypes ==
  /\ now \in Nat /\ 2 <= now
  /\ dangerSince \in Nat /\ dangerSince <= now /\ clearSince \in Nat
  /\ pc \in {"collect", "observe", "sleep", "exit", "stopped"}
  /\ ep \in [state : {"idle", "danger", "acted", "reported", "not_recovered"},
             act : {"none", "restart", "stop", "kill"}, actedAt : Nat, doneAt : Nat]
  /\ records \subseteq Record /\ saved \subseteq Record
  /\ running = {} \/ \E a \in Action : running = {a}
  /\ results = <<>> \/ \E r \in Result : results = <<r>>
  /\ late = {} \/ late = {Prior}
  /\ states = {} \/ \E rs \in SUBSET Record : states = {rs}
  /\ outcomes \in Seq(Outcome) /\ Len(outcomes) <= OutcomeBuffer
  /\ finished \subseteq Finished /\ mergedAt \in Nat

\* The action that runs, or whose result waits, is the current episode's.
Serial ==
  /\ running # {} => results = <<>>
  /\ \A a \in running : ep.state = "acted" /\ ep.actedAt = a.at /\ ep.doneAt = 0
  /\ results # <<>> => ep.state = "acted" /\ ep.actedAt = results[1].at /\ ep.doneAt = 0

\* The decision whose result waits.
Waiting == {[svc |-> r.svc, act |-> r.decided, at |-> r.at] : r \in {results[i] : i \in DOMAIN results}}

\* Every decision there is a trace of.
Decided == Decisions \cup Waiting

\* Times are in order; a beat's decision comes after it collected.
Timely ==
  /\ \A f \in finished : 2 <= f.at /\ f.at <= f.done /\ f.done <= now
  /\ \A d \in Decided : 2 <= d.at /\ d.at <= now /\ (pc = "collect" => d.at < now)
  /\ ep.state = "acted" => /\ 2 <= ep.actedAt /\ ep.actedAt <= now
                           /\ \A f \in finished : f.at <= ep.actedAt

\* How far the episode is from each action that succeeded.
Apart(f) ==
  /\ ep.state \in {"idle", "danger"} /\ dangerSince = 0 =>
       /\ f.done + RecoveryWindow <= now
       /\ pc \in {"collect", "observe"} => f.done + RecoveryWindow < now
  /\ ep.state \in {"idle", "danger"} /\ dangerSince # 0 => f.done + RecoveryWindow < dangerSince
  /\ ep.state \in {"reported", "not_recovered"} => f.done + RecoveryWindow <= now
  /\ ep.state = "acted" =>
       \/ f.at = ep.actedAt /\ f.done = ep.doneAt
       \/ f.done + RecoveryWindow + DangerFor < ep.actedAt

Spaced ==
  \A f \in finished : f.ok =>
    /\ Apart(f)
    /\ \A d \in Decided : f.at < d.at => d.at > f.done + RecoveryWindow + DangerFor

\* The records hold every action of the window, and so does what the reporter will have
\* saved when it has taken what is queued.
Kept ==
  /\ \A f \in finished : f.ok /\ now - f.at <= RepeatWindow =>
       /\ \E r \in records : r.svc = f.svc /\ r.at = f.at /\ r.mode = "act"
       /\ \E r \in LastState : r.svc = f.svc /\ r.at = f.at
  /\ mergedAt # 0 => \A p \in Prior : now - p.at <= RepeatWindow => p \in records

\* No decision to restart is of a service with an action in the window before it.
FirstTime(d) ==
  /\ \A f \in finished :
       ~(f.ok /\ f.svc = d.svc /\ f.at < d.at /\ d.at - f.at <= RepeatWindow)
  /\ \A p \in Prior :
       ~(mergedAt \in 1 .. d.at /\ p.svc = d.svc /\ d.at - p.at <= RepeatWindow)

Repeats == \A d \in Decided : d.act = "stop" \/ FirstTime(d)

\* Every finished action's outcome is told or queued.
Told == \A f \in finished : f.at \in told \cup Actions(outcomes)

\* The reporter drains once the loop has stopped, and leaves nothing.
Closing ==
  /\ rpc # "deliver" => pc = "stopped"
  /\ rpc = "done" => outcomes = <<>> /\ states = {}

GuardInv ==
  GuardTypes /\ Serial /\ Timely /\ Spaced /\ Kept /\ Repeats /\ Told /\ Closing

-----------------------------------------------------------------------------
(* Arithmetic *)

\* What is within a span of a later time is within it of an earlier one.
LEMMA Sooner == \A m, n, at, span \in Int : m <= n /\ n - at <= span => m - at <= span
  OBVIOUS

\* An index below the length is the last one or has a next one.
LEMMA NextOrLast == \A k, n \in Nat : k < n => k + 2 <= n \/ n - k - 1 = 0
  OBVIOUS

\* What holds for a span since a moment after `end` is more than that span after it.
LEMMA HeldAfter ==
  \A end, window, since, n, span \in Int :
    end + window < since /\ n - since >= span => end + window + span < n
  OBVIOUS

-----------------------------------------------------------------------------
(* The outcomes' channel *)

\* Which actions a queue of outcomes tells of.
LEMMA ActionsIs ==
  ASSUME NEW s, NEW x
  PROVE  x \in Actions(s) <=> \E i \in DOMAIN s : s[i].kind = "action" /\ s[i].at = x
  BY DEF Actions

\* One more outcome.
LEMMA ActionsAppend ==
  ASSUME NEW s \in Seq(Outcome), NEW it \in Outcome
  PROVE  /\ Append(s, it) \in Seq(Outcome) /\ Len(Append(s, it)) = Len(s) + 1
         /\ Actions(s) \subseteq Actions(Append(s, it))
         /\ it.kind = "action" => it.at \in Actions(Append(s, it))
<1> DEFINE t == Append(s, it)
<1>1. /\ t \in Seq(Outcome) /\ Len(t) = Len(s) + 1 /\ DOMAIN t = 1..Len(s) + 1
      /\ DOMAIN s = 1..Len(s) /\ Len(s) \in Nat
      /\ \A i \in 1..Len(s) : t[i] = s[i]
      /\ t[Len(s) + 1] = it
  OBVIOUS
<1> HIDE DEF t
<1>2. ASSUME NEW x \in Actions(s) PROVE x \in Actions(t)
  <2>1. PICK i \in 1..Len(s) : s[i].kind = "action" /\ s[i].at = x BY <1>1, <1>2, ActionsIs
  <2>2. i \in 1..Len(s) + 1 /\ t[i] = s[i] BY <1>1
  <2> QED BY <1>1, <2>1, <2>2, ActionsIs
<1>3. ASSUME it.kind = "action" PROVE it.at \in Actions(t)
  <2>1. Len(s) + 1 \in DOMAIN t BY <1>1
  <2> QED BY <1>1, <1>3, <2>1, ActionsIs
<1> QED BY <1>1, <1>2, <1>3 DEF t

\* A queue cut in two tells of the same actions.
LEMMA ActionsSplit ==
  ASSUME NEW s \in Seq(Outcome), NEW k \in Nat, k < Len(s)
  PROVE  /\ SubSeq(s, k + 2, Len(s)) \in Seq(Outcome)
         /\ Len(SubSeq(s, k + 2, Len(s))) = Len(s) - k - 1
         /\ Actions(s) \subseteq Actions(SubSeq(s, 1, k + 1)) \cup Actions(SubSeq(s, k + 2, Len(s)))
<1> DEFINE u == SubSeq(s, 1, k + 1)
           v == SubSeq(s, k + 2, Len(s))
<1>0. Len(s) \in Nat /\ DOMAIN s = 1..Len(s) /\ \A i \in 1..Len(s) : s[i] \in Outcome OBVIOUS
<1>1. /\ u \in Seq(Outcome) /\ Len(u) = k + 1 /\ DOMAIN u = 1..k + 1
      /\ \A i \in 1..k + 1 : u[i] = s[i]
  <2>1. \A i \in 1..k + 1 : s[i] \in Outcome BY <1>0
  <2> QED BY <1>0, <2>1, SubSeqProperties
<1>2. /\ v \in Seq(Outcome) /\ Len(v) = Len(s) - k - 1 /\ DOMAIN v = 1..Len(s) - k - 1
      /\ \A i \in 1..Len(s) - k - 1 : v[i] = s[k + 1 + i]
  <2>0. k + 2 <= Len(s) \/ Len(s) - k - 1 = 0 BY <1>0, NextOrLast
  <2>1. \A i \in k + 2..Len(s) : s[i] \in Outcome BY <1>0
  <2>2. k + 2 \in 1..Len(s) + 1 /\ Len(s) \in k + 1..Len(s) BY <1>0
  <2>3. /\ v \in Seq(Outcome) /\ Len(v) = IF k + 2 <= Len(s) THEN Len(s) - (k + 2) + 1 ELSE 0
        /\ \A i \in 1..Len(s) - (k + 2) + 1 : v[i] = s[k + 2 + i - 1]
    BY <1>0, <2>1, <2>2, SubSeqProperties
  <2>4. DOMAIN v = 1..Len(v) BY <2>3
  <2> HIDE DEF v
  <2>5. Len(v) = Len(s) - k - 1
    <3>1. CASE k + 2 <= Len(s)
      <4>1. Len(v) = Len(s) - (k + 2) + 1 BY <2>3, <3>1
      <4> QED BY <1>0, <4>1
    <3>2. CASE ~(k + 2 <= Len(s))
      <4>1. Len(v) = 0 BY <2>3, <3>2
      <4> QED BY <2>0, <3>2, <4>1
    <3> QED BY <3>1, <3>2
  <2>6. ASSUME NEW i \in 1..Len(s) - k - 1 PROVE v[i] = s[k + 1 + i]
    <3>1. i \in 1..Len(s) - (k + 2) + 1 /\ k + 2 + i - 1 = k + 1 + i BY <1>0
    <3> QED BY <2>3, <3>1
  <2> QED BY <2>3, <2>4, <2>5, <2>6
<1> HIDE DEF u, v
<1>3. ASSUME NEW x \in Actions(s) PROVE x \in Actions(u) \cup Actions(v)
  <2>1. PICK i \in 1..Len(s) : s[i].kind = "action" /\ s[i].at = x BY <1>0, <1>3, ActionsIs
  <2>2. CASE i <= k + 1
    <3>1. i \in DOMAIN u /\ u[i] = s[i] BY <1>1, <2>2
    <3> QED BY <2>1, <3>1, ActionsIs
  <2>3. CASE i > k + 1
    <3>1. i - k - 1 \in 1..Len(s) - k - 1 /\ k + 1 + (i - k - 1) = i BY <1>0, <2>3
    <3>2. i - k - 1 \in DOMAIN v /\ v[i - k - 1] = s[i] BY <1>2, <3>1
    <3> QED BY <2>1, <3>2, ActionsIs
  <2> QED BY <2>2, <2>3
<1> QED BY <1>2, <1>3 DEF u, v

\* offer keeps the buffer's bound, and loses no action that is not told.
LEMMA OfferKeeps ==
  ASSUME outcomes \in Seq(Outcome), Len(outcomes) <= OutcomeBuffer, NEW it \in Outcome, Offer(it)
  PROVE  /\ outcomes' \in Seq(Outcome) /\ Len(outcomes') <= OutcomeBuffer
         /\ told \cup Actions(outcomes) \subseteq told' \cup Actions(outcomes')
         /\ it.kind = "action" => it.at \in Actions(outcomes')
<1>1. OutcomeBuffer \in Nat \ {0} /\ Len(outcomes) \in Nat BY GuardAssumption
<1>2. CASE Len(outcomes) < OutcomeBuffer
  <2>1. outcomes' = Append(outcomes, it) /\ told' = told BY <1>2 DEF Offer
  <2>2. Len(Append(outcomes, it)) <= OutcomeBuffer BY <1>1, <1>2, ActionsAppend
  <2> QED BY <2>1, <2>2, ActionsAppend
<1>3. CASE ~(Len(outcomes) < OutcomeBuffer)
  <2>1. Len(outcomes) = OutcomeBuffer BY <1>1, <1>3
  <2>2. PICK k \in 0 .. OutcomeBuffer - 1 :
           /\ outcomes' = Append(SubSeq(outcomes, k + 2, Len(outcomes)), it)
           /\ told' = told \cup Actions(SubSeq(outcomes, 1, k + 1))
    BY <1>3, <2>1 DEF Offer
  <2>3. k \in Nat /\ k < Len(outcomes) BY <1>1, <2>1
  <2> DEFINE rest == SubSeq(outcomes, k + 2, Len(outcomes))
  <2>4. /\ rest \in Seq(Outcome) /\ Len(rest) = Len(outcomes) - k - 1
        /\ Actions(outcomes) \subseteq Actions(SubSeq(outcomes, 1, k + 1)) \cup Actions(rest)
    BY <2>3, ActionsSplit
  <2> HIDE DEF rest
  <2>5. /\ Append(rest, it) \in Seq(Outcome) /\ Len(Append(rest, it)) = Len(rest) + 1
        /\ Actions(rest) \subseteq Actions(Append(rest, it))
        /\ it.kind = "action" => it.at \in Actions(Append(rest, it))
    BY <2>4, ActionsAppend
  <2>6. Len(Append(rest, it)) <= OutcomeBuffer BY <1>1, <2>1, <2>3, <2>4, <2>5
  <2>7. outcomes' = Append(rest, it) BY <2>2 DEF rest
  <2> QED BY <2>2, <2>4, <2>5, <2>6, <2>7
<1> QED BY <1>2, <1>3

\* The reporter takes the first outcome.
LEMMA ReportKeeps ==
  ASSUME outcomes \in Seq(Outcome), Len(outcomes) <= OutcomeBuffer, Report
  PROVE  /\ outcomes' \in Seq(Outcome) /\ Len(outcomes') <= OutcomeBuffer
         /\ told \cup Actions(outcomes) \subseteq told' \cup Actions(outcomes')
<1> DEFINE h == <<Head(outcomes)>>
           t == Tail(outcomes)
<1>1. /\ outcomes # <<>> /\ told' = told \cup Actions(h) /\ outcomes' = t
  BY DEF Report
<1>2. /\ t \in Seq(Outcome) /\ Len(t) = Len(outcomes) - 1 /\ DOMAIN t = 1..Len(outcomes) - 1
      /\ Len(outcomes) \in Nat /\ Len(outcomes) >= 1 /\ DOMAIN outcomes = 1..Len(outcomes)
      /\ \A i \in 1..Len(outcomes) - 1 : t[i] = outcomes[i + 1]
  BY <1>1
<1>3. 1 \in DOMAIN h /\ h[1] = outcomes[1] BY <1>1
<1> HIDE DEF h, t
<1>4. Len(t) <= OutcomeBuffer BY <1>2, GuardAssumption
<1>5. ASSUME NEW x \in Actions(outcomes) PROVE x \in Actions(h) \cup Actions(t)
  <2>1. PICK i \in 1..Len(outcomes) : outcomes[i].kind = "action" /\ outcomes[i].at = x
    BY <1>2, <1>5, ActionsIs
  <2>2. CASE i = 1 BY <1>3, <2>1, <2>2, ActionsIs
  <2>3. CASE i # 1
    <3>1. i - 1 \in 1..Len(outcomes) - 1 /\ (i - 1) + 1 = i BY <1>2, <2>3
    <3>2. i - 1 \in DOMAIN t /\ t[i - 1] = outcomes[i] BY <1>2, <3>1
    <3> QED BY <2>1, <3>2, ActionsIs
  <2> QED BY <2>2, <2>3
<1> QED BY <1>1, <1>2, <1>4, <1>5

-----------------------------------------------------------------------------
(* Records *)

\* addRecord and Merge prune nothing that is live now.
LEMMA AddRecordKeeps ==
  ASSUME GuardTypes, NEW r \in Record, r.at <= now
  PROVE  AddRecord(r) \subseteq Record /\ Live(records, now) \subseteq AddRecord(r) /\ r \in AddRecord(r)
<1>1. ASSUME NEW x \in Live(records, now) PROVE x \in Live(records, r.at)
  <2>1. x \in records /\ now - x.at <= RepeatWindow BY <1>1 DEF Live
  <2>2. x.at \in Nat /\ r.at \in Nat /\ now \in Nat /\ RepeatWindow \in Nat
    BY <2>1, GuardAssumption DEF GuardTypes, Record
  <2>3. r.at - x.at <= RepeatWindow BY <2>1, <2>2
  <2> QED BY <2>1, <2>3 DEF Live
<1> QED BY <1>1 DEF AddRecord, Live, GuardTypes

\* The records as they are saved hold what the window needs, with every action that is new.
LEMMA SavedStep ==
  ASSUME GuardTypes, Kept, now' = now, states' = {Live(records', now)},
         Live(records, now) \subseteq records',
         \A f \in finished' :
           f \in finished \/ ~f.ok \/ \E r \in records' : r.svc = f.svc /\ r.at = f.at /\ r.mode = "act",
         \/ mergedAt' = mergedAt
         \/ \A p \in Prior : now - p.at <= RepeatWindow => p \in records'
  PROVE  Kept'
<1>1. LastState' = Live(records', now) BY DEF LastState
<1>2. ASSUME NEW f \in finished', f.ok, now - f.at <= RepeatWindow
      PROVE  \E r \in records' : r.svc = f.svc /\ r.at = f.at /\ r.mode = "act"
  <2>1. CASE f \in finished
    <3>1. PICK r \in records : r.svc = f.svc /\ r.at = f.at /\ r.mode = "act"
      BY <1>2, <2>1 DEF Kept
    <3>2. r \in Live(records, now) BY <1>2, <3>1 DEF Live
    <3> QED BY <3>1, <3>2
  <2> QED BY <1>2, <2>1
<1>3. ASSUME NEW f \in finished', f.ok, now - f.at <= RepeatWindow
      PROVE  \E r \in LastState' : r.svc = f.svc /\ r.at = f.at
  <2>1. PICK r \in records' : r.svc = f.svc /\ r.at = f.at BY <1>2, <1>3
  <2>2. r \in Live(records', now) BY <1>3, <2>1 DEF Live
  <2> QED BY <1>1, <2>1, <2>2
<1>4. ASSUME mergedAt' # 0, NEW p \in Prior, now - p.at <= RepeatWindow PROVE p \in records'
  <2>1. CASE mergedAt' = mergedAt
    <3>1. p \in records BY <1>4, <2>1 DEF Kept
    <3>2. p \in Live(records, now) BY <1>4, <3>1 DEF Live
    <3> QED BY <3>2
  <2> QED BY <1>4, <2>1
<1>5. Prior' = Prior BY DEF Prior
<1> QED BY <1>2, <1>3, <1>4, <1>5 DEF Kept

-----------------------------------------------------------------------------
(* Steps that decide nothing and finish nothing *)

\* The steps that leave the episode, the records and what finished alone.
LEMMA FrameStep ==
  ASSUME GuardInv, GuardTypes', Serial', Closing', Decided' \subseteq Decided,
         UNCHANGED <<ep, dangerSince, records, finished, mergedAt>>, LastState' = LastState,
         told \cup Actions(outcomes) \subseteq told' \cup Actions(outcomes'),
         \/ now' = now /\ (pc' = pc \/ pc' = "sleep" \/ pc' = "exit" \/ pc' = "stopped"
                             \/ (pc = "collect" /\ pc' = "observe"))
         \/ now' = now + 1
  PROVE  GuardInv'
<1>1. /\ now \in Nat /\ now' \in Nat /\ now <= now' /\ finished \subseteq Finished
      /\ RecoveryWindow \in Nat /\ DangerFor \in Nat /\ RepeatWindow \in Nat
  BY GuardAssumption DEF GuardInv, GuardTypes
<1>2. \A f \in finished : f.at \in Nat /\ f.done \in Nat BY <1>1 DEF Finished
<1>3. Timely'
  <2>1. ASSUME NEW f \in finished' PROVE 2 <= f.at /\ f.at <= f.done /\ f.done <= now'
    <3>1. 2 <= f.at /\ f.at <= f.done /\ f.done <= now /\ f.done \in Nat
      BY <1>2 DEF GuardInv, Timely
    <3> QED BY <1>1, <3>1
  <2>2. ASSUME NEW d \in Decided' PROVE 2 <= d.at /\ d.at <= now' /\ (pc' = "collect" => d.at < now')
    <3>1. /\ 2 <= d.at /\ d.at <= now /\ (pc = "collect" => d.at < now) BY DEF GuardInv, Timely
    <3>2. d.at \in Int
      BY DEF Decided, Decisions, Waiting, GuardInv, GuardTypes, Action, Result, Finished
    <3> QED BY <1>1, <3>1, <3>2
  <2>3. ep.state = "acted" => /\ 2 <= ep.actedAt /\ ep.actedAt <= now'
                              /\ \A f \in finished : f.at <= ep.actedAt
    <3>1. ep.actedAt \in Nat BY DEF GuardInv, GuardTypes
    <3> QED BY <1>1, <3>1 DEF GuardInv, Timely
  <2> QED BY <2>1, <2>2, <2>3 DEF Timely
<1>4. ASSUME NEW f \in finished, f.ok PROVE Apart(f)'
  <2>1. Apart(f) BY <1>4 DEF GuardInv, Spaced
  <2>2. f.at \in Nat /\ f.done \in Nat BY <1>2
  <2>3. dangerSince \in Nat BY DEF GuardInv, GuardTypes
  <2> QED BY <1>1, <2>1, <2>2, <2>3 DEF Apart
<1>5. Spaced' BY <1>4 DEF GuardInv, Spaced
<1>6. Kept'
  <2>1. ASSUME NEW f \in finished, now' - f.at <= RepeatWindow PROVE now - f.at <= RepeatWindow
    <3>1. f.at \in Nat BY <1>2
    <3> QED BY <1>1, <2>1, <3>1
  <2>2. ASSUME NEW p \in Prior, now' - p.at <= RepeatWindow PROVE now - p.at <= RepeatWindow
    <3>1. p.at \in Int BY DEF Prior
    <3>2. now \in Int /\ now' \in Int /\ now <= now' /\ RepeatWindow \in Int BY <1>1
    <3> QED BY <2>2, <3>1, <3>2, Sooner
  <2>3. Prior' = Prior BY DEF Prior
  <2> QED BY <2>1, <2>2, <2>3 DEF GuardInv, Kept
<1>7. Repeats' BY DEF GuardInv, Repeats, FirstTime, Prior
<1>8. Told' BY DEF GuardInv, Told
<1> QED BY <1>3, <1>5, <1>6, <1>7, <1>8 DEF GuardInv

\* The steps of the reporter, of the runner and the daemon, and of a loop that reads nothing.
LEMMA QuietStep ==
  ASSUME GuardInv,
         \/ CollectNothing \/ HostUnreadable \/ Sleep \/ Exit \/ Wait \/ (Leave /\ results = <<>>)
         \/ ReporterStep \/ RestoreLate \/ Stop \/ UNCHANGED vars
  PROVE  GuardInv'
<1> USE DEF guardVars, outVars, chanVars, lateVars, actionVars, reportVars
<1>1. UNCHANGED <<ep, dangerSince, clearSince, records, finished, mergedAt, running, results>>
  BY DEF CollectNothing, HostUnreadable, Sleep, Exit, Wait, Leave, ReporterStep, Report, SaveState,
         Drain, DrainEnd, RestoreLate, Stop, vars
<1>2. Decided' \subseteq Decided BY <1>1 DEF Decided, Decisions, Waiting
<1>3. Serial' BY <1>1 DEF Serial, GuardInv
<1>4. /\ outcomes \in Seq(Outcome) /\ Len(outcomes) <= OutcomeBuffer
      /\ states = {} \/ \E rs \in SUBSET Record : states = {rs}
      /\ now \in Nat /\ saved \subseteq Record
  BY DEF GuardInv, GuardTypes
<1>5. /\ told \cup Actions(outcomes) \subseteq told' \cup Actions(outcomes')
      /\ outcomes' \in Seq(Outcome) /\ Len(outcomes') <= OutcomeBuffer
  <2>1. CASE UNCHANGED outVars BY <1>4, <2>1
  <2>2. CASE Report BY <1>4, <2>2, ReportKeeps
  <2>3. CASE Offer([kind |-> "error", at |-> 0])
    <3>1. [kind |-> "error", at |-> 0] \in Outcome BY DEF Outcome
    <3> QED BY <1>4, <2>3, <3>1, OfferKeeps
  <2> QED
    BY <2>1, <2>2, <2>3
    DEF CollectNothing, HostUnreadable, Sleep, Exit, Wait, Leave, ReporterStep, SaveState,
        Drain, DrainEnd, RestoreLate, Stop, vars
<1>6. /\ LastState' = LastState /\ (states' = states \/ states' = {})
      /\ saved' = saved \/ saved' = LastState
  <2>1. CASE UNCHANGED <<states, saved>> BY <2>1 DEF LastState
  <2>2. CASE SaveState BY <2>2 DEF SaveState, LastState
  <2>3. CASE DrainEnd BY <2>3 DEF DrainEnd, LastState
  <2> QED
    BY <2>1, <2>2, <2>3
    DEF CollectNothing, HostUnreadable, Sleep, Exit, Wait, Leave, ReporterStep, Report,
        Drain, RestoreLate, Stop, vars
<1>7. LastState \subseteq Record BY <1>4 DEF LastState
<1>8. \/ now' = now /\ (pc' = pc \/ pc' = "sleep" \/ pc' = "exit" \/ pc' = "stopped"
                         \/ (pc = "collect" /\ pc' = "observe"))
      \/ now' = now + 1 /\ (pc' = "collect" \/ pc' = pc)
  BY DEF CollectNothing, HostUnreadable, Sleep, Exit, Wait, Leave, ReporterStep, Report, SaveState,
         Drain, DrainEnd, RestoreLate, Stop, vars
<1>9. late' = late \/ late' = {Prior}
  BY DEF CollectNothing, HostUnreadable, Sleep, Exit, Wait, Leave, ReporterStep, Report, SaveState,
         Drain, DrainEnd, RestoreLate, Stop, vars
<1>10. GuardTypes'
  <2>1. now' \in Nat /\ 2 <= now' /\ now <= now' BY <1>8 DEF GuardInv, GuardTypes
  <2>2. dangerSince' \in Nat /\ dangerSince' <= now' BY <1>1, <1>4, <2>1 DEF GuardInv, GuardTypes
  <2>3. pc' \in {"collect", "observe", "sleep", "exit", "stopped"}
    BY <1>8 DEF GuardInv, GuardTypes
  <2>4. Prior' = Prior BY DEF Prior
  <2>5. saved' \subseteq Record /\ (states' = {} \/ \E rs \in SUBSET Record : states' = {rs})
    BY <1>4, <1>6, <1>7
  <2>6. late' = {} \/ late' = {Prior'} BY <1>9, <2>4 DEF GuardInv, GuardTypes
  <2> QED BY <1>1, <1>5, <2>1, <2>2, <2>3, <2>5, <2>6 DEF GuardInv, GuardTypes
<1>11. Closing'
  <2>1. CASE HostUnreadable BY <2>1 DEF HostUnreadable, GuardInv, Closing
  <2>2. CASE CollectNothing \/ Sleep \/ Exit \/ Wait \/ (Leave /\ results = <<>>)
    BY <2>2 DEF CollectNothing, Sleep, Exit, Wait, Leave, GuardInv, Closing
  <2>3. CASE ReporterStep
    BY <2>3 DEF ReporterStep, Report, SaveState, Drain, DrainEnd, GuardInv, Closing
  <2>4. CASE RestoreLate \/ Stop \/ UNCHANGED vars
    BY <2>4 DEF RestoreLate, Stop, vars, GuardInv, Closing
  <2> QED BY <2>1, <2>2, <2>3, <2>4
<1> QED BY <1>1, <1>2, <1>3, <1>5, <1>6, <1>8, <1>10, <1>11, FrameStep

\* The action's goroutine: its result is for the decision it was started for.
LEMMA ActionStepKeeps ==
  ASSUME GuardInv, ActionStep
  PROVE  GuardInv'
<1> USE DEF guardVars, outVars, lateVars, actionVars, reportVars
<1>1. PICK a \in running : \/ Succeed(a) \/ Fail(a) \/ FallBack(a) \/ Abandon(a)
                          \/ \E ok \in BOOLEAN : Kill(a, ok)
  BY DEF ActionStep
<1>2. /\ a \in Action /\ running = {a} /\ results = <<>>
      /\ ep.state = "acted" /\ ep.actedAt = a.at /\ ep.doneAt = 0
  BY DEF GuardInv, GuardTypes, Serial
<1>3. /\ UNCHANGED <<now, pc, ep, dangerSince, clearSince, records, finished, mergedAt>>
      /\ UNCHANGED <<late, outcomes, told, states, rpc, saved>>
  BY <1>1 DEF Succeed, Fail, FallBack, Abandon, Kill, chanVars
<1>4. LastState' = LastState /\ Closing' /\ Prior' = Prior
  BY <1>3 DEF LastState, GuardInv, Closing, Prior
<1>5. ASSUME NEW act \in {"restart", "stop", "kill"}, NEW ok \in BOOLEAN, SendResult(a, act, ok)
      PROVE  GuardInv'
  <2> DEFINE r == [svc |-> a.svc, act |-> act, decided |-> a.act, at |-> a.at, ok |-> ok]
  <2>1. running' = {} /\ results' = <<r>> BY <1>2, <1>5 DEF SendResult
  <2>2. r \in Result BY <1>2 DEF Action, Result
  <2>3. GuardTypes' BY <1>3, <1>4, <2>1, <2>2 DEF GuardInv, GuardTypes
  <2>4. results'[1] = r /\ DOMAIN results' = {1} BY <2>1
  <2>5. r.svc = a.svc /\ r.decided = a.act /\ r.at = a.at OBVIOUS
  <2> HIDE DEF r
  <2>6. Serial' BY <1>2, <1>3, <2>1, <2>4, <2>5 DEF Serial
  <2>7. Decided' \subseteq Decided
    <3>1. Waiting' = {[svc |-> a.svc, act |-> a.act, at |-> a.at]} BY <2>4, <2>5 DEF Waiting
    <3>2. Waiting' \subseteq Decisions BY <3>1 DEF Decisions
    <3>3. Decisions' \subseteq Decisions BY <1>3, <2>1 DEF Decisions
    <3> QED BY <3>2, <3>3 DEF Decided
  <2> QED BY <1>3, <1>4, <2>3, <2>6, <2>7, FrameStep
<1>6. CASE Succeed(a) BY <1>2, <1>5, <1>6 DEF Succeed, Action
<1>7. CASE Fail(a) BY <1>2, <1>5, <1>7 DEF Fail, Action
<1>8. ASSUME NEW ok \in BOOLEAN, Kill(a, ok) PROVE GuardInv'
  BY <1>2, <1>5, <1>8 DEF Kill, Action
<1>9. CASE FallBack(a)
  <2> DEFINE b == [a EXCEPT !.pc = "kill"]
  <2>1. running' = {b} /\ results' = results BY <1>2, <1>9 DEF FallBack, chanVars
  <2>2. b \in Action /\ b.svc = a.svc /\ b.act = a.act /\ b.at = a.at BY <1>2 DEF Action
  <2> HIDE DEF b
  <2>3. GuardTypes' BY <1>2, <1>3, <1>4, <2>1, <2>2 DEF GuardInv, GuardTypes
  <2>4. Serial' BY <1>2, <1>3, <2>1, <2>2 DEF Serial
  <2>5. Decided' \subseteq Decided
    <3>1. Decisions' \subseteq Decisions BY <1>2, <1>3, <2>1, <2>2 DEF Decisions
    <3>2. Waiting' = Waiting BY <2>1 DEF Waiting
    <3> QED BY <3>1, <3>2 DEF Decided
  <2> QED BY <1>3, <1>4, <2>3, <2>4, <2>5, FrameStep
<1>10. CASE Abandon(a)
  <2>1. running' = {} /\ results' = <<>> BY <1>2, <1>10 DEF Abandon, chanVars
  <2>2. GuardTypes' BY <1>2, <1>3, <1>4, <2>1 DEF GuardInv, GuardTypes
  <2>3. Serial' BY <2>1 DEF Serial
  <2>4. Decided' \subseteq Decided
    <3>1. Decisions' \subseteq Decisions BY <1>2, <1>3, <2>1 DEF Decisions
    <3>2. Waiting' = Waiting BY <1>2, <2>1 DEF Waiting
    <3> QED BY <3>1, <3>2 DEF Decided
  <2> QED BY <1>3, <1>4, <2>2, <2>3, <2>4, FrameStep
<1> QED BY <1>1, <1>6, <1>7, <1>8, <1>9, <1>10

-----------------------------------------------------------------------------
(* The result of an action, and the late records *)

\* Taking in a result: the episode goes on from the action's end, and the action is recorded,
\* saved and queued for the reporter.
LEMMA FinishStep ==
  ASSUME GuardInv, results # <<>>, pc \in {"collect", "exit"}, pc' \in {"observe", "stopped"},
         Finish(Head(results)),
         UNCHANGED <<now, dangerSince, clearSince, running, late, saved, rpc, mergedAt>>
  PROVE  GuardInv'
<1>1. PICK r \in Result : results = <<r>> BY DEF GuardInv, GuardTypes
<1>0. PICK f : f = [svc |-> r.svc, act |-> r.decided, at |-> r.at, done |-> now, ok |-> r.ok]
  OBVIOUS
<1> DEFINE rec == [svc |-> r.svc, act |-> r.act, at |-> r.at, mode |-> "act"]
           it == [kind |-> "action", at |-> r.at]
<1>2. results[1] = r /\ DOMAIN results = {1} /\ Head(results) = r BY <1>1
<1>3. /\ ep.state = "acted" /\ ep.actedAt = r.at /\ ep.doneAt = 0 /\ running = {}
  BY <1>1, <1>2 DEF GuardInv, Serial
<1>4. /\ results' = <<>> /\ finished' = finished \cup {f} /\ Offer(it)
      /\ IF r.ok THEN records' = AddRecord(rec) /\ states' = {Live(AddRecord(rec), now)}
                 ELSE UNCHANGED <<records, states>>
      /\ ep' = IF r.ok THEN [ep EXCEPT !.act = r.act, !.doneAt = now]
                       ELSE [ep EXCEPT !.state = "reported"]
  <2>1. Finish(r) BY <1>2
  <2>2. Current(r) BY <1>3 DEF Current
  <2>3. r.ok \in BOOLEAN BY DEF Result
  <2>4. ep' = IF r.ok THEN [ep EXCEPT !.act = r.act, !.doneAt = now]
                      ELSE [ep EXCEPT !.state = "reported"]
    BY <2>1, <2>2, <2>3 DEF Finish
  <2> QED BY <1>0, <2>1, <2>4 DEF Finish, Save
<1>5. /\ r.svc \in Services /\ r.act \in {"restart", "stop", "kill"} /\ r.at \in Nat
      /\ r.ok \in BOOLEAN /\ r.decided \in {"restart", "stop"}
      /\ now \in Nat /\ 2 <= now /\ finished \subseteq Finished
      /\ ep \in [state : {"idle", "danger", "acted", "reported", "not_recovered"},
                  act : {"none", "restart", "stop", "kill"}, actedAt : Nat, doneAt : Nat]
      /\ RecoveryWindow \in Nat /\ DangerFor \in Nat /\ RepeatWindow \in Nat
  BY GuardAssumption DEF Result, GuardInv, GuardTypes
<1>6. /\ f \in Finished /\ f.svc = r.svc /\ f.act = r.decided /\ f.at = r.at /\ f.done = now
      /\ f.ok = r.ok
  BY <1>0, <1>5 DEF Finished
<1>7. /\ rec \in Record /\ rec.svc = r.svc /\ rec.at = r.at /\ rec.mode = "act"
  BY <1>5 DEF Record
<1>8. it \in Outcome /\ it.kind = "action" /\ it.at = r.at BY <1>5 DEF Outcome
<1> HIDE DEF rec, it
<1>9. /\ 2 <= r.at /\ r.at <= now /\ \A g \in finished : g.at <= r.at
  BY <1>3 DEF GuardInv, Timely
<1>10. /\ outcomes' \in Seq(Outcome) /\ Len(outcomes') <= OutcomeBuffer
       /\ told \cup Actions(outcomes) \subseteq told' \cup Actions(outcomes')
       /\ r.at \in Actions(outcomes')
  BY <1>4, <1>8, OfferKeeps DEF GuardInv, GuardTypes
<1>11. /\ AddRecord(rec) \subseteq Record /\ Live(records, now) \subseteq AddRecord(rec)
       /\ rec \in AddRecord(rec)
  BY <1>7, <1>9, AddRecordKeeps DEF GuardInv
<1>12. /\ ep' \in [state : {"idle", "danger", "acted", "reported", "not_recovered"},
                   act : {"none", "restart", "stop", "kill"}, actedAt : Nat, doneAt : Nat]
       /\ r.ok => ep'.state = "acted" /\ ep'.actedAt = r.at /\ ep'.doneAt = now
       /\ ~r.ok => ep'.state = "reported"
  BY <1>3, <1>4, <1>5
<1>13. Decided' \subseteq Decided
  <2> DEFINE d == [svc |-> r.svc, act |-> r.decided, at |-> r.at]
  <2>1. d \in Waiting BY <1>2 DEF Waiting
  <2>2. Waiting' = {} BY <1>4 DEF Waiting
  <2>3. ASSUME NEW e \in Decisions' PROVE e \in Decisions \cup {d}
    <3>1. PICK g \in finished' : e = [svc |-> g.svc, act |-> g.act, at |-> g.at]
      BY <1>3, <2>3 DEF Decisions
    <3>2. CASE g \in finished BY <3>1, <3>2 DEF Decisions
    <3>3. CASE g = f BY <1>6, <3>1, <3>3
    <3> QED BY <1>4, <3>2, <3>3
  <2> QED BY <2>1, <2>2, <2>3 DEF Decided
<1>14. GuardTypes'
  <2>1. records' \subseteq Record /\ (states' = {} \/ \E rs \in SUBSET Record : states' = {rs})
    <3>1. CASE r.ok
      <4>1. Live(AddRecord(rec), now) \subseteq Record BY <1>11 DEF Live
      <4> QED BY <1>4, <1>11, <3>1, <4>1
    <3>2. CASE ~r.ok BY <1>4, <3>2 DEF GuardInv, GuardTypes
    <3> QED BY <3>1, <3>2
  <2>2. finished' \subseteq Finished BY <1>4, <1>5, <1>6
  <2>3. Prior' = Prior BY DEF Prior
  <2> QED BY <1>3, <1>4, <1>10, <1>12, <2>1, <2>2, <2>3 DEF GuardInv, GuardTypes
<1>15. Serial' BY <1>3, <1>4 DEF Serial
<1>16. Timely'
  <2>1. ASSUME NEW g \in finished' PROVE 2 <= g.at /\ g.at <= g.done /\ g.done <= now /\ g.at <= r.at
    <3>1. CASE g \in finished BY <1>9, <3>1 DEF GuardInv, Timely
    <3>2. CASE g = f BY <1>5, <1>6, <1>9, <3>2
    <3> QED BY <1>4, <3>1, <3>2
  <2>2. ASSUME NEW d \in Decided' PROVE 2 <= d.at /\ d.at <= now
    BY <1>13, <2>2 DEF GuardInv, Timely
  <2>3. pc' # "collect" /\ now' = now OBVIOUS
  <2>4. ep'.state = "acted" => ep'.actedAt = r.at BY <1>5, <1>12
  <2> QED BY <1>9, <2>1, <2>2, <2>3, <2>4 DEF Timely
<1>17. ASSUME NEW g \in finished, g.ok
       PROVE  g.done \in Nat /\ g.done + RecoveryWindow + DangerFor < r.at
  <2>1. g.done \in Nat /\ 2 <= g.done
    <3>1. g.done \in Nat /\ g.at \in Nat /\ 2 <= g.at /\ g.at <= g.done
      BY <1>5 DEF GuardInv, Timely, Finished
    <3> QED BY <3>1
  <2>2. g.done # 0 BY <2>1
  <2> QED BY <1>3, <1>17, <2>1, <2>2 DEF GuardInv, Spaced, Apart
<1>18. Spaced'
  <2>1. ASSUME NEW g \in finished, g.ok PROVE Apart(g)'
    <3>1. g.done \in Nat /\ g.done + RecoveryWindow + DangerFor < r.at BY <1>17, <2>1
    <3>2. g.done + RecoveryWindow <= now BY <1>5, <1>9, <3>1
    <3> QED BY <1>5, <1>12, <3>1, <3>2 DEF Apart
  <2>2. ASSUME f.ok PROVE Apart(f)' BY <1>6, <1>12, <2>2 DEF Apart
  <2>3. ASSUME NEW g \in finished, g.ok, NEW d \in Decided', g.at < d.at
        PROVE  d.at > g.done + RecoveryWindow + DangerFor
    BY <1>13, <2>3 DEF GuardInv, Spaced
  <2>4. ASSUME NEW d \in Decided' PROVE ~(f.at < d.at)
    <3>1. d \in Decided BY <1>13
    <3>2. d.at <= r.at /\ d.at \in Nat
      <4>1. CASE d \in Waiting BY <1>2, <1>5, <4>1 DEF Waiting
      <4>2. CASE d \in Decisions BY <1>3, <1>5, <1>9, <4>2 DEF Decisions, Finished
      <4> QED BY <3>1, <4>1, <4>2 DEF Decided
    <3> QED BY <1>5, <1>6, <3>2
  <2>5. ASSUME NEW g \in finished', g.ok
        PROVE  Apart(g)' /\ \A d \in Decided' : g.at < d.at => d.at > g.done + RecoveryWindow + DangerFor
    <3>1. CASE g \in finished BY <2>1, <2>3, <2>5, <3>1
    <3>2. CASE g = f BY <2>2, <2>4, <2>5, <3>2
    <3> QED BY <1>4, <3>1, <3>2
  <2> QED BY <2>5 DEF Spaced
<1>19. Kept'
  <2>1. CASE r.ok
    <3>1. records' = AddRecord(rec) /\ states' = {Live(records', now)} BY <1>4, <2>1
    <3>2. \A g \in finished' :
            g \in finished \/ ~g.ok \/ \E x \in records' : x.svc = g.svc /\ x.at = g.at /\ x.mode = "act"
      BY <1>4, <1>6, <1>7, <1>11, <3>1
    <3> QED BY <1>11, <3>1, <3>2, SavedStep DEF GuardInv
  <2>2. CASE ~r.ok
    <3>1. UNCHANGED <<records, states, saved, now, mergedAt>> BY <1>4, <2>2
    <3>2. LastState' = LastState /\ Prior' = Prior BY <3>1 DEF LastState, Prior
    <3>3. \A g \in finished' : g.ok => g \in finished BY <1>4, <1>6, <2>2
    <3> QED BY <3>1, <3>2, <3>3 DEF GuardInv, Kept
  <2> QED BY <2>1, <2>2
<1>20. Repeats'
  <2>1. ASSUME NEW d \in Decided', d.act # "stop" PROVE FirstTime(d)'
    <3>1. FirstTime(d) /\ d \in Decided BY <1>13, <2>1 DEF GuardInv, Repeats
    <3>2. ~(f.at < d.at)
      <4>1. d.at <= r.at /\ d.at \in Nat
        <5>1. CASE d \in Waiting BY <1>2, <1>5, <5>1 DEF Waiting
        <5>2. CASE d \in Decisions BY <1>3, <1>5, <1>9, <5>2 DEF Decisions, Finished
        <5> QED BY <3>1, <5>1, <5>2 DEF Decided
      <4> QED BY <1>5, <1>6, <4>1
    <3>3. \A g \in finished' :
            ~(g.ok /\ g.svc = d.svc /\ g.at < d.at /\ d.at - g.at <= RepeatWindow)
      BY <1>4, <3>1, <3>2 DEF FirstTime
    <3> QED BY <3>1, <3>3 DEF FirstTime, Prior
  <2> QED BY <2>1 DEF Repeats
<1>21. Told' BY <1>4, <1>6, <1>10 DEF GuardInv, Told
<1>22. Closing' BY DEF GuardInv, Closing
<1> QED BY <1>14, <1>15, <1>16, <1>18, <1>19, <1>20, <1>21, <1>22 DEF GuardInv

\* Merging the earlier run's records: they count for the decisions that follow.
LEMMA LateStep ==
  ASSUME GuardInv, CollectLate
  PROVE  GuardInv'
<1> USE DEF outVars, actionVars, reportVars
<1>1. /\ pc = "collect" /\ pc' = "observe" /\ late = {Prior} /\ late' = {} /\ mergedAt' = now
      /\ records' = Live(records \cup Prior, now) /\ states' = {Live(records', now)}
      /\ UNCHANGED <<now, ep, dangerSince, clearSince, results, outcomes, told, running, finished,
                     rpc, saved>>
  <2>1. \E more \in late : records' = Merged(more) /\ Save(Merged(more)) BY DEF CollectLate
  <2>2. late = {Prior} BY <2>1 DEF GuardInv, GuardTypes
  <2> QED BY <2>1, <2>2 DEF CollectLate, Merged, Save
<1>2. Decided' = Decided BY <1>1 DEF Decided, Decisions, Waiting
<1>3. Prior \subseteq Record /\ now \in Nat /\ 2 <= now
  BY GuardAssumption DEF Prior, Record, GuardInv, GuardTypes
<1>4. GuardTypes'
  <2>1. records' \subseteq Record /\ Live(records', now) \subseteq Record
    BY <1>1, <1>3 DEF Live, GuardInv, GuardTypes
  <2>2. states' = {} \/ \E rs \in SUBSET Record : states' = {rs} BY <1>1, <2>1
  <2> QED BY <1>1, <1>3, <2>1, <2>2 DEF GuardInv, GuardTypes
<1>5. Serial' /\ Told' /\ Closing' BY <1>1 DEF GuardInv, Serial, Told, Closing
<1>6. Timely' BY <1>1, <1>2 DEF GuardInv, Timely
<1>7. Spaced' BY <1>1, <1>2 DEF GuardInv, Spaced, Apart
<1>8. Kept'
  <2>1. Live(records, now) \subseteq records' BY <1>1 DEF Live
  <2>2. \A p \in Prior : now - p.at <= RepeatWindow => p \in records' BY <1>1 DEF Live
  <2> QED BY <1>1, <2>1, <2>2, SavedStep DEF GuardInv
<1>9. Repeats'
  <2>1. ASSUME NEW d \in Decided', d.act # "stop" PROVE FirstTime(d)'
    <3>1. FirstTime(d) BY <1>2, <2>1 DEF GuardInv, Repeats
    <3>2. d.at < now BY <1>1, <1>2, <2>1 DEF GuardInv, Timely
    <3>3. d.at \in Nat
      BY <1>2, <2>1 DEF Decided, Decisions, Waiting, GuardInv, GuardTypes, Action, Result, Finished
    <3>4. mergedAt' \notin 1 .. d.at BY <1>1, <1>3, <3>2, <3>3
    <3> QED BY <1>1, <3>1, <3>4 DEF FirstTime, Prior
  <2> QED BY <2>1 DEF Repeats
<1> QED BY <1>4, <1>5, <1>6, <1>7, <1>8, <1>9 DEF GuardInv

-----------------------------------------------------------------------------
(* Readings *)

\* A reading comes long enough after every action that succeeded: a danger that may lead to
\* a decision began after its recovery window, and an episode is judged after it.
LEMMA ReadingApart ==
  ASSUME GuardInv, pc = "observe", NEW f \in finished, f.ok
  PROVE  /\ f.done \in Nat /\ f.at \in Nat
         /\ ep.state \in {"idle", "danger"} =>
              f.done + RecoveryWindow < DangerSince(TRUE) /\ f.done + RecoveryWindow <= now
         /\ ep.state \in {"reported", "not_recovered"} => f.done + RecoveryWindow <= now
         /\ ep.state = "acted" /\ RecoveryOver => f.done + RecoveryWindow <= now
<1>1. /\ f.done \in Nat /\ f.at \in Nat /\ RecoveryWindow \in Nat /\ DangerFor \in Nat
      /\ now \in Nat /\ dangerSince \in Nat /\ dangerSince <= now
      /\ ep.actedAt \in Nat /\ ep.doneAt \in Nat
  BY GuardAssumption DEF GuardInv, GuardTypes, Finished
<1>2. Apart(f) BY DEF GuardInv, Spaced
<1>3. ep.state \in {"idle", "danger"} =>
        f.done + RecoveryWindow < DangerSince(TRUE) /\ f.done + RecoveryWindow <= now
  BY <1>1, <1>2 DEF Apart, DangerSince
<1>4. ep.state = "acted" /\ RecoveryOver => f.done + RecoveryWindow <= now
  <2> SUFFICES ASSUME ep.state = "acted", RecoveryOver PROVE f.done + RecoveryWindow <= now
    OBVIOUS
  <2>1. now - ep.doneAt >= RecoveryWindow /\ ep.actedAt <= now
    BY DEF RecoveryOver, GuardInv, Timely
  <2>2. CASE f.done = ep.doneAt BY <1>1, <2>1, <2>2
  <2>3. CASE f.done + RecoveryWindow + DangerFor < ep.actedAt BY <1>1, <2>1, <2>3
  <2> QED BY <1>2, <2>2, <2>3 DEF Apart
<1> QED BY <1>1, <1>2, <1>3, <1>4 DEF Apart

\* A reading that starts no action.
LEMMA JudgeStep ==
  ASSUME GuardInv, NEW danger \in BOOLEAN, Track(danger), running' = running,
         ep' \in [state : {"idle", "danger", "acted", "reported", "not_recovered"},
                  act : {"none", "restart", "stop", "kill"}, actedAt : Nat, doneAt : Nat],
         ep' = ep \/ ep'.state # "acted",
         running # {} \/ results # <<>> => ep' = ep,
         \A f \in finished : f.ok => Apart(f)',
         records' \subseteq Record, states' = {} \/ \E rs \in SUBSET Record : states' = {rs},
         outcomes' \in Seq(Outcome), Len(outcomes') <= OutcomeBuffer,
         told \cup Actions(outcomes) \subseteq told' \cup Actions(outcomes'),
         Kept'
  PROVE  GuardInv'
<1>1. /\ pc = "observe" /\ pc' = "sleep" /\ UNCHANGED <<now, results, late, finished, rpc, saved, mergedAt>>
      /\ dangerSince' = DangerSince(danger) /\ clearSince' = ClearSince(danger)
  BY DEF Track, reportVars, lateVars
<1>2. Decided' = Decided BY <1>1 DEF Decided, Decisions, Waiting
<1>3. GuardTypes'
  <2>1. dangerSince' \in Nat /\ dangerSince' <= now /\ clearSince' \in Nat
    BY <1>1 DEF GuardInv, GuardTypes, DangerSince, ClearSince
  <2>2. Prior' = Prior BY DEF Prior
  <2> QED BY <1>1, <2>1, <2>2 DEF GuardInv, GuardTypes
<1>4. Serial' BY <1>1 DEF GuardInv, Serial
<1>5. Timely' BY <1>1, <1>2 DEF GuardInv, Timely
<1>6. Spaced' BY <1>1, <1>2 DEF GuardInv, Spaced
<1>7. Repeats' BY <1>1, <1>2 DEF GuardInv, Repeats, FirstTime, Prior
<1>8. Told' BY <1>1 DEF GuardInv, Told
<1>9. Closing' BY <1>1 DEF GuardInv, Closing
<1> QED BY <1>3, <1>4, <1>5, <1>6, <1>7, <1>8, <1>9 DEF GuardInv

\* A reading without a decision.
LEMMA ObserveStep ==
  ASSUME GuardInv, NEW danger \in BOOLEAN, Observe(danger)
  PROVE  GuardInv'
<1>1. /\ Track(danger) /\ pc = "observe" /\ pc' = "sleep" /\ ~Due(danger)
      /\ UNCHANGED <<now, finished, saved, mergedAt, records, running, outcomes, told, states>>
      /\ dangerSince' = DangerSince(danger)
  BY DEF Observe, Track, reportVars, lateVars, outVars
<1>2. /\ ep \in [state : {"idle", "danger", "acted", "reported", "not_recovered"},
                 act : {"none", "restart", "stop", "kill"}, actedAt : Nat, doneAt : Nat]
      /\ now \in Nat /\ 2 <= now /\ dangerSince \in Nat
  BY DEF GuardInv, GuardTypes
<1>3. Kept'
  <2>1. LastState' = LastState /\ Prior' = Prior BY <1>1 DEF LastState, Prior
  <2> QED BY <1>1, <2>1 DEF GuardInv, Kept
<1>4. SUFFICES /\ ep' \in [state : {"idle", "danger", "acted", "reported", "not_recovered"},
                  act : {"none", "restart", "stop", "kill"}, actedAt : Nat, doneAt : Nat]
               /\ ep' = ep \/ ep'.state # "acted"
               /\ running # {} \/ results # <<>> => ep' = ep
               /\ \A f \in finished : f.ok => Apart(f)'
  BY <1>1, <1>3, <1>4, JudgeStep DEF GuardInv, GuardTypes
<1>5. running # {} \/ results # <<>> => ep.state = "acted" /\ ep.doneAt = 0
  BY DEF GuardInv, Serial
<1>6. CASE ~danger /\ EpisodeOver
  <2>1. ep' = NoEpisode BY <1>1, <1>6 DEF Observe
  <2>2. ep.state = "acted" => RecoveryOver /\ ep.doneAt # 0 BY <1>6 DEF EpisodeOver, RecoveryOver
  <2>3. dangerSince' = 0 BY <1>1, <1>6 DEF DangerSince
  <2>4. ASSUME NEW f \in finished, f.ok PROVE Apart(f)'
    <3>1. f.done + RecoveryWindow <= now BY <1>1, <1>2, <2>2, <2>4, ReadingApart
    <3> QED BY <1>1, <2>1, <2>3, <3>1 DEF Apart, NoEpisode
  <2> QED BY <1>5, <2>1, <2>2, <2>4 DEF NoEpisode
<1>7. CASE danger /\ ep.state = "idle"
  <2>1. ep' = [NoEpisode EXCEPT !.state = "danger"] BY <1>7 DEF Observe
  <2>2. dangerSince' # 0 /\ dangerSince' = DangerSince(TRUE) BY <1>1, <1>2, <1>7 DEF DangerSince
  <2>3. ASSUME NEW f \in finished, f.ok PROVE Apart(f)'
    <3>1. f.done + RecoveryWindow < DangerSince(TRUE) BY <1>1, <1>7, <2>3, ReadingApart
    <3> QED BY <2>1, <2>2, <3>1 DEF Apart, NoEpisode
  <2> QED BY <1>5, <1>7, <2>1, <2>3 DEF NoEpisode
<1>8. CASE ~(~danger /\ EpisodeOver) /\ ~(danger /\ ep.state = "idle")
  <2>1. ep' = ep BY <1>8 DEF Observe
  <2>2. ep.state # "idle" /\ (ep.state = "danger" => danger) BY <1>8 DEF EpisodeOver
  <2>3. ASSUME NEW f \in finished, f.ok PROVE Apart(f)'
    <3>1. Apart(f) BY <2>3 DEF GuardInv, Spaced
    <3>2. CASE ep.state = "danger"
      <4>1. dangerSince' # 0 /\ dangerSince' = DangerSince(TRUE)
        BY <1>1, <1>2, <2>2, <3>2 DEF DangerSince
      <4>2. f.done + RecoveryWindow < DangerSince(TRUE) BY <1>1, <2>3, <3>2, ReadingApart
      <4> QED BY <2>1, <3>2, <4>1, <4>2 DEF Apart
    <3>3. CASE ep.state # "danger" BY <1>1, <2>1, <2>2, <3>1, <3>3 DEF Apart
    <3> QED BY <3>2, <3>3
  <2> QED BY <1>2, <2>1, <2>3
<1> QED BY <1>6, <1>7, <1>8

\* A decision finds the last action's episode over, and danger that held.
LEMMA DecisionApart ==
  ASSUME GuardInv, Track(TRUE), ep.state # "acted", Due(TRUE)
  PROVE  /\ pc = "observe" /\ ep.state \in {"idle", "danger"} /\ running = {} /\ results = <<>>
         /\ \A f \in finished : f.ok =>
              f.done + RecoveryWindow <= now /\ f.done + RecoveryWindow + DangerFor < now
<1>1. pc = "observe" BY DEF Track
<1>2. ep.state \in {"idle", "danger"} /\ now - DangerSince(TRUE) >= DangerFor BY DEF Due, DangerHeld
<1>3. running = {} /\ results = <<>> BY DEF GuardInv, Serial
<1>4. ASSUME NEW f \in finished, f.ok
      PROVE  f.done + RecoveryWindow <= now /\ f.done + RecoveryWindow + DangerFor < now
  <2>1. f.done \in Nat /\ f.done + RecoveryWindow < DangerSince(TRUE) /\ f.done + RecoveryWindow <= now
    BY <1>1, <1>2, <1>4, ReadingApart
  <2>2. DangerSince(TRUE) \in Nat /\ now \in Nat /\ DangerFor \in Nat /\ RecoveryWindow \in Nat
    BY GuardAssumption DEF DangerSince, GuardInv, GuardTypes
  <2> DEFINE since == IF dangerSince = 0 THEN now ELSE dangerSince
  <2>3. DangerSince(TRUE) = since BY DEF DangerSince
  <2>4. since \in Nat /\ now - since >= DangerFor /\ f.done + RecoveryWindow < since
    BY <1>2, <2>1, <2>2, <2>3
  <2> HIDE DEF since
  <2> QED BY <2>1, <2>2, <2>4, HeldAfter
<1> QED BY <1>1, <1>2, <1>3, <1>4

\* A decision that only reports.
LEMMA ReportStep ==
  ASSUME GuardInv, NotRecovered \/ ReportOnly \/ \E svc \in Services \ Protected : WouldAct(svc)
  PROVE  GuardInv'
<1>1. PICK kind \in {"reported", "not_recovered"} :
        /\ Track(TRUE) /\ running' = running
        /\ Offer([kind |-> kind, at |-> now]) /\ ep' = [ep EXCEPT !.state = kind]
  BY DEF NotRecovered, ReportOnly, WouldAct
<1>2. /\ ep \in [state : {"idle", "danger", "acted", "reported", "not_recovered"},
                 act : {"none", "restart", "stop", "kill"}, actedAt : Nat, doneAt : Nat]
      /\ now \in Nat /\ 2 <= now
  BY DEF GuardInv, GuardTypes
<1>3. /\ pc = "observe" /\ pc' = "sleep" /\ UNCHANGED <<now, finished, saved, mergedAt>>
  BY <1>1 DEF Track, reportVars, lateVars
<1>4. [kind |-> kind, at |-> now] \in Outcome BY <1>2 DEF Outcome
<1>5. /\ outcomes' \in Seq(Outcome) /\ Len(outcomes') <= OutcomeBuffer
      /\ told \cup Actions(outcomes) \subseteq told' \cup Actions(outcomes')
  BY <1>1, <1>4, OfferKeeps DEF GuardInv, GuardTypes
<1>6. /\ running = {} /\ results = <<>>
      /\ \A f \in finished : f.ok => f.done + RecoveryWindow <= now
  <2>1. CASE NotRecovered
    <3>1. ep.state = "acted" /\ RecoveryOver /\ ep.doneAt # 0
      BY <2>1 DEF NotRecovered, Due, RecoveryOver
    <3> QED BY <1>3, <3>1, ReadingApart DEF GuardInv, Serial
  <2>2. CASE ReportOnly \/ \E svc \in Services \ Protected : WouldAct(svc)
    <3>1. ep.state # "acted" /\ Due(TRUE) BY <2>2 DEF ReportOnly, WouldAct
    <3> QED BY <1>1, <3>1, DecisionApart
  <2> QED BY <2>1, <2>2
<1>7. /\ ep' \in [state : {"idle", "danger", "acted", "reported", "not_recovered"},
                  act : {"none", "restart", "stop", "kill"}, actedAt : Nat, doneAt : Nat]
      /\ ep'.state = kind /\ ep'.state # "acted"
  BY <1>1, <1>2
<1>8. \A f \in finished : f.ok => Apart(f)' BY <1>3, <1>6, <1>7 DEF Apart
<1>9. /\ records' \subseteq Record /\ (states' = {} \/ \E rs \in SUBSET Record : states' = {rs})
      /\ Kept'
  <2>1. CASE NotRecovered \/ ReportOnly
    <3>1. UNCHANGED <<records, states>> BY <2>1 DEF NotRecovered, ReportOnly
    <3>2. LastState' = LastState /\ Prior' = Prior BY <1>3, <3>1 DEF LastState, Prior
    <3> QED BY <1>3, <3>1, <3>2 DEF GuardInv, GuardTypes, Kept
  <2>2. ASSUME NEW svc \in Services \ Protected, WouldAct(svc)
        PROVE  /\ records' \subseteq Record /\ (states' = {} \/ \E rs \in SUBSET Record : states' = {rs})
               /\ Kept'
    <3> DEFINE rec == [svc |-> svc, act |-> ActionFor(svc), at |-> now, mode |-> "report"]
    <3>1. records' = AddRecord(rec) /\ states' = {Live(records', now)} BY <2>2 DEF WouldAct, Save
    <3>2. rec \in Record /\ rec.at = now BY <1>2 DEF Record, ActionFor
    <3> HIDE DEF rec
    <3>3. records' \subseteq Record /\ Live(records, now) \subseteq records'
      BY <1>2, <3>1, <3>2, AddRecordKeeps DEF GuardInv
    <3>4. Live(records', now) \subseteq Record BY <3>3 DEF Live
    <3>5. Kept' BY <1>3, <3>1, <3>3, SavedStep DEF GuardInv
    <3> QED BY <3>1, <3>3, <3>4, <3>5
  <2> QED BY <2>1, <2>2
<1> QED BY <1>1, <1>5, <1>6, <1>7, <1>8, <1>9, JudgeStep

\* A decision to act: it comes after every earlier action's windows, and stops a service
\* that has one in its repeat window.
LEMMA ActStep ==
  ASSUME GuardInv, NEW svc \in Services \ Protected, Act(svc)
  PROVE  GuardInv'
<1>1. /\ Track(TRUE) /\ pc = "observe" /\ pc' = "sleep" /\ ep.state # "acted" /\ Due(TRUE)
      /\ UNCHANGED <<now, results, late, finished, rpc, saved, mergedAt, records, outcomes, told, states>>
      /\ dangerSince' = DangerSince(TRUE) /\ clearSince' = ClearSince(TRUE)
      /\ ep' = [state |-> "acted", act |-> ActionFor(svc), actedAt |-> now, doneAt |-> 0]
      /\ running' = running \cup {[svc |-> svc, act |-> ActionFor(svc), at |-> now, pc |-> "run"]}
  BY DEF Act, Track, reportVars, lateVars, outVars
<1>2. /\ running = {} /\ results = <<>>
      /\ \A f \in finished : f.ok => f.done + RecoveryWindow + DangerFor < now
  BY <1>1, DecisionApart
<1>3. now \in Nat /\ 2 <= now /\ dangerSince \in Nat /\ finished \subseteq Finished
      /\ RepeatWindow \in Nat
  BY GuardAssumption DEF GuardInv, GuardTypes
<1>4. PICK a : a = [svc |-> svc, act |-> ActionFor(svc), at |-> now, pc |-> "run"]
  OBVIOUS
<1>5. /\ a \in Action /\ a.svc = svc /\ a.act = ActionFor(svc) /\ a.at = now /\ running' = {a}
  BY <1>1, <1>2, <1>3, <1>4 DEF Action, ActionFor
<1>6. /\ ep' \in [state : {"idle", "danger", "acted", "reported", "not_recovered"},
                  act : {"none", "restart", "stop", "kill"}, actedAt : Nat, doneAt : Nat]
      /\ ep'.state = "acted" /\ ep'.actedAt = now /\ ep'.doneAt = 0
  BY <1>1, <1>3 DEF ActionFor
<1>7. PICK d : d = [svc |-> a.svc, act |-> a.act, at |-> a.at]
  OBVIOUS
<1>8. Decided' \subseteq Decided \cup {d} /\ d.svc = svc /\ d.act = ActionFor(svc) /\ d.at = now
  <2>1. Decisions' = Decisions \cup {d} BY <1>1, <1>2, <1>5, <1>7 DEF Decisions
  <2>2. Waiting' = Waiting BY <1>1 DEF Waiting
  <2> QED BY <1>5, <1>7, <2>1, <2>2 DEF Decided
<1>9. GuardTypes'
  <2>1. dangerSince' \in Nat /\ dangerSince' <= now /\ clearSince' \in Nat
    BY <1>1 DEF GuardInv, GuardTypes, DangerSince, ClearSince
  <2>2. Prior' = Prior BY DEF Prior
  <2> QED BY <1>1, <1>2, <1>5, <1>6, <2>1, <2>2 DEF GuardInv, GuardTypes
<1>10. Serial' BY <1>1, <1>2, <1>5, <1>6 DEF Serial
<1>11. Timely'
  <2>1. ASSUME NEW f \in finished PROVE 2 <= f.at /\ f.at <= f.done /\ f.done <= now /\ f.at <= now
    <3>1. f.at \in Nat /\ f.done \in Nat BY <1>3 DEF Finished
    <3> QED BY <1>3, <3>1 DEF GuardInv, Timely
  <2>2. ASSUME NEW e \in Decided' PROVE 2 <= e.at /\ e.at <= now
    BY <1>3, <1>8, <2>2 DEF GuardInv, Timely
  <2> QED BY <1>1, <1>3, <1>6, <2>1, <2>2 DEF Timely
<1>12. Spaced'
  <2>1. ASSUME NEW f \in finished, f.ok PROVE Apart(f)' BY <1>2, <1>6, <2>1 DEF Apart
  <2>2. ASSUME NEW f \in finished, f.ok, NEW e \in Decided', f.at < e.at
        PROVE  e.at > f.done + RecoveryWindow + DangerFor
    <3>1. CASE e \in Decided BY <2>2, <3>1 DEF GuardInv, Spaced
    <3>2. CASE e = d
      <4>1. f.done \in Nat /\ RecoveryWindow \in Nat /\ DangerFor \in Nat
        BY <1>3, GuardAssumption DEF Finished
      <4> QED BY <1>2, <1>3, <1>8, <2>2, <3>2, <4>1
    <3> QED BY <1>8, <3>1, <3>2
  <2> QED BY <1>1, <2>1, <2>2 DEF Spaced
<1>13. Kept'
  <2>1. LastState' = LastState /\ Prior' = Prior BY <1>1 DEF LastState, Prior
  <2> QED BY <1>1, <2>1 DEF GuardInv, Kept
<1>14. Repeats'
  <2>1. ASSUME NEW e \in Decided, e.act # "stop" PROVE FirstTime(e)'
    BY <1>1, <2>1 DEF GuardInv, Repeats, FirstTime, Prior
  <2>2. ASSUME d.act # "stop" PROVE FirstTime(d)'
    <3>1. RepeatWindow = 0 \/ \A r \in Live(records, now) : ~(r.svc = svc /\ r.mode = "act")
      BY <1>3, <1>8, <2>2 DEF ActionFor
    <3>2. ASSUME NEW f \in finished, f.ok, f.svc = svc, f.at < now, now - f.at <= RepeatWindow
          PROVE  FALSE
      <4>1. PICK r \in records : r.svc = f.svc /\ r.at = f.at /\ r.mode = "act"
        BY <3>2 DEF GuardInv, Kept
      <4>2. r \in Live(records, now) BY <3>2, <4>1 DEF Live
      <4>3. RepeatWindow # 0
        <5>1. f.at \in Nat BY <1>3 DEF Finished
        <5> QED BY <1>3, <3>2, <5>1
      <4> QED BY <3>1, <3>2, <4>1, <4>2, <4>3
    <3>3. ASSUME NEW p \in Prior, mergedAt \in 1 .. now, p.svc = svc, now - p.at <= RepeatWindow
          PROVE  FALSE
      <4>1. p \in records BY <3>3 DEF GuardInv, Kept
      <4>2. p \in Live(records, now) BY <3>3, <4>1 DEF Live
      <4>3. p.at = 1 /\ p.mode = "act" BY DEF Prior
      <4>4. RepeatWindow # 0 BY <1>3, <3>3, <4>3
      <4> QED BY <3>1, <3>3, <4>2, <4>3, <4>4
    <3> QED BY <1>1, <1>8, <3>2, <3>3 DEF FirstTime, Prior
  <2> QED BY <1>8, <2>1, <2>2 DEF Repeats
<1>15. Told' /\ Closing' BY <1>1 DEF GuardInv, Told, Closing
<1> QED BY <1>9, <1>10, <1>11, <1>12, <1>13, <1>14, <1>15 DEF GuardInv

-----------------------------------------------------------------------------
(* Theorems *)

\* The guard starts with no action, no record and nothing to tell.
LEMMA GuardInit == Init => GuardInv
<1> SUFFICES ASSUME Init PROVE GuardInv
  OBVIOUS
<1>1. GuardTypes
  <2>1. <<>> \in Seq(Outcome) /\ Len(<<>>) = 0 OBVIOUS
  <2>2. Len(<<>>) <= OutcomeBuffer BY <2>1, GuardAssumption
  <2> QED BY <2>1, <2>2 DEF Init, GuardTypes, NoEpisode
<1>2. Decided = {} BY DEF Init, Decided, Decisions, Waiting
<1>3. Serial /\ Timely /\ Spaced /\ Kept /\ Repeats /\ Told /\ Closing
  BY <1>2 DEF Init, NoEpisode, Serial, Timely, Spaced, Kept, Repeats, Told, Closing
<1> QED BY <1>1, <1>3 DEF GuardInv

\* Every step of the loop, the action's goroutine, the reporter and the daemon keeps it.
LEMMA GuardStep == GuardInv /\ [Next]_vars => GuardInv'
<1> SUFFICES ASSUME GuardInv, [Next]_vars PROVE GuardInv'
  OBVIOUS
<1>1. CASE CollectResult
  BY <1>1, FinishStep DEF CollectResult, reportVars, lateVars
<1>2. CASE Leave
  <2>1. CASE results = <<>> BY <1>2, <2>1, QuietStep
  <2>2. CASE results # <<>> BY <1>2, <2>2, FinishStep DEF Leave, reportVars, lateVars
  <2> QED BY <2>1, <2>2
<1> QED
  BY <1>1, <1>2, QuietStep, ActionStepKeeps, LateStep, ObserveStep, ReportStep, ActStep
  DEF Next, LoopStep

\* The invariant of every state of the guard.
THEOREM GuardInvariant == Spec => []GuardInv
  BY GuardInit, GuardStep, PTL DEF Spec

\* FR-006: whatever the reporter, the late records and the stop do meanwhile, actions run one
\* at a time and a successful one is followed by the whole recovery window and a danger held
\* anew before the next, for any windows and services.
THEOREM ActionsAreSpaced == Spec => []ActionsSpaced
<1>1. GuardInv => ActionsSpaced
  <2> SUFFICES ASSUME GuardInv PROVE ActionsSpaced
    OBVIOUS
  <2>1. /\ Cardinality(running) + Len(results) <= 1
        /\ Len(results) <= 1 /\ Cardinality(late) <= 1 /\ Cardinality(states) <= 1
    <3>1. Cardinality({}) = 0 BY FS_EmptySet
    <3>2. \A x : Cardinality({x}) = 1 BY FS_Singleton
    <3>3. results = <<>> => Len(results) = 0 OBVIOUS
    <3>4. ASSUME NEW r, results = <<r>> PROVE Len(results) = 1 BY <3>4
    <3>5. running = {} \/ (Cardinality(running) = 1 /\ results = <<>>)
      BY <3>2 DEF GuardInv, GuardTypes, Serial
    <3>6. Len(results) = 0 \/ Len(results) = 1 BY <3>3, <3>4 DEF GuardInv, GuardTypes
    <3>7. Cardinality(running) + Len(results) <= 1
      <4>1. CASE running = {}
        <5>1. Cardinality(running) = 0 BY <3>1, <4>1
        <5>2. CASE Len(results) = 0 BY <5>1, <5>2
        <5>3. CASE Len(results) = 1 BY <5>1, <5>3
        <5> QED BY <3>6, <5>2, <5>3
      <4>2. CASE Cardinality(running) = 1 /\ results = <<>>
        <5>1. Len(results) = 0 BY <3>3, <4>2
        <5> QED BY <4>2, <5>1
      <4> QED BY <3>5, <4>1, <4>2
    <3>8. Cardinality(late) = 0 \/ Cardinality(late) = 1 BY <3>1, <3>2 DEF GuardInv, GuardTypes
    <3>9. Cardinality(states) = 0 \/ Cardinality(states) = 1 BY <3>1, <3>2 DEF GuardInv, GuardTypes
    <3> QED BY <3>6, <3>7, <3>8, <3>9
  <2>2. TypeOK BY <2>1 DEF TypeOK, GuardInv, GuardTypes
  <2>3. OneActionAtATime BY <2>1 DEF OneActionAtATime, GuardInv, Serial
  <2>4. ASSUME NEW f \in finished, NEW d \in Decisions, f.ok, f.at < d.at
        PROVE  d.at > f.done + RecoveryWindow + DangerFor
    BY <2>4 DEF GuardInv, Spaced, Decided
  <2> QED BY <2>2, <2>3, <2>4 DEF ActionsSpaced
<1> QED BY <1>1, GuardInvariant, PTL

\* FR-005: a service with an action in its repeat window is stopped the next time, the
\* earlier run's actions counting from the moment RestoreLate's records are merged.
THEOREM RepeatsAreStopped == Spec => []RepeatIsStopped
<1>1. GuardInv => RepeatIsStopped
  BY DEF GuardInv, Repeats, FirstTime, Decided, RepeatIsStopped
<1> QED BY <1>1, GuardInvariant, PTL

\* Once the reporter is done, each finished action was told, or dropped by the full buffer,
\* and the last saved records hold every successful one of the window.
THEOREM AllToldAndKept == Spec => []ToldAndKept
<1>1. GuardInv => ToldAndKept
  <2> SUFFICES ASSUME GuardInv, rpc = "done"
               PROVE  /\ {f.at : f \in finished} \subseteq told
                      /\ \A f \in finished : f.ok /\ now - f.at <= RepeatWindow
                           => \E r \in saved : r.svc = f.svc /\ r.at = f.at
    BY DEF ToldAndKept
  <2>1. outcomes = <<>> /\ states = {} BY DEF GuardInv, Closing
  <2>2. LastState = saved BY <2>1 DEF LastState
  <2>3. Actions(outcomes) = {} BY <2>1 DEF Actions
  <2> QED BY <2>2, <2>3 DEF GuardInv, Told, Kept
<1> QED BY <1>1, GuardInvariant, PTL
=============================================================================
