-------------------------- MODULE ModemProbeProofs --------------------------
(***************************************************************************)
(* Proofs about ModemProbe for any week, reply and silence times, copies,   *)
(* stops and crashes.                                                       *)
(*                                                                          *)
(* The probe's state lives in three places: in memory, in the last          *)
(* checkpoint, and, while a send is under way, in what a failure would put  *)
(* back.  The invariants say the same of all three: which replies may still *)
(* match (TokenInv), which returns were reported (ReturnInv) and which      *)
(* slots are behind it (SlotInv).                                           *)
(***************************************************************************)
EXTENDS ModemProbe, TLAPS

State == [sentAt : Nat, token : Nat, lastOK : Nat, firstMissing : Nat, badAt : Nat, goodFor : Nat]

Run == [pc : {"idle", "send", "judge", "apply"}, at : Nat, timedOut : BOOLEAN,
        prev : [sentAt : Nat, token : Nat], failed : BOOLEAN, verdict : {"none", "bad", "good"},
        dropped : BOOLEAN]

\* The types of the state, and what a run and a process may be in the middle of.
ProbeTypes ==
  /\ now \in Nat /\ 1 <= now /\ sends \in Nat /\ lastRun \in Nat /\ lastReturn \in Nat
  /\ lastReturn <= now /\ lastRun <= now
  /\ st \in State /\ stored \in [st : State, problem : Nat] /\ problem \in Nat
  /\ run \in Run /\ {restored, stopping} \subseteq BOOLEAN

LifeInv ==
  /\ ~restored => run = Idle /\ problem = 0 /\ st = ZeroState
  /\ run.pc = "idle" => run = Idle
  /\ run.pc # "idle" => run.at = lastRun
  /\ stopping => run.pc = "idle" \/ run.dropped
  /\ run.dropped => run.pc \in {"send", "judge"}
  /\ run.pc \in {"send", "judge"} => run.verdict = "none"

\* Every row marked processed was told, and so is what is being marked.
MarkInv ==
  /\ \A r \in arrived \ inbox : Said(r) \in told
  /\ \A r \in marking : Said(r) \in told

-----------------------------------------------------------------------------

\* The replies that are still to be handled, or handled again.
Replies == {r \in air \cup inbox \cup UNION left : r.kind = "reply"}

\* The probe with this token was sent at this time: its reply says so.
SentThen(token, sentAt) ==
  token # 0 => sentAt # 0 /\ token <= sends /\ \A r \in Replies : r.id = token => r.at = sentAt

\* A reply in time to this probe is still to come, or was forgotten with a process.
Unanswered(token) == token # 0 => token \notin taken \ forgotten

TokenInv ==
  /\ \A r \in Replies : r.id \in Nat /\ 1 <= r.id /\ r.id <= sends /\ r.at \in Nat
  /\ taken \subseteq 1 .. sends
  /\ SentThen(st.token, st.sentAt) /\ SentThen(stored.st.token, stored.st.sentAt)
  /\ SentThen(run.prev.token, run.prev.sentAt)
  /\ Unanswered(st.token)
  /\ ~restored => Unanswered(stored.st.token)
  /\ run.pc = "send" => /\ Unanswered(run.prev.token) /\ run.prev.token < sends
                        /\ st.token = sends /\ st.sentAt = run.at /\ sends # 0 /\ run.at # 0
                        /\ sends \notin taken /\ \A r \in Replies : r.id # sends
                        /\ stored.st.token = sends => stored.st.sentAt = run.at
  /\ run.timedOut => /\ run.prev.token # 0 /\ Unanswered(run.prev.token)
                     /\ now - run.prev.sentAt >= ReplyWithin

-----------------------------------------------------------------------------

\* Of one state: its return and its bad are of the past, and a good was given before the
\* probe that is out was sent.
Past(s) ==
  /\ s.lastOK <= lastReturn /\ s.goodFor <= lastReturn /\ s.badAt <= lastRun
  /\ s.token # 0 => s.goodFor < s.sentAt
  /\ s.sentAt <= lastRun

\* Of one state and its condition: a return that was reported good ended the problem, unless
\* that good was dropped.
Reported(s, p) ==
  /\ p <= s.badAt
  /\ p # 0 /\ s.lastOK # 0 /\ s.lastOK = s.goodFor /\ s.lastOK >= s.badAt => s.lastOK \in droppedGood

ReturnInv ==
  /\ Past(st) /\ Past(stored.st)
  /\ Reported(stored.st, stored.problem)
  /\ problem <= st.badAt
  /\ ~(run.pc = "apply" /\ run.verdict = "good") => Reported(st, problem)
  /\ run.pc \in {"send", "judge"} => st.goodFor < run.at
  /\ run.pc = "send" /\ run.prev.token # 0 => st.goodFor < run.prev.sentAt
  /\ run.prev.sentAt <= lastRun
  /\ run.pc = "apply" /\ run.verdict = "bad" => st.badAt = run.at /\ st.goodFor < run.at
  /\ GoodNeedsReturn

-----------------------------------------------------------------------------

\* The slots whose probe went out lie before the time of the last send.
SlotInv ==
  /\ slots \subseteq Int
  /\ ~restored => \A s \in slots : s <= stored.st.sentAt
  /\ restored /\ run.pc # "send" => \A s \in slots : s <= st.sentAt
  /\ run.pc = "send" => /\ st.sentAt = run.at
                        /\ \A s \in slots : s <= run.prev.sentAt /\ s < LastSlot(run.at)

ProbeInv == ProbeTypes /\ LifeInv /\ MarkInv /\ TokenInv /\ ReturnInv /\ SlotInv

-----------------------------------------------------------------------------
(* What the steps that change the probe's state do to its fields *)

\* The start of a run: either a new probe is due and goes out, or nothing is sent.
LEMMA PrepareFacts ==
  ASSUME ProbeTypes, Prepare
  PROVE  /\ restored /\ ~stopping /\ run.pc = "idle" /\ lastRun < now /\ lastReturn < now
         /\ lastRun' = now /\ st' \in State
         /\ st'.lastOK = st.lastOK /\ st'.badAt = st.badAt /\ st'.goodFor = st.goodFor
         /\ run' \in Run /\ run'.at = now /\ run'.verdict = "none" /\ run'.dropped = FALSE
         /\ run'.prev.sentAt = st.sentAt /\ run'.prev.token = st.token
         /\ run'.timedOut => st.token # 0 /\ now - st.sentAt >= ReplyWithin
         /\ \/ /\ run'.pc = "send" /\ sends' = sends + 1 /\ st'.sentAt = now /\ st'.token = sends + 1
               /\ LastSlot(now) > st.sentAt
            \/ /\ run'.pc = "judge" /\ sends' = sends /\ st'.sentAt = st.sentAt /\ st'.token = st.token
<1>1. PICK a : a = FirstRun(st)
  OBVIOUS
<1>2. /\ a \in State /\ a.sentAt = st.sentAt /\ a.token = st.token /\ a.lastOK = st.lastOK
      /\ a.badAt = st.badAt /\ a.goodFor = st.goodFor
  BY <1>1 DEF FirstRun, ProbeTypes, State
<1>3. PICK s : s = Missing(a)
  OBVIOUS
<1>4. /\ s \in State /\ s.sentAt = st.sentAt /\ s.token = st.token /\ s.lastOK = st.lastOK
      /\ s.badAt = st.badAt /\ s.goodFor = st.goodFor
  BY <1>2, <1>3 DEF Missing, State
<1>5. s = Missing(FirstRun(st)) BY <1>1, <1>3
<1>6. TimedOut(s) \in BOOLEAN /\ (TimedOut(s) => st.token # 0 /\ now - st.sentAt >= ReplyWithin)
  BY <1>4 DEF TimedOut, Outstanding
<1>7. now \in Nat /\ sends \in Nat /\ sends + 1 \in Nat BY DEF ProbeTypes
<1> DEFINE prev == [sentAt |-> s.sentAt, token |-> s.token]
<1>8. prev \in [sentAt : Nat, token : Nat] /\ prev.sentAt = st.sentAt /\ prev.token = st.token
  BY <1>4 DEF State
<1> HIDE DEF prev
<1>9. CASE Due(s)
  <2>1. /\ sends' = sends + 1 /\ st' = [s EXCEPT !.sentAt = now, !.token = sends + 1]
        /\ run' = [Idle EXCEPT !.pc = "send", !.at = now, !.timedOut = TimedOut(s), !.prev = prev]
    BY <1>5, <1>9 DEF Prepare, prev
  <2>2. /\ st' \in State /\ st'.lastOK = st.lastOK /\ st'.badAt = st.badAt /\ st'.goodFor = st.goodFor
        /\ st'.sentAt = now /\ st'.token = sends + 1
    BY <1>4, <1>7, <2>1 DEF State
  <2>3. /\ run' \in Run /\ run'.at = now /\ run'.verdict = "none" /\ run'.dropped = FALSE
        /\ run'.pc = "send" /\ run'.timedOut = TimedOut(s) /\ run'.prev = prev
    BY <1>6, <1>7, <1>8, <2>1 DEF Idle, Run
  <2>4. LastSlot(now) > st.sentAt
    <3>1. LastSlot(now) > (IF st.sentAt # 0 THEN st.sentAt ELSE s.firstMissing) BY <1>4, <1>9 DEF Due
    <3>2. st.sentAt \in Nat /\ s.firstMissing \in Nat BY <1>4 DEF State, ProbeTypes
    <3>3. LastSlot(now) \in Int BY <1>7, ProbeAssumption DEF LastSlot
    <3> QED BY <3>1, <3>2, <3>3
  <2> QED BY <1>6, <1>8, <2>1, <2>2, <2>3, <2>4 DEF Prepare
<1>10. CASE ~Due(s)
  <2>1. /\ sends' = sends /\ st' = s
        /\ run' = [Idle EXCEPT !.pc = "judge", !.at = now, !.timedOut = TimedOut(s), !.prev = prev]
    BY <1>5, <1>10 DEF Prepare, prev
  <2>2. /\ run' \in Run /\ run'.at = now /\ run'.verdict = "none" /\ run'.dropped = FALSE
        /\ run'.pc = "judge" /\ run'.timedOut = TimedOut(s) /\ run'.prev = prev
    BY <1>6, <1>7, <1>8, <2>1 DEF Idle, Run
  <2> QED BY <1>4, <1>6, <1>8, <2>1, <2>2 DEF Prepare
<1> QED BY <1>9, <1>10

\* No run.
LEMMA IdleFacts ==
  /\ Idle \in Run /\ Idle.pc = "idle" /\ Idle.timedOut = FALSE /\ Idle.prev.token = 0
  /\ Idle.prev.sentAt = 0 /\ Idle.dropped = FALSE
  /\ ZeroState \in State /\ ZeroState.token = 0 /\ ZeroState.sentAt = 0 /\ ZeroState.lastOK = 0
  /\ ZeroState.badAt = 0 /\ ZeroState.goodFor = 0
  BY DEF Idle, ZeroState, Run, State

\* A send that succeeds leaves the run to judge.
LEMMA SendOKFacts ==
  ASSUME ProbeTypes, SendOK
  PROVE  /\ run' \in Run /\ run'.pc = "judge" /\ run'.at = run.at /\ run'.timedOut = run.timedOut
         /\ run'.prev = run.prev /\ run'.verdict = run.verdict /\ run'.dropped = run.dropped
  BY DEF ProbeTypes, SendOK, Run

\* A send that fails puts back when the last probe was sent, and its token.
LEMMA SendFailsFacts ==
  ASSUME ProbeTypes, NEW inserted \in BOOLEAN, SendFails(inserted)
  PROVE  /\ st' \in State /\ st'.sentAt = run.prev.sentAt /\ st'.token = run.prev.token
         /\ st'.lastOK = st.lastOK /\ st'.badAt = st.badAt /\ st'.goodFor = st.goodFor
         /\ run' \in Run
         /\ \/ run' = Idle
            \/ /\ ~stopping /\ run'.pc = "judge" /\ run'.at = run.at /\ run'.timedOut = run.timedOut
               /\ run'.prev = run.prev /\ run'.verdict = run.verdict /\ run'.dropped = run.dropped
<1>1. run \in Run /\ run.prev \in [sentAt : Nat, token : Nat] /\ st \in State /\ stopping \in BOOLEAN
  BY DEF ProbeTypes, Run
<1>2. st' = [st EXCEPT !.sentAt = run.prev.sentAt, !.token = run.prev.token] BY DEF SendFails
<1>3. /\ st' \in State /\ st'.sentAt = run.prev.sentAt /\ st'.token = run.prev.token
      /\ st'.lastOK = st.lastOK /\ st'.badAt = st.badAt /\ st'.goodFor = st.goodFor
  BY <1>1, <1>2 DEF State
<1>4. CASE stopping \/ run.dropped BY <1>3, <1>4, IdleFacts DEF SendFails
<1>5. CASE ~(stopping \/ run.dropped)
  <2>1. run' = [run EXCEPT !.pc = "judge", !.failed = TRUE] BY <1>5 DEF SendFails
  <2>2. /\ run' \in Run /\ run'.pc = "judge" /\ run'.at = run.at /\ run'.timedOut = run.timedOut
        /\ run'.prev = run.prev /\ run'.verdict = run.verdict /\ run'.dropped = run.dropped
    BY <1>1, <2>1 DEF Run
  <2> QED BY <1>3, <1>5, <2>2
<1> QED BY <1>4, <1>5

\* judge: bad, good, or nothing; a run nobody waits for is over.
LEMMA JudgeFacts ==
  ASSUME ProbeTypes, Judge
  PROVE  /\ st' \in State /\ st'.sentAt = st.sentAt /\ st'.token = st.token /\ st'.lastOK = st.lastOK
         /\ run' \in Run
         /\ \E v \in {"none", "bad", "good"} :
              /\ v = "bad" => st'.badAt = run.at /\ st'.goodFor = st.goodFor
              /\ v = "good" => GoodDue /\ st'.badAt = st.badAt /\ st'.goodFor = st.lastOK
              /\ v = "none" => st'.badAt = st.badAt /\ st'.goodFor = st.goodFor
              /\ \/ run.dropped /\ run' = Idle
                 \/ /\ ~run.dropped /\ run'.pc = "apply" /\ run'.verdict = v /\ run'.at = run.at
                    /\ run'.timedOut = run.timedOut /\ run'.prev = run.prev /\ run'.dropped = run.dropped
              /\ droppedGood' = IF run.dropped /\ v = "good" THEN droppedGood \cup {st.lastOK}
                                ELSE droppedGood
<1> DEFINE v == IF IsBad THEN "bad" ELSE IF GoodDue THEN "good" ELSE "none"
<1>1. run \in Run /\ st \in State BY DEF ProbeTypes
<1>2. /\ st' = CASE IsBad -> [st EXCEPT !.badAt = run.at]
                 [] ~IsBad /\ GoodDue -> [st EXCEPT !.goodFor = st.lastOK]
                 [] OTHER -> st
      /\ run' = IF run.dropped THEN Idle ELSE [run EXCEPT !.pc = "apply", !.verdict = v]
      /\ droppedGood' = IF run.dropped /\ v = "good" THEN droppedGood \cup {st.lastOK} ELSE droppedGood
  BY DEF Judge, JudgedBad
<1>3. v \in {"none", "bad", "good"} OBVIOUS
<1>4. /\ v = "bad" => IsBad
      /\ v = "good" => ~IsBad /\ GoodDue
      /\ v = "none" => ~IsBad /\ ~GoodDue
  OBVIOUS
<1> HIDE DEF v
<1>5. /\ st' \in State /\ st'.sentAt = st.sentAt /\ st'.token = st.token /\ st'.lastOK = st.lastOK
      /\ v = "bad" => st'.badAt = run.at /\ st'.goodFor = st.goodFor
      /\ v = "good" => GoodDue /\ st'.badAt = st.badAt /\ st'.goodFor = st.lastOK
      /\ v = "none" => st'.badAt = st.badAt /\ st'.goodFor = st.goodFor
  <2>0. run.at \in Nat BY <1>1 DEF Run
  <2>1. CASE v = "bad"
    <3>1. st' = [st EXCEPT !.badAt = run.at] BY <1>2, <1>4, <2>1
    <3> QED BY <1>1, <2>0, <2>1, <3>1 DEF State
  <2>2. CASE v = "good"
    <3>1. st' = [st EXCEPT !.goodFor = st.lastOK] BY <1>2, <1>4, <2>2
    <3> QED BY <1>1, <1>4, <2>2, <3>1 DEF State
  <2>3. CASE v = "none"
    <3>1. st' = st BY <1>2, <1>4, <2>3
    <3> QED BY <1>1, <2>3, <3>1
  <2> QED BY <1>3, <2>1, <2>2, <2>3
<1>6. /\ run' \in Run
      /\ \/ run.dropped /\ run' = Idle
         \/ /\ ~run.dropped /\ run'.pc = "apply" /\ run'.verdict = v /\ run'.at = run.at
            /\ run'.timedOut = run.timedOut /\ run'.prev = run.prev /\ run'.dropped = run.dropped
  <2>1. CASE run.dropped BY <1>2, <2>1, IdleFacts
  <2>2. CASE ~run.dropped
    <3>1. run' = [run EXCEPT !.pc = "apply", !.verdict = v] BY <1>2, <2>2
    <3> QED BY <1>1, <1>3, <2>2, <3>1 DEF Run
  <2> QED BY <2>1, <2>2
<1> QED BY <1>2, <1>3, <1>5, <1>6

\* A run that loses its tick, by the deadline or by a stop.
LEMMA DropFacts ==
  ASSUME ProbeTypes, run' = [run EXCEPT !.dropped = TRUE]
  PROVE  /\ run' \in Run /\ run'.pc = run.pc /\ run'.at = run.at /\ run'.timedOut = run.timedOut
         /\ run'.prev = run.prev /\ run'.verdict = run.verdict /\ run'.dropped = TRUE
  BY DEF ProbeTypes, Run

\* A matched reply.
LEMMA ConsumeFacts ==
  ASSUME ProbeTypes, NEW g, Consume(g)
  PROVE  /\ st' \in State /\ st'.sentAt = st.sentAt /\ st'.token = 0 /\ st'.lastOK = now
         /\ st'.badAt = st.badAt /\ st'.goodFor = st.goodFor /\ lastReturn' = now
         /\ st.token # 0 /\ st.sentAt # 0 /\ \E r \in g : r.kind = "reply" /\ r.id = st.token
<1>1. st \in State /\ now \in Nat BY DEF ProbeTypes
<1>2. st' = [st EXCEPT !.lastOK = now, !.token = 0, !.firstMissing = 0] /\ lastReturn' = now /\ Match(g)
  BY DEF Consume
<1>3. /\ st' \in State /\ st'.sentAt = st.sentAt /\ st'.token = 0 /\ st'.lastOK = now
      /\ st'.badAt = st.badAt /\ st'.goodFor = st.goodFor
  BY <1>1, <1>2 DEF State
<1> QED BY <1>2, <1>3 DEF Match, Outstanding

-----------------------------------------------------------------------------
(* Types, and the lives of a run and of a process *)

\* Every step keeps the types.
LEMMA TypesStep ==
  ASSUME ProbeTypes, LifeInv, TokenInv, [Next]_vars
  PROVE  ProbeTypes'
<1> USE DEF lifeVars, probeVars, workVars
<1>0. SUFFICES /\ now' \in Nat /\ 1 <= now' /\ sends' \in Nat /\ lastRun' \in Nat /\ lastReturn' \in Nat
               /\ lastReturn' <= now' /\ lastRun' <= now'
               /\ st' \in State /\ stored' \in [st : State, problem : Nat] /\ problem' \in Nat
               /\ run' \in Run /\ {restored', stopping'} \subseteq BOOLEAN
  BY <1>0 DEF ProbeTypes
<1>1. CASE Prepare
  <2>1. UNCHANGED <<now, restored, stopping, problem, stored, lastReturn>> BY <1>1 DEF Prepare
  <2> QED BY <1>1, <2>1, PrepareFacts DEF ProbeTypes
<1>2. CASE SendOK
  BY <1>2, SendOKFacts DEF SendOK, ProbeTypes
<1>3. ASSUME NEW inserted \in BOOLEAN, SendFails(inserted)
      PROVE  /\ now' \in Nat /\ 1 <= now' /\ sends' \in Nat /\ lastRun' \in Nat /\ lastReturn' \in Nat
             /\ lastReturn' <= now' /\ lastRun' <= now'
             /\ st' \in State /\ stored' \in [st : State, problem : Nat] /\ problem' \in Nat
             /\ run' \in Run /\ {restored', stopping'} \subseteq BOOLEAN
  <2>1. /\ UNCHANGED <<now, restored, stopping, problem, stored, lastReturn, lastRun>>
        /\ run.pc = "send" /\ (sends' = sends \/ sends' = sends - 1)
    BY <1>3 DEF SendFails
  <2>2. sends \in Nat /\ sends # 0 BY <2>1 DEF ProbeTypes, TokenInv
  <2>3. sends' \in Nat BY <2>1, <2>2
  <2> QED BY <1>3, <2>1, <2>3, SendFailsFacts DEF ProbeTypes
<1>4. CASE Judge
  BY <1>4, JudgeFacts DEF Judge, ProbeTypes
<1>5. CASE Apply
  <2>1. run.at \in Nat BY DEF ProbeTypes, Run
  <2>2. problem' \in Nat
    <3>1. CASE run.verdict = "bad" BY <1>5, <2>1, <3>1 DEF Apply
    <3>2. CASE run.verdict = "good" BY <1>5, <3>2 DEF Apply
    <3>3. CASE run.verdict # "bad" /\ run.verdict # "good" BY <1>5, <3>3 DEF Apply, ProbeTypes
    <3> QED BY <3>1, <3>2, <3>3
  <2>3. run' = Idle /\ UNCHANGED <<now, restored, stopping, st, stored, lastReturn, lastRun, sends>>
    BY <1>5 DEF Apply
  <2> QED BY <2>2, <2>3, IdleFacts DEF ProbeTypes
<1>6. CASE Abandon
  BY <1>6, DropFacts DEF Abandon, ProbeTypes
<1>7. ASSUME NEW g \in left, Consume(g)
      PROVE  /\ now' \in Nat /\ 1 <= now' /\ sends' \in Nat /\ lastRun' \in Nat /\ lastReturn' \in Nat
             /\ lastReturn' <= now' /\ lastRun' <= now'
             /\ st' \in State /\ stored' \in [st : State, problem : Nat] /\ problem' \in Nat
             /\ run' \in Run /\ {restored', stopping'} \subseteq BOOLEAN
  BY <1>7, ConsumeFacts DEF Consume, Handled, ProbeTypes
<1>8. CASE Poll \/ (\E g \in left : Skip(g) \/ Forward(g) \/ ForwardFails(g)) \/ \E ok \in BOOLEAN : Mark(ok)
  <2>1. UNCHANGED <<now, restored, stopping, st, stored, problem, run, lastReturn, lastRun, sends>>
    BY <1>8 DEF Poll, Skip, Forward, Handled, ForwardFails, Mark
  <2> QED BY <2>1 DEF ProbeTypes
<1>9. CASE Network
  <2>1. UNCHANGED <<now, restored, stopping, st, stored, problem, run, lastReturn, lastRun, sends>>
    BY <1>9 DEF Network, ReplyArrives, PartArrives, Arrive
  <2> QED BY <2>1 DEF ProbeTypes
<1>10. CASE Tick
  <2>1. /\ now' = now + 1
        /\ UNCHANGED <<restored, stopping, st, stored, problem, run, lastReturn, lastRun, sends>>
    BY <1>10 DEF Tick
  <2> QED BY <2>1 DEF ProbeTypes
<1>11. CASE Load BY <1>11 DEF Load, ProbeTypes
<1>12. CASE Checkpoint BY <1>12 DEF Checkpoint, Export, ProbeTypes
<1>13. CASE Stop
  <2>1. run' \in Run
    <3>1. CASE run.pc \in {"idle", "apply"} BY <1>13, <3>1, IdleFacts DEF Stop
    <3>2. CASE run.pc \notin {"idle", "apply"} BY <1>13, <3>2, DropFacts DEF Stop
    <3> QED BY <3>1, <3>2
  <2> QED BY <1>13, <2>1 DEF Stop, ProbeTypes
<1>14. ASSUME NEW saved \in [st : State, problem : Nat], Ends(saved)
      PROVE  /\ now' \in Nat /\ 1 <= now' /\ sends' \in Nat /\ lastRun' \in Nat /\ lastReturn' \in Nat
             /\ lastReturn' <= now' /\ lastRun' <= now'
             /\ st' \in State /\ stored' \in [st : State, problem : Nat] /\ problem' \in Nat
             /\ run' \in Run /\ {restored', stopping'} \subseteq BOOLEAN
  BY <1>14, IdleFacts DEF Ends, ProbeTypes
<1>15. CASE StopCheckpoint \/ EndUnsaved \/ Crash
  <2>1. Export \in [st : State, problem : Nat] /\ stored \in [st : State, problem : Nat]
    BY DEF Export, ProbeTypes
  <2> QED BY <1>14, <1>15, <2>1 DEF StopCheckpoint, EndUnsaved, Crash
<1>16. CASE UNCHANGED vars BY <1>16 DEF vars, ProbeTypes
<1> QED
  BY <1>1, <1>2, <1>3, <1>4, <1>5, <1>6, <1>7, <1>8, <1>9, <1>10, <1>11, <1>12, <1>13, <1>15, <1>16
  DEF Next, ProbeStep, WorkerStep, Daemon

\* Every step of a run keeps what a run may be.
LEMMA LifeStep ==
  ASSUME ProbeTypes, LifeInv, [Next]_vars
  PROVE  LifeInv'
<1> USE DEF lifeVars, probeVars, workVars
<1>1. CASE Prepare
  <2>1. UNCHANGED <<restored, stopping>> BY <1>1 DEF Prepare
  <2> QED BY <1>1, <2>1, PrepareFacts DEF LifeInv
<1>2. CASE SendOK BY <1>2, SendOKFacts, IdleFacts DEF SendOK, LifeInv
<1>3. ASSUME NEW inserted \in BOOLEAN, SendFails(inserted) PROVE LifeInv'
  <2>1. run.pc = "send" /\ UNCHANGED <<restored, stopping, lastRun>> BY <1>3 DEF SendFails
  <2>2. restored BY <2>1, IdleFacts DEF LifeInv
  <2> QED BY <1>3, <2>1, <2>2, SendFailsFacts, IdleFacts DEF LifeInv
<1>4. CASE Judge
  <2>1. run.pc = "judge" /\ UNCHANGED <<restored, stopping, lastRun>> BY <1>4 DEF Judge
  <2>2. restored BY <2>1, IdleFacts DEF LifeInv
  <2> QED BY <1>4, <2>1, <2>2, JudgeFacts, IdleFacts DEF LifeInv
<1>5. CASE Apply
  <2>1. run.pc = "apply" /\ run' = Idle /\ ~stopping /\ UNCHANGED <<restored, stopping, lastRun>>
    BY <1>5 DEF Apply
  <2>2. restored BY <2>1, IdleFacts DEF LifeInv
  <2> QED BY <2>1, <2>2, IdleFacts DEF LifeInv
<1>6. CASE Abandon
  <2>1. run.pc \in {"send", "judge"} /\ UNCHANGED <<restored, stopping, lastRun>> BY <1>6 DEF Abandon
  <2>2. restored BY <2>1, IdleFacts DEF LifeInv
  <2> QED BY <1>6, <2>1, <2>2, DropFacts DEF Abandon, LifeInv
<1>7. ASSUME NEW g \in left, Consume(g) PROVE LifeInv'
  <2>1. st.token # 0 BY <1>7, ConsumeFacts
  <2>2. restored BY <2>1, IdleFacts DEF LifeInv
  <2> QED BY <1>7, <2>2 DEF Consume, Handled, LifeInv
<1>8. CASE Poll \/ (\E g \in left : Skip(g) \/ Forward(g) \/ ForwardFails(g)) \/ \E ok \in BOOLEAN : Mark(ok)
  <2>1. UNCHANGED <<restored, stopping, st, problem, run, lastRun>>
    BY <1>8 DEF Poll, Skip, Forward, Handled, ForwardFails, Mark
  <2> QED BY <2>1 DEF LifeInv
<1>9. CASE Network \/ Tick \/ Checkpoint \/ UNCHANGED vars
  <2>1. UNCHANGED <<restored, stopping, st, problem, run, lastRun>>
    BY <1>9 DEF Network, ReplyArrives, PartArrives, Arrive, Tick, Checkpoint, vars
  <2> QED BY <2>1 DEF LifeInv
<1>10. CASE Load BY <1>10, IdleFacts DEF Load, LifeInv
<1>11. CASE Stop
  <2>1. UNCHANGED <<restored, st, problem, lastRun>> BY <1>11 DEF Stop
  <2>2. CASE run.pc \in {"idle", "apply"} BY <1>11, <2>1, <2>2, IdleFacts DEF Stop, LifeInv
  <2>3. CASE run.pc \notin {"idle", "apply"}
    <3>1. restored BY <2>3, IdleFacts DEF LifeInv
    <3>2. run.pc \in {"send", "judge"} BY <2>3 DEF ProbeTypes, Run
    <3> QED BY <1>11, <2>1, <2>3, <3>1, <3>2, DropFacts DEF Stop, LifeInv
  <2> QED BY <2>2, <2>3
<1>12. CASE StopCheckpoint \/ EndUnsaved \/ Crash
  <2>1. run' = Idle /\ problem' = 0 /\ st' = ZeroState /\ stopping' = FALSE
    BY <1>12 DEF StopCheckpoint, EndUnsaved, Crash, Ends
  <2> QED BY <2>1, IdleFacts DEF LifeInv
<1> QED
  BY <1>1, <1>2, <1>3, <1>4, <1>5, <1>6, <1>7, <1>8, <1>9, <1>10, <1>11, <1>12
  DEF Next, ProbeStep, WorkerStep, Daemon

-----------------------------------------------------------------------------
(* Forwarding *)

\* A row is marked after it was told.
LEMMA MarkStep ==
  ASSUME MarkInv, [Next]_vars
  PROVE  MarkInv'
<1> USE DEF lifeVars, probeVars, workVars
<1>1. CASE ProbeStep
  BY <1>1 DEF ProbeStep, Prepare, SendOK, SendFails, Judge, Apply, Abandon, MarkInv, Said
<1>2. ASSUME NEW g \in left, Handled(g) PROVE MarkInv'
  BY <1>2 DEF Handled, MarkInv, Said
<1>3. CASE Poll \/ (\E g \in left : Skip(g) \/ ForwardFails(g)) \/ \E ok \in BOOLEAN : Mark(ok)
  BY <1>3 DEF Poll, Skip, ForwardFails, KeepUnprocessed, Mark, MarkInv, Said
<1>4. CASE Network
  BY <1>4 DEF Network, ReplyArrives, PartArrives, Arrive, MarkInv, Said
<1>5. CASE Daemon
  BY <1>5 DEF Daemon, Tick, Load, Checkpoint, Stop, StopCheckpoint, EndUnsaved, Crash, Ends, MarkInv, Said
<1>6. CASE UNCHANGED vars BY <1>6 DEF vars, MarkInv, Said
<1> QED BY <1>1, <1>2, <1>3, <1>4, <1>5, <1>6 DEF Next, WorkerStep, Consume, Forward

-----------------------------------------------------------------------------
(* Slots *)

\* A slot is not after the time it is the last slot of.
LEMMA SlotIsPast ==
  ASSUME NEW t \in Nat
  PROVE  LastSlot(t) \in Int /\ LastSlot(t) <= t
  BY ProbeAssumption DEF LastSlot

\* A step that sends nothing and leaves the time of the last send alone.
LEMMA SameSlots ==
  ASSUME SlotInv, UNCHANGED <<slots, restored>>, st'.sentAt = st.sentAt,
         stored'.st.sentAt = stored.st.sentAt \/ restored,
         run'.pc = "send" => run.pc = "send" /\ run'.at = run.at /\ run'.prev = run.prev,
         run'.pc # "send" => run.pc # "send"
  PROVE  SlotInv'
  BY DEF SlotInv, LastSlot

\* Every step keeps the sent slots behind the last send.
LEMMA SlotStep ==
  ASSUME ProbeTypes, LifeInv, SlotInv, [Next]_vars
  PROVE  SlotInv'
<1> USE DEF lifeVars, probeVars, workVars
<1>0. st \in State /\ run \in Run /\ st.sentAt \in Nat /\ run.at \in Nat /\ now \in Nat /\ slots \subseteq Int
  BY DEF ProbeTypes, State, Run, SlotInv
<1>1. CASE Prepare
  <2>1. UNCHANGED <<slots, restored>> /\ stored' = stored BY <1>1 DEF Prepare
  <2>2. restored /\ run.pc = "idle" /\ run'.prev.sentAt = st.sentAt /\ run'.at = now
    BY <1>1, PrepareFacts
  <2>3. \A s \in slots : s <= st.sentAt BY <2>2 DEF SlotInv
  <2>4. CASE run'.pc = "send"
    <3>1. st'.sentAt = now /\ LastSlot(now) > st.sentAt BY <1>1, <2>4, PrepareFacts
    <3>2. LastSlot(now) \in Int BY <1>0, SlotIsPast
    <3>3. \A s \in slots : s < LastSlot(now) BY <1>0, <2>3, <3>1, <3>2
    <3>4. LastSlot(run.at)' = LastSlot(now) BY <2>2 DEF LastSlot
    <3> QED BY <1>0, <2>1, <2>2, <2>3, <2>4, <3>1, <3>3, <3>4 DEF SlotInv
  <2>5. CASE run'.pc # "send"
    <3>1. st'.sentAt = st.sentAt BY <1>1, <2>5, PrepareFacts
    <3> QED BY <2>1, <2>2, <2>3, <2>5, <3>1 DEF SlotInv
  <2> QED BY <2>4, <2>5
<1>2. CASE SendOK
  <2>1. /\ UNCHANGED <<restored, st, stored>> /\ slots' = slots \cup {LastSlot(run.at)} /\ run.pc = "send"
        /\ run'.pc = "judge"
    BY <1>2, SendOKFacts DEF SendOK
  <2>2. restored BY <2>1, IdleFacts DEF LifeInv
  <2>3. LastSlot(run.at) \in Int /\ LastSlot(run.at) <= run.at BY <1>0, SlotIsPast
  <2>4. st.sentAt = run.at /\ \A s \in slots : s < LastSlot(run.at) BY <2>1 DEF SlotInv
  <2>5. \A s \in slots : s <= st.sentAt BY <1>0, <2>3, <2>4
  <2>6. slots' \subseteq Int /\ \A s \in slots' : s <= st.sentAt BY <1>0, <2>1, <2>3, <2>4, <2>5
  <2> QED BY <2>1, <2>2, <2>6 DEF SlotInv
<1>3. ASSUME NEW inserted \in BOOLEAN, SendFails(inserted) PROVE SlotInv'
  <2>1. run.pc = "send" /\ UNCHANGED <<restored, stored, slots>> BY <1>3 DEF SendFails
  <2>2. restored BY <2>1, IdleFacts DEF LifeInv
  <2>3. st'.sentAt = run.prev.sentAt /\ run'.pc # "send" BY <1>3, SendFailsFacts, IdleFacts
  <2> QED BY <2>1, <2>2, <2>3 DEF SlotInv
<1>4. CASE Judge
  <2>1. run.pc = "judge" /\ UNCHANGED <<restored, stored, slots>> BY <1>4 DEF Judge
  <2>2. st'.sentAt = st.sentAt /\ run'.pc # "send" BY <1>4, JudgeFacts, IdleFacts
  <2> QED BY <2>1, <2>2, SameSlots
<1>5. CASE Apply
  BY <1>5, IdleFacts, SameSlots DEF Apply
<1>6. CASE Abandon
  BY <1>6, DropFacts, SameSlots DEF Abandon
<1>7. ASSUME NEW g \in left, Consume(g) PROVE SlotInv'
  BY <1>7, ConsumeFacts, SameSlots DEF Consume, Handled
<1>8. CASE Poll \/ (\E g \in left : Skip(g) \/ Forward(g) \/ ForwardFails(g)) \/ \E ok \in BOOLEAN : Mark(ok)
  <2>1. UNCHANGED <<restored, st, stored, run, slots>>
    BY <1>8 DEF Poll, Skip, Forward, Handled, ForwardFails, Mark
  <2> QED BY <2>1, SameSlots
<1>9. CASE Network \/ Tick \/ UNCHANGED vars
  <2>1. UNCHANGED <<restored, st, stored, run, slots>>
    BY <1>9 DEF Network, ReplyArrives, PartArrives, Arrive, Tick, vars
  <2> QED BY <2>1, SameSlots
<1>10. CASE Load
  <2>1. ~restored /\ restored' = TRUE /\ st' = stored.st /\ UNCHANGED <<run, slots, stored>> BY <1>10 DEF Load
  <2>2. run.pc = "idle" BY <2>1, IdleFacts DEF LifeInv
  <2> QED BY <2>1, <2>2 DEF SlotInv
<1>11. CASE Checkpoint BY <1>11, SameSlots DEF Checkpoint
<1>12. CASE Stop
  <2>1. UNCHANGED <<restored, st, stored, slots>> BY <1>12 DEF Stop
  <2>2. CASE run.pc \in {"idle", "apply"} BY <1>12, <2>1, <2>2, IdleFacts, SameSlots DEF Stop
  <2>3. CASE run.pc \notin {"idle", "apply"} BY <1>12, <2>1, <2>3, DropFacts, SameSlots DEF Stop
  <2> QED BY <2>2, <2>3
<1>13. CASE StopCheckpoint \/ EndUnsaved \/ Crash
  <2>1. PICK saved : Ends(saved) BY <1>13 DEF StopCheckpoint, EndUnsaved, Crash
  <2>2. restored' = FALSE /\ run' = Idle /\ stored' = saved /\ slots' = {s \in slots : s <= saved.st.sentAt}
    BY <2>1 DEF Ends
  <2> QED BY <1>0, <2>2, IdleFacts DEF SlotInv
<1> QED
  BY <1>1, <1>2, <1>3, <1>4, <1>5, <1>6, <1>7, <1>8, <1>9, <1>10, <1>11, <1>12, <1>13
  DEF Next, ProbeStep, WorkerStep, Daemon

-----------------------------------------------------------------------------
(* Returns and the condition *)

\* The numbers in a state and in a run.
LEMMA Numbers ==
  ASSUME ProbeTypes
  PROVE  /\ {st.sentAt, st.token, st.lastOK, st.badAt, st.goodFor} \subseteq Nat
         /\ {stored.st.sentAt, stored.st.token, stored.st.lastOK, stored.st.badAt, stored.st.goodFor}
              \subseteq Nat
         /\ {run.at, run.prev.sentAt, run.prev.token, now, lastRun, lastReturn, problem, sends} \subseteq Nat
         /\ stored.problem \in Nat
         /\ run.dropped \in BOOLEAN /\ run.timedOut \in BOOLEAN
  BY DEF ProbeTypes, State, Run

\* No step takes back a run, a return or a good nobody heard of.
LEMMA NothingTakenBack ==
  ASSUME ProbeTypes, [Next]_vars
  PROVE  lastRun <= lastRun' /\ lastReturn <= lastReturn' /\ now <= now' /\ droppedGood \subseteq droppedGood'
<1> USE DEF lifeVars, probeVars, workVars
<1>0. now \in Nat /\ lastRun \in Nat /\ lastReturn \in Nat /\ lastReturn <= now /\ lastRun <= now
  BY DEF ProbeTypes
<1>1. CASE ProbeStep
  BY <1>0, <1>1 DEF ProbeStep, Prepare, SendOK, SendFails, Judge, Apply, Abandon
<1>2. CASE WorkerStep
  BY <1>0, <1>2 DEF WorkerStep, Poll, Skip, Consume, Forward, Handled, ForwardFails, Mark
<1>3. CASE Network
  BY <1>0, <1>3 DEF Network, ReplyArrives, PartArrives, Arrive
<1>4. CASE Daemon
  BY <1>0, <1>4 DEF Daemon, Tick, Load, Checkpoint, Stop, StopCheckpoint, EndUnsaved, Crash, Ends
<1>5. CASE UNCHANGED vars BY <1>0, <1>5 DEF vars
<1> QED BY <1>1, <1>2, <1>3, <1>4, <1>5 DEF Next

\* A step that writes no checkpoint keeps what is true of the last one.
LEMMA SavedKept ==
  ASSUME ProbeTypes, ProbeTypes', ReturnInv, [Next]_vars, stored' = stored
  PROVE  Past(stored.st)' /\ Reported(stored.st, stored.problem)'
<1>1. lastRun <= lastRun' /\ lastReturn <= lastReturn' /\ droppedGood \subseteq droppedGood' BY NothingTakenBack
<1>2. {lastRun, lastReturn, lastRun', lastReturn'} \subseteq Nat BY DEF ProbeTypes
<1> QED BY <1>1, <1>2, Numbers DEF ReturnInv, Past, Reported

\* A step that leaves the probe's state, its run and the condition alone.
LEMMA SameReturns ==
  ASSUME ProbeTypes, ProbeTypes', ReturnInv, [Next]_vars, UNCHANGED <<stored, st, problem, run>>
  PROVE  ReturnInv'
<1>1. lastRun <= lastRun' /\ lastReturn <= lastReturn' /\ droppedGood \subseteq droppedGood' BY NothingTakenBack
<1>2. {lastRun, lastReturn, lastRun', lastReturn'} \subseteq Nat BY DEF ProbeTypes
<1>3. Past(stored.st)' /\ Reported(stored.st, stored.problem)' BY SavedKept
<1>4. Past(st)' BY <1>1, <1>2, Numbers DEF ReturnInv, Past
<1>5. Reported(st, problem) => Reported(st, problem)' BY <1>1 DEF Reported
<1>6. GoodNeedsReturn' BY <1>1, <1>2, Numbers DEF ReturnInv, GoodNeedsReturn
<1> QED BY <1>1, <1>2, <1>3, <1>4, <1>5, <1>6, Numbers DEF ReturnInv

\* Every step keeps what was reported of the returns.
LEMMA ReturnStep ==
  ASSUME ProbeTypes, ProbeTypes', LifeInv, TokenInv, ReturnInv, [Next]_vars
  PROVE  ReturnInv'
<1> USE DEF lifeVars, probeVars, workVars
<1>0. /\ {st.sentAt, st.token, st.lastOK, st.badAt, st.goodFor} \subseteq Nat
      /\ {run.at, run.prev.sentAt, run.prev.token, now, lastRun, lastReturn, problem} \subseteq Nat
      /\ lastReturn <= now /\ lastRun <= now
  BY Numbers DEF ProbeTypes
<1>1. lastRun <= lastRun' /\ lastReturn <= lastReturn' /\ droppedGood \subseteq droppedGood' BY NothingTakenBack
<1>2. CASE Prepare
  <2>1. UNCHANGED <<stored, problem, lastReturn, droppedGood>> BY <1>2 DEF Prepare
  <2>2. Past(stored.st)' /\ Reported(stored.st, stored.problem)' BY <2>1, SavedKept
  <2>3. /\ run.pc = "idle" /\ lastRun < now /\ lastReturn < now /\ lastRun' = now
        /\ st'.lastOK = st.lastOK /\ st'.badAt = st.badAt /\ st'.goodFor = st.goodFor
        /\ run'.prev.sentAt = st.sentAt /\ run'.prev.token = st.token /\ run'.at = now
        /\ run'.verdict = "none" /\ run'.pc # "apply"
        /\ \/ st'.sentAt = now
           \/ st'.sentAt = st.sentAt /\ st'.token = st.token
    BY <1>2, PrepareFacts
  <2>4. /\ Past(st) /\ Reported(st, problem) BY <2>3 DEF ReturnInv
  <2>5. st.goodFor < now BY <1>0, <2>3, <2>4 DEF Past
  <2>6. Past(st)' BY <1>0, <2>1, <2>3, <2>4, <2>5 DEF Past
  <2>7. Reported(st, problem)' BY <2>1, <2>3, <2>4 DEF Reported
  <2>8. run'.prev.token # 0 => st'.goodFor < run'.prev.sentAt BY <2>3, <2>4 DEF Past
  <2>9. run'.prev.sentAt <= lastRun' BY <1>0, <2>3, <2>4 DEF Past
  <2> QED BY <2>2, <2>3, <2>5, <2>6, <2>7, <2>8, <2>9 DEF ReturnInv, GoodNeedsReturn, Reported
<1>3. CASE SendOK
  <2>1. UNCHANGED <<st, stored, problem, lastReturn, lastRun, droppedGood>> /\ run.pc = "send" BY <1>3 DEF SendOK
  <2>2. run'.pc = "judge" /\ run'.at = run.at /\ run'.prev = run.prev BY <1>3, SendOKFacts
  <2> QED BY <2>1, <2>2 DEF ReturnInv, Past, Reported, GoodNeedsReturn
<1>4. ASSUME NEW inserted \in BOOLEAN, SendFails(inserted) PROVE ReturnInv'
  <2>1. UNCHANGED <<stored, problem, lastReturn, lastRun, droppedGood>> /\ run.pc = "send"
    BY <1>4 DEF SendFails
  <2>2. /\ st'.sentAt = run.prev.sentAt /\ st'.token = run.prev.token
        /\ st'.lastOK = st.lastOK /\ st'.badAt = st.badAt /\ st'.goodFor = st.goodFor
    BY <1>4, SendFailsFacts
  <2>3. Past(st)' BY <2>1, <2>2 DEF ReturnInv, Past
  <2>4. Reported(st, problem)' BY <2>1, <2>2 DEF ReturnInv, Reported
  <2>5. Past(stored.st)' /\ Reported(stored.st, stored.problem)' BY <2>1, SavedKept
  <2>6. \/ run'.pc = "idle" /\ run'.prev.sentAt = 0
        \/ run'.pc = "judge" /\ run'.at = run.at /\ run'.prev = run.prev
    BY <1>4, SendFailsFacts, IdleFacts
  <2> QED BY <1>0, <2>1, <2>2, <2>3, <2>4, <2>5, <2>6 DEF ReturnInv, Reported, GoodNeedsReturn
<1>5. CASE Judge
  <2>1. run.pc = "judge" /\ UNCHANGED <<stored, problem, lastReturn, lastRun>> BY <1>5 DEF Judge
  <2>2. Past(stored.st)' /\ Reported(stored.st, stored.problem)' BY <2>1, SavedKept
  <2>3. run.at = lastRun /\ st.goodFor < run.at /\ run.prev.sentAt <= lastRun /\ problem <= st.badAt
    BY <2>1 DEF LifeInv, ReturnInv
  <2>4. Past(st) /\ Reported(st, problem) BY <2>1 DEF ReturnInv
  <2>5. st'.sentAt = st.sentAt /\ st'.token = st.token /\ st'.lastOK = st.lastOK BY <1>5, JudgeFacts
  <2>6. PICK v \in {"none", "bad", "good"} :
              /\ v = "bad" => st'.badAt = run.at /\ st'.goodFor = st.goodFor
              /\ v = "good" => GoodDue /\ st'.badAt = st.badAt /\ st'.goodFor = st.lastOK
              /\ v = "none" => st'.badAt = st.badAt /\ st'.goodFor = st.goodFor
              /\ \/ run.dropped /\ run' = Idle
                 \/ /\ ~run.dropped /\ run'.pc = "apply" /\ run'.verdict = v /\ run'.at = run.at
                    /\ run'.timedOut = run.timedOut /\ run'.prev = run.prev /\ run'.dropped = run.dropped
              /\ droppedGood' = IF run.dropped /\ v = "good" THEN droppedGood \cup {st.lastOK}
                                ELSE droppedGood
    BY <1>5, JudgeFacts
  <2>7. run'.prev.sentAt <= lastRun' BY <1>0, <2>1, <2>3, <2>6, IdleFacts
  <2>8. run'.pc \in {"idle", "apply"} BY <2>6, IdleFacts
  <2>9. CASE v = "bad"
    <3>1. Past(st)' BY <1>0, <2>1, <2>3, <2>4, <2>5, <2>6, <2>9 DEF Past
    <3>2. problem <= run.at BY <1>0, <2>3, <2>4 DEF Past
    <3>3. Reported(st, problem)' BY <1>0, <2>1, <2>3, <2>5, <2>6, <2>9, <3>2 DEF Reported
    <3>4. run'.pc = "apply" => run'.verdict = "bad" /\ run'.at = run.at BY <2>6, <2>9, IdleFacts
    <3> QED BY <2>2, <2>3, <2>6, <2>7, <2>8, <2>9, <3>1, <3>3, <3>4 DEF ReturnInv, Reported, GoodNeedsReturn
  <2>10. CASE v = "good"
    <3>1. st.lastOK >= st.badAt /\ st.token = 0
      BY <1>0, <2>6, <2>10 DEF GoodDue, Outstanding, TokenInv, SentThen
    <3>2. Past(st)' BY <1>0, <2>1, <2>4, <2>5, <2>6, <2>10, <3>1 DEF Past
    <3>3. problem' <= st'.badAt BY <2>1, <2>3, <2>6, <2>10
    <3>4. problem <= lastReturn BY <1>0, <2>3, <2>4, <3>1 DEF Past
    <3>5. run'.pc = "apply" \/ Reported(st, problem)' BY <2>1, <2>5, <2>6, <2>10, <3>3 DEF Reported
    <3>6. run'.pc = "apply" => run'.verdict = "good" BY <2>6, <2>10, IdleFacts
    <3> QED BY <1>0, <2>1, <2>2, <2>7, <2>8, <3>2, <3>3, <3>4, <3>5, <3>6 DEF ReturnInv, GoodNeedsReturn
  <2>11. CASE v = "none"
    <3>1. Past(st)' BY <2>1, <2>4, <2>5, <2>6, <2>11 DEF Past
    <3>2. Reported(st, problem)' BY <2>1, <2>4, <2>5, <2>6, <2>11 DEF Reported
    <3>3. run'.pc = "apply" => run'.verdict = "none" BY <2>6, <2>11, IdleFacts
    <3> QED BY <2>2, <2>7, <2>8, <3>1, <3>2, <3>3 DEF ReturnInv, GoodNeedsReturn, Reported
  <2> QED BY <2>6, <2>9, <2>10, <2>11
<1>6. CASE Apply
  <2>1. run.pc = "apply" /\ UNCHANGED <<st, stored, lastReturn, lastRun, droppedGood>> /\ run' = Idle
    BY <1>6 DEF Apply
  <2>2. Reported(st, problem)'
    <3>1. CASE run.verdict = "bad"
      <4>1. problem' = run.at /\ st.badAt = run.at /\ st.goodFor < run.at BY <1>6, <2>1, <3>1 DEF Apply, ReturnInv
      <4> QED BY <1>0, <2>1, <4>1 DEF Reported
    <3>2. CASE run.verdict = "good"
      <4>1. problem' = 0 BY <1>6, <3>2 DEF Apply
      <4> QED BY <1>0, <2>1, <4>1 DEF Reported
    <3>3. CASE run.verdict # "bad" /\ run.verdict # "good"
      <4>1. problem' = problem BY <1>6, <3>3 DEF Apply
      <4> QED BY <2>1, <3>3, <4>1 DEF ReturnInv, Reported
    <3> QED BY <3>1, <3>2, <3>3
  <2> QED BY <1>0, <2>1, <2>2, IdleFacts DEF ReturnInv, Past, Reported, GoodNeedsReturn
<1>7. CASE Abandon
  <2>1. UNCHANGED <<st, stored, problem, lastReturn, lastRun, droppedGood>> /\ run.pc \in {"send", "judge"}
    BY <1>7 DEF Abandon
  <2>2. run'.pc = run.pc /\ run'.at = run.at /\ run'.prev = run.prev BY <1>7, DropFacts DEF Abandon
  <2> QED BY <2>1, <2>2 DEF ReturnInv, Past, Reported, GoodNeedsReturn
<1>8. ASSUME NEW g \in left, Consume(g) PROVE ReturnInv'
  <2>1. UNCHANGED <<run, stored, problem, lastRun, droppedGood>> BY <1>8 DEF Consume, Handled
  <2>2. /\ st'.sentAt = st.sentAt /\ st'.token = 0 /\ st'.lastOK = now /\ st'.badAt = st.badAt
        /\ st'.goodFor = st.goodFor /\ lastReturn' = now /\ st.token # 0
    BY <1>8, ConsumeFacts
  <2>3. Past(stored.st)' /\ Reported(stored.st, stored.problem)' BY <2>1, SavedKept
  <2>4. Past(st) BY DEF ReturnInv
  <2>5. st.goodFor < now BY <1>0, <2>2, <2>4 DEF Past
  <2>6. Past(st)' BY <1>0, <2>1, <2>2, <2>4 DEF Past
  <2>7. Reported(st, problem)' BY <1>0, <2>1, <2>2, <2>5 DEF Reported, ReturnInv
  <2>8. GoodNeedsReturn' BY <1>0, <1>1, <2>1, <2>2 DEF GoodNeedsReturn, ReturnInv
  <2> QED BY <2>1, <2>2, <2>3, <2>6, <2>7, <2>8 DEF ReturnInv, Reported
<1>9. CASE Poll \/ (\E g \in left : Skip(g) \/ Forward(g) \/ ForwardFails(g)) \/ \E ok \in BOOLEAN : Mark(ok)
  <2>1. UNCHANGED <<st, stored, run, problem>>
    BY <1>9 DEF Poll, Skip, Forward, Handled, ForwardFails, Mark
  <2> QED BY <2>1, SameReturns
<1>10. CASE Network \/ Tick \/ UNCHANGED vars
  <2>1. UNCHANGED <<st, stored, run, problem>>
    BY <1>10 DEF Network, ReplyArrives, PartArrives, Arrive, Tick, vars
  <2> QED BY <2>1, SameReturns
<1>11. CASE Load
  <2>1. /\ ~restored /\ st' = stored.st /\ problem' = stored.problem
        /\ UNCHANGED <<run, stored, lastRun, lastReturn, droppedGood>>
    BY <1>11 DEF Load
  <2>2. run.pc = "idle" /\ run.prev.sentAt = 0 BY <2>1, IdleFacts DEF LifeInv
  <2> QED BY <1>0, <2>1, <2>2 DEF ReturnInv, Past, Reported, GoodNeedsReturn
<1>12. CASE Checkpoint
  <2>1. /\ run.pc # "apply" /\ stored'.st = st /\ stored'.problem = problem
        /\ UNCHANGED <<st, problem, run, lastRun, lastReturn, droppedGood>>
    BY <1>12 DEF Checkpoint, Export, LifeInv
  <2> QED BY <2>1 DEF ReturnInv, Past, Reported, GoodNeedsReturn
<1>13. CASE Stop
  <2>1. /\ UNCHANGED <<st, stored, problem, lastRun, lastReturn>>
        /\ run.verdict = "good" => st.lastOK \in droppedGood'
    BY <1>13 DEF Stop
  <2>2. Past(stored.st)' /\ Reported(stored.st, stored.problem)' /\ Past(st)'
    BY <2>1, SavedKept DEF ReturnInv, Past
  <2>3. Reported(st, problem)' BY <1>1, <2>1 DEF Reported, ReturnInv
  <2>4. CASE run.pc \in {"idle", "apply"}
    <3>1. run' = Idle BY <1>13, <2>4 DEF Stop
    <3> QED BY <1>0, <2>1, <2>2, <2>3, <3>1, IdleFacts DEF ReturnInv, Reported, GoodNeedsReturn
  <2>5. CASE run.pc \notin {"idle", "apply"}
    <3>1. run'.pc = run.pc /\ run'.at = run.at /\ run'.prev = run.prev BY <1>13, <2>5, DropFacts DEF Stop
    <3> QED BY <2>1, <2>2, <2>3, <2>5, <3>1 DEF ReturnInv, Reported, GoodNeedsReturn
  <2> QED BY <2>4, <2>5
<1>14. ASSUME NEW saved, Ends(saved), Past(saved.st), Reported(saved.st, saved.problem)
       PROVE  ReturnInv'
  <2>1. /\ stored' = saved /\ st' = ZeroState /\ run' = Idle /\ problem' = 0
        /\ UNCHANGED <<lastRun, lastReturn, droppedGood>>
    BY <1>14 DEF Ends
  <2> QED BY <1>0, <1>14, <2>1, IdleFacts DEF ReturnInv, Past, Reported, GoodNeedsReturn
<1>15. CASE StopCheckpoint
  <2>1. Past(st) /\ Reported(st, problem) BY <1>15 DEF StopCheckpoint, LifeInv, ReturnInv
  <2>2. Export.st = st /\ Export.problem = problem BY DEF Export
  <2> QED BY <1>14, <1>15, <2>1, <2>2 DEF StopCheckpoint
<1>16. CASE EndUnsaved \/ Crash
  BY <1>14, <1>16 DEF EndUnsaved, Crash, ReturnInv
<1> QED
  BY <1>2, <1>3, <1>4, <1>5, <1>6, <1>7, <1>8, <1>9, <1>10, <1>11, <1>12, <1>13, <1>15, <1>16
  DEF Next, ProbeStep, WorkerStep, Daemon

-----------------------------------------------------------------------------
(* Tokens and replies *)

\* Only a send that reaches the outbox adds a reply.
LEMMA RepliesStep ==
  ASSUME [Next]_vars
  PROVE  \/ Replies' \subseteq Replies
         \/ /\ SendOK \/ SendFails(TRUE)
            /\ Replies' \subseteq Replies \cup {Reply}
<1> USE DEF lifeVars, probeVars, workVars
<1>1. CASE SendOK \/ SendFails(TRUE)
  BY <1>1 DEF SendOK, SendFails, Replies
<1>2. CASE Prepare \/ SendFails(FALSE) \/ Judge \/ Apply \/ Abandon
  BY <1>2 DEF Prepare, SendFails, Judge, Apply, Abandon, Replies
<1>3. CASE Poll
  <2>1. air' = air /\ inbox' = inbox /\ left' = GroupInbox(inbox) BY <1>3 DEF Poll
  <2>2. \A r \in inbox : GroupOf(r, inbox) \subseteq inbox BY DEF GroupOf
  <2>3. UNION left' \subseteq inbox BY <2>1, <2>2 DEF GroupInbox
  <2> QED BY <2>1, <2>3 DEF Replies
<1>4. CASE \E g \in left : Skip(g) \/ Consume(g) \/ Forward(g) \/ ForwardFails(g)
  <2>1. air' = air /\ inbox' = inbox /\ left' \subseteq left
    BY <1>4 DEF Skip, Consume, Forward, Handled, ForwardFails
  <2> QED BY <2>1 DEF Replies
<1>5. CASE \E ok \in BOOLEAN : Mark(ok)
  <2>1. air' = air /\ inbox' \subseteq inbox /\ left' = left BY <1>5 DEF Mark
  <2> QED BY <2>1 DEF Replies
<1>6. CASE ReplyArrives
  <2>1. air' \cup inbox' \subseteq air \cup inbox /\ left' = left BY <1>6 DEF ReplyArrives, Arrive
  <2> QED BY <2>1 DEF Replies
<1>7. CASE PartArrives
  <2>1. PICK r : r.kind = "part" /\ inbox' = inbox \cup {r} /\ air' = air /\ left' = left
    BY <1>7 DEF PartArrives, Arrive, Part
  <2> QED BY <2>1 DEF Replies
<1>8. CASE Daemon
  <2>1. air' = air /\ inbox' = inbox /\ (left' = left \/ left' = {})
    BY <1>8 DEF Daemon, Tick, Load, Checkpoint, Stop, StopCheckpoint, EndUnsaved, Crash, Ends
  <2> QED BY <2>1 DEF Replies
<1>9. CASE UNCHANGED vars BY <1>9 DEF vars, Replies
<1> QED
  BY <1>1, <1>2, <1>3, <1>4, <1>5, <1>6, <1>7, <1>8, <1>9 DEF Next, ProbeStep, WorkerStep, Network

\* A step that sends nothing, handles no reply and leaves the probe's state alone.
LEMMA SameTokens ==
  ASSUME ProbeTypes, ProbeTypes', TokenInv, Replies' \subseteq Replies, now <= now',
         UNCHANGED <<sends, taken, forgotten, restored>>,
         st'.token = st.token, st'.sentAt = st.sentAt, stored' = stored,
         \/ run'.prev = run.prev /\ run'.at = run.at /\ run'.timedOut = run.timedOut /\ run'.pc = run.pc
         \/ run'.prev = run.prev /\ run'.timedOut = run.timedOut /\ run'.pc # "send"
         \/ run' = Idle
  PROVE  TokenInv'
<1>0. {now, now', run.prev.sentAt, sends, ReplyWithin} \subseteq Nat BY Numbers, ProbeAssumption DEF ProbeTypes
<1>1. SentThen(st.token, st.sentAt)' /\ SentThen(stored.st.token, stored.st.sentAt)'
  BY DEF TokenInv, SentThen
<1>2. SentThen(run.prev.token, run.prev.sentAt)' BY IdleFacts DEF TokenInv, SentThen
<1>3. Unanswered(st.token)' /\ (~restored' => Unanswered(stored.st.token)') BY DEF TokenInv, Unanswered
<1>4. run'.pc = "send" => /\ run' # Idle /\ run'.prev = run.prev /\ run'.at = run.at
                          /\ run'.timedOut = run.timedOut /\ run.pc = "send"
  BY IdleFacts
<1>5. run'.timedOut => run'.prev = run.prev /\ run.timedOut BY IdleFacts
<1>6. Unanswered(run.prev.token) /\ run'.prev = run.prev => Unanswered(run.prev.token)' BY DEF Unanswered
<1>7. run'.pc = "send" => /\ Unanswered(run.prev.token)' /\ run'.prev.token < sends'
                          /\ st'.token = sends' /\ st'.sentAt = run'.at /\ sends' # 0 /\ run'.at # 0
                          /\ sends' \notin taken' /\ \A r \in Replies' : r.id # sends'
                          /\ stored'.st.token = sends' => stored'.st.sentAt = run'.at
  BY <1>4, <1>6 DEF TokenInv
<1>8. run'.timedOut => /\ run'.prev.token # 0 /\ Unanswered(run.prev.token)'
                       /\ now' - run'.prev.sentAt >= ReplyWithin
  BY <1>0, <1>5, <1>6 DEF TokenInv
<1> QED BY <1>1, <1>2, <1>3, <1>7, <1>8 DEF TokenInv

\* A group leaves the worker's hands: none of its replies is in time and still waited for,
\* unless it matches.
LEMMA HandledTaken ==
  ASSUME ProbeTypes, TokenInv, NEW g \in left, Handled(g)
  PROVE  /\ taken' \subseteq 1 .. sends
         /\ \A i \in taken' \ taken :
              /\ restored /\ ~(run.pc = "send" /\ (i = run.prev.token \/ i = sends))
              /\ run.timedOut => i # run.prev.token
              /\ ~Match(g) => i # st.token
<1>0. {now, run.prev.sentAt, sends} \subseteq Nat /\ ReplyWithin \in Nat BY Numbers, ProbeAssumption
<1>1. ASSUME NEW i \in taken' \ taken
      PROVE  /\ i \in 1 .. sends
             /\ restored /\ ~(run.pc = "send" /\ (i = run.prev.token \/ i = sends))
             /\ run.timedOut => i # run.prev.token
             /\ ~Match(g) => i # st.token
  <2>1. PICK r \in g : r.kind = "reply" /\ now - r.at < ReplyWithin /\ ~Overtaken(r) /\ i = r.id
    BY <1>1 DEF Handled
  <2>2. r \in Replies BY <2>1 DEF Replies
  <2>3. r.id \in Nat /\ 1 <= r.id /\ r.id <= sends /\ r.at \in Nat BY <2>2 DEF TokenInv
  <2>4. restored BY <2>1 DEF Handled, Defer, IsReply
  <2>5. ~(run.pc = "send" /\ (i = run.prev.token \/ i = sends))
    BY <2>1, <2>2 DEF Overtaken, TokenInv
  <2>6. run.timedOut => i # run.prev.token
    <3> SUFFICES ASSUME run.timedOut, i = run.prev.token PROVE FALSE
      OBVIOUS
    <3>1. r.at = run.prev.sentAt /\ now - run.prev.sentAt >= ReplyWithin
      BY <2>1, <2>2 DEF TokenInv, SentThen
    <3> QED BY <1>0, <2>1, <2>3, <3>1
  <2>7. ~Match(g) => i # st.token
    <3> SUFFICES ASSUME i = st.token PROVE Match(g)
      OBVIOUS
    <3>1. st.token # 0 /\ st.sentAt # 0 BY <2>1, <2>3 DEF TokenInv, SentThen
    <3> QED BY <2>1, <3>1 DEF Match, Outstanding
  <2> QED BY <1>0, <2>1, <2>3, <2>4, <2>5, <2>6, <2>7
<1>2. taken \subseteq 1 .. sends BY DEF TokenInv
<1> QED BY <1>1, <1>2

\* Every step keeps what the tokens in use stand for.
LEMMA TokenStep ==
  ASSUME ProbeTypes, ProbeTypes', LifeInv, TokenInv, [Next]_vars
  PROVE  TokenInv'
<1> USE DEF lifeVars, probeVars, workVars
<1>0. /\ {st.sentAt, st.token, stored.st.token, stored.st.sentAt} \subseteq Nat
      /\ {run.at, run.prev.sentAt, run.prev.token, now, now', sends, sends'} \subseteq Nat
      /\ ReplyWithin \in Nat /\ 1 <= now /\ run.timedOut \in BOOLEAN /\ now <= now'
  BY Numbers, NothingTakenBack, ProbeAssumption DEF ProbeTypes
<1>1. \A r \in Replies : r.id \in Nat /\ 1 <= r.id /\ r.id <= sends /\ r.at \in Nat BY DEF TokenInv
<1>2. taken \subseteq 1 .. sends /\ st.token <= sends /\ stored.st.token <= sends
  BY <1>0 DEF TokenInv, SentThen
<1>3. CASE Prepare
  <2>1. UNCHANGED <<air, inbox, left, taken, forgotten, stored, restored, now>> BY <1>3 DEF Prepare
  <2>2. Replies' = Replies BY <2>1 DEF Replies
  <2>3. /\ restored /\ run.pc = "idle" /\ run'.at = now
        /\ run'.prev.sentAt = st.sentAt /\ run'.prev.token = st.token
        /\ run'.timedOut => st.token # 0 /\ now - st.sentAt >= ReplyWithin
    BY <1>3, PrepareFacts
  <2>4. CASE run'.pc = "send"
    <3>1. sends' = sends + 1 /\ st'.sentAt = now /\ st'.token = sends + 1 BY <1>3, <2>4, PrepareFacts
    <3>2. \A r \in Replies : r.id # sends + 1 /\ r.id <= sends + 1 BY <1>0, <1>1
    <3>3. taken \subseteq 1 .. sends' /\ sends + 1 \notin taken BY <1>0, <1>2, <3>1
    <3>4. SentThen(st.token, st.sentAt)' BY <1>0, <2>2, <3>1, <3>2 DEF SentThen
    <3>5. SentThen(stored.st.token, stored.st.sentAt)' BY <1>0, <2>1, <2>2, <3>1 DEF TokenInv, SentThen
    <3>6. SentThen(run.prev.token, run.prev.sentAt)' BY <1>0, <2>2, <2>3, <3>1 DEF TokenInv, SentThen
    <3>7. Unanswered(st.token)' /\ Unanswered(run.prev.token)'
      BY <2>1, <2>3, <3>1, <3>3 DEF TokenInv, Unanswered
    <3>8. run'.prev.token < sends' /\ stored'.st.token # sends' /\ sends' # 0 /\ now # 0
      BY <1>0, <1>2, <2>1, <2>3, <3>1
    <3>9. \A r \in Replies' : r.id \in Nat /\ 1 <= r.id /\ r.id <= sends' /\ r.at \in Nat /\ r.id # sends'
      BY <1>1, <2>2, <3>1, <3>2
    <3> QED BY <2>1, <2>3, <3>1, <3>3, <3>4, <3>5, <3>6, <3>7, <3>8, <3>9 DEF TokenInv
  <2>5. CASE run'.pc # "send"
    <3>1. sends' = sends /\ st'.sentAt = st.sentAt /\ st'.token = st.token BY <1>3, <2>5, PrepareFacts
    <3>2. SentThen(st.token, st.sentAt)' /\ SentThen(stored.st.token, stored.st.sentAt)'
      BY <2>1, <2>2, <3>1 DEF TokenInv, SentThen
    <3>3. SentThen(run.prev.token, run.prev.sentAt)' BY <2>2, <2>3, <3>1 DEF TokenInv, SentThen
    <3>4. Unanswered(st.token)' /\ Unanswered(run.prev.token)' BY <2>1, <2>3, <3>1 DEF TokenInv, Unanswered
    <3> QED BY <1>1, <1>2, <2>1, <2>2, <2>3, <2>5, <3>1, <3>2, <3>3, <3>4 DEF TokenInv
  <2> QED BY <2>4, <2>5
<1>4. ASSUME SendOK \/ \E inserted \in BOOLEAN : SendFails(inserted)
      PROVE  /\ run.pc = "send" /\ restored /\ UNCHANGED <<taken, forgotten, restored, stored, now>>
             /\ run.prev.token < sends /\ st.token = sends /\ st.sentAt = run.at /\ sends # 0 /\ run.at # 0
             /\ sends \notin taken /\ (\A r \in Replies : r.id # sends)
             /\ (stored.st.token = sends => stored.st.sentAt = run.at)
             /\ Unanswered(run.prev.token)
             /\ Reply.id = sends /\ Reply.at = run.at
  <2>1. run.pc = "send" /\ UNCHANGED <<taken, forgotten, restored, stored, now>> BY <1>4 DEF SendOK, SendFails
  <2>2. restored BY <2>1, IdleFacts DEF LifeInv
  <2> QED BY <2>1, <2>2 DEF TokenInv, Reply
<1>5. ASSUME SendOK \/ (\E inserted \in BOOLEAN : SendFails(inserted)), sends' = sends,
             Replies' \subseteq Replies \cup {Reply}
      PROVE  /\ \A r \in Replies' : r.id \in Nat /\ 1 <= r.id /\ r.id <= sends' /\ r.at \in Nat
             /\ taken' \subseteq 1 .. sends'
             /\ SentThen(stored.st.token, stored.st.sentAt)'
             /\ \A prev : prev = run.prev => /\ SentThen(prev.token, prev.sentAt)'
  <2>1. \A r \in Replies' : r.id \in Nat /\ 1 <= r.id /\ r.id <= sends' /\ r.at \in Nat
    BY <1>0, <1>1, <1>4, <1>5
  <2>2. SentThen(stored.st.token, stored.st.sentAt)' BY <1>4, <1>5 DEF TokenInv, SentThen
  <2>3. ASSUME NEW prev, prev = run.prev
        PROVE  SentThen(prev.token, prev.sentAt)'
    BY <1>0, <1>4, <1>5, <2>3 DEF TokenInv, SentThen
  <2> QED BY <1>2, <1>4, <1>5, <2>1, <2>2, <2>3
<1>6. CASE SendOK
  <2>1. st' = st /\ sends' = sends BY <1>6 DEF SendOK
  <2>2. Replies' \subseteq Replies \cup {Reply} BY <1>6, RepliesStep
  <2>3. run'.pc = "judge" /\ run'.timedOut = run.timedOut /\ run'.prev = run.prev BY <1>6, SendOKFacts
  <2>4. SentThen(st.token, st.sentAt)' BY <1>0, <1>4, <1>6, <2>1, <2>2 DEF SentThen
  <2>5. SentThen(run.prev.token, run.prev.sentAt)' BY <1>5, <1>6, <2>1, <2>2, <2>3 DEF SentThen
  <2>6. Unanswered(st.token)' /\ Unanswered(run.prev.token)' BY <1>4, <1>6, <2>1, <2>3 DEF TokenInv, Unanswered
  <2> QED BY <1>4, <1>5, <1>6, <2>1, <2>2, <2>3, <2>4, <2>5, <2>6 DEF TokenInv
<1>7. ASSUME NEW inserted \in BOOLEAN, SendFails(inserted) PROVE TokenInv'
  <2>1. /\ st'.sentAt = run.prev.sentAt /\ st'.token = run.prev.token
        /\ \/ run' = Idle
           \/ run'.pc = "judge" /\ run'.timedOut = run.timedOut /\ run'.prev = run.prev
    BY <1>7, SendFailsFacts
  <2>2. \/ sends' = sends
        \/ sends' = sends - 1 /\ inserted = FALSE /\ stored.st.token # sends
    BY <1>7 DEF SendFails
  <2>3. inserted = FALSE => Replies' \subseteq Replies
    <3>1. inserted = FALSE => UNCHANGED <<air, inbox, left>> BY <1>7 DEF SendFails
    <3> QED BY <3>1 DEF Replies
  <2>4. Replies' \subseteq Replies \cup {Reply} BY RepliesStep
  <2>5. /\ \A r \in Replies' : r.id \in Nat /\ 1 <= r.id /\ r.id <= sends' /\ r.at \in Nat
        /\ taken' \subseteq 1 .. sends'
        /\ SentThen(stored.st.token, stored.st.sentAt)'
        /\ SentThen(st.token, st.sentAt)'
    <3>1. CASE sends' = sends BY <1>5, <1>7, <2>1, <2>4, <3>1 DEF SentThen
    <3>2. CASE sends' = sends - 1 /\ inserted = FALSE /\ stored.st.token # sends
      <4>1. Replies' \subseteq Replies BY <2>3, <3>2
      <4>2. \A r \in Replies' : r.id \in Nat /\ 1 <= r.id /\ r.id <= sends' /\ r.at \in Nat
        BY <1>0, <1>1, <1>4, <1>7, <3>2, <4>1
      <4>3. taken' \subseteq 1 .. sends'
        <5>1. taken' = taken /\ sends \notin taken BY <1>4, <1>7
        <5>2. ASSUME NEW i \in taken PROVE i \in 1 .. (sends - 1)
          <6>1. i \in 1 .. sends /\ i # sends BY <1>2, <5>1
          <6> QED BY <1>0, <6>1
        <5> QED BY <3>2, <5>1, <5>2
      <4>4. stored.st.token <= sends' /\ run.prev.token <= sends' BY <1>0, <1>2, <1>4, <1>7, <3>2
      <4>5. SentThen(stored.st.token, stored.st.sentAt)' BY <1>4, <1>7, <4>1, <4>4 DEF TokenInv, SentThen
      <4>6. SentThen(st.token, st.sentAt)' BY <2>1, <4>1, <4>4 DEF TokenInv, SentThen
      <4> QED BY <4>2, <4>3, <4>5, <4>6
    <3> QED BY <2>2, <3>1, <3>2
  <2>6. Unanswered(st.token)' BY <1>4, <1>7, <2>1 DEF Unanswered
  <2>7. SentThen(run.prev.token, run.prev.sentAt)'
    BY <2>1, <2>5, IdleFacts DEF SentThen
  <2>8. run'.timedOut => run'.prev = run.prev /\ run.timedOut BY <2>1, IdleFacts
  <2>9. Unanswered(run.prev.token)' BY <1>4, <1>7, <2>1, IdleFacts DEF Unanswered
  <2>10. restored' /\ run'.pc # "send" /\ now' = now BY <1>4, <1>7, <2>1, IdleFacts
  <2> QED BY <2>5, <2>6, <2>7, <2>8, <2>9, <2>10 DEF TokenInv
<1>8. CASE Judge
  <2>1. UNCHANGED <<sends, taken, forgotten, restored, stored>> /\ run.pc = "judge" BY <1>8 DEF Judge
  <2>2. Replies' \subseteq Replies BY <1>8, <2>1, RepliesStep DEF SendOK, SendFails
  <2> QED BY <1>0, <1>8, <2>1, <2>2, JudgeFacts, SameTokens
<1>9. CASE Apply
  <2>1. UNCHANGED <<sends, taken, forgotten, restored, stored, st>> /\ run.pc = "apply" /\ run' = Idle
    BY <1>9 DEF Apply
  <2>2. Replies' \subseteq Replies BY <2>1, RepliesStep DEF SendOK, SendFails
  <2> QED BY <1>0, <2>1, <2>2, SameTokens
<1>10. CASE Abandon
  <2>1. UNCHANGED <<sends, taken, forgotten, restored, stored, st, air, inbox, left>> BY <1>10 DEF Abandon
  <2>2. Replies' \subseteq Replies BY <2>1 DEF Replies
  <2> QED BY <1>0, <1>10, <2>1, <2>2, DropFacts, SameTokens DEF Abandon
<1>11. ASSUME NEW g \in left, Handled(g), \/ Consume(g)
                                          \/ Forward(g)
       PROVE  TokenInv'
  <2>1. UNCHANGED <<sends, forgotten, restored, stored, run, now>> /\ taken \subseteq taken'
    BY <1>11 DEF Handled
  <2>2. Replies' \subseteq Replies
    <3>1. UNCHANGED <<air, inbox>> /\ left' \subseteq left BY <1>11 DEF Handled
    <3> QED BY <3>1 DEF Replies
  <2>3. /\ taken' \subseteq 1 .. sends
        /\ \A i \in taken' \ taken :
              /\ restored /\ ~(run.pc = "send" /\ (i = run.prev.token \/ i = sends))
              /\ run.timedOut => i # run.prev.token
              /\ ~Match(g) => i # st.token
    BY <1>11, HandledTaken
  <2>4. SentThen(stored.st.token, stored.st.sentAt)' /\ SentThen(run.prev.token, run.prev.sentAt)'
    BY <2>1, <2>2 DEF TokenInv, SentThen
  <2>5. ~restored' => Unanswered(stored.st.token)' BY <2>1, <2>3 DEF TokenInv, Unanswered
  <2>6. run.pc = "send" => Unanswered(run.prev.token)' BY <2>1, <2>3 DEF TokenInv, Unanswered
  <2>7. run.timedOut => Unanswered(run.prev.token)' BY <2>1, <2>3 DEF TokenInv, Unanswered
  <2>8. SentThen(st.token, st.sentAt)' /\ Unanswered(st.token)'
        /\ (run.pc = "send" => st'.token = st.token /\ st'.sentAt = st.sentAt)
    <3>1. CASE Consume(g)
      <4>1. st'.token = 0 /\ \E r \in g : r.kind = "reply" /\ r.id = st.token
        BY <3>1, ConsumeFacts
      <4>2. run.pc # "send" BY <4>1 DEF TokenInv, Replies
      <4> QED BY <4>1, <4>2 DEF SentThen, Unanswered
    <3>2. CASE Forward(g)
      <4>1. st' = st /\ ~Match(g) BY <3>2 DEF Forward
      <4> QED BY <2>1, <2>2, <2>3, <4>1 DEF TokenInv, SentThen, Unanswered
    <3> QED BY <1>11, <3>1, <3>2
  <2>9. run.pc = "send" => sends \notin taken' BY <2>3 DEF TokenInv
  <2> QED BY <1>1, <2>1, <2>2, <2>3, <2>4, <2>5, <2>6, <2>7, <2>8, <2>9 DEF TokenInv
<1>12. CASE Poll \/ (\E g \in left : Skip(g) \/ ForwardFails(g)) \/ (\E ok \in BOOLEAN : Mark(ok))
  <2>1. UNCHANGED <<sends, taken, forgotten, restored, stored, st, run>>
    BY <1>12 DEF Poll, Skip, ForwardFails, Mark
  <2>2. ~(SendOK \/ SendFails(TRUE)) \/ Replies' \subseteq Replies
    BY <2>1, SendOKFacts, SendFailsFacts, IdleFacts DEF SendOK, SendFails
  <2>3. Replies' \subseteq Replies BY <2>2, RepliesStep
  <2> QED BY <1>0, <2>1, <2>3, SameTokens
<1>13. CASE Network \/ Tick \/ UNCHANGED vars
  <2>1. UNCHANGED <<sends, taken, forgotten, restored, stored, st, run>>
    BY <1>13 DEF Network, ReplyArrives, PartArrives, Arrive, Tick, vars
  <2>2. ~(SendOK \/ SendFails(TRUE)) \/ Replies' \subseteq Replies
    BY <2>1, SendOKFacts, SendFailsFacts, IdleFacts DEF SendOK, SendFails
  <2>3. Replies' \subseteq Replies BY <2>2, RepliesStep
  <2> QED BY <1>0, <2>1, <2>3, SameTokens
<1>14. CASE Load
  <2>1. /\ ~restored /\ restored' = TRUE /\ st' = stored.st
        /\ UNCHANGED <<sends, taken, forgotten, stored, run, air, inbox, left>>
    BY <1>14 DEF Load
  <2>2. Replies' = Replies BY <2>1 DEF Replies
  <2>3. run = Idle BY <2>1 DEF LifeInv
  <2> QED BY <2>1, <2>2, <2>3, IdleFacts DEF TokenInv, SentThen, Unanswered
<1>15. CASE Checkpoint
  <2>1. /\ restored /\ restored' = restored /\ stored'.st = st /\ now' = now
        /\ UNCHANGED <<sends, taken, forgotten, st, run, air, inbox, left>>
    BY <1>15 DEF Checkpoint, Export
  <2>2. Replies' = Replies BY <2>1 DEF Replies
  <2> QED BY <2>1, <2>2 DEF TokenInv, SentThen, Unanswered
<1>16. CASE Stop
  <2>1. UNCHANGED <<sends, taken, forgotten, restored, stored, st, air, inbox>> /\ left' = {} BY <1>16 DEF Stop
  <2>2. Replies' \subseteq Replies BY <2>1 DEF Replies
  <2>3. CASE run.pc \in {"idle", "apply"}
    <3>1. run' = Idle BY <1>16, <2>3 DEF Stop
    <3> QED BY <1>0, <2>1, <2>2, <3>1, SameTokens
  <2>4. CASE run.pc \notin {"idle", "apply"}
    <3>1. run'.pc = run.pc /\ run'.at = run.at /\ run'.prev = run.prev /\ run'.timedOut = run.timedOut
      BY <1>16, <2>4, DropFacts DEF Stop
    <3> QED BY <1>0, <2>1, <2>2, <3>1, SameTokens
  <2> QED BY <2>3, <2>4
<1>17. ASSUME NEW saved, Ends(saved), SentThen(saved.st.token, saved.st.sentAt)
       PROVE  TokenInv'
  <2>1. /\ stored' = saved /\ st' = ZeroState /\ run' = Idle /\ restored' = FALSE
        /\ forgotten' = forgotten \cup (taken \cap {saved.st.token})
        /\ UNCHANGED <<sends, taken, air, inbox>> /\ left' = {}
    BY <1>17 DEF Ends
  <2>2. Replies' \subseteq Replies BY <2>1 DEF Replies
  <2>3. SentThen(stored.st.token, stored.st.sentAt)' BY <1>17, <2>1, <2>2 DEF SentThen
  <2>4. Unanswered(stored.st.token)' BY <2>1 DEF Unanswered
  <2> QED BY <1>1, <1>2, <2>1, <2>2, <2>3, <2>4, IdleFacts DEF TokenInv, SentThen, Unanswered
<1>18. CASE StopCheckpoint
  <2>1. Export.st = st BY DEF Export
  <2> QED BY <1>17, <1>18, <2>1 DEF StopCheckpoint, TokenInv
<1>19. CASE EndUnsaved \/ Crash
  BY <1>17, <1>19 DEF EndUnsaved, Crash, TokenInv
<1> QED
  BY <1>3, <1>6, <1>7, <1>8, <1>9, <1>10, <1>11, <1>12, <1>13, <1>14, <1>15, <1>16, <1>18, <1>19
  DEF Next, ProbeStep, WorkerStep, Daemon, Consume, Forward

-----------------------------------------------------------------------------
(* The invariant and what it gives *)

\* The probe has never run.
LEMMA ProbeInit == Init => ProbeInv
<1> SUFFICES ASSUME Init PROVE ProbeInv
  OBVIOUS
<1>1. st = ZeroState /\ stored.st = ZeroState /\ run = Idle /\ stored = [st |-> ZeroState, problem |-> 0]
  BY DEF Init
<1>2. ProbeTypes
  <2>1. stored \in [st : State, problem : Nat] BY <1>1, IdleFacts
  <2>2. st \in State /\ run \in Run /\ problem \in Nat BY <1>1, IdleFacts DEF Init
  <2>3. {restored, stopping} \subseteq BOOLEAN BY DEF Init
  <2>4. now = 2 /\ sends = 0 /\ lastRun = 0 /\ lastReturn = 0 BY DEF Init
  <2> QED BY <2>1, <2>2, <2>3, <2>4 DEF ProbeTypes
<1>3. LifeInv BY <1>1, IdleFacts DEF Init, LifeInv
<1>4. MarkInv BY DEF Init, MarkInv
<1>5. TokenInv BY <1>1, IdleFacts DEF Init, TokenInv, Replies, SentThen, Unanswered
<1>6. ReturnInv
  BY <1>1, IdleFacts DEF Init, ReturnInv, Past, Reported, GoodNeedsReturn
<1>7. SlotInv BY <1>1, IdleFacts DEF Init, SlotInv
<1> QED BY <1>2, <1>3, <1>4, <1>5, <1>6, <1>7 DEF ProbeInv

\* Every step keeps the invariant.
LEMMA ProbeStepKeeps == ProbeInv /\ [Next]_vars => ProbeInv'
<1> SUFFICES ASSUME ProbeTypes, LifeInv, MarkInv, TokenInv, ReturnInv, SlotInv, [Next]_vars PROVE ProbeInv'
  BY DEF ProbeInv
<1>1. ProbeTypes' BY TypesStep
<1>2. LifeInv' /\ MarkInv' BY LifeStep, MarkStep
<1>3. TokenInv' BY <1>1, TokenStep
<1>4. ReturnInv' BY <1>1, ReturnStep
<1>5. SlotInv' BY SlotStep
<1> QED BY <1>1, <1>2, <1>3, <1>4, <1>5 DEF ProbeInv

\* The inductive invariant: the state in memory, the one in the last checkpoint and the one
\* a failed send puts back agree with the replies still to come, with the returns that were
\* reported and with the slots whose probe went out.
THEOREM ProbeInvariant == Spec => []ProbeInv
  BY ProbeInit, ProbeStepKeeps, PTL DEF Spec

\* However Telegram and the marks fail, parts repeat and the process stops or crashes: a row
\* of the inbox is marked processed only when what it says was forwarded or consumed.
THEOREM SwallowsNothing == Spec => []NothingSwallowed
<1>1. ProbeInv => NothingSwallowed BY DEF ProbeInv, MarkInv, NothingSwallowed
<1> QED BY <1>1, ProbeInvariant, PTL

\* A probe that is judged missing had no reply in time, in any order of the probe's runs, the
\* worker, the network and the restarts, apart from the two holes the property names.
THEOREM AlarmsAreTrue == Spec => []NoFalseAlarm
<1>1. ProbeInv => NoFalseAlarm
  BY DEF ProbeInv, TokenInv, Unanswered, NoFalseAlarm
<1> QED BY <1>1, ProbeInvariant, PTL

\* The problem ends with a reply matched since it was last read bad and with nothing else, and
\* after such a reply its good is still to come, unless a dropped run had decided it.
THEOREM ReturnsResolve == Spec => []ReturnResolves
<1>1. ProbeInv => ReturnResolves
  <2> SUFFICES ASSUME ProbeInv PROVE ReturnResolves
    OBVIOUS
  <2>1. GoodNeedsReturn BY DEF ProbeInv, ReturnInv
  <2>2. ASSUME problem # 0, run.pc = "idle", st.lastOK # 0, st.lastOK >= st.badAt, ~Outstanding(st)
        PROVE  GoodDue \/ st.lastOK \in droppedGood
    <3>1. Reported(st, problem) BY <2>2 DEF ProbeInv, ReturnInv
    <3>2. CASE st.lastOK = st.goodFor BY <2>2, <3>1, <3>2 DEF Reported
    <3>3. CASE st.lastOK # st.goodFor BY <2>2, <3>3 DEF GoodDue
    <3> QED BY <3>2, <3>3
  <2> QED BY <2>1, <2>2 DEF ReturnResolves
<1> QED BY <1>1, ProbeInvariant, PTL

\* A slot's probe goes out once: what is sent is of a later slot than all that were, through
\* failed sends, abandoned runs and restarts.
THEOREM SlotsAreSentOnce == Spec => []OneProbePerSlot
<1>1. ProbeInv => OneProbePerSlot
  <2> SUFFICES ASSUME ProbeInv, run.pc = "send", LastSlot(run.at) \in slots PROVE FALSE
    BY DEF OneProbePerSlot
  <2>1. LastSlot(run.at) < LastSlot(run.at) /\ LastSlot(run.at) \in Int BY DEF ProbeInv, SlotInv
  <2> QED BY <2>1
<1> QED BY <1>1, ProbeInvariant, PTL
=============================================================================
