----------------------------- MODULE ModemProbe -----------------------------
(***************************************************************************)
(* The weekly modem probe (pkg/health/check/modemprobe) and the SMS inbox   *)
(* worker (pkg/sms/inbox.go) that hands its reply back, joined by the       *)
(* probeState of cmd/health_sms.go: the probe runs in the runner's tick,    *)
(* the worker in a job of its own, the network delivers late or never, and  *)
(* the probe's state is saved with the open conditions.                     *)
(*                                                                          *)
(* A reply is one row of the modem's own number, named by its token.  Other *)
(* senders are one multipart message, whose parts may come twice.  The      *)
(* modem's number is configured, and the probe has its sender.  Time is in  *)
(* units in which a slot comes every Week; 0 is the zero time.              *)
(***************************************************************************)
EXTENDS Integers, FiniteSets

CONSTANTS
  Week, ReplyWithin, MaxSilence,
  IncompleteTimeout,   \* incompleteTimeout
  Total,               \* parts of the other sender's message
  MaxCopies,           \* bound: copies of a part
  PartsUntil,          \* bound: when the last part comes
  MaxSends,            \* bound: probes
  MaxStops,            \* bound: stops and crashes
  MaxNow               \* bound: the clock

\* MaxSilence as the configuration's validation wants it.
ASSUME ProbeAssumption ==
  /\ {Week, ReplyWithin} \subseteq Nat \ {0} /\ MaxSilence > Week + ReplyWithin
  /\ {IncompleteTimeout, Total, MaxCopies, PartsUntil, MaxSends, MaxStops, MaxNow} \subseteq Nat

VARIABLES
  budget,     \* bound: the probe runs, or another sender's parts come
  now,
  stopping,   \* the daemon's ctx is done
  restored,   \* probeState.restored
  st,         \* Probe.state; token 0: none
  run,        \* the probe's run in progress
  lastRun,    \* r.lastRun of the probe: its interval is the clock's unit
  problem,    \* the engine's condition: when it was last read bad; 0: none
  stored,     \* the last checkpoint: the probe's state and the condition
  air,        \* replies under way in the mobile network, for ever if lost
  inbox,      \* rows not marked processed
  left,       \* the worker: groups still to handle in this Do
  marking,    \* ... and the group being marked processed; {}: none
  \* history
  sends,      \* tokens allocated that somebody may have seen
  arrived,    \* rows that came
  told,       \* what was forwarded to Telegram or consumed as a reply
  taken,      \* probes whose reply the worker handled within ReplyWithin, while it could match
  lastReturn, \* when a reply was last matched
  slots,      \* slots whose probe was sent
  forgotten,  \* replies handled before a crash whose checkpoint still waits for them
  droppedGood,\* returns whose Good was decided by a run nobody waited for
  stops

probeVars == <<st, run, lastRun, sends, slots, droppedGood>>
workVars == <<left, marking, told, taken>>
lifeVars == <<stopping, restored, stops, forgotten>>
vars == <<budget, now, lifeVars, probeVars, problem, stored, air, inbox, workVars, arrived, lastReturn>>

Idle == [pc |-> "idle", at |-> 0, timedOut |-> FALSE, prev |-> [sentAt |-> 0, token |-> 0],
         failed |-> FALSE, verdict |-> "none", dropped |-> FALSE]

ZeroState == [sentAt |-> 0, token |-> 0, lastOK |-> 0, firstMissing |-> 0, badAt |-> 0, goodFor |-> 0]

\* The reply to the probe being sent; at is when the probe was sent.
Reply == [kind |-> "reply", id |-> sends, copy |-> 1, at |-> run.at]

Part(s, c) == [kind |-> "part", id |-> s, copy |-> c, at |-> now]

\* What a row says.
Said(r) == <<r.kind, r.id>>

TypeOK ==
  /\ now \in 1 .. MaxNow
  /\ st \in [sentAt : 0 .. now, token : 0 .. sends, lastOK : 0 .. now, firstMissing : 0 .. now,
             badAt : 0 .. now, goodFor : 0 .. now]
  /\ run.pc \in {"idle", "send", "judge", "apply"} /\ run.verdict \in {"none", "bad", "good"}
  /\ problem \in 0 .. now /\ inbox \subseteq arrived /\ marking \subseteq arrived

Init ==
  /\ budget \in {[sends |-> MaxSends, parts |-> 0], [sends |-> 0, parts |-> Total]}
  /\ now = 2 /\ stopping = FALSE /\ restored = FALSE
  /\ st = ZeroState /\ run = Idle /\ problem = 0
  /\ stored = [st |-> ZeroState, problem |-> 0]
  /\ air = {} /\ inbox = {} /\ left = {} /\ marking = {}
  /\ sends = 0 /\ arrived = {} /\ told = {} /\ taken = {} /\ lastReturn = 0 /\ lastRun = 0 /\ slots = {}
  /\ forgotten = {} /\ droppedGood = {} /\ stops = 0

-----------------------------------------------------------------------------
(* The probe *)

Outstanding(s) == s.token # 0 /\ s.sentAt # 0

\* lastSlot: the most recent slot not after t.
LastSlot(t) == t - (t % Week)

\* Fault: the slot of the last send is due again.
DueAgain(s) == LastSlot(now) >= (IF s.sentAt # 0 THEN s.sentAt ELSE s.firstMissing)

\* due: a slot has passed since the last send, or since the first run.
Due(s) == LastSlot(now) > (IF s.sentAt # 0 THEN s.sentAt ELSE s.firstMissing)

\* prepare: the first run, and a probe that did not come back in time.
FirstRun(s) ==
  IF s.sentAt = 0 /\ s.lastOK = 0 /\ s.firstMissing = 0 THEN [s EXCEPT !.firstMissing = now] ELSE s

TimedOut(s) == Outstanding(s) /\ now - s.sentAt >= ReplyWithin

Missing(s) == IF TimedOut(s) /\ s.firstMissing = 0 THEN [s EXCEPT !.firstMissing = s.sentAt] ELSE s

\* Run up to the send; not before the stored state was restored.  It comes at a
\* later instant than the run before it and than a match before it.
Prepare ==
  /\ restored /\ ~stopping /\ run.pc = "idle" /\ budget.sends > 0
  /\ lastRun < now /\ lastReturn < now
  /\ lastRun' = now
  /\ LET s == Missing(FirstRun(st))
         prev == [sentAt |-> s.sentAt, token |-> s.token]
     IN IF Due(s)
          THEN /\ sends < budget.sends
               /\ sends' = sends + 1
               /\ st' = [s EXCEPT !.sentAt = now, !.token = sends + 1]
               /\ run' = [Idle EXCEPT !.pc = "send", !.at = now, !.timedOut = TimedOut(s), !.prev = prev]
          ELSE /\ st' = s
               /\ run' = [Idle EXCEPT !.pc = "judge", !.at = now, !.timedOut = TimedOut(s), !.prev = prev]
               /\ UNCHANGED sends
  /\ UNCHANGED <<now, lifeVars, problem, stored, air, inbox, workVars, arrived, lastReturn, slots,
                 droppedGood>>

\* The probe's text is in the outbox.
SendOK ==
  /\ run.pc = "send"
  /\ run' = [run EXCEPT !.pc = "judge"]
  /\ air' = air \cup {Reply}
  /\ slots' = slots \cup {LastSlot(run.at)}
  /\ UNCHANGED <<now, lifeVars, st, lastRun, sends, problem, stored, inbox, workVars, arrived, lastReturn,
                 droppedGood>>

\* The send failed, perhaps after the insert: it is undone, and is bad unless
\* the run's own ctx ended, with the stop or its deadline.  (A token nobody has seen gives its
\* number back.)
SendFails(inserted) ==
  /\ run.pc = "send"
  /\ st' = [st EXCEPT !.sentAt = run.prev.sentAt, !.token = run.prev.token]
  /\ run' = IF stopping \/ run.dropped THEN Idle ELSE [run EXCEPT !.pc = "judge", !.failed = TRUE]
  /\ air' = IF inserted THEN air \cup {Reply} ELSE air
  /\ sends' = IF inserted \/ stored.st.token = sends THEN sends ELSE sends - 1
  /\ UNCHANGED <<now, lifeVars, lastRun, problem, stored, inbox, workVars, arrived, lastReturn, slots,
                 droppedGood>>

\* silenceRef
SilenceRef == IF st.lastOK # 0 THEN st.lastOK ELSE st.firstMissing

\* Fault: any return not yet reported is good.
NotReported == st.lastOK # 0 /\ st.lastOK # st.goodFor

\* goodDue: a return not older than the last bad, and not yet reported.
GoodDue == st.lastOK # 0 /\ ~Outstanding(st) /\ st.lastOK # st.goodFor /\ st.lastOK >= st.badAt

IsBad == run.failed \/ run.timedOut \/ (SilenceRef # 0 /\ run.at - SilenceRef >= MaxSilence)

\* Fault: a return that came during the run counts as reported.
BadSeesReturn == [st EXCEPT !.badAt = run.at, !.goodFor = st.lastOK]

JudgedBad == [st EXCEPT !.badAt = run.at]

\* judge; a run nobody waits for is over with it.
Judge ==
  /\ run.pc = "judge"
  /\ st' = CASE IsBad -> JudgedBad
             [] ~IsBad /\ GoodDue -> [st EXCEPT !.goodFor = st.lastOK]
             [] OTHER -> st
  /\ LET verdict == IF IsBad THEN "bad" ELSE IF GoodDue THEN "good" ELSE "none"
     IN /\ run' = IF run.dropped THEN Idle ELSE [run EXCEPT !.pc = "apply", !.verdict = verdict]
        /\ droppedGood' = IF run.dropped /\ verdict = "good" THEN droppedGood \cup {st.lastOK}
                          ELSE droppedGood
  /\ UNCHANGED <<now, lifeVars, lastRun, sends, problem, stored, air, inbox, workVars, arrived, lastReturn,
                 slots>>

\* The runner applies the result.
Apply ==
  /\ run.pc = "apply" /\ ~stopping
  /\ problem' = CASE run.verdict = "bad" -> run.at
                  [] run.verdict = "good" -> 0
                  [] OTHER -> problem
  /\ run' = Idle
  /\ UNCHANGED <<now, lifeVars, st, lastRun, sends, slots, droppedGood, stored, air, inbox, workVars, arrived,
                 lastReturn>>

\* The tick's deadline passes: the run is abandoned, its result dropped.
Abandon ==
  /\ run.pc \in {"send", "judge"} /\ ~run.dropped
  /\ run' = [run EXCEPT !.dropped = TRUE]
  /\ UNCHANGED <<now, lifeVars, st, lastRun, sends, slots, droppedGood, problem, stored, air, inbox, workVars,
                 arrived, lastReturn>>

-----------------------------------------------------------------------------
(* The inbox worker *)

\* groupInbox: the parts of a message together, all else alone.
GroupOf(r, rows) == IF r.kind = "reply" THEN {r} ELSE {q \in rows : q.kind = "part"}

GroupInbox(rows) == {GroupOf(r, rows) : r \in rows}

IsReply(g) == \E r \in g : r.kind = "reply"

Complete(g) == IsReply(g) \/ Cardinality({r.id : r \in g}) >= Total

\* Fault: nothing is held back until the state is restored.
NeverDefer(g) == FALSE

\* Defer: the modem's own number, until the stored state is restored.
Defer(g) == ~restored /\ IsReply(g)

\* Parts are missing and may still come.
Waiting(g) == ~Complete(g) /\ \A r \in g : now - r.at < IncompleteTimeout

\* Match: the reply to the outstanding probe.
Match(g) == \E r \in g : r.kind = "reply" /\ Outstanding(st) /\ r.id = st.token

\* Do begins: the unprocessed rows.
Poll ==
  /\ left = {} /\ marking = {} /\ ~stopping /\ inbox # {}
  /\ left' = GroupInbox(inbox)
  /\ UNCHANGED <<now, lifeVars, probeVars, problem, stored, air, inbox, marking, told, taken, arrived,
                 lastReturn>>

\* handle leaves the group for a later Do.
Skip(g) ==
  /\ marking = {} /\ (Defer(g) \/ Waiting(g))
  /\ left' = left \ {g}
  /\ UNCHANGED <<now, lifeVars, probeVars, problem, stored, air, inbox, marking, told, taken, arrived,
                 lastReturn>>

\* A newer probe is being sent: the reply to the one before matches nothing.
Overtaken(r) == run.pc = "send" /\ r.id = run.prev.token

\* The group leaves the worker's hands, told.
Handled(g) ==
  /\ marking = {} /\ ~Defer(g) /\ ~Waiting(g)
  /\ left' = left \ {g} /\ marking' = g
  /\ told' = told \cup {Said(r) : r \in g}
  /\ taken' = taken \cup {r.id : r \in {q \in g : /\ q.kind = "reply" /\ now - q.at < ReplyWithin
                                             /\ ~Overtaken(q)}}
  /\ UNCHANGED <<now, lifeVars, run, lastRun, sends, slots, droppedGood, problem, stored, air, inbox, arrived>>

\* deliver: consumed as the probe's reply ...
Consume(g) ==
  /\ Handled(g) /\ Match(g)
  /\ st' = [st EXCEPT !.lastOK = now, !.token = 0, !.firstMissing = 0]
  /\ lastReturn' = now

\* ... or forwarded ...
Forward(g) ==
  /\ Handled(g) /\ ~Match(g)
  /\ UNCHANGED <<st, lastReturn>>

\* Fault: the group is marked although it was not forwarded.
MarkAnyway(g) == marking' = g

\* What is marked when Telegram fails.
KeepUnprocessed(g) == marking' = {}

\* ... or Telegram fails.
ForwardFails(g) ==
  /\ marking = {} /\ ~Defer(g) /\ ~Waiting(g) /\ ~Match(g)
  /\ left' = left \ {g} /\ KeepUnprocessed(g)
  /\ UNCHANGED <<now, lifeVars, probeVars, problem, stored, air, inbox, told, taken, arrived, lastReturn>>

\* MarkProcessed, which may fail: then the group is read again.
Mark(ok) ==
  /\ marking # {}
  /\ inbox' = IF ok THEN inbox \ marking ELSE inbox
  /\ marking' = {}
  /\ UNCHANGED <<now, lifeVars, probeVars, problem, stored, air, left, told, taken, arrived, lastReturn>>

-----------------------------------------------------------------------------
(* The network, the clock and the daemon *)

Arrive(r) ==
  /\ inbox' = inbox \cup {r} /\ arrived' = arrived \cup {r}
  /\ UNCHANGED <<now, lifeVars, probeVars, problem, stored, workVars, lastReturn>>

ReplyArrives == \E r \in air : Arrive(r) /\ air' = air \ {r}

PartArrives ==
  \E s \in 1 .. budget.parts, c \in 1 .. MaxCopies :
    /\ now <= PartsUntil
    /\ ~\E r \in arrived : r.kind = "part" /\ r.id = s /\ r.copy = c
    /\ Arrive(Part(s, c)) /\ UNCHANGED air

Tick ==
  /\ now < MaxNow /\ now' = now + 1
  /\ UNCHANGED <<lifeVars, probeVars, problem, stored, air, inbox, workVars, arrived, lastReturn>>

\* Load, with the persister's Restore.
Load ==
  /\ ~restored /\ ~stopping
  /\ restored' = TRUE
  /\ st' = stored.st /\ problem' = stored.problem
  /\ UNCHANGED <<now, stopping, stops, forgotten, run, lastRun, sends, slots, droppedGood, stored, air, inbox,
                 workVars, arrived, lastReturn>>

\* Export into the checkpoint, with the conditions.
Export == [st |-> st, problem |-> problem]

\* A tick's checkpoint.
Checkpoint ==
  /\ restored /\ ~stopping /\ (run.pc = "idle" \/ run.dropped)
  /\ stored' = Export
  /\ UNCHANGED <<now, lifeVars, probeVars, problem, air, inbox, workVars, arrived, lastReturn>>

\* The daemon is told to stop: the tick is interrupted, its results dropped,
\* and the worker ends.
Stop ==
  /\ ~stopping /\ stops < MaxStops
  /\ stopping' = TRUE /\ stops' = stops + 1
  /\ run' = IF run.pc \in {"idle", "apply"} THEN Idle ELSE [run EXCEPT !.dropped = TRUE]
  /\ droppedGood' = IF run.verdict = "good" THEN droppedGood \cup {st.lastOK} ELSE droppedGood
  /\ left' = {} /\ marking' = {}
  /\ UNCHANGED <<now, restored, forgotten, st, lastRun, sends, slots, problem, stored, air, inbox, told, taken,
                 arrived, lastReturn>>

\* The process ends with what was last saved, and another starts.
Ends(saved) ==
  /\ stored' = saved
  /\ stopping' = FALSE /\ restored' = FALSE
  /\ st' = ZeroState /\ run' = Idle /\ problem' = 0 /\ left' = {} /\ marking' = {}
  /\ forgotten' = forgotten \cup (taken \cap {saved.st.token})
  /\ slots' = {s \in slots : s <= saved.st.sentAt}
  /\ UNCHANGED <<now, lastRun, sends, droppedGood, air, inbox, told, taken, arrived, lastReturn>>

\* The stop's checkpoint, written only when the state was loaded, and the end.
StopCheckpoint == stopping /\ restored /\ Ends(Export) /\ UNCHANGED stops

EndUnsaved == stopping /\ Ends(stored) /\ UNCHANGED stops

Crash == ~stopping /\ stops < MaxStops /\ Ends(stored) /\ stops' = stops + 1

ProbeStep ==
  \/ Prepare \/ SendOK \/ Judge \/ Apply \/ Abandon
  \/ \E inserted \in BOOLEAN : SendFails(inserted)

WorkerStep ==
  \/ Poll
  \/ \E g \in left : Skip(g) \/ Consume(g) \/ Forward(g) \/ ForwardFails(g)
  \/ \E ok \in BOOLEAN : Mark(ok)

Network == ReplyArrives \/ PartArrives

Daemon == Tick \/ Load \/ Checkpoint \/ Stop \/ StopCheckpoint \/ EndUnsaved \/ Crash

Next == (ProbeStep \/ WorkerStep \/ Network \/ Daemon) /\ UNCHANGED budget

Spec == Init /\ [][Next]_vars

-----------------------------------------------------------------------------
(* Properties *)

\* At-least-once forwarding: a row marked processed was forwarded, consumed as
\* the probe's reply, or repeats a part that was; through failures of
\* Telegram and of the mark, duplicates, stops and crashes.
NothingSwallowed == \A r \in arrived \ inbox : Said(r) \in told

\* A probe is judged missing only if its reply was not read within ReplyWithin:
\* not consumed, and not forwarded before the state was restored either (what
\* Defer is for).  The holes are a process that ends after the match without a
\* checkpoint, and a reply read while the next slot's probe is being sent, by a
\* send that then fails: it makes the earlier probe, whose reply matched
\* nothing, the outstanding one again.
NoFalseAlarm ==
  run.timedOut => run.prev.token \notin taken \ forgotten

\* A restart never resolves an open problem (BadAt): a Good that ends one
\* follows a reply matched since the problem was last read bad.
GoodNeedsReturn ==
  run.pc = "apply" /\ run.verdict = "good" /\ problem # 0 => lastReturn >= problem

\* A returned probe resolves the problem, and only a returned one does: when a
\* reply was matched since the last bad, the Good is still to come.  The one
\* hole is a run whose result is dropped, by a stop or a deadline, after it
\* decided the Good.
ReturnResolves ==
  /\ GoodNeedsReturn
  /\ problem # 0 /\ run.pc = "idle" /\ st.lastOK # 0 /\ st.lastOK >= st.badAt /\ ~Outstanding(st)
       => GoodDue \/ st.lastOK \in droppedGood

\* A slot's probe is sent once: a failed send is tried again, one that went out
\* is not, unless the process ended before that was saved.
OneProbePerSlot == run.pc = "send" => LastSlot(run.at) \notin slots
=============================================================================
