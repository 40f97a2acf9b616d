------------------------------ MODULE Notifier ------------------------------
(***************************************************************************)
(* The notifier's retry queue and SMS fallback (pkg/health/notify), with    *)
(* the runner's part in them: conditions raise and end, a dropped PROBLEM   *)
(* is reopened or listed, the tick checkpoints and a restart loads.  The    *)
(* tick and a pusher interleave between the sections that hold the          *)
(* notifier's lock, and a send that its lane abandoned settles later in a   *)
(* goroutine of its own.                                                    *)
(*                                                                          *)
(* A send is one step: its lane lets one run at a time (module Lane) and    *)
(* refuses sends while an abandoned one hangs.  Texts, routes and attempt   *)
(* counts are left out; the list of undelivered PROBLEMs is a set here.     *)
(***************************************************************************)
EXTENDS Naturals, Sequences, SequencesExt, FiniteSetsExt

CONSTANTS
  Keys,         \* condition keys
  Actors,       \* goroutines that call the notifier: "tick", and maybe "push"
  Modes,        \* delivery modes in use, of {"tlg", "sms", "tlg-or-sms"}
  MaxQueue,     \* the retry queue's limit
  MaxMsgs,      \* bound: messages handed to Notify
  MaxHangs,     \* bound: abandoned sends
  MaxEvents,    \* bound: messages and abandoned sends together
  MaxRestarts,  \* bound: restarts
  MaxFlushes    \* bound: flushes with something queued

ASSUME NotifierAssumption ==
  /\ "tick" \in Actors /\ Actors \subseteq {"tick", "push"} /\ Modes \subseteq {"tlg", "sms", "tlg-or-sms"}
  /\ {MaxQueue, MaxMsgs, MaxHangs, MaxEvents, MaxRestarts, MaxFlushes} \subseteq Nat

Channels == {"tlg", "sms"}
NoKey == "none"  \* the key of an event, which has no condition

VARIABLES
  queue,           \* n.queue: items [id, ch, n, kind, key]
  nextID,          \* n.nextID
  offline,         \* n.offline
  failing,         \* n.telegram.Failing()
  telegramOK,      \* n.telegramOK: a Telegram success was seen since start
  smsProblems,     \* n.smsProblems
  resolvedBefore,  \* n.resolvedBefore; 0 when absent
  undelivered,     \* n.undelivered: the PROBLEMs listed
  flights,         \* n.inflight with its settle goroutines: [tok, id, n]
  settlers,        \* settleFallback goroutines: [tok, key, n]
  cond,            \* the engine's conditions: open, and the message number at
                   \* which the streak began (0: untracked)
  hang,            \* per channel, the abandoned send in progress: [tok, n]
  results,         \* results of abandoned sends: [tok, ok]
  act,             \* what each actor is doing
  stored,          \* the state in the store
  loaded,          \* the stored state was merged
  \* history
  msgs,            \* messages handed to Notify so far, by number
  marked,          \* PROBLEMs that were queued when their key was last marked resolved
  sent,            \* deliveries: [channel, number] -> count
  afterEnd,        \* PROBLEMs delivered by SMS after their RESOLVED was
  byFallback,      \* PROBLEMs delivered by the SMS fallback
  robbed,          \* PROBLEMs whose key left the SMS-sent set for another message's sake
  dropped,         \* messages reported dropped, or stale
  crashed,         \* messages that died with a process before its next save
  hangs, restarts, flushes

queueVars == <<queue, nextID, resolvedBefore, flights, marked>>
smsVars == <<smsProblems, settlers, robbed>>
telegramVars == <<failing, telegramOK>>
sendVars == <<hang, results, hangs, sent, afterEnd, byFallback>>
dropVars == <<undelivered, dropped>>
storeVars == <<stored, loaded, restarts, crashed>>
vars == <<queueVars, smsVars, telegramVars, offline, sendVars, dropVars, storeVars,
          cond, act, msgs, flushes>>

Message == [n : Nat, kind : {"problem", "resolved", "event"}, key : Keys \cup {NoKey},
            mode : {"tlg", "sms", "tlg-or-sms"}, streak : Nat]

NoMessage == [n |-> 0, kind |-> "event", key |-> NoKey, mode |-> "tlg", streak |-> 0]

Untracked == [open |-> FALSE, since |-> 0]

\* An actor between calls.
Idle == [pc |-> "idle", next |-> "idle", msg |-> NoMessage, off |-> FALSE, tok |-> 0,
         via |-> FALSE, due |-> <<>>, blocked |-> {}, claimed |-> {}, drops |-> <<>>,
         conds |-> [k \in Keys |-> Untracked]]

NoHang == [tok |-> 0, n |-> 0]

\* An empty store.
NoState == [cond |-> [k \in Keys |-> Untracked], queue |-> <<>>, failing |-> FALSE, sms |-> {},
            undelivered |-> {}, upTo |-> 0, held |-> {}]

Init ==
  /\ queue = <<>> /\ nextID = 1 /\ resolvedBefore = [k \in Keys |-> 0]
  /\ offline = FALSE /\ failing = FALSE /\ telegramOK = FALSE
  /\ smsProblems = {} /\ undelivered = {} /\ flights = {} /\ settlers = {}
  /\ cond = [k \in Keys |-> Untracked]
  /\ hang = [c \in Channels |-> NoHang] /\ results = {}
  /\ act = [a \in Actors |-> Idle]
  /\ stored = NoState /\ loaded = TRUE
  /\ msgs = <<>> /\ marked = {} /\ dropped = {} /\ crashed = {}
  /\ sent = [c \in Channels |-> [n \in 1..MaxMsgs |-> 0]] /\ afterEnd = {} /\ byFallback = {} /\ robbed = {}
  /\ hangs = 0 /\ restarts = 0 /\ flushes = 0

-----------------------------------------------------------------------------
(* The queue *)

IDs(q) == {q[i].id : i \in 1..Len(q)}

Numbers(q) == {q[i].n : i \in 1..Len(q)}

\* removeLocked: the message with this number, if it is still queued.
RemoveID(q, id) ==
  IF id \in IDs(q) THEN RemoveAt(q, CHOOSE i \in 1..Len(q) : q[i].id = id) ELSE q

\* trim: the oldest messages beyond MaxQueue ...
Overflow(q) == SubSeq(q, 1, Len(q) - MaxQueue)
\* Fault: nothing is trimmed.
Untrimmed(q) == q

\* ... and what is left.
Trimmed(q) == SubSeq(q, Max({1, Len(q) - MaxQueue + 1}), Len(q))

Step(a, r) == act' = [act EXCEPT ![a] = r]

At(a, l) == act[a].pc = l

\* Actor a goes on at next, after reporting the messages it dropped.
GoOn(a, r, next, drops) ==
  Step(a, [r EXCEPT !.pc = IF drops = <<>> THEN next ELSE "report", !.next = next,
                    !.drops = drops])

\* Fault: an open condition stays open.
KeepOpen(k, n) == FALSE

\* The runner's dropped: a PROBLEM of the current streak, still open, reopens
\* its condition.
Reopens(k, n) == cond[k].open /\ n >= cond[k].since

\* reportDropped, outside the notifier's lock: the runner reopens the
\* condition of a dropped PROBLEM, or lists the PROBLEM as undelivered.
ReportDropped(a) ==
  /\ At(a, "report")
  /\ LET problems == {d \in Range(act[a].drops) : d.kind = "problem"}
         reopened == {d \in problems : Reopens(d.key, d.n)}
     IN /\ cond' = [k \in Keys |-> IF \E d \in reopened : d.key = k
                                     THEN [cond[k] EXCEPT !.open = FALSE] ELSE cond[k]]
        /\ undelivered' = undelivered \cup {d.n : d \in problems \ reopened}
        /\ dropped' = dropped \cup Numbers(act[a].drops)
        /\ Step(a, IF act[a].next = "idle" THEN Idle
                   ELSE [act[a] EXCEPT !.pc = act[a].next, !.drops = <<>>])
  /\ UNCHANGED <<queueVars, smsVars, telegramVars, offline, sendVars, storeVars, msgs, flushes>>

-----------------------------------------------------------------------------
(* Sends *)

\* The bounds leave room for one more message or abandoned send.
MoreEvents == Len(msgs) + hangs < MaxEvents

\* What a send on ch may do: the lane refuses while an abandoned send hangs;
\* past the tick's deadline everything is refused; else it succeeds, fails,
\* fails because the daemon stops, or is abandoned while in progress.
Outcomes(ch) ==
  IF hang[ch] # NoHang THEN {"busy", "late"}
  ELSE {"ok", "fail", "stopped", "late"} \cup (IF hangs < MaxHangs /\ MoreEvents THEN {"abandoned"} ELSE {})

\* The number of the abandoned send.
Token == hangs + 1

\* Message n reaches its reader on channel ch.
Delivered(ch, n) ==
  /\ sent' = [sent EXCEPT ![ch][n] = @ + 1]
  /\ afterEnd' = IF /\ ch = "sms" /\ msgs[n].kind = "problem"
                    /\ \E m \in DOMAIN msgs :
                         /\ msgs[m].kind = "resolved" /\ sent["sms"][m] > 0
                         /\ msgs[m].key = msgs[n].key /\ msgs[m].streak = msgs[n].streak
                 THEN afterEnd \cup {n} ELSE afterEnd

\* The channel's side of a send of message n.
Send(ch, n, o) ==
  /\ o \in Outcomes(ch)
  /\ IF o = "ok" THEN Delivered(ch, n) ELSE UNCHANGED <<sent, afterEnd>>
  /\ IF o = "abandoned"
       THEN hang' = [hang EXCEPT ![ch] = [tok |-> Token, n |-> n]] /\ hangs' = Token
       ELSE UNCHANGED <<hang, hangs>>
  /\ UNCHANGED results

\* telegramSent: a refusal past the deadline and a failure by the daemon's
\* stop say nothing about Telegram.
TelegramSent(o) ==
  /\ failing' = IF o \in {"late", "stopped"} THEN failing ELSE o # "ok"
  /\ telegramOK' = (telegramOK \/ o = "ok")

\* An abandoned send returns: its lane is free again, and its result waits for
\* the goroutine that settles it.
HangReturns(ch, ok) ==
  /\ hang[ch] # NoHang
  /\ hang' = [hang EXCEPT ![ch] = NoHang]
  /\ results' = results \cup {[tok |-> hang[ch].tok, ok |-> ok]}
  /\ IF ok THEN Delivered(ch, hang[ch].n) ELSE UNCHANGED <<sent, afterEnd>>
  /\ byFallback' = IF ok /\ \E s \in settlers : s.tok = hang[ch].tok
                     THEN byFallback \cup {hang[ch].n} ELSE byFallback
  /\ UNCHANGED <<hangs, queueVars, smsVars, telegramVars, offline, dropVars, storeVars, cond,
                 act, msgs, flushes>>

-----------------------------------------------------------------------------
(* Notify *)

\* Where Notify goes once its message is on its way: a RESOLVED settles its
\* PROBLEM's SMS, everything else goes on to the fallback.
AfterSend(m) == IF m.kind = "resolved" THEN "resolve" ELSE "fallback"

\* The message is handed over; Notify reads offline.  While the outside is
\* down Telegram is not tried, which counts as failing.
Notify(a, m) ==
  /\ At(a, "idle") /\ Len(msgs) < MaxMsgs /\ MoreEvents
  /\ msgs' = Append(msgs, m)
  /\ LET pc == CASE m.mode = "sms" -> "sms"
                 [] m.mode # "sms" /\ ~offline -> "telegram"
                 [] m.mode = "tlg" /\ offline -> "enqueue"
                 [] m.mode = "tlg-or-sms" /\ offline -> "instead"
     IN /\ Step(a, [Idle EXCEPT !.pc = pc, !.msg = m, !.off = offline])
        /\ failing' = (failing \/ pc = "enqueue")
  /\ UNCHANGED <<queueVars, smsVars, telegramOK, offline, sendVars, dropVars, storeVars, flushes>>

\* The streak a message of key k belongs to.
StreakOf(k) == IF cond[k].since = 0 THEN Len(msgs) + 1 ELSE cond[k].since

\* The tick's news of a condition, dispatched as soon as the engine opens or
\* resolves it: its PROBLEM, or the RESOLVED of an open one.
NotifyCondition(k, mode) ==
  /\ Notify("tick", [n |-> Len(msgs) + 1, key |-> k, mode |-> mode, streak |-> StreakOf(k),
                     kind |-> IF cond[k].open THEN "resolved" ELSE "problem"])
  /\ cond' = [cond EXCEPT ![k] = IF @.open THEN Untracked
                                 ELSE [open |-> TRUE, since |-> StreakOf(k)]]

\* A pushed event.
NotifyEvent(a, mode) ==
  /\ Notify(a, [n |-> Len(msgs) + 1, key |-> NoKey, mode |-> mode, streak |-> 0,
                kind |-> "event"])
  /\ UNCHANGED cond

\* sendTelegram, or the Telegram half of sendTelegramOrSMS.
TryTelegram(a, o) ==
  /\ At(a, "telegram")
  /\ Send("tlg", act[a].msg.n, o)
  /\ TelegramSent(o)
  /\ LET m == act[a].msg
         pc == CASE o = "ok" -> AfterSend(m)
                 [] o = "late" -> "enqueue"
                 [] OTHER -> IF m.mode = "tlg" THEN "enqueue" ELSE "instead"
     IN Step(a, [act[a] EXCEPT !.pc = pc, !.tok = IF o = "abandoned" THEN Token ELSE 0])
  /\ UNCHANGED <<queueVars, smsVars, offline, byFallback, dropVars, storeVars, cond, msgs, flushes>>

\* The SMS half of sendTelegramOrSMS.  A PROBLEM whose own SMS is abandoned
\* claims its key (claimAbandonedProblem); the Telegram copy is then queued,
\* and counts as failing when Telegram was not tried.
SMSInstead(a, o) ==
  /\ At(a, "instead")
  /\ Send("sms", act[a].msg.n, o)
  /\ LET m == act[a].msg
         claim == o = "abandoned" /\ m.kind = "problem"
     IN /\ Step(a, [act[a] EXCEPT !.pc = IF o = "ok" THEN AfterSend(m) ELSE "enqueue",
                                  !.via = (o = "ok")])
        /\ smsProblems' = IF claim THEN smsProblems \cup {m.key} ELSE smsProblems
        /\ settlers' = IF claim THEN settlers \cup {[tok |-> Token, key |-> m.key, n |-> m.n]}
                       ELSE settlers
        /\ failing' = (failing \/ (o # "ok" /\ act[a].off))
  /\ UNCHANGED <<queueVars, robbed, telegramOK, offline, byFallback, dropVars, storeVars, cond,
                 msgs, flushes>>

\* enqueueTracked: append, mark in flight when the send was abandoned, trim.
Enqueue(a, ch, tok, next) ==
  LET m == act[a].msg
      q == Append(queue, [id |-> nextID, ch |-> ch, n |-> m.n, kind |-> m.kind, key |-> m.key])
  IN /\ queue' = Trimmed(q)
     /\ nextID' = nextID + 1
     /\ flights' = IF tok = 0 THEN flights
                   ELSE flights \cup {[tok |-> tok, id |-> nextID, n |-> m.n]}
     /\ GoOn(a, act[a], next, Overflow(q))
     /\ UNCHANGED <<resolvedBefore, marked>>

\* The Telegram copy is queued.
EnqueueTelegram(a) ==
  /\ At(a, "enqueue")
  /\ Enqueue(a, "tlg", act[a].tok, AfterSend(act[a].msg))
  /\ UNCHANGED <<smsVars, telegramVars, offline, sendVars, dropVars, storeVars, cond, msgs, flushes>>

\* sendSMS: of a message in mode sms, or of the RESOLVED that follows its
\* PROBLEM by SMS.
SendSMS(a, o) ==
  /\ At(a, "sms") \/ At(a, "also")
  /\ Send("sms", act[a].msg.n, o)
  /\ LET next == IF At(a, "sms") THEN AfterSend(act[a].msg) ELSE "fallback"
     IN Step(a, [act[a] EXCEPT !.pc = IF o = "ok" THEN next ELSE "enqueueSMS",
                               !.via = At(a, "sms") \/ @,
                               !.tok = IF o = "abandoned" THEN Token ELSE 0,
                               !.next = next])
  /\ UNCHANGED <<queueVars, smsVars, telegramVars, offline, byFallback, dropVars, storeVars,
                 cond, msgs, flushes>>

\* A failed SMS is queued for retry.
EnqueueSMS(a) ==
  /\ At(a, "enqueueSMS")
  /\ Enqueue(a, "sms", act[a].tok, act[a].next)
  /\ UNCHANGED <<smsVars, telegramVars, offline, sendVars, dropVars, storeVars, cond, msgs, flushes>>

\* The PROBLEMs of the keys K queued so far are marked resolved.
MarkResolved(K) ==
  /\ resolvedBefore' = [k \in Keys |-> IF k \in K THEN nextID ELSE resolvedBefore[k]]
  /\ marked' = marked \cup {q.n : q \in {r \in Range(queue) : r.kind = "problem" /\ r.key \in K}}
  /\ UNCHANGED <<queue, nextID, flights>>

\* Fault: the RESOLVED of a PROBLEM sent by SMS waits for Telegram.
NeverAlso(a) == FALSE

\* resolvedBySMS: the PROBLEM went by SMS and the RESOLVED did not.
AlsoBySMS(a) == act[a].msg.key \in smsProblems /\ ~act[a].via

\* resolvedBySMS: mark the key's PROBLEMs queued so far as resolved; its
\* RESOLVED also goes by SMS when its PROBLEM did.
Resolve(a) ==
  /\ At(a, "resolve")
  /\ MarkResolved({act[a].msg.key})
  /\ smsProblems' = smsProblems \ {act[a].msg.key}
  /\ Step(a, [act[a] EXCEPT !.pc = IF AlsoBySMS(a) THEN "also" ELSE "fallback"])
  /\ UNCHANGED <<settlers, robbed, telegramVars, offline, sendVars, dropVars, storeVars, cond, msgs,
                 flushes>>

-----------------------------------------------------------------------------
(* The SMS fallback *)

\* Message n went by SMS, or its abandoned SMS is in progress.
Texted(n) == sent["sms"][n] > 0 \/ hang["sms"].n = n

\* The last queued PROBLEM or RESOLVED of item's key.
IsLastOfKey(item) ==
  \A i \in 1..Len(queue) :
    (queue[i].ch = "tlg" /\ queue[i].kind # "event" /\ queue[i].key = item.key)
      => queue[i].id <= item.id

\* Fault: the SMS-sent set is not looked at.
DueThoughSent(item) ==
  /\ item.ch = "tlg" /\ item.kind = "problem" /\ IsLastOfKey(item)
  /\ item.id >= resolvedBefore[item.key]

\* fallbackDueItemLocked.
FallbackDueItem(item) ==
  /\ item.ch = "tlg" /\ item.kind = "problem" /\ IsLastOfKey(item)
  /\ item.id >= resolvedBefore[item.key]
  /\ item.key \notin smsProblems

\* smsFallback: fallbackDueLocked picks and claims the PROBLEMs.
Fallback(a) ==
  /\ At(a, "fallback")
  /\ LET due == {item \in Range(queue) : failing /\ FallbackDueItem(item)}
     IN /\ smsProblems' = smsProblems \cup {d.key : d \in due}
        /\ Step(a, IF due = {} THEN Idle ELSE [Idle EXCEPT !.pc = "sending", !.claimed = due])
  /\ UNCHANGED <<queueVars, settlers, robbed, telegramVars, offline, sendVars, dropVars,
                 storeVars, cond, msgs, flushes>>

\* The SMS-sent set holds keys, not claims: when a claim of PROBLEM n is given back, the
\* PROBLEMs of the key that went by SMS, or that one of the actors A is sending, lose
\* their place in it (those marked resolved need none).
Robbed(n, A) ==
  {m \in DOMAIN msgs :
     /\ msgs[m].kind = "problem" /\ msgs[m].key = msgs[n].key /\ m \notin marked
     /\ Texted(m) \/ \E b \in A : m \in {d.n : d \in act[b].claimed}}

\* One SMS of the fallback, in the queue's order: the next on success; else the
\* claims of the unsent ones are given back, except that of an abandoned one,
\* which settles later.
FallbackSend(a, o) ==
  /\ At(a, "sending")
  /\ \E item \in act[a].claimed :
       LET rest == act[a].claimed \ {item}
           unsent == CASE o = "ok" -> {} [] o = "abandoned" -> rest [] OTHER -> act[a].claimed
       IN /\ \A d \in rest : item.id < d.id
          /\ Send("sms", item.n, o)
          /\ byFallback' = IF o = "ok" THEN byFallback \cup {item.n} ELSE byFallback
          /\ smsProblems' = smsProblems \ {d.key : d \in unsent}
          /\ robbed' = robbed \cup UNION {Robbed(d.n, Actors \ {a}) : d \in unsent}
          /\ settlers' = IF o = "abandoned"
                           THEN settlers \cup {[tok |-> Token, key |-> item.key, n |-> item.n]}
                           ELSE settlers
          /\ Step(a, IF o = "ok" /\ rest # {} THEN [act[a] EXCEPT !.claimed = rest] ELSE Idle)
  /\ UNCHANGED <<queueVars, telegramVars, offline, dropVars, storeVars, cond, msgs, flushes>>

\* settleFallback: a late failure gives the claim back.
SettleFallback(s, r) ==
  /\ s.tok = r.tok
  /\ settlers' = settlers \ {s}
  /\ smsProblems' = IF r.ok THEN smsProblems ELSE smsProblems \ {s.key}
  /\ robbed' = IF r.ok THEN robbed ELSE robbed \cup Robbed(s.n, Actors)
  /\ UNCHANGED <<queueVars, telegramVars, offline, sendVars, dropVars, storeVars, cond, act,
                 msgs, flushes>>

-----------------------------------------------------------------------------
(* The queued messages *)

\* Fault: a late result drops the message, whatever it is.
SettledAway(r) == TRUE

\* settle: only a late success drops the message.
DropsMessage(r) == r.ok

\* settle: an abandoned send of a queued message has returned.
Settle(f, r) ==
  /\ f.tok = r.tok
  /\ flights' = flights \ {f}
  /\ queue' = IF DropsMessage(r) THEN RemoveID(queue, f.id) ELSE queue
  /\ IF r.ok /\ \E i \in 1..Len(queue) : queue[i].id = f.id /\ queue[i].ch = "tlg"
       THEN TelegramSent("ok") ELSE UNCHANGED telegramVars
  /\ UNCHANGED <<nextID, resolvedBefore, marked, smsVars, offline, sendVars, dropVars,
                 storeVars, cond, act, msgs, flushes>>

\* Flush takes a copy of the queue.
FlushBegin ==
  /\ At("tick", "idle") /\ queue # <<>> /\ flushes < MaxFlushes
  /\ flushes' = flushes + 1
  /\ Step("tick", [Idle EXCEPT !.pc = "flush", !.due = queue,
                               !.blocked = IF offline THEN {"tlg"} ELSE {}])
  /\ UNCHANGED <<queueVars, smsVars, telegramVars, offline, sendVars, dropVars, storeVars,
                 cond, msgs>>

\* inFlight: the queued message has an abandoned send in progress.
InFlight(id) == \E f \in flights : f.id = id

\* Fault: the mark is not looked at.
NeverStale(item) == FALSE

\* staleSMSProblem.
StaleSMSProblem(item) ==
  item.ch = "sms" /\ item.kind = "problem" /\ item.id < resolvedBefore[item.key]

\* The rest of the flush, or the fallback when the copy is done.
Flushing(rest, blocked) ==
  IF rest = <<>> THEN [Idle EXCEPT !.pc = "fallback"]
  ELSE [Idle EXCEPT !.pc = "flush", !.due = rest, !.blocked = blocked]

\* A message that Flush does not send: its channel is blocked, its abandoned
\* send is in progress, or it is a PROBLEM resolved since.
FlushSkip ==
  /\ At("tick", "flush")
  /\ LET item == Head(act["tick"].due)
         blocked == act["tick"].blocked
         kept == item.ch \in blocked \/ InFlight(item.id)
     IN /\ kept \/ StaleSMSProblem(item)
        /\ queue' = IF kept THEN queue ELSE RemoveID(queue, item.id)
        /\ dropped' = IF kept THEN dropped ELSE dropped \cup {item.n}
        /\ Step("tick", Flushing(Tail(act["tick"].due),
                                 IF kept THEN blocked \cup {item.ch} ELSE blocked))
  /\ UNCHANGED <<nextID, resolvedBefore, flights, marked, smsVars, telegramVars, offline,
                 sendVars, undelivered, storeVars, cond, msgs, flushes>>

\* Flush sends a message of its copy ...
FlushSend(o) ==
  /\ At("tick", "flush")
  /\ LET item == Head(act["tick"].due)
     IN /\ item.ch \notin act["tick"].blocked /\ ~InFlight(item.id) /\ ~StaleSMSProblem(item)
        /\ Send(item.ch, item.n, o)
        /\ IF item.ch = "tlg" THEN TelegramSent(o) ELSE UNCHANGED telegramVars
  /\ Step("tick", [act["tick"] EXCEPT !.pc = IF o = "ok" THEN "flushed" ELSE "unflushed",
                                      !.tok = IF o = "abandoned" THEN Token ELSE 0])
  /\ UNCHANGED <<queueVars, smsVars, offline, byFallback, dropVars, storeVars, cond, msgs, flushes>>

\* ... and removes it once sent ...
FlushRemove ==
  /\ At("tick", "flushed")
  /\ queue' = RemoveID(queue, Head(act["tick"].due).id)
  /\ Step("tick", Flushing(Tail(act["tick"].due), act["tick"].blocked))
  /\ UNCHANGED <<nextID, resolvedBefore, flights, marked, smsVars, telegramVars, offline,
                 sendVars, dropVars, storeVars, cond, msgs, flushes>>

\* ... or stops its channel and tracks an abandoned send.
FlushTrack ==
  /\ At("tick", "unflushed")
  /\ LET item == Head(act["tick"].due)
         tok == act["tick"].tok
     IN /\ flights' = IF tok = 0 THEN flights
                      ELSE flights \cup {[tok |-> tok, id |-> item.id, n |-> item.n]}
        /\ Step("tick", Flushing(Tail(act["tick"].due), act["tick"].blocked \cup {item.ch}))
  /\ UNCHANGED <<queue, nextID, resolvedBefore, marked, smsVars, telegramVars, offline,
                 sendVars, dropVars, storeVars, cond, msgs, flushes>>

\* Expire: the oldest messages are dropped.
Expire ==
  /\ At("tick", "idle") /\ queue # <<>>
  /\ queue' = Tail(queue)
  /\ GoOn("tick", Idle, "idle", <<Head(queue)>>)
  /\ UNCHANGED <<nextID, resolvedBefore, flights, marked, smsVars, telegramVars, offline,
                 sendVars, dropVars, storeVars, cond, msgs, flushes>>

\* SetOffline, from the network check.
SetOffline ==
  /\ At("tick", "idle")
  /\ offline' = ~offline
  /\ UNCHANGED <<queueVars, smsVars, telegramVars, sendVars, dropVars, storeVars, cond, act,
                 msgs, flushes>>

-----------------------------------------------------------------------------
(* Conditions that begin and end without a message *)

\* A first bad reading, or a good one of a condition that is not open.
Streak(k) ==
  /\ At("tick", "idle") /\ ~cond[k].open
  /\ cond' = [cond EXCEPT ![k] = IF @ = Untracked THEN [open |-> FALSE, since |-> Len(msgs) + 1]
                                 ELSE Untracked]
  /\ UNCHANGED <<queueVars, smsVars, telegramVars, offline, sendVars, dropVars, storeVars, act,
                 msgs, flushes>>

\* ForgetEnded: of the keys in K, those sent by SMS leave the SMS-sent set and
\* their PROBLEMs queued so far are marked.  (A PROBLEM whose own SMS was abandoned
\* and whose Telegram copy is not queued yet is not.)
ForgetEnded(K) ==
  /\ smsProblems' = smsProblems \ K
  /\ MarkResolved(K \cap smsProblems)
  /\ robbed' = robbed \cup
       {n \in DOMAIN msgs :
          /\ msgs[n].kind = "problem" /\ msgs[n].key \in K \cap smsProblems /\ Texted(n)
          /\ \E a \in Actors : At(a, "enqueue") /\ act[a].msg.n = n}
  /\ UNCHANGED settlers

\* The /clear command, from its own goroutine: Clear, then ForgetEnded.
Clear(k) ==
  /\ cond[k] # Untracked
  /\ cond' = [cond EXCEPT ![k] = Untracked]
  /\ ForgetEnded({k})
  /\ UNCHANGED <<telegramVars, offline, sendVars, dropVars, storeVars, act, msgs, flushes>>

-----------------------------------------------------------------------------
(* The store *)

\* The end of a tick: ForgetEnded, then the checkpoint reads the conditions.
\* (Bound: nothing reads what is saved after the last restart.)
EndTick ==
  /\ At("tick", "idle")
  /\ ForgetEnded({k \in Keys : cond[k] = Untracked})
  /\ Step("tick", IF loaded /\ restarts < MaxRestarts
                    THEN [Idle EXCEPT !.pc = "checkpoint", !.conds = cond] ELSE Idle)
  /\ UNCHANGED <<telegramVars, offline, sendVars, dropVars, storeVars, cond, msgs, flushes>>

\* Messages in an actor's hands.
InHand == {act[a].msg.n : a \in {b \in Actors : ~At(b, "idle")}} \ {0}

\* Messages that are about to be reported dropped.
Dropping == UNION {Numbers(act[a].drops) : a \in Actors}

\* The checkpoint exports the notifier and writes both in one transaction.
Checkpoint ==
  /\ At("tick", "checkpoint")
  /\ stored' = [cond |-> act["tick"].conds, queue |-> queue, failing |-> failing,
                sms |-> smsProblems, undelivered |-> undelivered,
                upTo |-> Len(msgs), held |-> InHand \cup Dropping]
  /\ Step("tick", Idle)
  /\ UNCHANGED <<queueVars, smsVars, telegramVars, offline, sendVars, dropVars, loaded, restarts,
                 crashed, cond, msgs, flushes>>

\* The daemon dies and starts again; the stored state is not loaded yet.
Restart ==
  /\ restarts < MaxRestarts
  /\ restarts' = restarts + 1
  /\ queue' = <<>> /\ nextID' = 1 /\ resolvedBefore' = [k \in Keys |-> 0] /\ marked' = {}
  /\ failing' = FALSE /\ telegramOK' = FALSE /\ offline' = FALSE
  /\ smsProblems' = {} /\ undelivered' = {} /\ flights' = {} /\ settlers' = {}
  /\ cond' = [k \in Keys |-> Untracked]
  /\ hang' = [c \in Channels |-> NoHang] /\ results' = {}
  /\ act' = [a \in Actors |-> Idle]
  /\ crashed' = crashed \cup (stored.upTo + 1)..Len(msgs) \cup stored.held
  /\ loaded' = FALSE
  /\ UNCHANGED <<hangs, sent, afterEnd, byFallback, robbed, dropped, stored, msgs, flushes>>

\* The highest stored number.
Top == Max({0} \cup IDs(stored.queue))

\* Fault: memory's messages keep their numbers.
SameNumber(i) == queue[i].id

\* The message in place i of memory's queue is numbered after the stored ones.
Renumbered(i) == Top + i

NewID(id) == Renumbered(CHOOSE i \in 1..Len(queue) : queue[i].id = id)

\* Fault: the stored queue replaces memory's (Restore instead of Merge).
StoredOnly == stored.queue

\* Merge: the stored messages first, then memory's.
MergedQueue == stored.queue \o [i \in 1..Len(queue) |-> [queue[i] EXCEPT !.id = Renumbered(i)]]

\* Fault: the mark stays where it was.
SameMark(k, last) == resolvedBefore[k]

\* moveResolvedLocked: a mark ends past the stored messages, and memory's stay
\* on their side of it.
MovedMark(k, last) ==
  IF resolvedBefore[k] = 0 THEN 0
  ELSE Min({last} \cup {NewID(id) : id \in {j \in IDs(queue) : j >= resolvedBefore[k]}})

\* Load: the notifier's own state first (RestoreChannels, RestoreSMSProblems,
\* RestoreUndelivered), then the engine's Merge (memory wins per key), then
\* the notifier's, which moves the in-flight marks along (renumberLocked).
Load ==
  /\ ~loaded /\ At("tick", "idle")
  /\ loaded' = TRUE
  /\ failing' = (failing \/ (stored.failing /\ ~telegramOK))
  /\ smsProblems' = smsProblems \cup {k \in stored.sms : resolvedBefore[k] = 0}
  /\ undelivered' = undelivered \cup stored.undelivered
  /\ cond' = [k \in Keys |-> IF cond[k] = Untracked THEN stored.cond[k] ELSE cond[k]]
  /\ LET last == Max({nextID, Top + Len(queue) + 1})
         past == {s \in Range(stored.queue) : s.kind = "problem" /\ resolvedBefore[s.key] # 0}
     IN /\ queue' = Trimmed(MergedQueue)
        /\ GoOn("tick", Idle, "idle", Overflow(MergedQueue))
        /\ flights' = {[f EXCEPT !.id = NewID(@)] : f \in {g \in flights : g.id \in IDs(queue)}}
        /\ nextID' = last
        /\ resolvedBefore' = [k \in Keys |-> MovedMark(k, last)]
        /\ marked' = marked \cup {s.n : s \in past}
  /\ UNCHANGED <<settlers, robbed, telegramOK, offline, sendVars, dropped, stored, restarts,
                 crashed, msgs, flushes>>

-----------------------------------------------------------------------------
Next ==
  \/ \E k \in Keys, mode \in Modes : NotifyCondition(k, mode)
  \/ \E a \in Actors \ {"tick"}, mode \in Modes : NotifyEvent(a, mode)
  \/ \E a \in Actors, o \in {"ok", "fail", "stopped", "busy", "late", "abandoned"} :
       TryTelegram(a, o) \/ SMSInstead(a, o) \/ SendSMS(a, o) \/ FallbackSend(a, o)
  \/ \E a \in Actors :
       EnqueueTelegram(a) \/ EnqueueSMS(a) \/ Resolve(a) \/ Fallback(a) \/ ReportDropped(a)
  \/ FlushBegin \/ FlushSkip \/ FlushRemove \/ FlushTrack
  \/ \E o \in {"ok", "fail", "stopped", "busy", "late", "abandoned"} : FlushSend(o)
  \/ Expire \/ SetOffline
  \/ \E k \in Keys : Streak(k) \/ Clear(k)
  \/ \E ch \in Channels, ok \in BOOLEAN : HangReturns(ch, ok)
  \/ \E f \in flights, r \in results : Settle(f, r)
  \/ \E s \in settlers, r \in results : SettleFallback(s, r)
  \/ EndTick \/ Checkpoint \/ Restart \/ Load

Spec == Init /\ [][Next]_vars

-----------------------------------------------------------------------------
(* Properties *)

Item == [id : Nat, ch : Channels, n : Nat, kind : {"problem", "resolved", "event"},
         key : Keys \cup {NoKey}]

TypeOK ==
  /\ queue \in Seq(Item) /\ Len(queue) <= MaxQueue /\ nextID \in Nat /\ resolvedBefore \in [Keys -> Nat]
  /\ offline \in BOOLEAN /\ failing \in BOOLEAN /\ telegramOK \in BOOLEAN
  /\ smsProblems \subseteq Keys
  /\ flights \subseteq [tok : Nat, id : Nat, n : Nat]
  /\ settlers \subseteq [tok : Nat, key : Keys, n : Nat]
  /\ cond \in [Keys -> [open : BOOLEAN, since : Nat]]
  /\ hang \in [Channels -> [tok : Nat, n : Nat]]
  /\ results \subseteq [tok : Nat, ok : BOOLEAN]
  /\ Range(msgs) \subseteq Message

\* Messages that are queued, in memory or in the store that is not yet loaded,
\* or that are about to be reported dropped.
Queued ==
  Numbers(queue) \cup (IF loaded THEN {} ELSE Numbers(stored.queue)) \cup Dropping

WasSent(n) == \E ch \in Channels : sent[ch][n] > 0

\* No message handed to Notify is lost (Notify: "Failed deliveries are
\* queued"): it is being sent, was delivered, is queued, or was reported
\* dropped.  A message may only die with a process that never saved it: handed
\* over after the last save, or being sent or about to be reported dropped at it.
NothingLost ==
  \A n \in DOMAIN msgs : n \in InHand \cup Queued \cup dropped \cup crashed \/ WasSent(n)

\* FR-031: a condition is never left open whose PROBLEM never arrived and
\* never will ("a condition marked open whose PROBLEM never arrived would never
\* alert again"), whatever is trimmed, expired, abandoned, saved and loaded.
OpenProblemAccounted ==
  \A k \in Keys : cond[k].open =>
    \E n \in DOMAIN msgs :
      /\ msgs[n].kind = "problem" /\ msgs[n].key = k /\ msgs[n].streak = cond[k].since
      /\ n \in InHand \cup Queued \/ WasSent(n)

\* FR-031: nothing is dropped in silence.  A message leaves the queue delivered, or it is
\* reported and its condition raised again, also when a push and the tick change the queue
\* and the condition between each other's steps.
NothingSilent == NothingLost /\ OpenProblemAccounted

\* Flush, settle and Merge find a message by its number: numbers are unique,
\* in queue order and below the next one, and an in-flight mark stays on the
\* very message whose send it tracks, also when a late Load renumbers.
MarksFollowMessages ==
  /\ \A i, j \in 1..Len(queue) : i < j => queue[i].id < queue[j].id
  /\ \A i \in 1..Len(queue) : queue[i].id < nextID
  /\ \A f \in flights, i \in 1..Len(queue) : queue[i].id = f.id => queue[i].n = f.n
  /\ \A f, g \in flights : f.id = g.id => f = g

\* The resolved mark of a key separates the PROBLEMs queued when it ended from
\* those of a later streak, across a late Load that renumbers both: the first
\* are never due for an SMS, the others never count as ended.
ResolvedMarkSeparates ==
  \A i \in 1..Len(queue) :
    queue[i].kind = "problem" =>
      (queue[i].n \in marked <=> queue[i].id < resolvedBefore[queue[i].key])

\* A late load renumbers the queue: an in-flight mark stays on the message whose send it
\* tracks, and the resolved mark of a key still separates the PROBLEMs that ended from those
\* of a later streak.
MarksKept == TypeOK /\ MarksFollowMessages /\ ResolvedMarkSeparates

\* smsFallback sends a PROBLEM by SMS "once", whichever goroutines call it; except one that
\* lost its place in the SMS-sent set to another step on its key.
ProblemSMSOnce ==
  \A n \in DOMAIN msgs : msgs[n].kind = "problem" => sent["sms"][n] <= 1 \/ n \in robbed

\* FR-030: when a PROBLEM went by SMS through the fallback, its RESOLVED goes by
\* SMS too, or waits in the queue to; except one that lost its place in the SMS-sent set.
ResolvedFollowsBySMS ==
  \A n \in byFallback, m \in DOMAIN msgs :
    /\ msgs[m].kind = "resolved" /\ msgs[m].key = msgs[n].key /\ msgs[m].streak = msgs[n].streak
    /\ m \notin InHand /\ n \notin robbed
    => \/ sent["sms"][m] > 0 \/ m \in dropped \cup crashed \cup Dropping
       \/ \E i \in 1..Len(queue) : queue[i].n = m /\ queue[i].ch = "sms"

\* Flush: "ordering is kept and nothing is sent twice".
NothingSentTwice == \A n \in DOMAIN msgs : sent["tlg"][n] <= 1

\* "Once resolved, the PROBLEM is news no longer": no PROBLEM goes out by SMS
\* after its own RESOLVED went out by SMS.
NoProblemAfterResolved == afterEnd = {}
=============================================================================
