-------------------------------- MODULE Lane --------------------------------
(***************************************************************************)
(* One delivery channel of the health runner (pkg/health/runner/deliver.go): *)
(* Telegram, SMS or email.  Callers (the tick, a pushed event, a checker     *)
(* error) send through the lane one at a time.  A send runs in a goroutine   *)
(* of its own; a caller leaves it running ("abandons" it) when the tick's    *)
(* stop closes or its context ends, and while an abandoned send is still in  *)
(* progress the lane refuses new ones.                                       *)
(*                                                                           *)
(* The mutex l.mu makes acquire's decision, release and abandon atomic; the  *)
(* steps between them interleave.  `changed` is modelled by the set of       *)
(* callers that hold the open channel: closing it empties the set.           *)
(***************************************************************************)
EXTENDS Naturals

CONSTANTS
  Others,    \* callers with a context of their own: pushes, checker errors
  Ticker,    \* the tick's goroutine, whose sends carry the tick's send context
  MaxCalls,  \* bound: calls of lane.run
  MaxTicks   \* bound: ticks

ASSUME LaneAssumption ==
  /\ Ticker \notin Others
  /\ MaxCalls \in Nat
  /\ MaxTicks \in Nat

Callers == Others \cup {Ticker}

VARIABLES
  inFlight, abandoned, seq,  \* the lane's fields
  changed,    \* callers holding the lane's open `changed` channel
  sending,    \* numbers of the sends whose goroutine has not released the lane
  released,   \* ... that released it and have not handed over their result
  done,       \* ... whose result is in their buffered channel
  sendStop,   \* deliveries.sendStop: the running tick's number, 0 for nil
  tickNo,     \* ticks begun so far
  closed,     \* ticks whose stop channel is closed
  sendCtx,    \* the tick's send context: "live", "expired" or "cancelled"
  shutdown,   \* the worker's context is cancelled
  pc,         \* where each caller is in run
  stop,       \* the stop each caller read
  mySeq,      \* the number acquire gave each caller
  ctxEnded,   \* whether a caller's own context has ended
  late,       \* history: the send context had expired when the call began
  calls       \* calls made so far

laneVars == <<inFlight, abandoned, seq, changed>>
sendVars == <<sending, released, done>>
tickVars == <<sendStop, tickNo, closed, sendCtx, shutdown>>
callVars == <<pc, stop, mySeq, ctxEnded, late, calls>>
vars == <<laneVars, sendVars, tickVars, callVars>>

PCs == {"idle", "check", "acquire", "waiting", "select", "abandon"}

\* The one type invariant of the module.
TypeOK ==
  /\ inFlight \in BOOLEAN /\ abandoned \in BOOLEAN
  /\ seq \in Nat /\ changed \subseteq Callers
  /\ sending \subseteq Nat /\ released \subseteq Nat /\ done \subseteq Nat
  /\ sendStop \in Nat /\ tickNo \in Nat /\ closed \subseteq Nat
  /\ sendCtx \in {"live", "expired", "cancelled"}
  /\ shutdown \in BOOLEAN
  /\ pc \in [Callers -> PCs]
  /\ stop \in [Callers -> Nat]
  /\ mySeq \in [Callers -> Nat]
  /\ ctxEnded \in [Callers -> BOOLEAN]
  /\ late \in [Callers -> BOOLEAN]
  /\ calls \in Nat

Init ==
  /\ inFlight = FALSE /\ abandoned = FALSE /\ seq = 0 /\ changed = {}
  /\ sending = {} /\ released = {} /\ done = {}
  /\ sendStop = 0 /\ tickNo = 0 /\ closed = {}
  /\ sendCtx = "live" /\ shutdown = FALSE
  /\ pc = [c \in Callers |-> "idle"]
  /\ stop = [c \in Callers |-> 0]
  /\ mySeq = [c \in Callers |-> 0]
  /\ ctxEnded = [c \in Callers |-> FALSE]
  /\ late = [c \in Callers |-> FALSE]
  /\ calls = 0

-----------------------------------------------------------------------------
(* The tick's deadlines *)

\* boundSends: a new tick's stop bounds every send from now on.  The send
\* context is a child of the worker's, so a shutdown has already ended it.
BoundSends ==
  /\ sendStop = 0 /\ tickNo < MaxTicks
  /\ tickNo = 0 \/ tickNo \in closed
  /\ tickNo' = tickNo + 1
  /\ sendStop' = tickNo + 1
  /\ sendCtx' = IF shutdown THEN "cancelled" ELSE "live"
  /\ UNCHANGED <<closed, shutdown, laneVars, sendVars, callVars>>

\* The end function boundSends returned, called when the tick's goroutine has
\* finished its sends; its cancelSend is a CloseStop.
EndSends ==
  /\ sendStop # 0 /\ pc[Ticker] = "idle"
  /\ sendStop' = 0
  /\ UNCHANGED <<tickNo, closed, sendCtx, shutdown, laneVars, sendVars, callVars>>

\* sendDeadline ends: its timer fires, or cancelSend after the tick.
CloseStop ==
  /\ tickNo # 0 /\ tickNo \notin closed
  /\ closed' = closed \cup {tickNo}
  /\ UNCHANGED <<sendStop, tickNo, sendCtx, shutdown, laneVars, sendVars, callVars>>

\* Fault: the send context runs on a timer of its own for the same instant.
OwnTimerFires == sendStop # 0

\* The AfterFunc of boundSends fires once the send stop has closed.
StopFires == sendStop # 0 /\ sendStop \in closed

\* The send context ends from the send stop itself.
ExpireSendCtx ==
  /\ StopFires /\ sendCtx = "live"
  /\ sendCtx' = "expired"
  /\ UNCHANGED <<sendStop, tickNo, closed, shutdown, laneVars, sendVars, callVars>>

\* The daemon stops: the worker's context, and so the send context, ends.
Shutdown ==
  /\ ~shutdown
  /\ shutdown' = TRUE
  /\ sendCtx' = IF sendCtx = "live" THEN "cancelled" ELSE sendCtx
  /\ UNCHANGED <<sendStop, tickNo, closed, laneVars, sendVars, callVars>>

\* The context of a push or of a checker error ends.
CtxEnd(c) ==
  /\ c \in Others /\ pc[c] # "idle" /\ ~ctxEnded[c]
  /\ ctxEnded' = [ctxEnded EXCEPT ![c] = TRUE]
  /\ UNCHANGED <<pc, stop, mySeq, late, calls, laneVars, sendVars, tickVars>>

CtxDone(c) == IF c = Ticker THEN sendCtx # "live" ELSE ctxEnded[c]

StopClosed(c) == stop[c] \in closed

\* Fault: a select that watches only the context.
OutOfContext(c) == CtxDone(c)

\* What ends the wait of both selects: the tick's stop, or the context.
OutOfTime(c) == StopClosed(c) \/ CtxDone(c)

\* Fault: a send in progress is not looked at.
LaneNotAbandoned == ~abandoned

\* acquire's second case: no send is in progress.
LaneFree == ~inFlight

\* Fault: the send's number is not compared.
AnyInFlight(c) == inFlight

\* abandon's condition: the caller's send still is the one in progress.
OwnInFlight(c) == inFlight /\ seq = mySeq[c]

\* Fault: the channel is not closed.
NoSignal == changed' = changed

\* signal closes the channel every waiter holds.
Signal == changed' = {}

-----------------------------------------------------------------------------
(* lane.run, one caller *)

Goto(c, l) == pc' = [pc EXCEPT ![c] = l]

\* run returns: the caller's locals are gone.
Return(c) ==
  /\ Goto(c, "idle")
  /\ stop' = [stop EXCEPT ![c] = 0]
  /\ mySeq' = [mySeq EXCEPT ![c] = 0]
  /\ ctxEnded' = [ctxEnded EXCEPT ![c] = FALSE]
  /\ late' = [late EXCEPT ![c] = FALSE]
  /\ calls' = calls

\* run reads the stop of the running tick.  The tick's goroutine sends only
\* between boundSends and its end.
CallRun(c) ==
  /\ pc[c] = "idle" /\ calls < MaxCalls
  /\ c = Ticker => sendStop # 0
  /\ Goto(c, "check")
  /\ stop' = [stop EXCEPT ![c] = sendStop]
  /\ late' = [late EXCEPT ![c] = (c = Ticker /\ sendCtx = "expired")]
  /\ calls' = calls + 1
  /\ UNCHANGED <<mySeq, ctxEnded, laneVars, sendVars, tickVars>>

\* The select on stop with a default: refused past the deadline ...
RefusePastDeadline(c) ==
  /\ pc[c] = "check" /\ StopClosed(c)
  /\ Return(c)
  /\ UNCHANGED <<laneVars, sendVars, tickVars>>

\* ... or on to acquire.
PassCheck(c) ==
  /\ pc[c] = "check" /\ ~StopClosed(c)
  /\ Goto(c, "acquire")
  /\ UNCHANGED <<stop, mySeq, ctxEnded, late, calls, laneVars, sendVars, tickVars>>

\* acquire while an abandoned send is in progress: errChannelBusy.
RefuseBusy(c) ==
  /\ pc[c] = "acquire" /\ abandoned
  /\ Return(c)
  /\ UNCHANGED <<laneVars, sendVars, tickVars>>

\* acquire takes the free lane, and run starts the send's goroutine.
Take(c) ==
  /\ pc[c] = "acquire" /\ ~abandoned /\ LaneFree
  /\ inFlight' = TRUE
  /\ seq' = seq + 1
  /\ mySeq' = [mySeq EXCEPT ![c] = seq + 1]
  /\ sending' = sending \cup {seq + 1}
  /\ Goto(c, "select")
  /\ UNCHANGED <<abandoned, changed, released, done, stop, ctxEnded, late, calls, tickVars>>

\* acquire finds a send in progress and holds the `changed` channel.
Wait(c) ==
  /\ pc[c] = "acquire" /\ ~abandoned /\ ~LaneFree
  /\ changed' = changed \cup {c}
  /\ Goto(c, "waiting")
  /\ UNCHANGED <<inFlight, abandoned, seq, stop, mySeq, ctxEnded, late, calls,
                 sendVars, tickVars>>

\* The waiting select: `changed` was closed, so acquire looks again ...
Wake(c) ==
  /\ pc[c] = "waiting" /\ c \notin changed
  /\ Goto(c, "acquire")
  /\ UNCHANGED <<stop, mySeq, ctxEnded, late, calls, laneVars, sendVars, tickVars>>

\* ... or the stop closed or the context ended, and the send is refused.
WaitRefused(c) ==
  /\ pc[c] = "waiting" /\ OutOfTime(c)
  /\ Return(c)
  /\ changed' = changed \ {c}
  /\ UNCHANGED <<inFlight, abandoned, seq, sendVars, tickVars>>

\* run's select: the send's result ...
TakeResult(c) ==
  /\ pc[c] = "select" /\ mySeq[c] \in done
  /\ Return(c)
  /\ UNCHANGED <<laneVars, sendVars, tickVars>>

\* ... or the stop or the context, although the result may be there too.
GiveUp(c) ==
  /\ pc[c] = "select" /\ OutOfTime(c)
  /\ Goto(c, "abandon")
  /\ UNCHANGED <<stop, mySeq, ctxEnded, late, calls, laneVars, sendVars, tickVars>>

\* abandon marks the caller's own send, if that still is the one in progress,
\* and run returns an AbandonedError.
Abandon(c) ==
  /\ pc[c] = "abandon"
  /\ Return(c)
  /\ IF OwnInFlight(c)
       THEN abandoned' = TRUE /\ Signal
       ELSE UNCHANGED <<abandoned, changed>>
  /\ UNCHANGED <<inFlight, seq, sendVars, tickVars>>

-----------------------------------------------------------------------------
(* The goroutine of send s *)

\* send returns and release frees the lane and wakes the waiters.
Release(s) ==
  /\ s \in sending
  /\ sending' = sending \ {s}
  /\ released' = released \cup {s}
  /\ inFlight' = FALSE /\ abandoned' = FALSE
  /\ Signal
  /\ UNCHANGED <<seq, done, tickVars, callVars>>

\* done <- err: the result is there for the caller, or for whoever holds the
\* AbandonedError.
HandOver(s) ==
  /\ s \in released
  /\ released' = released \ {s}
  /\ done' = done \cup {s}
  /\ UNCHANGED <<sending, laneVars, tickVars, callVars>>

-----------------------------------------------------------------------------
CallerStep(c) ==
  \/ RefusePastDeadline(c) \/ PassCheck(c) \/ RefuseBusy(c) \/ Take(c) \/ Wait(c) \/ Wake(c)
  \/ WaitRefused(c) \/ TakeResult(c) \/ GiveUp(c) \/ Abandon(c)

\* All calls of the bound made and answered.
Terminating ==
  /\ calls = MaxCalls /\ \A c \in Callers : pc[c] = "idle"
  /\ UNCHANGED vars

Next ==
  \/ BoundSends \/ EndSends \/ CloseStop \/ ExpireSendCtx \/ Shutdown
  \/ \E c \in Callers : CtxEnd(c) \/ CallRun(c) \/ CallerStep(c)
  \/ \E s \in sending : Release(s)
  \/ \E s \in released : HandOver(s)
  \/ Terminating

\* Goroutines run, and a stop's timer fires.  A send may hang for ever (the
\* Telegram publisher ignores its context), so Release has no fairness.
Fairness ==
  /\ \A c \in Callers : WF_vars(CallerStep(c))
  /\ \A s \in 1..MaxCalls : WF_vars(HandOver(s))
  /\ WF_vars(CloseStop)

Spec == Init /\ [][Next]_vars /\ Fairness

-----------------------------------------------------------------------------
(* Properties *)

\* Callers that still watch a send they started.
Watching(c) == pc[c] \in {"select", "abandon"}

\* Sends go one at a time over the channel, whatever callers abandon: two
\* goroutines never call the channel's send at once (lane's comment).
OneSendAtATime == \A s, t \in sending : s = t

\* The lane is marked abandoned exactly while a send runs that its caller has
\* left: a late abandon never marks a newer send (which would refuse every
\* message although the channel works), and a hanging one is never missed
\* (its message would be sent a second time behind it).
AbandonedIffHanging ==
  abandoned <=> \E s \in sending : \A c \in Callers : ~(Watching(c) /\ mySeq[c] = s)

\* No lost wake-up: a caller parked on the open channel waits for a send that
\* another caller is watching; release or abandon will close the channel.
NoLostWakeup ==
  \A c \in changed :
    /\ pc[c] = "waiting"
    /\ inFlight /\ ~abandoned
    /\ \E d \in Callers : Watching(d) /\ mySeq[d] = seq

\* A tick's send begun after its send context expired is never started, even
\* on a free lane (the SMS fallback after a Telegram hang): the context ends
\* from the stop itself, so run's first check refuses it (boundSends).
ExpiredNeverStarts == \A c \in Callers : Watching(c) => ~late[c]

\* A caller never waits for ever: a call bounded by a tick, or whose context
\* ends, returns although the send in progress may hang.
BoundedCallReturns ==
  \A c \in Callers :
    (pc[c] # "idle" /\ (stop[c] # 0 \/ CtxDone(c))) ~> (pc[c] = "idle")
=============================================================================
