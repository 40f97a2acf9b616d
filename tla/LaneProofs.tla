----------------------------- MODULE LaneProofs -----------------------------
(***************************************************************************)
(* Proofs about Lane for any set of callers and any number of calls and     *)
(* ticks.  The safety properties are not inductive: they follow from what   *)
(* the lane's three fields say about the goroutines (SendInv), who watches  *)
(* which send (WatchInv), who is parked (ParkInv) and how the send context  *)
(* relates to the stop (StopInv).                                           *)
(***************************************************************************)
EXTENDS Lane, TLAPS

\* inFlight tells whether the goroutine of the last send holds the lane.
\* Numbers are never reused: a send that handed over its result is not in
\* progress.
SendInv ==
  /\ sending = IF inFlight THEN {seq} ELSE {}
  /\ \A s \in released \cup done : s <= seq /\ s \notin sending

\* A watched send was started, one caller watches it, and the send in progress
\* is unwatched exactly when it is marked abandoned.
WatchInv ==
  /\ \A c \in Callers : Watching(c) => mySeq[c] <= seq
  /\ \A c, d \in Callers :
       Watching(c) /\ Watching(d) /\ mySeq[c] = mySeq[d] => c = d
  /\ abandoned => inFlight
  /\ inFlight =>
       (abandoned <=> \A c \in Callers : ~(Watching(c) /\ mySeq[c] = seq))

\* Parked callers hold the channel that the send in progress will close.
ParkInv == \A c \in changed : pc[c] = "waiting" /\ inFlight /\ ~abandoned

\* The send context expires only after the stop has closed, so a call begun
\* later finds its stop closed.
StopInv ==
  /\ sendCtx = "expired" /\ sendStop # 0 => sendStop \in closed
  /\ \A c \in Callers : late[c] => pc[c] = "check" /\ stop[c] \in closed

LaneInv == TypeOK /\ SendInv /\ WatchInv /\ ParkInv /\ StopInv

\* The initial state of a lane satisfies the inductive invariant.
LEMMA LaneInit == Init => LaneInv
<1> SUFFICES ASSUME Init PROVE LaneInv
  OBVIOUS
<1>1. TypeOK BY DEF Init, TypeOK, PCs
<1>2. SendInv BY DEF Init, SendInv
<1>3. WatchInv BY DEF Init, WatchInv, Watching
<1>4. ParkInv BY DEF Init, ParkInv
<1>5. StopInv BY DEF Init, StopInv
<1> QED BY <1>1, <1>2, <1>3, <1>4, <1>5 DEF LaneInv

\* Every step of the tick's deadlines, of a caller and of a send's goroutine
\* preserves the types.
LEMMA TypeStep == TypeOK /\ [Next]_vars => TypeOK'
<1> SUFFICES ASSUME TypeOK, [Next]_vars PROVE TypeOK'
  OBVIOUS
<1> USE DEF TypeOK, PCs, laneVars, sendVars, tickVars, callVars
<1>1. CASE BoundSends BY <1>1 DEF BoundSends
<1>2. CASE EndSends BY <1>2 DEF EndSends
<1>3. CASE CloseStop BY <1>3 DEF CloseStop
<1>4. CASE ExpireSendCtx BY <1>4 DEF ExpireSendCtx
<1>5. CASE Shutdown BY <1>5 DEF Shutdown
<1>6. ASSUME NEW c \in Callers, CtxEnd(c) PROVE TypeOK'
  BY <1>6 DEF CtxEnd
<1>7. ASSUME NEW c \in Callers, CallRun(c) PROVE TypeOK'
  BY <1>7 DEF CallRun, Goto
<1>8. ASSUME NEW c \in Callers, CallerStep(c) PROVE TypeOK'
  <2>1. CASE RefusePastDeadline(c) BY <2>1 DEF RefusePastDeadline, Return, Goto
  <2>2. CASE PassCheck(c) BY <2>2 DEF PassCheck, Goto
  <2>3. CASE RefuseBusy(c) BY <2>3 DEF RefuseBusy, Return, Goto
  <2>4. CASE Take(c) BY <2>4 DEF Take, Goto
  <2>5. CASE Wait(c) BY <2>5 DEF Wait, Goto
  <2>6. CASE Wake(c) BY <2>6 DEF Wake, Goto
  <2>7. CASE WaitRefused(c) BY <2>7 DEF WaitRefused, Return, Goto
  <2>8. CASE TakeResult(c) BY <2>8 DEF TakeResult, Return, Goto
  <2>9. CASE GiveUp(c) BY <2>9 DEF GiveUp, Goto
  <2>10. CASE Abandon(c) BY <2>10 DEF Abandon, Return, Goto, Signal
  <2> QED BY <1>8, <2>1, <2>2, <2>3, <2>4, <2>5, <2>6, <2>7, <2>8, <2>9, <2>10
         DEF CallerStep
<1>9. ASSUME NEW s \in sending, Release(s) PROVE TypeOK'
  BY <1>9 DEF Release, Signal
<1>10. ASSUME NEW s \in released, HandOver(s) PROVE TypeOK'
  BY <1>10 DEF HandOver
<1>11. CASE UNCHANGED vars BY <1>11 DEF vars
<1> QED
  BY <1>1, <1>2, <1>3, <1>4, <1>5, <1>6, <1>7, <1>8, <1>9, <1>10, <1>11
  DEF Next, Terminating

\* The steps that touch neither the lane nor a caller's place in run: only the
\* relation between the send context and the stop is at stake.
LEMMA TickStep ==
  ASSUME LaneInv,
         BoundSends \/ EndSends \/ CloseStop \/ ExpireSendCtx \/ Shutdown
  PROVE  SendInv' /\ WatchInv' /\ ParkInv' /\ StopInv'
<1> USE DEF LaneInv, TypeOK, laneVars, sendVars, callVars
<1>1. UNCHANGED <<laneVars, sendVars, callVars>>
  BY DEF BoundSends, EndSends, CloseStop, ExpireSendCtx, Shutdown
<1>2. SendInv' BY <1>1 DEF SendInv
<1>3. WatchInv' BY <1>1 DEF WatchInv, Watching
<1>4. ParkInv' BY <1>1 DEF ParkInv
<1>5. StopInv'
  <2>1. CASE BoundSends BY <1>1, <2>1 DEF BoundSends, StopInv
  <2>2. CASE EndSends BY <1>1, <2>2 DEF EndSends, StopInv
  <2>3. CASE CloseStop BY <1>1, <2>3 DEF CloseStop, StopInv
  <2>4. CASE ExpireSendCtx BY <1>1, <2>4 DEF ExpireSendCtx, StopFires, StopInv
  <2>5. CASE Shutdown BY <1>1, <2>5 DEF Shutdown, StopInv
  <2> QED BY <2>1, <2>2, <2>3, <2>4, <2>5
<1> QED BY <1>2, <1>3, <1>4, <1>5

\* Steps of a caller that leave the lane's fields and its sends alone.
LEMMA LocalStep ==
  ASSUME LaneInv, NEW c \in Callers,
         \/ CtxEnd(c) \/ CallRun(c) \/ RefusePastDeadline(c) \/ PassCheck(c)
         \/ RefuseBusy(c) \/ Wake(c) \/ GiveUp(c)
  PROVE  SendInv' /\ WatchInv' /\ ParkInv' /\ StopInv'
<1> USE DEF LaneInv, TypeOK, laneVars, sendVars, tickVars, Goto, Return
<1>1. UNCHANGED <<laneVars, sendVars, tickVars>>
  BY DEF CtxEnd, CallRun, RefusePastDeadline, PassCheck, RefuseBusy, Wake, GiveUp
<1>2. SendInv' BY <1>1 DEF SendInv
<1>3. WatchInv'
  <2>1. \A d \in Callers :
          /\ Watching(d)' <=> Watching(d)
          /\ Watching(d) => mySeq'[d] = mySeq[d]
    BY DEF CtxEnd, CallRun, RefusePastDeadline, PassCheck, RefuseBusy, Wake, GiveUp, Watching
  <2> QED BY <1>1, <2>1 DEF WatchInv
<1>4. ParkInv'
  <2>1. \A d \in changed : pc[d] = "waiting" => pc'[d] = "waiting"
    BY DEF CtxEnd, CallRun, RefusePastDeadline, PassCheck, RefuseBusy, Wake, GiveUp
  <2> QED BY <1>1, <2>1 DEF ParkInv
<1>5. StopInv'
  <2>1. CASE CtxEnd(c) BY <1>1, <2>1 DEF CtxEnd, StopInv
  <2>2. CASE CallRun(c) BY <1>1, <2>2 DEF CallRun, StopInv
  <2>3. CASE RefusePastDeadline(c) BY <1>1, <2>3 DEF RefusePastDeadline, StopInv
  <2>4. CASE PassCheck(c) BY <1>1, <2>4 DEF PassCheck, StopClosed, StopInv
  <2>5. CASE RefuseBusy(c) BY <1>1, <2>5 DEF RefuseBusy, StopInv
  <2>6. CASE Wake(c) BY <1>1, <2>6 DEF Wake, StopInv
  <2>7. CASE GiveUp(c) BY <1>1, <2>7 DEF GiveUp, StopInv
  <2> QED BY <2>1, <2>2, <2>3, <2>4, <2>5, <2>6, <2>7
<1> QED BY <1>2, <1>3, <1>4, <1>5

\* acquire takes the free lane: nobody is parked, and the new number is larger
\* than every number a caller watches.
LEMMA TakeStep ==
  ASSUME LaneInv, NEW c \in Callers, Take(c)
  PROVE  SendInv' /\ WatchInv' /\ ParkInv' /\ StopInv'
<1> USE DEF LaneInv, TypeOK, Take, LaneFree, Goto, tickVars
<1>1. SendInv' BY DEF SendInv
<1>2. WatchInv'
  <2>1. \A d \in Callers \ {c} :
          /\ Watching(d)' <=> Watching(d)
          /\ mySeq'[d] = mySeq[d]
    BY DEF Watching
  <2>2. Watching(c)' /\ mySeq'[c] = seq + 1 /\ seq' = seq + 1
    BY DEF Watching
  <2>3. \A d \in Callers \ {c} : Watching(d)' => mySeq'[d] <= seq
    BY <2>1 DEF WatchInv
  <2>4. \A d \in Callers : mySeq'[d] \in Nat
    OBVIOUS
  <2> QED BY <2>1, <2>2, <2>3, <2>4 DEF WatchInv
<1>3. ParkInv' BY DEF ParkInv
<1>4. StopInv' BY DEF StopInv
<1> QED BY <1>1, <1>2, <1>3, <1>4

\* A caller parks, or leaves its parking place.
LEMMA WaitStep ==
  ASSUME LaneInv, NEW c \in Callers, Wait(c) \/ WaitRefused(c)
  PROVE  SendInv' /\ WatchInv' /\ ParkInv' /\ StopInv'
<1> USE DEF LaneInv, TypeOK, Wait, WaitRefused, LaneFree, Goto, Return, tickVars, sendVars
<1>1. SendInv'
  <2>1. UNCHANGED <<inFlight, seq, sending, released, done>>
    OBVIOUS
  <2> QED BY <2>1 DEF SendInv
<1>2. WatchInv'
  <2>1. \A d \in Callers :
          /\ Watching(d)' <=> Watching(d)
          /\ Watching(d) => mySeq'[d] = mySeq[d]
    BY DEF Watching
  <2> QED BY <2>1 DEF WatchInv
<1>3. ParkInv' BY DEF ParkInv
<1>4. StopInv' BY DEF StopInv
<1> QED BY <1>1, <1>2, <1>3, <1>4

\* A caller stops watching its send: it takes the result, and then the send is
\* no longer in progress, or it abandons the send, which marks the lane exactly
\* when the send is the one in progress.
LEMMA LeaveStep ==
  ASSUME LaneInv, NEW c \in Callers, TakeResult(c) \/ Abandon(c)
  PROVE  SendInv' /\ WatchInv' /\ ParkInv' /\ StopInv'
<1> USE DEF LaneInv, TypeOK, TakeResult, Abandon, OwnInFlight, Signal, Goto, Return,
            tickVars, sendVars, laneVars
<1>1. SendInv'
  <2>1. UNCHANGED <<inFlight, seq, sending, released, done>>
    OBVIOUS
  <2> QED BY <2>1 DEF SendInv
<1>2. WatchInv'
  <2>1. \A d \in Callers \ {c} :
          /\ Watching(d)' <=> Watching(d)
          /\ mySeq'[d] = mySeq[d]
    BY DEF Watching
  <2>2. Watching(c) /\ ~Watching(c)' /\ inFlight' = inFlight /\ seq' = seq
    BY DEF Watching
  <2>3. CASE inFlight /\ mySeq[c] = seq
    <3>1. Abandon(c)
      BY <2>3 DEF SendInv
    <3>2. abandoned'
      BY <2>3, <3>1
    <3>3. \A d \in Callers : ~(Watching(d)' /\ mySeq'[d] = seq)
      BY <2>1, <2>2, <2>3 DEF WatchInv
    <3> QED BY <2>1, <2>2, <2>3, <3>2, <3>3 DEF WatchInv
  <2>4. CASE ~(inFlight /\ mySeq[c] = seq)
    <3>1. abandoned' = abandoned
      BY <2>4
    <3> QED BY <2>1, <2>2, <2>4, <3>1 DEF WatchInv
  <2> QED BY <2>3, <2>4
<1>3. ParkInv'
  <2>1. \A d \in changed : d # c
    BY DEF ParkInv
  <2> QED BY <2>1 DEF ParkInv
<1>4. StopInv' BY DEF StopInv
<1> QED BY <1>1, <1>2, <1>3, <1>4

\* The goroutine of a send releases the lane and hands over its result.
LEMMA SendStep ==
  ASSUME LaneInv,
         (\E s \in sending : Release(s)) \/ (\E s \in released : HandOver(s))
  PROVE  SendInv' /\ WatchInv' /\ ParkInv' /\ StopInv'
<1> USE DEF LaneInv, TypeOK, Release, HandOver, Signal, tickVars, callVars, laneVars
<1>1. UNCHANGED <<tickVars, callVars, seq>>
  OBVIOUS
<1>2. SendInv'
  <2>1. ASSUME NEW s \in sending, Release(s) PROVE SendInv'
    <3>1. sending = {seq} /\ s = seq
      BY DEF SendInv
    <3>2. sending' = {} /\ ~inFlight' /\ seq' = seq /\ done' = done
      BY <2>1, <3>1
    <3>3. released' = released \cup {seq}
      BY <2>1, <3>1
    <3> QED BY <3>2, <3>3 DEF SendInv
  <2>2. ASSUME NEW s \in released, HandOver(s) PROVE SendInv'
    BY <2>2 DEF SendInv
  <2> QED BY <2>1, <2>2
<1>3. WatchInv' BY <1>1 DEF WatchInv, Watching
<1>4. ParkInv' BY <1>1 DEF ParkInv
<1>5. StopInv' BY <1>1 DEF StopInv
<1> QED BY <1>2, <1>3, <1>4, <1>5

\* Every step of the lane, its callers and its ticks preserves the inductive
\* invariant.
LEMMA LaneStep == LaneInv /\ [Next]_vars => LaneInv'
<1> SUFFICES ASSUME LaneInv, [Next]_vars PROVE SendInv' /\ WatchInv' /\ ParkInv' /\ StopInv'
  BY TypeStep DEF LaneInv
<1>1. CASE BoundSends \/ EndSends \/ CloseStop \/ ExpireSendCtx \/ Shutdown
  BY <1>1, TickStep
<1>2. ASSUME NEW c \in Callers, CtxEnd(c) \/ CallRun(c) \/ CallerStep(c)
      PROVE  SendInv' /\ WatchInv' /\ ParkInv' /\ StopInv'
  BY <1>2, LocalStep, TakeStep, WaitStep, LeaveStep DEF CallerStep
<1>3. CASE (\E s \in sending : Release(s)) \/ (\E s \in released : HandOver(s))
  BY <1>3, SendStep
<1>4. CASE UNCHANGED vars
  BY <1>4 DEF LaneInv, SendInv, WatchInv, ParkInv, StopInv, Watching,
              vars, laneVars, sendVars, tickVars, callVars
<1> QED BY <1>1, <1>2, <1>3, <1>4 DEF Next, Terminating

\* The inductive invariant holds in every reachable state.
THEOREM LaneInvariant == Spec => []LaneInv
  BY LaneInit, LaneStep, PTL DEF Spec

\* The lane's state keeps its types.
THEOREM LaneTypes == Spec => []TypeOK
<1>1. LaneInv => TypeOK BY DEF LaneInv
<1> QED BY <1>1, LaneInvariant, PTL

\* For any number of callers: two goroutines never send on the channel at once
\* (lane.run, acquire).
THEOREM LaneMutualExclusion == Spec => []OneSendAtATime
<1>1. LaneInv => OneSendAtATime BY DEF LaneInv, SendInv, OneSendAtATime
<1> QED BY <1>1, LaneInvariant, PTL

\* The lane is marked abandoned exactly while a send that its caller has left
\* is still running (abandon compares the send's number).
THEOREM LaneAbandon == Spec => []AbandonedIffHanging
<1>1. LaneInv => AbandonedIffHanging
  BY DEF LaneInv, SendInv, WatchInv, AbandonedIffHanging
<1> QED BY <1>1, LaneInvariant, PTL

\* No caller is parked on a channel nobody will close (acquire, signal).
THEOREM LaneWakeups == Spec => []NoLostWakeup
<1>1. LaneInv => NoLostWakeup
  BY DEF LaneInv, TypeOK, WatchInv, ParkInv, NoLostWakeup
<1> QED BY <1>1, LaneInvariant, PTL

\* A send begun after the tick's send context expired is never started
\* (boundSends ends the context from the stop).
THEOREM LaneDeadline == Spec => []ExpiredNeverStarts
<1>1. LaneInv => ExpiredNeverStarts
  BY DEF LaneInv, StopInv, ExpiredNeverStarts, Watching
<1> QED BY <1>1, LaneInvariant, PTL
=============================================================================
