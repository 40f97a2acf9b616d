---------------------------- MODULE AlertStream ----------------------------
(***************************************************************************)
(* What the engine promises its notifier, without time: each condition is  *)
(* healthy, in a streak or open; a PROBLEM goes out exactly when a check's *)
(* run opens a condition and a RESOLVED exactly when a run ends an open    *)
(* one; everything else (clear, reopen, restart, load) is silent.          *)
(***************************************************************************)
CONSTANT Keys

VARIABLES
  status,  \* of each condition
  alerts   \* the alerts of the last step, as <<key, kind>> pairs

vars == <<status, alerts>>

Init ==
  /\ status = [k \in Keys |-> "healthy"]
  /\ alerts = {}

\* What one run of a check may do to a condition.
MayBecome(s) ==
  CASE s = "healthy" -> {"healthy", "streak", "open"}
    [] s = "streak"  -> {"healthy", "streak", "open"}
    [] s = "open"    -> {"healthy", "open"}

Raised(s, t) ==
  {<<k, "PROBLEM">> : k \in {j \in Keys : s[j] # "open" /\ t[j] = "open"}}

Resolved(s, t) ==
  {<<k, "RESOLVED">> : k \in {j \in Keys : s[j] = "open" /\ t[j] = "healthy"}}

\* A check's run moves conditions and announces it.
Run ==
  \E t \in [Keys -> {"healthy", "streak", "open"}] :
    /\ \A k \in Keys : t[k] \in MayBecome(status[k])
    /\ status' = t
    /\ alerts' = Raised(status, t) \cup Resolved(status, t)

\* Conditions end, are marked not yet raised, or come back from the store,
\* without a message.
Silent ==
  /\ status' \in [Keys -> {"healthy", "streak", "open"}]
  /\ alerts' = {}
  /\ \/ \A k \in Keys : status'[k] \in {status[k], "healthy"}
     \/ \A k \in Keys : status'[k] = status[k] \/ (status[k] = "open" /\ status'[k] = "streak")
     \/ \A k \in Keys : status[k] # "healthy" => status'[k] = status[k]

Next == Run \/ Silent

Spec == Init /\ [][Next]_vars
=============================================================================
