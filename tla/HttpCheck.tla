------------------------------- MODULE HttpCheck -------------------------------
(***************************************************************************)
(* One run of the http check (pkg/health/check/httpcheck): the request and its *)
(* redirects, each hop with a DNS-over-HTTPS lookup and an answer, then the    *)
(* container beside it, every step bounded by health.Bound so that the check   *)
(* itself judges what hangs, however late in the tick it was started.          *)
(*                                                                             *)
(* The dial, and the lookup in it, runs on its own: the request may end by its *)
(* timeout while the lookup is still pending.                                  *)
(***************************************************************************)
EXTENDS Integers

CONSTANTS
  Timeout,      \* the entry's timeout
  Budgets,      \* what may be left of the run when the check starts
  Margin,       \* RunMargin
  MarginShare,  \* marginShare
  MaxRedirects  \* maxRedirects

VARIABLES
  conf,         \* the entry
  at,           \* "start", "lookup", "answer", "failed", "judged", "container", "done", "abandoned"
  left,         \* of the run's deadline
  limit,        \* of the step under way
  cancelled,    \* the daemon is stopping: the run's context ended
  hops, origin, \* redirects so far, and where this hop goes: "own" or "other"
  trace,        \* dohTrace: "none", "pending", "failed", "negative"
  probe,        \* outcome of the request: "none", "good", "bad", "unjudged"
  container,    \* outcome of the container
  reading,      \* "none", "Good", "Bad"
  erred,        \* CheckResult.Err is set
  \* history
  sent,         \* origins that were sent the secret header
  facts         \* what happened to the endpoint and around it

vars == <<conf, at, left, limit, cancelled, hops, origin, trace, probe, container, reading, erred, sent, facts>>

Least(a, b) == IF a < b THEN a ELSE b

Confs == [follow : BOOLEAN, header : {"none", "usable", "unusable"}, doh : BOOLEAN, auth : BOOLEAN, container : BOOLEAN]

Init ==
  /\ conf \in Confs /\ left \in Budgets
  /\ at = "start" /\ limit = 0 /\ cancelled = FALSE /\ hops = 0 /\ origin = "own" /\ trace = "none"
  /\ probe = "none" /\ container = "none" /\ reading = "none" /\ erred = FALSE
  /\ sent = {} /\ facts = {}

-----------------------------------------------------------------------------
(* Time *)

\* A plausible fault: the step gets its timeout, whatever is left of the run.
TimeoutOnly(l) == Timeout

\* Bound: a margin, or a share of what is left, is kept for the judgement.
Bound(l) ==
  LET share == l \div MarginShare
      kept == Least(Margin, IF share = 0 /\ l > 0 THEN 1 ELSE share)
  IN Least(Timeout, l - kept)

\* A step that waits uses up its limit and the run's deadline.
Pass ==
  /\ at \in {"lookup", "answer", "container"} /\ limit > 0 /\ left > 0
  /\ limit' = limit - 1 /\ left' = left - 1
  /\ UNCHANGED <<conf, at, cancelled, hops, origin, trace, probe, container, reading, erred, sent, facts>>

\* RunBounded gives the run up at its deadline.
Abandon ==
  /\ at \notin {"done", "abandoned"} /\ left = 0
  /\ at' = "abandoned"
  /\ UNCHANGED <<conf, left, limit, cancelled, hops, origin, trace, probe, container, reading, erred, sent, facts>>

Cancel ==
  /\ ~cancelled /\ at \notin {"done", "abandoned"}
  /\ cancelled' = TRUE
  /\ UNCHANGED <<conf, at, left, limit, hops, origin, trace, probe, container, reading, erred, sent, facts>>

-----------------------------------------------------------------------------
(* The request *)

\* headerValue
Secret == conf.header /= "unusable"

Hop(o) ==
  /\ origin' = o
  /\ at' = IF conf.doh THEN "lookup" ELSE "answer"
  /\ trace' = IF conf.doh THEN "pending" ELSE "none"

Start ==
  /\ at = "start"
  /\ IF ~Secret
     THEN at' = "done" /\ erred' = TRUE /\ UNCHANGED <<origin, trace, limit>>
     ELSE Hop("own") /\ limit' = Bound(left) /\ UNCHANGED erred
  /\ UNCHANGED <<conf, left, cancelled, hops, probe, container, reading, sent, facts>>

\* resolve: an answer, a definitive negative one, or a failure.
Lookup ==
  /\ at = "lookup"
  /\ \/ trace' = "none" /\ at' = "answer" /\ UNCHANGED facts
     \/ trace' = "failed" /\ at' = "failed" /\ facts' = facts \cup {"resolver"}
     \/ trace' = "negative" /\ at' = "failed" /\ facts' = facts \cup {"gone"}
  /\ UNCHANGED <<conf, left, limit, cancelled, hops, origin, probe, container, reading, erred, sent>>

\* A plausible fault: the header follows every redirect.
Everywhere(o) == conf.header = "usable"

\* checkRedirect: the client copies the first request's headers to every hop; the
\* secret one is taken off where scheme or host differ.
Carries(o) == conf.header = "usable" /\ o = "own"

Judge(p) == probe' = p /\ at' = "judged"

\* The connection is made and the hop's request sent: it redirects, is answered, is
\* refused, or the connection fails.
Answer ==
  /\ at = "answer"
  /\ sent' = IF Carries(origin) THEN sent \cup {origin} ELSE sent
  /\ \/ /\ conf.follow
        /\ IF hops = MaxRedirects
           THEN Judge("bad") /\ facts' = facts \cup {"down"} /\ UNCHANGED <<hops, origin, trace>>
           ELSE hops' = hops + 1 /\ (\E o \in {"own", "other"} : Hop(o)) /\ UNCHANGED <<probe, facts>>
     \/ Judge("good") /\ UNCHANGED <<hops, origin, trace, facts>>
     \/ Judge("bad") /\ facts' = facts \cup {"down"} /\ UNCHANGED <<hops, origin, trace>>
     \/ /\ conf.auth
        /\ Judge("unjudged") /\ facts' = facts \cup {"refused"} /\ UNCHANGED <<hops, origin, trace>>
  /\ UNCHANGED <<conf, left, limit, cancelled, container, reading, erred>>

\* The step's own timeout, or the run's end, stops the wait.
GiveUp ==
  /\ at \in {"lookup", "answer"} /\ (limit = 0 \/ cancelled)
  /\ at' = "failed"
  /\ facts' = facts \cup (IF at = "answer" /\ limit = 0 THEN {"hung"} ELSE {})
  /\ UNCHANGED <<conf, left, limit, cancelled, hops, origin, trace, probe, container, reading, erred, sent>>

\* The lookup of a request that has ended still ends, before anyone asks for it.
LateLookup ==
  /\ at = "failed" /\ trace = "pending"
  /\ trace' \in {"none", "failed"} /\ facts' = facts \cup {"slow"}
  /\ UNCHANGED <<conf, at, left, limit, cancelled, hops, origin, probe, container, reading, erred, sent>>

\* A plausible fault: a lookup that has not ended is not looked for.
ErrorOnly == trace \in {"failed", "negative"}

\* dohTrace.failed
LookupFailed == trace \in {"failed", "negative", "pending"}

\* failure
Classify ==
  /\ at = "failed"
  /\ Judge(IF LookupFailed THEN (IF trace = "negative" THEN "bad" ELSE "unjudged")
           ELSE IF cancelled \/ left = 0 THEN "unjudged"
           ELSE "bad")
  /\ UNCHANGED <<conf, left, limit, cancelled, hops, origin, trace, container, reading, erred, sent, facts>>

-----------------------------------------------------------------------------
(* The container, and the result *)

CheckContainer ==
  /\ at = "judged"
  /\ at' = "container"
  /\ limit' = IF conf.container THEN Bound(left) ELSE 0
  /\ container' = IF conf.container THEN "none" ELSE "absent"
  /\ UNCHANGED <<conf, left, cancelled, hops, origin, trace, probe, reading, erred, sent, facts>>

\* Healthy; not healthy or gone; not told, or not in time.
ContainerAnswers ==
  /\ at = "container" /\ container = "none"
  /\ \/ limit > 0 /\ container' \in {"good", "unjudged"} /\ UNCHANGED facts
     \/ limit > 0 /\ container' = "bad" /\ facts' = facts \cup {"sick"}
     \/ (limit = 0 \/ cancelled) /\ container' = "unjudged" /\ UNCHANGED facts
  /\ UNCHANGED <<conf, at, left, limit, cancelled, hops, origin, trace, probe, reading, erred, sent>>

\* A plausible fault: what was judged decides.
AnyGood == IF "bad" \in {probe, container} THEN "Bad" ELSE IF "good" \in {probe, container} THEN "Good" ELSE "none"

\* result
Merged ==
  IF "bad" \in {probe, container} THEN "Bad"
  ELSE IF "unjudged" \in {probe, container} THEN "none" ELSE "Good"

Result ==
  /\ at = "container" /\ container /= "none"
  /\ at' = "done"
  /\ reading' = Merged /\ erred' = ("unjudged" \in {probe, container})
  /\ UNCHANGED <<conf, left, limit, cancelled, hops, origin, trace, probe, container, sent, facts>>

Next ==
  \/ Pass \/ Abandon \/ Cancel
  \/ Start \/ Lookup \/ Answer \/ GiveUp \/ LateLookup \/ Classify
  \/ CheckContainer \/ ContainerAnswers \/ Result

Spec == Init /\ [][Next]_vars

-----------------------------------------------------------------------------

\* A run is never given up at its deadline, and its verdict is the endpoint's: Bad only
\* for an endpoint or container seen down (or whose address came just as the request's
\* time ended), and always for one that hung while the run went on; nothing is said when the resolver, the credentials or a stop got in the way.
VerdictIsTheEndpoints ==
  /\ at /= "abandoned"
  /\ at = "done" =>
       /\ reading = "Bad" => facts \cap {"down", "gone", "hung", "sick", "slow"} /= {}
       /\ reading = "Good" => facts = {} /\ probe = "good" /\ container \in {"good", "absent"}
       /\ "hung" \in facts /\ ~cancelled => reading = "Bad"
       /\ reading = "none" => erred

\* The secret is sent to the configured origin and nowhere else, whatever the redirects.
SecretStays == sent \subseteq {"own"}
==============================================================================
