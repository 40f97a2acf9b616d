------------------------------ MODULE LimitAudit ------------------------------
(***************************************************************************)
(* The memory check's limit audit (pkg/health/check/memory/audit.go): one    *)
(* problem names every container without a memory limit, and while it is     *)
(* open each container that joins is announced by one event.  The audit has  *)
(* no word from the engine on which of its runs were applied: it finds the   *)
(* last applied one by the text the engine keeps, over dropped results,      *)
(* cleared problems, restarts and late loads.                                *)
(*                                                                          *)
(* A run counts a set of containers; its text is the number and the first    *)
(* ShownMax names, so that runs share a text only past the cut.  The problem *)
(* opens at the second bad reading.                                          *)
(***************************************************************************)
EXTENDS Integers, Sequences, FiniteSets, FiniteSetsExt, SequencesExt

CONSTANTS
  Names,              \* containers, as naturals
  ShownMax,           \* names that fit limitTextUnits
  RunsMax,            \* maxAuditRuns
  MaxRun, MaxClear, MaxEnds   \* bounds

VARIABLES
  count, clears, ends,
  loaded,
  known, runs,        \* audit.known, audit.runs
  cond,               \* the engine's condition, {} or {[open, text]}
  out,                \* the result on its way
  stored,
  \* history
  announced,          \* announced and counted ever since, while the problem is open
  missed, twice,      \* counted in an applied run and not announced; announced again
  drops,              \* results dropped since the last one applied
  late                \* what was known after a load that came after a run

auditVars == <<known, runs>>
history == <<announced, missed, twice, drops, late>>
vars == <<count, clears, ends, loaded, auditVars, cond, out, stored, history>>

NoResult == [busy |-> FALSE, bad |-> FALSE, counted |-> {}, events |-> {}]

Init ==
  /\ count = 0 /\ clears = 0 /\ ends = 0 /\ loaded = FALSE
  /\ known = {} /\ runs = <<>> /\ cond = {} /\ out = NoResult
  /\ stored = [known |-> {}, cond |-> {}, announced |-> {}]
  /\ announced = {} /\ missed = {} /\ twice = {} /\ drops = 0 /\ late = {}

\* limitText
Text(counted) ==
  [n |-> Cardinality(counted),
   shown |-> {x \in counted : Cardinality({y \in counted : y < x}) < ShownMax}]

IsOpen == \E c \in cond : c.open
LastText == IF cond = {} THEN Text({}) ELSE (CHOOSE c \in cond : TRUE).text

-----------------------------------------------------------------------------
(* The audit *)

\* The runs from the latest one with this text on, all of it when there is none.
Since(rs, text) ==
  LET same == {i \in DOMAIN rs : rs[i].text = text}
  IN IF same = {} THEN 0 ELSE Max(same)

\* Fault: the latest run stands for the applied one.
LatestRun(k, rs, text) ==
  IF rs = <<>> THEN [known |-> k, runs |-> rs]
  ELSE [known |-> rs[Len(rs)].names, runs |-> <<rs[Len(rs)]>>]

\* applied: the set of the last run the engine applied, found by its text.
Applied(k, rs, text) ==
  LET i == Since(rs, text)
  IN IF i = 0 THEN [known |-> k, runs |-> rs]
     ELSE [known |-> rs[i].names, runs |-> SubSeq(rs, i, Len(rs))]

\* remember
Remember(rs, text, names) ==
  LET all == Append(rs, [text |-> text, names |-> names])
  IN IF Len(all) > RunsMax THEN Tail(all) ELSE all

\* announceJoiners: without an open problem there is nothing to join.
ResetUnlessOpen(a) == IF IsOpen THEN a ELSE [known |-> {}, runs |-> <<>>]

\* judgeLimits: a good reading leaves the audit as it was.
RunNone ==
  /\ ~out.busy /\ count < MaxRun /\ count' = count + 1
  /\ out' = [NoResult EXCEPT !.busy = TRUE]
  /\ UNCHANGED <<clears, ends, loaded, auditVars, cond, stored, history>>

\* judgeLimits, announceJoiners: an open problem without a set to compare with takes
\* the set silently.
RunCounts(counted) ==
  LET text == Text(counted)
      b == ResetUnlessOpen([known |-> known, runs |-> runs])
      a == Applied(b.known, b.runs, LastText)
  IN
  /\ ~out.busy /\ count < MaxRun /\ count' = count + 1
  /\ known' = a.known /\ runs' = Remember(a.runs, text, counted)
  /\ out' = [busy |-> TRUE, bad |-> TRUE, counted |-> counted,
             events |-> IF IsOpen /\ a.known # {} THEN counted \ a.known ELSE {}]
  /\ UNCHANGED <<clears, ends, loaded, cond, stored, history>>

-----------------------------------------------------------------------------
(* The engine and the commands *)

\* The engine applies the result; a problem that opens names everyone.
Apply ==
  LET opens == out.bad /\ cond # {} /\ ~IsOpen
      open == IsOpen \/ opens IN
  /\ out.busy /\ out' = NoResult
  /\ cond' = IF out.bad THEN {[open |-> open, text |-> Text(out.counted)]} ELSE {}
  /\ announced' = IF ~out.bad \/ ~open THEN {}
                  ELSE IF opens THEN out.counted
                  ELSE (announced \cap out.counted) \cup out.events
  /\ missed' = missed \cup (IF IsOpen THEN (out.counted \ announced') \ late ELSE {})
  /\ twice' = twice \cup (IF drops < RunsMax THEN announced \cap out.events ELSE {})
  /\ drops' = 0
  /\ UNCHANGED <<count, clears, ends, loaded, auditVars, stored, late>>

\* An abandoned run, or a tick the stop interrupts
DropResult ==
  /\ out.busy /\ out' = NoResult /\ drops' = drops + 1
  /\ UNCHANGED <<count, clears, ends, loaded, auditVars, cond, stored, announced, missed, twice, late>>

\* /clear
Clear ==
  /\ IsOpen /\ clears < MaxClear /\ clears' = clears + 1
  /\ cond' = {} /\ announced' = {}
  /\ UNCHANGED <<count, ends, loaded, auditVars, out, stored, missed, twice, drops, late>>

-----------------------------------------------------------------------------
(* The process *)

\* Engine.Merge, AuditState.Restore: a union.
Load ==
  /\ ~loaded /\ loaded' = TRUE /\ ~out.busy
  /\ known' = known \cup stored.known
  /\ cond' = IF cond = {} THEN stored.cond ELSE cond
  /\ announced' = IF cond = {} THEN stored.announced ELSE announced
  /\ late' = IF runs = <<>> THEN {} ELSE known'
  /\ UNCHANGED <<count, clears, ends, runs, out, stored, missed, twice, drops>>

\* Export at the checkpoint, with the conditions of the same moment
Save ==
  LET a == Applied(known, runs, LastText) IN
  /\ loaded /\ ~out.busy /\ ends < MaxEnds
  /\ known' = a.known /\ runs' = a.runs
  /\ stored' = [known |-> a.known, cond |-> cond, announced |-> announced]
  /\ UNCHANGED <<count, clears, ends, loaded, cond, out, history>>

\* The process ends and another starts.
Restart ==
  /\ ends < MaxEnds /\ ends' = ends + 1
  /\ loaded' = FALSE /\ known' = {} /\ runs' = <<>> /\ cond' = {} /\ out' = NoResult
  /\ announced' = {} /\ drops' = 0 /\ late' = {}
  /\ UNCHANGED <<count, clears, stored, missed, twice>>

Next ==
  \/ RunNone \/ \E s \in SUBSET Names \ {{}} : RunCounts(s)
  \/ Apply \/ DropResult \/ Clear \/ Load \/ Save \/ Restart

Spec == Init /\ [][Next]_vars

-----------------------------------------------------------------------------
(* Properties *)

TypeOK ==
  /\ known \subseteq Names /\ Len(runs) <= RunsMax
  /\ Cardinality(cond) <= 1 /\ announced \subseteq Names

\* While every name fits the text, a container that runs without a limit while the
\* problem is open has been announced, by the problem or by its own event, whatever
\* runs were dropped or problems cleared and however often the process restarted;
\* a late load may keep silent about names it knows from before.  And it is not
\* announced again while it stays, unless as many results were dropped in a row as
\* the audit remembers runs.
JoinersAnnounced == missed = {} /\ twice = {}

=============================================================================
