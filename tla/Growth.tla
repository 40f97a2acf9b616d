-------------------------------- MODULE Growth --------------------------------
(***************************************************************************)
(* The memory check's growth warning (pkg/health/check/memory/growth.go) for *)
(* one service: the ring of points kept for the growth window, the warning   *)
(* that stays open until the rise is below half the level, and both over     *)
(* unreadable runs, dropped results, restarts and late loads.                *)
(*                                                                          *)
(* The engine opens and resolves the condition at the first reading.         *)
(***************************************************************************)
EXTENDS Integers, Sequences, SequencesExt, FiniteSetsExt

CONSTANTS
  Window, Warn,       \* GrowthWindow, GrowthWarn
  Sizes,              \* what a service may hold
  LastTime, MaxEnds   \* bounds

VARIABLES
  now, ends, loaded,
  excluded,           \* growth_exclude names the service, in this process
  ring, opened,       \* growth.rings, growth.opened of the service
  open,               \* the engine's condition
  out, stored,
  \* history
  gap,                \* the condition's history was pruned, or replaced by a late load
  wavered             \* a dropped result closed the warning in the check alone

vars == <<now, ends, loaded, excluded, ring, opened, open, out, stored, gap, wavered>>

NoResult == [verdict |-> "none", rise |-> 0, there |-> FALSE]

Init ==
  /\ now = 0 /\ ends = 0 /\ loaded = FALSE /\ excluded = FALSE
  /\ ring = <<>> /\ opened = FALSE /\ open = FALSE /\ out = NoResult
  /\ stored = [any |-> FALSE, ring |-> <<>>, opened |-> FALSE, open |-> FALSE, wavered |-> FALSE]
  /\ gap = FALSE /\ wavered = FALSE

\* pruneLocked: older than the window
Pruned(r) == SelectSeq(r, LAMBDA p : p.at >= now - Window)

\* judgeService
Low(r) == CHOOSE i \in DOMAIN r : (\A j \in DOMAIN r : r[i].anon <= r[j].anon)
                                  /\ \A j \in 1 .. i - 1 : r[j].anon > r[i].anon
High(r) == CHOOSE i \in DOMAIN r : (\A j \in DOMAIN r : r[i].anon >= r[j].anon)
                                   /\ \A j \in i + 1 .. Len(r) : r[j].anon < r[i].anon
Rise(r) == r[Len(r)].anon - r[Low(r)].anon
Climbing(r) == Rise(r) >= Warn /\ Low(r) < High(r) /\ 10 * r[Len(r)].anon >= 9 * r[High(r)].anon

\* Fault: the warning ends as soon as the service no longer climbs.
NoHold(r) == Climbing(r)

Warned(r) == Climbing(r) \/ (opened /\ 2 * Rise(r) >= Warn)

\* judgeGrowth, serviceReading: the services were read; size 0: this one is not there.
Run(size) ==
  LET there == size # 0 /\ ~excluded
      r == Pruned(IF there THEN Append(ring, [at |-> now, anon |-> size]) ELSE ring)
  IN
  /\ out.verdict = "none" /\ now < LastTime /\ now' = now + 1
  /\ IF r = <<>>
     THEN ring' = r /\ opened' = FALSE /\ out' = out
     ELSE IF there
     THEN /\ ring' = r /\ opened' = Warned(r)
          /\ out' = [verdict |-> IF Warned(r) THEN "bad" ELSE "good", rise |-> Rise(r), there |-> TRUE]
     ELSE /\ ring' = IF excluded THEN <<>> ELSE r
          /\ opened' = FALSE
          /\ out' = [NoResult EXCEPT !.verdict = "good"]
  /\ gap' = (gap \/ (r = <<>> /\ open))
  /\ UNCHANGED <<ends, loaded, excluded, open, stored, wavered>>

\* A run that cannot read the services or the host judges nothing.
Unreadable ==
  /\ out.verdict = "none" /\ now < LastTime /\ now' = now + 1
  /\ UNCHANGED <<ends, loaded, excluded, ring, opened, open, out, stored, gap, wavered>>

Apply ==
  /\ out.verdict # "none" /\ out' = NoResult
  /\ open' = (out.verdict = "bad") /\ wavered' = FALSE
  /\ gap' = (gap /\ out.verdict # "good")
  /\ UNCHANGED <<now, ends, loaded, excluded, ring, opened, stored>>

\* An abandoned run, or a tick the stop interrupts
DropResult ==
  /\ out.verdict # "none" /\ out' = NoResult
  /\ wavered' = (wavered \/ open # opened)
  /\ gap' = (gap \/ (ring = <<>> /\ open))
  /\ UNCHANGED <<now, ends, loaded, excluded, ring, opened, open, stored>>

\* Fault: the flag that holds the warning open is not restored.
RingOnly == [ring |-> Pruned(stored.ring), opened |-> FALSE]

\* Restore: replaces, and prunes.
Restored == [ring |-> Pruned(stored.ring), opened |-> stored.opened /\ Pruned(stored.ring) # <<>>]

\* Load, perhaps after a few runs: the engine keeps a condition it tracks.
Load ==
  /\ ~loaded /\ out.verdict = "none" /\ loaded' = TRUE
  /\ IF stored.any THEN ring' = Restored.ring /\ opened' = Restored.opened ELSE UNCHANGED <<ring, opened>>
  /\ open' = (open \/ stored.open)
  /\ gap' = (open' /\ ring' = <<>>)
  /\ wavered' = (stored.wavered \/ ring # <<>> \/ ring' = <<>>)
  /\ UNCHANGED <<now, ends, excluded, out, stored>>

\* Export prunes too.
Save ==
  /\ loaded /\ out.verdict = "none" /\ ends < MaxEnds
  /\ ring' = Pruned(ring) /\ opened' = (opened /\ ring' # <<>>)
  /\ stored' = [any |-> TRUE, ring |-> ring', opened |-> opened', open |-> open, wavered |-> wavered]
  /\ gap' = (gap \/ (open /\ ring' = <<>>))
  /\ UNCHANGED <<now, ends, loaded, excluded, open, out, wavered>>

\* The process ends; another starts, with another growth_exclude perhaps.
Restart(x) ==
  /\ ends < MaxEnds /\ ends' = ends + 1 /\ excluded' = x
  /\ loaded' = FALSE /\ ring' = <<>> /\ opened' = FALSE /\ open' = FALSE /\ out' = NoResult
  /\ gap' = FALSE /\ wavered' = FALSE
  /\ UNCHANGED <<now, stored>>

Next ==
  \/ \E s \in Sizes \cup {0} : Run(s)
  \/ Unreadable \/ Apply \/ DropResult \/ Load \/ Save \/ \E x \in BOOLEAN : Restart(x)

Spec == Init /\ [][Next]_vars

-----------------------------------------------------------------------------
(* Properties *)

TypeOK ==
  /\ \A i \in DOMAIN ring : ring[i].at \in 0 .. now /\ ring[i].anon \in Sizes
  /\ Len(ring) <= Window + 1

\* An open warning belongs to a service the check still judges, so that the end of
\* the growth, of the service or of its judgement resolves it; unless its points
\* were all pruned in a pause longer than the window.
OpenIsJudged == loaded /\ open /\ out.verdict = "none" => ring # <<>> \/ gap

\* A warning of a service that is there resolves only when its rise over the window is
\* below half the level (its memory came down, or stopped growing for long enough),
\* across restarts too; unless a dropped result already closed
\* it in the check.
HeldOpen ==
  Apply /\ open /\ ~open' /\ out.there => 2 * out.rise < Warn \/ wavered
=============================================================================
