------------------------------- MODULE Culprits --------------------------------
(***************************************************************************)
(* Which service the memory guard names (pkg/health/memguard, guard.go and     *)
(* culprit.go): every service's memory is sampled into a ring that is as deep  *)
(* as the culprit window, while containers come, go and are recreated under    *)
(* the same name, samples fail and come late.  The rings are compared with a   *)
(* history that forgets nothing.                                               *)
(***************************************************************************)
EXTENDS Integers, FiniteSets, FiniteSetsExt

CONSTANTS
  Services,       \* names, ordered like their IDs
  PathsOf,        \* name -> the cgroups it may run in
  Foreign,        \* cgroups that are no service, hold tgshd itself or are a core unit's
  CulpritWindow, CulpritMinGrowth,
  ServiceInterval,
  Sizes, LastTime \* bounds

VARIABLES
  time,
  nextServices,   \* Loop.nextServices
  entries,        \* name -> {} or {entry}
  log             \* history: name -> every sample since it appeared in its cgroup

vars == <<time, nextServices, entries, log>>

Init ==
  /\ time = 0 /\ nextServices = 0
  /\ entries = [s \in Services |-> {}] /\ log = [s \in Services |-> [path |-> "none", samples |-> {}]]

-----------------------------------------------------------------------------
(* The rings *)

\* A plausible fault: the window's first sample has no place.
NoEnd == CulpritWindow \div ServiceInterval

\* A window holds a sample at each of its ends.
Depth == (CulpritWindow \div ServiceInterval) + 1

\* Config.Service: eligible, or protected.
Tracked(path) == path \notin Foreign

\* A service that is not tracked never gets a ring.
NoRing == [points |-> <<>>, next |-> 0, n |-> 0]
NewRing == [points |-> [i \in 0..(Depth - 1) |-> [at |-> 0, anon |-> 0]], next |-> 0, n |-> 0]

Add(ring, p) ==
  [points |-> [ring.points EXCEPT ![ring.next] = p],
   next |-> (ring.next + 1) % Depth,
   n |-> IF ring.n < Depth THEN ring.n + 1 ELSE ring.n]

\* A plausible fault: a recreated container goes on with the ring of the old one.
GoOn(ring) == ring

Reset(ring) == [ring EXCEPT !.next = 0, !.n = 0]

\* ObserveServices, for one service in this sample.
Observe(s, path, anon) ==
  LET same == \E e \in entries[s] : e.path = path
      old == IF entries[s] = {} THEN NoRing ELSE (CHOOSE e \in entries[s] : TRUE).ring
      kept == IF same THEN old
              ELSE Reset(IF Tracked(path) /\ old.points = <<>> THEN NewRing ELSE old)
  IN {[path |-> path, ring |-> IF Tracked(path) THEN Add(kept, [at |-> time, anon |-> anon]) ELSE kept]}

\* What this sample holds: a cgroup and a size, or nothing.
Present == [path : UNION {PathsOf[s] : s \in Services}, anon : Sizes]

Logged(s, seen) ==
  IF seen = {} THEN [path |-> "none", samples |-> {}]
  ELSE LET p == CHOOSE p \in seen : TRUE
       IN [path |-> p.path,
           samples |-> (IF p.path = log[s].path THEN log[s].samples ELSE {}) \cup {[at |-> time, anon |-> p.anon]}]

\* A service missing from the sample is dropped with its history.
Sample ==
  /\ time >= nextServices
  /\ nextServices' = time + ServiceInterval
  /\ \E seen \in [Services -> {{}} \cup {{p} : p \in Present}] :
       /\ \A s \in Services : \A p \in seen[s] : p.path \in PathsOf[s]
       /\ entries' = [s \in Services |-> UNION {Observe(s, p.path, p.anon) : p \in seen[s]}]
       /\ log' = [s \in Services |-> Logged(s, seen[s])]
  /\ UNCHANGED time

\* The cgroups could not be read: the sample is skipped, the entries stay.
SampleFails ==
  /\ time >= nextServices
  /\ nextServices' = time + ServiceInterval
  /\ UNCHANGED <<time, entries, log>>

Pass ==
  /\ time < LastTime /\ time' = time + 1
  /\ UNCHANGED <<nextServices, entries, log>>

Next == Sample \/ SampleFails \/ Pass

Spec == Init /\ [][Next]_vars

-----------------------------------------------------------------------------
(* The culprit *)

\* A plausible fault: a sample as old as the window is out of it.
Younger(p) == time - p.at < CulpritWindow

InWindow(p) == time - p.at <= CulpritWindow

\* entry.growth walks the ring from its newest sample to the first one out of the window.
Newest(ring, i) == ring.points[(ring.next - 1 - i + 2 * Depth) % Depth]

Walked(ring) ==
  {i \in 0..(ring.n - 1) : \A j \in 0..i : InWindow(Newest(ring, j))}

Growth(s, ring) ==
  LET latest == Newest(ring, 0)
      low == Min({Newest(ring, i).anon : i \in Walked(ring)} \cup {latest.anon})
  IN IF ring.n < 2 \/ Cardinality(Walked(ring)) < 2 THEN {}
     ELSE {[service |-> s, size |-> latest.anon, growth |-> latest.anon - low]}

Enough(c) == c.growth /= 0 /\ c.growth >= CulpritMinGrowth

\* beats: the larger growth, then the larger size, then the lower ID.
Beats(c, d) ==
  \/ c.growth > d.growth
  \/ c.growth = d.growth /\ c.size > d.size
  \/ c.growth = d.growth /\ c.size = d.size /\ c.service < d.service

\* Culprit looks at the entries in no particular order.
Culprit ==
  LET grown == {c \in UNION {UNION {Growth(s, e.ring) : e \in entries[s]} : s \in Services} : Enough(c)}
  IN {c \in grown : \A d \in grown \ {c} : Beats(c, d)}

-----------------------------------------------------------------------------
(* What it promises *)

InReach(s) == {p \in log[s].samples : time - p.at <= CulpritWindow}

Last(s) == CHOOSE p \in log[s].samples : \A q \in log[s].samples : q.at <= p.at

\* Every service the guard may name, with the rise from its least sample in the window.
Risen ==
  {[service |-> s, size |-> Last(s).anon, growth |-> Last(s).anon - Min({p.anon : p \in InReach(s)})] :
     s \in {t \in Services : log[t].path \notin Foreign /\ Cardinality(InReach(t)) >= 2}}

\* Whatever failed, came late or was recreated, the guard names the service that rose
\* most within the window in the cgroup it runs in now, and names one whenever one rose
\* enough: no sample of the window has left the ring, none of an earlier container and
\* none from before the window counts, and nothing foreign is ever named.
CulpritIsTheGreatest ==
  LET enough == {c \in Risen : c.growth >= 1 /\ c.growth >= CulpritMinGrowth}
  IN /\ Culprit \subseteq enough
     /\ enough /= {} => Cardinality(Culprit) = 1
     /\ \A c \in Culprit : \A d \in enough : c.growth >= d.growth
==============================================================================
