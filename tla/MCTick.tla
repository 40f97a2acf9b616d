------------------------------- MODULE MCTick -------------------------------
(***************************************************************************)
(* The runner's tick and the list of undelivered PROBLEMs on small          *)
(* instances.  `part` says which of them a behaviour is about; the other    *)
(* stays as it was at the start.                                            *)
(***************************************************************************)
EXTENDS Tick

VARIABLES
  part,
  \* Undelivered
  items, folded, showing, shown, shownFold, list, merged, listed, prefix, counted, delivered,
  forgotten, restarts

U == INSTANCE Undelivered WITH
       MaxUndelivered <- 2, MaxListed <- 5, MaxRestarts <- 1,
       held <- shown, stored <- list, loaded <- merged, lost <- forgotten

ASSUME PartsAssumption == U!UndeliveredAssumption

listVars == <<items, folded, showing, shown, shownFold, list, merged, listed, prefix, counted,
              delivered, forgotten, restarts>>

PartsInit == part \in {"tick", "list"} /\ Init /\ U!Init

PartsNext ==
  \/ part = "tick" /\ Next /\ UNCHANGED <<part, listVars>>
  \/ part = "list" /\ U!Next /\ UNCHANGED <<part, vars>>

\* The fairness is the list's; a behaviour about another part says nothing of it.
PartsSpec == PartsInit /\ [][PartsNext]_<<part, vars, listVars>> /\ U!Fairness

-----------------------------------------------------------------------------
(* Properties *)

\* FR-031: a listed PROBLEM is kept until a delivered message has shown it, and the items
\* a send in progress shows stay in front, so that its acknowledgement, which removes by
\* count, removes exactly what the reader saw; the count of those not listed one by one
\* stays exact.
KeptUntilShown == U!TypeOK /\ U!KeptUntilShown /\ U!HeldStaysInFront /\ U!FoldedExact

\* FR-031: every listed PROBLEM is shown or counted in a delivered message, unless it died
\* with the process before it was saved.
EventuallyShown == U!EventuallyShown
=============================================================================
