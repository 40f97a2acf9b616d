---------------------------- MODULE Undelivered ----------------------------
(***************************************************************************)
(* The list of undelivered PROBLEMs (pkg/health/notify/channels.go and the  *)
(* prefix of notify.go): a dropped PROBLEM is listed, or only counted when  *)
(* the list is full; a Telegram message takes the oldest items as a prefix  *)
(* and holds them until its send returns, however late; a delivered message *)
(* acknowledges what it showed by count, while items are added and a late   *)
(* load puts stored ones in.  PROBLEMs are numbers; what fits a message is  *)
(* any number of items.                                                     *)
(***************************************************************************)
EXTENDS Naturals, Sequences, SequencesExt, FiniteSets

CONSTANTS
  MaxUndelivered,  \* the list's capacity
  MaxListed,       \* bound: PROBLEMs listed
  MaxRestarts      \* bound: restarts

\* What the constants are; an instance states it as its assumption.
UndeliveredAssumption ==
  MaxUndelivered \in Nat /\ MaxListed \in Nat /\ MaxRestarts \in Nat

VARIABLES
  items,      \* n.undelivered.Items
  folded,     \* n.undelivered.Folded
  showing,    \* n.showing: a send in progress carries the prefix
  held,       \* n.held: the items it shows
  shownFold,  \* Shown.Folded of that send
  stored,     \* the stored list
  loaded,     \* the stored list was merged
  \* history
  listed,     \* PROBLEMs listed so far
  prefix,     \* the PROBLEMs in the message being sent: shown and counted
  counted,    \* the PROBLEMs that folded counts
  delivered,  \* PROBLEMs that a delivered message showed or counted
  lost,       \* PROBLEMs that died with a process before they were saved
  restarts

listVars == <<items, folded, counted>>
sendVars == <<showing, held, shownFold, prefix, delivered>>
storeVars == <<stored, loaded, restarts, lost>>
vars == <<listVars, sendVars, storeVars, listed>>

NoPrefix == [items |-> <<>>, counted |-> {}]

Empty == [items |-> <<>>, folded |-> 0, counted |-> {}, upTo |-> 0]

TypeOK ==
  /\ items \in Seq(1..listed) /\ Len(items) <= MaxUndelivered
  /\ folded \in Nat /\ held \in Nat /\ shownFold \in Nat
  /\ showing \in BOOLEAN /\ loaded \in BOOLEAN
  /\ counted \subseteq 1..listed /\ delivered \subseteq 1..listed

Init ==
  /\ items = <<>> /\ folded = 0 /\ counted = {}
  /\ showing = FALSE /\ held = 0 /\ shownFold = 0 /\ prefix = NoPrefix /\ delivered = {}
  /\ stored = Empty /\ loaded = TRUE /\ restarts = 0 /\ lost = {}
  /\ listed = 0

\* Add: list the PROBLEM, or count it when the list is full.
Add ==
  /\ listed < MaxListed
  /\ listed' = listed + 1
  /\ IF Len(items) >= MaxUndelivered
       THEN folded' = folded + 1 /\ counted' = counted \cup {listed + 1} /\ UNCHANGED items
       ELSE items' = Append(items, listed + 1) /\ UNCHANGED <<folded, counted>>
  /\ UNCHANGED <<sendVars, storeVars>>

\* takePrefix: a message with room for n items holds them, and the count.
TakePrefix(n) ==
  /\ ~showing /\ n <= Len(items)
  /\ n > 0 \/ folded > 0
  /\ showing' = TRUE /\ held' = n /\ shownFold' = folded
  /\ prefix' = [items |-> SubSeq(items, 1, n), counted |-> counted]
  /\ UNCHANGED <<listVars, delivered, storeVars, listed>>

\* Fault: all counted PROBLEMs are taken for shown.
NoneLeft == 0

\* Ack: the count drops by what the message showed.
FoldedLeft == IF folded > shownFold THEN folded - shownFold ELSE 0

\* Fault: a failed send does not let go of the prefix.
HeldOnFailure(ok) == ~ok

\* releasePrefix lets go of the prefix, whatever the send's outcome.
ShowingAfter(ok) == FALSE

\* releasePrefix: the send returned, perhaps long abandoned; a delivered one
\* acknowledges (Ack) the items and the count it showed.
ReleasePrefix(ok) ==
  /\ prefix # NoPrefix
  /\ showing' = ShowingAfter(ok) /\ held' = 0 /\ shownFold' = 0 /\ prefix' = NoPrefix
  /\ IF ok
       THEN LET n == IF held < Len(items) THEN held ELSE Len(items)
            IN /\ items' = SubSeq(items, n + 1, Len(items))
               /\ folded' = FoldedLeft
               /\ counted' = counted \ prefix.counted
               /\ delivered' = delivered \cup Range(prefix.items) \cup prefix.counted
       ELSE UNCHANGED <<listVars, delivered>>
  /\ UNCHANGED <<storeVars, listed>>

\* The checkpoint exports the list.
Checkpoint ==
  /\ loaded /\ restarts < MaxRestarts
  /\ stored' = [items |-> items, folded |-> folded, counted |-> counted, upTo |-> listed]
  /\ UNCHANGED <<listVars, sendVars, loaded, restarts, lost, listed>>

\* The daemon dies and starts again with an empty list; a message in progress
\* may have been delivered or not, unseen.
Restart ==
  /\ restarts < MaxRestarts
  /\ restarts' = restarts + 1
  /\ items' = <<>> /\ folded' = 0 /\ counted' = {}
  /\ showing' = FALSE /\ held' = 0 /\ shownFold' = 0 /\ prefix' = NoPrefix
  /\ loaded' = FALSE
  /\ lost' = lost \cup (stored.upTo + 1)..listed
  /\ UNCHANGED <<delivered, stored, listed>>

\* Fault: the stored items go in front of the held ones.
InFront == 0

\* Where the stored items go: behind those a send in progress shows.
BehindHeld == IF held < Len(items) THEN held ELSE Len(items)

\* Fault: the capacity is not checked.
AllKept(all) == Len(all)

\* How many items stay listed.
KeptLen(all) == IF Len(all) > MaxUndelivered THEN MaxUndelivered ELSE Len(all)

\* RestoreUndelivered: the stored items go in, and the newest beyond the
\* capacity are counted.
Restore ==
  /\ ~loaded
  /\ loaded' = TRUE
  /\ LET all == SubSeq(items, 1, BehindHeld) \o stored.items
                  \o SubSeq(items, BehindHeld + 1, Len(items))
         kept == KeptLen(all)
     IN /\ items' = SubSeq(all, 1, kept)
        /\ folded' = folded + stored.folded + (Len(all) - kept)
        /\ counted' = counted \cup stored.counted \cup Range(SubSeq(all, kept + 1, Len(all)))
  /\ UNCHANGED <<sendVars, stored, restarts, lost, listed>>

\* Everything of the bound is listed and shown.
Done ==
  /\ listed = MaxListed /\ restarts = MaxRestarts /\ loaded /\ items = <<>> /\ folded = 0
  /\ ~showing /\ UNCHANGED vars

Next ==
  \/ Add
  \/ \E n \in 0..MaxUndelivered : TakePrefix(n)
  \/ \E ok \in BOOLEAN : ReleasePrefix(ok)
  \/ Checkpoint \/ Restart \/ Restore \/ Done

\* A tick flushes and dispatches for ever, so messages keep taking the prefix
\* that has room for an item, and a working Telegram delivers some of them.
Fairness ==
  /\ WF_vars(Restore)
  /\ WF_vars(\E n \in 1..MaxUndelivered : TakePrefix(n))
  /\ WF_vars(folded > 0 /\ TakePrefix(0))
  /\ SF_vars(ReleasePrefix(TRUE))

Spec == Init /\ [][Next]_vars /\ Fairness

-----------------------------------------------------------------------------
(* Properties *)

\* The items a send in progress shows stay in front, whatever is added or
\* loaded meanwhile: its acknowledgement, which removes by count, removes
\* exactly what the reader saw.
HeldStaysInFront ==
  showing => held <= Len(items) /\ SubSeq(items, 1, held) = prefix.items

\* The count stands for exactly the PROBLEMs that are not listed one by one,
\* across overflows, late acknowledgements, restarts and late loads.
FoldedExact == folded = Cardinality(counted)

\* FR-031: a listed PROBLEM is kept until a delivered message has shown it.
KeptUntilShown ==
  1..listed \subseteq
    Range(items) \cup counted \cup delivered \cup lost
      \cup (IF loaded THEN {} ELSE Range(stored.items) \cup stored.counted)

\* FR-031: every listed PROBLEM is shown or counted in a delivered message, unless
\* it died with the process before it was saved.
EventuallyShown ==
  \A p \in 1..MaxListed : (listed >= p) ~> (p \in delivered \cup lost)
=============================================================================
