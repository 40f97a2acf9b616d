--------------------------- MODULE PersistProofs ---------------------------
(***************************************************************************)
(* Proofs about two parts that keep what a failure must not lose: the list  *)
(* of undelivered PROBLEMs, for any capacity and bounds, and the state      *)
(* database, for any keys, bounds and order of its users.                   *)
(*                                                                          *)
(* An acknowledgement removes by count, so that it removes what the reader  *)
(* saw is a fact about what happened to the list since the prefix was taken *)
(* (HoldInv); that the count stays exact needs every PROBLEM to be in one   *)
(* place, in memory and in the store, before a load joins them (ListInv,    *)
(* StoreInv).                                                               *)
(*                                                                          *)
(* The database's NothingLostInOutage speaks of the moments when nothing is *)
(* pending; what holds at every moment, and makes them so, is that the      *)
(* pending data laid over the database is what was given (OutageInv).       *)
(***************************************************************************)
EXTENDS Undelivered, TLAPS, SequenceTheorems, FiniteSetTheorems

\* s lists every member of its range once.
Listing(s) == s \in Seq(Nat) /\ \A i, j \in 1..Len(s) : s[i] = s[j] => i = j

\* A PROBLEM is listed or counted, not both, and once.
ListInv ==
  /\ listed \in Nat /\ Listing(items) /\ Range(items) \subseteq 1..listed
  /\ Len(items) <= MaxUndelivered
  /\ counted \subseteq 1..listed /\ Range(items) \cap counted = {}
  /\ folded \in Nat /\ FoldedExact
  /\ delivered \subseteq 1..listed /\ loaded \in BOOLEAN

\* What the message in progress shows is still what the list holds: its items in front, and
\* the PROBLEMs of its count among those counted.
HoldInv ==
  /\ showing \in BOOLEAN /\ held \in Nat /\ shownFold \in Nat
  /\ showing <=> prefix # NoPrefix
  /\ ~showing => held = 0
  /\ HeldStaysInFront
  /\ showing => prefix.counted \subseteq counted /\ shownFold = Cardinality(prefix.counted)

\* The stored list accounts for what was listed up to its save; before it is loaded, memory
\* holds only newer PROBLEMs.
StoreInv ==
  /\ stored.upTo \in 0..listed /\ Listing(stored.items) /\ Range(stored.items) \subseteq 1..stored.upTo
  /\ stored.counted \subseteq 1..stored.upTo /\ Range(stored.items) \cap stored.counted = {}
  /\ stored.folded \in Nat /\ stored.folded = Cardinality(stored.counted)
  /\ 1..stored.upTo \subseteq Range(stored.items) \cup stored.counted \cup delivered \cup lost
  /\ ~loaded => Range(items) \cup counted \subseteq stored.upTo + 1 .. listed

UndeliveredInv == ListInv /\ HoldInv /\ StoreInv /\ KeptUntilShown

-----------------------------------------------------------------------------
(* Listings *)

\* A listing's range, written out.
LEMMA RangeIs ==
  \A s \in Seq(Nat) :
    /\ Len(s) \in Nat /\ \A i \in 1..Len(s) : s[i] \in Range(s)
    /\ \A x \in Range(s) : \E i \in 1..Len(s) : s[i] = x
<1> TAKE s \in Seq(Nat)
<1>1. Range(s) = {s[i] : i \in 1..Len(s)} BY RangeEquality
<1> QED BY <1>1

\* The empty listing.
LEMMA EmptyListing == Listing(<<>>) /\ Range(<<>>) = {} /\ Len(<<>>) = 0
  BY DEF Listing, Range

\* A listing's members are as many as it is long.
LEMMA ListingCardinality ==
  ASSUME NEW s, Listing(s)
  PROVE  IsFiniteSet(Range(s)) /\ Cardinality(Range(s)) = Len(s)
<1>1. s \in Seq(Nat) BY DEF Listing
<1>2. Len(s) \in Nat /\ s \in [1..Len(s) -> Range(s)] BY <1>1, RangeIs
<1>3. s \in Bijection(1..Len(s), Range(s))
  <2>1. s \in Injection(1..Len(s), Range(s)) BY <1>2 DEF Listing, Injection, IsInjective
  <2>2. s \in Surjection(1..Len(s), Range(s)) BY <1>1, <1>2, RangeIs DEF Surjection
  <2> QED BY <2>1, <2>2 DEF Bijection
<1>4. IsFiniteSet(1..Len(s)) /\ Cardinality(1..Len(s)) = Len(s) BY <1>2, FS_Interval
<1>5. ExistsBijection(1..Len(s), Range(s)) BY <1>3 DEF ExistsBijection
<1> QED BY <1>4, <1>5, FS_Bijection

\* Two listings of different PROBLEMs, one after the other, are a listing of both.
LEMMA ConcatListing ==
  ASSUME NEW s, NEW t, Listing(s), Listing(t), Range(s) \cap Range(t) = {}
  PROVE  /\ Listing(s \o t) /\ Range(s \o t) = Range(s) \cup Range(t)
         /\ Len(s \o t) = Len(s) + Len(t)
         /\ \A i \in 1..Len(s) : (s \o t)[i] = s[i]
<1>1. s \in Seq(Nat) /\ t \in Seq(Nat) /\ Len(s) \in Nat /\ Len(t) \in Nat BY RangeIs DEF Listing
<1>2. /\ s \o t \in Seq(Nat) /\ Len(s \o t) = Len(s) + Len(t)
      /\ \A i \in 1..Len(s) + Len(t) :
           (s \o t)[i] = IF i <= Len(s) THEN s[i] ELSE t[i - Len(s)]
  BY <1>1, ConcatProperties
<1>3. Range(s \o t) = Range(s) \cup Range(t) BY <1>1, RangeConcatenation
<1>4. \A i \in 1..Len(s), j \in 1..Len(t) : s[i] # t[j] BY <1>1, RangeIs
<1>5. ASSUME NEW i \in 1..Len(s) + Len(t), NEW j \in 1..Len(s) + Len(t),
             (s \o t)[i] = (s \o t)[j]
      PROVE  i = j
  <2>1. CASE i <= Len(s) /\ j <= Len(s) BY <1>1, <1>2, <1>5, <2>1 DEF Listing
  <2>2. CASE i > Len(s) /\ j > Len(s)
    <3>1. i - Len(s) \in 1..Len(t) /\ j - Len(s) \in 1..Len(t) BY <1>1, <2>2
    <3>2. t[i - Len(s)] = t[j - Len(s)] BY <1>1, <1>2, <1>5, <2>2
    <3>3. i - Len(s) = j - Len(s) BY <3>1, <3>2 DEF Listing
    <3> QED BY <1>1, <3>3
  <2>3. CASE i <= Len(s) /\ j > Len(s)
    <3>1. i \in 1..Len(s) /\ j - Len(s) \in 1..Len(t) BY <1>1, <2>3
    <3>2. (s \o t)[i] = s[i] /\ (s \o t)[j] = t[j - Len(s)] BY <1>1, <1>2, <2>3
    <3> QED BY <1>4, <1>5, <3>1, <3>2
  <2>4. CASE i > Len(s) /\ j <= Len(s)
    <3>1. j \in 1..Len(s) /\ i - Len(s) \in 1..Len(t) BY <1>1, <2>4
    <3>2. (s \o t)[j] = s[j] /\ (s \o t)[i] = t[i - Len(s)] BY <1>1, <1>2, <2>4
    <3> QED BY <1>4, <1>5, <3>1, <3>2
  <2> QED BY <1>1, <2>1, <2>2, <2>3, <2>4
<1>6. Listing(s \o t) BY <1>2, <1>5 DEF Listing
<1> QED BY <1>1, <1>2, <1>3, <1>6

\* One more PROBLEM.
LEMMA AppendListing ==
  ASSUME NEW s, Listing(s), NEW p \in Nat, p \notin Range(s)
  PROVE  /\ Listing(Append(s, p)) /\ Range(Append(s, p)) = Range(s) \cup {p}
         /\ Len(Append(s, p)) = Len(s) + 1
         /\ \A i \in 1..Len(s) : Append(s, p)[i] = s[i]
<1>1. s \in Seq(Nat) /\ Append(s, p) = s \o <<p>> BY AppendIsConcat DEF Listing
<1> DEFINE t == <<p>>
<1>2. t \in Seq(Nat) /\ Len(t) = 1 /\ t[1] = p OBVIOUS
<1>3. Append(s, p) = s \o t BY <1>1
<1> HIDE DEF t
<1>4. Listing(t) BY <1>2 DEF Listing
<1>5. Range(t) = {p}
  <2>1. p \in Range(t) BY <1>2, RangeIs
  <2>2. \A x \in Range(t) : x = p BY <1>2, RangeIs
  <2> QED BY <2>1, <2>2
<1>6. Range(s) \cap Range(t) = {} BY <1>5
<1>7. /\ Listing(s \o t) /\ Range(s \o t) = Range(s) \cup Range(t) /\ Len(s \o t) = Len(s) + Len(t)
      /\ \A i \in 1..Len(s) : (s \o t)[i] = s[i]
  BY <1>4, <1>6, ConcatListing
<1> QED BY <1>2, <1>3, <1>5, <1>7

\* The listing s cut in two, f being its first h PROBLEMs.
IsCut(s, h, f, b) ==
  /\ Listing(f) /\ Listing(b) /\ Range(f) \cup Range(b) = Range(s) /\ Range(f) \cap Range(b) = {}
  /\ Len(f) = h /\ Len(b) = Len(s) - h /\ \A i \in 1..h : f[i] = s[i]

LEMMA SplitListing ==
  ASSUME NEW s, Listing(s), NEW h \in 0..Len(s)
  PROVE  IsCut(s, h, SubSeq(s, 1, h), SubSeq(s, h + 1, Len(s)))
<1>1. s \in Seq(Nat) /\ Len(s) \in Nat /\ \A i \in 1..Len(s) : s[i] \in Nat BY RangeIs DEF Listing
<1> DEFINE n == Len(s)
           f == SubSeq(s, 1, h)
           b == SubSeq(s, h + 1, n)
<1>2. h \in Nat /\ h <= n /\ n \in Nat /\ h + 1 \in Int /\ n \in Int BY <1>1
<1>3. /\ f \in Seq(Nat) /\ Len(f) = h /\ \A i \in 1..h : f[i] = s[i]
  <2>1. \A i \in 1..h : s[i] \in Nat BY <1>1, <1>2
  <2>2. /\ f \in Seq(Nat) /\ Len(f) = IF 1 <= h THEN h - 1 + 1 ELSE 0
        /\ \A i \in 1..h - 1 + 1 : f[i] = s[1 + i - 1]
    BY <1>2, <2>1, SubSeqProperties
  <2> QED BY <1>2, <2>2
<1>4. /\ b \in Seq(Nat) /\ Len(b) = n - h /\ \A i \in 1..n - h : b[i] = s[h + i]
  <2>1. \A i \in h + 1..n : s[i] \in Nat BY <1>1, <1>2
  <2>2. /\ b \in Seq(Nat) /\ Len(b) = IF h + 1 <= n THEN n - (h + 1) + 1 ELSE 0
        /\ \A i \in 1..n - (h + 1) + 1 : b[i] = s[(h + 1) + i - 1]
    BY <1>2, <2>1, SubSeqProperties
  <2>3. Len(b) = n - h BY <1>2, <2>2
  <2>4. n - (h + 1) + 1 = n - h /\ \A i \in 1..n - h : (h + 1) + i - 1 = h + i BY <1>2
  <2> QED BY <2>2, <2>3, <2>4
<1> HIDE DEF f, b
<1>5. Listing(f)
  <2>1. \A i \in 1..h : i \in 1..n BY <1>2
  <2> QED BY <1>3, <2>1 DEF Listing
<1>6. Listing(b)
  <2> SUFFICES ASSUME NEW i \in 1..n - h, NEW j \in 1..n - h, b[i] = b[j] PROVE i = j
    BY <1>4 DEF Listing
  <2>1. h + i \in 1..n /\ h + j \in 1..n BY <1>2
  <2>2. s[h + i] = s[h + j] BY <1>4
  <2>3. h + i = h + j BY <2>1, <2>2 DEF Listing
  <2> QED BY <1>2, <2>3
<1>7. Range(f) \cup Range(b) \subseteq Range(s)
  <2>1. ASSUME NEW x \in Range(f) PROVE x \in Range(s)
    <3>1. PICK i \in 1..h : f[i] = x BY <1>3, RangeIs
    <3>2. i \in 1..n /\ s[i] = x BY <1>2, <1>3, <3>1
    <3> QED BY <1>1, <3>2, RangeIs
  <2>2. ASSUME NEW x \in Range(b) PROVE x \in Range(s)
    <3>1. PICK i \in 1..n - h : b[i] = x BY <1>4, RangeIs
    <3>2. h + i \in 1..n /\ s[h + i] = x BY <1>2, <1>4, <3>1
    <3> QED BY <1>1, <3>2, RangeIs
  <2> QED BY <2>1, <2>2
<1>8. Range(s) \subseteq Range(f) \cup Range(b)
  <2> SUFFICES ASSUME NEW x \in Range(s) PROVE x \in Range(f) \cup Range(b)
    OBVIOUS
  <2>1. PICK i \in 1..n : s[i] = x BY <1>1, RangeIs
  <2>2. CASE i <= h
    <3>1. i \in 1..h /\ f[i] = x BY <1>2, <1>3, <2>1, <2>2
    <3> QED BY <1>3, <3>1, RangeIs
  <2>3. CASE i > h
    <3>1. i - h \in 1..n - h /\ h + (i - h) = i BY <1>2, <2>3
    <3>2. b[i - h] = x BY <1>4, <2>1, <3>1
    <3> QED BY <1>4, <3>1, <3>2, RangeIs
  <2> QED BY <1>2, <2>2, <2>3
<1>9. Range(f) \cap Range(b) = {}
  <2> SUFFICES ASSUME NEW x \in Range(f), x \in Range(b) PROVE FALSE
    OBVIOUS
  <2>1. PICK i \in 1..h : f[i] = x BY <1>3, RangeIs
  <2>2. PICK j \in 1..n - h : b[j] = x BY <1>4, RangeIs
  <2>3. i \in 1..n /\ h + j \in 1..n /\ i # h + j BY <1>2
  <2>4. s[i] = s[h + j] BY <1>3, <1>4, <2>1, <2>2
  <2> QED BY <2>3, <2>4 DEF Listing
<1>10. IsCut(s, h, f, b) BY <1>3, <1>4, <1>5, <1>6, <1>7, <1>8, <1>9 DEF IsCut
<1> QED BY <1>10 DEF f, b

\* Two lists with the same front.
LEMMA SameFront ==
  ASSUME NEW s, NEW t, Listing(s), Listing(t), NEW h \in Nat, h <= Len(s), h <= Len(t),
         \A i \in 1..h : s[i] = t[i]
  PROVE  SubSeq(s, 1, h) = SubSeq(t, 1, h)
<1>1. Len(s) \in Nat /\ Len(t) \in Nat BY RangeIs DEF Listing
<1>2. h \in 0..Len(s) /\ h \in 0..Len(t) BY <1>1
<1> DEFINE f == SubSeq(s, 1, h)
           g == SubSeq(t, 1, h)
<1>3. Listing(f) /\ Len(f) = h /\ \A i \in 1..h : f[i] = s[i] BY <1>2, SplitListing DEF IsCut
<1>4. Listing(g) /\ Len(g) = h /\ \A i \in 1..h : g[i] = t[i] BY <1>2, SplitListing DEF IsCut
<1> HIDE DEF f, g
<1>5. f \in Seq(Nat) /\ g \in Seq(Nat) /\ Len(f) = Len(g) /\ \A i \in 1..Len(f) : f[i] = g[i]
  BY <1>3, <1>4 DEF Listing
<1>6. f = g BY <1>5, SeqEqual
<1> QED BY <1>6 DEF f, g

\* Sets of PROBLEMs are finite.
LEMMA ProblemsFinite ==
  ASSUME NEW n \in Nat, NEW S, S \subseteq 1..n
  PROVE  IsFiniteSet(S) /\ Cardinality(S) \in Nat
<1>1. IsFiniteSet(1..n) BY FS_Interval
<1> QED BY <1>1, FS_Subset, FS_CardinalityType

\* Counting what has no member in common.
LEMMA CountBoth ==
  ASSUME NEW S, NEW T, IsFiniteSet(S), IsFiniteSet(T), S \cap T = {}
  PROVE  IsFiniteSet(S \cup T) /\ Cardinality(S \cup T) = Cardinality(S) + Cardinality(T)
<1>1. Cardinality(S) \in Nat /\ Cardinality(T) \in Nat BY FS_CardinalityType
<1>2. Cardinality(S \cap T) = 0 BY FS_EmptySet
<1>3. IsFiniteSet(S \cup T) /\ Cardinality(S \cup T) = Cardinality(S) + Cardinality(T) - Cardinality(S \cap T)
  BY FS_Union
<1> QED BY <1>1, <1>2, <1>3

-----------------------------------------------------------------------------
(* The operations *)

LEMMA InitUndelivered == ASSUME UndeliveredAssumption, Init PROVE UndeliveredInv
<1> USE DEF Init, Empty
<1>1. ListInv BY EmptyListing, FS_EmptySet DEF ListInv, FoldedExact, UndeliveredAssumption
<1>2. HoldInv BY DEF HoldInv, HeldStaysInFront
<1>3. StoreInv BY EmptyListing, FS_EmptySet DEF StoreInv
<1>4. KeptUntilShown BY DEF KeptUntilShown
<1> QED BY <1>1, <1>2, <1>3, <1>4 DEF UndeliveredInv

\* A new PROBLEM goes behind the held ones, or into the count.
LEMMA AddStep == ASSUME UndeliveredAssumption, UndeliveredInv, Add PROVE UndeliveredInv'
<1> DEFINE p == listed + 1
<1>1. /\ p \in Nat /\ p \notin Range(items) /\ p \notin counted
      /\ listed \in Nat /\ listed' = p /\ 1..p = 1..listed \cup {p}
  BY DEF UndeliveredInv, ListInv, Add
<1>2. /\ UNCHANGED <<showing, held, shownFold, prefix, delivered, stored, loaded, restarts, lost>>
  BY DEF Add, sendVars, storeVars
<1>3. /\ Listing(items') /\ Len(items) <= Len(items') /\ \A i \in 1..Len(items) : items'[i] = items[i]
      /\ Len(items') <= MaxUndelivered /\ Range(items') \cap counted' = {}
      /\ Range(items') \cup counted' = Range(items) \cup counted \cup {p}
      /\ counted \subseteq counted' /\ folded' \in Nat /\ folded' = Cardinality(counted')
  <2>1. Listing(items) /\ Len(items) \in Nat /\ MaxUndelivered \in Nat /\ Len(items) <= MaxUndelivered
    BY RangeIs DEF UndeliveredInv, ListInv, Listing, UndeliveredAssumption
  <2>2. CASE Len(items) >= MaxUndelivered
    <3>1. folded' = folded + 1 /\ counted' = counted \cup {p} /\ items' = items BY <2>2 DEF Add
    <3>2. IsFiniteSet(counted) BY ProblemsFinite DEF UndeliveredInv, ListInv
    <3>3. Cardinality(counted \cup {p}) = Cardinality(counted) + 1 BY <1>1, <3>2, FS_AddElement
    <3>4. folded \in Nat /\ folded = Cardinality(counted) BY DEF UndeliveredInv, ListInv, FoldedExact
    <3>5. folded' \in Nat /\ folded' = Cardinality(counted') BY <3>1, <3>3, <3>4
    <3> HIDE DEF p
    <3> QED BY <1>1, <2>1, <3>1, <3>5 DEF UndeliveredInv, ListInv
  <2>3. CASE ~(Len(items) >= MaxUndelivered)
    <3>1. folded' = folded /\ counted' = counted /\ items' = Append(items, p) BY <2>3 DEF Add
    <3>2. /\ Listing(Append(items, p)) /\ Range(Append(items, p)) = Range(items) \cup {p}
          /\ Len(Append(items, p)) = Len(items) + 1
          /\ \A i \in 1..Len(items) : Append(items, p)[i] = items[i]
      BY <1>1, <2>1, AppendListing
    <3>3. Len(items') <= MaxUndelivered /\ Len(items) <= Len(items') BY <2>1, <2>3, <3>1, <3>2
    <3> HIDE DEF p
    <3> QED BY <1>1, <3>1, <3>2, <3>3 DEF UndeliveredInv, ListInv, FoldedExact
  <2> QED BY <2>2, <2>3
<1> HIDE DEF p
<1>4. ListInv' BY <1>1, <1>2, <1>3 DEF UndeliveredInv, ListInv, FoldedExact
<1>5. HoldInv'
  <2>1. ASSUME showing PROVE held <= Len(items') /\ SubSeq(items', 1, held) = prefix.items
    <3>1. held \in Nat /\ held <= Len(items) /\ SubSeq(items, 1, held) = prefix.items
      BY <2>1 DEF UndeliveredInv, HoldInv, HeldStaysInFront
    <3>2. Listing(items) /\ Len(items) \in Nat /\ Len(items') \in Nat
      BY <1>3, RangeIs DEF UndeliveredInv, ListInv, Listing
    <3>3. held <= Len(items') /\ \A i \in 1..held : items'[i] = items[i] BY <1>3, <3>1, <3>2
    <3>4. SubSeq(items', 1, held) = SubSeq(items, 1, held) BY <1>3, <3>1, <3>2, <3>3, SameFront
    <3> QED BY <3>1, <3>3, <3>4
  <2> QED BY <1>2, <1>3, <2>1 DEF UndeliveredInv, HoldInv, HeldStaysInFront
<1>6. StoreInv'
  <2>1. stored.upTo \in 0..listed' BY <1>1 DEF UndeliveredInv, StoreInv, p
  <2>2. ~loaded => Range(items') \cup counted' \subseteq stored.upTo + 1 .. listed'
    <3>1. stored.upTo + 1 .. p = (stored.upTo + 1 .. listed) \cup {p}
      BY <1>1 DEF UndeliveredInv, StoreInv, p
    <3> QED BY <1>1, <1>3, <3>1 DEF UndeliveredInv, StoreInv
  <2> QED BY <1>2, <2>1, <2>2 DEF UndeliveredInv, StoreInv
<1>7. KeptUntilShown' BY <1>1, <1>2, <1>3 DEF UndeliveredInv, KeptUntilShown
<1> QED BY <1>4, <1>5, <1>6, <1>7 DEF UndeliveredInv

\* The prefix is the list's front and the whole count.
LEMMA TakeStep ==
  ASSUME UndeliveredInv, NEW n \in Nat, TakePrefix(n) PROVE UndeliveredInv'
<1>1. /\ n <= Len(items) /\ (n > 0 \/ folded > 0)
      /\ showing' = TRUE /\ held' = n /\ shownFold' = folded
      /\ prefix' = [items |-> SubSeq(items, 1, n), counted |-> counted]
      /\ UNCHANGED <<items, folded, counted, delivered, stored, loaded, restarts, lost, listed>>
  BY DEF TakePrefix, listVars, storeVars
<1>2. prefix'.items = SubSeq(items, 1, n) /\ prefix'.counted = counted BY <1>1
<1>3. prefix' # NoPrefix
  <2>1. CASE n > 0
    <3>1. n \in 0..Len(items) /\ Listing(items)
      BY <1>1, RangeIs, <2>1 DEF UndeliveredInv, ListInv, Listing
    <3>2. Len(SubSeq(items, 1, n)) = n BY <3>1, SplitListing DEF IsCut
    <3>3. Len(<<>>) # n BY <2>1, EmptyListing
    <3>4. SubSeq(items, 1, n) # <<>> BY <3>2, <3>3, Zenon
    <3> QED BY <1>2, <3>4 DEF NoPrefix
  <2>2. CASE folded > 0
    <3>1. counted # {} BY <2>2, FS_EmptySet DEF UndeliveredInv, ListInv, FoldedExact
    <3> QED BY <1>2, <3>1 DEF NoPrefix
  <2> QED BY <1>1, <2>1, <2>2
<1>4. HoldInv' BY <1>1, <1>2, <1>3 DEF UndeliveredInv, ListInv, HoldInv, HeldStaysInFront, FoldedExact
<1> QED BY <1>1, <1>4 DEF UndeliveredInv, ListInv, StoreInv, KeptUntilShown, FoldedExact

\* A delivered message takes from the list what it showed; one that failed takes nothing.
LEMMA ReleaseStep ==
  ASSUME UndeliveredAssumption, UndeliveredInv, NEW ok \in BOOLEAN, ReleasePrefix(ok) PROVE UndeliveredInv'
<1>1. /\ showing /\ showing' = FALSE /\ held' = 0 /\ shownFold' = 0 /\ prefix' = NoPrefix
      /\ UNCHANGED <<stored, loaded, restarts, lost, listed>>
  BY DEF ReleasePrefix, ShowingAfter, storeVars, UndeliveredInv, HoldInv
<1>2. HoldInv'
  <2>1. \A s : ~showing' => HeldStaysInFront' BY DEF HeldStaysInFront
  <2> QED BY <1>1, <2>1 DEF HoldInv, HeldStaysInFront
<1>3. CASE ~ok
  <2>1. UNCHANGED <<items, folded, counted, delivered>> BY <1>3 DEF ReleasePrefix, listVars
  <2> QED BY <1>1, <1>2, <2>1 DEF UndeliveredInv, ListInv, StoreInv, KeptUntilShown, FoldedExact
<1>4. CASE ok
  <2>1. /\ held \in Nat /\ held <= Len(items) /\ SubSeq(items, 1, held) = prefix.items
        /\ prefix.counted \subseteq counted /\ shownFold = Cardinality(prefix.counted)
        /\ Listing(items) /\ Len(items) \in Nat /\ held \in 0..Len(items)
    BY <1>1, RangeIs DEF UndeliveredInv, ListInv, HoldInv, HeldStaysInFront, Listing
  <2>2. /\ items' = SubSeq(items, held + 1, Len(items)) /\ folded' = FoldedLeft
        /\ counted' = counted \ prefix.counted
        /\ delivered' = delivered \cup Range(prefix.items) \cup prefix.counted
    <3>1. (IF held < Len(items) THEN held ELSE Len(items)) = held BY <2>1
    <3> QED BY <1>4, <3>1 DEF ReleasePrefix
  <2>3. /\ Listing(items') /\ Range(prefix.items) \cup Range(items') = Range(items)
        /\ Len(items') = Len(items) - held
    BY <2>1, <2>2, SplitListing DEF IsCut
  <2>4. folded' \in Nat /\ folded' = Cardinality(counted')
    <3> DEFINE P == prefix.counted
    <3>1. IsFiniteSet(counted) /\ IsFiniteSet(P) /\ IsFiniteSet(counted \ P)
      BY <2>1, ProblemsFinite DEF UndeliveredInv, ListInv
    <3>2. counted = (counted \ P) \cup P /\ (counted \ P) \cap P = {} BY <2>1
    <3>3. Cardinality(counted) = Cardinality(counted \ P) + Cardinality(P) BY <3>1, <3>2, CountBoth
    <3>4. Cardinality(counted \ P) \in Nat /\ Cardinality(P) \in Nat BY <3>1, FS_CardinalityType
    <3>5. folded = Cardinality(counted) BY DEF UndeliveredInv, ListInv, FoldedExact
    <3>6. FoldedLeft = Cardinality(counted \ P) BY <2>1, <3>3, <3>4, <3>5 DEF FoldedLeft
    <3> QED BY <2>2, <3>4, <3>6
  <2>5. Len(items') <= MaxUndelivered
    <3>1. Len(items) <= MaxUndelivered /\ MaxUndelivered \in Nat
      BY DEF UndeliveredInv, ListInv, UndeliveredAssumption
    <3> QED BY <2>1, <2>3, <3>1
  <2>6. Range(items') \subseteq Range(items) /\ counted' \subseteq counted BY <2>2, <2>3
  <2>7. delivered' \subseteq 1..listed BY <2>1, <2>2, <2>3 DEF UndeliveredInv, ListInv
  <2>8. ListInv' BY <1>1, <2>3, <2>4, <2>5, <2>6, <2>7 DEF UndeliveredInv, ListInv, FoldedExact
  <2>9. StoreInv' BY <1>1, <2>2, <2>6 DEF UndeliveredInv, StoreInv
  <2>10. KeptUntilShown'
    <3>1. Range(items) \cup counted \cup delivered \subseteq Range(items') \cup counted' \cup delivered'
      BY <2>2, <2>3
    <3> QED BY <1>1, <3>1 DEF UndeliveredInv, KeptUntilShown
  <2> QED BY <1>2, <2>8, <2>9, <2>10 DEF UndeliveredInv
<1> QED BY <1>3, <1>4

\* What is saved accounts for everything listed so far.
LEMMA CheckpointStep == ASSUME UndeliveredInv, Checkpoint PROVE UndeliveredInv'
<1>1. /\ loaded /\ UNCHANGED <<items, folded, counted, showing, held, shownFold, prefix, delivered, loaded,
                              restarts, lost, listed>>
      /\ stored' = [items |-> items, folded |-> folded, counted |-> counted, upTo |-> listed]
  BY DEF Checkpoint, listVars, sendVars
<1>2. /\ stored'.items = items /\ stored'.folded = folded /\ stored'.counted = counted
      /\ stored'.upTo = listed
  BY <1>1
<1>3. StoreInv'
  <2>1. 1..listed \subseteq Range(items) \cup counted \cup delivered \cup lost
    BY <1>1 DEF UndeliveredInv, KeptUntilShown
  <2>2. listed \in 0..listed BY DEF UndeliveredInv, ListInv
  <2> QED BY <1>1, <1>2, <2>1, <2>2 DEF UndeliveredInv, ListInv, StoreInv, FoldedExact
<1> QED BY <1>1, <1>3 DEF UndeliveredInv, ListInv, HoldInv, HeldStaysInFront, KeptUntilShown, FoldedExact

\* What was listed after the last save is lost, the rest is in the store.
LEMMA RestartStep == ASSUME UndeliveredAssumption, UndeliveredInv, Restart PROVE UndeliveredInv'
<1>1. /\ items' = <<>> /\ folded' = 0 /\ counted' = {}
      /\ showing' = FALSE /\ held' = 0 /\ shownFold' = 0 /\ prefix' = NoPrefix /\ loaded' = FALSE
      /\ lost' = lost \cup (stored.upTo + 1 .. listed) /\ UNCHANGED <<delivered, stored, listed>>
  BY DEF Restart
<1>2. ListInv'
  <2>1. Listing(items') /\ Range(items') = {} /\ Len(items') = 0 BY <1>1, EmptyListing
  <2>2. FoldedExact' BY <1>1, FS_EmptySet DEF FoldedExact
  <2>3. Len(items') <= MaxUndelivered BY <2>1 DEF UndeliveredAssumption
  <2> QED BY <1>1, <2>1, <2>2, <2>3 DEF UndeliveredInv, ListInv
<1>3. HoldInv' BY <1>1 DEF HoldInv, HeldStaysInFront
<1>4. StoreInv' BY <1>1, EmptyListing DEF UndeliveredInv, StoreInv
<1>5. KeptUntilShown'
  <2>1. 1..listed = (1..stored.upTo) \cup (stored.upTo + 1 .. listed)
    BY DEF UndeliveredInv, ListInv, StoreInv
  <2> QED BY <1>1, <2>1 DEF UndeliveredInv, StoreInv, KeptUntilShown
<1> QED BY <1>2, <1>3, <1>4, <1>5 DEF UndeliveredInv

\* The stored items go in behind the held ones, and the newest beyond the capacity into the
\* count: each PROBLEM in one place, as before.
LEMMA RestoreStep == ASSUME UndeliveredAssumption, UndeliveredInv, Restore PROVE UndeliveredInv'
<1>1. ~loaded /\ loaded' = TRUE
      /\ UNCHANGED <<showing, held, shownFold, prefix, delivered, stored, restarts, lost, listed>>
  BY DEF Restore, sendVars
<1>2. /\ Listing(items) /\ Len(items) \in Nat /\ MaxUndelivered \in Nat /\ Len(items) <= MaxUndelivered
      /\ Listing(stored.items) /\ Len(stored.items) \in Nat /\ held \in Nat /\ held <= Len(items)
  <2>1. Listing(items) /\ Len(items) \in Nat /\ Listing(stored.items) /\ Len(stored.items) \in Nat
    BY RangeIs DEF UndeliveredInv, ListInv, StoreInv, Listing
  <2> QED BY <2>1 DEF UndeliveredInv, ListInv, HoldInv, HeldStaysInFront, UndeliveredAssumption
<1> DEFINE h == BehindHeld
           f == SubSeq(items, 1, h)
           b == SubSeq(items, h + 1, Len(items))
           all == f \o stored.items \o b
           k == KeptLen(all)
<1>3. h = held BY <1>2 DEF BehindHeld
<1>4. /\ items' = SubSeq(all, 1, k) /\ folded' = folded + stored.folded + (Len(all) - k)
      /\ counted' = counted \cup stored.counted \cup Range(SubSeq(all, k + 1, Len(all)))
  BY DEF Restore
<1> HIDE DEF h
<1>5. /\ Listing(f) /\ Listing(b) /\ Range(f) \cup Range(b) = Range(items) /\ Range(f) \cap Range(b) = {}
      /\ Len(f) = h /\ Len(b) = Len(items) - h /\ \A i \in 1..h : f[i] = items[i]
  <2>1. h \in 0..Len(items) BY <1>2, <1>3
  <2> QED BY <1>2, <2>1, SplitListing DEF IsCut
<1>6. (Range(items) \cup counted) \cap (Range(stored.items) \cup stored.counted) = {}
  <2>1. Range(items) \cup counted \subseteq stored.upTo + 1 .. listed
    BY <1>1 DEF UndeliveredInv, StoreInv
  <2>2. Range(stored.items) \cup stored.counted \subseteq 1..stored.upTo
    BY DEF UndeliveredInv, StoreInv
  <2>3. (stored.upTo + 1 .. listed) \cap (1..stored.upTo) = {}
    BY DEF UndeliveredInv, StoreInv, ListInv
  <2> QED BY <2>1, <2>2, <2>3
<1> HIDE DEF f, b
<1> DEFINE g == f \o stored.items
<1>7. /\ Listing(g) /\ Range(g) = Range(f) \cup Range(stored.items) /\ Len(g) = Len(f) + Len(stored.items)
      /\ \A i \in 1..Len(f) : g[i] = f[i]
  <2>1. Range(f) \cap Range(stored.items) = {} BY <1>5, <1>6
  <2> QED BY <1>2, <1>5, <2>1, ConcatListing
<1>8. all = g \o b OBVIOUS
<1> HIDE DEF g, all
<1>9. /\ Listing(all) /\ Range(all) = Range(items) \cup Range(stored.items)
      /\ Len(all) = Len(items) + Len(stored.items) /\ \A i \in 1..h : all[i] = items[i]
  <2>1. Range(g) \cap Range(b) = {} BY <1>5, <1>6, <1>7
  <2>2. /\ Listing(all) /\ Range(all) = Range(g) \cup Range(b) /\ Len(all) = Len(g) + Len(b)
        /\ \A i \in 1..Len(g) : all[i] = g[i]
    <3>1. /\ Listing(g \o b) /\ Range(g \o b) = Range(g) \cup Range(b) /\ Len(g \o b) = Len(g) + Len(b)
          /\ \A i \in 1..Len(g) : (g \o b)[i] = g[i]
      BY <1>5, <1>7, <2>1, ConcatListing
    <3> QED BY <1>8, <3>1, Zenon
  <2>3. Range(all) = Range(items) \cup Range(stored.items) BY <1>5, <1>7, <2>2
  <2>4. Len(g) = h + Len(stored.items) /\ Len(all) = Len(items) + Len(stored.items)
    BY <1>2, <1>3, <1>5, <1>7, <2>2
  <2>5. \A i \in 1..h : i \in 1..Len(g) BY <1>2, <1>3, <2>4
  <2> QED BY <1>5, <1>7, <2>2, <2>3, <2>4, <2>5
<1>10. k \in 0..Len(all) /\ h <= k /\ k <= MaxUndelivered
  BY <1>2, <1>3, <1>9 DEF KeptLen
<1> HIDE DEF k
<1> DEFINE r == SubSeq(all, k + 1, Len(all))
<1>11. /\ Listing(items') /\ Listing(r) /\ Range(items') \cup Range(r) = Range(all)
       /\ Range(items') \cap Range(r) = {} /\ Len(items') = k /\ Len(r) = Len(all) - k
       /\ \A i \in 1..k : items'[i] = all[i]
  <2>1. IsCut(all, k, SubSeq(all, 1, k), SubSeq(all, k + 1, Len(all))) BY <1>9, <1>10, SplitListing
  <2>2. IsCut(all, k, items', r) BY <1>4, <2>1
  <2> QED BY <2>2 DEF IsCut
<1>12. counted' = counted \cup stored.counted \cup Range(r) BY <1>4
<1> HIDE DEF r
<1>13. Range(items') \cup counted' = Range(items) \cup counted \cup Range(stored.items) \cup stored.counted
  BY <1>9, <1>11, <1>12
<1>14. stored.counted \cap counted = {} /\ Range(r) \cap (counted \cup stored.counted) = {}
  <2>1. Range(items) \cap counted = {} /\ Range(stored.items) \cap stored.counted = {}
    BY DEF UndeliveredInv, ListInv, StoreInv
  <2> QED BY <1>6, <1>9, <1>11, <2>1
<1>15. Range(items') \cap counted' = {}
  <2>1. Range(items) \cap counted = {} /\ Range(stored.items) \cap stored.counted = {}
    BY DEF UndeliveredInv, ListInv, StoreInv
  <2> QED BY <1>6, <1>9, <1>11, <1>12, <2>1
<1>16. folded' \in Nat /\ folded' = Cardinality(counted')
  <2>1. IsFiniteSet(counted) /\ IsFiniteSet(stored.counted)
    <3>1. stored.upTo \in Nat BY DEF UndeliveredInv, StoreInv
    <3> QED BY <3>1, ProblemsFinite DEF UndeliveredInv, ListInv, StoreInv
  <2>2. IsFiniteSet(Range(r)) /\ Cardinality(Range(r)) = Len(all) - k BY <1>11, ListingCardinality
  <2>3. /\ IsFiniteSet(counted \cup stored.counted)
        /\ Cardinality(counted \cup stored.counted) = folded + stored.folded
    BY <1>14, <2>1, CountBoth DEF UndeliveredInv, ListInv, StoreInv, FoldedExact
  <2>4. (counted \cup stored.counted) \cap Range(r) = {} BY <1>14
  <2>5. Cardinality(counted') = folded + stored.folded + (Len(all) - k)
    <3> DEFINE S == counted \cup stored.counted
               T == Range(r)
    <3>1. IsFiniteSet(S) /\ IsFiniteSet(T) /\ S \cap T = {} BY <2>2, <2>3, <2>4
    <3> HIDE DEF S, T
    <3>2. Cardinality(S \cup T) = Cardinality(S) + Cardinality(T) BY <3>1, CountBoth
    <3> QED BY <1>12, <2>2, <2>3, <3>2 DEF S, T
  <2>6. folded \in Nat /\ stored.folded \in Nat BY DEF UndeliveredInv, ListInv, StoreInv
  <2>7. Len(all) - k \in Nat BY <1>2, <1>9, <1>10
  <2> QED BY <1>4, <2>5, <2>6, <2>7
<1>17. Range(items') \cup counted' \subseteq 1..listed
  <2>1. 1..stored.upTo \subseteq 1..listed BY DEF UndeliveredInv, StoreInv, ListInv
  <2> QED BY <1>13, <2>1 DEF UndeliveredInv, ListInv, StoreInv
<1>18. ListInv'
  BY <1>1, <1>10, <1>11, <1>15, <1>16, <1>17 DEF UndeliveredInv, ListInv, FoldedExact
<1>19. HoldInv'
  <2>1. ASSUME showing PROVE held <= Len(items') /\ SubSeq(items', 1, held) = prefix.items
    <3>1. SubSeq(items, 1, held) = prefix.items BY <2>1 DEF UndeliveredInv, HoldInv, HeldStaysInFront
    <3>2. held <= Len(items') BY <1>3, <1>10, <1>11
    <3>3. \A i \in 1..held : i \in 1..k BY <1>2, <1>3, <1>9, <1>10
    <3>4. \A i \in 1..held : items'[i] = items[i] BY <1>3, <1>9, <1>11, <3>3
    <3>5. SubSeq(items', 1, held) = SubSeq(items, 1, held) BY <1>2, <1>11, <3>2, <3>4, SameFront
    <3> QED BY <3>1, <3>2, <3>5
  <2> QED BY <1>1, <1>12, <2>1 DEF UndeliveredInv, HoldInv, HeldStaysInFront
<1>20. StoreInv' BY <1>1 DEF UndeliveredInv, StoreInv
<1>21. KeptUntilShown' BY <1>1, <1>13 DEF UndeliveredInv, KeptUntilShown
<1> QED BY <1>18, <1>19, <1>20, <1>21 DEF UndeliveredInv

LEMMA StutterStep == ASSUME UndeliveredInv, UNCHANGED vars PROVE UndeliveredInv'
  BY DEF UndeliveredInv, ListInv, HoldInv, HeldStaysInFront, StoreInv, KeptUntilShown, FoldedExact, vars,
         listVars, sendVars, storeVars

-----------------------------------------------------------------------------
(* Theorems *)

\* The inductive invariant, through sends that return however late, restarts and late loads.
THEOREM UndeliveredInvariant == ASSUME UndeliveredAssumption PROVE Spec => []UndeliveredInv
<1>1. Init => UndeliveredInv BY InitUndelivered
<1>2. UndeliveredInv /\ [Next]_vars => UndeliveredInv'
  <2> SUFFICES ASSUME UndeliveredInv, [Next]_vars PROVE UndeliveredInv'
    OBVIOUS
  <2>1. CASE Add BY <2>1, AddStep
  <2>2. ASSUME NEW n \in 0..MaxUndelivered, TakePrefix(n) PROVE UndeliveredInv'
    <3>1. n \in Nat BY <2>2 DEF UndeliveredAssumption
    <3> QED BY <2>2, <3>1, TakeStep
  <2>3. ASSUME NEW ok \in BOOLEAN, ReleasePrefix(ok) PROVE UndeliveredInv' BY <2>3, ReleaseStep
  <2>4. CASE Checkpoint BY <2>4, CheckpointStep
  <2>5. CASE Restart BY <2>5, RestartStep
  <2>6. CASE Restore BY <2>6, RestoreStep
  <2>7. CASE Done BY <2>7, StutterStep DEF Done
  <2>8. CASE UNCHANGED vars BY <2>8, StutterStep
  <2> QED BY <2>1, <2>2, <2>3, <2>4, <2>5, <2>6, <2>7, <2>8 DEF Next
<1> QED BY <1>1, <1>2, PTL DEF Spec

\* FR-031, for any capacity of the list: a listed PROBLEM stays listed or counted until a
\* delivered message has shown it, or dies with a process that never saved it.  An
\* acknowledgement, which removes by count (Ack), removes exactly what its message showed,
\* whatever was added or loaded since takePrefix; and the count is exactly the number of
\* PROBLEMs that are not listed one by one.
THEOREM ProblemsAreKept ==
  ASSUME UndeliveredAssumption
  PROVE  Spec => [](TypeOK /\ KeptUntilShown /\ HeldStaysInFront /\ FoldedExact)
<1>1. UndeliveredInv => TypeOK
  <2> SUFFICES ASSUME UndeliveredInv PROVE TypeOK
    OBVIOUS
  <2>1. items \in Seq(Nat) /\ Len(items) \in Nat /\ \A i \in 1..Len(items) : items[i] \in 1..listed
    BY RangeIs DEF UndeliveredInv, ListInv, Listing
  <2>2. items \in [1..Len(items) -> 1..listed] BY <2>1
  <2>3. PICK n \in Nat : n = Len(items) BY <2>1
  <2>4. items \in [1..n -> 1..listed] BY <2>2, <2>3
  <2>5. items \in Seq(1..listed) BY <2>3, <2>4, SeqDef, Zenon
  <2> QED BY <2>5 DEF UndeliveredInv, ListInv, HoldInv, TypeOK
<1>2. UndeliveredInv => KeptUntilShown /\ HeldStaysInFront /\ FoldedExact
  BY DEF UndeliveredInv, ListInv, HoldInv
<1> QED BY <1>1, <1>2, UndeliveredInvariant, PTL

-----------------------------------------------------------------------------
(* The state database: the module StateStore, under the prefix DB *)

CONSTANTS UpsertKeys, GuardKey, MaxSeq, MaxStarts

VARIABLES db, st, closed, openMu, pc, early, stateLoaded, seq, starts, pend, degraded, given

DB == INSTANCE StateStore WITH loaded <- stateLoaded

AllKeys == UpsertKeys \cup {GuardKey}

Upserts == UNION {[S -> Nat] : S \in SUBSET AllKeys}

Stored == [snap : Nat, kv : Upserts]

\* The state's types; the guard's key is never pending, since no checkpoint carries it.
StoreTypes ==
  /\ openMu \in DB!Users \cup {"none"}
  /\ pc \in [DB!Users -> {"idle", "wait", "locked", "got", "tx"}]
  /\ db \in Stored /\ pend \in Stored /\ given \in Stored /\ seq \in Nat
  /\ GuardKey \notin DOMAIN pend.kv

\* What is pending, written over the database, gives what a store that never failed holds.
OutageInv ==
  /\ given.snap = IF pend.snap = 0 THEN db.snap ELSE pend.snap
  /\ given.kv = DB!Over(pend.kv, db.kv)
  /\ pc["runner"] = "tx" => pend.snap # 0

DatabaseInv == StoreTypes /\ OutageInv /\ DB!ClosedForGood

-----------------------------------------------------------------------------
(* Upserts *)

\* The upserts o hold f's keys with their values, and g's others.
IsOver(o, f, g) ==
  /\ o \in Upserts /\ DOMAIN o = DOMAIN f \cup DOMAIN g
  /\ \A k \in DOMAIN f : o[k] = f[k]
  /\ \A k \in DOMAIN g \ DOMAIN f : o[k] = g[k]

LEMMA OverIs ==
  ASSUME NEW f \in Upserts, NEW g \in Upserts
  PROVE  IsOver(DB!Over(f, g), f, g)
<1>1. PICK S \in SUBSET AllKeys : f \in [S -> Nat] BY DEF Upserts
<1>2. PICK T \in SUBSET AllKeys : g \in [T -> Nat] BY DEF Upserts
<1>3. DB!Over(f, g) = [k \in S \cup T |-> IF k \in S THEN f[k] ELSE g[k]] BY <1>1, <1>2 DEF DB!Over
<1>4. DB!Over(f, g) \in [S \cup T -> Nat] BY <1>1, <1>2, <1>3
<1>5. DB!Over(f, g) \in Upserts
  <2>1. S \cup T \in SUBSET AllKeys OBVIOUS
  <2> QED BY <1>4, <2>1 DEF Upserts
<1> QED BY <1>1, <1>2, <1>3, <1>5 DEF IsOver

\* Two upserts with the same values are the same.
LEMMA SameUpserts ==
  ASSUME NEW f \in Upserts, NEW g \in Upserts, DOMAIN f = DOMAIN g,
         \A k \in DOMAIN f : f[k] = g[k]
  PROVE  f = g
<1>1. PICK S \in SUBSET AllKeys : f \in [S -> Nat] BY DEF Upserts
<1>2. PICK T \in SUBSET AllKeys : g \in [T -> Nat] BY DEF Upserts
<1>3. DOMAIN f = S /\ DOMAIN g = T BY <1>1, <1>2
<1>4. g \in [S -> Nat] /\ \A k \in S : f[k] = g[k] BY <1>2, <1>3
<1> QED BY <1>1, <1>4

\* Upserts accumulate in any grouping.
LEMMA OverAssociates ==
  ASSUME NEW f \in Upserts, NEW g \in Upserts, NEW h \in Upserts
  PROVE  DB!Over(DB!Over(f, g), h) = DB!Over(f, DB!Over(g, h))
<1>1. PICK a : a = DB!Over(f, g) OBVIOUS
<1>2. PICK b : b = DB!Over(g, h) OBVIOUS
<1>3. IsOver(a, f, g) /\ IsOver(b, g, h) BY <1>1, <1>2, OverIs
<1>4. a \in Upserts /\ b \in Upserts BY <1>3 DEF IsOver
<1>5. PICK l : l = DB!Over(a, h) OBVIOUS
<1>6. PICK r : r = DB!Over(f, b) OBVIOUS
<1>7. IsOver(l, a, h) /\ IsOver(r, f, b) BY <1>4, <1>5, <1>6, OverIs
<1>8. l \in Upserts /\ r \in Upserts /\ DOMAIN l = DOMAIN r BY <1>3, <1>7 DEF IsOver
<1>9. \A k \in DOMAIN l : l[k] = r[k] BY <1>3, <1>7 DEF IsOver
<1>10. l = r BY <1>8, <1>9, SameUpserts
<1> QED BY <1>1, <1>2, <1>5, <1>6, <1>10

\* Upserts of different keys may come in any order.
LEMMA OverCommutes ==
  ASSUME NEW f \in Upserts, NEW g \in Upserts, NEW h \in Upserts, DOMAIN f \cap DOMAIN g = {}
  PROVE  DB!Over(f, DB!Over(g, h)) = DB!Over(g, DB!Over(f, h))
<1>1. PICK a : a = DB!Over(f, g) OBVIOUS
<1>2. PICK b : b = DB!Over(g, f) OBVIOUS
<1>3. IsOver(a, f, g) /\ IsOver(b, g, f) BY <1>1, <1>2, OverIs
<1>4. /\ a \in Upserts /\ b \in Upserts /\ DOMAIN a = DOMAIN b /\ \A k \in DOMAIN a : a[k] = b[k]
  BY <1>3 DEF IsOver
<1>5. a = b BY <1>4, SameUpserts
<1>6. DB!Over(a, h) = DB!Over(f, DB!Over(g, h)) BY <1>1, OverAssociates
<1>7. DB!Over(b, h) = DB!Over(g, DB!Over(f, h)) BY <1>2, OverAssociates
<1> QED BY <1>5, <1>6, <1>7

\* No upserts over some change nothing.
LEMMA OverNothing ==
  /\ DB!NoUpserts \in Upserts /\ DOMAIN DB!NoUpserts = {} /\ DB!Nothing \in Stored
  /\ \A g \in Upserts : DB!Over(DB!NoUpserts, g) = g
<1>1. DB!NoUpserts \in [{} -> Nat] /\ DOMAIN DB!NoUpserts = {} BY DEF DB!NoUpserts
<1>2. DB!NoUpserts \in Upserts
  <2>1. {} \in SUBSET AllKeys OBVIOUS
  <2> QED BY <1>1, <2>1 DEF Upserts
<1>3. DB!Nothing \in Stored BY <1>2 DEF DB!Nothing, Stored
<1>4. ASSUME NEW g \in Upserts PROVE DB!Over(DB!NoUpserts, g) = g
  <2>1. PICK a : a = DB!Over(DB!NoUpserts, g) OBVIOUS
  <2>2. IsOver(a, DB!NoUpserts, g) BY <1>2, <2>1, OverIs
  <2>3. a \in Upserts /\ DOMAIN a = DOMAIN g /\ \A k \in DOMAIN a : a[k] = g[k]
    BY <1>1, <2>2 DEF IsOver
  <2>4. a = g BY <2>3, SameUpserts
  <2> QED BY <2>1, <2>4
<1> QED BY <1>1, <1>2, <1>3, <1>4

\* The guard's put.
LEMMA PutIs ==
  ASSUME NEW n \in Nat
  PROVE  [k \in {GuardKey} |-> n] \in Upserts /\ DOMAIN [k \in {GuardKey} |-> n] = {GuardKey}
<1>1. [k \in {GuardKey} |-> n] \in [{GuardKey} -> Nat] OBVIOUS
<1>2. {GuardKey} \in SUBSET AllKeys BY DEF AllKeys
<1> QED BY <1>1, <1>2 DEF Upserts

-----------------------------------------------------------------------------
(* The steps *)

LEMMA InitStore == ASSUME DB!Init PROVE DatabaseInv
<1>1. DB!Nothing.snap = 0 /\ DB!Nothing.kv = DB!NoUpserts BY DEF DB!Nothing
<1>2. StoreTypes BY <1>1, OverNothing DEF DB!Init, StoreTypes, DB!Users
<1>3. OutageInv BY <1>1, OverNothing DEF DB!Init, OutageInv, DB!Users
<1>4. DB!ClosedForGood BY DEF DB!Init, DB!ClosedForGood
<1> QED BY <1>2, <1>3, <1>4 DEF DatabaseInv

\* Opening and closing touch no data.
LEMMA OpenStep ==
  ASSUME DatabaseInv,
         \/ \E u \in DB!Users : DB!Get(u) \/ DB!LockMu(u) \/ \E ok \in BOOLEAN : DB!Open(u, ok)
         \/ DB!Close \/ \E ok \in BOOLEAN : DB!Load(ok)
  PROVE  DatabaseInv'
<1>1. UNCHANGED <<db, pend, given, seq>>
  BY DEF DB!Get, DB!LockMu, DB!Open, DB!Close, DB!Load
<1>2. /\ openMu' \in DB!Users \cup {"none"} /\ pc' \in [DB!Users -> {"idle", "wait", "locked", "got", "tx"}]
      /\ pc'["runner"] = "tx" => pc["runner"] = "tx"
  <2>1. ASSUME NEW u \in DB!Users, DB!Get(u) \/ DB!LockMu(u)
        PROVE  /\ openMu' \in DB!Users \cup {"none"}
               /\ \E w \in {"idle", "wait", "locked", "got"} : pc' = [pc EXCEPT ![u] = w]
    BY <2>1 DEF DB!Get, DB!LockMu, DB!Go, DatabaseInv, StoreTypes
  <2>2. ASSUME NEW u \in DB!Users, NEW ok \in BOOLEAN, DB!Open(u, ok)
        PROVE  /\ openMu' \in DB!Users \cup {"none"}
               /\ \E w \in {"idle", "wait", "locked", "got"} : pc' = [pc EXCEPT ![u] = w]
    BY <2>2 DEF DB!Open, DB!Go
  <2>3. ASSUME NEW ok \in BOOLEAN, DB!Load(ok)
        PROVE  openMu' = openMu /\ pc' = [pc EXCEPT !["runner"] = "idle"]
    BY <2>3 DEF DB!Load, DB!Go
  <2>4. DB!Close => UNCHANGED <<openMu, pc>> BY DEF DB!Close
  <2> QED BY <2>1, <2>2, <2>3, <2>4 DEF DatabaseInv, StoreTypes, DB!Users
<1>3. DB!ClosedForGood'
  BY DEF DB!Get, DB!LockMu, DB!Open, DB!Close, DB!Load, DB!Recheck, DB!ClosedForGood, DatabaseInv
<1> QED BY <1>1, <1>2, <1>3 DEF DatabaseInv, StoreTypes, OutageInv

\* merge and the transaction.
LEMMA GivenStep ==
  ASSUME GuardKey \notin UpsertKeys, DatabaseInv, NEW keys \in SUBSET UpsertKeys, DB!Checkpoint(keys)
  PROVE  DatabaseInv'
<1>1. seq \in Nat /\ seq' = seq + 1 /\ UNCHANGED <<db, st, closed, openMu>> /\ pc' = [pc EXCEPT !["runner"] = "tx"]
  BY DEF DB!Checkpoint, DB!Go, DatabaseInv, StoreTypes
<1>2. PICK d : d = [k \in keys |-> seq'] OBVIOUS
<1>3. d \in Upserts /\ DOMAIN d = keys
  <2>1. d \in [keys -> Nat] /\ keys \in SUBSET AllKeys BY <1>1, <1>2 DEF AllKeys
  <2> QED BY <2>1 DEF Upserts
<1>4. pend' = [snap |-> seq', kv |-> DB!Over(d, pend.kv)] /\ given' = [snap |-> seq', kv |-> DB!Over(d, given.kv)]
  BY <1>2 DEF DB!Checkpoint, DB!Merge
<1>5. db.kv \in Upserts /\ pend.kv \in Upserts /\ given.kv \in Upserts /\ GuardKey \notin DOMAIN pend.kv
  BY DEF DatabaseInv, StoreTypes, Stored
<1>6. DB!Over(d, pend.kv) \in Upserts /\ DB!Over(d, given.kv) \in Upserts /\ GuardKey \notin DOMAIN DB!Over(d, pend.kv)
  <2>1. IsOver(DB!Over(d, pend.kv), d, pend.kv) /\ IsOver(DB!Over(d, given.kv), d, given.kv)
    BY <1>3, <1>5, OverIs
  <2> QED BY <1>3, <1>5, <2>1 DEF IsOver
<1>7. DB!Over(d, given.kv) = DB!Over(DB!Over(d, pend.kv), db.kv)
  <2>1. given.kv = DB!Over(pend.kv, db.kv) BY DEF DatabaseInv, OutageInv
  <2>2. DB!Over(DB!Over(d, pend.kv), db.kv) = DB!Over(d, DB!Over(pend.kv, db.kv)) BY <1>3, <1>5, OverAssociates
  <2> QED BY <2>1, <2>2
<1>8. /\ pend'.snap = seq' /\ pend'.kv = DB!Over(d, pend.kv) /\ given'.snap = seq' /\ given'.kv = DB!Over(d, given.kv)
      /\ seq' # 0 /\ seq' \in Nat
  BY <1>1, <1>4
<1>9. pend' \in Stored /\ given' \in Stored BY <1>4, <1>6, <1>8 DEF Stored
<1>10. pc' \in [DB!Users -> {"idle", "wait", "locked", "got", "tx"}] BY <1>1 DEF DatabaseInv, StoreTypes
<1>11. StoreTypes' BY <1>1, <1>6, <1>8, <1>9, <1>10 DEF DatabaseInv, StoreTypes
<1>12. OutageInv' BY <1>1, <1>7, <1>8 DEF OutageInv
<1> QED BY <1>1, <1>11, <1>12 DEF DatabaseInv, DB!ClosedForGood

\* A write makes the database what was given.
LEMMA WriteStep == ASSUME DatabaseInv, DB!Write PROVE DatabaseInv'
<1>1. /\ pc["runner"] = "tx" /\ pc' = [pc EXCEPT !["runner"] = "idle"] /\ pend' = DB!Nothing
      /\ db' = [snap |-> pend.snap, kv |-> DB!Over(pend.kv, db.kv)]
      /\ UNCHANGED <<st, closed, openMu, seq, given>>
  BY DEF DB!Write, DB!Go
<1>2. db'.snap = pend.snap /\ db'.kv = DB!Over(pend.kv, db.kv) BY <1>1
<1>3. given.snap = db'.snap /\ given.kv = db'.kv BY <1>1, <1>2 DEF DatabaseInv, OutageInv
<1>4. db.kv \in Upserts /\ pend.kv \in Upserts /\ pend.snap \in Nat BY DEF DatabaseInv, StoreTypes, Stored
<1>5. DB!Over(pend.kv, db.kv) \in Upserts BY <1>4, OverIs DEF IsOver
<1>6. db' \in Stored BY <1>1, <1>4, <1>5 DEF Stored
<1>7. pend'.snap = 0 /\ pend'.kv = DB!NoUpserts BY <1>1 DEF DB!Nothing
<1>8. StoreTypes'
  <2>1. pc' \in [DB!Users -> {"idle", "wait", "locked", "got", "tx"}] BY <1>1 DEF DatabaseInv, StoreTypes
  <2>2. pend' \in Stored /\ GuardKey \notin DOMAIN pend'.kv BY <1>1, <1>7, OverNothing
  <2> QED BY <1>1, <1>6, <2>1, <2>2 DEF DatabaseInv, StoreTypes
<1>9. OutageInv'
  <2>1. DB!Over(pend'.kv, db'.kv) = db'.kv BY <1>2, <1>5, <1>7, OverNothing
  <2>2. pc'["runner"] = "idle" BY <1>1 DEF DatabaseInv, StoreTypes, DB!Users
  <2> QED BY <1>1, <1>3, <1>7, <2>1, <2>2 DEF OutageInv
<1> QED BY <1>1, <1>8, <1>9 DEF DatabaseInv, DB!ClosedForGood

LEMMA FailStep ==
  ASSUME DatabaseInv, DB!BeginPut \/ \E cut \in BOOLEAN : DB!WriteFails(cut) PROVE DatabaseInv'
<1>1. /\ UNCHANGED <<db, st, closed, openMu, pend, given>> /\ seq' \in Nat
      /\ pc' = [pc EXCEPT !["guard"] = "tx"] \/ pc' = [pc EXCEPT !["runner"] = "idle"]
  BY DEF DB!BeginPut, DB!WriteFails, DB!Go, DatabaseInv, StoreTypes
<1>2. /\ pc' \in [DB!Users -> {"idle", "wait", "locked", "got", "tx"}]
      /\ pc'["runner"] = "tx" => pc["runner"] = "tx"
  BY <1>1 DEF DatabaseInv, StoreTypes, DB!Users
<1> QED BY <1>1, <1>2 DEF DatabaseInv, StoreTypes, OutageInv, DB!ClosedForGood

\* The guard's key, which nothing pending holds.
LEMMA PutStep == ASSUME DatabaseInv, NEW ok \in BOOLEAN, DB!Put(ok) PROVE DatabaseInv'
<1>1. /\ pc' = [pc EXCEPT !["guard"] = "idle"] /\ UNCHANGED <<st, closed, openMu, seq, pend>>
  BY DEF DB!Put, DB!Go
<1>2. /\ pc' \in [DB!Users -> {"idle", "wait", "locked", "got", "tx"}]
      /\ pc'["runner"] = "tx" => pc["runner"] = "tx"
  BY <1>1 DEF DatabaseInv, StoreTypes, DB!Users
<1>3. CASE ~ok
  <2>1. UNCHANGED <<db, given>> BY <1>3 DEF DB!Put
  <2> QED BY <1>1, <1>2, <2>1 DEF DatabaseInv, StoreTypes, OutageInv, DB!ClosedForGood
<1>4. CASE ok
  <2>1. PICK g \in Upserts : g = [k \in {GuardKey} |-> seq] /\ DOMAIN g = {GuardKey}
    BY PutIs DEF DatabaseInv, StoreTypes
  <2>2. db.kv \in Upserts /\ pend.kv \in Upserts /\ given.kv \in Upserts /\ db \in Stored /\ given \in Stored
    BY DEF DatabaseInv, StoreTypes, Stored
  <2>3. db' = [db EXCEPT !.kv = DB!Over(g, db.kv)] /\ given' = [given EXCEPT !.kv = DB!Over(g, given.kv)]
    BY <1>4, <2>1 DEF DB!Put
  <2>4. DB!Over(g, db.kv) \in Upserts /\ DB!Over(g, given.kv) \in Upserts BY <2>1, <2>2, OverIs DEF IsOver
  <2>5. /\ db' \in Stored /\ given' \in Stored /\ db'.snap = db.snap /\ given'.snap = given.snap
        /\ db'.kv = DB!Over(g, db.kv) /\ given'.kv = DB!Over(g, given.kv)
    BY <2>2, <2>3, <2>4 DEF Stored
  <2>6. DB!Over(g, given.kv) = DB!Over(pend.kv, DB!Over(g, db.kv))
    <3>1. DOMAIN g \cap DOMAIN pend.kv = {} BY <2>1 DEF DatabaseInv, StoreTypes
    <3>2. DB!Over(g, DB!Over(pend.kv, db.kv)) = DB!Over(pend.kv, DB!Over(g, db.kv)) BY <2>1, <2>2, <3>1, OverCommutes
    <3> QED BY <3>2 DEF DatabaseInv, OutageInv
  <2>7. StoreTypes' BY <1>1, <1>2, <2>5 DEF DatabaseInv, StoreTypes
  <2>8. OutageInv' BY <1>1, <1>2, <2>5, <2>6 DEF DatabaseInv, OutageInv
  <2> QED BY <1>1, <2>7, <2>8 DEF DatabaseInv, DB!ClosedForGood
<1> QED BY <1>3, <1>4

\* A new process has nothing pending, and can be given what the database holds.
LEMMA ReopenStep == ASSUME DatabaseInv, DB!Restart PROVE DatabaseInv'
<1>1. /\ st' = FALSE /\ openMu' = "none" /\ pc' = [u \in DB!Users |-> "idle"] /\ pend' = DB!Nothing
      /\ given' = db /\ UNCHANGED <<db, seq>>
  BY DEF DB!Restart
<1>2. pend'.snap = 0 /\ pend'.kv = DB!NoUpserts BY <1>1 DEF DB!Nothing
<1>3. db.kv \in Upserts BY DEF DatabaseInv, StoreTypes, Stored
<1>4. StoreTypes'
  <2>1. pend' \in Stored /\ GuardKey \notin DOMAIN pend'.kv BY <1>1, <1>2, OverNothing
  <2> QED BY <1>1, <2>1 DEF DatabaseInv, StoreTypes
<1>5. OutageInv'
  <2>1. DB!Over(pend'.kv, db.kv) = db.kv BY <1>2, <1>3, OverNothing
  <2>2. pc'["runner"] = "idle" BY <1>1 DEF DB!Users
  <2> QED BY <1>1, <1>2, <2>1, <2>2 DEF OutageInv
<1> QED BY <1>1, <1>4, <1>5 DEF DatabaseInv, DB!ClosedForGood

-----------------------------------------------------------------------------
(* Theorems *)

\* The inductive invariant, when no checkpoint carries the guard's key: its persister is
\* restore-only (guardPersister.Save).
THEOREM StoreInvariant == ASSUME GuardKey \notin UpsertKeys PROVE DB!Spec => []DatabaseInv
<1>1. DB!Init => DatabaseInv BY InitStore
<1>2. DatabaseInv /\ [DB!Next]_DB!vars => DatabaseInv'
  <2> SUFFICES ASSUME DatabaseInv, [DB!Next]_DB!vars PROVE DatabaseInv'
    OBVIOUS
  <2>1. CASE \/ \E u \in DB!Users : DB!Get(u) \/ DB!LockMu(u) \/ \E ok \in BOOLEAN : DB!Open(u, ok)
             \/ DB!Close \/ \E ok \in BOOLEAN : DB!Load(ok)
    BY <2>1, OpenStep
  <2>2. CASE DB!BeginPut \/ \E ok \in BOOLEAN : DB!WriteFails(ok) BY <2>2, FailStep
  <2>3. ASSUME NEW ok \in BOOLEAN, DB!Put(ok) PROVE DatabaseInv' BY <2>3, PutStep
  <2>4. ASSUME NEW keys \in SUBSET UpsertKeys, DB!Checkpoint(keys) PROVE DatabaseInv'
    BY <2>4, GivenStep
  <2>5. CASE DB!Write BY <2>5, WriteStep
  <2>6. CASE DB!Restart BY <2>6, ReopenStep
  <2>7. CASE UNCHANGED DB!vars
    BY <2>7 DEF DB!vars, DatabaseInv, StoreTypes, OutageInv, DB!ClosedForGood
  <2> QED BY <2>1, <2>2, <2>3, <2>4, <2>5, <2>6, <2>7 DEF DB!Next
<1> QED BY <1>1, <1>2, PTL DEF DB!Spec

\* However long the outage, whichever keys its checkpoints carry and wherever the guard's puts
\* fall: once nothing is pending, the database is what it would be had no write failed; and a
\* closed store is not opened again by a user that was waiting for it.
THEOREM OutageLosesNothing ==
  ASSUME GuardKey \notin UpsertKeys
  PROVE  DB!Spec => [](DB!TypeOK /\ DB!NothingLostInOutage /\ DB!ClosedForGood)
<1>1. DatabaseInv => DB!TypeOK
  <2> SUFFICES ASSUME DatabaseInv PROVE DB!TypeOK
    OBVIOUS
  <2>1. db.kv \in Upserts BY DEF DatabaseInv, StoreTypes, Stored
  <2>2. DOMAIN db.kv \subseteq UpsertKeys \cup {GuardKey} BY <2>1 DEF Upserts, AllKeys
  <2> QED BY <2>2 DEF DatabaseInv, StoreTypes, DB!TypeOK
<1>2. DatabaseInv => DB!NothingLostInOutage
  <2> SUFFICES ASSUME DatabaseInv, pend = DB!Nothing PROVE db = given
    BY DEF DB!NothingLostInOutage
  <2>1. pend.snap = 0 /\ pend.kv = DB!NoUpserts BY DEF DB!Nothing
  <2>2. db \in Stored /\ given \in Stored /\ db.kv \in Upserts BY DEF DatabaseInv, StoreTypes, Stored
  <2>3. DB!Over(DB!NoUpserts, db.kv) = db.kv BY <2>2, OverNothing
  <2>4. given.snap = db.snap /\ given.kv = db.kv BY <2>1, <2>3 DEF DatabaseInv, OutageInv
  <2> QED BY <2>2, <2>4 DEF Stored
<1>3. DatabaseInv => DB!ClosedForGood BY DEF DatabaseInv
<1> QED BY <1>1, <1>2, <1>3, StoreInvariant, PTL

=============================================================================
