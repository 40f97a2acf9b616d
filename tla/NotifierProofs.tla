--------------------------- MODULE NotifierProofs ---------------------------
(***************************************************************************)
(* Proofs about Notifier for any keys, modes, queue length and number of    *)
(* messages, abandoned sends, flushes and restarts, with and without a      *)
(* pusher beside the tick.                                                  *)
(*                                                                          *)
(* A message is looked up by its number in the queue, in Flush's copy and   *)
(* in the in-flight marks, and by its token in the results of abandoned     *)
(* sends.  The invariant says that a number names one message (QueueInv,    *)
(* HoldsCopy), that a token names the message it was given for (TokenOf),   *)
(* that a resolved mark lies between two streaks (MarkInv), and what the    *)
(* store and each actor still know of (StoreInv, ActorInv).  With these,    *)
(* nothing is removed from the queue that was not delivered or reported.    *)
(*                                                                          *)
(* Two layers stand on that invariant, each with what it needs of the       *)
(* settings: the PROBLEM of an open condition is kept (AlertInv), and        *)
(* nothing may still send an SMS of a PROBLEM that ended (LastInv).         *)
(***************************************************************************)
EXTENDS Notifier, TLAPS, SequenceTheorems, WellFoundedInduction

Cond == [Keys -> [open : BOOLEAN, since : Nat]]

Places == {"idle", "telegram", "instead", "enqueue", "sms", "also", "enqueueSMS", "resolve",
           "fallback", "sending", "report", "flush", "flushed", "unflushed", "checkpoint"}

Actor == [pc : Places, next : Places, msg : Message, off : BOOLEAN, tok : Nat, via : BOOLEAN,
          due : Seq(Item), blocked : SUBSET Channels, claimed : SUBSET Item, drops : Seq(Item),
          conds : Cond]

Store == [cond : Cond, queue : Seq(Item), failing : BOOLEAN, sms : SUBSET Keys,
          undelivered : SUBSET Nat, upTo : Nat, held : SUBSET Nat]

\* The state's types.
Types ==
  /\ queue \in Seq(Item) /\ Len(queue) <= MaxQueue /\ nextID \in Nat /\ nextID # 0
  /\ resolvedBefore \in [Keys -> Nat]
  /\ offline \in BOOLEAN /\ failing \in BOOLEAN /\ telegramOK \in BOOLEAN /\ loaded \in BOOLEAN
  /\ smsProblems \subseteq Keys
  /\ flights \subseteq [tok : Nat, id : Nat, n : Nat]
  /\ settlers \subseteq [tok : Nat, key : Keys, n : Nat]
  /\ cond \in Cond
  /\ hang \in [Channels -> [tok : Nat, n : Nat]] /\ hangs \in Nat
  /\ results \subseteq [tok : Nat, ok : BOOLEAN]
  /\ act \in [Actors -> Actor]
  /\ stored \in Store
  /\ msgs \in Seq(Message) /\ Len(msgs) <= MaxMsgs
  /\ sent \in [Channels -> [1..MaxMsgs -> Nat]]
  /\ undelivered \subseteq Nat

-----------------------------------------------------------------------------

\* The item is of a message that was handed to Notify, and says of it what it is.
Of(item) ==
  /\ item.n \in 1..Len(msgs) /\ msgs[item.n].key = item.key /\ msgs[item.n].kind = item.kind
  /\ item.kind = "problem" => item.key \in Keys

Sorted(q) == \A i, j \in 1..Len(q) : i < j => q[i].id < q[j].id

\* Places where an actor holds a message, ...
Holding == {"telegram", "instead", "enqueue", "sms", "also", "enqueueSMS", "resolve", "fallback", "report"}

\* ... where the message may not be anywhere else yet, ...
Early == {"telegram", "instead", "enqueue", "sms", "enqueueSMS"}

\* ... where it is, and where the actor flushes.
Late == {"also", "resolve", "fallback", "report"}

FlushPlaces == {"flush", "flushed", "unflushed"}

\* Messages: only an event has no key.
MessageInv == \A i \in 1..Len(msgs) : msgs[i].kind # "event" => msgs[i].key \in Keys

\* The numbers in the queue: one message each, in the queue's order.
QueueInv ==
  /\ Sorted(queue)
  /\ \A i \in 1..Len(queue) : queue[i].id < nextID /\ Of(queue[i])

\* Abandoned sends have tokens of their own.
HangInv ==
  /\ \A ch \in Channels :
       /\ hang[ch].tok <= hangs
       /\ hang[ch] # NoHang => hang[ch].tok # 0 /\ hang[ch].n \in 1..Len(msgs)
  /\ \A r \in results : r.tok <= hangs

\* The token, when it is one, was given to a send of message n.
TokenOf(t, n) ==
  t # 0 => /\ t <= hangs
           /\ \A ch \in Channels : hang[ch].tok = t => hang[ch].n = n
           /\ \A r \in results : r.tok = t /\ r.ok => WasSent(n)

\* An in-flight mark is on the message whose send it tracks.
FlightInv ==
  /\ \A f \in flights :
       /\ f.id < nextID /\ f.n \in 1..Len(msgs) /\ f.tok # 0 /\ TokenOf(f.tok, f.n)
       /\ \A i \in 1..Len(queue) : queue[i].id = f.id => queue[i].n = f.n
  /\ \A f, g \in flights : f.id = g.id => f = g

\* The message is not only in an actor's hands.
Safe(n) == n \in Queued \cup dropped \cup crashed \/ WasSent(n)

\* The store knows of every message up to its last save.
StoreInv ==
  /\ Sorted(stored.queue)
  /\ \A i \in 1..Len(stored.queue) : Of(stored.queue[i])
  /\ stored.upTo <= Len(msgs)
  /\ \A n \in 1..stored.upTo :
       n \in stored.held \cup Numbers(stored.queue) \cup dropped \cup crashed \/ WasSent(n)

\* A resolved mark lies between two streaks; what is stored and not yet loaded is apart.
MarkInv ==
  /\ ResolvedMarkSeparates
  /\ \A k \in Keys : resolvedBefore[k] <= nextID
  /\ marked \subseteq 1..Len(msgs)
  /\ ~loaded => \A i \in 1..Len(stored.queue) :
                  stored.queue[i].kind = "problem" => stored.queue[i].n \notin Numbers(queue) \cup marked

\* Messages that were queued in this process, or are stored and not yet loaded.
Seen == Numbers(queue) \cup marked \cup (IF loaded THEN {} ELSE Numbers(stored.queue))

\* The message never was queued.
Fresh(n) == n \notin Seen

\* What actor a, in state r, has in its hands: a message of Notify, ...
HoldsMessage(a, r) ==
  /\ r.msg.n # 0 => r.msg.n \in 1..Len(msgs) /\ msgs[r.msg.n] = r.msg /\ r.pc \in Holding
  /\ r.pc \in Early \cup {"also", "resolve"} => r.msg.n # 0
  /\ r.pc \in {"also", "resolve"} \/ r.next = "resolve" => r.msg.kind = "resolved"
  /\ r.next \in {"idle", "resolve", "fallback"}
  /\ r.pc = "report" => (r.next = "idle" <=> r.msg.n = 0)
  /\ r.pc # "report" => r.drops = <<>>
  /\ \A d \in r.claimed : Of(d) /\ d.kind = "problem"
  /\ r.pc = "checkpoint" => a = "tick" /\ loaded
  /\ r.pc = "enqueueSMS" => r.next # "idle"

\* ... Flush's copy of the queue, whose numbers mean the same messages, ...
HoldsCopy(a, r) ==
  r.pc \in FlushPlaces =>
    /\ a = "tick" /\ r.due # <<>>
    /\ \A j \in 1..Len(r.due) :
         /\ r.due[j].id < nextID /\ Of(r.due[j])
         /\ \A i \in 1..Len(queue) : queue[i].id = r.due[j].id => queue[i].n = r.due[j].n
    /\ r.pc = "flushed" => WasSent(r.due[1].n)
    /\ r.pc = "unflushed" => TokenOf(r.tok, r.due[1].n)
    /\ r.pc = "unflushed" /\ r.tok # 0 => \A f \in flights : f.id # r.due[1].id

\* ... a token of its message's send, and nothing it may lose.
HoldsSend(r) ==
  /\ r.pc \in {"instead", "enqueue", "enqueueSMS"} => TokenOf(r.tok, r.msg.n)
  /\ r.pc \in Late /\ r.msg.n # 0 => Safe(r.msg.n)
  /\ r.pc \in Early /\ r.msg.kind = "problem" => Fresh(r.msg.n)

ActorInv(a, r) == HoldsMessage(a, r) /\ HoldsCopy(a, r) /\ HoldsSend(r)

\* No two actors hold the same message.
Apart == \A a, b \in Actors : act[a].msg.n # 0 /\ act[a].msg.n = act[b].msg.n => a = b

NotifierInv ==
  /\ Types /\ MessageInv /\ QueueInv /\ HangInv /\ FlightInv /\ StoreInv /\ MarkInv
  /\ (\A a \in Actors : ActorInv(a, act[a])) /\ Apart /\ NothingLost

-----------------------------------------------------------------------------
(* The queue's operators *)

\* The greater of two numbers.
LEMMA MaxOfTwo ==
  ASSUME NEW x \in Int, NEW y \in Int
  PROVE  Max({x, y}) = IF x >= y THEN x ELSE y
<1>1. CASE x >= y BY <1>1 DEF Max
<1>2. CASE ~(x >= y) BY <1>2 DEF Max
<1> QED BY <1>1, <1>2

\* trim cuts the queue in two: the oldest k messages and the rest, which fits.
LEMMA TrimFacts ==
  ASSUME NEW q \in Seq(Item)
  PROVE  \E k \in 0..Len(q) :
           /\ Overflow(q) \in Seq(Item) /\ Len(Overflow(q)) = k
           /\ \A i \in 1..k : Overflow(q)[i] = q[i]
           /\ Trimmed(q) \in Seq(Item) /\ Len(Trimmed(q)) = Len(q) - k /\ Len(Trimmed(q)) <= MaxQueue
           /\ \A i \in 1..(Len(q) - k) : Trimmed(q)[i] = q[k + i]
<1>1. Len(q) \in Nat /\ MaxQueue \in Nat BY NotifierAssumption
<1>2. CASE Len(q) <= MaxQueue
  <2>1. Trimmed(q) = SubSeq(q, 1, Len(q)) BY <1>1, <1>2, MaxOfTwo DEF Trimmed
  <2>2. Overflow(q) = <<>> BY <1>1, <1>2 DEF Overflow
  <2>3. Trimmed(q) = q BY <1>1, <2>1
  <2> WITNESS 0 \in 0..Len(q)
  <2> QED BY <1>1, <1>2, <2>2, <2>3
<1>3. CASE Len(q) > MaxQueue
  <2>1. PICK k : k = Len(q) - MaxQueue OBVIOUS
  <2>2. k \in 1..Len(q) /\ k \in 0..Len(q) /\ Len(q) - k = MaxQueue BY <1>1, <1>3, <2>1
  <2>3. Max({1, Len(q) - MaxQueue + 1}) = k + 1 BY <1>1, <1>3, <2>1, MaxOfTwo
  <2>4. Trimmed(q) = SubSeq(q, k + 1, Len(q)) /\ Overflow(q) = SubSeq(q, 1, k)
    BY <2>1, <2>3 DEF Trimmed, Overflow
  <2>5. /\ SubSeq(q, 1, k) \in Seq(Item) /\ Len(SubSeq(q, 1, k)) = k
        /\ \A i \in 1..k : SubSeq(q, 1, k)[i] = q[i]
    BY <1>1, <2>2
  <2>6. /\ SubSeq(q, k + 1, Len(q)) \in Seq(Item) /\ Len(SubSeq(q, k + 1, Len(q))) = Len(q) - k
        /\ \A i \in 1..(Len(q) - k) : SubSeq(q, k + 1, Len(q))[i] = q[k + i]
    BY <1>1, <2>2
  <2> QED BY <1>1, <2>2, <2>4, <2>5, <2>6
<1> QED BY <1>1, <1>2, <1>3

\* remove takes one message out, or none.
LEMMA RemoveFacts ==
  ASSUME NEW q \in Seq(Item), NEW id
  PROVE  \/ RemoveID(q, id) = q /\ \A i \in 1..Len(q) : q[i].id # id
         \/ \E k \in 1..Len(q) :
              /\ q[k].id = id
              /\ RemoveID(q, id) \in Seq(Item) /\ Len(RemoveID(q, id)) = Len(q) - 1
              /\ \A i \in 1..(Len(q) - 1) : RemoveID(q, id)[i] = IF i < k THEN q[i] ELSE q[i + 1]
<1>1. CASE id \notin IDs(q) BY <1>1 DEF RemoveID, IDs
<1>2. CASE id \in IDs(q)
  <2>1. PICK k : k = CHOOSE i \in 1..Len(q) : q[i].id = id OBVIOUS
  <2>2. k \in 1..Len(q) /\ q[k].id = id BY <1>2, <2>1 DEF IDs
  <2>3. RemoveID(q, id) = SubSeq(q, 1, k - 1) \o SubSeq(q, k + 1, Len(q))
    BY <1>2, <2>1 DEF RemoveID, RemoveAt
  <2>4. Len(q) \in Nat OBVIOUS
  <2>5. PICK b : b = SubSeq(q, 1, k - 1) OBVIOUS
  <2>6. PICK e : e = SubSeq(q, k + 1, Len(q)) OBVIOUS
  <2>7. b \in Seq(Item) /\ Len(b) = k - 1 /\ \A i \in 1..(k - 1) : b[i] = q[i] BY <2>2, <2>4, <2>5
  <2>8. e \in Seq(Item) /\ Len(e) = Len(q) - k /\ \A i \in 1..(Len(q) - k) : e[i] = q[k + i]
    BY <2>2, <2>4, <2>6
  <2>9. /\ b \o e \in Seq(Item) /\ Len(b \o e) = Len(b) + Len(e)
        /\ \A i \in 1..(Len(b) + Len(e)) : (b \o e)[i] = IF i <= Len(b) THEN b[i] ELSE e[i - Len(b)]
    BY <2>7, <2>8, ConcatProperties
  <2>10. RemoveID(q, id) = b \o e BY <2>3, <2>5, <2>6
  <2>11. RemoveID(q, id) \in Seq(Item) /\ Len(RemoveID(q, id)) = Len(q) - 1
    <3>1. (k - 1) + (Len(q) - k) = Len(q) - 1 BY <2>2, <2>4
    <3> QED BY <2>7, <2>8, <2>9, <2>10, <3>1
  <2>12. ASSUME NEW i \in 1..(Len(q) - 1)
         PROVE  RemoveID(q, id)[i] = IF i < k THEN q[i] ELSE q[i + 1]
    <3>1. i \in 1..(Len(b) + Len(e)) BY <2>2, <2>4, <2>7, <2>8
    <3>2. RemoveID(q, id)[i] = IF i <= Len(b) THEN b[i] ELSE e[i - Len(b)] BY <2>9, <2>10, <3>1
    <3>3. CASE i < k
      <4>1. i <= Len(b) /\ i \in 1..(k - 1) BY <2>2, <2>4, <2>7, <3>3
      <4> QED BY <2>7, <3>2, <3>3, <4>1
    <3>4. CASE ~(i < k)
      <4>1. ~(i <= Len(b)) /\ i - Len(b) \in 1..(Len(q) - k) /\ k + (i - Len(b)) = i + 1
        BY <2>2, <2>4, <2>7, <3>4
      <4> QED BY <2>8, <3>2, <3>4, <4>1
    <3> QED BY <3>3, <3>4
  <2> QED BY <2>2, <2>11, <2>12
<1> QED BY <1>1, <1>2

\* What is left of q when messages are taken out of it.
PartOf(p, q) ==
  /\ p \in Seq(Item) /\ Len(p) <= Len(q)
  /\ Sorted(q) => Sorted(p)
  /\ \A i \in 1..Len(p) : \E j \in 1..Len(q) : p[i] = q[j]

\* trim leaves a part of the queue, and what it leaves out it returns.
LEMMA TrimParts ==
  ASSUME NEW q \in Seq(Item)
  PROVE  /\ PartOf(Trimmed(q), q) /\ PartOf(Overflow(q), q) /\ Len(Trimmed(q)) <= MaxQueue
         /\ \A j \in 1..Len(q) : \/ \E i \in 1..Len(Trimmed(q)) : Trimmed(q)[i] = q[j]
                                 \/ \E i \in 1..Len(Overflow(q)) : Overflow(q)[i] = q[j]
<1>1. PICK k \in 0..Len(q) :
           /\ Overflow(q) \in Seq(Item) /\ Len(Overflow(q)) = k
           /\ \A i \in 1..k : Overflow(q)[i] = q[i]
           /\ Trimmed(q) \in Seq(Item) /\ Len(Trimmed(q)) = Len(q) - k /\ Len(Trimmed(q)) <= MaxQueue
           /\ \A i \in 1..(Len(q) - k) : Trimmed(q)[i] = q[k + i]
  BY TrimFacts
<1>2. Len(q) \in Nat OBVIOUS
<1>4. \A i \in 1..(Len(q) - k) : k + i \in 1..Len(q) BY <1>2
<1>5. \A i \in 1..k : i \in 1..Len(q) BY <1>2
<1>3. Sorted(q) => Sorted(Trimmed(q)) /\ Sorted(Overflow(q))
  <2> SUFFICES ASSUME Sorted(q) PROVE Sorted(Trimmed(q)) /\ Sorted(Overflow(q))
    OBVIOUS
  <2>1. ASSUME NEW i \in 1..(Len(q) - k), NEW j \in 1..(Len(q) - k), i < j
        PROVE  q[k + i].id < q[k + j].id
    <3>1. k + i < k + j /\ k + i \in 1..Len(q) /\ k + j \in 1..Len(q) BY <1>2, <1>4, <2>1
    <3> QED BY <3>1 DEF Sorted
  <2>2. Sorted(Trimmed(q))
    <3>1. ASSUME NEW i \in 1..Len(Trimmed(q)), NEW j \in 1..Len(Trimmed(q)), i < j
          PROVE  Trimmed(q)[i].id < Trimmed(q)[j].id
      <4>1. i \in 1..(Len(q) - k) /\ j \in 1..(Len(q) - k) BY <1>1, <3>1
      <4>2. Trimmed(q)[i] = q[k + i] /\ Trimmed(q)[j] = q[k + j] BY <1>1, <4>1
      <4> QED BY <2>1, <3>1, <4>1, <4>2
    <3> QED BY <3>1 DEF Sorted
  <2>3. Sorted(Overflow(q)) BY <1>1, <1>5 DEF Sorted
  <2> QED BY <2>2, <2>3
<1>6. ASSUME NEW j \in 1..Len(q)
      PROVE  \/ \E i \in 1..Len(Trimmed(q)) : Trimmed(q)[i] = q[j]
             \/ \E i \in 1..Len(Overflow(q)) : Overflow(q)[i] = q[j]
  <2>1. CASE j <= k BY <1>1, <1>2, <2>1
  <2>2. CASE j > k
    <3>1. j - k \in 1..(Len(q) - k) /\ k + (j - k) = j BY <1>2, <2>2
    <3> QED BY <1>1, <3>1
  <2> QED BY <1>2, <2>1, <2>2
<1> QED BY <1>1, <1>2, <1>3, <1>4, <1>5, <1>6 DEF PartOf

\* remove leaves a part of the queue, and only messages of that number out.
LEMMA RemoveParts ==
  ASSUME NEW q \in Seq(Item), NEW id
  PROVE  /\ PartOf(RemoveID(q, id), q)
         /\ \A j \in 1..Len(q) : q[j].id = id \/ \E i \in 1..Len(RemoveID(q, id)) : RemoveID(q, id)[i] = q[j]
<1>1. CASE RemoveID(q, id) = q BY <1>1 DEF PartOf
<1>2. ASSUME NEW k \in 1..Len(q), q[k].id = id,
             RemoveID(q, id) \in Seq(Item), Len(RemoveID(q, id)) = Len(q) - 1,
             \A i \in 1..(Len(q) - 1) : RemoveID(q, id)[i] = IF i < k THEN q[i] ELSE q[i + 1]
      PROVE  /\ PartOf(RemoveID(q, id), q)
             /\ \A j \in 1..Len(q) : q[j].id = id \/ \E i \in 1..Len(RemoveID(q, id)) : RemoveID(q, id)[i] = q[j]
  <2>1. Len(q) \in Nat /\ Len(q) - 1 \in Nat BY <1>2
  <2>2. PICK p : p = RemoveID(q, id) OBVIOUS
  <2>3. /\ p \in Seq(Item) /\ Len(p) = Len(q) - 1
        /\ \A i \in 1..Len(p) : p[i] = IF i < k THEN q[i] ELSE q[i + 1]
    BY <1>2, <2>2
  <2>4. \A i \in 1..Len(p) : i \in 1..Len(q) /\ i + 1 \in 1..Len(q) BY <2>1, <2>3
  <2>5. Sorted(q) => Sorted(p)
    <3> SUFFICES ASSUME Sorted(q), NEW i \in 1..Len(p), NEW j \in 1..Len(p), i < j PROVE p[i].id < p[j].id
      BY DEF Sorted
    <3>1. i + 1 \in 1..Len(q) /\ j + 1 \in 1..Len(q) /\ i \in 1..Len(q) /\ j \in 1..Len(q) BY <2>4
    <3>2. CASE j < k BY <2>1, <2>3, <3>1, <3>2 DEF Sorted
    <3>3. CASE ~(j < k) /\ i < k BY <2>1, <2>3, <3>1, <3>3 DEF Sorted
    <3>4. CASE ~(i < k) BY <2>1, <2>3, <3>1, <3>4 DEF Sorted
    <3> QED BY <3>2, <3>3, <3>4
  <2>6. ASSUME NEW j \in 1..Len(q), j # k
        PROVE  \E i \in 1..Len(p) : p[i] = q[j]
    <3>1. CASE j < k
      <4>1. j \in 1..Len(p) BY <2>1, <2>3, <3>1
      <4> QED BY <2>3, <3>1, <4>1
    <3>2. CASE j > k
      <4>1. j - 1 \in 1..Len(p) /\ ~(j - 1 < k) /\ (j - 1) + 1 = j BY <2>1, <2>3, <3>2
      <4> QED BY <2>3, <4>1
    <3> QED BY <2>1, <2>6, <3>1, <3>2
  <2>7. PartOf(p, q) BY <2>1, <2>3, <2>4, <2>5 DEF PartOf
  <2> QED BY <1>2, <2>2, <2>6, <2>7
<1> QED BY <1>1, <1>2, RemoveFacts

-----------------------------------------------------------------------------
(* What the steps of an actor do to it *)

\* Actor a is in state r now, and the others are where they were.
Moved(a, r) == act' \in [Actors -> Actor] /\ act'[a] = r /\ \A b \in Actors : b # a => act'[b] = act[b]

\* A step of one actor.
LEMMA StepMoves ==
  ASSUME act \in [Actors -> Actor], NEW a \in Actors, NEW r \in Actor, Step(a, r)
  PROVE  Moved(a, r)
  BY DEF Step, Moved

\* An actor between calls holds nothing.
LEMMA IdleFacts ==
  /\ Idle \in Actor /\ Idle.pc = "idle" /\ Idle.next = "idle" /\ Idle.msg = NoMessage /\ NoMessage.n = 0
  /\ NoMessage.kind = "event" /\ Idle.tok = 0 /\ Idle.due = <<>> /\ Idle.claimed = {} /\ Idle.drops = <<>>
  /\ NoMessage \in Message
<1>1. NoMessage \in Message /\ NoMessage.n = 0 /\ NoMessage.kind = "event" BY DEF NoMessage, Message
<1>2. [k \in Keys |-> Untracked] \in Cond BY DEF Cond, Untracked
<1>3. <<>> \in Seq(Item) OBVIOUS
<1> QED BY <1>1, <1>2, <1>3 DEF Idle, Actor, Places

\* What the two states of an actor have in common.
SameHands(r, s) == r.msg = s.msg /\ r.due = s.due /\ r.claimed = s.claimed

-----------------------------------------------------------------------------
(* What a step leaves true of the actors it does not move *)

\* No message is taken back.
GrowsMsgs == Len(msgs) <= Len(msgs') /\ \A i \in 1..Len(msgs) : msgs'[i] = msgs[i]

\* What was delivered stays so, and what an actor need not hold any more.
KeepsSent == \A n \in 1..MaxMsgs : WasSent(n) => WasSent(n)'

KeepsSafe == \A n \in 1..MaxMsgs : Safe(n) => Safe(n)'

\* A token goes on meaning the same send.
KeepsTokens == \A t \in Nat, n \in 1..MaxMsgs : TokenOf(t, n) => TokenOf(t, n)'

\* A number that was given goes on meaning the same message.
KeepsNumbers ==
  /\ nextID <= nextID'
  /\ \A i \in 1..Len(queue') : queue'[i].id >= nextID \/ \E j \in 1..Len(queue) : queue'[i] = queue[j]
  /\ \A f \in flights' : f \in flights \/ f.id >= nextID

\* What an item says of its message stays true.
LEMMA OfStays ==
  ASSUME GrowsMsgs, msgs \in Seq(Message), msgs' \in Seq(Message), NEW item, Of(item)
  PROVE  Of(item)'
<1>1. item.n \in 1..Len(msgs) /\ Len(msgs) \in Nat /\ Len(msgs') \in Nat /\ Len(msgs) <= Len(msgs')
  BY DEF Of, GrowsMsgs
<1>2. item.n \in 1..Len(msgs') BY <1>1
<1> QED BY <1>1, <1>2 DEF Of, GrowsMsgs

\* An actor that the step does not move.
LEMMA StillActor ==
  ASSUME Types, Types', NEW b \in Actors, act'[b] = act[b], ActorInv(b, act[b]),
         GrowsMsgs, KeepsSent, KeepsSafe, KeepsTokens, b = "tick" => KeepsNumbers, loaded => loaded',
         act[b].pc \in Early /\ act[b].msg.kind = "problem" => Fresh(act[b].msg.n)'
  PROVE  ActorInv(b, act[b])'
<1>1. PICK r : r = act[b] OBVIOUS
<1>2. /\ act[b] = r /\ act'[b] = r /\ r \in Actor BY <1>1 DEF Types
<1>3. HoldsMessage(b, r) /\ HoldsCopy(b, r) /\ HoldsSend(r) BY <1>1 DEF ActorInv
<1>4. /\ msgs \in Seq(Message) /\ msgs' \in Seq(Message) /\ Len(msgs) \in Nat /\ Len(msgs') \in Nat
      /\ Len(msgs) <= MaxMsgs /\ MaxMsgs \in Nat /\ nextID \in Nat /\ nextID' \in Nat
      /\ queue \in Seq(Item) /\ queue' \in Seq(Item)
  BY NotifierAssumption DEF Types
<1>5. r.msg.n # 0 => /\ r.msg.n \in 1..Len(msgs) /\ r.msg.n \in 1..MaxMsgs /\ r.msg.n \in 1..Len(msgs')
                     /\ msgs'[r.msg.n] = r.msg /\ r.pc \in Holding
  BY <1>3, <1>4 DEF HoldsMessage, GrowsMsgs
<1>6. \A d \in r.claimed : Of(d)' /\ d.kind = "problem" BY <1>3, <1>4, OfStays DEF HoldsMessage
<1>7. HoldsMessage(b, act[b])'
  <2>1. /\ r.pc \in Early \cup {"also", "resolve"} => r.msg.n # 0
        /\ r.pc \in {"also", "resolve"} \/ r.next = "resolve" => r.msg.kind = "resolved"
        /\ r.next \in {"idle", "resolve", "fallback"}
        /\ r.pc = "report" => (r.next = "idle" <=> r.msg.n = 0)
        /\ r.pc # "report" => r.drops = <<>>
        /\ r.pc = "checkpoint" => b = "tick" /\ loaded
        /\ r.pc = "enqueueSMS" => r.next # "idle"
    BY <1>3 DEF HoldsMessage
  <2> QED BY <1>2, <1>5, <1>6, <2>1 DEF HoldsMessage
<1>8. HoldsSend(act[b])'
  <2>1. r.msg.n # 0 /\ TokenOf(r.tok, r.msg.n) => TokenOf(r.tok, r.msg.n)'
    BY <1>2, <1>5 DEF KeepsTokens, Actor
  <2>2. r.msg.n # 0 /\ Safe(r.msg.n) => Safe(r.msg.n)' BY <1>5 DEF KeepsSafe
  <2>3. r.pc \in Early => r.msg.n # 0 BY <1>3 DEF HoldsMessage
  <2>4. r.pc \in Early /\ r.msg.kind = "problem" => Fresh(r.msg.n)' BY <1>2
  <2>5. r.pc \in {"instead", "enqueue", "enqueueSMS"} => TokenOf(r.tok, r.msg.n)'
    BY <1>3, <2>1, <2>3 DEF HoldsSend, Early
  <2>6. r.pc \in Late /\ r.msg.n # 0 => Safe(r.msg.n)' BY <1>3, <2>2 DEF HoldsSend
  <2> QED BY <1>2, <2>4, <2>5, <2>6 DEF HoldsSend
<1>9. HoldsCopy(b, act[b])'
  <2> SUFFICES ASSUME r.pc \in FlushPlaces
               PROVE  /\ b = "tick" /\ r.due # <<>>
                      /\ \A j \in 1..Len(r.due) :
                           /\ r.due[j].id < nextID' /\ Of(r.due[j])'
                           /\ \A i \in 1..Len(queue') : queue'[i].id = r.due[j].id => queue'[i].n = r.due[j].n
                      /\ r.pc = "flushed" => WasSent(r.due[1].n)'
                      /\ r.pc = "unflushed" => TokenOf(r.tok, r.due[1].n)'
                      /\ r.pc = "unflushed" /\ r.tok # 0 => \A f \in flights' : f.id # r.due[1].id
    BY <1>2 DEF HoldsCopy
  <2>1. /\ b = "tick" /\ r.due # <<>> /\ r.due \in Seq(Item)
        /\ \A j \in 1..Len(r.due) :
             /\ r.due[j].id < nextID /\ Of(r.due[j])
             /\ \A i \in 1..Len(queue) : queue[i].id = r.due[j].id => queue[i].n = r.due[j].n
        /\ r.pc = "flushed" => WasSent(r.due[1].n)
        /\ r.pc = "unflushed" => TokenOf(r.tok, r.due[1].n)
        /\ r.pc = "unflushed" /\ r.tok # 0 => \A f \in flights : f.id # r.due[1].id
    BY <1>2, <1>3 DEF HoldsCopy, Actor
  <2>2. 1 \in 1..Len(r.due) BY <2>1
  <2>3. ASSUME NEW j \in 1..Len(r.due)
        PROVE  /\ r.due[j].id < nextID' /\ Of(r.due[j])' /\ r.due[j].id \in Nat
               /\ r.due[j].n \in 1..MaxMsgs
               /\ \A i \in 1..Len(queue') : queue'[i].id = r.due[j].id => queue'[i].n = r.due[j].n
    <3>1. r.due[j] \in Item BY <2>1
    <3>2. r.due[j].id \in Nat BY <3>1 DEF Item
    <3>3. Of(r.due[j])' /\ r.due[j].n \in 1..MaxMsgs
      <4>1. Of(r.due[j]) BY <2>1
      <4>2. r.due[j].n \in 1..Len(msgs) BY <4>1 DEF Of
      <4> QED BY <1>4, <4>1, <4>2, OfStays
    <3>4. r.due[j].id < nextID /\ nextID <= nextID' BY <2>1 DEF KeepsNumbers
    <3>5. ASSUME NEW i \in 1..Len(queue'), queue'[i].id = r.due[j].id
          PROVE  queue'[i].n = r.due[j].n
      <4>1. ~(queue'[i].id >= nextID) BY <1>4, <3>2, <3>4, <3>5
      <4>2. PICK k \in 1..Len(queue) : queue'[i] = queue[k] BY <2>1, <4>1 DEF KeepsNumbers
      <4> QED BY <2>1, <3>5, <4>2
    <3> QED BY <1>4, <3>2, <3>3, <3>4, <3>5
  <2>4. r.pc = "flushed" => WasSent(r.due[1].n)' BY <2>1, <2>2, <2>3 DEF KeepsSent
  <2>5. r.pc = "unflushed" => TokenOf(r.tok, r.due[1].n)' BY <1>2, <2>1, <2>2, <2>3 DEF KeepsTokens, Actor
  <2>6. r.pc = "unflushed" /\ r.tok # 0 => \A f \in flights' : f.id # r.due[1].id
    <3>1. r.due[1].id < nextID /\ r.due[1].id \in Nat BY <2>1, <2>2, <2>3
    <3>2. \A f \in flights' : f \in flights \/ f.id >= nextID BY <2>1 DEF KeepsNumbers
    <3>3. \A f \in flights' : f.id >= nextID => f.id # r.due[1].id BY <1>4, <3>1
    <3> QED BY <2>1, <3>2, <3>3
  <2> QED BY <2>1, <2>3, <2>4, <2>5, <2>6
<1> QED BY <1>7, <1>8, <1>9 DEF ActorInv

\* A message that is queued or being dropped, and safe after the step, is safe for good.
LEMMA SafeStays ==
  ASSUME Types, Types', stored' = stored, loaded' = loaded, dropped \subseteq dropped',
         crashed \subseteq crashed', KeepsSent,
         NEW a \in Actors, NEW r \in Actor, Moved(a, r),
         \A n \in Numbers(queue) : Safe(n)', \A n \in Numbers(act[a].drops) : Safe(n)'
  PROVE  KeepsSafe
<1> SUFFICES ASSUME NEW n \in 1..MaxMsgs, Safe(n) PROVE Safe(n)'
  BY DEF KeepsSafe
<1>1. CASE n \in Numbers(queue) BY <1>1
<1>2. CASE n \in (IF loaded THEN {} ELSE Numbers(stored.queue)) BY <1>2 DEF Safe, Queued, Numbers
<1>3. CASE n \in Dropping
  <2>1. PICK b \in Actors : n \in Numbers(act[b].drops) BY <1>3 DEF Dropping
  <2>2. CASE b = a BY <2>1, <2>2
  <2>3. CASE b # a
    <3>1. act'[b] = act[b] BY <2>3 DEF Moved
    <3>2. n \in Numbers(act'[b].drops) BY <2>1, <3>1
    <3>3. n \in Dropping' BY <3>2 DEF Dropping, Numbers
    <3> QED BY <3>3 DEF Safe, Queued
  <2> QED BY <2>2, <2>3
<1>4. CASE n \in dropped \cup crashed BY <1>4 DEF Safe
<1>5. CASE WasSent(n) BY <1>5 DEF KeepsSent, Safe
<1> QED BY <1>1, <1>2, <1>3, <1>4, <1>5 DEF Safe, Queued

\* A step of one actor keeps the invariant: what it must show is about its own message, the
\* queue, the marks and the store.
LEMMA AnyStep ==
  ASSUME NotifierInv, Types', GrowsMsgs, MessageInv', QueueInv', HangInv', FlightInv', MarkInv',
         stored' = stored \/ StoreInv', loaded => loaded', dropped \subseteq dropped', crashed \subseteq crashed',
         KeepsSent, KeepsTokens, KeepsSafe,
         NEW a \in Actors, NEW r \in Actor, Moved(a, r), ActorInv(a, r)', a # "tick" => KeepsNumbers,
         \A n \in 1..Len(msgs) : n = act[a].msg.n => n = r.msg.n \/ Safe(n)',
         r.msg.n # 0 => r.msg.n = act[a].msg.n \/ r.msg.n > Len(msgs),
         \A n \in 1..Len(msgs') : n > Len(msgs) => r.msg.n = n,
         Seen' \subseteq Seen \cup {act[a].msg.n}
  PROVE  NotifierInv'
<1>1. /\ Types /\ StoreInv /\ MarkInv /\ (\A b \in Actors : ActorInv(b, act[b])) /\ Apart /\ NothingLost
  BY DEF NotifierInv
<1>2. /\ msgs \in Seq(Message) /\ msgs' \in Seq(Message) /\ Len(msgs) \in Nat /\ Len(msgs') \in Nat
      /\ Len(msgs) <= MaxMsgs /\ Len(msgs') <= MaxMsgs /\ MaxMsgs \in Nat
      /\ DOMAIN msgs = 1..Len(msgs) /\ DOMAIN msgs' = 1..Len(msgs') /\ Len(msgs) <= Len(msgs')
  BY <1>1, NotifierAssumption DEF Types, GrowsMsgs
<1>3. act'[a] = r /\ \A b \in Actors : b # a => act'[b] = act[b] BY DEF Moved
<1>4. \A b \in Actors : act[b].msg.n # 0 => act[b].msg.n \in 1..Len(msgs) /\ act[b].pc \in Holding
  BY <1>1 DEF ActorInv, HoldsMessage
<1>5. r.msg.n # 0 => r.pc \in Holding
  <2>1. HoldsMessage(a, r)' BY DEF ActorInv
  <2> QED BY <2>1 DEF HoldsMessage
<1>6. ASSUME NEW b \in Actors PROVE ActorInv(b, act[b])'
  <2>1. CASE b = a
    <3>1. HoldsMessage(a, r)' /\ HoldsCopy(a, r)' /\ HoldsSend(r)' BY DEF ActorInv
    <3>2. HoldsMessage(b, act[b])' BY <1>3, <2>1, <3>1 DEF HoldsMessage
    <3>3. HoldsCopy(b, act[b])' BY <1>3, <2>1, <3>1 DEF HoldsCopy
    <3>4. HoldsSend(act[b])' BY <1>3, <2>1, <3>1 DEF HoldsSend
    <3> QED BY <3>2, <3>3, <3>4 DEF ActorInv
  <2>2. CASE b # a
    <3>1. act'[b] = act[b] /\ ActorInv(b, act[b]) BY <1>1, <1>3, <2>2
    <3>2. b = "tick" => KeepsNumbers BY <2>2
    <3>3. act[b].pc \in Early /\ act[b].msg.kind = "problem" => Fresh(act[b].msg.n)'
      <4> SUFFICES ASSUME act[b].pc \in Early, act[b].msg.kind = "problem" PROVE Fresh(act[b].msg.n)'
        OBVIOUS
      <4>1. PICK m : m = act[b].msg.n OBVIOUS
      <4>2. Fresh(m) /\ m # 0 BY <3>1, <4>1 DEF ActorInv, HoldsSend, HoldsMessage
      <4>3. m # act[a].msg.n BY <1>1, <2>2, <4>1, <4>2 DEF Apart
      <4>4. m \notin Seen' BY <4>2, <4>3 DEF Fresh
      <4>5. act'[b].msg.n = m BY <3>1, <4>1
      <4> QED BY <4>4, <4>5 DEF Fresh
    <3> QED BY <1>1, <3>1, <3>2, <3>3, StillActor
  <2> QED BY <2>1, <2>2
<1>7. Apart'
  <2> SUFFICES ASSUME NEW b \in Actors, NEW c \in Actors, act'[b].msg.n # 0, act'[b].msg.n = act'[c].msg.n
               PROVE  b = c
    BY DEF Apart
  <2>1. CASE b # a /\ c # a BY <1>1, <1>3, <2>1 DEF Apart
  <2>2. ASSUME NEW e \in Actors, e # a, act[e].msg.n = r.msg.n, r.msg.n # 0 PROVE FALSE
    <3>1. act[e].msg.n \in 1..Len(msgs) BY <1>4, <2>2
    <3>2. ~(r.msg.n > Len(msgs)) BY <1>2, <2>2, <3>1
    <3> QED BY <1>1, <2>2, <3>2 DEF Apart
  <2>3. CASE b = a /\ c # a BY <1>3, <2>2, <2>3
  <2>4. CASE b # a /\ c = a BY <1>3, <2>2, <2>4
  <2> QED BY <2>1, <2>3, <2>4
<1>8. StoreInv'
  <2> SUFFICES ASSUME stored' = stored PROVE StoreInv'
    OBVIOUS
  <2>1. Sorted(stored'.queue) BY <1>1 DEF StoreInv
  <2>2. \A i \in 1..Len(stored.queue) : Of(stored.queue[i])'
    <3> SUFFICES ASSUME NEW i \in 1..Len(stored.queue) PROVE Of(stored.queue[i])'
      OBVIOUS
    <3>1. PICK item : item = stored.queue[i] OBVIOUS
    <3>2. Of(item) BY <1>1, <3>1 DEF StoreInv
    <3>3. Of(item)' BY <1>2, <3>2, OfStays
    <3> QED BY <3>1, <3>3
  <2>3. stored.upTo <= Len(msgs) /\ stored.upTo \in Nat BY <1>1 DEF StoreInv, Types, Store
  <2>4. ASSUME NEW n \in 1..stored.upTo
        PROVE  (n \in stored.held \cup Numbers(stored.queue) \cup dropped' \cup crashed') \/ WasSent(n)'
    <3>1. n \in 1..MaxMsgs BY <1>2, <2>3
    <3>2. (n \in stored.held \cup Numbers(stored.queue) \cup dropped \cup crashed) \/ WasSent(n)
      BY <1>1 DEF StoreInv
    <3> QED BY <3>1, <3>2 DEF KeepsSent
  <2>5. stored'.upTo <= Len(msgs') BY <1>2, <2>3
  <2> QED BY <2>1, <2>2, <2>4, <2>5 DEF StoreInv, Sorted, Numbers
<1>9. NothingLost'
  <2> SUFFICES ASSUME NEW n \in 1..Len(msgs') PROVE n \in InHand' \/ Safe(n)'
    BY <1>2 DEF NothingLost, Safe
  <2>0. ASSUME NEW b \in Actors, act'[b].msg.n = n, act'[b].pc \in Holding PROVE n \in InHand'
    <3>1. n # 0 /\ act'[b].pc # "idle" BY <1>2, <2>0 DEF Holding
    <3> QED BY <2>0, <3>1 DEF InHand, At
  <2>1. CASE n > Len(msgs)
    <3>1. r.msg.n = n /\ r.msg.n # 0 BY <1>2, <2>1
    <3> QED BY <1>3, <1>5, <2>0, <3>1
  <2>2. CASE n <= Len(msgs)
    <3>1. n \in 1..Len(msgs) /\ n \in 1..MaxMsgs BY <1>2, <2>2
    <3>2. n \in InHand \/ Safe(n) BY <1>1, <1>2, <3>1 DEF NothingLost, Safe
    <3>3. CASE Safe(n) BY <3>1, <3>3 DEF KeepsSafe
    <3>4. CASE n \in InHand
      <4>1. PICK b \in Actors : act[b].msg.n = n BY <3>4 DEF InHand
      <4>2. act[b].pc \in Holding BY <1>4, <3>1, <4>1
      <4>3. CASE b # a BY <1>3, <2>0, <4>1, <4>2, <4>3
      <4>4. CASE b = a
        <5>1. CASE Safe(n)' BY <5>1
        <5>2. CASE n = r.msg.n
          <6>1. r.msg.n # 0 BY <1>2, <5>2
          <6> QED BY <1>3, <1>5, <2>0, <5>2, <6>1
        <5> QED BY <3>1, <4>1, <4>4, <5>1, <5>2
      <4> QED BY <4>3, <4>4
    <3> QED BY <3>2, <3>3, <3>4
  <2> QED BY <1>2, <2>1, <2>2
<1> QED BY <1>6, <1>7, <1>8, <1>9 DEF NotifierInv

\* A step in which nothing is saved or loaded.
LEMMA StepKeeps ==
  ASSUME NotifierInv, Types', GrowsMsgs, MessageInv', QueueInv', HangInv', FlightInv', MarkInv',
         stored' = stored, loaded' = loaded, dropped \subseteq dropped', crashed \subseteq crashed',
         KeepsSent, KeepsTokens, KeepsSafe,
         NEW a \in Actors, NEW r \in Actor, Moved(a, r), ActorInv(a, r)', a # "tick" => KeepsNumbers,
         \A n \in 1..Len(msgs) : n = act[a].msg.n => n = r.msg.n \/ Safe(n)',
         r.msg.n # 0 => r.msg.n = act[a].msg.n \/ r.msg.n > Len(msgs),
         \A n \in 1..Len(msgs') : n > Len(msgs) => r.msg.n = n,
         Numbers(queue') \cup marked' \subseteq Numbers(queue) \cup marked \cup {act[a].msg.n}
  PROVE  NotifierInv'
<1>1. Seen' \subseteq Seen \cup {act[a].msg.n}
  <2>1. Numbers(queue)' = Numbers(queue') /\ Numbers(stored.queue)' = Numbers(stored.queue) BY DEF Numbers
  <2> QED BY <2>1 DEF Seen
<1> QED BY <1>1, AnyStep

-----------------------------------------------------------------------------
(* What a step that leaves the channels, the queue or the actors alone keeps *)

\* Without a send, tokens and deliveries stay what they are.
LEMMA NoSend ==
  ASSUME Types, Types', HangInv, GrowsMsgs, UNCHANGED <<hang, hangs, results, sent>>
  PROVE  HangInv' /\ KeepsTokens /\ KeepsSent
<1>1. KeepsSent BY DEF KeepsSent, WasSent
<1>2. KeepsTokens BY DEF KeepsTokens, TokenOf, WasSent
<1>3. Len(msgs) \in Nat /\ Len(msgs') \in Nat /\ Len(msgs) <= Len(msgs') BY DEF Types, GrowsMsgs
<1>4. HangInv' BY <1>3 DEF HangInv
<1> QED BY <1>1, <1>2, <1>4

\* A delivery counts once, for its message and channel.
LEMMA DeliveryFacts ==
  ASSUME NEW ch \in Channels, NEW n \in 1..MaxMsgs, MaxMsgs \in Nat,
         sent \in [Channels -> [1..MaxMsgs -> Nat]], sent' = [sent EXCEPT ![ch][n] = @ + 1]
  PROVE  /\ sent' \in [Channels -> [1..MaxMsgs -> Nat]]
         /\ \A c \in Channels, m \in 1..MaxMsgs : sent'[c][m] >= sent[c][m]
         /\ sent'[ch][n] = sent[ch][n] + 1
  OBVIOUS

\* A send of message n: a success is a delivery, an abandoned one gets a token of its own.
LEMMA SendFacts ==
  ASSUME Types, HangInv, NEW ch \in Channels, NEW n \in 1..Len(msgs), NEW o, Send(ch, n, o), msgs' = msgs
  PROVE  /\ sent' \in [Channels -> [1..MaxMsgs -> Nat]]
         /\ hang' \in [Channels -> [tok : Nat, n : Nat]] /\ hangs' \in Nat /\ results' = results
         /\ HangInv' /\ KeepsTokens /\ KeepsSent
         /\ o = "ok" => WasSent(n)'
         /\ \A t : t = Token /\ o = "abandoned" => t \in Nat /\ t # 0 /\ TokenOf(t, n)'
<1>1. /\ Len(msgs) \in Nat /\ MaxMsgs \in Nat /\ n \in 1..MaxMsgs /\ hangs \in Nat
      /\ sent \in [Channels -> [1..MaxMsgs -> Nat]] /\ hang \in [Channels -> [tok : Nat, n : Nat]]
      /\ results \subseteq [tok : Nat, ok : BOOLEAN] /\ n \in Nat
  BY NotifierAssumption DEF Types
<1>2. results' = results BY DEF Send
<1>3. /\ sent' \in [Channels -> [1..MaxMsgs -> Nat]]
      /\ \A c \in Channels, m \in 1..MaxMsgs : sent'[c][m] >= sent[c][m]
      /\ o = "ok" => sent'[ch][n] = sent[ch][n] + 1
  <2>1. CASE o = "ok"
    <3>1. sent' = [sent EXCEPT ![ch][n] = @ + 1] BY <2>1 DEF Send, Delivered
    <3> QED BY <1>1, <3>1, DeliveryFacts
  <2>2. CASE o # "ok"
    <3>1. sent' = sent BY <2>2 DEF Send
    <3> QED BY <1>1, <2>2, <3>1
  <2> QED BY <2>1, <2>2
<1>4. KeepsSent
  <2> SUFFICES ASSUME NEW m \in 1..MaxMsgs, NEW c \in Channels, sent[c][m] > 0 PROVE sent'[c][m] > 0
    BY DEF KeepsSent, WasSent
  <2>1. sent'[c][m] >= sent[c][m] /\ sent[c][m] \in Nat /\ sent'[c][m] \in Nat BY <1>1, <1>3
  <2> QED BY <2>1
<1>5. o = "ok" => WasSent(n)'
  <2>1. o = "ok" => sent'[ch][n] > 0 BY <1>1, <1>3
  <2> QED BY <2>1 DEF WasSent
<1>6. CASE o # "abandoned"
  <2>1. hang' = hang /\ hangs' = hangs BY <1>6 DEF Send
  <2>2. HangInv' BY <1>2, <2>1 DEF HangInv
  <2>3. KeepsTokens BY <1>2, <1>4, <2>1 DEF KeepsTokens, TokenOf, KeepsSent
  <2> QED BY <1>1, <1>2, <1>3, <1>4, <1>5, <1>6, <2>1, <2>2, <2>3
<1>7. CASE o = "abandoned"
  <2>1. PICK k : k = hangs + 1 OBVIOUS
  <2>2. k \in Nat /\ k # 0 /\ k > hangs /\ Token = k BY <1>1, <2>1 DEF Token
  <2>3. hangs' = k /\ hang' = [hang EXCEPT ![ch] = [tok |-> k, n |-> n]] BY <1>7, <2>2 DEF Send
  <2>4. hang' \in [Channels -> [tok : Nat, n : Nat]] BY <1>1, <2>2, <2>3
  <2>5. hang'[ch].tok = k /\ hang'[ch].n = n /\ \A c \in Channels : c # ch => hang'[c] = hang[c]
    BY <1>1, <2>3
  <2>6. \A c \in Channels : hang[c].tok <= hangs /\ hang[c].tok \in Nat BY <1>1 DEF HangInv
  <2>7. \A r \in results : r.tok <= hangs /\ r.tok \in Nat BY <1>1 DEF HangInv
  <2>8. HangInv'
    <3>1. \A c \in Channels : hang'[c].tok <= hangs' BY <1>1, <2>2, <2>3, <2>5, <2>6
    <3>2. \A c \in Channels : hang'[c] # NoHang => hang'[c].tok # 0 /\ hang'[c].n \in 1..Len(msgs')
      BY <2>2, <2>5 DEF HangInv
    <3>3. \A r \in results' : r.tok <= hangs' BY <1>1, <1>2, <2>2, <2>3, <2>7
    <3> QED BY <3>1, <3>2, <3>3 DEF HangInv
  <2>9. TokenOf(k, n)'
    <3>0. \A c \in Channels : hang[c].tok # k BY <1>1, <2>2, <2>6
    <3>1. \A c \in Channels : hang'[c].tok = k => hang'[c].n = n BY <2>5, <3>0
    <3>2. \A r \in results' : r.tok # k BY <1>1, <1>2, <2>2, <2>7
    <3> QED BY <2>2, <2>3, <3>1, <3>2 DEF TokenOf
  <2>10. KeepsTokens
    <3> SUFFICES ASSUME NEW t \in Nat, NEW m \in 1..MaxMsgs, TokenOf(t, m), t # 0
                 PROVE  /\ t <= hangs' /\ \A c \in Channels : hang'[c].tok = t => hang'[c].n = m
                        /\ \A r \in results' : r.tok = t /\ r.ok => WasSent(m)'
      BY DEF KeepsTokens, TokenOf
    <3>1. t <= hangs BY DEF TokenOf
    <3>2. t <= hangs' /\ t # k BY <1>1, <2>2, <2>3, <3>1
    <3>3. \A c \in Channels : hang'[c].tok = t => hang'[c].n = m BY <2>5, <3>2 DEF TokenOf
    <3>4. \A r \in results' : r.tok = t /\ r.ok => WasSent(m)' BY <1>2, <1>4 DEF TokenOf, KeepsSent
    <3> QED BY <3>2, <3>3, <3>4
  <2> QED BY <1>2, <1>3, <1>4, <1>5, <1>7, <2>2, <2>3, <2>4, <2>8, <2>9, <2>10
<1> QED BY <1>6, <1>7

\* Messages and marks may leave the queue; what stays keeps its number.
LEMMA PartQueue ==
  ASSUME Types, Types', QueueInv, FlightInv, MarkInv, GrowsMsgs, KeepsTokens, PartOf(queue', queue),
         nextID' = nextID, flights' \subseteq flights,
         UNCHANGED <<resolvedBefore, marked, stored, loaded>>
  PROVE  QueueInv' /\ FlightInv' /\ MarkInv' /\ KeepsNumbers /\ Numbers(queue') \subseteq Numbers(queue)
<1>1. /\ msgs \in Seq(Message) /\ msgs' \in Seq(Message) /\ Len(msgs) \in Nat /\ Len(msgs') \in Nat
      /\ Len(msgs) <= Len(msgs') /\ nextID \in Nat /\ MaxMsgs \in Nat /\ Len(msgs) <= MaxMsgs
      /\ flights \subseteq [tok : Nat, id : Nat, n : Nat]
  BY NotifierAssumption DEF Types, GrowsMsgs
<1>2. \A i \in 1..Len(queue') : \E j \in 1..Len(queue) : queue'[i] = queue[j] BY DEF PartOf
<1>3. QueueInv'
  <2>1. Sorted(queue') BY DEF PartOf, QueueInv
  <2>2. ASSUME NEW i \in 1..Len(queue') PROVE queue'[i].id < nextID' /\ Of(queue[i])'
    <3>1. PICK j \in 1..Len(queue) : queue'[i] = queue[j] BY <1>2
    <3>2. PICK item : item = queue[j] OBVIOUS
    <3>3. Of(item) /\ item.id < nextID BY <3>2 DEF QueueInv
    <3>4. Of(item)' BY <1>1, <3>3, OfStays
    <3> QED BY <3>1, <3>2, <3>3, <3>4 DEF Of
  <2> QED BY <2>1, <2>2 DEF QueueInv, Sorted, Of
<1>4. FlightInv'
  <2>1. ASSUME NEW f \in flights'
        PROVE  /\ f.id < nextID' /\ f.n \in 1..Len(msgs') /\ f.tok # 0 /\ TokenOf(f.tok, f.n)'
               /\ \A i \in 1..Len(queue') : queue'[i].id = f.id => queue'[i].n = f.n
    <3>1. /\ f \in flights /\ f.id < nextID /\ f.n \in 1..Len(msgs) /\ f.tok # 0 /\ TokenOf(f.tok, f.n)
          /\ \A i \in 1..Len(queue) : queue[i].id = f.id => queue[i].n = f.n
      BY DEF FlightInv
    <3>2. f.tok \in Nat /\ f.n \in 1..MaxMsgs /\ f.n \in 1..Len(msgs') BY <1>1, <3>1
    <3>3. TokenOf(f.tok, f.n)' BY <3>1, <3>2 DEF KeepsTokens
    <3> QED BY <1>2, <3>1, <3>2, <3>3
  <2> QED BY <2>1 DEF FlightInv
<1>5. Numbers(queue') \subseteq Numbers(queue) BY <1>2 DEF Numbers
<1>6. MarkInv'
  <2>1. ResolvedMarkSeparates' BY <1>2 DEF MarkInv, ResolvedMarkSeparates
  <2>2. marked' \subseteq 1..Len(msgs') BY <1>1 DEF MarkInv
  <2>3. ~loaded' => \A i \in 1..Len(stored'.queue) :
             stored'.queue[i].kind = "problem" => stored'.queue[i].n \notin Numbers(queue') \cup marked'
    BY <1>5 DEF MarkInv
  <2>4. \A k \in Keys : resolvedBefore'[k] <= nextID' BY DEF MarkInv
  <2> QED BY <2>1, <2>2, <2>3, <2>4 DEF MarkInv, Numbers
<1>7. KeepsNumbers BY <1>1, <1>2 DEF KeepsNumbers
<1> QED BY <1>3, <1>4, <1>5, <1>6, <1>7

\* A step that leaves the queue, its marks and the store alone.
LEMMA QuietFacts ==
  ASSUME NotifierInv, Types', GrowsMsgs, KeepsTokens, KeepsSent, UNCHANGED <<queueVars, storeVars>>,
         dropped \subseteq dropped', NEW a \in Actors, NEW r \in Actor, Moved(a, r),
         \A n \in Numbers(act[a].drops) : Safe(n)'
  PROVE  /\ QueueInv' /\ FlightInv' /\ MarkInv' /\ KeepsNumbers /\ KeepsSafe
         /\ Numbers(queue') \cup marked' \subseteq Numbers(queue) \cup marked
<1>1. Types /\ QueueInv /\ FlightInv /\ MarkInv BY DEF NotifierInv
<1>2. UNCHANGED <<queue, nextID, resolvedBefore, flights, marked, stored, loaded, crashed>>
  BY DEF queueVars, storeVars
<1>3. queue \in Seq(Item) BY <1>1 DEF Types
<1>4. PartOf(queue', queue) BY <1>2, <1>3 DEF PartOf
<1>5. QueueInv' /\ FlightInv' /\ MarkInv' /\ KeepsNumbers BY <1>1, <1>2, <1>4, PartQueue
<1>6. \A n \in Numbers(queue) : Safe(n)' BY <1>2 DEF Safe, Queued, Numbers
<1>7. KeepsSafe BY <1>1, <1>2, <1>6, SafeStays
<1> QED BY <1>2, <1>5, <1>7 DEF Numbers

\* Such a step of actor a keeps the invariant.
LEMMA QuietStep ==
  ASSUME NotifierInv, Types', GrowsMsgs, MessageInv', HangInv', KeepsTokens, KeepsSent,
         UNCHANGED <<queueVars, storeVars>>, dropped \subseteq dropped',
         NEW a \in Actors, NEW r \in Actor, Moved(a, r), ActorInv(a, r)',
         \A n \in Numbers(act[a].drops) : Safe(n)',
         \A n \in 1..Len(msgs) : n = act[a].msg.n => n = r.msg.n \/ Safe(n)',
         r.msg.n # 0 => r.msg.n = act[a].msg.n \/ r.msg.n > Len(msgs),
         \A n \in 1..Len(msgs') : n > Len(msgs) => r.msg.n = n
  PROVE  NotifierInv'
<1>1. /\ QueueInv' /\ FlightInv' /\ MarkInv' /\ KeepsNumbers /\ KeepsSafe
      /\ Numbers(queue') \cup marked' \subseteq Numbers(queue) \cup marked
  BY QuietFacts
<1>2. UNCHANGED <<stored, loaded, crashed>> BY DEF storeVars
<1> QED BY <1>1, <1>2, StepKeeps

\* A step that moves no actor.
LEMMA RestStep ==
  ASSUME NotifierInv, Types', act' = act, msgs' = msgs, QueueInv', HangInv', FlightInv', MarkInv',
         KeepsTokens, KeepsSent, KeepsNumbers, UNCHANGED storeVars, dropped \subseteq dropped',
         \A n \in Numbers(queue) : Safe(n)',
         Numbers(queue') \cup marked' \subseteq Numbers(queue) \cup marked
  PROVE  NotifierInv'
<1>1. /\ Types /\ MessageInv /\ "tick" \in Actors /\ \A b \in Actors : ActorInv(b, act[b])
  BY NotifierAssumption DEF NotifierInv
<1>2. UNCHANGED <<stored, loaded, crashed>> BY DEF storeVars
<1>3. GrowsMsgs /\ MessageInv'
  <2>1. Len(msgs) \in Nat BY <1>1 DEF Types
  <2> QED BY <1>1, <2>1 DEF GrowsMsgs, MessageInv
<1>4. PICK r : r = act["tick"] OBVIOUS
<1>5. r \in Actor /\ Moved("tick", r) BY <1>1, <1>4 DEF Moved, Types
<1>6. \A n \in Numbers(act["tick"].drops) : Safe(n)' BY <1>1 DEF Safe, Queued, Dropping, Numbers
<1>7. KeepsSafe BY <1>1, <1>2, <1>5, <1>6, SafeStays
<1>8. act["tick"].pc \in Early /\ act["tick"].msg.kind = "problem" => Fresh(act["tick"].msg.n)'
  <2> SUFFICES ASSUME act["tick"].pc \in Early, act["tick"].msg.kind = "problem"
               PROVE  Fresh(act["tick"].msg.n)'
    OBVIOUS
  <2>1. PICK m : m = act["tick"].msg.n OBVIOUS
  <2>2. Fresh(m) BY <1>1, <2>1 DEF ActorInv, HoldsSend
  <2>3. m \notin Numbers(queue') \cup marked' BY <2>2 DEF Fresh, Seen
  <2>4. m \notin (IF loaded' THEN {} ELSE Numbers(stored'.queue)) BY <1>2, <2>2 DEF Fresh, Seen
  <2> QED BY <2>1, <2>3, <2>4 DEF Fresh, Seen, Numbers
<1>9. ActorInv("tick", act["tick"])' BY <1>1, <1>2, <1>3, <1>7, <1>8, StillActor
<1>10. ActorInv("tick", r)'
  <2>1. act'["tick"] = r BY <1>4
  <2>2. HoldsMessage("tick", r)' BY <1>9, <2>1 DEF ActorInv, HoldsMessage
  <2>3. HoldsCopy("tick", r)' BY <1>9, <2>1 DEF ActorInv, HoldsCopy
  <2>4. HoldsSend(r)' BY <1>9, <2>1 DEF ActorInv, HoldsSend
  <2> QED BY <2>2, <2>3, <2>4 DEF ActorInv
<1>11. \A n \in 1..Len(msgs) : n = act["tick"].msg.n => n = r.msg.n BY <1>4
<1>12. r.msg.n # 0 => r.msg.n = act["tick"].msg.n BY <1>4
<1>13. \A n \in 1..Len(msgs') : ~(n > Len(msgs))
  <2>1. Len(msgs) \in Nat BY <1>1 DEF Types
  <2> QED BY <2>1
<1> QED BY <1>1, <1>2, <1>3, <1>5, <1>7, <1>10, <1>11, <1>12, <1>13, StepKeeps

-----------------------------------------------------------------------------
(* Steps that move no actor *)

\* Nothing but the outside's state or the conditions changes.
LEMMA CondStep ==
  ASSUME NotifierInv, cond' \in Cond, offline' \in BOOLEAN, smsProblems' \subseteq Keys,
         settlers' \subseteq settlers,
         UNCHANGED <<queueVars, telegramVars, sendVars, dropVars, storeVars, act, msgs, flushes>>
  PROVE  NotifierInv'
<1>1. Types /\ HangInv /\ QueueInv /\ FlightInv /\ MarkInv BY DEF NotifierInv
<1>2. Types' BY <1>1 DEF Types, queueVars, telegramVars, sendVars, dropVars, storeVars
<1>3. GrowsMsgs
  <2>1. Len(msgs) \in Nat BY <1>1 DEF Types
  <2> QED BY <2>1 DEF GrowsMsgs
<1>4. HangInv' /\ KeepsTokens /\ KeepsSent BY <1>1, <1>2, <1>3, NoSend DEF sendVars
<1>5. UNCHANGED <<queue, nextID, resolvedBefore, flights, marked, stored, loaded>>
  BY DEF queueVars, storeVars
<1>6. PartOf(queue', queue) BY <1>1, <1>5 DEF PartOf, Types
<1>7. QueueInv' /\ FlightInv' /\ MarkInv' /\ KeepsNumbers BY <1>1, <1>2, <1>3, <1>4, <1>5, <1>6, PartQueue
<1>8. \A n \in Numbers(queue) : Safe(n)' BY <1>5 DEF Safe, Queued, Numbers
<1>9. Numbers(queue') \cup marked' \subseteq Numbers(queue) \cup marked BY <1>5
<1> QED BY <1>2, <1>4, <1>7, <1>8, <1>9, RestStep DEF dropVars

\* SetOffline, a streak that begins or ends, and a late failure of the fallback's SMS.
LEMMA QuietKeep ==
  ASSUME NotifierInv
  PROVE  /\ SetOffline => NotifierInv'
         /\ \A k \in Keys : Streak(k) => NotifierInv'
         /\ \A s \in settlers, r \in results : SettleFallback(s, r) => NotifierInv'
<1>1. Types BY DEF NotifierInv
<1>2. cond \in Cond /\ offline \in BOOLEAN /\ smsProblems \subseteq Keys /\ Len(msgs) \in Nat BY <1>1 DEF Types
<1>3. ASSUME SetOffline PROVE NotifierInv'
  <2>1. offline' \in BOOLEAN /\ cond' = cond /\ UNCHANGED smsVars BY <1>2, <1>3 DEF SetOffline
  <2> QED BY <1>2, <1>3, <2>1, CondStep DEF SetOffline, smsVars
<1>4. ASSUME NEW k \in Keys, Streak(k) PROVE NotifierInv'
  <2>1. cond' \in Cond
    <3>1. Untracked \in [open : BOOLEAN, since : Nat] BY DEF Untracked
    <3>2. [open |-> FALSE, since |-> Len(msgs) + 1] \in [open : BOOLEAN, since : Nat] BY <1>2
    <3> QED BY <1>2, <1>4, <3>1, <3>2 DEF Streak, Cond
  <2> QED BY <1>2, <1>4, <2>1, CondStep DEF Streak, smsVars
<1>5. ASSUME NEW s \in settlers, NEW r \in results, SettleFallback(s, r) PROVE NotifierInv'
  <2>1. settlers' \subseteq settlers /\ smsProblems' \subseteq Keys BY <1>2, <1>5 DEF SettleFallback
  <2> QED BY <1>2, <1>5, <2>1, CondStep DEF SettleFallback
<1> QED BY <1>3, <1>4, <1>5

\* An abandoned send returns: its token says how it ended.
LEMMA HangReturnsKeeps ==
  ASSUME NotifierInv, NEW ch \in Channels, NEW ok \in BOOLEAN, HangReturns(ch, ok)
  PROVE  NotifierInv'
<1>1. Types /\ HangInv /\ QueueInv /\ FlightInv /\ MarkInv BY DEF NotifierInv
<1>2. PICK n : n = hang[ch].n OBVIOUS
<1>3. PICK t : t = hang[ch].tok OBVIOUS
<1>4. /\ hang' = [hang EXCEPT ![ch] = NoHang] /\ results' = results \cup {[tok |-> t, ok |-> ok]}
      /\ hangs' = hangs /\ act' = act /\ msgs' = msgs
      /\ UNCHANGED <<queueVars, smsVars, telegramVars, offline, dropVars, storeVars, cond>>
      /\ ok => sent' = [sent EXCEPT ![ch][n] = @ + 1]
      /\ ~ok => sent' = sent
  BY <1>2, <1>3 DEF HangReturns, Delivered
<1>5. /\ Len(msgs) \in Nat /\ MaxMsgs \in Nat /\ hangs \in Nat /\ Len(msgs) <= MaxMsgs
      /\ sent \in [Channels -> [1..MaxMsgs -> Nat]] /\ hang \in [Channels -> [tok : Nat, n : Nat]]
      /\ results \subseteq [tok : Nat, ok : BOOLEAN]
  BY <1>1, NotifierAssumption DEF Types
<1>6. hang[ch] # NoHang /\ t # 0 /\ t \in Nat /\ t <= hangs /\ n \in 1..Len(msgs)
  BY <1>1, <1>2, <1>3, <1>5 DEF HangReturns, HangInv
<1>7. n \in 1..MaxMsgs BY <1>5, <1>6
<1>8. /\ sent' \in [Channels -> [1..MaxMsgs -> Nat]]
      /\ \A c \in Channels, m \in 1..MaxMsgs : sent'[c][m] >= sent[c][m]
      /\ ok => sent'[ch][n] = sent[ch][n] + 1
  <2>1. CASE ok
    <3>1. sent' = [sent EXCEPT ![ch][n] = @ + 1] BY <1>4, <2>1
    <3>2. /\ sent' \in [Channels -> [1..MaxMsgs -> Nat]]
          /\ \A c \in Channels, m \in 1..MaxMsgs : sent'[c][m] >= sent[c][m]
          /\ sent'[ch][n] = sent[ch][n] + 1
      BY <1>5, <1>7, <3>1, DeliveryFacts
    <3> QED BY <3>2
  <2>2. CASE ~ok
    <3>1. sent' = sent BY <1>4, <2>2
    <3>2. \A c \in Channels, m \in 1..MaxMsgs : sent'[c][m] >= sent[c][m] BY <1>5, <3>1
    <3> QED BY <1>5, <2>2, <3>1, <3>2
  <2> QED BY <2>1, <2>2
<1>9. KeepsSent
  <2> SUFFICES ASSUME NEW m \in 1..MaxMsgs, NEW c \in Channels, sent[c][m] > 0 PROVE sent'[c][m] > 0
    BY DEF KeepsSent, WasSent
  <2>1. sent'[c][m] >= sent[c][m] /\ sent[c][m] \in Nat /\ sent'[c][m] \in Nat BY <1>5, <1>8
  <2> QED BY <2>1
<1>10. ok => WasSent(n)'
  <2>1. sent[ch][n] \in Nat BY <1>5, <1>7
  <2>2. ok => sent'[ch][n] > 0 BY <1>8, <2>1
  <2> QED BY <2>2 DEF WasSent
<1>11. NoHang \in [tok : Nat, n : Nat] /\ NoHang.tok = 0 BY DEF NoHang
<1>12. /\ hang' \in [Channels -> [tok : Nat, n : Nat]] /\ hang'[ch] = NoHang
       /\ \A c \in Channels : c # ch => hang'[c] = hang[c]
  BY <1>4, <1>5, <1>11
<1>13. HangInv'
  <2>1. \A c \in Channels : hang'[c].tok <= hangs' BY <1>1, <1>4, <1>5, <1>11, <1>12 DEF HangInv
  <2>2. \A c \in Channels : hang'[c] # NoHang => hang'[c].tok # 0 /\ hang'[c].n \in 1..Len(msgs')
    BY <1>1, <1>4, <1>12 DEF HangInv
  <2>3. \A r \in results' : r.tok <= hangs' BY <1>1, <1>4, <1>6 DEF HangInv
  <2> QED BY <2>1, <2>2, <2>3 DEF HangInv
<1>14. KeepsTokens
  <2> SUFFICES ASSUME NEW u \in Nat, NEW m \in 1..MaxMsgs, TokenOf(u, m), u # 0
               PROVE  /\ u <= hangs' /\ \A c \in Channels : hang'[c].tok = u => hang'[c].n = m
                      /\ \A r \in results' : r.tok = u /\ r.ok => WasSent(m)'
    BY DEF KeepsTokens, TokenOf
  <2>1. \A c \in Channels : hang'[c].tok = u => hang'[c].n = m BY <1>11, <1>12 DEF TokenOf
  <2>2. ASSUME NEW r \in results', r.tok = u, r.ok PROVE WasSent(m)'
    <3>1. CASE r \in results BY <1>9, <2>2, <3>1 DEF TokenOf, KeepsSent
    <3>2. CASE r = [tok |-> t, ok |-> ok]
      <4>1. u = t /\ ok BY <2>2, <3>2
      <4>2. n = m BY <1>2, <1>3, <4>1 DEF TokenOf
      <4> QED BY <1>10, <4>1, <4>2
    <3> QED BY <1>4, <3>1, <3>2
  <2>3. u <= hangs' BY <1>4 DEF TokenOf
  <2> QED BY <2>1, <2>2, <2>3
<1>15. results' \subseteq [tok : Nat, ok : BOOLEAN] BY <1>4, <1>5, <1>6
<1>16. Types'
  BY <1>1, <1>4, <1>8, <1>12, <1>15 DEF Types, queueVars, smsVars, telegramVars, dropVars, storeVars
<1>17. GrowsMsgs BY <1>4, <1>5 DEF GrowsMsgs
<1>18. UNCHANGED <<queue, nextID, resolvedBefore, flights, marked, stored, loaded>>
  BY <1>4 DEF queueVars, storeVars
<1>19. PartOf(queue', queue) BY <1>1, <1>18 DEF PartOf, Types
<1>20. QueueInv' /\ FlightInv' /\ MarkInv' /\ KeepsNumbers
  BY <1>1, <1>14, <1>16, <1>17, <1>18, <1>19, PartQueue
<1>21. \A m \in Numbers(queue) : Safe(m)' BY <1>18 DEF Safe, Queued, Numbers
<1>22. Numbers(queue') \cup marked' \subseteq Numbers(queue) \cup marked BY <1>18
<1> QED BY <1>4, <1>9, <1>13, <1>14, <1>16, <1>20, <1>21, <1>22, RestStep DEF dropVars

\* settle removes the very message whose send it tracks, and only when that was delivered.
LEMMA SettleKeeps ==
  ASSUME NotifierInv, NEW f \in flights, NEW r \in results, Settle(f, r)
  PROVE  NotifierInv'
<1>1. Types /\ HangInv /\ QueueInv /\ FlightInv /\ MarkInv BY DEF NotifierInv
<1>2. /\ f.tok = r.tok /\ flights' = flights \ {f} /\ act' = act /\ msgs' = msgs
      /\ UNCHANGED <<nextID, resolvedBefore, marked, smsVars, offline, sendVars, dropVars, storeVars, cond>>
      /\ queue' = IF r.ok THEN RemoveID(queue, f.id) ELSE queue
  BY DEF Settle, DropsMessage
<1>3. queue \in Seq(Item) /\ Len(queue) <= MaxQueue /\ Len(queue) \in Nat /\ MaxQueue \in Nat
  BY <1>1, NotifierAssumption DEF Types
<1>4. /\ PartOf(queue', queue)
      /\ \A j \in 1..Len(queue) : \/ queue[j].id = f.id /\ r.ok
                                  \/ \E i \in 1..Len(queue') : queue'[i] = queue[j]
  <2>1. CASE r.ok BY <1>2, <1>3, <2>1, RemoveParts
  <2>2. CASE ~r.ok BY <1>2, <1>3, <2>2 DEF PartOf
  <2> QED BY <2>1, <2>2
<1>5. queue' \in Seq(Item) /\ Len(queue') <= MaxQueue
  <2>1. queue' \in Seq(Item) /\ Len(queue') <= Len(queue) /\ Len(queue') \in Nat BY <1>4 DEF PartOf
  <2> QED BY <1>3, <2>1
<1>6. failing' \in BOOLEAN /\ telegramOK' \in BOOLEAN BY <1>1 DEF Settle, TelegramSent, telegramVars, Types
<1>7. Types' BY <1>1, <1>2, <1>5, <1>6 DEF Types, smsVars, sendVars, dropVars, storeVars
<1>8. GrowsMsgs
  <2>1. Len(msgs) \in Nat BY <1>1 DEF Types
  <2> QED BY <1>2, <2>1 DEF GrowsMsgs
<1>9. HangInv' /\ KeepsTokens /\ KeepsSent BY <1>1, <1>2, <1>7, <1>8, NoSend DEF sendVars
<1>10. UNCHANGED <<resolvedBefore, marked, stored, loaded>> BY <1>2 DEF storeVars
<1>11. QueueInv' /\ FlightInv' /\ MarkInv' /\ KeepsNumbers /\ Numbers(queue') \subseteq Numbers(queue)
  BY <1>1, <1>2, <1>4, <1>7, <1>8, <1>9, <1>10, PartQueue
<1>12. ASSUME NEW n \in Numbers(queue) PROVE Safe(n)'
  <2>1. PICK j \in 1..Len(queue) : n = queue[j].n BY DEF Numbers
  <2>2. CASE queue[j].id = f.id /\ r.ok
    <3>1. n = f.n /\ f.n \in 1..Len(msgs) /\ f.tok # 0 /\ TokenOf(f.tok, f.n) BY <1>1, <2>1, <2>2 DEF FlightInv
    <3>2. WasSent(f.n) BY <1>2, <2>2, <3>1 DEF TokenOf
    <3>3. f.n \in 1..MaxMsgs BY <1>1, <3>1, NotifierAssumption DEF Types
    <3> QED BY <1>9, <3>1, <3>2, <3>3 DEF KeepsSent, Safe
  <2>3. CASE \E i \in 1..Len(queue') : queue'[i] = queue[j]
    <3>1. n \in Numbers(queue)' BY <2>1, <2>3 DEF Numbers
    <3> QED BY <3>1 DEF Safe, Queued
  <2> QED BY <1>4, <2>2, <2>3
<1>13. Numbers(queue') \cup marked' \subseteq Numbers(queue) \cup marked BY <1>10, <1>11
<1> QED BY <1>2, <1>7, <1>9, <1>11, <1>12, <1>13, RestStep DEF dropVars

-----------------------------------------------------------------------------
(* Notify and the sends *)

\* An actor that is not reporting drops nothing, and an idle one holds no message.
LEMMA HandsOf ==
  ASSUME NotifierInv, NEW a \in Actors
  PROVE  /\ act[a] \in Actor /\ HoldsMessage(a, act[a]) /\ HoldsCopy(a, act[a]) /\ HoldsSend(act[a])
         /\ act[a].pc # "report" => Numbers(act[a].drops) = {}
         /\ act[a].pc \notin Holding => act[a].msg.n = 0
         /\ act[a].msg.n # 0 => act[a].msg.n \in 1..Len(msgs)
<1>1. act[a] \in Actor BY DEF NotifierInv, Types
<1>2. HoldsMessage(a, act[a]) /\ HoldsCopy(a, act[a]) /\ HoldsSend(act[a]) BY DEF NotifierInv, ActorInv
<1>3. act[a].pc # "report" => act[a].drops = <<>> BY <1>2 DEF HoldsMessage
<1>4. Numbers(<<>>) = {} BY DEF Numbers
<1>5. act[a].msg.n # 0 => act[a].msg.n \in 1..Len(msgs) /\ act[a].pc \in Holding BY <1>2 DEF HoldsMessage
<1> QED BY <1>1, <1>2, <1>3, <1>4, <1>5

\* A message handed to Notify is in its actor's hands, and nowhere else.
LEMMA NotifyKeeps ==
  ASSUME NotifierInv, NEW a \in Actors, NEW m \in Message, m.n = Len(msgs) + 1,
         m.kind # "event" => m.key \in Keys, Notify(a, m), cond' \in Cond
  PROVE  NotifierInv'
<1>1. Types /\ MessageInv /\ HangInv /\ QueueInv /\ StoreInv /\ MarkInv BY DEF NotifierInv
<1>2. /\ At(a, "idle") /\ Len(msgs) < MaxMsgs /\ msgs' = Append(msgs, m)
      /\ UNCHANGED <<queueVars, smsVars, telegramOK, offline, sendVars, dropVars, storeVars, flushes>>
  BY DEF Notify
<1>3. PICK pc \in {"sms", "telegram", "enqueue", "instead"} :
        Step(a, [Idle EXCEPT !.pc = pc, !.msg = m, !.off = offline]) /\ failing' \in BOOLEAN
  <2>1. m.mode \in {"tlg", "sms", "tlg-or-sms"} BY DEF Message
  <2>2. offline \in BOOLEAN /\ failing \in BOOLEAN BY <1>1 DEF Types
  <2>3. CASE m.mode = "sms" BY <2>2, <2>3 DEF Notify
  <2>4. CASE m.mode = "tlg" /\ ~offline BY <2>2, <2>4 DEF Notify
  <2>5. CASE m.mode = "tlg-or-sms" /\ ~offline BY <2>2, <2>5 DEF Notify
  <2>6. CASE m.mode = "tlg" /\ offline BY <2>2, <2>6 DEF Notify
  <2>7. CASE m.mode = "tlg-or-sms" /\ offline BY <2>2, <2>7 DEF Notify
  <2> QED BY <2>1, <2>3, <2>4, <2>5, <2>6, <2>7
<1>4. PICK r : r = [Idle EXCEPT !.pc = pc, !.msg = m, !.off = offline] OBVIOUS
<1>5. /\ r \in Actor /\ r.pc = pc /\ r.msg = m /\ r.drops = <<>> /\ r.next = "idle" /\ r.claimed = {}
      /\ r.tok = 0
  <2>1. pc \in Places /\ offline \in BOOLEAN BY <1>1 DEF Places, Types
  <2>2. Idle \in Actor BY IdleFacts
  <2>4. /\ r \in Actor /\ r.pc = pc /\ r.msg = m /\ r.drops = Idle.drops /\ r.next = Idle.next
        /\ r.claimed = Idle.claimed /\ r.tok = Idle.tok
    BY <1>4, <2>1, <2>2 DEF Actor
  <2> QED BY <2>4, IdleFacts
<1>6. Moved(a, r) BY <1>1, <1>3, <1>4, <1>5, StepMoves DEF Types
<1>7. /\ msgs \in Seq(Message) /\ Len(msgs) \in Nat /\ MaxMsgs \in Nat
      /\ msgs' \in Seq(Message) /\ Len(msgs') = Len(msgs) + 1 /\ Len(msgs') <= MaxMsgs
      /\ msgs'[Len(msgs) + 1] = m /\ \A i \in 1..Len(msgs) : msgs'[i] = msgs[i]
  BY <1>1, <1>2, NotifierAssumption DEF Types
<1>8. GrowsMsgs BY <1>7 DEF GrowsMsgs
<1>9. Types'
  <2>1. act' \in [Actors -> Actor] BY <1>6 DEF Moved
  <2> QED BY <1>1, <1>2, <1>3, <1>7, <2>1
      DEF Types, queueVars, smsVars, sendVars, dropVars, storeVars
<1>10. MessageInv'
  <2> SUFFICES ASSUME NEW i \in 1..Len(msgs'), msgs'[i].kind # "event" PROVE msgs'[i].key \in Keys
    BY DEF MessageInv
  <2>1. i \in 1..Len(msgs) \/ i = Len(msgs) + 1 BY <1>7
  <2> QED BY <1>1, <1>7, <2>1 DEF MessageInv
<1>11. HangInv' /\ KeepsTokens /\ KeepsSent BY <1>1, <1>2, <1>8, <1>9, NoSend DEF sendVars
<1>12. UNCHANGED <<queueVars, storeVars>> /\ dropped \subseteq dropped' BY <1>2 DEF dropVars
<1>13. Numbers(act[a].drops) = {} /\ act[a].msg.n = 0 BY <1>2, HandsOf DEF At, Holding
<1>14. Fresh(m.n)'
  <2>1. m.n \notin 1..Len(msgs) BY <1>7
  <2>2. m.n \notin Numbers(queue) BY <1>1, <2>1 DEF QueueInv, Of, Numbers
  <2>3. m.n \notin Numbers(stored.queue) BY <1>1, <2>1 DEF StoreInv, Of, Numbers
  <2>4. m.n \notin marked BY <1>1, <2>1 DEF MarkInv
  <2> QED BY <1>12, <2>2, <2>3, <2>4 DEF Fresh, Seen, queueVars, storeVars, Numbers
<1>15. ActorInv(a, r)'
  <2>1. HoldsMessage(a, r)'
    <3>1. m.n \in 1..Len(msgs') /\ msgs'[m.n] = m /\ m.n # 0 BY <1>7
    <3> QED BY <1>5, <3>1 DEF HoldsMessage, Holding
  <2>2. HoldsCopy(a, r)' BY <1>5 DEF HoldsCopy, FlushPlaces
  <2>3. HoldsSend(r)'
    <3>1. TokenOf(r.tok, r.msg.n)' BY <1>5 DEF TokenOf
    <3> QED BY <1>5, <1>14, <3>1 DEF HoldsSend, Late
  <2> QED BY <2>1, <2>2, <2>3 DEF ActorInv
<1>16. \A n \in Numbers(act[a].drops) : Safe(n)' BY <1>13
<1>17. \A n \in 1..Len(msgs) : n = act[a].msg.n => n = r.msg.n \/ Safe(n)' BY <1>13
<1>18. r.msg.n > Len(msgs) BY <1>5, <1>7
<1>19. \A n \in 1..Len(msgs') : n > Len(msgs) => r.msg.n = n BY <1>5, <1>7
<1> QED BY <1>5, <1>6, <1>8, <1>9, <1>10, <1>11, <1>12, <1>15, <1>16, <1>17, <1>18, <1>19, QuietStep

\* The tick's news of a condition and a pushed event.
LEMMA NotifiesKeep ==
  ASSUME NotifierInv
  PROVE  /\ \A k \in Keys, mode \in Modes : NotifyCondition(k, mode) => NotifierInv'
         /\ \A a \in Actors, mode \in Modes : NotifyEvent(a, mode) => NotifierInv'
<1>1. cond \in Cond /\ Len(msgs) \in Nat BY DEF NotifierInv, Types
<1>2. Modes \subseteq {"tlg", "sms", "tlg-or-sms"} /\ "tick" \in Actors BY NotifierAssumption
<1>3. ASSUME NEW k \in Keys, NEW mode \in Modes, NotifyCondition(k, mode) PROVE NotifierInv'
  <2>1. PICK m : m = [n |-> Len(msgs) + 1, key |-> k, mode |-> mode, streak |-> StreakOf(k),
                      kind |-> IF cond[k].open THEN "resolved" ELSE "problem"]
    OBVIOUS
  <2>2. StreakOf(k) \in Nat BY <1>1 DEF StreakOf, Cond
  <2>3. m \in Message /\ m.n = Len(msgs) + 1 /\ m.key \in Keys BY <1>1, <1>2, <2>1, <2>2 DEF Message
  <2>4. Notify("tick", m) BY <1>3, <2>1 DEF NotifyCondition
  <2>5. cond' \in Cond
    <3>1. Untracked \in [open : BOOLEAN, since : Nat] BY DEF Untracked
    <3>2. [open |-> TRUE, since |-> StreakOf(k)] \in [open : BOOLEAN, since : Nat] BY <2>2
    <3> QED BY <1>1, <1>3, <3>1, <3>2 DEF NotifyCondition, Cond
  <2> QED BY <1>2, <2>3, <2>4, <2>5, NotifyKeeps
<1>4. ASSUME NEW a \in Actors, NEW mode \in Modes, NotifyEvent(a, mode) PROVE NotifierInv'
  <2>1. PICK m : m = [n |-> Len(msgs) + 1, key |-> NoKey, mode |-> mode, streak |-> 0, kind |-> "event"]
    OBVIOUS
  <2>2. m \in Message /\ m.n = Len(msgs) + 1 /\ m.kind = "event" BY <1>1, <1>2, <2>1 DEF Message
  <2>3. Notify(a, m) /\ cond' = cond BY <1>4, <2>1 DEF NotifyEvent
  <2> QED BY <1>1, <2>2, <2>3, NotifyKeeps
<1> QED BY <1>3, <1>4

\* What a send by actor a keeps, whatever it was a send of.
LEMMA SendQuiet ==
  ASSUME NotifierInv, NEW a \in Actors, NEW n \in 1..Len(msgs), NEW ch \in Channels, NEW o, Send(ch, n, o),
         NEW r \in Actor, Step(a, r), act[a].pc # "report",
         failing' \in BOOLEAN, telegramOK' \in BOOLEAN, smsProblems' \subseteq Keys,
         settlers' \subseteq [tok : Nat, key : Keys, n : Nat],
         UNCHANGED <<queueVars, offline, dropVars, storeVars, cond, msgs, flushes>>
  PROVE  /\ Types' /\ GrowsMsgs /\ MessageInv' /\ HangInv' /\ KeepsTokens /\ KeepsSent /\ KeepsSafe
         /\ QueueInv' /\ dropped' = dropped /\ Moved(a, r) /\ \A m \in Numbers(act[a].drops) : Safe(m)'
         /\ o = "ok" => WasSent(n)'
         /\ \A t : t = Token /\ o = "abandoned" => t \in Nat /\ t # 0 /\ TokenOf(t, n)'
<1>1. Types /\ MessageInv /\ HangInv BY DEF NotifierInv
<1>2. msgs' = msgs OBVIOUS
<1>3. /\ sent' \in [Channels -> [1..MaxMsgs -> Nat]]
      /\ hang' \in [Channels -> [tok : Nat, n : Nat]] /\ hangs' \in Nat /\ results' = results
      /\ HangInv' /\ KeepsTokens /\ KeepsSent
      /\ o = "ok" => WasSent(n)'
      /\ \A t : t = Token /\ o = "abandoned" => t \in Nat /\ t # 0 /\ TokenOf(t, n)'
  BY <1>1, <1>2, SendFacts
<1>4. Moved(a, r) BY <1>1, StepMoves DEF Types
<1>5. Types'
  <2>1. act' \in [Actors -> Actor] BY <1>4 DEF Moved
  <2> QED BY <1>1, <1>2, <1>3, <2>1 DEF Types, queueVars, dropVars, storeVars
<1>6. GrowsMsgs /\ MessageInv'
  <2>1. Len(msgs) \in Nat BY <1>1 DEF Types
  <2> QED BY <1>1, <1>2, <2>1 DEF GrowsMsgs, MessageInv
<1>7. Numbers(act[a].drops) = {} BY HandsOf
<1>8. UNCHANGED <<queueVars, storeVars>> /\ dropped' = dropped BY DEF dropVars
<1>9. KeepsSafe /\ QueueInv' BY <1>3, <1>4, <1>5, <1>6, <1>7, <1>8, QuietFacts
<1> QED BY <1>3, <1>4, <1>5, <1>6, <1>7, <1>8, <1>9

\* A send of Notify's message: on success the actor goes on without it, else it keeps it.
LEMMA SendKeeps ==
  ASSUME NotifierInv, NEW a \in Actors, NEW ch \in Channels, NEW o, NEW n, n = act[a].msg.n, Send(ch, n, o),
         NEW s \in Actor, s = act[a], s.pc \in {"telegram", "instead", "sms", "also"},
         NEW r \in Actor, Step(a, r), SameHands(r, s), r.drops = s.drops,
         r.pc \in {"instead", "enqueue", "enqueueSMS", "resolve", "fallback"},
         r.next \in {"idle", "resolve", "fallback"},
         r.pc = "resolve" \/ r.next = "resolve" => s.msg.kind = "resolved",
         r.pc = "enqueueSMS" => r.next # "idle", r.pc \in {"resolve", "fallback"} => o = "ok",
         r.tok = 0 \/ (r.tok = s.tok /\ s.pc = "instead") \/ (r.tok = Token /\ o = "abandoned"),
         failing' \in BOOLEAN, telegramOK' \in BOOLEAN, smsProblems' \subseteq Keys,
         settlers' \subseteq [tok : Nat, key : Keys, n : Nat],
         UNCHANGED <<queueVars, offline, dropVars, storeVars, cond, msgs, flushes>>
  PROVE  NotifierInv'
<1>1. HoldsMessage(a, s) /\ HoldsSend(s) BY HandsOf
<1>2. /\ s.msg.n # 0 /\ s.msg.n \in 1..Len(msgs) /\ msgs[s.msg.n] = s.msg /\ s.drops = <<>>
      /\ \A d \in s.claimed : Of(d) /\ d.kind = "problem"
  BY <1>1 DEF HoldsMessage, Early
<1>3. n = s.msg.n /\ n \in 1..Len(msgs) /\ n \in 1..MaxMsgs
  <2>1. Len(msgs) \in Nat /\ Len(msgs) <= MaxMsgs /\ MaxMsgs \in Nat
    BY NotifierAssumption DEF NotifierInv, Types
  <2> QED BY <1>2, <2>1
<1>4. act[a].pc # "report" OBVIOUS
<1>5. /\ Types' /\ GrowsMsgs /\ MessageInv' /\ HangInv' /\ KeepsTokens /\ KeepsSent /\ KeepsSafe
      /\ dropped' = dropped /\ Moved(a, r) /\ \A m \in Numbers(act[a].drops) : Safe(m)'
      /\ o = "ok" => WasSent(n)'
      /\ \A t : t = Token /\ o = "abandoned" => t \in Nat /\ t # 0 /\ TokenOf(t, n)'
  BY <1>3, <1>4, SendQuiet
<1>6. r.msg = s.msg /\ r.claimed = s.claimed BY DEF SameHands
<1>7. msgs' = msgs /\ UNCHANGED <<queueVars, storeVars>> OBVIOUS
<1>8. HoldsMessage(a, r)'
  <2>1. r.msg.n \in 1..Len(msgs') /\ msgs'[r.msg.n] = r.msg /\ r.pc \in Holding
    BY <1>2, <1>6, <1>7 DEF Holding
  <2>2. \A d \in r.claimed : Of(d)' /\ d.kind = "problem" BY <1>2, <1>6, <1>7 DEF Of
  <2>3. r.pc # "also" /\ r.pc # "report" /\ r.pc # "checkpoint" /\ r.drops = <<>> /\ r.msg.n # 0 BY <1>2, <1>6
  <2> QED BY <1>6, <2>1, <2>2, <2>3 DEF HoldsMessage
<1>9. HoldsCopy(a, r)' BY DEF HoldsCopy, FlushPlaces
<1>10. HoldsSend(r)'
  <2>1. r.pc \in {"instead", "enqueue", "enqueueSMS"} => TokenOf(r.tok, n)'
    <3>1. CASE r.tok = 0 BY <3>1 DEF TokenOf
    <3>2. CASE r.tok = s.tok /\ s.pc = "instead"
      <4>1. TokenOf(s.tok, n) /\ s.tok \in Nat BY <1>1, <1>3, <3>2 DEF HoldsSend, Actor
      <4>2. TokenOf(s.tok, n)' BY <1>3, <1>5, <4>1 DEF KeepsTokens
      <4> QED BY <3>2, <4>2
    <3>3. CASE r.tok = Token /\ o = "abandoned" BY <1>5, <3>3
    <3> QED BY <3>1, <3>2, <3>3
  <2>2. r.pc \in Late => Safe(n)' BY <1>5 DEF Late, Safe
  <2>3. r.pc \in Early /\ r.msg.kind = "problem" => Fresh(n)'
    <3>1. s.pc = "also" => s.msg.kind = "resolved" BY <1>1 DEF HoldsMessage
    <3>2. s.msg.kind = "problem" => Fresh(n) BY <1>1, <1>3, <3>1 DEF HoldsSend, Early
    <3>3. Fresh(n) => Fresh(n)' BY <1>7 DEF Fresh, Seen, queueVars, storeVars, Numbers
    <3> QED BY <1>6, <3>2, <3>3
  <2> QED BY <1>3, <1>6, <2>1, <2>2, <2>3 DEF HoldsSend
<1>11. ActorInv(a, r)' BY <1>8, <1>9, <1>10 DEF ActorInv
<1>12. \A m \in 1..Len(msgs) : m = act[a].msg.n => m = r.msg.n \/ Safe(m)' BY <1>6
<1>13. r.msg.n = act[a].msg.n BY <1>6
<1>14. \A m \in 1..Len(msgs') : ~(m > Len(msgs))
  <2>1. Len(msgs) \in Nat BY DEF NotifierInv, Types
  <2> QED BY <1>7, <2>1
<1> QED BY <1>5, <1>7, <1>11, <1>12, <1>13, <1>14, QuietStep

\* The Telegram send of a message.
LEMMA TryTelegramKeeps ==
  ASSUME NotifierInv, NEW a \in Actors, NEW o, TryTelegram(a, o)
  PROVE  NotifierInv'
<1>1. PICK s : s = act[a] OBVIOUS
<1>2. PICK n : n = act[a].msg.n OBVIOUS
<1>3. s \in Actor /\ HoldsMessage(a, s) BY <1>1, HandsOf
<1>4. PICK tok : tok = IF o = "abandoned" THEN Token ELSE 0 OBVIOUS
<1>5. PICK pc : /\ pc = CASE o = "ok" -> AfterSend(s.msg) [] o = "late" -> "enqueue"
                          [] OTHER -> IF s.msg.mode = "tlg" THEN "enqueue" ELSE "instead"
  OBVIOUS
<1>6. /\ s.pc = "telegram" /\ Send("tlg", n, o) /\ TelegramSent(o)
      /\ Step(a, [s EXCEPT !.pc = pc, !.tok = tok])
      /\ UNCHANGED <<queueVars, smsVars, offline, byFallback, dropVars, storeVars, cond, msgs, flushes>>
  BY <1>1, <1>2, <1>4, <1>5 DEF TryTelegram, At
<1>7. /\ pc \in {"instead", "enqueue", "enqueueSMS", "resolve", "fallback"}
      /\ pc = "resolve" => s.msg.kind = "resolved"
      /\ pc \in {"resolve", "fallback"} => o = "ok"
      /\ pc # "enqueueSMS"
  <2>1. CASE o = "ok" BY <1>5, <2>1 DEF AfterSend
  <2>2. CASE o = "late" BY <1>5, <2>2
  <2>3. CASE o # "ok" /\ o # "late" BY <1>5, <2>3
  <2> QED BY <2>1, <2>2, <2>3
<1>8. pc \in Places BY <1>7 DEF Places
<1>9. tok \in Nat
  <2>1. hangs \in Nat BY DEF NotifierInv, Types
  <2> QED BY <1>4, <2>1 DEF Token
<1>10. PICK r : r = [s EXCEPT !.pc = pc, !.tok = tok] OBVIOUS
<1>11. r \in Actor /\ r.pc = pc /\ r.tok = tok /\ SameHands(r, s) /\ r.drops = s.drops /\ r.next = s.next
  BY <1>3, <1>8, <1>9, <1>10 DEF Actor, SameHands
<1>12. failing' \in BOOLEAN /\ telegramOK' \in BOOLEAN
  BY <1>6 DEF TelegramSent, NotifierInv, Types
<1>13. smsProblems' \subseteq Keys /\ settlers' \subseteq [tok : Nat, key : Keys, n : Nat]
  BY <1>6 DEF smsVars, NotifierInv, Types
<1>14. /\ r.next \in {"idle", "resolve", "fallback"} /\ (r.next = "resolve" => s.msg.kind = "resolved")
  BY <1>3, <1>11 DEF HoldsMessage
<1>15. r.tok = 0 \/ (r.tok = Token /\ o = "abandoned") BY <1>4, <1>11
<1>16. "tlg" \in Channels BY DEF Channels
<1> QED BY <1>1, <1>2, <1>3, <1>6, <1>7, <1>10, <1>11, <1>12, <1>13, <1>14, <1>15, <1>16, SendKeeps

\* The SMS sent in place of Telegram.
LEMMA SMSInsteadKeeps ==
  ASSUME NotifierInv, NEW a \in Actors, NEW o, SMSInstead(a, o)
  PROVE  NotifierInv'
<1>1. PICK s : s = act[a] OBVIOUS
<1>2. PICK n : n = act[a].msg.n OBVIOUS
<1>3. s \in Actor /\ HoldsMessage(a, s) BY <1>1, HandsOf
<1>4. PICK via \in BOOLEAN : via = (o = "ok") OBVIOUS
<1>5. PICK pc : pc = IF o = "ok" THEN AfterSend(s.msg) ELSE "enqueue" OBVIOUS
<1>6. /\ s.pc = "instead" /\ Send("sms", n, o) /\ Step(a, [s EXCEPT !.pc = pc, !.via = via])
      /\ UNCHANGED <<queueVars, telegramOK, offline, byFallback, dropVars, storeVars, cond, msgs, flushes>>
  BY <1>1, <1>2, <1>4, <1>5 DEF SMSInstead, At
<1>7. /\ pc \in {"instead", "enqueue", "enqueueSMS", "resolve", "fallback"}
      /\ pc = "resolve" => s.msg.kind = "resolved"
      /\ pc \in {"resolve", "fallback"} => o = "ok"
      /\ pc # "enqueueSMS"
  BY <1>5 DEF AfterSend
<1>8. pc \in Places BY <1>7 DEF Places
<1>10. PICK r : r = [s EXCEPT !.pc = pc, !.via = via] OBVIOUS
<1>11. r \in Actor /\ r.pc = pc /\ r.tok = s.tok /\ SameHands(r, s) /\ r.drops = s.drops /\ r.next = s.next
  BY <1>3, <1>8, <1>10 DEF Actor, SameHands
<1>12. /\ s.msg.n # 0 /\ s.msg.n \in 1..Len(msgs) /\ msgs[s.msg.n] = s.msg
  BY <1>3, <1>6 DEF HoldsMessage, Early
<1>13. failing' \in BOOLEAN /\ telegramOK' \in BOOLEAN
  <2>1. failing \in BOOLEAN /\ s.off \in BOOLEAN /\ telegramOK \in BOOLEAN BY <1>3 DEF NotifierInv, Types, Actor
  <2> QED BY <1>1, <1>6, <2>1 DEF SMSInstead
<1>14. smsProblems' \subseteq Keys /\ settlers' \subseteq [tok : Nat, key : Keys, n : Nat]
  <2>1. /\ smsProblems \subseteq Keys /\ settlers \subseteq [tok : Nat, key : Keys, n : Nat] /\ Token \in Nat
    BY DEF NotifierInv, Types, Token
  <2>2. /\ smsProblems' = IF o = "abandoned" /\ s.msg.kind = "problem" THEN smsProblems \cup {s.msg.key} ELSE smsProblems
        /\ settlers' = IF o = "abandoned" /\ s.msg.kind = "problem"
                         THEN settlers \cup {[tok |-> Token, key |-> s.msg.key, n |-> s.msg.n]} ELSE settlers
    BY <1>1 DEF SMSInstead
  <2>3. s.msg.kind = "problem" => s.msg.key \in Keys BY <1>12 DEF NotifierInv, MessageInv
  <2>4. s.msg.n \in Nat BY <1>12
  <2>5. CASE o = "abandoned" /\ s.msg.kind = "problem" BY <2>1, <2>2, <2>3, <2>4, <2>5
  <2>6. CASE ~(o = "abandoned" /\ s.msg.kind = "problem") BY <2>1, <2>2, <2>6
  <2> QED BY <2>5, <2>6
<1>15. /\ r.next \in {"idle", "resolve", "fallback"} /\ (r.next = "resolve" => s.msg.kind = "resolved")
  BY <1>3, <1>11 DEF HoldsMessage
<1>16. "sms" \in Channels BY DEF Channels
<1> QED BY <1>1, <1>2, <1>3, <1>6, <1>7, <1>10, <1>11, <1>13, <1>14, <1>15, <1>16, SendKeeps

\* The SMS of a message in mode sms, or of a RESOLVED after its PROBLEM.
LEMMA SendSMSKeeps ==
  ASSUME NotifierInv, NEW a \in Actors, NEW o, SendSMS(a, o)
  PROVE  NotifierInv'
<1>1. PICK s : s = act[a] OBVIOUS
<1>2. PICK n : n = act[a].msg.n OBVIOUS
<1>3. s \in Actor /\ HoldsMessage(a, s) BY <1>1, HandsOf
<1>4. PICK tok : tok = IF o = "abandoned" THEN Token ELSE 0 OBVIOUS
<1>5. PICK next : next = IF s.pc = "sms" THEN AfterSend(s.msg) ELSE "fallback" OBVIOUS
<1>6. PICK pc : pc = IF o = "ok" THEN next ELSE "enqueueSMS" OBVIOUS
<1>7. PICK via \in BOOLEAN : via = (s.pc = "sms" \/ s.via)
  <2>1. s.via \in BOOLEAN BY <1>3 DEF Actor
  <2> QED BY <2>1
<1>8. /\ s.pc \in {"sms", "also"} /\ Send("sms", n, o)
      /\ Step(a, [s EXCEPT !.pc = pc, !.via = via, !.tok = tok, !.next = next])
      /\ UNCHANGED <<queueVars, smsVars, telegramVars, offline, byFallback, dropVars, storeVars, cond, msgs,
                     flushes>>
  BY <1>1, <1>2, <1>4, <1>5, <1>6, <1>7 DEF SendSMS, At
<1>9. next \in {"resolve", "fallback"} /\ (next = "resolve" => s.msg.kind = "resolved")
  BY <1>5 DEF AfterSend
<1>10. pc \in Places /\ next \in Places /\ pc \in {"enqueueSMS", "resolve", "fallback"} BY <1>6, <1>9 DEF Places
<1>11. tok \in Nat
  <2>1. hangs \in Nat BY DEF NotifierInv, Types
  <2> QED BY <1>4, <2>1 DEF Token
<1>12. PICK r : r = [s EXCEPT !.pc = pc, !.via = via, !.tok = tok, !.next = next] OBVIOUS
<1>13. r \in Actor /\ r.pc = pc /\ r.tok = tok /\ r.next = next /\ SameHands(r, s) /\ r.drops = s.drops
  BY <1>3, <1>10, <1>11, <1>12 DEF Actor, SameHands
<1>14. failing' \in BOOLEAN /\ telegramOK' \in BOOLEAN BY <1>8 DEF telegramVars, NotifierInv, Types
<1>15. smsProblems' \subseteq Keys /\ settlers' \subseteq [tok : Nat, key : Keys, n : Nat]
  BY <1>8 DEF smsVars, NotifierInv, Types
<1>16. r.tok = 0 \/ (r.tok = Token /\ o = "abandoned") BY <1>4, <1>13
<1>17. "sms" \in Channels BY DEF Channels
<1>18. r.pc \in {"resolve", "fallback"} => o = "ok" BY <1>6, <1>13
<1>19. r.pc = "resolve" => s.msg.kind = "resolved" BY <1>6, <1>9, <1>13
<1> QED BY <1>1, <1>2, <1>3, <1>8, <1>9, <1>10, <1>12, <1>13, <1>14, <1>15, <1>16, <1>17, <1>18, <1>19, SendKeeps

-----------------------------------------------------------------------------
(* The fallback and the report *)

\* An actor without a message.
LEMMA EmptyHands ==
  ASSUME NEW a \in Actors, NEW r \in Actor, r.msg.n = 0, r.drops = <<>>,
         r.next \in {"idle", "resolve", "fallback"}, r.next = "resolve" => r.msg.kind = "resolved",
         r.pc \in {"idle", "fallback", "sending"}, \A d \in r.claimed : Of(d)' /\ d.kind = "problem"
  PROVE  ActorInv(a, r)'
<1>1. HoldsMessage(a, r)' BY DEF HoldsMessage, Early
<1>2. HoldsCopy(a, r)' BY DEF HoldsCopy, FlushPlaces
<1>3. HoldsSend(r)' BY DEF HoldsSend, Early
<1> QED BY <1>1, <1>2, <1>3 DEF ActorInv

\* What a step of actor a keeps that sends nothing and leaves the queue alone.
LEMMA TalkQuiet ==
  ASSUME NotifierInv, NEW a \in Actors, NEW r \in Actor, Step(a, r), smsProblems' \subseteq Keys,
         cond' \in Cond, undelivered' \subseteq Nat, dropped \subseteq dropped',
         Numbers(act[a].drops) \subseteq dropped',
         UNCHANGED <<queueVars, settlers, telegramVars, offline, sendVars, storeVars, msgs>>
  PROVE  /\ Types' /\ GrowsMsgs /\ MessageInv' /\ HangInv' /\ KeepsTokens /\ KeepsSent /\ KeepsSafe
         /\ QueueInv' /\ Moved(a, r) /\ \A m \in Numbers(act[a].drops) : Safe(m)'
<1>1. Types /\ MessageInv /\ HangInv BY DEF NotifierInv
<1>2. msgs' = msgs OBVIOUS
<1>4. Moved(a, r) BY <1>1, StepMoves DEF Types
<1>5. Types'
  <2>1. act' \in [Actors -> Actor] BY <1>4 DEF Moved
  <2> QED BY <1>1, <1>2, <2>1 DEF Types, queueVars, telegramVars, sendVars, storeVars
<1>6. GrowsMsgs /\ MessageInv'
  <2>1. Len(msgs) \in Nat BY <1>1 DEF Types
  <2> QED BY <1>1, <1>2, <2>1 DEF GrowsMsgs, MessageInv
<1>3. HangInv' /\ KeepsTokens /\ KeepsSent BY <1>1, <1>5, <1>6, NoSend DEF sendVars
<1>7. \A m \in Numbers(act[a].drops) : Safe(m)' BY DEF Safe
<1>8. UNCHANGED <<queueVars, storeVars>> OBVIOUS
<1>9. KeepsSafe /\ QueueInv' BY <1>3, <1>4, <1>5, <1>6, <1>7, <1>8, QuietFacts
<1> QED BY <1>3, <1>4, <1>5, <1>6, <1>7, <1>9

\* Such a step keeps the invariant when the actor keeps its message or leaves a safe one.
LEMMA TalkStep ==
  ASSUME NotifierInv, NEW a \in Actors, NEW r \in Actor, Step(a, r), smsProblems' \subseteq Keys,
         cond' \in Cond, undelivered' \subseteq Nat, dropped \subseteq dropped',
         Numbers(act[a].drops) \subseteq dropped',
         UNCHANGED <<queueVars, settlers, telegramVars, offline, sendVars, storeVars, msgs>>,
         act[a].pc \in {"idle", "fallback", "report"}, r.msg.n = 0 \/ r.msg.n = act[a].msg.n,
         ActorInv(a, r)'
  PROVE  NotifierInv'
<1>1. /\ Types' /\ GrowsMsgs /\ MessageInv' /\ HangInv' /\ KeepsTokens /\ KeepsSent /\ KeepsSafe
      /\ Moved(a, r) /\ \A m \in Numbers(act[a].drops) : Safe(m)'
  BY TalkQuiet
<1>2. /\ HoldsSend(act[a]) /\ (act[a].pc \notin Holding => act[a].msg.n = 0)
      /\ (act[a].msg.n # 0 => act[a].msg.n \in 1..Len(msgs))
  BY HandsOf
<1>3. Len(msgs) \in Nat /\ MaxMsgs \in Nat /\ Len(msgs) <= MaxMsgs BY NotifierAssumption DEF NotifierInv, Types
<1>4. ASSUME NEW n \in 1..Len(msgs), n = act[a].msg.n PROVE Safe(n)'
  <2>1. n # 0 /\ n \in 1..MaxMsgs BY <1>3
  <2>2. act[a].pc \in {"fallback", "report"} BY <1>2, <1>4, <2>1 DEF Holding
  <2>3. Safe(n) BY <1>2, <1>4, <2>1, <2>2 DEF HoldsSend, Late
  <2> QED BY <1>1, <2>1, <2>3 DEF KeepsSafe
<1>5. \A n \in 1..Len(msgs') : ~(n > Len(msgs)) BY <1>3
<1>6. UNCHANGED <<queueVars, storeVars>> OBVIOUS
<1> QED BY <1>1, <1>4, <1>5, <1>6, QuietStep

\* smsFallback claims PROBLEMs of the queue.
LEMMA FallbackKeeps ==
  ASSUME NotifierInv, NEW a \in Actors, Fallback(a)
  PROVE  NotifierInv'
<1>1. Types /\ QueueInv BY DEF NotifierInv
<1>2. PICK due : due = {item \in Range(queue) : failing /\ FallbackDueItem(item)} OBVIOUS
<1>3. /\ act[a].pc = "fallback" /\ smsProblems' = smsProblems \cup {d.key : d \in due}
      /\ Step(a, IF due = {} THEN Idle ELSE [Idle EXCEPT !.pc = "sending", !.claimed = due])
      /\ UNCHANGED <<queueVars, settlers, telegramVars, offline, sendVars, dropVars, storeVars, cond, msgs, flushes>>
  BY <1>2 DEF Fallback, At
<1>4. ASSUME NEW d \in due PROVE d \in Item /\ Of(d) /\ d.kind = "problem"
  <2>1. d \in Range(queue) /\ FallbackDueItem(d) BY <1>2
  <2>2. PICK i \in 1..Len(queue) : d = queue[i] BY <1>1, <2>1 DEF Range, Types
  <2>3. queue[i] \in Item BY <1>1 DEF Types
  <2> QED BY <1>1, <2>1, <2>2, <2>3 DEF QueueInv, FallbackDueItem
<1>5. smsProblems' \subseteq Keys
  <2>1. \A d \in due : d.key \in Keys BY <1>4 DEF Of
  <2> QED BY <1>1, <1>3, <2>1 DEF Types
<1>6. PICK r : r = IF due = {} THEN Idle ELSE [Idle EXCEPT !.pc = "sending", !.claimed = due] OBVIOUS
<1>7. r \in Actor /\ r.msg = NoMessage /\ r.next = "idle" /\ r.drops = <<>> /\ r.pc \in {"idle", "sending"}
      /\ \A d \in r.claimed : d \in due
  <2>1. CASE due = {} BY <1>6, <2>1, IdleFacts
  <2>2. CASE due # {}
    <3>1. due \in SUBSET Item /\ "sending" \in Places BY <1>4 DEF Places
    <3>2. r = [Idle EXCEPT !.pc = "sending", !.claimed = due] BY <1>6, <2>2
    <3>3. Idle \in Actor BY IdleFacts
    <3>4. r \in Actor /\ r.pc = "sending" /\ r.claimed = due /\ r.msg = Idle.msg /\ r.next = Idle.next /\ r.drops = Idle.drops
      BY <3>1, <3>2, <3>3 DEF Actor
    <3> QED BY <3>4, IdleFacts
  <2> QED BY <2>1, <2>2
<1>8. msgs' = msgs /\ cond' = cond /\ undelivered' = undelivered /\ dropped' = dropped BY <1>3 DEF dropVars
<1>9. \A d \in r.claimed : Of(d)' /\ d.kind = "problem" BY <1>4, <1>7, <1>8 DEF Of
<1>10. ActorInv(a, r)' BY <1>7, <1>9, IdleFacts, EmptyHands
<1>11. Numbers(act[a].drops) = {} BY <1>3, HandsOf
<1>12. cond' \in Cond /\ undelivered' \subseteq Nat BY <1>1, <1>8 DEF Types
<1>13. r.msg.n = 0 BY <1>7, IdleFacts
<1> QED BY <1>3, <1>5, <1>6, <1>7, <1>8, <1>10, <1>11, <1>12, <1>13, TalkStep

\* reportDropped.
LEMMA ReportDroppedKeeps ==
  ASSUME NotifierInv, NEW a \in Actors, ReportDropped(a)
  PROVE  NotifierInv'
<1>1. Types /\ QueueInv BY DEF NotifierInv
<1>2. PICK s : s = act[a] OBVIOUS
<1>3. s \in Actor /\ HoldsMessage(a, s) /\ HoldsSend(s) BY <1>2, HandsOf
<1>4. PICK r : r = IF s.next = "idle" THEN Idle ELSE [s EXCEPT !.pc = s.next, !.drops = <<>>] OBVIOUS
<1>5. /\ s.pc = "report" /\ dropped' = dropped \cup Numbers(s.drops) /\ Step(a, r)
      /\ UNCHANGED <<queueVars, smsVars, telegramVars, offline, sendVars, storeVars, msgs, flushes>>
  BY <1>2, <1>4 DEF ReportDropped, At
<1>6. cond' \in Cond /\ undelivered' \subseteq Nat
  <2>1. PICK problems : problems = {d \in Range(s.drops) : d.kind = "problem"} OBVIOUS
  <2>2. PICK reopened : reopened = {d \in problems : Reopens(d.key, d.n)} OBVIOUS
  <2>3. /\ cond' = [k \in Keys |-> IF \E d \in reopened : d.key = k
                                     THEN [cond[k] EXCEPT !.open = FALSE] ELSE cond[k]]
        /\ undelivered' = undelivered \cup {d.n : d \in problems \ reopened}
    BY <1>2, <2>1, <2>2 DEF ReportDropped
  <2>4. \A d \in problems : d \in Item BY <1>3, <2>1 DEF Range, Actor
  <2>5. \A d \in problems : d.n \in Nat BY <2>4 DEF Item
  <2>6. undelivered' \subseteq Nat BY <1>1, <2>3, <2>5 DEF Types
  <2>7. \A k \in Keys : [cond[k] EXCEPT !.open = FALSE] \in [open : BOOLEAN, since : Nat] /\ cond[k] \in [open : BOOLEAN, since : Nat]
    BY <1>1 DEF Types, Cond
  <2>8. cond' \in Cond BY <2>3, <2>7 DEF Cond
  <2> QED BY <2>6, <2>8
<1>7. smsProblems' \subseteq Keys /\ settlers' = settlers BY <1>1, <1>5 DEF smsVars, Types
<1>8. r \in Actor
  <2>1. CASE s.next = "idle" BY <1>4, <2>1, IdleFacts
  <2>2. CASE s.next # "idle"
    <3>1. PICK pc \in Places : pc = s.next BY <1>3 DEF Actor
    <3>2. PICK none \in Seq(Item) : none = <<>>
      <4>1. <<>> \in Seq(Item) OBVIOUS
      <4> QED BY <4>1, Zenon
    <3>3. r = [s EXCEPT !.pc = pc, !.drops = none] BY <1>4, <2>2, <3>1, <3>2
    <3> QED BY <1>3, <3>3 DEF Actor
  <2> QED BY <2>1, <2>2
<1>9. /\ Types' /\ GrowsMsgs /\ KeepsTokens /\ KeepsSent /\ KeepsSafe
  BY <1>2, <1>5, <1>6, <1>7, <1>8, TalkQuiet
<1>10. (r.msg.n = 0 \/ r.msg.n = s.msg.n) /\ ActorInv(a, r)'
  <2>1. CASE s.next = "idle"
    <3>1. r.msg.n = 0 /\ ActorInv(a, r)' BY <1>4, <2>1, IdleFacts, EmptyHands
    <3> QED BY <3>1
  <2>2. CASE s.next # "idle"
    <3>1. /\ r.pc = s.next /\ r.drops = <<>> /\ r.tok = s.tok /\ r.msg = s.msg /\ r.claimed = s.claimed
          /\ r.next = s.next
      BY <1>3, <1>4, <2>2 DEF Actor
    <3>2. /\ s.msg.n # 0 /\ s.msg.n \in 1..Len(msgs) /\ msgs[s.msg.n] = s.msg /\ s.next \in {"resolve", "fallback"}
          /\ (s.next = "resolve" => s.msg.kind = "resolved") /\ \A d \in s.claimed : Of(d) /\ d.kind = "problem"
      BY <1>3, <1>5, <2>2 DEF HoldsMessage
    <3>3. Safe(s.msg.n)
      BY <1>3, <1>5, <3>2 DEF HoldsSend, Late
    <3>4. Safe(s.msg.n)'
      <4>1. s.msg.n \in 1..MaxMsgs BY <1>1, <3>2, NotifierAssumption DEF Types
      <4> QED BY <1>9, <3>3, <4>1 DEF KeepsSafe
    <3>5. HoldsMessage(a, r)'
      <4>1. msgs' = msgs BY <1>5
      <4>2. \A d \in s.claimed : Of(d)' BY <3>2, <4>1 DEF Of
      <4> QED BY <3>1, <3>2, <4>1, <4>2 DEF HoldsMessage, Holding, Early
    <3>6. HoldsCopy(a, r)' BY <3>1, <3>2 DEF HoldsCopy, FlushPlaces
    <3>7. HoldsSend(r)' BY <3>1, <3>2, <3>4 DEF HoldsSend, Early
    <3> QED BY <3>1, <3>5, <3>6, <3>7 DEF ActorInv
  <2> QED BY <2>1, <2>2
<1> QED BY <1>2, <1>5, <1>6, <1>7, <1>8, <1>10, TalkStep

\* One SMS of the fallback.
LEMMA FallbackSendKeeps ==
  ASSUME NotifierInv, NEW a \in Actors, NEW o, FallbackSend(a, o)
  PROVE  NotifierInv'
<1>1. PICK s : s = act[a] OBVIOUS
<1>2. s \in Actor /\ HoldsMessage(a, s) /\ (s.pc \notin Holding => s.msg.n = 0) BY <1>1, HandsOf
<1>3. s.pc = "sending" /\ s.msg.n = 0 /\ s.drops = <<>> BY <1>1, <1>2 DEF FallbackSend, At, Holding, HoldsMessage
<1>4. PICK item \in s.claimed : LET rest == s.claimed \ {item}
           unsent == CASE o = "ok" -> {} [] o = "abandoned" -> rest [] OTHER -> s.claimed
       IN /\ Send("sms", item.n, o)
          /\ smsProblems' = smsProblems \ {d.key : d \in unsent}
          /\ settlers' = IF o = "abandoned"
                           THEN settlers \cup {[tok |-> Token, key |-> item.key, n |-> item.n]}
                           ELSE settlers
          /\ Step(a, IF o = "ok" /\ rest # {} THEN [s EXCEPT !.claimed = rest] ELSE Idle)
  BY <1>1 DEF FallbackSend
<1>5. PICK rest : rest = s.claimed \ {item} OBVIOUS
<1>6. PICK n : n = item.n OBVIOUS
<1>7. /\ \A d \in s.claimed : Of(d) /\ d.kind = "problem"
      /\ s.next \in {"idle", "resolve", "fallback"} /\ (s.next = "resolve" => s.msg.kind = "resolved")
  BY <1>2 DEF HoldsMessage
<1>8. n \in 1..Len(msgs) /\ item.key \in Keys BY <1>6, <1>7 DEF Of
<1>9. smsProblems' \subseteq Keys BY <1>4 DEF NotifierInv, Types
<1>10. settlers' \subseteq [tok : Nat, key : Keys, n : Nat]
  <2>1. settlers \subseteq [tok : Nat, key : Keys, n : Nat] /\ Token \in Nat BY DEF NotifierInv, Types, Token
  <2>2. item.n \in Nat BY <1>6, <1>8
  <2>3. CASE o = "abandoned" BY <1>4, <1>8, <2>1, <2>2, <2>3
  <2>4. CASE o # "abandoned" BY <1>4, <2>1, <2>4
  <2> QED BY <2>3, <2>4
<1>11. PICK r : r = IF o = "ok" /\ rest # {} THEN [s EXCEPT !.claimed = rest] ELSE Idle OBVIOUS
<1>12. Step(a, r) /\ Send("sms", n, o) BY <1>4, <1>5, <1>6, <1>11
<1>13. /\ r \in Actor /\ r.msg.n = 0 /\ r.drops = <<>> /\ r.pc \in {"idle", "sending"}
       /\ r.next \in {"idle", "resolve", "fallback"} /\ (r.next = "resolve" => r.msg.kind = "resolved")
       /\ r.claimed \subseteq s.claimed
  <2>1. CASE o = "ok" /\ rest # {}
    <3>1. r = [s EXCEPT !.claimed = rest] /\ rest \subseteq s.claimed BY <1>5, <1>11, <2>1
    <3>2. /\ r \in Actor /\ r.msg = s.msg /\ r.drops = s.drops /\ r.pc = s.pc /\ r.next = s.next
          /\ r.claimed = rest
      BY <1>2, <3>1 DEF Actor
    <3> QED BY <1>3, <1>7, <3>1, <3>2
  <2>2. CASE ~(o = "ok" /\ rest # {})
    <3>1. r = Idle BY <1>11, <2>2
    <3> QED BY <3>1, IdleFacts
  <2> QED BY <2>1, <2>2
<1>14. UNCHANGED <<queueVars, telegramVars, offline, dropVars, storeVars, cond, msgs, flushes>>
  BY DEF FallbackSend
<1>15. failing' \in BOOLEAN /\ telegramOK' \in BOOLEAN BY <1>14 DEF telegramVars, NotifierInv, Types
<1>16. "sms" \in Channels /\ act[a].pc # "report" BY <1>1, <1>3 DEF Channels
<1>17. /\ Types' /\ GrowsMsgs /\ MessageInv' /\ HangInv' /\ KeepsTokens /\ KeepsSent /\ KeepsSafe
       /\ dropped' = dropped /\ Moved(a, r) /\ \A m \in Numbers(act[a].drops) : Safe(m)'
  BY <1>8, <1>9, <1>10, <1>12, <1>13, <1>14, <1>15, <1>16, SendQuiet
<1>18. \A d \in r.claimed : Of(d)' /\ d.kind = "problem" BY <1>7, <1>13, <1>14 DEF Of
<1>19. ActorInv(a, r)' BY <1>13, <1>18, EmptyHands
<1>20. Len(msgs) \in Nat /\ msgs' = msgs BY <1>14 DEF NotifierInv, Types
<1>21. \A m \in 1..Len(msgs) : ~(m = act[a].msg.n) BY <1>1, <1>3, <1>20
<1>22. \A m \in 1..Len(msgs') : ~(m > Len(msgs)) BY <1>20
<1> QED BY <1>13, <1>14, <1>17, <1>19, <1>21, <1>22, QuietStep

-----------------------------------------------------------------------------
(* Flush *)

\* A copy of the queue, whose numbers still mean the same messages.
Copied(due) ==
  \A j \in 1..Len(due) :
    /\ due[j].id < nextID /\ Of(due[j])
    /\ \A i \in 1..Len(queue) : queue[i].id = due[j].id => queue[i].n = due[j].n

\* The copy stays good while numbers keep their messages.
LEMMA CopyStays ==
  ASSUME Types, Types', GrowsMsgs, KeepsNumbers, NEW due \in Seq(Item), Copied(due)
  PROVE  Copied(due)'
<1> SUFFICES ASSUME NEW j \in 1..Len(due)
             PROVE  /\ due[j].id < nextID' /\ Of(due[j])'
                    /\ \A i \in 1..Len(queue') : queue'[i].id = due[j].id => queue'[i].n = due[j].n
  BY DEF Copied
<1>1. /\ msgs \in Seq(Message) /\ msgs' \in Seq(Message) /\ nextID \in Nat /\ nextID' \in Nat
      /\ nextID <= nextID' /\ queue \in Seq(Item) /\ queue' \in Seq(Item)
  BY DEF Types, KeepsNumbers
<1>2. due[j] \in Item /\ due[j].id < nextID /\ Of(due[j])
      /\ \A i \in 1..Len(queue) : queue[i].id = due[j].id => queue[i].n = due[j].n
  BY DEF Copied
<1>3. due[j].id \in Nat BY <1>2 DEF Item
<1>4. Of(due[j])' BY <1>1, <1>2, OfStays
<1>5. ASSUME NEW i \in 1..Len(queue'), queue'[i].id = due[j].id
      PROVE  queue'[i].n = due[j].n
  <2>1. ~(queue'[i].id >= nextID) BY <1>1, <1>2, <1>3, <1>5
  <2>2. PICK k \in 1..Len(queue) : queue'[i] = queue[k] BY <2>1 DEF KeepsNumbers
  <2> QED BY <1>2, <1>5, <2>2
<1>6. due[j].id < nextID' BY <1>1, <1>2, <1>3
<1> QED BY <1>4, <1>5, <1>6

\* The rest of the copy is one too.
LEMMA TailCopied ==
  ASSUME NEW due \in Seq(Item), due # <<>>, Copied(due)'
  PROVE  Copied(Tail(due))' /\ Tail(due) \in Seq(Item) /\ Head(due) = due[1] /\ 1 \in 1..Len(due)
<1>1. /\ Tail(due) \in Seq(Item) /\ Len(Tail(due)) = Len(due) - 1 /\ Len(due) \in Nat /\ Len(due) # 0
      /\ \A j \in 1..(Len(due) - 1) : Tail(due)[j] = due[j + 1]
  OBVIOUS
<1>2. \A j \in 1..(Len(due) - 1) : j + 1 \in 1..Len(due) BY <1>1
<1>3. PICK rest : rest = Tail(due) OBVIOUS
<1>4. \A j \in 1..Len(rest) : j + 1 \in 1..Len(due) /\ rest[j] = due[j + 1] BY <1>1, <1>2, <1>3
<1>5. ASSUME NEW j \in 1..Len(rest)
      PROVE  /\ rest[j].id < nextID' /\ Of(rest[j])'
             /\ \A i \in 1..Len(queue') : queue'[i].id = rest[j].id => queue'[i].n = rest[j].n
  <2>1. PICK k \in 1..Len(due) : rest[j] = due[k] BY <1>4
  <2>2. /\ due[k].id < nextID' /\ Of(due[k])'
        /\ \A i \in 1..Len(queue') : queue'[i].id = due[k].id => queue'[i].n = due[k].n
    BY DEF Copied
  <2> QED BY <2>1, <2>2
<1>6. Copied(rest)' BY <1>5 DEF Copied
<1>7. 1 \in 1..Len(due) /\ Head(due) = due[1] BY <1>1
<1> QED BY <1>1, <1>3, <1>6, <1>7

\* The flush goes on with a good copy, or to the fallback.
LEMMA FlushingInv ==
  ASSUME NEW rest \in Seq(Item), NEW blocked \in SUBSET Channels, Copied(rest)', NEW r, r = Flushing(rest, blocked)
  PROVE  r \in Actor /\ r.msg.n = 0 /\ r.drops = <<>> /\ ActorInv("tick", r)'
<1>0. "tick" \in Actors BY NotifierAssumption
<1>1. CASE rest = <<>>
  <2>1. r = [Idle EXCEPT !.pc = "fallback"] BY <1>1 DEF Flushing
  <2>2. "fallback" \in Places /\ Idle \in Actor BY IdleFacts DEF Places
  <2>3. /\ r \in Actor /\ r.pc = "fallback" /\ r.msg = Idle.msg /\ r.drops = Idle.drops /\ r.next = Idle.next
        /\ r.claimed = Idle.claimed
    BY <2>1, <2>2 DEF Actor
  <2> QED BY <1>0, <2>3, IdleFacts, EmptyHands
<1>2. CASE rest # <<>>
  <2>1. r = [Idle EXCEPT !.pc = "flush", !.due = rest, !.blocked = blocked] BY <1>2 DEF Flushing
  <2>2. "flush" \in Places /\ Idle \in Actor BY IdleFacts DEF Places
  <2>3. /\ r \in Actor /\ r.pc = "flush" /\ r.msg = Idle.msg /\ r.drops = Idle.drops /\ r.next = Idle.next
        /\ r.claimed = Idle.claimed /\ r.due = rest
    BY <2>1, <2>2 DEF Actor
  <2>4. r.msg.n = 0 /\ r.drops = <<>> /\ r.next = "idle" /\ r.claimed = {} BY <2>3, IdleFacts
  <2>5. HoldsMessage("tick", r)' BY <2>3, <2>4 DEF HoldsMessage, Early
  <2>6. HoldsCopy("tick", r)' BY <1>2, <2>3 DEF HoldsCopy, Copied
  <2>7. HoldsSend(r)' BY <2>3 DEF HoldsSend, Early, Late
  <2> QED BY <2>3, <2>4, <2>5, <2>6, <2>7 DEF ActorInv
<1> QED BY <1>1, <1>2

\* A step of the tick that takes messages out of the queue, or none.
LEMMA PartQuiet ==
  ASSUME NotifierInv, NEW r \in Actor, Step("tick", r), PartOf(queue', queue), dropped \subseteq dropped',
         UNCHANGED <<nextID, resolvedBefore, flights, marked, smsVars, telegramVars, offline,
                     sendVars, undelivered, storeVars, cond, msgs>>
  PROVE  /\ Types' /\ GrowsMsgs /\ MessageInv' /\ HangInv' /\ KeepsTokens /\ KeepsSent /\ KeepsNumbers
         /\ QueueInv' /\ FlightInv' /\ MarkInv' /\ Moved("tick", r) /\ Numbers(queue') \subseteq Numbers(queue)
<1>1. Types /\ MessageInv /\ HangInv /\ QueueInv /\ FlightInv /\ MarkInv BY DEF NotifierInv
<1>2. Moved("tick", r) BY <1>1, StepMoves, NotifierAssumption DEF Types
<1>3. Types'
  <2>1. act' \in [Actors -> Actor] BY <1>2 DEF Moved
  <2>2. queue' \in Seq(Item) /\ Len(queue') <= MaxQueue
    <3>1. /\ queue' \in Seq(Item) /\ Len(queue') <= Len(queue) /\ Len(queue') \in Nat /\ Len(queue) \in Nat
          /\ Len(queue) <= MaxQueue /\ MaxQueue \in Nat
      BY <1>1, NotifierAssumption DEF PartOf, Types
    <3> QED BY <3>1
  <2> QED BY <1>1, <2>1, <2>2 DEF Types, smsVars, telegramVars, sendVars, storeVars
<1>4. GrowsMsgs /\ MessageInv'
  <2>1. Len(msgs) \in Nat BY <1>1 DEF Types
  <2> QED BY <1>1, <2>1 DEF GrowsMsgs, MessageInv
<1>5. HangInv' /\ KeepsTokens /\ KeepsSent BY <1>1, <1>3, <1>4, NoSend DEF sendVars
<1>6. flights' \subseteq flights /\ UNCHANGED <<resolvedBefore, marked, stored, loaded>> BY DEF storeVars
<1>7. QueueInv' /\ FlightInv' /\ MarkInv' /\ KeepsNumbers /\ Numbers(queue') \subseteq Numbers(queue)
  BY <1>1, <1>3, <1>4, <1>5, <1>6, PartQueue
<1> QED BY <1>2, <1>3, <1>4, <1>5, <1>7

\* Such a step keeps the invariant when what it takes out is safe.
LEMMA PartStep ==
  ASSUME NotifierInv, NEW r \in Actor, Step("tick", r), PartOf(queue', queue), dropped \subseteq dropped',
         UNCHANGED <<nextID, resolvedBefore, flights, marked, smsVars, telegramVars, offline,
                     sendVars, undelivered, storeVars, cond, msgs>>,
         act["tick"].pc \in FlushPlaces \cup {"idle"}, r.msg.n = 0, ActorInv("tick", r)',
         \A j \in 1..Len(queue) : \/ \E i \in 1..Len(queue') : queue'[i] = queue[j]
                                  \/ \A n : n = queue[j].n => Safe(n)'
  PROVE  NotifierInv'
<1>1. Types /\ "tick" \in Actors BY NotifierAssumption DEF NotifierInv
<1>2. /\ Types' /\ GrowsMsgs /\ MessageInv' /\ HangInv' /\ KeepsTokens /\ KeepsSent
      /\ QueueInv' /\ FlightInv' /\ MarkInv' /\ Moved("tick", r) /\ Numbers(queue') \subseteq Numbers(queue)
  BY PartQuiet
<1>3. UNCHANGED <<marked, stored, loaded, crashed>> BY DEF storeVars
<1>4. ASSUME NEW n \in Numbers(queue) PROVE Safe(n)'
  <2>1. PICK j \in 1..Len(queue) : n = queue[j].n BY DEF Numbers
  <2>2. CASE \E i \in 1..Len(queue') : queue'[i] = queue[j]
    <3>1. n \in Numbers(queue)' BY <2>1, <2>2 DEF Numbers
    <3> QED BY <3>1 DEF Safe, Queued
  <2> QED BY <2>1, <2>2
<1>5. Numbers(act["tick"].drops) = {} /\ act["tick"].msg.n = 0
  BY <1>1, HandsOf DEF FlushPlaces, Holding
<1>6. KeepsSafe BY <1>1, <1>2, <1>3, <1>4, <1>5, SafeStays
<1>7. Numbers(queue') \cup marked' \subseteq Numbers(queue) \cup marked BY <1>2, <1>3
<1>8. Len(msgs) \in Nat BY <1>1 DEF Types
<1>9. \A n \in 1..Len(msgs) : ~(n = act["tick"].msg.n) BY <1>5, <1>8
<1>10. \A n \in 1..Len(msgs') : ~(n > Len(msgs)) BY <1>8
<1>11. crashed \subseteq crashed' BY <1>3
<1> QED BY <1>1, <1>2, <1>3, <1>6, <1>7, <1>9, <1>10, <1>11, StepKeeps

\* The state of a tick that flushes.
LEMMA FlushHands ==
  ASSUME NotifierInv, NEW s, s = act["tick"], s.pc \in FlushPlaces
  PROVE  /\ s \in Actor /\ s.due \in Seq(Item) /\ s.due # <<>> /\ s.blocked \in SUBSET Channels /\ Copied(s.due)
         /\ 1 \in 1..Len(s.due) /\ Head(s.due) = s.due[1] /\ s.due[1] \in Item
         /\ s.due[1].n \in 1..Len(msgs) /\ s.due[1].n \in 1..MaxMsgs
         /\ s.pc = "flushed" => WasSent(s.due[1].n)
         /\ s.pc = "unflushed" => TokenOf(s.tok, s.due[1].n)
         /\ s.pc = "unflushed" /\ s.tok # 0 => \A f \in flights : f.id # s.due[1].id
         /\ s.msg.n = 0 /\ s.drops = <<>>
<1>1. s \in Actor /\ HoldsMessage("tick", s) /\ HoldsCopy("tick", s) /\ (s.pc \notin Holding => s.msg.n = 0)
  BY HandsOf, NotifierAssumption
<1>2. s.due \in Seq(Item) /\ s.blocked \in SUBSET Channels BY <1>1 DEF Actor
<1>3. s.due # <<>> /\ Copied(s.due) BY <1>1 DEF HoldsCopy, Copied
<1>4. 1 \in 1..Len(s.due) /\ Head(s.due) = s.due[1] /\ s.due[1] \in Item BY <1>2, <1>3
<1>5. s.due[1].n \in 1..Len(msgs) BY <1>3, <1>4 DEF Copied, Of
<1>6. s.due[1].n \in 1..MaxMsgs BY <1>5, NotifierAssumption DEF NotifierInv, Types
<1>7. s.msg.n = 0 /\ s.drops = <<>> BY <1>1 DEF FlushPlaces, Holding, HoldsMessage
<1>8. /\ s.pc = "flushed" => WasSent(s.due[1].n)
      /\ s.pc = "unflushed" => TokenOf(s.tok, s.due[1].n)
      /\ s.pc = "unflushed" /\ s.tok # 0 => \A f \in flights : f.id # s.due[1].id
  BY <1>1 DEF HoldsCopy
<1> QED BY <1>1, <1>2, <1>3, <1>4, <1>5, <1>6, <1>7, <1>8

\* Flush skips a message, or drops a stale one.
LEMMA FlushSkipKeeps ==
  ASSUME NotifierInv, FlushSkip
  PROVE  NotifierInv'
<1>1. PICK s : s = act["tick"] OBVIOUS
<1>2. s.pc = "flush" /\ s.pc \in FlushPlaces BY <1>1 DEF FlushSkip, At, FlushPlaces
<1>3. /\ s.due \in Seq(Item) /\ s.due # <<>> /\ s.blocked \in SUBSET Channels /\ Copied(s.due)
      /\ 1 \in 1..Len(s.due) /\ Head(s.due) = s.due[1] /\ s.due[1] \in Item
  BY <1>1, <1>2, FlushHands
<1>4. PICK item : item = s.due[1] OBVIOUS
<1>5. PICK kept : kept = (item.ch \in s.blocked \/ InFlight(item.id)) OBVIOUS
<1>6. PICK blocked : blocked = IF kept THEN s.blocked \cup {item.ch} ELSE s.blocked OBVIOUS
<1>7. PICK r : r = Flushing(Tail(s.due), blocked) OBVIOUS
<1>8. /\ queue' = IF kept THEN queue ELSE RemoveID(queue, item.id)
      /\ dropped' = IF kept THEN dropped ELSE dropped \cup {item.n}
      /\ Step("tick", r)
      /\ UNCHANGED <<nextID, resolvedBefore, flights, marked, smsVars, telegramVars, offline,
                     sendVars, undelivered, storeVars, cond, msgs>>
  BY <1>1, <1>3, <1>4, <1>5, <1>6, <1>7 DEF FlushSkip
<1>9. blocked \in SUBSET Channels
  <2>1. item.ch \in Channels BY <1>3, <1>4 DEF Item
  <2> QED BY <1>3, <1>6, <2>1
<1>10. queue \in Seq(Item) /\ Types BY DEF NotifierInv, Types
<1>11. /\ PartOf(queue', queue)
       /\ \A j \in 1..Len(queue) : \/ \E i \in 1..Len(queue') : queue'[i] = queue[j]
                                   \/ queue[j].id = item.id /\ ~kept
  <2>1. CASE kept BY <1>8, <1>10, <2>1 DEF PartOf
  <2>2. CASE ~kept BY <1>8, <1>10, <2>2, RemoveParts
  <2> QED BY <2>1, <2>2
<1>12. Tail(s.due) \in Seq(Item) BY <1>3
<1>13. r \in Actor
  <2>1. Idle \in Actor /\ "fallback" \in Places /\ "flush" \in Places BY IdleFacts DEF Places
  <2>2. CASE Tail(s.due) = <<>>
    <3>1. r = [Idle EXCEPT !.pc = "fallback"] BY <1>7, <2>2 DEF Flushing
    <3> QED BY <2>1, <3>1 DEF Actor
  <2>3. CASE Tail(s.due) # <<>>
    <3>1. r = [Idle EXCEPT !.pc = "flush", !.due = Tail(s.due), !.blocked = blocked] BY <1>7, <2>3 DEF Flushing
    <3> QED BY <1>9, <1>12, <2>1, <3>1 DEF Actor
  <2> QED BY <2>2, <2>3
<1>14. dropped \subseteq dropped' BY <1>8
<1>15. Types' /\ GrowsMsgs /\ KeepsNumbers BY <1>8, <1>11, <1>13, <1>14, PartQuiet
<1>16. Copied(s.due)' BY <1>3, <1>10, <1>15, CopyStays
<1>17. Copied(Tail(s.due))' BY <1>3, <1>16, TailCopied
<1>18. r.msg.n = 0 /\ ActorInv("tick", r)' BY <1>7, <1>9, <1>12, <1>17, FlushingInv
<1>19. ASSUME NEW j \in 1..Len(queue)
       PROVE  (\E i \in 1..Len(queue') : queue'[i] = queue[j]) \/ (\A n : n = queue[j].n => Safe(n)')
  <2>1. CASE queue[j].id = item.id /\ ~kept
    <3>1. queue[j].n = item.n BY <1>3, <1>4, <2>1 DEF Copied
    <3>2. item.n \in dropped' BY <1>8, <2>1
    <3> QED BY <3>1, <3>2 DEF Safe
  <2> QED BY <1>11, <2>1
<1>20. act["tick"].pc \in FlushPlaces \cup {"idle"} BY <1>1, <1>2
<1> QED BY <1>8, <1>11, <1>13, <1>14, <1>18, <1>19, <1>20, PartStep

\* Flush removes what it sent: the number still means that message.
LEMMA FlushRemoveKeeps ==
  ASSUME NotifierInv, FlushRemove
  PROVE  NotifierInv'
<1>1. PICK s : s = act["tick"] OBVIOUS
<1>2. s.pc = "flushed" /\ s.pc \in FlushPlaces BY <1>1 DEF FlushRemove, At, FlushPlaces
<1>3. /\ s.due \in Seq(Item) /\ s.due # <<>> /\ s.blocked \in SUBSET Channels /\ Copied(s.due)
      /\ 1 \in 1..Len(s.due) /\ Head(s.due) = s.due[1] /\ s.due[1] \in Item
      /\ s.due[1].n \in 1..MaxMsgs /\ WasSent(s.due[1].n)
  BY <1>1, <1>2, FlushHands
<1>4. PICK item : item = s.due[1] OBVIOUS
<1>7. PICK r : r = Flushing(Tail(s.due), s.blocked) OBVIOUS
<1>8. /\ queue' = RemoveID(queue, item.id) /\ dropped' = dropped /\ Step("tick", r)
      /\ UNCHANGED <<nextID, resolvedBefore, flights, marked, smsVars, telegramVars, offline,
                     sendVars, undelivered, storeVars, cond, msgs>>
  BY <1>1, <1>3, <1>4, <1>7 DEF FlushRemove, dropVars
<1>10. queue \in Seq(Item) /\ Types BY DEF NotifierInv, Types
<1>11. /\ PartOf(queue', queue)
       /\ \A j \in 1..Len(queue) : \/ \E i \in 1..Len(queue') : queue'[i] = queue[j]
                                   \/ queue[j].id = item.id
  BY <1>8, <1>10, RemoveParts
<1>12. Tail(s.due) \in Seq(Item) BY <1>3
<1>13. r \in Actor
  <2>1. Idle \in Actor /\ "fallback" \in Places /\ "flush" \in Places BY IdleFacts DEF Places
  <2>2. CASE Tail(s.due) = <<>>
    <3>1. r = [Idle EXCEPT !.pc = "fallback"] BY <1>7, <2>2 DEF Flushing
    <3> QED BY <2>1, <3>1 DEF Actor
  <2>3. CASE Tail(s.due) # <<>>
    <3>1. r = [Idle EXCEPT !.pc = "flush", !.due = Tail(s.due), !.blocked = s.blocked] BY <1>7, <2>3 DEF Flushing
    <3> QED BY <1>3, <1>12, <2>1, <3>1 DEF Actor
  <2> QED BY <2>2, <2>3
<1>14. dropped \subseteq dropped' BY <1>8
<1>15. Types' /\ GrowsMsgs /\ KeepsNumbers /\ KeepsSent BY <1>8, <1>11, <1>13, <1>14, PartQuiet
<1>16. Copied(s.due)' BY <1>3, <1>10, <1>15, CopyStays
<1>17. Copied(Tail(s.due))' BY <1>3, <1>16, TailCopied
<1>18. r.msg.n = 0 /\ ActorInv("tick", r)' BY <1>3, <1>7, <1>12, <1>17, FlushingInv
<1>19. ASSUME NEW j \in 1..Len(queue)
       PROVE  (\E i \in 1..Len(queue') : queue'[i] = queue[j]) \/ (\A n : n = queue[j].n => Safe(n)')
  <2>1. CASE queue[j].id = item.id
    <3>1. queue[j].n = item.n BY <1>3, <1>4, <2>1 DEF Copied
    <3>2. WasSent(item.n)' BY <1>3, <1>4, <1>15 DEF KeepsSent
    <3> QED BY <3>1, <3>2 DEF Safe
  <2> QED BY <1>11, <2>1
<1>20. act["tick"].pc \in FlushPlaces \cup {"idle"} BY <1>1, <1>2
<1> QED BY <1>8, <1>11, <1>13, <1>14, <1>18, <1>19, <1>20, PartStep

\* Expire drops the oldest message, which the tick then reports.
LEMMA ExpireKeeps ==
  ASSUME NotifierInv, Expire
  PROVE  NotifierInv'
<1>1. queue \in Seq(Item) /\ queue # <<>> /\ act["tick"].pc = "idle"
  BY DEF NotifierInv, Types, Expire, At
<1>2. PICK drops : drops = <<Head(queue)>> OBVIOUS
<1>3. PICK r : r = [Idle EXCEPT !.pc = "report", !.next = "idle", !.drops = drops] OBVIOUS
<1>4. drops \in Seq(Item) /\ drops # <<>> /\ Len(drops) = 1 /\ drops[1] = queue[1] BY <1>1, <1>2
<1>5. /\ queue' = Tail(queue) /\ Step("tick", r) /\ dropped' = dropped
      /\ UNCHANGED <<nextID, resolvedBefore, flights, marked, smsVars, telegramVars, offline,
                     sendVars, undelivered, storeVars, cond, msgs>>
  BY <1>2, <1>3, <1>4 DEF Expire, GoOn, dropVars
<1>6. r \in Actor /\ r.pc = "report" /\ r.next = "idle" /\ r.drops = drops /\ r.msg = Idle.msg
      /\ r.claimed = Idle.claimed
  <2>1. Idle \in Actor /\ "report" \in Places /\ "idle" \in Places BY IdleFacts DEF Places
  <2> QED BY <1>3, <1>4, <2>1 DEF Actor
<1>7. /\ Len(queue) \in Nat /\ Len(queue) # 0 /\ queue' \in Seq(Item) /\ Len(queue') = Len(queue) - 1
      /\ \A i \in 1..(Len(queue) - 1) : queue'[i] = queue[i + 1]
  BY <1>1, <1>5
<1>8. \A i \in 1..Len(queue') : i + 1 \in 1..Len(queue) BY <1>7
<1>9. PartOf(queue', queue)
  <2>1. Sorted(queue) => Sorted(queue')
    <3> SUFFICES ASSUME Sorted(queue), NEW i \in 1..Len(queue'), NEW j \in 1..Len(queue'), i < j
                 PROVE  queue'[i].id < queue'[j].id
      BY DEF Sorted
    <3>1. i + 1 < j + 1 BY <1>7
    <3> QED BY <1>7, <1>8, <3>1 DEF Sorted
  <2>2. \A i \in 1..Len(queue') : \E j \in 1..Len(queue) : queue'[i] = queue[j] BY <1>7, <1>8
  <2>3. Len(queue') <= Len(queue) BY <1>7
  <2> QED BY <1>7, <2>1, <2>2, <2>3 DEF PartOf
<1>10. Moved("tick", r) BY <1>5, <1>6, PartQuiet, <1>9
<1>11. ASSUME NEW j \in 1..Len(queue)
       PROVE  (\E i \in 1..Len(queue') : queue'[i] = queue[j]) \/ (\A n : n = queue[j].n => Safe(n)')
  <2>1. CASE j = 1
    <3>1. act'["tick"].drops = drops /\ "tick" \in Actors BY <1>6, <1>10, NotifierAssumption DEF Moved
    <3>2. queue[j].n \in Numbers(drops) BY <1>4, <2>1 DEF Numbers
    <3>3. \A n : n = queue[j].n => n \in Dropping' BY <3>1, <3>2 DEF Dropping, Numbers
    <3> QED BY <3>3 DEF Safe, Queued
  <2>2. CASE j # 1
    <3>1. j - 1 \in 1..(Len(queue) - 1) /\ (j - 1) + 1 = j /\ j - 1 \in 1..Len(queue') BY <1>7, <2>2
    <3> QED BY <1>7, <3>1
  <2> QED BY <2>1, <2>2
<1>12. r.msg.n = 0 /\ r.claimed = {} /\ r.msg.kind = "event" BY <1>6, IdleFacts
<1>13. ActorInv("tick", r)'
  <2>1. HoldsMessage("tick", r)' BY <1>6, <1>12 DEF HoldsMessage, Early
  <2>2. HoldsCopy("tick", r)' BY <1>6 DEF HoldsCopy, FlushPlaces
  <2>3. HoldsSend(r)' BY <1>6, <1>12 DEF HoldsSend, Early
  <2> QED BY <2>1, <2>2, <2>3 DEF ActorInv
<1> QED BY <1>1, <1>5, <1>6, <1>9, <1>11, <1>12, <1>13, PartStep

\* Flush's copy is a good one.
LEMMA FlushBeginKeeps ==
  ASSUME NotifierInv, FlushBegin
  PROVE  NotifierInv'
<1>1. Types /\ QueueInv /\ "tick" \in Actors BY NotifierAssumption DEF NotifierInv
<1>2. queue \in Seq(Item) /\ Len(queue) \in Nat BY <1>1 DEF Types
<1>3. PICK blocked \in SUBSET Channels : blocked = IF offline THEN {"tlg"} ELSE {} BY DEF Channels
<1>4. PICK r : r = [Idle EXCEPT !.pc = "flush", !.due = queue, !.blocked = blocked] OBVIOUS
<1>5. /\ act["tick"].pc = "idle" /\ queue # <<>> /\ Step("tick", r)
      /\ UNCHANGED <<queueVars, smsVars, telegramVars, offline, sendVars, dropVars, storeVars, cond, msgs>>
  BY <1>3, <1>4 DEF FlushBegin, At
<1>6. /\ r \in Actor /\ r.pc = "flush" /\ r.due = queue /\ r.msg = Idle.msg /\ r.next = Idle.next
      /\ r.drops = Idle.drops /\ r.claimed = Idle.claimed
  <2>1. Idle \in Actor /\ "flush" \in Places BY IdleFacts DEF Places
  <2> QED BY <1>2, <1>4, <2>1 DEF Actor
<1>7. r.msg.n = 0 /\ r.drops = <<>> /\ r.next = "idle" /\ r.claimed = {} BY <1>6, IdleFacts
<1>8. UNCHANGED <<queue, nextID, msgs, cond, smsProblems, settlers, undelivered, dropped>>
  BY <1>5 DEF queueVars, smsVars, dropVars
<1>9. ASSUME NEW j \in 1..Len(queue)
      PROVE  /\ queue[j].id < nextID /\ Of(queue[j])
             /\ \A i \in 1..Len(queue) : queue[i].id = queue[j].id => queue[i].n = queue[j].n
  <2>1. ASSUME NEW i \in 1..Len(queue), queue[i].id = queue[j].id PROVE queue[i].n = queue[j].n
    <3>1. queue[i] \in Item /\ queue[j] \in Item BY <1>2
    <3>2. queue[i].id \in Nat /\ queue[j].id \in Nat BY <3>1 DEF Item
    <3>3. ~(i < j) BY <1>1, <2>1, <3>2 DEF QueueInv, Sorted
    <3>4. ~(j < i) BY <1>1, <2>1, <3>2 DEF QueueInv, Sorted
    <3>5. i = j BY <1>2, <3>3, <3>4
    <3> QED BY <3>5
  <2> QED BY <1>1, <2>1 DEF QueueInv
<1>10. HoldsCopy("tick", r)'
  <2>1. \A j \in 1..Len(r.due) : /\ r.due[j].id < nextID' /\ Of(r.due[j])'
               /\ \A i \in 1..Len(queue') : queue'[i].id = r.due[j].id => queue'[i].n = r.due[j].n
    BY <1>6, <1>8, <1>9 DEF Of
  <2> QED BY <1>5, <1>6, <2>1 DEF HoldsCopy
<1>11. HoldsMessage("tick", r)' BY <1>6, <1>7 DEF HoldsMessage, Early
<1>12. HoldsSend(r)' BY <1>6, <1>7 DEF HoldsSend, Early, Late
<1>13. ActorInv("tick", r)' BY <1>10, <1>11, <1>12 DEF ActorInv
<1>14. Numbers(act["tick"].drops) = {} BY <1>1, <1>5, HandsOf
<1>15. smsProblems' \subseteq Keys /\ cond' \in Cond /\ undelivered' \subseteq Nat BY <1>1, <1>8 DEF Types
<1> QED BY <1>1, <1>5, <1>6, <1>7, <1>8, <1>13, <1>14, <1>15, TalkStep

\* Flush sends a message of its copy.
LEMMA FlushSendKeeps ==
  ASSUME NotifierInv, NEW o, FlushSend(o)
  PROVE  NotifierInv'
<1>0. "tick" \in Actors BY NotifierAssumption
<1>1. PICK s : s = act["tick"] OBVIOUS
<1>2. s.pc = "flush" /\ s.pc \in FlushPlaces BY <1>1 DEF FlushSend, At, FlushPlaces
<1>3. /\ s \in Actor /\ s.due \in Seq(Item) /\ s.due # <<>> /\ Copied(s.due)
      /\ 1 \in 1..Len(s.due) /\ Head(s.due) = s.due[1] /\ s.due[1] \in Item
      /\ s.due[1].n \in 1..Len(msgs) /\ s.msg.n = 0 /\ s.drops = <<>>
  BY <1>1, <1>2, FlushHands
<1>4. PICK item : item = s.due[1] OBVIOUS
<1>5. PICK n : n = item.n OBVIOUS
<1>6. PICK ch \in Channels : ch = item.ch BY <1>3, <1>4 DEF Item
<1>7. PICK tok : tok = IF o = "abandoned" THEN Token ELSE 0 OBVIOUS
<1>8. PICK pc \in {"flushed", "unflushed"} : pc = IF o = "ok" THEN "flushed" ELSE "unflushed" OBVIOUS
<1>9. PICK r : r = [s EXCEPT !.pc = pc, !.tok = tok] OBVIOUS
<1>10. /\ Send(ch, n, o) /\ ~InFlight(item.id) /\ Step("tick", r)
       /\ IF item.ch = "tlg" THEN TelegramSent(o) ELSE UNCHANGED telegramVars
       /\ UNCHANGED <<queueVars, smsVars, offline, byFallback, dropVars, storeVars, cond, msgs, flushes>>
  BY <1>1, <1>3, <1>4, <1>5, <1>6, <1>7, <1>8, <1>9 DEF FlushSend
<1>11. failing' \in BOOLEAN /\ telegramOK' \in BOOLEAN
  <2>1. failing \in BOOLEAN /\ telegramOK \in BOOLEAN BY DEF NotifierInv, Types
  <2>2. CASE item.ch = "tlg" BY <1>10, <2>1, <2>2 DEF TelegramSent
  <2>3. CASE item.ch # "tlg" BY <1>10, <2>1, <2>3 DEF telegramVars
  <2> QED BY <2>2, <2>3
<1>12. tok \in Nat
  <2>1. hangs \in Nat BY DEF NotifierInv, Types
  <2> QED BY <1>7, <2>1 DEF Token
<1>13. /\ r \in Actor /\ r.pc = pc /\ r.tok = tok /\ r.due = s.due /\ r.msg = s.msg /\ r.drops = s.drops
       /\ r.next = s.next /\ r.claimed = s.claimed
  <2>1. pc \in Places BY DEF Places
  <2> QED BY <1>3, <1>9, <1>12, <2>1 DEF Actor
<1>14. smsProblems' \subseteq Keys /\ settlers' \subseteq [tok : Nat, key : Keys, n : Nat]
  BY <1>10 DEF smsVars, NotifierInv, Types
<1>15. n \in 1..Len(msgs) /\ act["tick"].pc # "report" BY <1>1, <1>2, <1>3, <1>4, <1>5
<1>16. /\ Types' /\ GrowsMsgs /\ MessageInv' /\ HangInv' /\ KeepsTokens /\ KeepsSent
       /\ dropped' = dropped /\ Moved("tick", r) /\ \A m \in Numbers(act["tick"].drops) : Safe(m)'
       /\ o = "ok" => WasSent(n)'
       /\ \A t : t = Token /\ o = "abandoned" => t \in Nat /\ t # 0 /\ TokenOf(t, n)'
  BY <1>0, <1>10, <1>11, <1>13, <1>14, <1>15, SendQuiet
<1>17. UNCHANGED <<queue, nextID, flights, msgs>> BY <1>10 DEF queueVars
<1>18. HoldsCopy("tick", r)'
  <2>1. \A j \in 1..Len(r.due) : /\ r.due[j].id < nextID' /\ Of(r.due[j])'
               /\ \A i \in 1..Len(queue') : queue'[i].id = r.due[j].id => queue'[i].n = r.due[j].n
    BY <1>3, <1>13, <1>17 DEF Copied, Of
  <2>2. r.pc = "flushed" => WasSent(r.due[1].n)' BY <1>4, <1>5, <1>8, <1>13, <1>16
  <2>3. TokenOf(r.tok, r.due[1].n)' /\ r.due # <<>>
    <3>1. CASE o = "abandoned" BY <1>3, <1>4, <1>5, <1>7, <1>13, <1>16, <3>1
    <3>2. CASE o # "abandoned" BY <1>3, <1>7, <1>13, <3>2 DEF TokenOf
    <3> QED BY <3>1, <3>2
  <2>4. \A f \in flights' : f.id # r.due[1].id BY <1>4, <1>10, <1>13, <1>17 DEF InFlight
  <2> QED BY <2>1, <2>2, <2>3, <2>4 DEF HoldsCopy
<1>19. HoldsMessage("tick", s) BY <1>0, <1>1, HandsOf
<1>20. HoldsMessage("tick", r)'
  <2>1. /\ s.next \in {"idle", "resolve", "fallback"} /\ (s.next = "resolve" => s.msg.kind = "resolved")
        /\ \A d \in s.claimed : Of(d) /\ d.kind = "problem"
    BY <1>19 DEF HoldsMessage
  <2>2. \A d \in r.claimed : Of(d)' /\ d.kind = "problem" BY <1>13, <1>17, <2>1 DEF Of
  <2> QED BY <1>3, <1>13, <2>1, <2>2 DEF HoldsMessage, Early
<1>21. HoldsSend(r)' BY <1>13 DEF HoldsSend, Early, Late
<1>22. ActorInv("tick", r)' BY <1>18, <1>20, <1>21 DEF ActorInv
<1>23. Len(msgs) \in Nat BY DEF NotifierInv, Types
<1>24. \A m \in 1..Len(msgs) : ~(m = act["tick"].msg.n) BY <1>1, <1>3, <1>23
<1>25. \A m \in 1..Len(msgs') : ~(m > Len(msgs)) BY <1>17, <1>23
<1>26. r.msg.n = 0 BY <1>3, <1>13
<1> QED BY <1>0, <1>10, <1>13, <1>16, <1>22, <1>24, <1>25, <1>26, QuietStep

\* Flush tracks an abandoned send on the message it was of.
LEMMA FlushTrackKeeps ==
  ASSUME NotifierInv, FlushTrack
  PROVE  NotifierInv'
<1>0. /\ "tick" \in Actors /\ Types /\ MessageInv /\ HangInv /\ QueueInv /\ FlightInv /\ MarkInv
  BY NotifierAssumption DEF NotifierInv
<1>1. PICK s : s = act["tick"] OBVIOUS
<1>2. s.pc = "unflushed" /\ s.pc \in FlushPlaces BY <1>1 DEF FlushTrack, At, FlushPlaces
<1>3. /\ s \in Actor /\ s.due \in Seq(Item) /\ s.due # <<>> /\ s.blocked \in SUBSET Channels /\ Copied(s.due)
      /\ 1 \in 1..Len(s.due) /\ Head(s.due) = s.due[1] /\ s.due[1] \in Item
      /\ s.due[1].n \in 1..Len(msgs) /\ s.due[1].n \in 1..MaxMsgs /\ s.msg.n = 0 /\ s.drops = <<>>
      /\ TokenOf(s.tok, s.due[1].n) /\ (s.tok # 0 => \A f \in flights : f.id # s.due[1].id)
  BY <1>1, <1>2, FlushHands
<1>4. PICK item : item = s.due[1] OBVIOUS
<1>5. PICK blocked : blocked = s.blocked \cup {item.ch} OBVIOUS
<1>6. PICK r : r = Flushing(Tail(s.due), blocked) OBVIOUS
<1>7. PICK new : new = [tok |-> s.tok, id |-> item.id, n |-> item.n] OBVIOUS
<1>8. /\ flights' = (IF s.tok = 0 THEN flights ELSE flights \cup {new}) /\ Step("tick", r)
      /\ UNCHANGED <<queue, nextID, resolvedBefore, marked, smsVars, telegramVars, offline,
                     sendVars, dropVars, storeVars, cond, msgs>>
  BY <1>1, <1>3, <1>4, <1>5, <1>6, <1>7 DEF FlushTrack
<1>9. item.id \in Nat /\ item.n \in Nat /\ item.ch \in Channels /\ s.tok \in Nat BY <1>3, <1>4 DEF Item, Actor
<1>10. blocked \in SUBSET Channels /\ Tail(s.due) \in Seq(Item) BY <1>3, <1>5, <1>9
<1>11. Copied(s.due)' BY <1>3, <1>8 DEF Copied, Of
<1>12. Copied(Tail(s.due))' BY <1>3, <1>11, TailCopied
<1>13. r \in Actor /\ r.msg.n = 0 /\ ActorInv("tick", r)' BY <1>6, <1>10, <1>12, FlushingInv
<1>14. Moved("tick", r) BY <1>0, <1>8, <1>13, StepMoves DEF Types
<1>15. new \in [tok : Nat, id : Nat, n : Nat] /\ new.tok = s.tok /\ new.id = item.id /\ new.n = item.n
  BY <1>7, <1>9
<1>16. Types'
  <2>1. act' \in [Actors -> Actor] BY <1>14 DEF Moved
  <2>2. flights' \subseteq [tok : Nat, id : Nat, n : Nat] BY <1>0, <1>8, <1>15 DEF Types
  <2> QED BY <1>0, <1>8, <2>1, <2>2 DEF Types, smsVars, telegramVars, sendVars, dropVars, storeVars
<1>17. GrowsMsgs /\ MessageInv' /\ Len(msgs) \in Nat
  <2>1. Len(msgs) \in Nat BY <1>0 DEF Types
  <2> QED BY <1>0, <1>8, <2>1 DEF GrowsMsgs, MessageInv
<1>18. HangInv' /\ KeepsTokens /\ KeepsSent BY <1>0, <1>8, <1>16, <1>17, NoSend DEF sendVars
<1>19. QueueInv' BY <1>0, <1>8 DEF QueueInv, Sorted, Of
<1>20. MarkInv' BY <1>0, <1>8 DEF MarkInv, ResolvedMarkSeparates, Numbers, storeVars
<1>21. FlightInv'
  <2>1. ASSUME NEW f \in flights'
        PROVE  /\ f.id < nextID' /\ f.n \in 1..Len(msgs') /\ f.tok # 0 /\ TokenOf(f.tok, f.n)'
               /\ \A i \in 1..Len(queue') : queue'[i].id = f.id => queue'[i].n = f.n
    <3>1. CASE f \in flights
      <4>1. /\ f.id < nextID /\ f.n \in 1..Len(msgs) /\ f.tok # 0 /\ TokenOf(f.tok, f.n)
            /\ \A i \in 1..Len(queue) : queue[i].id = f.id => queue[i].n = f.n
        BY <1>0, <3>1 DEF FlightInv
      <4>2. f.tok \in Nat /\ f.n \in 1..MaxMsgs BY <1>0, <3>1, <4>1, NotifierAssumption DEF Types
      <4>3. TokenOf(f.tok, f.n)' BY <1>18, <4>1, <4>2 DEF KeepsTokens
      <4> QED BY <1>8, <4>1, <4>3
    <3>2. CASE f = new /\ s.tok # 0
      <4>1. TokenOf(s.tok, item.n)' BY <1>3, <1>4, <1>9, <1>18 DEF KeepsTokens
      <4>2. /\ item.id < nextID /\ \A i \in 1..Len(queue) : queue[i].id = item.id => queue[i].n = item.n
        BY <1>3, <1>4 DEF Copied
      <4> QED BY <1>3, <1>4, <1>8, <1>15, <3>2, <4>1, <4>2
    <3> QED BY <1>8, <3>1, <3>2
  <2>2. \A f, g \in flights' : f.id = g.id => f = g
    <3>1. \A f, g \in flights : f.id = g.id => f = g BY <1>0 DEF FlightInv
    <3>2. s.tok # 0 => \A f \in flights : f.id # new.id BY <1>3, <1>4, <1>15
    <3> QED BY <1>8, <3>1, <3>2
  <2> QED BY <2>1, <2>2 DEF FlightInv
<1>22. UNCHANGED <<stored, loaded, crashed, dropped, marked, queue>> BY <1>8 DEF storeVars, dropVars
<1>23. \A n \in Numbers(queue) : Safe(n)' BY <1>22 DEF Safe, Queued, Numbers
<1>24. Numbers(act["tick"].drops) = {} BY <1>1, <1>3 DEF Numbers
<1>25. KeepsSafe BY <1>0, <1>13, <1>14, <1>16, <1>18, <1>22, <1>23, <1>24, SafeStays
<1>26. \A n \in 1..Len(msgs) : ~(n = act["tick"].msg.n) BY <1>1, <1>3, <1>17
<1>27. \A n \in 1..Len(msgs') : ~(n > Len(msgs)) BY <1>8, <1>17
<1> QED BY <1>0, <1>13, <1>14, <1>16, <1>17, <1>18, <1>19, <1>20, <1>21, <1>22, <1>25, <1>26, <1>27, StepKeeps

-----------------------------------------------------------------------------
(* The resolved marks *)

\* Marking the PROBLEMs queued so far keeps every mark between two streaks.
LEMMA MarkFacts ==
  ASSUME Types, Types', QueueInv, FlightInv, MarkInv, msgs' = msgs, KeepsTokens,
         NEW K, MarkResolved(K), UNCHANGED <<stored, loaded>>
  PROVE  /\ QueueInv' /\ FlightInv' /\ MarkInv' /\ KeepsNumbers
         /\ Numbers(queue') \cup marked' \subseteq Numbers(queue) \cup marked
<1>1. /\ queue \in Seq(Item) /\ nextID \in Nat /\ Len(msgs) \in Nat /\ MaxMsgs \in Nat /\ Len(msgs) <= MaxMsgs
      /\ resolvedBefore \in [Keys -> Nat] /\ flights \subseteq [tok : Nat, id : Nat, n : Nat]
  BY NotifierAssumption DEF Types
<1>2. UNCHANGED <<queue, nextID, flights>> BY DEF MarkResolved
<1>3. PICK new : new = {q.n : q \in {r \in Range(queue) : r.kind = "problem" /\ r.key \in K}} OBVIOUS
<1>4. marked' = marked \cup new BY <1>3 DEF MarkResolved
<1>5. \A n \in new : \E i \in 1..Len(queue) : queue[i].n = n /\ queue[i].kind = "problem" /\ queue[i].key \in K
  BY <1>1, <1>3 DEF Range
<1>6. \A i \in 1..Len(queue) : queue[i].kind = "problem" /\ queue[i].key \in K => queue[i].n \in new
  BY <1>1, <1>3 DEF Range
<1>7. Numbers(queue') \cup marked' \subseteq Numbers(queue) \cup marked BY <1>2, <1>4, <1>5 DEF Numbers
<1>8. QueueInv' BY <1>2 DEF QueueInv, Sorted, Of
<1>9. KeepsNumbers BY <1>1, <1>2 DEF KeepsNumbers
<1>10. FlightInv'
  <2>1. \A f \in flights : TokenOf(f.tok, f.n)'
    <3> SUFFICES ASSUME NEW f \in flights PROVE TokenOf(f.tok, f.n)'
      OBVIOUS
    <3>1. f.tok \in Nat /\ f.n \in 1..MaxMsgs /\ TokenOf(f.tok, f.n) BY <1>1 DEF FlightInv
    <3> QED BY <3>1 DEF KeepsTokens
  <2> QED BY <1>2, <2>1 DEF FlightInv
<1>11. ResolvedMarkSeparates'
  <2> SUFFICES ASSUME NEW i \in 1..Len(queue), queue[i].kind = "problem"
               PROVE  queue[i].n \in marked' <=> queue[i].id < resolvedBefore'[queue[i].key]
    BY <1>2 DEF ResolvedMarkSeparates
  <2>1. Of(queue[i]) /\ queue[i].id < nextID BY DEF QueueInv
  <2>2. queue[i].key \in Keys BY <2>1 DEF Of
  <2>3. resolvedBefore'[queue[i].key] = IF queue[i].key \in K THEN nextID ELSE resolvedBefore[queue[i].key]
    BY <2>2 DEF MarkResolved
  <2>4. CASE queue[i].key \in K BY <1>4, <1>6, <2>1, <2>3, <2>4
  <2>5. CASE queue[i].key \notin K
    <3>1. queue[i].n \notin new
      <4> SUFFICES ASSUME queue[i].n \in new PROVE FALSE
        OBVIOUS
      <4>1. PICK j \in 1..Len(queue) : queue[j].n = queue[i].n /\ queue[j].key \in K BY <1>5
      <4>2. Of(queue[j]) BY DEF QueueInv
      <4> QED BY <2>1, <2>5, <4>1, <4>2 DEF Of
    <3>2. queue[i].n \in marked <=> queue[i].id < resolvedBefore[queue[i].key]
      BY DEF MarkInv, ResolvedMarkSeparates
    <3> QED BY <1>4, <2>3, <2>5, <3>1, <3>2
  <2> QED BY <2>4, <2>5
<1>12. \A k \in Keys : resolvedBefore'[k] <= nextID'
  <2> SUFFICES ASSUME NEW k \in Keys PROVE resolvedBefore'[k] <= nextID
    BY <1>2
  <2>1. resolvedBefore'[k] = IF k \in K THEN nextID ELSE resolvedBefore[k] BY DEF MarkResolved
  <2> QED BY <1>1, <2>1 DEF MarkInv
<1>13. marked' \subseteq 1..Len(msgs')
  <2>1. \A i \in 1..Len(queue) : queue[i].n \in 1..Len(msgs) BY DEF QueueInv, Of
  <2> QED BY <1>4, <1>5, <2>1 DEF MarkInv
<1>14. ~loaded' => \A i \in 1..Len(stored'.queue) :
             stored'.queue[i].kind = "problem" => stored'.queue[i].n \notin Numbers(queue') \cup marked'
  BY <1>7 DEF MarkInv
<1>15. MarkInv' BY <1>11, <1>12, <1>13, <1>14 DEF MarkInv, Numbers
<1> QED BY <1>7, <1>8, <1>9, <1>10, <1>15

\* The marks are numbers.
LEMMA MarkTypes ==
  ASSUME Types, NEW K, MarkResolved(K)
  PROVE  resolvedBefore' \in [Keys -> Nat]
<1>1. nextID \in Nat /\ resolvedBefore \in [Keys -> Nat] BY DEF Types
<1> QED BY <1>1 DEF MarkResolved

\* A RESOLVED settles its PROBLEM's SMS.
LEMMA ResolveKeeps ==
  ASSUME NotifierInv, NEW a \in Actors, Resolve(a)
  PROVE  NotifierInv'
<1>1. Types /\ MessageInv /\ HangInv /\ QueueInv /\ FlightInv /\ MarkInv BY DEF NotifierInv
<1>2. PICK s : s = act[a] OBVIOUS
<1>3. s \in Actor /\ HoldsMessage(a, s) /\ HoldsSend(s) /\ (s.pc # "report" => Numbers(s.drops) = {}) BY <1>2, HandsOf
<1>4. PICK pc \in {"also", "fallback"} : pc = IF AlsoBySMS(a) THEN "also" ELSE "fallback" OBVIOUS
<1>5. PICK r : r = [s EXCEPT !.pc = pc] OBVIOUS
<1>6. /\ s.pc = "resolve" /\ MarkResolved({s.msg.key}) /\ smsProblems' = smsProblems \ {s.msg.key} /\ Step(a, r)
      /\ UNCHANGED <<settlers, telegramVars, offline, sendVars, dropVars, storeVars, cond, msgs, flushes>>
  BY <1>2, <1>4, <1>5 DEF Resolve, At
<1>7. /\ r \in Actor /\ r.pc = pc /\ r.msg = s.msg /\ r.drops = s.drops /\ r.next = s.next /\ r.claimed = s.claimed
  <2>1. pc \in Places BY DEF Places
  <2> QED BY <1>3, <1>5, <2>1 DEF Actor
<1>8. Moved(a, r) BY <1>1, <1>6, <1>7, StepMoves DEF Types
<1>9. /\ s.msg.n # 0 /\ s.msg.n \in 1..Len(msgs) /\ msgs[s.msg.n] = s.msg /\ s.drops = <<>> /\ s.msg.kind = "resolved"
      /\ s.next \in {"idle", "resolve", "fallback"} /\ \A d \in s.claimed : Of(d) /\ d.kind = "problem"
  BY <1>3, <1>6 DEF HoldsMessage, Early
<1>10. Types'
  <2>1. act' \in [Actors -> Actor] BY <1>8 DEF Moved
  <2>2. resolvedBefore' \in [Keys -> Nat] BY <1>1, <1>6, MarkTypes
  <2>3. UNCHANGED <<queue, nextID, flights>> BY <1>6 DEF MarkResolved
  <2> QED BY <1>1, <1>6, <2>1, <2>2, <2>3 DEF Types, telegramVars, sendVars, dropVars, storeVars
<1>11. GrowsMsgs /\ MessageInv' /\ Len(msgs) \in Nat
  <2>1. Len(msgs) \in Nat BY <1>1 DEF Types
  <2> QED BY <1>1, <1>6, <2>1 DEF GrowsMsgs, MessageInv
<1>12. HangInv' /\ KeepsTokens /\ KeepsSent BY <1>1, <1>6, <1>10, <1>11, NoSend DEF sendVars
<1>13. UNCHANGED <<stored, loaded, crashed, dropped, msgs>> BY <1>6 DEF storeVars, dropVars
<1>14. /\ QueueInv' /\ FlightInv' /\ MarkInv' /\ KeepsNumbers
       /\ Numbers(queue') \cup marked' \subseteq Numbers(queue) \cup marked
  BY <1>1, <1>6, <1>10, <1>12, <1>13, MarkFacts
<1>15. queue' = queue BY <1>6 DEF MarkResolved
<1>16. \A n \in Numbers(queue) : Safe(n)' BY <1>15 DEF Safe, Queued, Numbers
<1>17. Numbers(act[a].drops) = {} BY <1>2, <1>3, <1>6
<1>18. KeepsSafe BY <1>1, <1>7, <1>8, <1>10, <1>12, <1>13, <1>16, <1>17, SafeStays
<1>19. Safe(s.msg.n)'
  <2>1. Safe(s.msg.n) BY <1>3, <1>6, <1>9 DEF HoldsSend, Late
  <2>2. s.msg.n \in 1..MaxMsgs BY <1>1, <1>9, NotifierAssumption DEF Types
  <2> QED BY <1>18, <2>1, <2>2 DEF KeepsSafe
<1>20. ActorInv(a, r)'
  <2>1. HoldsMessage(a, r)'
    <3>1. \A d \in r.claimed : Of(d)' /\ d.kind = "problem" BY <1>7, <1>9, <1>13 DEF Of
    <3> QED BY <1>7, <1>9, <1>13, <3>1 DEF HoldsMessage, Holding, Early
  <2>2. HoldsCopy(a, r)' BY <1>7 DEF HoldsCopy, FlushPlaces
  <2>3. HoldsSend(r)' BY <1>7, <1>19 DEF HoldsSend, Early
  <2> QED BY <2>1, <2>2, <2>3 DEF ActorInv
<1>21. \A n \in 1..Len(msgs) : n = act[a].msg.n => n = r.msg.n BY <1>2, <1>7
<1>22. r.msg.n = act[a].msg.n BY <1>2, <1>7
<1>23. \A n \in 1..Len(msgs') : ~(n > Len(msgs)) BY <1>11, <1>13
<1> QED BY <1>7, <1>8, <1>10, <1>11, <1>12, <1>13, <1>14, <1>18, <1>20, <1>21, <1>22, <1>23, StepKeeps

\* The /clear command.
LEMMA ClearKeeps ==
  ASSUME NotifierInv, NEW k \in Keys, Clear(k)
  PROVE  NotifierInv'
<1>1. Types /\ MessageInv /\ HangInv /\ QueueInv /\ FlightInv /\ MarkInv BY DEF NotifierInv
<1>2. PICK K : K = {k} \cap smsProblems OBVIOUS
<1>3. /\ MarkResolved(K) /\ smsProblems' = smsProblems \ {k} /\ settlers' = settlers
      /\ cond' = [cond EXCEPT ![k] = Untracked]
      /\ UNCHANGED <<telegramVars, offline, sendVars, dropVars, storeVars, act, msgs, flushes>>
  BY <1>2 DEF Clear, ForgetEnded
<1>4. cond' \in Cond
  <2>1. Untracked \in [open : BOOLEAN, since : Nat] BY DEF Untracked
  <2> QED BY <1>1, <1>3, <2>1 DEF Types, Cond
<1>5. Types'
  <2>1. resolvedBefore' \in [Keys -> Nat] BY <1>1, <1>3, MarkTypes
  <2>2. UNCHANGED <<queue, nextID, flights>> BY <1>3 DEF MarkResolved
  <2> QED BY <1>1, <1>3, <1>4, <2>1, <2>2 DEF Types, telegramVars, sendVars, dropVars, storeVars
<1>6. GrowsMsgs
  <2>1. Len(msgs) \in Nat BY <1>1 DEF Types
  <2> QED BY <1>3, <2>1 DEF GrowsMsgs
<1>7. HangInv' /\ KeepsTokens /\ KeepsSent BY <1>1, <1>3, <1>5, <1>6, NoSend DEF sendVars
<1>8. UNCHANGED <<stored, loaded, crashed, dropped, msgs>> BY <1>3 DEF storeVars, dropVars
<1>9. /\ QueueInv' /\ FlightInv' /\ MarkInv' /\ KeepsNumbers
      /\ Numbers(queue') \cup marked' \subseteq Numbers(queue) \cup marked
  BY <1>1, <1>3, <1>5, <1>7, <1>8, MarkFacts
<1>10. queue' = queue BY <1>3 DEF MarkResolved
<1>11. \A n \in Numbers(queue) : Safe(n)' BY <1>10 DEF Safe, Queued, Numbers
<1>12. dropped \subseteq dropped' BY <1>8
<1> QED BY <1>3, <1>5, <1>7, <1>9, <1>11, <1>12, RestStep

\* The end of a tick.
LEMMA EndTickKeeps ==
  ASSUME NotifierInv, EndTick
  PROVE  NotifierInv'
<1>1. /\ Types /\ MessageInv /\ HangInv /\ QueueInv /\ FlightInv /\ MarkInv /\ "tick" \in Actors
  BY NotifierAssumption DEF NotifierInv
<1>2. PICK ended : ended = {k \in Keys : cond[k] = Untracked} OBVIOUS
<1>3. PICK K : K = ended \cap smsProblems OBVIOUS
<1>4. PICK r : r = IF loaded /\ restarts < MaxRestarts
                     THEN [Idle EXCEPT !.pc = "checkpoint", !.conds = cond] ELSE Idle
  OBVIOUS
<1>5. /\ MarkResolved(K) /\ smsProblems' = smsProblems \ ended /\ settlers' = settlers /\ act["tick"].pc = "idle"
      /\ Step("tick", r)
      /\ UNCHANGED <<telegramVars, offline, sendVars, dropVars, storeVars, cond, msgs, flushes>>
  BY <1>2, <1>3, <1>4 DEF EndTick, ForgetEnded, At
<1>6. /\ r \in Actor /\ r.msg = NoMessage /\ r.drops = <<>> /\ r.next = "idle" /\ r.claimed = {}
      /\ r.pc = "idle" \/ (r.pc = "checkpoint" /\ loaded)
  <2>1. CASE loaded /\ restarts < MaxRestarts
    <3>1. Idle \in Actor /\ "checkpoint" \in Places /\ cond \in Cond BY <1>1, IdleFacts DEF Places, Types
    <3>2. r = [Idle EXCEPT !.pc = "checkpoint", !.conds = cond] BY <1>4, <2>1
    <3>3. /\ r \in Actor /\ r.pc = "checkpoint" /\ r.msg = Idle.msg /\ r.drops = Idle.drops /\ r.next = Idle.next
          /\ r.claimed = Idle.claimed
      BY <3>1, <3>2 DEF Actor
    <3> QED BY <2>1, <3>3, IdleFacts
  <2>2. CASE ~(loaded /\ restarts < MaxRestarts) BY <1>4, <2>2, IdleFacts
  <2> QED BY <2>1, <2>2
<1>7. Moved("tick", r) BY <1>1, <1>5, <1>6, StepMoves DEF Types
<1>8. Types'
  <2>1. act' \in [Actors -> Actor] BY <1>7 DEF Moved
  <2>2. resolvedBefore' \in [Keys -> Nat] BY <1>1, <1>5, MarkTypes
  <2>3. UNCHANGED <<queue, nextID, flights>> BY <1>5 DEF MarkResolved
  <2> QED BY <1>1, <1>5, <2>1, <2>2, <2>3 DEF Types, telegramVars, sendVars, dropVars, storeVars
<1>9. GrowsMsgs /\ MessageInv' /\ Len(msgs) \in Nat
  <2>1. Len(msgs) \in Nat BY <1>1 DEF Types
  <2> QED BY <1>1, <1>5, <2>1 DEF GrowsMsgs, MessageInv
<1>10. HangInv' /\ KeepsTokens /\ KeepsSent BY <1>1, <1>5, <1>8, <1>9, NoSend DEF sendVars
<1>11. UNCHANGED <<stored, loaded, crashed, dropped, msgs>> BY <1>5 DEF storeVars, dropVars
<1>12. /\ QueueInv' /\ FlightInv' /\ MarkInv' /\ KeepsNumbers
       /\ Numbers(queue') \cup marked' \subseteq Numbers(queue) \cup marked
  BY <1>1, <1>5, <1>8, <1>10, <1>11, MarkFacts
<1>13. queue' = queue BY <1>5 DEF MarkResolved
<1>14. \A n \in Numbers(queue) : Safe(n)' BY <1>13 DEF Safe, Queued, Numbers
<1>15. Numbers(act["tick"].drops) = {} /\ act["tick"].msg.n = 0 BY <1>1, <1>5, HandsOf DEF Holding
<1>16. KeepsSafe BY <1>1, <1>6, <1>7, <1>8, <1>10, <1>11, <1>14, <1>15, SafeStays
<1>17. r.msg.n = 0 BY <1>6, IdleFacts
<1>18. ActorInv("tick", r)'
  <2>1. HoldsMessage("tick", r)' BY <1>6, <1>11, <1>17 DEF HoldsMessage, Early
  <2>2. HoldsCopy("tick", r)' BY <1>6 DEF HoldsCopy, FlushPlaces
  <2>3. HoldsSend(r)' BY <1>6 DEF HoldsSend, Early, Late
  <2> QED BY <2>1, <2>2, <2>3 DEF ActorInv
<1>19. \A n \in 1..Len(msgs) : ~(n = act["tick"].msg.n) BY <1>9, <1>15
<1>20. \A n \in 1..Len(msgs') : ~(n > Len(msgs)) BY <1>9, <1>11
<1> QED BY <1>1, <1>6, <1>7, <1>8, <1>9, <1>10, <1>11, <1>12, <1>16, <1>17, <1>18, <1>19, <1>20, StepKeeps

-----------------------------------------------------------------------------
(* The queue grows *)

\* The queue with one more message, before it is trimmed.
LEMMA AppendFacts ==
  ASSUME NEW q \in Seq(Item), NEW new \in Item
  PROVE  /\ Append(q, new) \in Seq(Item) /\ Len(Append(q, new)) = Len(q) + 1
         /\ \A i \in 1..Len(q) : Append(q, new)[i] = q[i] /\ i \in 1..(Len(q) + 1)
         /\ Append(q, new)[Len(q) + 1] = new /\ Len(q) + 1 \in 1..(Len(q) + 1)
         /\ \A i \in 1..(Len(q) + 1) : i \in 1..Len(q) \/ i = Len(q) + 1
  OBVIOUS

\* enqueueTracked: the message gets a number of its own, and what is trimmed is in the
\* actor's hands to be reported.
LEMMA EnqueueKeeps ==
  ASSUME NotifierInv, NEW a \in Actors, NEW ch \in Channels, NEW next \in {"resolve", "fallback"},
         act[a].pc \in {"enqueue", "enqueueSMS"}, next = "resolve" => act[a].msg.kind = "resolved",
         Enqueue(a, ch, act[a].tok, next),
         UNCHANGED <<smsVars, telegramVars, offline, sendVars, dropVars, storeVars, cond, msgs, flushes>>
  PROVE  NotifierInv'
<1>1. Types /\ MessageInv /\ HangInv /\ QueueInv /\ FlightInv /\ MarkInv BY DEF NotifierInv
<1>2. PICK s : s = act[a] OBVIOUS
<1>3. s \in Actor /\ HoldsMessage(a, s) /\ HoldsSend(s) BY <1>2, HandsOf
<1>4. PICK m : m = s.msg OBVIOUS
<1>5. /\ m.n # 0 /\ m.n \in 1..Len(msgs) /\ msgs[m.n] = m /\ s.drops = <<>>
      /\ \A d \in s.claimed : Of(d) /\ d.kind = "problem"
  BY <1>2, <1>3, <1>4 DEF HoldsMessage, Early
<1>6. /\ queue \in Seq(Item) /\ nextID \in Nat /\ Len(queue) \in Nat /\ Len(msgs) \in Nat /\ MaxMsgs \in Nat
      /\ Len(msgs) <= MaxMsgs /\ m \in Message /\ s.tok \in Nat /\ m.n \in 1..MaxMsgs
  <2>1. m \in Message /\ s.tok \in Nat BY <1>3, <1>4 DEF Actor
  <2> QED BY <1>1, <1>5, <2>1, NotifierAssumption DEF Types
<1>7. PICK new : new = [id |-> nextID, ch |-> ch, n |-> m.n, kind |-> m.kind, key |-> m.key] OBVIOUS
<1>8. /\ new \in Item /\ new.id = nextID /\ new.n = m.n /\ new.kind = m.kind /\ new.key = m.key
  BY <1>6, <1>7 DEF Item, Message
<1>9. PICK q : q = Append(queue, new) OBVIOUS
<1>10. /\ q \in Seq(Item) /\ Len(q) = Len(queue) + 1
       /\ \A i \in 1..Len(queue) : q[i] = queue[i] /\ i \in 1..Len(q)
       /\ q[Len(queue) + 1] = new /\ Len(queue) + 1 \in 1..Len(q)
       /\ \A i \in 1..Len(q) : i \in 1..Len(queue) \/ i = Len(queue) + 1
  BY <1>6, <1>8, <1>9, AppendFacts
<1>11. PICK drops : drops = Overflow(q) OBVIOUS
<1>12. PICK flight : flight = [tok |-> s.tok, id |-> nextID, n |-> m.n] OBVIOUS
<1>13. PICK pc : pc = IF drops = <<>> THEN next ELSE "report" OBVIOUS
<1>14. PICK r : r = [s EXCEPT !.pc = pc, !.next = next, !.drops = drops] OBVIOUS
<1>15. /\ queue' = Trimmed(q) /\ nextID' = nextID + 1 /\ Step(a, r)
       /\ flights' = (IF s.tok = 0 THEN flights ELSE flights \cup {flight})
       /\ UNCHANGED <<resolvedBefore, marked>>
  BY <1>2, <1>4, <1>7, <1>9, <1>11, <1>12, <1>13, <1>14 DEF Enqueue, GoOn
<1>16. /\ PartOf(queue', q) /\ PartOf(drops, q) /\ Len(queue') <= MaxQueue
       /\ \A j \in 1..Len(q) : \/ \E i \in 1..Len(queue') : queue'[i] = q[j]
                               \/ \E i \in 1..Len(drops) : drops[i] = q[j]
  BY <1>10, <1>11, <1>15, TrimParts
<1>17. /\ r \in Actor /\ r.pc = pc /\ r.next = next /\ r.drops = drops /\ r.msg = m /\ r.tok = s.tok
       /\ r.claimed = s.claimed
  <2>1. drops \in Seq(Item) /\ next \in Places /\ pc \in Places BY <1>13, <1>16 DEF PartOf, Places
  <2> QED BY <1>3, <1>4, <1>14, <2>1 DEF Actor
<1>18. pc \in {next, "report"} /\ (pc # "report" => drops = <<>>) BY <1>13
<1>19. Moved(a, r) BY <1>1, <1>15, <1>17, StepMoves DEF Types
<1>20. flight \in [tok : Nat, id : Nat, n : Nat] /\ flight.tok = s.tok /\ flight.id = nextID /\ flight.n = m.n
  BY <1>6, <1>12
<1>21. Types'
  <2>1. act' \in [Actors -> Actor] BY <1>19 DEF Moved
  <2>2. flights' \subseteq [tok : Nat, id : Nat, n : Nat] BY <1>1, <1>15, <1>20 DEF Types
  <2>3. queue' \in Seq(Item) /\ Len(queue') <= MaxQueue BY <1>16 DEF PartOf
  <2>4. nextID' \in Nat /\ nextID' # 0 BY <1>6, <1>15
  <2> QED BY <1>1, <1>15, <2>1, <2>2, <2>3, <2>4 DEF Types, smsVars, telegramVars, sendVars, dropVars, storeVars
<1>22. GrowsMsgs /\ MessageInv' BY <1>1, <1>6 DEF GrowsMsgs, MessageInv
<1>23. HangInv' /\ KeepsTokens /\ KeepsSent BY <1>1, <1>21, <1>22, NoSend DEF sendVars
<1>24. UNCHANGED <<stored, loaded, crashed, dropped, msgs>> BY DEF storeVars, dropVars
<1>25. Of(new)
  <2>1. m.kind = "problem" => m.key \in Keys BY <1>1, <1>5 DEF MessageInv
  <2> QED BY <1>5, <1>8, <2>1 DEF Of
<1>26. \A j \in 1..Len(queue) : queue[j].id < nextID /\ Of(queue[j]) /\ queue[j].id \in Nat
  <2>1. \A j \in 1..Len(queue) : queue[j] \in Item BY <1>6
  <2> QED BY <1>1, <2>1 DEF QueueInv, Item
<1>27. \A i \in 1..Len(queue') : queue'[i] = new \/ \E j \in 1..Len(queue) : queue'[i] = queue[j]
  <2> SUFFICES ASSUME NEW i \in 1..Len(queue') PROVE queue'[i] = new \/ \E j \in 1..Len(queue) : queue'[i] = queue[j]
    OBVIOUS
  <2>1. PICK k \in 1..Len(q) : queue'[i] = q[k] BY <1>16 DEF PartOf
  <2> QED BY <1>10, <2>1
<1>28. QueueInv'
  <2>1. Sorted(q)
    <3> SUFFICES ASSUME NEW i \in 1..Len(q), NEW j \in 1..Len(q), i < j PROVE q[i].id < q[j].id
      BY DEF Sorted
    <3>1. i \in 1..Len(queue) BY <1>6, <1>10
    <3>2. CASE j \in 1..Len(queue) BY <1>1, <1>10, <3>1, <3>2 DEF QueueInv, Sorted
    <3>3. CASE j = Len(queue) + 1 BY <1>8, <1>10, <1>26, <3>1, <3>3
    <3> QED BY <1>10, <3>2, <3>3
  <2>2. Sorted(queue') BY <1>16, <2>1 DEF PartOf
  <2>3. ASSUME NEW i \in 1..Len(queue') PROVE queue'[i].id < nextID' /\ Of(queue'[i])
    <3>1. CASE queue'[i] = new BY <1>6, <1>8, <1>15, <1>25, <3>1
    <3>2. ASSUME NEW j \in 1..Len(queue), queue'[i] = queue[j] PROVE queue'[i].id < nextID' /\ Of(queue'[i])
      <4>1. queue[j].id < nextID + 1 BY <1>6, <1>26
      <4> QED BY <1>15, <1>26, <3>2, <4>1
    <3> QED BY <1>27, <3>1, <3>2
  <2> QED BY <1>24, <2>2, <2>3 DEF QueueInv, Sorted, Of
<1>29. KeepsNumbers
  <2>1. nextID <= nextID' BY <1>6, <1>15
  <2>2. \A i \in 1..Len(queue') : queue'[i].id >= nextID \/ \E j \in 1..Len(queue) : queue'[i] = queue[j]
    BY <1>6, <1>8, <1>27
  <2>3. \A f \in flights' : f \in flights \/ f.id >= nextID BY <1>6, <1>15, <1>20
  <2> QED BY <2>1, <2>2, <2>3 DEF KeepsNumbers
<1>30. FlightInv'
  <2>1. ASSUME NEW f \in flights'
        PROVE  /\ f.id < nextID' /\ f.n \in 1..Len(msgs') /\ f.tok # 0 /\ TokenOf(f.tok, f.n)'
               /\ \A i \in 1..Len(queue') : queue'[i].id = f.id => queue'[i].n = f.n
    <3>1. CASE f \in flights
      <4>1. /\ f.id < nextID /\ f.n \in 1..Len(msgs) /\ f.tok # 0 /\ TokenOf(f.tok, f.n)
            /\ \A i \in 1..Len(queue) : queue[i].id = f.id => queue[i].n = f.n
        BY <1>1, <3>1 DEF FlightInv
      <4>2. f.tok \in Nat /\ f.id \in Nat BY <1>1, <3>1 DEF Types
      <4>3. f.n \in 1..MaxMsgs BY <1>6, <4>1
      <4>4. TokenOf(f.tok, f.n)' BY <1>23, <4>1, <4>2, <4>3 DEF KeepsTokens
      <4>5. f.id < nextID' /\ f.id # nextID BY <1>6, <1>15, <4>1, <4>2
      <4>6. \A i \in 1..Len(queue') : queue'[i].id = f.id => queue'[i].n = f.n BY <1>8, <1>27, <4>1, <4>5
      <4> QED BY <1>24, <4>1, <4>4, <4>5, <4>6
    <3>2. CASE f = flight /\ s.tok # 0
      <4>1. TokenOf(s.tok, m.n) BY <1>2, <1>3, <1>4 DEF HoldsSend
      <4>2. TokenOf(s.tok, m.n)' BY <1>6, <1>23, <4>1 DEF KeepsTokens
      <4>3. \A j \in 1..Len(queue) : queue[j].id # nextID BY <1>6, <1>26
      <4>4. \A i \in 1..Len(queue') : queue'[i].id = nextID => queue'[i].n = m.n BY <1>8, <1>27, <4>3
      <4>5. nextID < nextID' BY <1>6, <1>15
      <4> QED BY <1>5, <1>20, <1>24, <3>2, <4>2, <4>4, <4>5
    <3> QED BY <1>15, <3>1, <3>2
  <2>2. \A f, g \in flights' : f.id = g.id => f = g
    <3>1. \A f, g \in flights : f.id = g.id => f = g BY <1>1 DEF FlightInv
    <3>2. \A f \in flights : f.id # nextID
      <4> SUFFICES ASSUME NEW f \in flights PROVE f.id # nextID
        OBVIOUS
      <4>1. f.id < nextID /\ f.id \in Nat BY <1>1 DEF FlightInv, Types
      <4> QED BY <1>6, <4>1
    <3> QED BY <1>15, <1>20, <3>1, <3>2
  <2> QED BY <2>1, <2>2 DEF FlightInv
<1>31. m.kind = "problem" => Fresh(m.n) BY <1>2, <1>3, <1>4 DEF HoldsSend, Early
<1>32. MarkInv'
  <2>1. ResolvedMarkSeparates'
    <3> SUFFICES ASSUME NEW i \in 1..Len(queue'), queue'[i].kind = "problem"
                 PROVE  queue'[i].n \in marked <=> queue'[i].id < resolvedBefore[queue'[i].key]
      BY <1>15 DEF ResolvedMarkSeparates
    <3>1. CASE queue'[i] = new
      <4>1. m.n \notin marked BY <1>8, <1>31, <3>1 DEF Fresh, Seen
      <4>2. m.key \in Keys BY <1>8, <1>25, <3>1 DEF Of
      <4>3. resolvedBefore[m.key] <= nextID /\ resolvedBefore[m.key] \in Nat BY <1>1, <4>2 DEF MarkInv, Types
      <4>4. ~(nextID < resolvedBefore[m.key]) BY <1>6, <4>3
      <4> QED BY <1>8, <3>1, <4>1, <4>4
    <3>2. ASSUME NEW j \in 1..Len(queue), queue'[i] = queue[j]
          PROVE  queue'[i].n \in marked <=> queue'[i].id < resolvedBefore[queue'[i].key]
      BY <1>1, <3>2 DEF MarkInv, ResolvedMarkSeparates
    <3> QED BY <1>27, <3>1, <3>2
  <2>2. \A k \in Keys : resolvedBefore'[k] <= nextID'
    <3> SUFFICES ASSUME NEW k \in Keys PROVE resolvedBefore[k] <= nextID + 1
      BY <1>15
    <3>1. resolvedBefore[k] <= nextID /\ resolvedBefore[k] \in Nat BY <1>1 DEF MarkInv, Types
    <3> QED BY <1>6, <3>1
  <2>3. marked' \subseteq 1..Len(msgs') BY <1>1, <1>15 DEF MarkInv
  <2>4. ASSUME ~loaded, NEW i \in 1..Len(stored.queue), stored.queue[i].kind = "problem"
        PROVE  stored.queue[i].n \notin Numbers(queue') \cup marked
    <3>1. PICK n : n = stored.queue[i].n OBVIOUS
    <3>2. n \notin Numbers(queue) \cup marked BY <1>1, <2>4, <3>1 DEF MarkInv
    <3>3. n # m.n
      <4>1. Of(stored.queue[i]) BY DEF NotifierInv, StoreInv
      <4>2. n = m.n => m.kind = "problem" BY <1>5, <2>4, <3>1, <4>1 DEF Of
      <4>3. n \in Numbers(stored.queue) BY <3>1 DEF Numbers
      <4> QED BY <1>31, <2>4, <4>2, <4>3 DEF Fresh, Seen
    <3> QED BY <1>8, <1>27, <3>1, <3>2, <3>3 DEF Numbers
  <2>5. ~loaded' => \A i \in 1..Len(stored'.queue) :
             stored'.queue[i].kind = "problem" => stored'.queue[i].n \notin Numbers(queue') \cup marked'
    BY <1>15, <1>24, <2>4
  <2> QED BY <2>1, <2>2, <2>3, <2>5 DEF MarkInv, Numbers
<1>33. ASSUME NEW j \in 1..Len(q), NEW n, n = q[j].n PROVE Safe(n)'
  <2>1. CASE \E i \in 1..Len(queue') : queue'[i] = q[j]
    <3>1. n \in Numbers(queue)' BY <1>33, <2>1 DEF Numbers
    <3> QED BY <3>1 DEF Safe, Queued
  <2>2. CASE \E i \in 1..Len(drops) : drops[i] = q[j]
    <3>1. act'[a].drops = drops BY <1>17, <1>19 DEF Moved
    <3>2. n \in Dropping' BY <1>33, <2>2, <3>1 DEF Dropping, Numbers
    <3> QED BY <3>2 DEF Safe, Queued
  <2> QED BY <1>16, <2>1, <2>2
<1>34. \A n \in Numbers(queue) : Safe(n)'
  <2> SUFFICES ASSUME NEW j \in 1..Len(queue), NEW n, n = queue[j].n PROVE Safe(n)'
    BY DEF Numbers
  <2>1. j \in 1..Len(q) /\ n = q[j].n BY <1>10
  <2> QED BY <1>33, <2>1
<1>35. Safe(m.n)' BY <1>8, <1>10, <1>33
<1>36. Numbers(act[a].drops) = {} BY <1>2, <1>5 DEF Numbers
<1>37. KeepsSafe BY <1>1, <1>17, <1>19, <1>21, <1>23, <1>24, <1>34, <1>36, SafeStays
<1>38. ActorInv(a, r)'
  <2>1. HoldsMessage(a, r)'
    <3>1. \A d \in r.claimed : Of(d)' /\ d.kind = "problem" BY <1>5, <1>17, <1>24 DEF Of
    <3> QED BY <1>2, <1>4, <1>5, <1>17, <1>18, <1>24, <3>1 DEF HoldsMessage, Holding, Early
  <2>2. HoldsCopy(a, r)' BY <1>17, <1>18 DEF HoldsCopy, FlushPlaces
  <2>3. HoldsSend(r)' BY <1>17, <1>18, <1>35 DEF HoldsSend, Early
  <2> QED BY <2>1, <2>2, <2>3 DEF ActorInv
<1>39. \A n \in 1..Len(msgs) : n = act[a].msg.n => n = r.msg.n BY <1>2, <1>4, <1>17
<1>40. r.msg.n = act[a].msg.n BY <1>2, <1>4, <1>17
<1>41. \A n \in 1..Len(msgs') : ~(n > Len(msgs)) BY <1>6, <1>24
<1>42. Numbers(queue') \cup marked' \subseteq Numbers(queue) \cup marked \cup {act[a].msg.n}
  <2>1. \A i \in 1..Len(queue') : queue'[i].n \in Numbers(queue) \cup {m.n} BY <1>8, <1>27 DEF Numbers
  <2>2. Numbers(queue') \subseteq Numbers(queue) \cup {m.n} BY <2>1 DEF Numbers
  <2> QED BY <1>2, <1>4, <1>15, <2>2
<1>43. dropped \subseteq dropped' /\ crashed \subseteq crashed' BY <1>24
<1> QED BY <1>17, <1>19, <1>21, <1>22, <1>23, <1>24, <1>28, <1>29, <1>30, <1>32, <1>37, <1>38, <1>39, <1>40,
           <1>41, <1>42, <1>43, StepKeeps

\* The copies of a message that failed are queued.
LEMMA EnqueuesKeep ==
  ASSUME NotifierInv, NEW a \in Actors
  PROVE  (EnqueueTelegram(a) => NotifierInv') /\ (EnqueueSMS(a) => NotifierInv')
<1>1. HoldsMessage(a, act[a]) BY HandsOf
<1>2. "tlg" \in Channels /\ "sms" \in Channels BY DEF Channels
<1>3. ASSUME EnqueueTelegram(a) PROVE NotifierInv'
  <2>1. PICK next \in {"resolve", "fallback"} : next = AfterSend(act[a].msg) BY DEF AfterSend
  <2>2. next = "resolve" => act[a].msg.kind = "resolved" BY <2>1 DEF AfterSend
  <2>3. /\ act[a].pc = "enqueue" /\ Enqueue(a, "tlg", act[a].tok, next)
        /\ UNCHANGED <<smsVars, telegramVars, offline, sendVars, dropVars, storeVars, cond, msgs, flushes>>
    BY <1>3, <2>1 DEF EnqueueTelegram, At
  <2> QED BY <1>2, <2>2, <2>3, EnqueueKeeps
<1>4. ASSUME EnqueueSMS(a) PROVE NotifierInv'
  <2>1. act[a].pc = "enqueueSMS" BY <1>4 DEF EnqueueSMS, At
  <2>2. PICK next \in {"resolve", "fallback"} : next = act[a].next BY <1>1, <2>1 DEF HoldsMessage
  <2>3. next = "resolve" => act[a].msg.kind = "resolved" BY <1>1, <2>2 DEF HoldsMessage
  <2>4. /\ Enqueue(a, "sms", act[a].tok, next)
        /\ UNCHANGED <<smsVars, telegramVars, offline, sendVars, dropVars, storeVars, cond, msgs, flushes>>
    BY <1>4, <2>2 DEF EnqueueSMS
  <2> QED BY <1>2, <2>1, <2>3, <2>4, EnqueueKeeps
<1> QED BY <1>3, <1>4

-----------------------------------------------------------------------------
(* The store *)

\* What an actor holds or drops are numbers of messages.
LEMMA HeldTypes ==
  ASSUME Types
  PROVE  InHand \cup Dropping \in SUBSET Nat
<1>1. \A a \in Actors : act[a] \in Actor BY DEF Types
<1>2. \A a \in Actors : act[a].msg.n \in Nat BY <1>1 DEF Actor, Message
<1>3. ASSUME NEW a \in Actors, NEW i \in 1..Len(act[a].drops) PROVE act[a].drops[i].n \in Nat
  <2>1. act[a].drops \in Seq(Item) BY <1>1 DEF Actor
  <2>2. act[a].drops[i] \in Item BY <2>1
  <2> QED BY <2>2 DEF Item
<1>4. InHand \subseteq Nat BY <1>2 DEF InHand
<1>5. Dropping \subseteq Nat BY <1>3 DEF Dropping, Numbers
<1> QED BY <1>4, <1>5

\* A save knows of every message so far: nothing but what is in an actor's hands is missing.
LEMMA CheckpointKeeps ==
  ASSUME NotifierInv, Checkpoint
  PROVE  NotifierInv'
<1>1. /\ Types /\ MessageInv /\ HangInv /\ QueueInv /\ FlightInv /\ MarkInv /\ "tick" \in Actors /\ NothingLost
  BY NotifierAssumption DEF NotifierInv
<1>2. act["tick"].pc = "checkpoint" BY DEF Checkpoint, At
<1>3. loaded /\ Numbers(act["tick"].drops) = {} /\ act["tick"].msg.n = 0 /\ act["tick"] \in Actor
  BY <1>1, <1>2, HandsOf DEF Holding, HoldsMessage
<1>4. /\ Step("tick", Idle)
      /\ UNCHANGED <<queueVars, smsVars, telegramVars, offline, sendVars, dropVars, loaded, restarts,
                     crashed, cond, msgs, flushes>>
  BY DEF Checkpoint
<1>5. PICK held : held = InHand \cup Dropping OBVIOUS
<1>6. stored' = [cond |-> act["tick"].conds, queue |-> queue, failing |-> failing,
                 sms |-> smsProblems, undelivered |-> undelivered, upTo |-> Len(msgs), held |-> held]
  BY <1>5 DEF Checkpoint
<1>7. held \in SUBSET Nat BY <1>1, <1>5, HeldTypes
<1>8. /\ stored' \in Store /\ stored'.queue = queue /\ stored'.upTo = Len(msgs) /\ stored'.held = held
  <2>1. /\ act["tick"].conds \in Cond /\ queue \in Seq(Item) /\ failing \in BOOLEAN /\ smsProblems \in SUBSET Keys
        /\ undelivered \in SUBSET Nat /\ Len(msgs) \in Nat
    BY <1>1, <1>3 DEF Types, Actor
  <2> QED BY <1>6, <1>7, <2>1 DEF Store
<1>9. Idle \in Actor /\ Idle.msg.n = 0 /\ ActorInv("tick", Idle)' BY <1>1, IdleFacts, EmptyHands
<1>10. Moved("tick", Idle) BY <1>1, <1>4, <1>9, StepMoves DEF Types
<1>11. Types'
  <2>1. act' \in [Actors -> Actor] BY <1>10 DEF Moved
  <2> QED BY <1>1, <1>4, <1>8, <2>1 DEF Types, queueVars, smsVars, telegramVars, sendVars, dropVars
<1>12. GrowsMsgs /\ MessageInv' /\ Len(msgs) \in Nat
  <2>1. Len(msgs) \in Nat BY <1>1 DEF Types
  <2> QED BY <1>1, <1>4, <2>1 DEF GrowsMsgs, MessageInv
<1>13. HangInv' /\ KeepsTokens /\ KeepsSent BY <1>1, <1>4, <1>11, <1>12, NoSend DEF sendVars
<1>14. UNCHANGED <<queue, nextID, resolvedBefore, flights, marked, sent, dropped, loaded, crashed, msgs>>
  BY <1>4 DEF queueVars, dropVars, sendVars
<1>15. QueueInv' BY <1>1, <1>14 DEF QueueInv, Sorted, Of
<1>16. FlightInv'
  <2>1. \A f \in flights : TokenOf(f.tok, f.n)'
    <3> SUFFICES ASSUME NEW f \in flights PROVE TokenOf(f.tok, f.n)'
      OBVIOUS
    <3>1. f.tok \in Nat /\ f.n \in 1..Len(msgs) /\ TokenOf(f.tok, f.n) BY <1>1 DEF FlightInv, Types
    <3>2. f.n \in 1..MaxMsgs BY <1>1, <3>1, NotifierAssumption DEF Types
    <3> QED BY <1>13, <3>1, <3>2 DEF KeepsTokens
  <2> QED BY <1>1, <1>14, <2>1 DEF FlightInv
<1>17. MarkInv' BY <1>1, <1>3, <1>14 DEF MarkInv, ResolvedMarkSeparates
<1>18. StoreInv'
  <2>1. Sorted(stored'.queue) BY <1>1, <1>8 DEF QueueInv
  <2>2. \A i \in 1..Len(stored'.queue) : Of(stored'.queue[i]) BY <1>1, <1>8 DEF QueueInv
  <2>3. stored'.upTo <= Len(msgs') BY <1>8, <1>12, <1>14
  <2>4. ASSUME NEW n \in 1..stored'.upTo
        PROVE  (n \in stored'.held \cup Numbers(stored'.queue) \cup dropped' \cup crashed') \/ WasSent(n)'
    <3>1. n \in DOMAIN msgs BY <1>1, <1>8 DEF Types
    <3>2. (n \in InHand \cup Queued \cup dropped \cup crashed) \/ WasSent(n) BY <1>1, <3>1 DEF NothingLost
    <3>3. Queued = Numbers(queue) \cup Dropping BY <1>3 DEF Queued
    <3>4. WasSent(n) => WasSent(n)' BY <1>14 DEF WasSent
    <3> QED BY <1>5, <1>8, <1>14, <3>2, <3>3, <3>4
  <2> QED BY <1>14, <2>1, <2>2, <2>3, <2>4 DEF StoreInv, Sorted, Of, Numbers
<1>19. KeepsSafe
  <2> SUFFICES ASSUME NEW n \in 1..MaxMsgs, Safe(n) PROVE Safe(n)'
    BY DEF KeepsSafe
  <2>1. CASE n \in Dropping
    <3>1. PICK b \in Actors : n \in Numbers(act[b].drops) BY <2>1 DEF Dropping
    <3>2. act'[b] = act[b] BY <1>3, <1>10, <3>1 DEF Moved
    <3>3. n \in Dropping' BY <3>1, <3>2 DEF Dropping, Numbers
    <3> QED BY <3>3 DEF Safe, Queued
  <2>2. CASE n \in Numbers(queue) BY <1>14, <2>2 DEF Safe, Queued, Numbers
  <2>3. CASE (n \in dropped \cup crashed) \/ WasSent(n) BY <1>14, <2>3 DEF Safe, WasSent
  <2> QED BY <1>3, <2>1, <2>2, <2>3 DEF Safe, Queued
<1>20. Seen' \subseteq Seen
  <2>1. Numbers(queue)' = Numbers(queue) BY <1>14 DEF Numbers
  <2> QED BY <1>3, <1>14, <2>1 DEF Seen
<1>21. \A n \in 1..Len(msgs) : ~(n = act["tick"].msg.n) BY <1>3, <1>12
<1>22. \A n \in 1..Len(msgs') : ~(n > Len(msgs)) BY <1>12, <1>14
<1>23. dropped \subseteq dropped' /\ crashed \subseteq crashed' /\ (loaded => loaded') BY <1>14
<1>24. Seen' \subseteq Seen \cup {act["tick"].msg.n} BY <1>20
<1> QED BY <1>1, <1>9, <1>10, <1>11, <1>12, <1>13, <1>15, <1>16, <1>17, <1>18, <1>19, <1>21, <1>22, <1>23,
           <1>24, AnyStep

\* An empty process: nothing is queued, in flight or in an actor's hands.
LEMMA EmptyProcess ==
  ASSUME queue' = <<>>, nextID' = 1, resolvedBefore' = [k \in Keys |-> 0], marked' = {}, flights' = {},
         hang' = [c \in Channels |-> NoHang], results' = {}, hangs' \in Nat, act' = [a \in Actors |-> Idle],
         Len(msgs') \in Nat
  PROVE  /\ QueueInv' /\ FlightInv' /\ HangInv' /\ MarkInv' /\ Apart' /\ \A a \in Actors : ActorInv(a, act[a])'
<1>1. Len(queue') = 0 /\ Numbers(queue') = {} BY DEF Numbers
<1>2. QueueInv' BY <1>1 DEF QueueInv, Sorted
<1>3. FlightInv' BY DEF FlightInv
<1>4. \A c \in Channels : hang'[c] = NoHang /\ NoHang.tok = 0 BY DEF NoHang
<1>5. HangInv' BY <1>4 DEF HangInv
<1>6. \A k \in Keys : resolvedBefore'[k] = 0 OBVIOUS
<1>7. \A k \in Keys : resolvedBefore'[k] <= nextID' BY <1>6
<1>8. MarkInv' BY <1>1, <1>7 DEF MarkInv, ResolvedMarkSeparates, Numbers
<1>9. \A a \in Actors : act'[a] = Idle OBVIOUS
<1>10. Apart' BY <1>9, IdleFacts DEF Apart
<1>11. ASSUME NEW a \in Actors PROVE ActorInv(a, act[a])'
  <2>1. HoldsMessage(a, Idle)' /\ HoldsCopy(a, Idle)' /\ HoldsSend(Idle)' BY IdleFacts, EmptyHands DEF ActorInv
  <2>2. HoldsMessage(a, act[a])' BY <1>9, <2>1 DEF HoldsMessage
  <2>3. HoldsCopy(a, act[a])' BY <1>9, <2>1 DEF HoldsCopy
  <2>4. HoldsSend(act[a])' BY <1>9, <2>1 DEF HoldsSend
  <2> QED BY <2>2, <2>3, <2>4 DEF ActorInv
<1> QED BY <1>2, <1>3, <1>5, <1>8, <1>10, <1>11

\* A crash loses what was in an actor's hands, or came after the last save; nothing else.
LEMMA RestartKeeps ==
  ASSUME NotifierInv, Restart
  PROVE  NotifierInv'
<1>1. Types /\ MessageInv /\ StoreInv BY DEF NotifierInv
<1>2. /\ queue' = <<>> /\ nextID' = 1 /\ resolvedBefore' = [k \in Keys |-> 0] /\ marked' = {}
      /\ failing' = FALSE /\ telegramOK' = FALSE /\ offline' = FALSE
      /\ smsProblems' = {} /\ undelivered' = {} /\ flights' = {} /\ settlers' = {}
      /\ cond' = [k \in Keys |-> Untracked]
      /\ hang' = [c \in Channels |-> NoHang] /\ results' = {}
      /\ act' = [a \in Actors |-> Idle]
      /\ crashed' = crashed \cup (stored.upTo + 1)..Len(msgs) \cup stored.held
      /\ loaded' = FALSE
      /\ UNCHANGED <<hangs, sent, dropped, stored, msgs>>
  BY DEF Restart
<1>3. /\ Len(msgs) \in Nat /\ hangs \in Nat /\ stored.upTo \in Nat /\ stored.upTo <= Len(msgs)
      /\ DOMAIN msgs = 1..Len(msgs)
  BY <1>1 DEF Types, Store, StoreInv
<1>4. Types'
  <2>1. act' \in [Actors -> Actor] BY <1>2, IdleFacts
  <2>2. cond' \in Cond BY <1>2 DEF Cond, Untracked
  <2>3. hang' \in [Channels -> [tok : Nat, n : Nat]] BY <1>2 DEF NoHang
  <2>4. resolvedBefore' \in [Keys -> Nat] BY <1>2
  <2>5. queue' \in Seq(Item) /\ Len(queue') <= MaxQueue /\ nextID' \in Nat /\ nextID' # 0
    BY <1>2, NotifierAssumption
  <2> QED BY <1>1, <1>2, <2>1, <2>2, <2>3, <2>4, <2>5 DEF Types
<1>5. MessageInv' BY <1>1, <1>2 DEF MessageInv
<1>6. QueueInv' /\ FlightInv' /\ HangInv' /\ MarkInv' /\ Apart' /\ \A a \in Actors : ActorInv(a, act[a])'
  BY <1>2, <1>3, EmptyProcess
<1>7. \A n : WasSent(n) <=> WasSent(n)' BY <1>2 DEF WasSent
<1>8. \A n \in 1..stored.upTo :
        (n \in stored.held \cup Numbers(stored.queue) \cup dropped \cup crashed) \/ WasSent(n)
  BY <1>1 DEF StoreInv
<1>9. StoreInv'
  <2>1. crashed \subseteq crashed' BY <1>2
  <2>2. \A n \in 1..stored.upTo :
          (n \in stored.held \cup Numbers(stored.queue) \cup dropped' \cup crashed') \/ WasSent(n)'
    BY <1>2, <1>7, <1>8, <2>1
  <2> QED BY <1>1, <1>2, <2>2 DEF StoreInv, Sorted, Of, Numbers
<1>10. NothingLost'
  <2> SUFFICES ASSUME NEW n \in 1..Len(msgs) PROVE (n \in Queued' \cup dropped' \cup crashed') \/ WasSent(n)'
    BY <1>2, <1>3 DEF NothingLost
  <2>1. CASE n > stored.upTo
    <3>1. n \in (stored.upTo + 1)..Len(msgs) BY <1>3, <2>1
    <3> QED BY <1>2, <3>1
  <2>2. CASE n <= stored.upTo
    <3>1. n \in 1..stored.upTo BY <1>3, <2>2
    <3>2. n \in Numbers(stored.queue) => n \in Queued' BY <1>2 DEF Queued, Numbers
    <3> QED BY <1>2, <1>7, <1>8, <3>1, <3>2
  <2> QED BY <1>3, <2>1, <2>2
<1> QED BY <1>4, <1>5, <1>6, <1>9, <1>10 DEF NotifierInv

-----------------------------------------------------------------------------
(* A late load *)

\* A least number.
LEMMA MinFacts ==
  ASSUME NEW S, S \subseteq Nat, S # {}
  PROVE  Min(S) \in S /\ \A x \in S : Min(S) <= x
<1>0. PICK L : L = OpToRel(<, Nat) OBVIOUS
<1>1. PICK x \in S : \A y \in S : ~(<<y, x>> \in L) BY <1>0, NatLessThanWellFounded, WFMin
<1>2. ASSUME NEW y \in S PROVE x <= y
  <2>1. <<y, x>> \in Nat \X Nat BY <1>1
  <2>2. y < x => <<y, x>> \in L BY <1>0, <2>1 DEF OpToRel
  <2>3. x \in Nat /\ y \in Nat OBVIOUS
  <2> QED BY <1>1, <2>2, <2>3
<1> QED BY <1>2 DEF Min

\* The greatest number of a queue in order.
LEMMA TopFacts ==
  ASSUME NEW S \in Seq(Item), Sorted(S)
  PROVE  /\ Max({0} \cup IDs(S)) \in Nat
         /\ \A i \in 1..Len(S) : S[i].id <= Max({0} \cup IDs(S))
<1>1. Len(S) \in Nat /\ \A i \in 1..Len(S) : S[i].id \in Nat
  <2>1. \A i \in 1..Len(S) : S[i] \in Item OBVIOUS
  <2> QED BY <2>1 DEF Item
<1>2. CASE Len(S) = 0
  <2>1. IDs(S) = {} BY <1>2 DEF IDs
  <2>2. Max({0} \cup IDs(S)) = 0 BY <2>1 DEF Max
  <2> QED BY <1>2, <2>2
<1>3. CASE Len(S) # 0
  <2>1. PICK x : x = S[Len(S)].id OBVIOUS
  <2>2. Len(S) \in 1..Len(S) BY <1>1, <1>3
  <2>3. x \in Nat /\ x \in IDs(S) BY <1>1, <2>1, <2>2 DEF IDs
  <2>4. ASSUME NEW i \in 1..Len(S) PROVE S[i].id <= x
    <3>1. CASE i = Len(S) BY <1>1, <2>1, <3>1
    <3>2. CASE i # Len(S)
      <4>1. i < Len(S) BY <1>1, <3>2
      <4>2. S[i].id < x BY <2>1, <2>2, <4>1 DEF Sorted
      <4> QED BY <1>1, <2>3, <4>2
    <3> QED BY <3>1, <3>2
  <2>5. \A y \in {0} \cup IDs(S) : y <= x BY <2>3, <2>4 DEF IDs
  <2>6. \A y \in {0} \cup IDs(S) : y \in Nat BY <1>1 DEF IDs
  <2>7. Max({0} \cup IDs(S)) = x
    <3>1. \A y \in {0} \cup IDs(S) : (\A z \in {0} \cup IDs(S) : y >= z) => y = x
      <4> SUFFICES ASSUME NEW y \in {0} \cup IDs(S), \A z \in {0} \cup IDs(S) : y >= z PROVE y = x
        OBVIOUS
      <4>1. y >= x /\ y <= x /\ y \in Nat BY <2>3, <2>5, <2>6
      <4> QED BY <2>3, <4>1
    <3>2. \A y \in {0} \cup IDs(S) : x >= y BY <2>3, <2>5, <2>6
    <3> QED BY <2>3, <3>1, <3>2 DEF Max
  <2> QED BY <2>3, <2>4, <2>7
<1> QED BY <1>2, <1>3

\* Merge: the stored messages, then memory's with the numbers after them.
Merged(S, Q, top) == S \o [i \in 1..Len(Q) |-> [Q[i] EXCEPT !.id = top + i]]

IsMerge(M, S, Q, top) ==
  /\ M \in Seq(Item) /\ Sorted(M)
  /\ \A i \in 1..Len(S) : i \in 1..Len(M) /\ M[i] = S[i]
  /\ \A j \in 1..Len(Q) : Len(S) + j \in 1..Len(M) /\ M[Len(S) + j] = [Q[j] EXCEPT !.id = top + j]
  /\ \A i \in 1..Len(M) : i \in 1..Len(S) \/ \E j \in 1..Len(Q) : i = Len(S) + j

LEMMA MergeFacts ==
  ASSUME NEW S \in Seq(Item), NEW Q \in Seq(Item), NEW top \in Nat, Sorted(S),
         \A i \in 1..Len(S) : S[i].id <= top,
         NEW M, M = Merged(S, Q, top)
  PROVE  IsMerge(M, S, Q, top)
<1>1. Len(S) \in Nat /\ Len(Q) \in Nat OBVIOUS
<1>2. PICK R : R = [i \in 1..Len(Q) |-> [Q[i] EXCEPT !.id = top + i]] OBVIOUS
<1>3. \A i \in 1..Len(Q) : [Q[i] EXCEPT !.id = top + i] \in Item
  <2> SUFFICES ASSUME NEW i \in 1..Len(Q) PROVE [Q[i] EXCEPT !.id = top + i] \in Item
    OBVIOUS
  <2>1. Q[i] \in Item /\ top + i \in Nat BY <1>1
  <2> QED BY <2>1 DEF Item
<1>4. R \in Seq(Item) /\ Len(R) = Len(Q) /\ \A i \in 1..Len(Q) : R[i] = [Q[i] EXCEPT !.id = top + i]
  <2>1. \A i \in 1..Len(Q) : R[i] = [Q[i] EXCEPT !.id = top + i] BY <1>2
  <2>2. DOMAIN R = 1..Len(Q) BY <1>2
  <2>3. R \in [1..Len(Q) -> Item] BY <1>2, <1>3, Zenon
  <2>4. R \in Seq(Item) BY <1>1, <2>3, SeqDef
  <2> QED BY <1>1, <2>1, <2>2, <2>4
<1>5. /\ S \o R \in Seq(Item) /\ Len(S \o R) = Len(S) + Len(R)
      /\ \A i \in 1..(Len(S) + Len(R)) : (S \o R)[i] = IF i <= Len(S) THEN S[i] ELSE R[i - Len(S)]
  <2>1. R \in Seq(Item) BY <1>4
  <2> QED BY <2>1, ConcatProperties
<1>6. M = S \o R BY <1>2 DEF Merged
<1>7. M \in Seq(Item) /\ Len(M) = Len(S) + Len(Q) BY <1>4, <1>5, <1>6
<1>8. \A i \in 1..Len(S) : i \in 1..Len(M) /\ M[i] = S[i] BY <1>1, <1>4, <1>5, <1>6, <1>7
<1>9. ASSUME NEW j \in 1..Len(Q)
      PROVE  Len(S) + j \in 1..Len(M) /\ M[Len(S) + j] = [Q[j] EXCEPT !.id = top + j]
  <2>1. Len(S) + j \in 1..(Len(S) + Len(R)) /\ ~(Len(S) + j <= Len(S)) /\ (Len(S) + j) - Len(S) = j
    BY <1>1, <1>4
  <2>2. M[Len(S) + j] = R[j] BY <1>5, <1>6, <2>1
  <2> QED BY <1>4, <1>7, <2>1, <2>2
<1>10. ASSUME NEW i \in 1..Len(M) PROVE i \in 1..Len(S) \/ \E j \in 1..Len(Q) : i = Len(S) + j
  <2>1. CASE i <= Len(S) BY <1>1, <1>7, <2>1
  <2>2. CASE i > Len(S)
    <3>1. i - Len(S) \in 1..Len(Q) /\ i = Len(S) + (i - Len(S)) BY <1>1, <1>7, <2>2
    <3> QED BY <3>1
  <2> QED BY <1>1, <1>7, <2>1, <2>2
<1>11. \A j \in 1..Len(Q) : M[Len(S) + j].id = top + j
  <2> SUFFICES ASSUME NEW j \in 1..Len(Q) PROVE M[Len(S) + j].id = top + j
    OBVIOUS
  <2>1. Q[j] \in Item OBVIOUS
  <2> QED BY <1>9, <2>1 DEF Item
<1>12. Sorted(M)
  <2> SUFFICES ASSUME NEW x \in 1..Len(M), NEW y \in 1..Len(M), x < y PROVE M[x].id < M[y].id
    BY DEF Sorted
  <2>1. CASE x \in 1..Len(S) /\ y \in 1..Len(S) BY <1>8, <2>1 DEF Sorted
  <2>2. ASSUME NEW j \in 1..Len(Q), y = Len(S) + j, x \in 1..Len(S) PROVE M[x].id < M[y].id
    <3>1. S[x] \in Item BY <2>2
    <3>2. M[x].id <= top /\ M[x].id \in Nat BY <1>8, <2>2, <3>1 DEF Item
    <3> QED BY <1>1, <1>11, <2>2, <3>2
  <2>3. ASSUME NEW i \in 1..Len(Q), NEW j \in 1..Len(Q), x = Len(S) + i, y = Len(S) + j
        PROVE  M[x].id < M[y].id
    <3>1. i < j BY <1>1, <2>3
    <3> QED BY <1>1, <1>11, <2>3, <3>1
  <2>4. ASSUME NEW i \in 1..Len(Q), x = Len(S) + i, y \in 1..Len(S) PROVE FALSE BY <1>1, <2>4
  <2> QED BY <1>10, <2>1, <2>2, <2>3, <2>4
<1> QED BY <1>7, <1>8, <1>9, <1>10, <1>12 DEF IsMerge

\* renumberLocked finds a message's new number by its old one.
LEMMA NewNumbers ==
  ASSUME Types, QueueInv, NEW top \in Nat, Top = top, NEW i \in 1..Len(queue)
  PROVE  NewID(queue[i].id) = top + i
<1>1. queue \in Seq(Item) /\ Len(queue) \in Nat /\ Sorted(queue) BY DEF Types, QueueInv
<1>2. \A j \in 1..Len(queue) : queue[j].id \in Nat
  <2>1. \A j \in 1..Len(queue) : queue[j] \in Item BY <1>1
  <2> QED BY <2>1 DEF Item
<1>3. PICK c : c = CHOOSE j \in 1..Len(queue) : queue[j].id = queue[i].id OBVIOUS
<1>4. c \in 1..Len(queue) /\ queue[c].id = queue[i].id BY <1>3
<1>5. ~(c < i) BY <1>1, <1>2, <1>4 DEF Sorted
<1>6. ~(i < c) BY <1>1, <1>2, <1>4 DEF Sorted
<1>7. c = i BY <1>1, <1>4, <1>5, <1>6
<1> QED BY <1>3, <1>7 DEF NewID, Renumbered

\* moveResolvedLocked: a mark that is set ends past the stored messages, and on the side of
\* memory's messages where it was.
LEMMA MarkMoves ==
  ASSUME Types, QueueInv, NEW top \in Nat, Top = top, NEW last \in Nat, last > top + Len(queue),
         NEW k \in Keys
  PROVE  /\ MovedMark(k, last) \in Nat /\ MovedMark(k, last) <= last
         /\ resolvedBefore[k] = 0 <=> MovedMark(k, last) = 0
         /\ resolvedBefore[k] # 0 => MovedMark(k, last) > top
         /\ \A i \in 1..Len(queue) : queue[i].id < resolvedBefore[k] <=> top + i < MovedMark(k, last)
<1>1. /\ queue \in Seq(Item) /\ Len(queue) \in Nat /\ Sorted(queue) /\ resolvedBefore[k] \in Nat
  BY DEF Types, QueueInv
<1>2. \A i \in 1..Len(queue) : queue[i].id \in Nat
  <2>1. \A i \in 1..Len(queue) : queue[i] \in Item BY <1>1
  <2> QED BY <2>1 DEF Item
<1>3. \A i \in 1..Len(queue) : NewID(queue[i].id) = top + i BY NewNumbers
<1>4. CASE resolvedBefore[k] = 0
  <2>1. MovedMark(k, last) = 0 BY <1>4 DEF MovedMark
  <2>2. \A i \in 1..Len(queue) : ~(queue[i].id < 0) /\ ~(top + i < 0) BY <1>1, <1>2
  <2>3. 0 <= last BY <1>1
  <2> QED BY <1>4, <2>1, <2>2, <2>3
<1>5. CASE resolvedBefore[k] # 0
  <2>1. PICK rb : rb = resolvedBefore[k] OBVIOUS
  <2>2. PICK T : T = {last} \cup {NewID(id) : id \in {j \in IDs(queue) : j >= rb}} OBVIOUS
  <2>3. \A x \in T : x = last \/ \E i \in 1..Len(queue) : queue[i].id >= rb /\ x = top + i
    BY <1>3, <2>2 DEF IDs
  <2>4. \A i \in 1..Len(queue) : queue[i].id >= rb => top + i \in T
    <3> SUFFICES ASSUME NEW i \in 1..Len(queue), queue[i].id >= rb PROVE top + i \in T
      OBVIOUS
    <3>1. queue[i].id \in {j \in IDs(queue) : j >= rb} BY DEF IDs
    <3>2. NewID(queue[i].id) \in T BY <2>2, <3>1
    <3> QED BY <1>3, <3>2
  <2>5. \A x \in T : x \in Nat /\ x > top
    <3>1. last > top BY <1>1
    <3>2. \A i \in 1..Len(queue) : top + i \in Nat /\ top + i > top BY <1>1
    <3> QED BY <2>3, <3>1, <3>2
  <2>6. last \in T BY <2>2
  <2>7. PICK m : m = MovedMark(k, last) OBVIOUS
  <2>8. m = Min(T) BY <1>5, <2>1, <2>2, <2>7 DEF MovedMark
  <2>9. m \in T /\ \A x \in T : m <= x BY <2>5, <2>6, <2>8, MinFacts
  <2>10. m \in Nat /\ m > top /\ m <= last /\ m # 0
    <3>1. m \in Nat /\ m > top /\ m <= last BY <2>5, <2>6, <2>9
    <3> QED BY <3>1
  <2>11. ASSUME NEW i \in 1..Len(queue) PROVE queue[i].id < rb <=> top + i < m
    <3>1. CASE queue[i].id >= rb
      <4>1. m <= top + i BY <2>4, <2>9, <3>1
      <4>2. ~(top + i < m) BY <1>1, <2>10, <4>1
      <4>3. ~(queue[i].id < rb) BY <1>1, <1>2, <2>1, <3>1
      <4> QED BY <4>2, <4>3
    <3>2. CASE queue[i].id < rb
      <4>1. CASE m = last BY <1>1, <3>2, <4>1
      <4>2. ASSUME NEW j \in 1..Len(queue), queue[j].id >= rb, m = top + j PROVE top + i < m
        <5>1. queue[i].id < queue[j].id /\ queue[i].id # queue[j].id BY <1>1, <1>2, <2>1, <3>2, <4>2
        <5>2. ~(j < i)
          <6>1. j < i => queue[j].id < queue[i].id BY <1>1 DEF Sorted
          <6> QED BY <1>2, <5>1, <6>1
        <5>3. i < j BY <1>1, <5>1, <5>2
        <5> QED BY <1>1, <4>2, <5>3
      <4> QED BY <2>3, <2>9, <3>2, <4>1, <4>2
    <3> QED BY <1>1, <1>2, <2>1, <3>1, <3>2
  <2> QED BY <1>5, <2>1, <2>7, <2>10, <2>11
<1> QED BY <1>4, <1>5

\* Load: the numbers change and every in-flight and resolved mark moves with its messages;
\* what the merged queue does not hold is in the tick's hands to be reported.
LEMMA LoadKeeps ==
  ASSUME NotifierInv, Load
  PROVE  NotifierInv'
<1>1. /\ Types /\ MessageInv /\ HangInv /\ QueueInv /\ FlightInv /\ MarkInv /\ StoreInv /\ "tick" \in Actors
  BY NotifierAssumption DEF NotifierInv
<1>2. ~loaded /\ act["tick"].pc = "idle" BY DEF Load, At
<1>3. Numbers(act["tick"].drops) = {} /\ act["tick"].msg.n = 0
  BY <1>1, <1>2, HandsOf DEF Holding
<1>4. PICK S : S = stored.queue OBVIOUS
<1>5. /\ S \in Seq(Item) /\ Sorted(S) /\ \A i \in 1..Len(S) : Of(S[i]) /\ S[i] \in Item /\ S[i].id \in Nat
  <2>1. S \in Seq(Item) /\ Sorted(S) /\ \A i \in 1..Len(S) : Of(S[i])
    BY <1>1, <1>4 DEF Types, Store, StoreInv
  <2>2. \A i \in 1..Len(S) : S[i] \in Item BY <2>1
  <2> QED BY <2>1, <2>2 DEF Item
<1>6. /\ queue \in Seq(Item) /\ Len(queue) \in Nat /\ nextID \in Nat /\ Len(msgs) \in Nat /\ MaxMsgs \in Nat
      /\ Len(msgs) <= MaxMsgs /\ msgs' = msgs
  BY <1>1, NotifierAssumption DEF Types, Load
<1>7. \A j \in 1..Len(queue) : Of(queue[j]) /\ queue[j] \in Item /\ queue[j].id \in Nat
  <2>1. \A j \in 1..Len(queue) : queue[j] \in Item BY <1>6
  <2> QED BY <1>1, <2>1 DEF QueueInv, Item
<1>8. PICK top \in Nat : top = Top /\ \A i \in 1..Len(S) : S[i].id <= top BY <1>4, <1>5, TopFacts DEF Top
<1>9. PICK last : last = Max({nextID, Top + Len(queue) + 1}) OBVIOUS
<1>10. last \in Nat /\ last > top + Len(queue) /\ last # 0
  <2>1. last = IF nextID >= top + Len(queue) + 1 THEN nextID ELSE top + Len(queue) + 1
    BY <1>6, <1>8, <1>9, MaxOfTwo
  <2> QED BY <1>6, <2>1
<1>11. PICK M : M = MergedQueue OBVIOUS
<1>12. M = Merged(S, queue, top) BY <1>4, <1>8, <1>11 DEF MergedQueue, Merged, Renumbered
<1>13. /\ M \in Seq(Item) /\ Sorted(M)
       /\ \A i \in 1..Len(S) : i \in 1..Len(M) /\ M[i] = S[i]
       /\ \A j \in 1..Len(queue) : Len(S) + j \in 1..Len(M) /\ M[Len(S) + j] = [queue[j] EXCEPT !.id = top + j]
       /\ \A i \in 1..Len(M) : i \in 1..Len(S) \/ \E j \in 1..Len(queue) : i = Len(S) + j
  <2>1. PICK Q : Q = queue OBVIOUS
  <2>2. Q \in Seq(Item) /\ M = Merged(S, Q, top) BY <1>6, <1>12, <2>1
  <2>3. \A i \in 1..Len(S) : S[i].id <= top BY <1>8
  <2>4. S \in Seq(Item) /\ Sorted(S) /\ top \in Nat BY <1>5
  <2>5. IsMerge(M, S, Q, top) BY <2>2, <2>3, <2>4, MergeFacts
  <2> QED BY <2>1, <2>5 DEF IsMerge
<1>14. \A j \in 1..Len(queue) : /\ M[Len(S) + j].id = top + j /\ M[Len(S) + j].n = queue[j].n
                                /\ M[Len(S) + j].kind = queue[j].kind /\ M[Len(S) + j].key = queue[j].key
  BY <1>7, <1>13 DEF Item
<1>15. PICK drops : drops = Overflow(M) OBVIOUS
<1>16. PICK pc : pc = IF drops = <<>> THEN "idle" ELSE "report" OBVIOUS
<1>17. PICK r : r = [Idle EXCEPT !.pc = pc, !.next = "idle", !.drops = drops] OBVIOUS
<1>18. PICK past : past = {s \in Range(S) : s.kind = "problem" /\ resolvedBefore[s.key] # 0} OBVIOUS
<1>19. /\ queue' = Trimmed(M) /\ nextID' = last /\ Step("tick", r) /\ loaded' = TRUE
       /\ flights' = {[f EXCEPT !.id = NewID(@)] : f \in {g \in flights : g.id \in IDs(queue)}}
       /\ resolvedBefore' = [k \in Keys |-> MovedMark(k, last)]
       /\ marked' = marked \cup {s.n : s \in past}
       /\ UNCHANGED <<settlers, telegramOK, offline, sendVars, dropped, stored, restarts, crashed, msgs>>
  BY <1>4, <1>9, <1>11, <1>15, <1>16, <1>17, <1>18 DEF Load, GoOn
<1>20. /\ PartOf(queue', M) /\ PartOf(drops, M) /\ Len(queue') <= MaxQueue
       /\ \A j \in 1..Len(M) : \/ \E i \in 1..Len(queue') : queue'[i] = M[j]
                               \/ \E i \in 1..Len(drops) : drops[i] = M[j]
  BY <1>13, <1>15, <1>19, TrimParts
<1>21. /\ r \in Actor /\ r.pc = pc /\ r.next = "idle" /\ r.drops = drops /\ r.msg = Idle.msg
       /\ r.claimed = Idle.claimed
  <2>1. drops \in Seq(Item) /\ "idle" \in Places /\ pc \in Places BY <1>16, <1>20 DEF PartOf, Places
  <2> QED BY <1>17, <2>1, IdleFacts DEF Actor
<1>22. r.msg.n = 0 /\ r.claimed = {} /\ r.msg.kind = "event" BY <1>21, IdleFacts
<1>23. Moved("tick", r) BY <1>1, <1>19, <1>21, StepMoves DEF Types
<1>24. \A k \in Keys : /\ MovedMark(k, last) \in Nat /\ MovedMark(k, last) <= last
                       /\ resolvedBefore[k] = 0 <=> MovedMark(k, last) = 0
                       /\ resolvedBefore[k] # 0 => MovedMark(k, last) > top
                       /\ \A i \in 1..Len(queue) : queue[i].id < resolvedBefore[k] <=> top + i < MovedMark(k, last)
  BY <1>1, <1>8, <1>10, MarkMoves
<1>25. \A i \in 1..Len(queue) : NewID(queue[i].id) = top + i BY <1>1, <1>8, NewNumbers
<1>26. ASSUME NEW f \in flights'
       PROVE  \E g \in flights, i \in 1..Len(queue) :
                /\ g.id = queue[i].id /\ f = [g EXCEPT !.id = top + i]
                /\ f.id = top + i /\ f.tok = g.tok /\ f.n = g.n /\ f \in [tok : Nat, id : Nat, n : Nat]
  <2>1. PICK g \in flights : g.id \in IDs(queue) /\ f = [g EXCEPT !.id = NewID(g.id)] BY <1>19
  <2>2. PICK i \in 1..Len(queue) : g.id = queue[i].id BY <2>1 DEF IDs
  <2>3. f = [g EXCEPT !.id = top + i] BY <1>25, <2>1, <2>2
  <2>4. g \in [tok : Nat, id : Nat, n : Nat] /\ top + i \in Nat BY <1>1, <1>6 DEF Types
  <2>5. f.id = top + i /\ f.tok = g.tok /\ f.n = g.n /\ f \in [tok : Nat, id : Nat, n : Nat] BY <2>3, <2>4
  <2> QED BY <2>2, <2>3, <2>5
<1>27. Types'
  <2>1. act' \in [Actors -> Actor] BY <1>23 DEF Moved
  <2>2. flights' \subseteq [tok : Nat, id : Nat, n : Nat] BY <1>26
  <2>3. queue' \in Seq(Item) /\ Len(queue') <= MaxQueue BY <1>20 DEF PartOf
  <2>4. nextID' \in Nat /\ nextID' # 0 /\ loaded' \in BOOLEAN BY <1>10, <1>19
  <2>5. resolvedBefore' \in [Keys -> Nat] BY <1>19, <1>24
  <2>6. /\ stored.sms \subseteq Keys /\ stored.undelivered \subseteq Nat /\ stored.cond \in Cond
    BY <1>1 DEF Types, Store
  <2>7. smsProblems' \subseteq Keys /\ undelivered' \subseteq Nat BY <1>1, <2>6 DEF Load, Types
  <2>8. cond' \in Cond BY <1>1, <2>6 DEF Load, Types, Cond
  <2>9. failing' \in BOOLEAN BY DEF Load
  <2> QED BY <1>1, <1>19, <2>1, <2>2, <2>3, <2>4, <2>5, <2>7, <2>8, <2>9 DEF Types, sendVars
<1>28. GrowsMsgs /\ MessageInv' BY <1>1, <1>6 DEF GrowsMsgs, MessageInv
<1>29. HangInv' /\ KeepsTokens /\ KeepsSent BY <1>1, <1>19, <1>27, <1>28, NoSend DEF sendVars
<1>30. ASSUME NEW i \in 1..Len(queue')
       PROVE  \/ \E j \in 1..Len(S) : queue'[i] = S[j]
              \/ \E j \in 1..Len(queue) :
                   /\ queue'[i].id = top + j /\ queue'[i].n = queue[j].n
                   /\ queue'[i].kind = queue[j].kind /\ queue'[i].key = queue[j].key
  <2>1. PICK k \in 1..Len(M) : queue'[i] = M[k] BY <1>20 DEF PartOf
  <2>2. CASE k \in 1..Len(S)
    <3>1. M[k] = S[k] BY <1>13, <2>2
    <3> QED BY <2>1, <2>2, <3>1
  <2>3. ASSUME NEW j \in 1..Len(queue), k = Len(S) + j
        PROVE  /\ queue'[i].id = top + j /\ queue'[i].n = queue[j].n
               /\ queue'[i].kind = queue[j].kind /\ queue'[i].key = queue[j].key
    BY <1>14, <2>1, <2>3
  <2> QED BY <1>13, <2>2, <2>3
<1>31. QueueInv'
  <2>1. Sorted(queue') BY <1>13, <1>20 DEF PartOf
  <2>2. ASSUME NEW i \in 1..Len(queue') PROVE queue'[i].id < last /\ Of(queue'[i])
    <3>1. ASSUME NEW j \in 1..Len(S), queue'[i] = S[j] PROVE queue'[i].id < last /\ Of(queue'[i])
      <4>1. S[j].id \in Nat /\ S[j].id <= top BY <1>5, <1>8
      <4>2. S[j].id < last BY <1>6, <1>10, <4>1
      <4> QED BY <1>5, <3>1, <4>2
    <3>2. ASSUME NEW j \in 1..Len(queue), queue'[i].id = top + j, queue'[i].n = queue[j].n,
                 queue'[i].kind = queue[j].kind, queue'[i].key = queue[j].key
          PROVE  queue'[i].id < last /\ Of(queue'[i])
      <4>1. top + j < last BY <1>6, <1>10
      <4>2. Of(queue'[i]) BY <1>7, <3>2 DEF Of
      <4> QED BY <3>2, <4>1, <4>2
    <3> QED BY <1>30, <3>1, <3>2
  <2> QED BY <1>6, <1>19, <2>1, <2>2 DEF QueueInv, Sorted, Of
<1>32. FlightInv'
  <2>1. ASSUME NEW f \in flights'
        PROVE  /\ f.id < last /\ f.n \in 1..Len(msgs') /\ f.tok # 0 /\ TokenOf(f.tok, f.n)'
               /\ \A i \in 1..Len(queue') : queue'[i].id = f.id => queue'[i].n = f.n
    <3>1. PICK g \in flights, i \in 1..Len(queue) :
            /\ g.id = queue[i].id /\ f.id = top + i /\ f.tok = g.tok /\ f.n = g.n
      BY <1>26
    <3>2. /\ g.n \in 1..Len(msgs) /\ g.tok # 0 /\ TokenOf(g.tok, g.n) /\ queue[i].n = g.n
      BY <1>1, <3>1 DEF FlightInv
    <3>3. g.tok \in Nat /\ g.n \in 1..MaxMsgs BY <1>1, <1>6, <3>2 DEF Types
    <3>4. TokenOf(g.tok, g.n)' BY <1>29, <3>2, <3>3 DEF KeepsTokens
    <3>5. TokenOf(f.tok, f.n)'
      <4>1. PICK t : t = g.tok OBVIOUS
      <4>2. PICK n : n = g.n OBVIOUS
      <4>3. TokenOf(t, n)' BY <1>29, <3>2, <3>3, <4>1, <4>2 DEF KeepsTokens
      <4>4. f.tok = t /\ f.n = n BY <3>1, <4>1, <4>2
      <4> QED BY <4>3, <4>4
    <3>6. f.id < last BY <1>6, <1>10, <3>1
    <3>7. ASSUME NEW x \in 1..Len(queue'), queue'[x].id = f.id PROVE queue'[x].n = f.n
      <4>1. ASSUME NEW j \in 1..Len(S), queue'[x] = S[j] PROVE FALSE
        <5>1. S[j].id <= top /\ S[j].id \in Nat BY <1>5, <1>8
        <5>2. S[j].id = top + i BY <3>1, <3>7, <4>1
        <5> QED BY <1>6, <5>1, <5>2
      <4>2. ASSUME NEW j \in 1..Len(queue), queue'[x].id = top + j, queue'[x].n = queue[j].n
            PROVE  queue'[x].n = f.n
        <5>1. i = j BY <1>6, <3>1, <3>7, <4>2
        <5> QED BY <3>1, <3>2, <4>2, <5>1
      <4> QED BY <1>30, <4>1, <4>2
    <3> QED BY <1>6, <3>1, <3>2, <3>5, <3>6, <3>7
  <2>2. ASSUME NEW f \in flights', NEW h \in flights', f.id = h.id PROVE f = h
    <3>1. PICK g \in flights, i \in 1..Len(queue) :
            g.id = queue[i].id /\ f = [g EXCEPT !.id = top + i] /\ f.id = top + i
      BY <1>26
    <3>2. PICK e \in flights, j \in 1..Len(queue) :
            e.id = queue[j].id /\ h = [e EXCEPT !.id = top + j] /\ h.id = top + j
      BY <1>26
    <3>3. i = j BY <1>6, <2>2, <3>1, <3>2
    <3>4. g = e BY <1>1, <3>1, <3>2, <3>3 DEF FlightInv
    <3> QED BY <3>1, <3>2, <3>3, <3>4
  <2> QED BY <1>19, <2>1, <2>2 DEF FlightInv
<1>33. \A s \in past : \E j \in 1..Len(S) : s = S[j] /\ s.kind = "problem" /\ resolvedBefore[s.key] # 0
  BY <1>5, <1>18 DEF Range
<1>34. \A j \in 1..Len(S) : S[j].kind = "problem" => S[j].n \notin Numbers(queue) \cup marked
  BY <1>1, <1>2, <1>4 DEF MarkInv
<1>35. MarkInv'
  <2>1. ASSUME NEW i \in 1..Len(queue'), queue'[i].kind = "problem"
        PROVE  queue'[i].n \in marked' <=> queue'[i].id < resolvedBefore'[queue'[i].key]
    <3>1. ASSUME NEW j \in 1..Len(S), queue'[i] = S[j]
          PROVE  queue'[i].n \in marked' <=> queue'[i].id < resolvedBefore'[queue'[i].key]
      <4>1. PICK k : k = S[j].key OBVIOUS
      <4>2. S[j].kind = "problem" /\ k \in Keys /\ S[j].id \in Nat /\ S[j].id <= top
        BY <1>5, <1>8, <2>1, <3>1, <4>1 DEF Of
      <4>3. resolvedBefore'[k] = MovedMark(k, last) /\ MovedMark(k, last) \in Nat BY <1>19, <1>24, <4>2
      <4>4. CASE resolvedBefore[k] # 0
        <5>1. S[j] \in past BY <1>5, <1>18, <4>1, <4>2, <4>4 DEF Range
        <5>2. S[j].n \in marked' BY <1>19, <5>1
        <5>3. MovedMark(k, last) > top BY <1>24, <4>2, <4>4
        <5>4. S[j].id < resolvedBefore'[k] BY <4>2, <4>3, <5>3
        <5> QED BY <3>1, <4>1, <5>2, <5>4
      <4>5. CASE resolvedBefore[k] = 0
        <5>1. MovedMark(k, last) = 0 BY <1>24, <4>2, <4>5
        <5>2. ~(S[j].id < resolvedBefore'[k]) BY <4>2, <4>3, <5>1
        <5>3. S[j].n \notin marked BY <1>34, <4>2
        <5>4. ASSUME NEW s \in past, s.n = S[j].n PROVE FALSE
          <6>1. PICK x \in 1..Len(S) : s = S[x] /\ resolvedBefore[s.key] # 0 BY <1>33
          <6>2. Of(S[x]) /\ Of(S[j]) /\ S[x].n = S[j].n BY <1>5, <5>4, <6>1
          <6>3. S[x].key = k BY <4>1, <6>2 DEF Of
          <6> QED BY <4>5, <6>1, <6>3
        <5>5. S[j].n \notin marked' BY <1>19, <5>3, <5>4
        <5> QED BY <3>1, <4>1, <5>2, <5>5
      <4> QED BY <4>4, <4>5
    <3>2. ASSUME NEW j \in 1..Len(queue), queue'[i].id = top + j, queue'[i].n = queue[j].n,
                 queue'[i].kind = queue[j].kind, queue'[i].key = queue[j].key
          PROVE  queue'[i].n \in marked' <=> queue'[i].id < resolvedBefore'[queue'[i].key]
      <4>1. PICK k : k = queue[j].key OBVIOUS
      <4>2. queue[j].kind = "problem" /\ k \in Keys BY <1>7, <2>1, <3>2, <4>1 DEF Of
      <4>3. resolvedBefore'[k] = MovedMark(k, last) BY <1>19, <4>2
      <4>4. queue[j].id < resolvedBefore[k] <=> top + j < MovedMark(k, last) BY <1>24, <4>2
      <4>5. queue[j].n \in marked <=> queue[j].id < resolvedBefore[k]
        BY <1>1, <4>1, <4>2 DEF MarkInv, ResolvedMarkSeparates
      <4>6. \A s \in past : s.n # queue[j].n BY <1>33, <1>34 DEF Numbers
      <4>7. queue[j].n \in marked' <=> queue[j].n \in marked BY <1>19, <4>6
      <4> QED BY <3>2, <4>1, <4>3, <4>4, <4>5, <4>7
    <3> QED BY <1>30, <3>1, <3>2
  <2>2. \A k \in Keys : resolvedBefore'[k] <= nextID' BY <1>19, <1>24
  <2>3. marked' \subseteq 1..Len(msgs')
    <3>1. \A s \in past : s.n \in 1..Len(msgs) BY <1>5, <1>33 DEF Of
    <3> QED BY <1>1, <1>6, <1>19, <3>1 DEF MarkInv
  <2> QED BY <1>19, <2>1, <2>2, <2>3 DEF MarkInv, ResolvedMarkSeparates
<1>36. ASSUME NEW j \in 1..Len(M), NEW n, n = M[j].n PROVE Safe(n)'
  <2>1. CASE \E i \in 1..Len(queue') : queue'[i] = M[j]
    <3>1. n \in Numbers(queue)' BY <1>36, <2>1 DEF Numbers
    <3> QED BY <3>1 DEF Safe, Queued
  <2>2. CASE \E i \in 1..Len(drops) : drops[i] = M[j]
    <3>1. act'["tick"].drops = drops BY <1>1, <1>21, <1>23 DEF Moved
    <3>2. n \in Dropping' BY <1>1, <1>36, <2>2, <3>1 DEF Dropping, Numbers
    <3> QED BY <3>2 DEF Safe, Queued
  <2> QED BY <1>20, <2>1, <2>2
<1>37. KeepsSafe
  <2> SUFFICES ASSUME NEW n \in 1..MaxMsgs, Safe(n) PROVE Safe(n)'
    BY DEF KeepsSafe
  <2>1. CASE n \in Numbers(queue)
    <3>1. PICK j \in 1..Len(queue) : n = queue[j].n BY <2>1 DEF Numbers
    <3>2. Len(S) + j \in 1..Len(M) /\ n = M[Len(S) + j].n BY <1>13, <1>14, <3>1
    <3> QED BY <1>36, <3>2
  <2>2. CASE n \in Numbers(S)
    <3>1. PICK j \in 1..Len(S) : n = S[j].n BY <2>2 DEF Numbers
    <3>2. j \in 1..Len(M) /\ n = M[j].n BY <1>13, <3>1
    <3> QED BY <1>36, <3>2
  <2>3. CASE n \in Dropping
    <3>1. PICK b \in Actors : n \in Numbers(act[b].drops) BY <2>3 DEF Dropping
    <3>2. act'[b] = act[b] BY <1>3, <1>23, <3>1 DEF Moved
    <3>3. n \in Dropping' BY <3>1, <3>2 DEF Dropping, Numbers
    <3> QED BY <3>3 DEF Safe, Queued
  <2>4. CASE n \in dropped \cup crashed BY <1>19, <2>4 DEF Safe
  <2>5. CASE WasSent(n) BY <1>29, <2>5 DEF KeepsSent, Safe
  <2> QED BY <1>2, <1>4, <2>1, <2>2, <2>3, <2>4, <2>5 DEF Safe, Queued
<1>38. Seen' \subseteq Seen \cup {act["tick"].msg.n}
  <2>1. \A i \in 1..Len(queue') : queue'[i].n \in Numbers(queue) \cup Numbers(S) BY <1>30 DEF Numbers
  <2>2. Numbers(queue)' \subseteq Numbers(queue) \cup Numbers(S) BY <2>1 DEF Numbers
  <2>3. \A s \in past : s.n \in Numbers(S) BY <1>33 DEF Numbers
  <2> QED BY <1>2, <1>4, <1>19, <2>2, <2>3 DEF Seen
<1>39. ActorInv("tick", r)'
  <2>1. pc \in {"idle", "report"} /\ (pc # "report" => drops = <<>>) BY <1>16
  <2>2. HoldsMessage("tick", r)' BY <1>21, <1>22, <2>1 DEF HoldsMessage, Early
  <2>3. HoldsCopy("tick", r)' BY <1>21, <2>1 DEF HoldsCopy, FlushPlaces
  <2>4. HoldsSend(r)' BY <1>21, <1>22, <2>1 DEF HoldsSend, Early
  <2> QED BY <2>2, <2>3, <2>4 DEF ActorInv
<1>40. \A n \in 1..Len(msgs) : ~(n = act["tick"].msg.n) BY <1>3, <1>6
<1>41. \A n \in 1..Len(msgs') : ~(n > Len(msgs)) BY <1>6
<1>42. /\ dropped \subseteq dropped' /\ crashed \subseteq crashed' /\ (loaded => loaded') /\ stored' = stored
  BY <1>19
<1> QED BY <1>1, <1>21, <1>22, <1>23, <1>27, <1>28, <1>29, <1>31, <1>32, <1>35, <1>37, <1>38, <1>39, <1>40,
           <1>41, <1>42, AnyStep

-----------------------------------------------------------------------------
(* The theorems *)

LEMMA InitKeeps ==
  ASSUME Init
  PROVE  NotifierInv
<1>1. /\ queue = <<>> /\ nextID = 1 /\ resolvedBefore = [k \in Keys |-> 0]
      /\ offline = FALSE /\ failing = FALSE /\ telegramOK = FALSE
      /\ smsProblems = {} /\ undelivered = {} /\ flights = {} /\ settlers = {}
      /\ cond = [k \in Keys |-> Untracked]
      /\ hang = [c \in Channels |-> NoHang] /\ results = {}
      /\ act = [a \in Actors |-> Idle]
      /\ stored = NoState /\ loaded = TRUE
      /\ msgs = <<>> /\ marked = {}
      /\ sent = [c \in Channels |-> [n \in 1..MaxMsgs |-> 0]] /\ hangs = 0
  BY DEF Init
<1>2. [k \in Keys |-> Untracked] \in Cond BY DEF Cond, Untracked
<1>3. <<>> \in Seq(Item) /\ <<>> \in Seq(Message) /\ Len(queue) = 0 /\ Len(msgs) = 0 BY <1>1
<1>4. NoState \in Store /\ NoState.queue = <<>> /\ NoState.upTo = 0 BY <1>2, <1>3 DEF NoState, Store
<1>5. Types
  <2>1. act \in [Actors -> Actor] BY <1>1, IdleFacts
  <2>2. hang \in [Channels -> [tok : Nat, n : Nat]] BY <1>1 DEF NoHang
  <2>3. resolvedBefore \in [Keys -> Nat] /\ sent \in [Channels -> [1..MaxMsgs -> Nat]] BY <1>1
  <2>4. Len(queue) <= MaxQueue /\ Len(msgs) <= MaxMsgs BY <1>3, NotifierAssumption
  <2>5. queue \in Seq(Item) /\ msgs \in Seq(Message) /\ nextID \in Nat /\ nextID # 0 /\ hangs \in Nat
    BY <1>1, <1>3
  <2>6. stored \in Store /\ cond \in Cond BY <1>1, <1>2, <1>4
  <2>7. /\ offline \in BOOLEAN /\ failing \in BOOLEAN /\ telegramOK \in BOOLEAN /\ loaded \in BOOLEAN
        /\ smsProblems \subseteq Keys /\ flights \subseteq [tok : Nat, id : Nat, n : Nat]
        /\ settlers \subseteq [tok : Nat, key : Keys, n : Nat] /\ results \subseteq [tok : Nat, ok : BOOLEAN]
        /\ undelivered \subseteq Nat
    BY <1>1
  <2> QED BY <2>1, <2>2, <2>3, <2>4, <2>5, <2>6, <2>7 DEF Types
<1>6. MessageInv /\ QueueInv /\ FlightInv BY <1>1, <1>3 DEF MessageInv, QueueInv, Sorted, FlightInv
<1>7. HangInv
  <2>1. \A c \in Channels : hang[c] = NoHang /\ NoHang.tok = 0 BY <1>1 DEF NoHang
  <2> QED BY <1>1, <2>1 DEF HangInv
<1>8. StoreInv BY <1>1, <1>3, <1>4 DEF StoreInv, Sorted
<1>9. MarkInv BY <1>1, <1>3 DEF MarkInv, ResolvedMarkSeparates
<1>10. \A a \in Actors : act[a] = Idle BY <1>1
<1>11. \A a \in Actors : ActorInv(a, act[a])
  <2> SUFFICES ASSUME NEW a \in Actors PROVE ActorInv(a, Idle)
    BY <1>10
  <2>1. HoldsMessage(a, Idle) BY IdleFacts DEF HoldsMessage, Early
  <2>2. HoldsCopy(a, Idle) BY IdleFacts DEF HoldsCopy, FlushPlaces
  <2>3. HoldsSend(Idle) BY IdleFacts DEF HoldsSend, Early, Late
  <2> QED BY <2>1, <2>2, <2>3 DEF ActorInv
<1>12. Apart BY <1>10, IdleFacts DEF Apart
<1>13. NothingLost BY <1>1 DEF NothingLost
<1> QED BY <1>5, <1>6, <1>7, <1>8, <1>9, <1>11, <1>12, <1>13 DEF NotifierInv

LEMMA NextKeeps ==
  ASSUME NotifierInv, Next
  PROVE  NotifierInv'
<1>1. ASSUME NEW a \in Actors, NEW o,
             TryTelegram(a, o) \/ SMSInstead(a, o) \/ SendSMS(a, o) \/ FallbackSend(a, o)
      PROVE  NotifierInv'
  BY <1>1, TryTelegramKeeps, SMSInsteadKeeps, SendSMSKeeps, FallbackSendKeeps
<1>2. ASSUME NEW a \in Actors,
             EnqueueTelegram(a) \/ EnqueueSMS(a) \/ Resolve(a) \/ Fallback(a) \/ ReportDropped(a)
      PROVE  NotifierInv'
  BY <1>2, EnqueuesKeep, ResolveKeeps, FallbackKeeps, ReportDroppedKeeps
<1>3. ASSUME FlushBegin \/ FlushSkip \/ FlushRemove \/ FlushTrack \/ (\E o : FlushSend(o))
      PROVE  NotifierInv'
  BY <1>3, FlushBeginKeeps, FlushSkipKeeps, FlushRemoveKeeps, FlushTrackKeeps, FlushSendKeeps
<1>4. ASSUME Expire \/ SetOffline \/ (\E k \in Keys : Streak(k) \/ Clear(k)) PROVE NotifierInv'
  BY <1>4, ExpireKeeps, QuietKeep, ClearKeeps
<1>5. ASSUME NEW ch \in Channels, NEW ok \in BOOLEAN, HangReturns(ch, ok) PROVE NotifierInv'
  BY <1>5, HangReturnsKeeps
<1>6. ASSUME NEW f \in flights, NEW r \in results, Settle(f, r) PROVE NotifierInv'
  BY <1>6, SettleKeeps
<1>7. ASSUME NEW s \in settlers, NEW r \in results, SettleFallback(s, r) PROVE NotifierInv'
  BY <1>7, QuietKeep
<1>8. ASSUME EndTick \/ Checkpoint \/ Restart \/ Load PROVE NotifierInv'
  BY <1>8, EndTickKeeps, CheckpointKeeps, RestartKeeps, LoadKeeps
<1>9. ASSUME (\E k \in Keys, mode \in Modes : NotifyCondition(k, mode))
             \/ (\E a \in Actors \ {"tick"}, mode \in Modes : NotifyEvent(a, mode))
      PROVE  NotifierInv'
  BY <1>9, NotifiesKeep
<1> QED BY <1>1, <1>2, <1>3, <1>4, <1>5, <1>6, <1>7, <1>8, <1>9 DEF Next

\* Nothing changes without a step.
LEMMA StutterKeeps ==
  ASSUME NotifierInv, UNCHANGED vars
  PROVE  NotifierInv'
<1>1. UNCHANGED <<queue, nextID, resolvedBefore, flights, marked, smsProblems, settlers, failing, telegramOK,
                  offline, hang, results, hangs, sent, undelivered, dropped, stored, loaded, crashed, cond, act,
                  msgs>>
  BY DEF vars, queueVars, smsVars, telegramVars, sendVars, dropVars, storeVars
<1>2. Types' BY <1>1 DEF NotifierInv, Types
<1>3. MessageInv' /\ QueueInv' /\ HangInv'
  BY <1>1 DEF NotifierInv, MessageInv, QueueInv, HangInv, Sorted, Of
<1>4. \A t, n : TokenOf(t, n) <=> TokenOf(t, n)' BY <1>1 DEF TokenOf, WasSent
<1>5. FlightInv' BY <1>1, <1>4 DEF NotifierInv, FlightInv
<1>6. StoreInv' BY <1>1 DEF NotifierInv, StoreInv, Sorted, Of, Numbers, WasSent
<1>7. MarkInv' BY <1>1 DEF NotifierInv, MarkInv, ResolvedMarkSeparates, Numbers
<1>8. Dropping' = Dropping /\ InHand' = InHand BY <1>1 DEF Dropping, InHand, Numbers, At
<1>9. Queued' = Queued /\ Seen' = Seen BY <1>1, <1>8 DEF Queued, Seen, Numbers
<1>10. \A n : WasSent(n) <=> WasSent(n)' BY <1>1 DEF WasSent
<1>11. \A n : (Safe(n) <=> Safe(n)') /\ (Fresh(n) <=> Fresh(n)') BY <1>1, <1>9, <1>10 DEF Safe, Fresh
<1>12. ASSUME NEW a \in Actors PROVE ActorInv(a, act[a])'
  <2>1. HoldsMessage(a, act[a]) /\ HoldsCopy(a, act[a]) /\ HoldsSend(act[a]) BY DEF NotifierInv, ActorInv
  <2>2. HoldsMessage(a, act[a])' BY <1>1, <2>1 DEF HoldsMessage, Of
  <2>3. HoldsCopy(a, act[a])' BY <1>1, <1>4, <1>10, <2>1 DEF HoldsCopy, Of
  <2>4. HoldsSend(act[a])' BY <1>1, <1>4, <1>11, <2>1 DEF HoldsSend
  <2> QED BY <2>2, <2>3, <2>4 DEF ActorInv
<1>13. Apart' BY <1>1 DEF NotifierInv, Apart
<1>14. NothingLost' BY <1>1, <1>8, <1>9, <1>10 DEF NotifierInv, NothingLost
<1> QED BY <1>2, <1>3, <1>5, <1>6, <1>7, <1>12, <1>13, <1>14 DEF NotifierInv

\* The inductive invariant: numbers, tokens and marks mean what the notifier takes them for,
\* whatever the tick, a pusher, /clear, late results, crashes and a late load do in between.
THEOREM NotifierInvariant == Spec => []NotifierInv
<1>1. Init => NotifierInv BY InitKeeps
<1>2. NotifierInv /\ [Next]_vars => NotifierInv' BY NextKeeps, StutterKeeps
<1> QED BY <1>1, <1>2, PTL DEF Spec

\* No message handed to Notify is lost: it is being sent, was delivered, is queued, was
\* reported dropped, or died with a process that never saved it (handed over after the last
\* save, or in an actor's hands at it).
THEOREM MessagesAreKept == Spec => []NothingLost
<1>1. NotifierInv => NothingLost BY DEF NotifierInv
<1> QED BY <1>1, NotifierInvariant, PTL

\* Flush, settle and Merge find by its number the message they mean, an in-flight mark stays
\* on the message whose send it tracks, and a resolved mark between a key's two streaks, also
\* when a late Load renumbers the queue.
THEOREM MarksAreKept == Spec => []MarksKept
<1>1. ASSUME NotifierInv PROVE MarksKept
  <2>1. Range(msgs) \subseteq Message
    <3>1. msgs \in Seq(Message) BY <1>1 DEF NotifierInv, Types
    <3> QED BY <3>1 DEF Range
  <2>2. TypeOK BY <1>1, <2>1 DEF NotifierInv, Types, TypeOK, Cond
  <2>3. MarksFollowMessages BY <1>1 DEF NotifierInv, QueueInv, Sorted, FlightInv, MarksFollowMessages
  <2>4. ResolvedMarkSeparates BY <1>1 DEF NotifierInv, MarkInv
  <2> QED BY <2>2, <2>3, <2>4 DEF MarksKept
<1>2. NotifierInv => MarksKept BY <1>1
<1> QED BY <1>2, NotifierInvariant, PTL

-----------------------------------------------------------------------------
(* Nothing is dropped in silence.  AlertInv is a second layer on NotifierInv: *)
(* the PROBLEM of an open condition is not among the messages given up, or    *)
(* it was recovered from the store.                                          *)

\* One process, or only the tick calls the notifier and nothing goes by SMS alone.
Settings == MaxRestarts = 0 \/ (Actors = {"tick"} /\ "sms" \notin Modes)

\* The message was not given up, or is back.
Kept(n) == n \notin dropped \cup crashed \/ n \in Queued \/ WasSent(n)

\* Message n is a PROBLEM of key k, of the streak that began at `since'.
ProblemOf(k, since, n) ==
  msgs[n].kind = "problem" /\ msgs[n].key = k /\ msgs[n].streak = since

\* A streak is numbered by its first message, or by one to come.
StreakInv ==
  /\ \A n \in 1..Len(msgs) : msgs[n].kind # "event" => msgs[n].streak \in 1..n
  /\ \A k \in Keys : cond[k].since <= Len(msgs) + 1 /\ stored.cond[k].since <= Len(msgs) + 1

SMSProblem(item) == item.ch = "sms" /\ item.kind = "problem"

\* A PROBLEM that Flush would find stale is not of the current streak.
Ended(item) ==
  SMSProblem(item) =>
    /\ MaxRestarts = 0
    /\ item.id < resolvedBefore[item.key] => msgs[item.n].streak # cond[item.key].since

QueueEnded == \A i \in 1..Len(queue) : Ended(queue[i])

\* The conditions c may be saved with the queue: the PROBLEM of an open one goes with it.
Savable(c) ==
  /\ MaxRestarts # 0
  /\ \A k \in Keys :
       /\ c[k].since <= Len(msgs) + 1
       /\ c[k].open => \E n \in 1..Len(msgs) :
                         ProblemOf(k, c[k].since, n) /\ (n \in Numbers(queue) \/ WasSent(n))

\* What actor a, in state r, has in its hands.
HandInv(a, r) ==
  /\ r.msg.n # 0 /\ r.msg.kind # "event" => a = "tick"
  /\ r.msg.n # 0 /\ r.msg.kind = "resolved" => cond[r.msg.key].since = 0
  /\ r.pc = "sms" \/ (r.pc = "enqueueSMS" /\ r.msg.kind = "problem") => MaxRestarts = 0
  /\ \A i \in 1..Len(r.drops) : Of(r.drops[i])
  /\ r.pc \in FlushPlaces => \A j \in 1..Len(r.due) : Ended(r.due[j])
  /\ r.pc = "checkpoint" => Savable(r.conds)

\* What was saved goes together.
SavedInv ==
  /\ \A i \in 1..Len(stored.queue) : ~SMSProblem(stored.queue[i])
  /\ \A k \in Keys : stored.cond[k].open =>
       \E n \in 1..Len(msgs) :
         ProblemOf(k, stored.cond[k].since, n) /\ (n \in Numbers(stored.queue) \/ WasSent(n))

\* The PROBLEM of an open condition is kept.
OpenInv ==
  \A k \in Keys : cond[k].open => \E n \in 1..Len(msgs) : ProblemOf(k, cond[k].since, n) /\ Kept(n)

\* Only messages are given up.
GivenUpInv == dropped \cup crashed \cup stored.held \subseteq 1..Len(msgs)

AlertInv ==
  /\ restarts \in Nat /\ (MaxRestarts = 0 => loaded)
  /\ StreakInv /\ GivenUpInv /\ SavedInv /\ OpenInv /\ QueueEnded
  /\ \A a \in Actors : HandInv(a, act[a])

\* Each key keeps its streak and its mark, has no streak, or one after all messages.
StreaksMove ==
  \A k \in Keys : \/ cond'[k].since = cond[k].since /\ resolvedBefore'[k] = resolvedBefore[k]
                  \/ cond'[k].since = 0
                  \/ cond'[k].since > Len(msgs)

\* What ended stays so.
LEMMA EndedStays ==
  ASSUME Types, Types', GrowsMsgs, StreakInv, StreaksMove, NEW item, Of(item), Ended(item)
  PROVE  Ended(item)'
<1> SUFFICES ASSUME SMSProblem(item)
             PROVE  /\ MaxRestarts = 0
                    /\ item.id < resolvedBefore'[item.key] => msgs'[item.n].streak # cond'[item.key].since
  BY DEF Ended, SMSProblem
<1>1. /\ item.kind = "problem" /\ item.key \in Keys /\ item.n \in 1..Len(msgs) /\ msgs[item.n].kind = "problem"
      /\ MaxRestarts = 0
      /\ item.id < resolvedBefore[item.key] => msgs[item.n].streak # cond[item.key].since
  BY DEF Ended, SMSProblem, Of
<1>2. msgs'[item.n] = msgs[item.n] /\ msgs[item.n].streak \in 1..item.n /\ Len(msgs) \in Nat
  BY <1>1 DEF GrowsMsgs, StreakInv, Types
<1>3. PICK x : x = msgs[item.n].streak OBVIOUS
<1>4. x \in 1..Len(msgs) BY <1>1, <1>2, <1>3
<1>5. PICK y \in Nat : y = cond'[item.key].since BY <1>1 DEF Types, Cond
<1>6. CASE y = 0 \/ y > Len(msgs)
  <2>1. x # y BY <1>2, <1>4, <1>6
  <2> QED BY <1>1, <1>2, <1>3, <1>5, <2>1
<1>7. CASE cond'[item.key].since = cond[item.key].since /\ resolvedBefore'[item.key] = resolvedBefore[item.key]
  BY <1>1, <1>2, <1>7
<1> QED BY <1>1, <1>5, <1>6, <1>7 DEF StreaksMove

\* A PROBLEM of a streak stays one.
LEMMA ProblemStays ==
  ASSUME GrowsMsgs, NEW k, NEW since, NEW n \in 1..Len(msgs), ProblemOf(k, since, n)
  PROVE  ProblemOf(k, since, n)'
  BY DEF GrowsMsgs, ProblemOf

\* An actor that the step does not move.
LEMMA HandStays ==
  ASSUME Types, Types', GrowsMsgs, KeepsSent, StreakInv, StreaksMove,
         NEW b \in Actors, NEW r \in Actor, HoldsMessage(b, r), HoldsCopy(b, r), HandInv(b, r),
         r.msg.n # 0 /\ r.msg.kind = "resolved" => \A k \in Keys : cond[k].since = 0 => cond'[k].since = 0,
         MessageInv,
         r.pc = "checkpoint" => \A n \in Numbers(queue) : n \in Numbers(queue') \/ WasSent(n)'
  PROVE  HandInv(b, r)'
<1>1. /\ msgs \in Seq(Message) /\ msgs' \in Seq(Message) /\ Len(msgs) \in Nat /\ Len(msgs') \in Nat
      /\ Len(msgs) <= Len(msgs') /\ Len(msgs) <= MaxMsgs /\ MaxMsgs \in Nat
  BY NotifierAssumption DEF Types, GrowsMsgs
<1>2. r.msg.n # 0 /\ r.msg.kind = "resolved" => cond'[r.msg.key].since = 0
  <2> SUFFICES ASSUME r.msg.n # 0, r.msg.kind = "resolved" PROVE cond'[r.msg.key].since = 0
    OBVIOUS
  <2>1. r.msg.n \in 1..Len(msgs) /\ msgs[r.msg.n] = r.msg BY DEF HoldsMessage
  <2>2. r.msg.key \in Keys BY <2>1 DEF MessageInv
  <2> QED BY <2>2 DEF HandInv
<1>3. \A i \in 1..Len(r.drops) : Of(r.drops[i])'
  <2> SUFFICES ASSUME NEW i \in 1..Len(r.drops) PROVE Of(r.drops[i])'
    OBVIOUS
  <2>1. Of(r.drops[i]) BY DEF HandInv
  <2> QED BY <1>1, <2>1, OfStays
<1>4. r.pc \in FlushPlaces => \A j \in 1..Len(r.due) : Ended(r.due[j])'
  <2> SUFFICES ASSUME r.pc \in FlushPlaces, NEW j \in 1..Len(r.due) PROVE Ended(r.due[j])'
    OBVIOUS
  <2>1. Of(r.due[j]) /\ Ended(r.due[j]) BY DEF HandInv, HoldsCopy
  <2> QED BY <2>1, EndedStays
<1>5. r.pc = "checkpoint" => Savable(r.conds)'
  <2> SUFFICES ASSUME r.pc = "checkpoint" PROVE Savable(r.conds)'
    OBVIOUS
  <2>1. PICK c \in Cond : c = r.conds BY DEF Actor
  <2>2. Savable(c) BY <2>1 DEF HandInv
  <2>3. ASSUME NEW k \in Keys
        PROVE  /\ c[k].since <= Len(msgs') + 1
               /\ c[k].open => \E n \in 1..Len(msgs') :
                     ProblemOf(k, c[k].since, n)' /\ (n \in Numbers(queue') \/ WasSent(n)')
    <3>1. c[k].since <= Len(msgs) + 1 /\ c[k].since \in Nat BY <2>1, <2>2 DEF Savable, Cond
    <3>2. ASSUME c[k].open
          PROVE  \E n \in 1..Len(msgs') : ProblemOf(k, c[k].since, n)' /\ (n \in Numbers(queue') \/ WasSent(n)')
      <4>1. PICK n \in 1..Len(msgs) : ProblemOf(k, c[k].since, n) /\ (n \in Numbers(queue) \/ WasSent(n))
        BY <2>2, <3>2 DEF Savable
      <4>2. ProblemOf(k, c[k].since, n)' BY <4>1, ProblemStays
      <4>3. n \in 1..MaxMsgs /\ n \in 1..Len(msgs') BY <1>1
      <4>4. n \in Numbers(queue') \/ WasSent(n)' BY <4>1, <4>3 DEF KeepsSent
      <4> QED BY <4>2, <4>3, <4>4
    <3> QED BY <1>1, <3>1, <3>2
  <2>4. MaxRestarts # 0 BY <2>2 DEF Savable
  <2> QED BY <2>1, <2>3, <2>4 DEF Savable, Numbers
<1> QED BY <1>2, <1>3, <1>4, <1>5 DEF HandInv

\* What was saved stays good.
LEMMA SavedStays ==
  ASSUME Types, Types', GrowsMsgs, KeepsSent, SavedInv, stored' = stored
  PROVE  SavedInv'
<1>1. /\ Len(msgs) \in Nat /\ Len(msgs') \in Nat /\ Len(msgs) <= Len(msgs') /\ Len(msgs) <= MaxMsgs /\ MaxMsgs \in Nat
  BY NotifierAssumption DEF Types, GrowsMsgs
<1>2. \A i \in 1..Len(stored'.queue) : ~SMSProblem(stored'.queue[i]) BY DEF SavedInv
<1>3. ASSUME NEW k \in Keys, stored.cond[k].open
      PROVE  \E n \in 1..Len(msgs') :
               ProblemOf(k, stored.cond[k].since, n)' /\ (n \in Numbers(stored.queue) \/ WasSent(n)')
  <2>1. PICK x : x = stored.cond[k].since OBVIOUS
  <2>2. PICK n \in 1..Len(msgs) : ProblemOf(k, x, n) /\ (n \in Numbers(stored.queue) \/ WasSent(n))
    BY <1>3, <2>1 DEF SavedInv
  <2>3. ProblemOf(k, x, n)' BY <2>2, ProblemStays
  <2>4. n \in 1..MaxMsgs /\ n \in 1..Len(msgs') BY <1>1
  <2>5. n \in Numbers(stored.queue) \/ WasSent(n)' BY <2>2, <2>4 DEF KeepsSent
  <2>6. ProblemOf(k, stored.cond[k].since, n)' BY <2>1, <2>3 DEF ProblemOf
  <2> QED BY <2>4, <2>5, <2>6
<1> QED BY <1>2, <1>3 DEF SavedInv, SMSProblem, Numbers, ProblemOf

-----------------------------------------------------------------------------
(* What a step must show *)

\* What was queued stays so, or was delivered.
KeepsQueued == \A n \in 1..MaxMsgs : n \in Queued => n \in Queued' \/ WasSent(n)'

\* The same of the queue in memory.
KeepsLine == \A n \in Numbers(queue) : n \in Numbers(queue') \/ WasSent(n)'

\* Open conditions stay the same or end.
OpensNone == \A k \in Keys : cond'[k].open => cond[k].open /\ cond'[k].since = cond[k].since

\* A step of one actor is a move.
LEMMA StepIs ==
  ASSUME Types, Types', NEW a \in Actors, NEW r, Step(a, r)
  PROVE  r \in Actor /\ Moved(a, r)
<1>1. act \in [Actors -> Actor] /\ act' \in [Actors -> Actor] /\ act' = [act EXCEPT ![a] = r] BY DEF Types, Step
<1>2. act'[a] = r BY <1>1
<1>3. \A b \in Actors : b # a => act'[b] = act[b] BY <1>1
<1> QED BY <1>1, <1>2, <1>3 DEF Moved

\* A PROBLEM that was kept stays so while nothing is given up.
LEMMA KeptStays ==
  ASSUME KeepsSent, KeepsQueued, UNCHANGED <<dropped, crashed>>, NEW n \in 1..MaxMsgs, Kept(n)
  PROVE  Kept(n)'
  BY DEF KeepsSent, KeepsQueued, Kept

\* An open condition that stays so has its PROBLEM.
LEMMA OpenKept ==
  ASSUME Types, Types', GrowsMsgs, KeepsSent, KeepsQueued, UNCHANGED <<dropped, crashed>>, OpenInv,
         NEW k \in Keys, cond[k].open, cond'[k].since = cond[k].since
  PROVE  \E n \in 1..Len(msgs') : ProblemOf(k, cond[k].since, n)' /\ Kept(n)'
<1>1. /\ Len(msgs) \in Nat /\ Len(msgs') \in Nat /\ Len(msgs) <= Len(msgs') /\ Len(msgs) <= MaxMsgs /\ MaxMsgs \in Nat
  BY NotifierAssumption DEF Types, GrowsMsgs
<1>2. PICK x : x = cond[k].since OBVIOUS
<1>3. PICK n \in 1..Len(msgs) : ProblemOf(k, x, n) /\ Kept(n) BY <1>2 DEF OpenInv
<1>4. n \in 1..MaxMsgs /\ n \in 1..Len(msgs') BY <1>1
<1>5. ProblemOf(k, x, n)' /\ Kept(n)' BY <1>3, <1>4, ProblemStays, KeptStays
<1>6. ProblemOf(k, cond[k].since, n)' BY <1>2, <1>5 DEF ProblemOf
<1> QED BY <1>4, <1>5, <1>6

LEMMA OpenStays ==
  ASSUME Types, Types', GrowsMsgs, KeepsSent, KeepsQueued, UNCHANGED <<dropped, crashed>>, OpensNone, OpenInv
  PROVE  OpenInv'
<1> SUFFICES ASSUME NEW k \in Keys, cond'[k].open
             PROVE  \E n \in 1..Len(msgs') : ProblemOf(k, cond[k].since, n)' /\ Kept(n)'
  BY DEF OpenInv
<1>1. cond[k].open /\ cond'[k].since = cond[k].since BY DEF OpensNone
<1> QED BY <1>1, OpenKept

\* A step of actor a.
LEMMA AlertStep ==
  ASSUME Settings, NotifierInv, NotifierInv', AlertInv, KeepsSent, GrowsMsgs,
         UNCHANGED <<stored, loaded, restarts>>, StreaksMove, StreakInv', GivenUpInv', OpenInv', QueueEnded',
         NEW a \in Actors, NEW r \in Actor, Moved(a, r), HandInv(a, r)',
         a # "tick" => \A k \in Keys : cond[k].since = 0 => cond'[k].since = 0
  PROVE  AlertInv'
<1>1. Types /\ Types' /\ MessageInv /\ \A b \in Actors : ActorInv(b, act[b]) BY DEF NotifierInv
<1>2. /\ restarts \in Nat /\ (MaxRestarts = 0 => loaded) /\ StreakInv /\ SavedInv
      /\ \A b \in Actors : HandInv(b, act[b])
  BY DEF AlertInv
<1>3. SavedInv' BY <1>1, <1>2, SavedStays
<1>4. restarts' \in Nat /\ (MaxRestarts = 0 => loaded') BY <1>2
<1>5. ASSUME NEW b \in Actors PROVE HandInv(b, act[b])'
  <2>1. CASE b = a
    <3>1. act'[b] = r BY <2>1 DEF Moved
    <3> QED BY <2>1, <3>1 DEF HandInv
  <2>2. CASE b # a
    <3>1. PICK s \in Actor : s = act[b] BY <1>1 DEF Types
    <3>2. act'[b] = s BY <2>2, <3>1 DEF Moved
    <3>3. HoldsMessage(b, s) /\ HoldsCopy(b, s) BY <1>1, <3>1 DEF ActorInv
    <3>4. HandInv(b, s) BY <1>2, <3>1
    <3>5. s.pc # "checkpoint"
      <4> SUFFICES ASSUME s.pc = "checkpoint" PROVE FALSE
        OBVIOUS
      <4>1. MaxRestarts # 0 BY <3>4 DEF HandInv, Savable
      <4>2. Actors = {"tick"} BY <4>1 DEF Settings
      <4> QED BY <2>2, <4>2
    <3>6. s.msg.n # 0 /\ s.msg.kind = "resolved" => \A k \in Keys : cond[k].since = 0 => cond'[k].since = 0
      <4>1. CASE a # "tick" BY <4>1
      <4>2. CASE a = "tick" BY <2>2, <3>4, <4>2 DEF HandInv
      <4> QED BY <4>1, <4>2
    <3>7. HandInv(b, s)' BY <1>1, <1>2, <3>3, <3>4, <3>5, <3>6, HandStays
    <3> QED BY <3>2, <3>7 DEF HandInv
  <2> QED BY <2>1, <2>2
<1> QED BY <1>3, <1>4, <1>5 DEF AlertInv

\* The marks move only where there is no streak.
MarksMove == \A k \in Keys : resolvedBefore'[k] = resolvedBefore[k] \/ cond[k].since = 0

\* The queue has nothing new that Flush would find stale.
LineEnded == \A i \in 1..Len(queue') : \E item : item = queue'[i] /\ Of(item) /\ Ended(item)

\* A step of actor a that leaves the conditions alone and gives nothing up.
LEMMA AlertQuiet ==
  ASSUME Settings, NotifierInv, NotifierInv', AlertInv, KeepsSent, KeepsQueued, MarksMove, LineEnded,
         UNCHANGED <<stored, loaded, restarts, dropped, crashed, cond, msgs>>,
         NEW a \in Actors, NEW r \in Actor, Moved(a, r), HandInv(a, r)'
  PROVE  AlertInv'
<1>1. Types /\ Types' BY DEF NotifierInv
<1>2. Len(msgs) \in Nat BY <1>1 DEF Types
<1>3. GrowsMsgs BY <1>2 DEF GrowsMsgs
<1>4. StreaksMove /\ OpensNone BY DEF StreaksMove, MarksMove, OpensNone
<1>5. StreakInv /\ GivenUpInv /\ OpenInv BY DEF AlertInv
<1>6. StreakInv' /\ GivenUpInv' BY <1>5 DEF StreakInv, GivenUpInv
<1>7. OpenInv' BY <1>1, <1>3, <1>4, <1>5, OpenStays
<1>8. QueueEnded'
  <2> SUFFICES ASSUME NEW i \in 1..Len(queue') PROVE Ended(queue[i])'
    BY DEF QueueEnded
  <2>1. PICK item : item = queue'[i] /\ Of(item) /\ Ended(item) BY DEF LineEnded
  <2>2. Ended(item)' BY <1>1, <1>3, <1>4, <1>5, <2>1, EndedStays
  <2> QED BY <2>1, <2>2
<1> QED BY <1>3, <1>4, <1>6, <1>7, <1>8, AlertStep

\* A step that moves no actor and gives nothing up.
LEMMA AlertRest ==
  ASSUME Settings, NotifierInv, NotifierInv', AlertInv, KeepsSent, KeepsLine, LineEnded,
         UNCHANGED <<stored, loaded, restarts, dropped, crashed, act, msgs>>,
         StreaksMove, OpensNone, \A k \in Keys : cond'[k].since <= Len(msgs) + 1,
         act["tick"].pc = "idle" \/ \A k \in Keys : cond[k].since = 0 => cond'[k].since = 0
  PROVE  AlertInv'
<1>1. Types /\ Types' /\ MessageInv /\ "tick" \in Actors /\ \A b \in Actors : ActorInv(b, act[b])
  BY NotifierAssumption DEF NotifierInv
<1>2. Len(msgs) \in Nat BY <1>1 DEF Types
<1>3. GrowsMsgs BY <1>2 DEF GrowsMsgs
<1>4. /\ restarts \in Nat /\ (MaxRestarts = 0 => loaded) /\ StreakInv /\ GivenUpInv /\ SavedInv /\ OpenInv
      /\ \A b \in Actors : HandInv(b, act[b])
  BY DEF AlertInv
<1>5. StreakInv' /\ GivenUpInv' BY <1>4 DEF StreakInv, GivenUpInv
<1>6. KeepsQueued
  <2> SUFFICES ASSUME NEW n \in 1..MaxMsgs, n \in Queued PROVE n \in Queued' \/ WasSent(n)'
    BY DEF KeepsQueued
  <2>1. Dropping' = Dropping BY DEF Dropping, Numbers
  <2>2. Numbers(queue') = Numbers(queue)' /\ Numbers(stored.queue) = Numbers(stored.queue)' BY DEF Numbers
  <2> QED BY <2>1, <2>2 DEF Queued, KeepsLine
<1>7. OpenInv' BY <1>1, <1>3, <1>4, <1>6, OpenStays
<1>8. QueueEnded'
  <2> SUFFICES ASSUME NEW i \in 1..Len(queue') PROVE Ended(queue[i])'
    BY DEF QueueEnded
  <2>1. PICK item : item = queue'[i] /\ Of(item) /\ Ended(item) BY DEF LineEnded
  <2>2. Ended(item)' BY <1>1, <1>3, <1>4, <2>1, EndedStays
  <2> QED BY <2>1, <2>2
<1>9. ASSUME NEW b \in Actors PROVE HandInv(b, act[b])'
  <2>1. PICK s \in Actor : s = act[b] BY <1>1 DEF Types
  <2>2. HoldsMessage(b, s) /\ HoldsCopy(b, s) /\ HandInv(b, s) BY <1>1, <1>4, <2>1 DEF ActorInv
  <2>3. s.msg.n # 0 /\ s.msg.kind = "resolved" => \A k \in Keys : cond[k].since = 0 => cond'[k].since = 0
    <3> SUFFICES ASSUME s.msg.n # 0, s.msg.kind = "resolved" PROVE act["tick"].pc # "idle"
      OBVIOUS
    <3>1. b = "tick" BY <2>2 DEF HandInv
    <3>2. s.pc \in Holding BY <2>2 DEF HoldsMessage
    <3> QED BY <2>1, <3>1, <3>2 DEF Holding
  <2>4. HandInv(b, s)' BY <1>1, <1>3, <1>4, <2>2, <2>3, HandStays DEF KeepsLine
  <2>5. act'[b] = s BY <2>1
  <2> QED BY <2>4, <2>5 DEF HandInv
<1>10. SavedInv' BY <1>1, <1>3, <1>4, SavedStays
<1> QED BY <1>4, <1>5, <1>7, <1>8, <1>9, <1>10 DEF AlertInv

-----------------------------------------------------------------------------
(* Steps that move no actor *)

\* A part of the queue.
LEMMA PartEnded ==
  ASSUME NotifierInv, AlertInv, PartOf(queue', queue)
  PROVE  LineEnded
<1>1. QueueInv /\ QueueEnded BY DEF NotifierInv, AlertInv
<1> SUFFICES ASSUME NEW i \in 1..Len(queue') PROVE \E item : item = queue'[i] /\ Of(item) /\ Ended(item)
  BY DEF LineEnded
<1>2. PICK j \in 1..Len(queue) : queue'[i] = queue[j] BY DEF PartOf
<1>3. Of(queue[j]) /\ Ended(queue[j]) BY <1>1 DEF QueueInv, QueueEnded
<1> QED BY <1>2, <1>3

\* The queue as it was.
LEMMA SameLine ==
  ASSUME NotifierInv, AlertInv, queue' = queue
  PROVE  LineEnded /\ KeepsLine
<1>1. queue \in Seq(Item) BY DEF NotifierInv, Types
<1>2. PartOf(queue', queue) BY <1>1 DEF PartOf
<1> QED BY <1>2, PartEnded DEF KeepsLine

\* SetOffline, a streak that begins or ends, a late failure of the fallback's SMS.
LEMMA QuietAlert ==
  ASSUME Settings, NotifierInv, NotifierInv', AlertInv
  PROVE  /\ SetOffline => AlertInv'
         /\ \A k \in Keys : Streak(k) => AlertInv'
         /\ \A s \in settlers, r \in results : SettleFallback(s, r) => AlertInv'
<1>1. /\ Types /\ Types' /\ HangInv /\ StreakInv /\ "tick" \in Actors BY NotifierAssumption DEF NotifierInv, AlertInv
<1>2. cond \in Cond /\ Len(msgs) \in Nat /\ \A k \in Keys : cond[k].since <= Len(msgs) + 1
  BY <1>1 DEF Types, StreakInv
<1>3. ASSUME UNCHANGED <<queueVars, sendVars, dropVars, storeVars, act, msgs>>,
             StreaksMove, OpensNone, \A k \in Keys : cond'[k].since <= Len(msgs) + 1,
             act["tick"].pc = "idle" \/ \A k \in Keys : cond[k].since = 0 => cond'[k].since = 0
      PROVE  AlertInv'
  <2>1. UNCHANGED <<queue, stored, loaded, restarts, dropped, crashed, act, msgs>>
    BY <1>3 DEF queueVars, dropVars, storeVars
  <2>2. LineEnded /\ KeepsLine BY <2>1, SameLine
  <2>3. GrowsMsgs BY <1>2, <2>1 DEF GrowsMsgs
  <2>4. KeepsSent BY <1>1, <1>3, <2>3, NoSend DEF sendVars
  <2> QED BY <1>3, <2>1, <2>2, <2>4, AlertRest
<1>4. ASSUME UNCHANGED <<queueVars, cond>> PROVE StreaksMove /\ OpensNone BY <1>4 DEF queueVars, StreaksMove, OpensNone
<1>5. ASSUME SetOffline PROVE AlertInv' BY <1>2, <1>3, <1>4, <1>5 DEF SetOffline
<1>6. ASSUME NEW s \in settlers, NEW r \in results, SettleFallback(s, r) PROVE AlertInv'
  BY <1>2, <1>3, <1>4, <1>6 DEF SettleFallback
<1>7. ASSUME NEW k \in Keys, Streak(k) PROVE AlertInv'
  <2>1. /\ act["tick"].pc = "idle" /\ UNCHANGED <<queueVars, sendVars, dropVars, storeVars, act, msgs>>
        /\ cond' = [cond EXCEPT ![k] = IF @ = Untracked THEN [open |-> FALSE, since |-> Len(msgs) + 1] ELSE Untracked]
    BY <1>7 DEF Streak, At
  <2>2. /\ cond'[k].open = FALSE /\ cond'[k].since \in {0, Len(msgs) + 1}
        /\ \A j \in Keys : j # k => cond'[j] = cond[j]
    <3>1. CASE cond[k] = Untracked
      <4>1. cond'[k] = [open |-> FALSE, since |-> Len(msgs) + 1] BY <1>2, <2>1, <3>1 DEF Cond
      <4> QED BY <1>2, <2>1, <4>1 DEF Cond
    <3>2. CASE cond[k] # Untracked
      <4>1. cond'[k] = Untracked BY <1>2, <2>1, <3>2 DEF Cond
      <4> QED BY <1>2, <2>1, <4>1 DEF Cond, Untracked
    <3> QED BY <3>1, <3>2
  <2>3. resolvedBefore' = resolvedBefore BY <2>1 DEF queueVars
  <2>4. cond'[k].since = 0 \/ cond'[k].since > Len(msgs) BY <1>2, <2>2
  <2>5. StreaksMove BY <2>2, <2>3, <2>4 DEF StreaksMove
  <2>6. OpensNone BY <2>2 DEF OpensNone
  <2>7. cond'[k].since <= Len(msgs) + 1 BY <1>2, <2>2
  <2>8. \A j \in Keys : cond'[j].since <= Len(msgs) + 1 BY <1>2, <2>2, <2>7
  <2> QED BY <1>3, <2>1, <2>5, <2>6, <2>8
<1> QED BY <1>5, <1>6, <1>7

\* The /clear command.
LEMMA ClearAlert ==
  ASSUME Settings, NotifierInv, NotifierInv', AlertInv, NEW k \in Keys, Clear(k)
  PROVE  AlertInv'
<1>1. /\ Types /\ Types' /\ HangInv /\ StreakInv BY DEF NotifierInv, AlertInv
<1>2. cond \in Cond /\ Len(msgs) \in Nat /\ \A j \in Keys : cond[j].since <= Len(msgs) + 1
  BY <1>1 DEF Types, StreakInv
<1>3. PICK K : K = {k} \cap smsProblems OBVIOUS
<1>4. /\ MarkResolved(K) /\ cond' = [cond EXCEPT ![k] = Untracked]
      /\ UNCHANGED <<sendVars, dropVars, storeVars, act, msgs>>
  BY <1>3 DEF Clear, ForgetEnded
<1>5. UNCHANGED <<queue, stored, loaded, restarts, dropped, crashed, act, msgs>>
  BY <1>4 DEF MarkResolved, dropVars, storeVars
<1>6. GrowsMsgs BY <1>2, <1>5 DEF GrowsMsgs
<1>7. KeepsSent BY <1>1, <1>4, <1>6, NoSend DEF sendVars
<1>8. LineEnded /\ KeepsLine BY <1>5, SameLine
<1>9. cond'[k] = Untracked /\ Untracked.since = 0 /\ Untracked.open = FALSE /\ \A j \in Keys : j # k => cond'[j] = cond[j]
  BY <1>2, <1>4 DEF Cond, Untracked
<1>10. \A j \in Keys : j # k => resolvedBefore'[j] = resolvedBefore[j] BY <1>3, <1>4 DEF MarkResolved
<1>11. StreaksMove BY <1>9, <1>10 DEF StreaksMove
<1>12. OpensNone BY <1>9 DEF OpensNone
<1>13. \A j \in Keys : cond'[j].since <= Len(msgs) + 1 BY <1>2, <1>9
<1>14. \A j \in Keys : cond[j].since = 0 => cond'[j].since = 0 BY <1>9
<1> QED BY <1>5, <1>7, <1>8, <1>11, <1>12, <1>13, <1>14, AlertRest

\* An abandoned send returns.
LEMMA HangReturnsAlert ==
  ASSUME Settings, NotifierInv, NotifierInv', AlertInv, NEW ch \in Channels, NEW ok \in BOOLEAN, HangReturns(ch, ok)
  PROVE  AlertInv'
<1>1. /\ Types /\ Types' /\ HangInv /\ StreakInv BY DEF NotifierInv, AlertInv
<1>2. UNCHANGED <<queueVars, dropVars, storeVars, cond, act, msgs>> BY DEF HangReturns
<1>3. UNCHANGED <<queue, resolvedBefore, stored, loaded, restarts, dropped, crashed, act, msgs, cond>>
  BY <1>2 DEF queueVars, dropVars, storeVars
<1>4. PICK n : n = hang[ch].n OBVIOUS
<1>5. /\ Len(msgs) \in Nat /\ MaxMsgs \in Nat /\ Len(msgs) <= MaxMsgs
      /\ sent \in [Channels -> [1..MaxMsgs -> Nat]] /\ sent' \in [Channels -> [1..MaxMsgs -> Nat]]
  BY <1>1, NotifierAssumption DEF Types
<1>6. n \in 1..Len(msgs) BY <1>1, <1>4 DEF HangReturns, HangInv
<1>7. n \in 1..MaxMsgs BY <1>5, <1>6
<1>8. sent' = sent \/ sent' = [sent EXCEPT ![ch][n] = @ + 1] BY <1>4 DEF HangReturns, Delivered
<1>9. \A c \in Channels, m \in 1..MaxMsgs : sent'[c][m] >= sent[c][m]
  <2>1. CASE sent' = sent BY <1>5, <2>1
  <2>2. CASE sent' = [sent EXCEPT ![ch][n] = @ + 1]
    <3>1. /\ sent' \in [Channels -> [1..MaxMsgs -> Nat]]
          /\ \A c \in Channels, m \in 1..MaxMsgs : sent'[c][m] >= sent[c][m]
          /\ sent'[ch][n] = sent[ch][n] + 1
      BY <1>5, <1>7, <2>2, DeliveryFacts
    <3> QED BY <3>1
  <2> QED BY <1>8, <2>1, <2>2
<1>10. KeepsSent
  <2> SUFFICES ASSUME NEW m \in 1..MaxMsgs, NEW c \in Channels, sent[c][m] > 0 PROVE sent'[c][m] > 0
    BY DEF KeepsSent, WasSent
  <2>1. sent'[c][m] >= sent[c][m] /\ sent[c][m] \in Nat /\ sent'[c][m] \in Nat BY <1>5, <1>9
  <2> QED BY <2>1
<1>11. LineEnded /\ KeepsLine BY <1>3, SameLine
<1>12. StreaksMove /\ OpensNone /\ \A k \in Keys : cond'[k].since <= Len(msgs) + 1
  BY <1>1, <1>3 DEF StreaksMove, OpensNone, StreakInv
<1> QED BY <1>3, <1>10, <1>11, <1>12, AlertRest

\* settle removes a message that was delivered.
LEMMA SettleAlert ==
  ASSUME Settings, NotifierInv, NotifierInv', AlertInv, NEW f \in flights, NEW r \in results, Settle(f, r)
  PROVE  AlertInv'
<1>1. /\ Types /\ Types' /\ HangInv /\ FlightInv /\ StreakInv BY DEF NotifierInv, AlertInv
<1>2. /\ f.tok = r.tok /\ queue' = IF r.ok THEN RemoveID(queue, f.id) ELSE queue
      /\ UNCHANGED <<resolvedBefore, sendVars, dropVars, storeVars, cond, act, msgs>>
  BY DEF Settle, DropsMessage
<1>3. UNCHANGED <<stored, loaded, restarts, dropped, crashed, act, msgs, cond>>
  BY <1>2 DEF dropVars, storeVars
<1>4. queue \in Seq(Item) /\ Len(msgs) \in Nat BY <1>1 DEF Types
<1>5. GrowsMsgs BY <1>3, <1>4 DEF GrowsMsgs
<1>6. KeepsSent BY <1>1, <1>2, <1>5, NoSend DEF sendVars
<1>7. /\ PartOf(queue', queue)
      /\ \A j \in 1..Len(queue) : \/ queue[j].id = f.id /\ r.ok
                                  \/ \E i \in 1..Len(queue') : queue'[i] = queue[j]
  <2>1. CASE r.ok BY <1>2, <1>4, <2>1, RemoveParts
  <2>2. CASE ~r.ok BY <1>2, <1>4, <2>2 DEF PartOf
  <2> QED BY <2>1, <2>2
<1>8. LineEnded BY <1>7, PartEnded
<1>9. ASSUME NEW n \in Numbers(queue) PROVE n \in Numbers(queue') \/ WasSent(n)'
  <2>1. PICK j \in 1..Len(queue) : n = queue[j].n BY DEF Numbers
  <2>2. CASE queue[j].id = f.id /\ r.ok
    <3>1. n = f.n /\ f.n \in 1..Len(msgs) /\ f.tok # 0 /\ TokenOf(f.tok, f.n) BY <1>1, <2>1, <2>2 DEF FlightInv
    <3>2. WasSent(f.n) BY <1>2, <2>2, <3>1 DEF TokenOf
    <3>3. f.n \in 1..MaxMsgs BY <1>1, <3>1, NotifierAssumption DEF Types
    <3> QED BY <1>6, <3>1, <3>2, <3>3 DEF KeepsSent
  <2>3. CASE \E i \in 1..Len(queue') : queue'[i] = queue[j] BY <2>1, <2>3 DEF Numbers
  <2> QED BY <1>7, <2>2, <2>3
<1>10. StreaksMove /\ OpensNone /\ \A k \in Keys : cond'[k].since <= Len(msgs) + 1
  BY <1>1, <1>2, <1>3 DEF StreaksMove, OpensNone, StreakInv
<1> QED BY <1>3, <1>6, <1>8, <1>9, <1>10, AlertRest DEF KeepsLine

-----------------------------------------------------------------------------
(* Steps of an actor that leave the queue alone *)

\* What was to be reported dropped stays so while the actor that moves has nothing to report.
LEMMA DropsStay ==
  ASSUME NEW a \in Actors, NEW r, Moved(a, r), Numbers(act[a].drops) = {}
  PROVE  Dropping \subseteq Dropping' /\ Numbers(r.drops) \subseteq Dropping'
<1>1. ASSUME NEW n \in Dropping PROVE n \in Dropping'
  <2>1. PICK b \in Actors : n \in Numbers(act[b].drops) BY DEF Dropping
  <2>2. act'[b] = act[b] BY <2>1 DEF Moved
  <2>3. n \in Numbers(act'[b].drops) BY <2>1, <2>2
  <2> QED BY <2>3 DEF Dropping, Numbers
<1>2. ASSUME NEW n \in Numbers(r.drops) PROVE n \in Dropping'
  <2>1. act'[a] = r BY DEF Moved
  <2>2. n \in Numbers(act'[a].drops) BY <2>1
  <2> QED BY <2>2 DEF Dropping, Numbers
<1> QED BY <1>1, <1>2

\* Nothing leaves the queue.
LEMMA SameQueued ==
  ASSUME UNCHANGED <<queue, stored, loaded>>, NEW a \in Actors, NEW r, Moved(a, r), Numbers(act[a].drops) = {}
  PROVE  KeepsQueued
<1>1. Dropping \subseteq Dropping' BY DropsStay
<1>2. Numbers(queue) = Numbers(queue)' /\ Numbers(stored.queue) = Numbers(stored.queue)' BY DEF Numbers
<1> QED BY <1>1, <1>2 DEF KeepsQueued, Queued

\* The actor goes on with its message.
LEMMA HandKept ==
  ASSUME cond' = cond, NEW a, NEW s, HandInv(a, s), NEW r, r.msg = s.msg, r.drops = <<>>,
         r.pc \notin FlushPlaces \cup {"checkpoint"},
         r.pc = "sms" \/ (r.pc = "enqueueSMS" /\ r.msg.kind = "problem") => MaxRestarts = 0
  PROVE  HandInv(a, r)'
<1>1. \A i \in 1..Len(r.drops) : Of(r.drops[i])' OBVIOUS
<1> QED BY <1>1 DEF HandInv

\* The actor has no message.
LEMMA HandEmpty ==
  ASSUME NEW a, NEW r, r.msg.n = 0, r.drops = <<>>, r.pc \in {"idle", "fallback", "sending"}
  PROVE  HandInv(a, r)'
<1>1. \A i \in 1..Len(r.drops) : Of(r.drops[i])' OBVIOUS
<1> QED BY <1>1 DEF HandInv, FlushPlaces

\* A step of an actor that leaves the queue, the conditions and the store alone.
LEMMA TalkAlert ==
  ASSUME Settings, NotifierInv, NotifierInv', AlertInv, KeepsSent, MarksMove,
         UNCHANGED <<queue, dropVars, storeVars, cond, msgs>>,
         NEW a \in Actors, NEW r, Step(a, r), act[a].pc # "report", HandInv(a, r)'
  PROVE  AlertInv'
<1>1. r \in Actor /\ Moved(a, r) BY StepIs DEF NotifierInv
<1>2. UNCHANGED <<queue, stored, loaded, restarts, crashed, dropped>> BY DEF dropVars, storeVars
<1>3. Numbers(act[a].drops) = {} BY HandsOf
<1>4. KeepsQueued BY <1>1, <1>2, <1>3, SameQueued
<1>5. LineEnded BY <1>2, SameLine
<1> QED BY <1>1, <1>2, <1>4, <1>5, AlertQuiet

\* A send, after which the actor goes on with its message.
LEMMA SendAlert ==
  ASSUME Settings, NotifierInv, NotifierInv', AlertInv, NEW ch \in Channels, NEW n \in 1..Len(msgs), NEW o, Send(ch, n, o),
         UNCHANGED <<queueVars, dropVars, storeVars, cond, msgs>>,
         NEW a \in Actors, NEW r, Step(a, r), act[a].pc # "report", HandInv(a, r)'
  PROVE  AlertInv'
<1>1. Types /\ HangInv BY DEF NotifierInv
<1>2. KeepsSent BY <1>1, SendFacts
<1>3. queue' = queue /\ resolvedBefore' = resolvedBefore BY DEF queueVars
<1>4. MarksMove BY <1>3 DEF MarksMove
<1> QED BY <1>2, <1>3, <1>4, TalkAlert

\* Telegram, the SMS in its place, and an SMS of its own.
LEMMA SendsAlert ==
  ASSUME Settings, NotifierInv, NotifierInv', AlertInv, NEW a \in Actors, NEW o
  PROVE  TryTelegram(a, o) \/ SMSInstead(a, o) \/ SendSMS(a, o) => AlertInv'
<1>1. PICK s : s = act[a] OBVIOUS
<1>2. PICK n : n = act[a].msg.n OBVIOUS
<1>3. s \in Actor /\ HoldsMessage(a, s) /\ HandInv(a, s) BY <1>1, HandsOf DEF AlertInv
<1>4. s.pc \in Early \cup {"also"} => n \in 1..Len(msgs) /\ s.drops = <<>> BY <1>1, <1>2, <1>3 DEF HoldsMessage, Early
<1>5. "tlg" \in Channels /\ "sms" \in Channels BY DEF Channels
<1>6. hangs \in Nat /\ Types /\ Types' BY DEF NotifierInv, Types
<1>7. PICK tok \in Nat : tok = IF o = "abandoned" THEN Token ELSE 0
  <2>1. Token \in Nat BY <1>6 DEF Token
  <2> QED BY <2>1
<1>8. ASSUME TryTelegram(a, o) PROVE AlertInv'
  <2>1. PICK pc : /\ pc = CASE o = "ok" -> AfterSend(s.msg) [] o = "late" -> "enqueue"
                            [] OTHER -> IF s.msg.mode = "tlg" THEN "enqueue" ELSE "instead"
    OBVIOUS
  <2>2. PICK r : r = [s EXCEPT !.pc = pc, !.tok = tok] OBVIOUS
  <2>3. /\ s.pc = "telegram" /\ Send("tlg", n, o) /\ Step(a, r)
        /\ UNCHANGED <<queueVars, dropVars, storeVars, cond, msgs>>
    BY <1>1, <1>2, <1>7, <1>8, <2>1, <2>2 DEF TryTelegram, At
  <2>4. pc \in {"instead", "enqueue", "resolve", "fallback"}
    <3>1. CASE o = "ok" BY <2>1, <3>1 DEF AfterSend
    <3>2. CASE o = "late" BY <2>1, <3>2
    <3>3. CASE o # "ok" /\ o # "late" BY <2>1, <3>3
    <3> QED BY <3>1, <3>2, <3>3
  <2>5. r.pc = pc /\ r.msg = s.msg /\ r.drops = s.drops BY <1>3, <2>2 DEF Actor
  <2>6. HandInv(a, r)' BY <1>3, <1>4, <2>3, <2>4, <2>5, HandKept DEF FlushPlaces, Early
  <2> QED BY <1>1, <1>4, <1>5, <2>3, <2>6, SendAlert DEF Early
<1>9. ASSUME SMSInstead(a, o) PROVE AlertInv'
  <2>1. PICK pc \in {"enqueue", "resolve", "fallback"} : pc = IF o = "ok" THEN AfterSend(s.msg) ELSE "enqueue"
    BY DEF AfterSend
  <2>2. PICK via : via = (o = "ok") OBVIOUS
  <2>3. PICK r : r = [s EXCEPT !.pc = pc, !.via = via] OBVIOUS
  <2>4. /\ s.pc = "instead" /\ Send("sms", n, o) /\ Step(a, r)
        /\ UNCHANGED <<queueVars, dropVars, storeVars, cond, msgs>>
    BY <1>1, <1>2, <1>9, <2>1, <2>2, <2>3 DEF SMSInstead, At
  <2>5. r.pc = pc /\ r.msg = s.msg /\ r.drops = s.drops BY <1>3, <2>3 DEF Actor
  <2>6. HandInv(a, r)' BY <1>3, <1>4, <2>1, <2>4, <2>5, HandKept DEF FlushPlaces, Early
  <2> QED BY <1>1, <1>4, <1>5, <2>4, <2>6, SendAlert DEF Early
<1>10. ASSUME SendSMS(a, o) PROVE AlertInv'
  <2>1. PICK next : next = IF s.pc = "sms" THEN AfterSend(s.msg) ELSE "fallback" OBVIOUS
  <2>2. PICK pc : pc = IF o = "ok" THEN next ELSE "enqueueSMS" OBVIOUS
  <2>3. PICK via : via = (s.pc = "sms" \/ s.via) OBVIOUS
  <2>4. PICK r : r = [s EXCEPT !.pc = pc, !.via = via, !.tok = tok, !.next = next] OBVIOUS
  <2>5. /\ s.pc \in {"sms", "also"} /\ Send("sms", n, o) /\ Step(a, r)
        /\ UNCHANGED <<queueVars, dropVars, storeVars, cond, msgs>>
    BY <1>1, <1>2, <1>7, <1>10, <2>1, <2>2, <2>3, <2>4 DEF SendSMS, At
  <2>6. r.pc = pc /\ r.msg = s.msg /\ r.drops = s.drops BY <1>3, <2>4 DEF Actor
  <2>7. pc \in {"enqueueSMS", "resolve", "fallback"} BY <2>1, <2>2 DEF AfterSend
  <2>8. s.msg.kind = "problem" => MaxRestarts = 0 BY <1>3, <2>5 DEF HoldsMessage, HandInv
  <2>9. HandInv(a, r)' BY <1>3, <1>4, <2>5, <2>6, <2>7, <2>8, HandKept DEF FlushPlaces, Early
  <2> QED BY <1>1, <1>4, <1>5, <2>5, <2>9, SendAlert DEF Early
<1> QED BY <1>8, <1>9, <1>10

\* The fallback, and an SMS of it.
LEMMA FallbacksAlert ==
  ASSUME Settings, NotifierInv, NotifierInv', AlertInv, NEW a \in Actors, NEW o
  PROVE  Fallback(a) \/ FallbackSend(a, o) => AlertInv'
<1>1. PICK s : s = act[a] OBVIOUS
<1>2. s \in Actor /\ HoldsMessage(a, s) /\ HandInv(a, s) /\ (s.pc \notin Holding => s.msg.n = 0) BY <1>1, HandsOf DEF AlertInv
<1>3. Types /\ Types' /\ HangInv /\ Len(msgs) \in Nat
  <2>1. Types /\ Types' /\ HangInv BY DEF NotifierInv
  <2>2. Len(msgs) \in Nat BY <2>1 DEF Types
  <2> QED BY <2>1, <2>2
<1>4. Idle \in Actor /\ Idle.pc = "idle" /\ Idle.msg.n = 0 /\ Idle.drops = <<>> BY IdleFacts
<1>5. ASSUME Fallback(a) PROVE AlertInv'
  <2>1. PICK due : due = {item \in Range(queue) : failing /\ FallbackDueItem(item)} OBVIOUS
  <2>2. PICK r : r = IF due = {} THEN Idle ELSE [Idle EXCEPT !.pc = "sending", !.claimed = due] OBVIOUS
  <2>3. /\ act[a].pc = "fallback" /\ Step(a, r) /\ UNCHANGED <<queueVars, sendVars, dropVars, storeVars, cond, msgs>>
    BY <1>5, <2>1, <2>2 DEF Fallback, At
  <2>4. r.pc \in {"idle", "sending"} /\ r.msg.n = 0 /\ r.drops = <<>>
    <3>1. CASE due = {} BY <1>4, <2>2, <3>1
    <3>2. CASE due # {}
      <4>1. r = [Idle EXCEPT !.pc = "sending", !.claimed = due] BY <2>2, <3>2
      <4>2. r.pc = "sending" /\ r.msg = Idle.msg /\ r.drops = Idle.drops BY <1>4, <4>1 DEF Actor
      <4> QED BY <1>4, <4>2
    <3> QED BY <3>1, <3>2
  <2>5. HandInv(a, r)' BY <2>4, HandEmpty
  <2>6. queue' = queue /\ resolvedBefore' = resolvedBefore BY <2>3 DEF queueVars
  <2>7. MarksMove BY <2>6 DEF MarksMove
  <2>8. GrowsMsgs BY <1>3, <2>3 DEF GrowsMsgs
  <2>9. KeepsSent BY <1>3, <2>3, <2>8, NoSend DEF sendVars
  <2> QED BY <2>3, <2>5, <2>6, <2>7, <2>9, TalkAlert
<1>6. ASSUME FallbackSend(a, o) PROVE AlertInv'
  <2>1. s.pc = "sending" /\ UNCHANGED <<queueVars, dropVars, storeVars, cond, msgs>> BY <1>1, <1>6 DEF FallbackSend, At
  <2>2. s.msg.n = 0 /\ s.drops = <<>> BY <1>2, <2>1 DEF Holding, HoldsMessage
  <2>3. PICK item \in s.claimed :
          /\ Send("sms", item.n, o)
          /\ Step(a, IF o = "ok" /\ s.claimed \ {item} # {} THEN [s EXCEPT !.claimed = s.claimed \ {item}] ELSE Idle)
    BY <1>1, <1>6 DEF FallbackSend
  <2>4. PICK r : r = IF o = "ok" /\ s.claimed \ {item} # {} THEN [s EXCEPT !.claimed = s.claimed \ {item}] ELSE Idle
    OBVIOUS
  <2>5. PICK n : n = item.n OBVIOUS
  <2>6. n \in 1..Len(msgs) BY <1>2, <2>5 DEF HoldsMessage, Of
  <2>7. r.pc \in {"idle", "sending"} /\ r.msg.n = 0 /\ r.drops = <<>>
    <3>1. CASE o = "ok" /\ s.claimed \ {item} # {}
      <4>1. r = [s EXCEPT !.claimed = s.claimed \ {item}] BY <2>4, <3>1
      <4>2. r.pc = s.pc /\ r.msg = s.msg /\ r.drops = s.drops BY <1>2, <4>1 DEF Actor
      <4> QED BY <2>1, <2>2, <4>2
    <3>2. CASE ~(o = "ok" /\ s.claimed \ {item} # {}) BY <1>4, <2>4, <3>2
    <3> QED BY <3>1, <3>2
  <2>8. HandInv(a, r)' BY <2>7, HandEmpty
  <2>9. Step(a, r) /\ Send("sms", n, o) /\ "sms" \in Channels BY <2>3, <2>4, <2>5 DEF Channels
  <2> QED BY <1>1, <2>1, <2>6, <2>8, <2>9, SendAlert
<1> QED BY <1>5, <1>6

\* A RESOLVED marks the PROBLEMs of its key, which has no streak.
LEMMA ResolveAlert ==
  ASSUME Settings, NotifierInv, NotifierInv', AlertInv, NEW a \in Actors, Resolve(a)
  PROVE  AlertInv'
<1>1. PICK s : s = act[a] OBVIOUS
<1>2. s \in Actor /\ HoldsMessage(a, s) /\ HandInv(a, s) BY <1>1, HandsOf DEF AlertInv
<1>3. Types /\ Types' /\ HangInv /\ Len(msgs) \in Nat
  <2>1. Types /\ Types' /\ HangInv BY DEF NotifierInv
  <2>2. Len(msgs) \in Nat BY <2>1 DEF Types
  <2> QED BY <2>1, <2>2
<1>4. PICK pc \in {"also", "fallback"} : pc = IF AlsoBySMS(a) THEN "also" ELSE "fallback" OBVIOUS
<1>5. PICK r : r = [s EXCEPT !.pc = pc] OBVIOUS
<1>6. /\ s.pc = "resolve" /\ MarkResolved({s.msg.key}) /\ Step(a, r)
      /\ UNCHANGED <<sendVars, dropVars, storeVars, cond, msgs>>
  BY <1>1, <1>4, <1>5 DEF Resolve, At
<1>7. r.pc = pc /\ r.msg = s.msg /\ r.drops = s.drops BY <1>2, <1>5 DEF Actor
<1>8. s.msg.n # 0 /\ s.msg.kind = "resolved" /\ s.drops = <<>> BY <1>2, <1>6 DEF HoldsMessage
<1>9. cond[s.msg.key].since = 0 BY <1>2, <1>8 DEF HandInv
<1>10. MarksMove BY <1>6, <1>9 DEF MarkResolved, MarksMove
<1>11. HandInv(a, r)' BY <1>2, <1>6, <1>7, <1>8, HandKept DEF FlushPlaces
<1>12. GrowsMsgs BY <1>3, <1>6 DEF GrowsMsgs
<1>13. KeepsSent BY <1>3, <1>6, <1>12, NoSend DEF sendVars
<1>14. queue' = queue BY <1>6 DEF MarkResolved
<1> QED BY <1>1, <1>6, <1>10, <1>11, <1>13, <1>14, TalkAlert

\* The end of a tick: what the checkpoint will save goes together.
LEMMA EndTickAlert ==
  ASSUME Settings, NotifierInv, NotifierInv', AlertInv, EndTick
  PROVE  AlertInv'
<1>1. /\ Types /\ Types' /\ HangInv /\ NothingLost /\ StreakInv /\ OpenInv /\ restarts \in Nat /\ "tick" \in Actors
      /\ \A a \in Actors : HandInv(a, act[a])
  BY NotifierAssumption DEF NotifierInv, AlertInv
<1>2. PICK ended : ended = {k \in Keys : cond[k] = Untracked} OBVIOUS
<1>3. PICK K : K = ended \cap smsProblems OBVIOUS
<1>4. PICK r : r = IF loaded /\ restarts < MaxRestarts
                     THEN [Idle EXCEPT !.pc = "checkpoint", !.conds = cond] ELSE Idle
  OBVIOUS
<1>5. /\ MarkResolved(K) /\ act["tick"].pc = "idle" /\ Step("tick", r)
      /\ UNCHANGED <<sendVars, dropVars, storeVars, cond, msgs>>
  BY <1>2, <1>3, <1>4 DEF EndTick, ForgetEnded, At
<1>6. queue' = queue BY <1>5 DEF MarkResolved
<1>7. MarksMove
  <2>1. \A k \in K : cond[k].since = 0 BY <1>2, <1>3 DEF Untracked
  <2> QED BY <1>5, <2>1 DEF MarkResolved, MarksMove
<1>8. Len(msgs) \in Nat /\ DOMAIN msgs = 1..Len(msgs) /\ cond \in Cond BY <1>1 DEF Types
<1>9. GrowsMsgs BY <1>5, <1>8 DEF GrowsMsgs
<1>10. KeepsSent BY <1>1, <1>5, <1>9, NoSend DEF sendVars
<1>11. Idle \in Actor /\ Idle.pc = "idle" /\ Idle.msg.n = 0 /\ Idle.drops = <<>> BY IdleFacts
<1>12. CASE ~(loaded /\ restarts < MaxRestarts)
  <2>1. r = Idle BY <1>4, <1>12
  <2>2. HandInv("tick", r)' BY <1>11, <2>1, HandEmpty
  <2> QED BY <1>1, <1>5, <1>6, <1>7, <1>10, <2>2, TalkAlert
<1>13. CASE loaded /\ restarts < MaxRestarts
  <2>1. r = [Idle EXCEPT !.pc = "checkpoint", !.conds = cond] BY <1>4, <1>13
  <2>2. r.pc = "checkpoint" /\ r.conds = cond /\ r.msg = Idle.msg /\ r.drops = Idle.drops BY <1>8, <1>11, <2>1 DEF Actor
  <2>3. MaxRestarts # 0 /\ Actors = {"tick"}
    <3>1. MaxRestarts \in Nat BY NotifierAssumption
    <3>2. MaxRestarts # 0 BY <1>1, <1>13, <3>1
    <3> QED BY <3>2 DEF Settings
  <2>4. ASSUME NEW k \in Keys, cond[k].open
        PROVE  \E n \in 1..Len(msgs) : ProblemOf(k, cond[k].since, n) /\ (n \in Numbers(queue) \/ WasSent(n))
    <3>1. PICK n \in 1..Len(msgs) : ProblemOf(k, cond[k].since, n) /\ Kept(n) BY <1>1, <2>4 DEF OpenInv
    <3>2. InHand = {} BY <1>5, <2>3 DEF InHand, At
    <3>3. Numbers(act["tick"].drops) = {} BY <1>1, <1>5, HandsOf
    <3>4. Dropping = {} BY <2>3, <3>3 DEF Dropping
    <3>5. Queued = Numbers(queue) BY <1>13, <3>4 DEF Queued
    <3>6. n \in Queued \/ WasSent(n) BY <1>1, <1>8, <3>1, <3>2 DEF Kept, NothingLost
    <3> QED BY <3>1, <3>5, <3>6
  <2>5. Savable(cond) BY <1>1, <2>3, <2>4 DEF Savable, StreakInv
  <2>6. PICK c : c = cond OBVIOUS
  <2>7. Savable(c)'
    <3>1. Savable(c) BY <2>5, <2>6
    <3>2. UNCHANGED <<msgs, queue, sent>> BY <1>5, <1>6 DEF sendVars
    <3> QED BY <3>1, <3>2 DEF Savable, ProblemOf, Numbers, WasSent
  <2>8. Savable(r.conds)' BY <2>2, <2>6, <2>7
  <2>9. \A i \in 1..Len(r.drops) : Of(r.drops[i])' BY <1>11, <2>2
  <2>10. HandInv("tick", r)' BY <1>11, <2>2, <2>8, <2>9 DEF HandInv, FlushPlaces
  <2> QED BY <1>1, <1>5, <1>6, <1>7, <1>10, <2>10, TalkAlert
<1> QED BY <1>12, <1>13

-----------------------------------------------------------------------------
(* Flush, Expire and the queue *)

\* Flush goes on with the rest of its copy.
LEMMA FlushingAlert ==
  ASSUME UNCHANGED <<msgs, cond, resolvedBefore>>, NEW due \in Seq(Item), due # <<>>,
         \A j \in 1..Len(due) : Ended(due[j]), NEW blocked, NEW r, r = Flushing(Tail(due), blocked)
  PROVE  HandInv("tick", r)'
<1>1. /\ Tail(due) \in Seq(Item) /\ Len(Tail(due)) = Len(due) - 1 /\ Len(due) \in Nat /\ Len(due) # 0
      /\ \A j \in 1..(Len(due) - 1) : Tail(due)[j] = due[j + 1]
  OBVIOUS
<1>2. Idle \in Actor /\ Idle.msg.n = 0 /\ Idle.drops = <<>> BY IdleFacts
<1>3. CASE Tail(due) = <<>>
  <2>1. r = [Idle EXCEPT !.pc = "fallback"] BY <1>3 DEF Flushing
  <2>2. r.pc = "fallback" /\ r.msg = Idle.msg /\ r.drops = Idle.drops BY <1>2, <2>1 DEF Actor
  <2> QED BY <1>2, <2>2, HandEmpty
<1>4. CASE Tail(due) # <<>>
  <2>1. PICK rest : rest = Tail(due) OBVIOUS
  <2>2. r = [Idle EXCEPT !.pc = "flush", !.due = rest, !.blocked = blocked] BY <1>4, <2>1 DEF Flushing
  <2>3. r.pc = "flush" /\ r.msg = Idle.msg /\ r.drops = Idle.drops /\ r.due = rest BY <1>2, <2>2 DEF Actor
  <2>4. ASSUME NEW j \in 1..Len(rest) PROVE Ended(rest[j])'
    <3>1. j \in 1..(Len(due) - 1) /\ j + 1 \in 1..Len(due) BY <1>1, <2>1
    <3>2. PICK k \in 1..Len(due) : rest[j] = due[k] BY <1>1, <2>1, <3>1
    <3>3. Ended(due[k]) BY <3>2
    <3> QED BY <3>2, <3>3 DEF Ended, SMSProblem
  <2>5. \A i \in 1..Len(r.drops) : Of(r.drops[i])' BY <1>2, <2>3
  <2> QED BY <1>2, <2>3, <2>4, <2>5 DEF HandInv, FlushPlaces
<1> QED BY <1>3, <1>4

\* A tick that flushes.
LEMMA FlushEnded ==
  ASSUME NotifierInv, AlertInv, NEW s, s = act["tick"], s.pc \in FlushPlaces
  PROVE  /\ "tick" \in Actors /\ HandInv("tick", s) /\ \A j \in 1..Len(s.due) : Ended(s.due[j])
<1>1. "tick" \in Actors BY NotifierAssumption
<1>2. HandInv("tick", s) BY <1>1 DEF AlertInv
<1> QED BY <1>1, <1>2 DEF HandInv

\* Flush's copy of the queue.
LEMMA FlushBeginAlert ==
  ASSUME Settings, NotifierInv, NotifierInv', AlertInv, FlushBegin
  PROVE  AlertInv'
<1>1. /\ Types /\ Types' /\ HangInv /\ QueueEnded /\ "tick" \in Actors BY NotifierAssumption DEF NotifierInv, AlertInv
<1>2. queue \in Seq(Item) /\ Len(msgs) \in Nat BY <1>1 DEF Types
<1>3. PICK blocked : blocked = IF offline THEN {"tlg"} ELSE {} OBVIOUS
<1>4. PICK r : r = [Idle EXCEPT !.pc = "flush", !.due = queue, !.blocked = blocked] OBVIOUS
<1>5. /\ act["tick"].pc = "idle" /\ Step("tick", r) /\ UNCHANGED <<queueVars, sendVars, dropVars, storeVars, cond, msgs>>
  BY <1>3, <1>4 DEF FlushBegin, At
<1>6. Idle \in Actor /\ Idle.msg.n = 0 /\ Idle.drops = <<>> BY IdleFacts
<1>7. r.pc = "flush" /\ r.msg = Idle.msg /\ r.drops = Idle.drops /\ r.due = queue BY <1>4, <1>6 DEF Actor
<1>8. queue' = queue /\ resolvedBefore' = resolvedBefore BY <1>5 DEF queueVars
<1>9. MarksMove BY <1>8 DEF MarksMove
<1>10. GrowsMsgs BY <1>2, <1>5 DEF GrowsMsgs
<1>11. KeepsSent BY <1>1, <1>5, <1>10, NoSend DEF sendVars
<1>12. ASSUME NEW j \in 1..Len(r.due) PROVE Ended(r.due[j])'
  <2>1. Ended(queue[j]) BY <1>1, <1>7 DEF QueueEnded
  <2>2. PICK item : item = queue[j] OBVIOUS
  <2>3. Ended(item)' BY <1>5, <1>8, <2>1, <2>2 DEF Ended, SMSProblem
  <2>4. r.due[j] = item BY <1>7, <2>2
  <2> QED BY <2>3, <2>4
<1>13. \A i \in 1..Len(r.drops) : Of(r.drops[i])' BY <1>6, <1>7
<1>14. HandInv("tick", r)' BY <1>6, <1>7, <1>12, <1>13 DEF HandInv
<1> QED BY <1>1, <1>5, <1>8, <1>9, <1>11, <1>14, TalkAlert

\* Flush sends a message of its copy.
LEMMA FlushSendAlert ==
  ASSUME Settings, NotifierInv, NotifierInv', AlertInv, NEW o, FlushSend(o)
  PROVE  AlertInv'
<1>1. PICK s : s = act["tick"] OBVIOUS
<1>2. s.pc = "flush" /\ s.pc \in FlushPlaces BY <1>1 DEF FlushSend, At, FlushPlaces
<1>3. /\ s \in Actor /\ Head(s.due) = s.due[1] /\ s.due[1] \in Item /\ s.due[1].n \in 1..Len(msgs)
      /\ s.msg.n = 0 /\ s.drops = <<>>
  BY <1>1, <1>2, FlushHands
<1>4. "tick" \in Actors /\ \A j \in 1..Len(s.due) : Ended(s.due[j]) BY <1>1, <1>2, FlushEnded
<1>5. PICK n \in 1..Len(msgs) : n = s.due[1].n BY <1>3
<1>6. PICK ch \in Channels : ch = s.due[1].ch BY <1>3 DEF Item
<1>7. PICK tok : tok = IF o = "abandoned" THEN Token ELSE 0 OBVIOUS
<1>8. PICK pc \in {"flushed", "unflushed"} : pc = IF o = "ok" THEN "flushed" ELSE "unflushed" OBVIOUS
<1>9. PICK r : r = [s EXCEPT !.pc = pc, !.tok = tok] OBVIOUS
<1>10. Send(ch, n, o) /\ Step("tick", r) /\ UNCHANGED <<queueVars, dropVars, storeVars, cond, msgs>>
  BY <1>1, <1>3, <1>5, <1>6, <1>7, <1>8, <1>9 DEF FlushSend
<1>11. r.pc = pc /\ r.msg = s.msg /\ r.drops = s.drops /\ r.due = s.due BY <1>3, <1>9 DEF Actor
<1>12. ASSUME NEW j \in 1..Len(r.due) PROVE Ended(r.due[j])'
  <2>1. Ended(s.due[j]) BY <1>4, <1>11
  <2>2. resolvedBefore' = resolvedBefore BY <1>10 DEF queueVars
  <2> QED BY <1>10, <1>11, <2>1, <2>2 DEF Ended, SMSProblem
<1>13. \A i \in 1..Len(r.drops) : Of(r.drops[i])' BY <1>3, <1>11
<1>14. HandInv("tick", r)' BY <1>3, <1>11, <1>12, <1>13 DEF HandInv
<1> QED BY <1>1, <1>2, <1>4, <1>10, <1>14, SendAlert

\* Flush tracks an abandoned send.
LEMMA FlushTrackAlert ==
  ASSUME Settings, NotifierInv, NotifierInv', AlertInv, FlushTrack
  PROVE  AlertInv'
<1>0. Types /\ Types' /\ HangInv BY DEF NotifierInv
<1>1. PICK s : s = act["tick"] OBVIOUS
<1>2. s.pc = "unflushed" /\ s.pc \in FlushPlaces BY <1>1 DEF FlushTrack, At, FlushPlaces
<1>3. s.due \in Seq(Item) /\ s.due # <<>> BY <1>1, <1>2, FlushHands
<1>4. "tick" \in Actors /\ \A j \in 1..Len(s.due) : Ended(s.due[j]) BY <1>1, <1>2, FlushEnded
<1>5. PICK blocked : blocked = s.blocked \cup {Head(s.due).ch} OBVIOUS
<1>6. PICK r : r = Flushing(Tail(s.due), blocked) OBVIOUS
<1>7. Step("tick", r) /\ UNCHANGED <<queue, resolvedBefore, sendVars, dropVars, storeVars, cond, msgs>>
  BY <1>1, <1>5, <1>6 DEF FlushTrack
<1>8. HandInv("tick", r)' BY <1>3, <1>4, <1>6, <1>7, FlushingAlert
<1>9. MarksMove BY <1>7 DEF MarksMove
<1>10. Len(msgs) \in Nat BY <1>0 DEF Types
<1>11. GrowsMsgs BY <1>7, <1>10 DEF GrowsMsgs
<1>12. KeepsSent BY <1>0, <1>7, <1>11, NoSend DEF sendVars
<1> QED BY <1>1, <1>2, <1>4, <1>7, <1>8, <1>9, <1>12, TalkAlert

\* Flush removes what it sent.
LEMMA FlushRemoveAlert ==
  ASSUME Settings, NotifierInv, NotifierInv', AlertInv, FlushRemove
  PROVE  AlertInv'
<1>0. Types /\ Types' /\ HangInv BY DEF NotifierInv
<1>1. PICK s : s = act["tick"] OBVIOUS
<1>2. s.pc = "flushed" /\ s.pc \in FlushPlaces BY <1>1 DEF FlushRemove, At, FlushPlaces
<1>3. /\ s.due \in Seq(Item) /\ s.due # <<>> /\ Copied(s.due) /\ 1 \in 1..Len(s.due) /\ Head(s.due) = s.due[1]
      /\ s.due[1].n \in 1..MaxMsgs /\ WasSent(s.due[1].n) /\ s.drops = <<>>
  BY <1>1, <1>2, FlushHands
<1>4. "tick" \in Actors /\ \A j \in 1..Len(s.due) : Ended(s.due[j]) BY <1>1, <1>2, FlushEnded
<1>5. PICK item : item = s.due[1] OBVIOUS
<1>6. PICK r : r = Flushing(Tail(s.due), s.blocked) OBVIOUS
<1>7. /\ queue' = RemoveID(queue, item.id) /\ Step("tick", r)
      /\ UNCHANGED <<resolvedBefore, sendVars, dropVars, storeVars, cond, msgs>>
  BY <1>1, <1>3, <1>5, <1>6 DEF FlushRemove
<1>8. HandInv("tick", r)' BY <1>3, <1>4, <1>6, <1>7, FlushingAlert
<1>9. MarksMove BY <1>7 DEF MarksMove
<1>10. Len(msgs) \in Nat /\ queue \in Seq(Item) BY <1>0 DEF Types
<1>11. GrowsMsgs BY <1>7, <1>10 DEF GrowsMsgs
<1>12. KeepsSent BY <1>0, <1>7, <1>11, NoSend DEF sendVars
<1>13. r \in Actor /\ Moved("tick", r) BY <1>0, <1>4, <1>7, StepIs
<1>14. /\ PartOf(queue', queue)
       /\ \A j \in 1..Len(queue) : queue[j].id = item.id \/ \E i \in 1..Len(queue') : queue'[i] = queue[j]
  BY <1>7, <1>10, RemoveParts
<1>15. LineEnded BY <1>14, PartEnded
<1>16. UNCHANGED <<stored, loaded, restarts, crashed, dropped>> BY <1>7 DEF dropVars, storeVars
<1>17. ASSUME NEW n \in Numbers(queue) PROVE n \in Numbers(queue') \/ WasSent(n)'
  <2>1. PICK j \in 1..Len(queue) : n = queue[j].n BY DEF Numbers
  <2>2. CASE queue[j].id = item.id
    <3>1. n = item.n BY <1>3, <1>5, <2>1, <2>2 DEF Copied
    <3> QED BY <1>3, <1>5, <1>12, <3>1 DEF KeepsSent
  <2>3. CASE \E i \in 1..Len(queue') : queue'[i] = queue[j] BY <2>1, <2>3 DEF Numbers
  <2> QED BY <1>14, <2>2, <2>3
<1>18. KeepsQueued
  <2>1. Numbers(act["tick"].drops) = {} BY <1>1, <1>3 DEF Numbers
  <2>2. Dropping \subseteq Dropping' BY <1>4, <1>13, <2>1, DropsStay
  <2>3. Numbers(queue') = Numbers(queue)' /\ Numbers(stored.queue) = Numbers(stored.queue)' BY <1>16 DEF Numbers
  <2> QED BY <1>16, <1>17, <2>2, <2>3 DEF KeepsQueued, Queued
<1> QED BY <1>4, <1>7, <1>8, <1>9, <1>12, <1>13, <1>15, <1>16, <1>18, AlertQuiet

\* Flush drops a stale PROBLEM, which is not of the current streak.
LEMMA FlushSkipAlert ==
  ASSUME Settings, NotifierInv, NotifierInv', AlertInv, FlushSkip
  PROVE  AlertInv'
<1>0. Types /\ Types' /\ HangInv /\ StreakInv /\ GivenUpInv /\ OpenInv BY DEF NotifierInv, AlertInv
<1>1. PICK s : s = act["tick"] OBVIOUS
<1>2. s.pc = "flush" /\ s.pc \in FlushPlaces BY <1>1 DEF FlushSkip, At, FlushPlaces
<1>3. /\ s.due \in Seq(Item) /\ s.due # <<>> /\ Copied(s.due) /\ 1 \in 1..Len(s.due) /\ Head(s.due) = s.due[1]
      /\ s.due[1].n \in 1..Len(msgs) /\ s.drops = <<>>
  BY <1>1, <1>2, FlushHands
<1>4. "tick" \in Actors /\ \A j \in 1..Len(s.due) : Ended(s.due[j]) BY <1>1, <1>2, FlushEnded
<1>5. PICK item : item = s.due[1] OBVIOUS
<1>6. PICK kept : kept = (item.ch \in s.blocked \/ InFlight(item.id)) OBVIOUS
<1>7. PICK blocked : blocked = IF kept THEN s.blocked \cup {item.ch} ELSE s.blocked OBVIOUS
<1>8. PICK r : r = Flushing(Tail(s.due), blocked) OBVIOUS
<1>9. /\ kept \/ StaleSMSProblem(item)
      /\ queue' = IF kept THEN queue ELSE RemoveID(queue, item.id)
      /\ dropped' = IF kept THEN dropped ELSE dropped \cup {item.n}
      /\ Step("tick", r) /\ UNCHANGED <<resolvedBefore, sendVars, undelivered, storeVars, cond, msgs>>
  BY <1>1, <1>3, <1>5, <1>6, <1>7, <1>8 DEF FlushSkip
<1>10. HandInv("tick", r)' BY <1>3, <1>4, <1>8, <1>9, FlushingAlert
<1>11. MarksMove /\ StreaksMove BY <1>9 DEF MarksMove, StreaksMove
<1>12. Len(msgs) \in Nat /\ queue \in Seq(Item) BY <1>0 DEF Types
<1>13. GrowsMsgs BY <1>9, <1>12 DEF GrowsMsgs
<1>14. KeepsSent BY <1>0, <1>9, <1>13, NoSend DEF sendVars
<1>15. CASE kept BY <1>1, <1>2, <1>4, <1>9, <1>10, <1>11, <1>14, <1>15, TalkAlert DEF dropVars
<1>16. CASE ~kept
  <2>1. r \in Actor /\ Moved("tick", r) BY <1>0, <1>4, <1>9, StepIs
  <2>2. /\ PartOf(queue', queue)
        /\ \A j \in 1..Len(queue) : queue[j].id = item.id \/ \E i \in 1..Len(queue') : queue'[i] = queue[j]
    BY <1>9, <1>12, <1>16, RemoveParts
  <2>3. LineEnded BY <2>2, PartEnded
  <2>4. QueueEnded'
    <3> SUFFICES ASSUME NEW i \in 1..Len(queue') PROVE Ended(queue[i])'
      BY DEF QueueEnded
    <3>1. PICK d : d = queue'[i] /\ Of(d) /\ Ended(d) BY <2>3 DEF LineEnded
    <3>2. Ended(d)' BY <1>0, <1>11, <1>13, <3>1, EndedStays
    <3> QED BY <3>1, <3>2
  <2>5. UNCHANGED <<stored, loaded, restarts, crashed>> BY <1>9 DEF storeVars
  <2>6. StreakInv' BY <1>0, <1>9, <2>5 DEF StreakInv
  <2>7. GivenUpInv' BY <1>0, <1>3, <1>5, <1>9, <1>16, <2>5 DEF GivenUpInv
  <2>8. Numbers(act["tick"].drops) = {} BY <1>1, <1>3 DEF Numbers
  <2>9. Dropping \subseteq Dropping' BY <1>4, <2>1, <2>8, DropsStay
  <2>10. ASSUME NEW n \in Queued, n # item.n PROVE n \in Queued'
    <3>1. CASE n \in Numbers(queue)
      <4>1. PICK j \in 1..Len(queue) : n = queue[j].n BY <3>1 DEF Numbers
      <4>2. queue[j].id # item.id BY <1>3, <1>5, <2>10, <4>1 DEF Copied
      <4>3. n \in Numbers(queue') BY <2>2, <4>1, <4>2 DEF Numbers
      <4>4. n \in Numbers(queue)' BY <4>3 DEF Numbers
      <4> QED BY <4>4 DEF Queued
    <3>2. CASE n \in (IF loaded THEN {} ELSE Numbers(stored.queue)) BY <2>5, <3>2 DEF Queued, Numbers
    <3>3. CASE n \in Dropping BY <2>9, <3>3 DEF Queued
    <3> QED BY <3>1, <3>2, <3>3 DEF Queued
  <2>11. SMSProblem(item) /\ item.id < resolvedBefore[item.key] BY <1>9, <1>16 DEF StaleSMSProblem, SMSProblem
  <2>12. Of(item) /\ Ended(item) BY <1>3, <1>4, <1>5 DEF Copied
  <2>13. msgs[item.n].streak # cond[item.key].since /\ msgs[item.n].key = item.key BY <2>11, <2>12 DEF Ended, Of
  <2>14. OpenInv'
    <3> SUFFICES ASSUME NEW k \in Keys, cond'[k].open
                 PROVE  \E n \in 1..Len(msgs') : ProblemOf(k, cond[k].since, n)' /\ Kept(n)'
      BY DEF OpenInv
    <3>1. PICK n \in 1..Len(msgs) : ProblemOf(k, cond[k].since, n) /\ Kept(n) BY <1>0, <1>9 DEF OpenInv
    <3>2. n # item.n BY <2>13, <3>1 DEF ProblemOf
    <3>3. ProblemOf(k, cond[k].since, n)' BY <1>9, <3>1 DEF ProblemOf
    <3>4. Kept(n)'
      <4>1. n \in 1..MaxMsgs BY <1>0, NotifierAssumption DEF Types
      <4>2. CASE n \notin dropped \cup crashed BY <1>9, <1>16, <2>5, <3>2, <4>2 DEF Kept
      <4>3. CASE n \in Queued BY <2>10, <3>2, <4>3 DEF Kept
      <4>4. CASE WasSent(n) BY <1>14, <4>1, <4>4 DEF Kept, KeepsSent
      <4> QED BY <3>1, <4>2, <4>3, <4>4 DEF Kept
    <3> QED BY <1>9, <3>3, <3>4
  <2> QED BY <1>4, <1>10, <1>11, <1>13, <1>14, <2>1, <2>4, <2>5, <2>6, <2>7, <2>14, AlertStep
<1> QED BY <1>15, <1>16

\* Expire hands the oldest message to the report.
LEMMA ExpireAlert ==
  ASSUME Settings, NotifierInv, NotifierInv', AlertInv, Expire
  PROVE  AlertInv'
<1>0. Types /\ Types' /\ HangInv /\ QueueInv /\ "tick" \in Actors BY NotifierAssumption DEF NotifierInv
<1>1. queue \in Seq(Item) /\ queue # <<>> /\ act["tick"].pc = "idle" /\ Len(msgs) \in Nat
  BY <1>0 DEF Types, Expire, At
<1>2. PICK drops : drops = <<Head(queue)>> OBVIOUS
<1>3. PICK r : r = [Idle EXCEPT !.pc = "report", !.next = "idle", !.drops = drops] OBVIOUS
<1>4. drops \in Seq(Item) /\ drops # <<>> /\ Len(drops) = 1 /\ drops[1] = queue[1] BY <1>1, <1>2
<1>5. /\ queue' = Tail(queue) /\ Step("tick", r)
      /\ UNCHANGED <<resolvedBefore, sendVars, dropVars, storeVars, cond, msgs>>
  BY <1>2, <1>3, <1>4 DEF Expire, GoOn
<1>6. Idle \in Actor /\ Idle.msg.n = 0 BY IdleFacts
<1>7. r.pc = "report" /\ r.drops = drops /\ r.msg = Idle.msg BY <1>3, <1>6 DEF Actor
<1>8. /\ Len(queue) \in Nat /\ Len(queue) # 0 /\ Len(queue') = Len(queue) - 1
      /\ \A i \in 1..(Len(queue) - 1) : queue'[i] = queue[i + 1]
  BY <1>1, <1>5
<1>9. \A i \in 1..Len(queue') : i + 1 \in 1..Len(queue) /\ queue'[i] = queue[i + 1] BY <1>8
<1>10. QueueEnded BY DEF AlertInv
<1>11. LineEnded
  <2> SUFFICES ASSUME NEW i \in 1..Len(queue') PROVE \E item : item = queue'[i] /\ Of(item) /\ Ended(item)
    BY DEF LineEnded
  <2>1. PICK j \in 1..Len(queue) : queue'[i] = queue[j] BY <1>9
  <2>2. Of(queue[j]) /\ Ended(queue[j]) BY <1>0, <1>10 DEF QueueInv, QueueEnded
  <2> QED BY <2>1, <2>2
<1>12. UNCHANGED <<stored, loaded, restarts, crashed, dropped>> BY <1>5 DEF dropVars, storeVars
<1>13. GrowsMsgs BY <1>1, <1>5 DEF GrowsMsgs
<1>14. KeepsSent BY <1>0, <1>5, <1>13, NoSend DEF sendVars
<1>15. r \in Actor /\ Moved("tick", r) BY <1>0, <1>5, StepIs
<1>16. HandInv("tick", r)'
  <2>1. Of(queue[1]) BY <1>0, <1>8 DEF QueueInv
  <2>2. PICK item : item = queue[1] OBVIOUS
  <2>3. Of(item)' BY <1>5, <2>1, <2>2 DEF Of
  <2>4. ASSUME NEW i \in 1..Len(r.drops) PROVE r.drops[i] = item
    <3>1. Len(r.drops) = 1 BY <1>4, <1>7
    <3>2. i = 1 BY <3>1
    <3> QED BY <1>4, <1>7, <2>2, <3>2
  <2>5. \A i \in 1..Len(r.drops) : Of(r.drops[i])' BY <2>3, <2>4
  <2> QED BY <1>6, <1>7, <2>5 DEF HandInv, FlushPlaces
<1>17. KeepsQueued
  <2>1. Numbers(act["tick"].drops) = {} BY <1>0, <1>1, HandsOf
  <2>2. Dropping \subseteq Dropping' /\ Numbers(r.drops) \subseteq Dropping' BY <1>0, <1>15, <2>1, DropsStay
  <2>3. Numbers(queue') = Numbers(queue)' /\ Numbers(stored.queue) = Numbers(stored.queue)' BY <1>12 DEF Numbers
  <2>4. ASSUME NEW n \in Numbers(queue) PROVE n \in Numbers(queue') \/ n \in Numbers(r.drops)
    <3>1. PICK j \in 1..Len(queue) : n = queue[j].n BY DEF Numbers
    <3>2. CASE j = 1 BY <1>4, <1>7, <3>1, <3>2 DEF Numbers
    <3>3. CASE j # 1
      <4>1. j - 1 \in 1..(Len(queue) - 1) /\ (j - 1) + 1 = j /\ j - 1 \in 1..Len(queue') BY <1>8, <3>3
      <4>2. queue'[j - 1] = queue[j] BY <1>8, <4>1
      <4> QED BY <3>1, <4>1, <4>2 DEF Numbers
    <3> QED BY <3>2, <3>3
  <2> QED BY <1>12, <2>2, <2>3, <2>4 DEF KeepsQueued, Queued
<1>18. MarksMove BY <1>5 DEF MarksMove
<1> QED BY <1>0, <1>5, <1>11, <1>12, <1>14, <1>15, <1>16, <1>17, <1>18, AlertQuiet

\* A message joins the queue, and what is trimmed is in the actor's hands.
LEMMA EnqueueAlert ==
  ASSUME Settings, NotifierInv, NotifierInv', AlertInv,
         NEW a \in Actors, NEW ch \in Channels, NEW next \in {"resolve", "fallback"},
         act[a].pc \in {"enqueue", "enqueueSMS"}, ch = "sms" => act[a].pc = "enqueueSMS",
         Enqueue(a, ch, act[a].tok, next),
         UNCHANGED <<sendVars, dropVars, storeVars, cond, msgs>>
  PROVE  AlertInv'
<1>1. Types /\ Types' /\ MessageInv /\ HangInv /\ QueueInv /\ MarkInv /\ QueueEnded BY DEF NotifierInv, AlertInv
<1>2. PICK s : s = act[a] OBVIOUS
<1>3. s \in Actor /\ HoldsMessage(a, s) /\ HandInv(a, s) BY <1>2, HandsOf DEF AlertInv
<1>4. PICK m : m = s.msg OBVIOUS
<1>5. m.n # 0 /\ m.n \in 1..Len(msgs) /\ msgs[m.n] = m /\ s.drops = <<>>
  BY <1>2, <1>3, <1>4 DEF HoldsMessage, Early
<1>6. queue \in Seq(Item) /\ nextID \in Nat /\ Len(msgs) \in Nat /\ m \in Message
  <2>1. m \in Message BY <1>3, <1>4 DEF Actor
  <2> QED BY <1>1, <2>1 DEF Types
<1>7. PICK new : new = [id |-> nextID, ch |-> ch, n |-> m.n, kind |-> m.kind, key |-> m.key] OBVIOUS
<1>8. new \in Item /\ new.id = nextID /\ new.ch = ch /\ new.n = m.n /\ new.kind = m.kind /\ new.key = m.key
  BY <1>6, <1>7 DEF Item, Message
<1>9. PICK q : q = Append(queue, new) OBVIOUS
<1>10. /\ q \in Seq(Item) /\ Len(q) = Len(queue) + 1
       /\ \A i \in 1..Len(queue) : q[i] = queue[i] /\ i \in 1..Len(q)
       /\ q[Len(queue) + 1] = new /\ Len(queue) + 1 \in 1..Len(q)
       /\ \A i \in 1..Len(q) : i \in 1..Len(queue) \/ i = Len(queue) + 1
  BY <1>6, <1>8, <1>9, AppendFacts
<1>11. PICK drops : drops = Overflow(q) OBVIOUS
<1>12. PICK pc \in {next, "report"} : pc = IF drops = <<>> THEN next ELSE "report" OBVIOUS
<1>13. PICK r : r = [s EXCEPT !.pc = pc, !.next = next, !.drops = drops] OBVIOUS
<1>14. queue' = Trimmed(q) /\ Step(a, r) /\ resolvedBefore' = resolvedBefore
  BY <1>2, <1>4, <1>7, <1>9, <1>11, <1>12, <1>13 DEF Enqueue, GoOn
<1>15. /\ PartOf(queue', q) /\ PartOf(drops, q)
       /\ \A j \in 1..Len(q) : \/ \E i \in 1..Len(queue') : queue'[i] = q[j]
                               \/ \E i \in 1..Len(drops) : drops[i] = q[j]
  BY <1>10, <1>11, <1>14, TrimParts
<1>16. r.pc = pc /\ r.drops = drops /\ r.msg = m BY <1>3, <1>4, <1>13 DEF Actor
<1>17. r \in Actor /\ Moved(a, r) BY <1>1, <1>14, StepIs
<1>18. UNCHANGED <<stored, loaded, restarts, crashed, dropped, msgs, cond>> BY DEF storeVars, dropVars
<1>19. GrowsMsgs BY <1>6 DEF GrowsMsgs
<1>20. KeepsSent BY <1>1, <1>19, NoSend DEF sendVars
<1>21. Of(new) /\ Ended(new)
  <2>1. m.kind = "problem" => m.key \in Keys BY <1>1, <1>5 DEF MessageInv
  <2>2. Of(new) BY <1>5, <1>8, <2>1 DEF Of
  <2> SUFFICES ASSUME SMSProblem(new) PROVE MaxRestarts = 0 /\ ~(new.id < resolvedBefore[new.key])
    BY <2>2 DEF Ended
  <2>3. ch = "sms" /\ m.kind = "problem" BY <1>8 DEF SMSProblem
  <2>4. MaxRestarts = 0 BY <1>2, <1>3, <1>4, <2>3 DEF HandInv
  <2>5. PICK x \in Nat : x = resolvedBefore[new.key] /\ x <= nextID BY <1>1, <1>8, <2>1, <2>3 DEF MarkInv, Types
  <2>6. ~(new.id < x) BY <1>6, <1>8, <2>5
  <2> QED BY <2>4, <2>5, <2>6
<1>22. ASSUME NEW j \in 1..Len(q) PROVE Of(q[j]) /\ Ended(q[j])
  <2>1. CASE j \in 1..Len(queue) BY <1>1, <1>10, <2>1 DEF QueueInv, QueueEnded
  <2>2. CASE j = Len(queue) + 1 BY <1>10, <1>21, <2>2
  <2> QED BY <1>10, <2>1, <2>2
<1>23. LineEnded
  <2> SUFFICES ASSUME NEW i \in 1..Len(queue') PROVE \E item : item = queue'[i] /\ Of(item) /\ Ended(item)
    BY DEF LineEnded
  <2>1. PICK j \in 1..Len(q) : queue'[i] = q[j] BY <1>15 DEF PartOf
  <2> QED BY <1>22, <2>1
<1>24. KeepsQueued
  <2>1. Numbers(act[a].drops) = {} BY <1>2, <1>5 DEF Numbers
  <2>2. Dropping \subseteq Dropping' /\ Numbers(r.drops) \subseteq Dropping' BY <1>17, <2>1, DropsStay
  <2>3. Numbers(queue') = Numbers(queue)' /\ Numbers(stored.queue) = Numbers(stored.queue)' BY <1>18 DEF Numbers
  <2>4. ASSUME NEW n \in Numbers(queue) PROVE n \in Numbers(queue') \/ n \in Numbers(r.drops)
    <3>1. PICK j \in 1..Len(queue) : n = queue[j].n BY DEF Numbers
    <3>2. j \in 1..Len(q) /\ n = q[j].n BY <1>10, <3>1
    <3> QED BY <1>15, <1>16, <3>2 DEF Numbers
  <2> QED BY <1>18, <2>2, <2>3, <2>4 DEF KeepsQueued, Queued
<1>25. HandInv(a, r)'
  <2>1. ASSUME NEW i \in 1..Len(r.drops) PROVE Of(r.drops[i])'
    <3>1. PICK j \in 1..Len(q) : drops[i] = q[j] BY <1>15, <1>16 DEF PartOf
    <3>2. PICK item : item = q[j] OBVIOUS
    <3>3. Of(item)' BY <1>18, <1>22, <3>2 DEF Of
    <3>4. r.drops[i] = item BY <1>16, <3>1, <3>2
    <3> QED BY <3>3, <3>4
  <2>2. pc \notin FlushPlaces \cup {"checkpoint", "sms", "enqueueSMS"} BY <1>12 DEF FlushPlaces
  <2> QED BY <1>3, <1>4, <1>16, <1>18, <2>1, <2>2 DEF HandInv
<1>26. MarksMove BY <1>14 DEF MarksMove
<1> QED BY <1>17, <1>18, <1>20, <1>23, <1>24, <1>25, <1>26, AlertQuiet

\* The copies of a message that failed are queued.
LEMMA EnqueuesAlert ==
  ASSUME Settings, NotifierInv, NotifierInv', AlertInv, NEW a \in Actors
  PROVE  (EnqueueTelegram(a) => AlertInv') /\ (EnqueueSMS(a) => AlertInv')
<1>1. HoldsMessage(a, act[a]) BY HandsOf
<1>2. "tlg" \in Channels /\ "sms" \in Channels BY DEF Channels
<1>3. ASSUME EnqueueTelegram(a) PROVE AlertInv'
  <2>1. PICK next \in {"resolve", "fallback"} : next = AfterSend(act[a].msg) BY DEF AfterSend
  <2>2. /\ act[a].pc = "enqueue" /\ Enqueue(a, "tlg", act[a].tok, next)
        /\ UNCHANGED <<sendVars, dropVars, storeVars, cond, msgs>>
    BY <1>3, <2>1 DEF EnqueueTelegram, At
  <2> QED BY <1>2, <2>2, EnqueueAlert
<1>4. ASSUME EnqueueSMS(a) PROVE AlertInv'
  <2>1. act[a].pc = "enqueueSMS" BY <1>4 DEF EnqueueSMS, At
  <2>2. PICK next \in {"resolve", "fallback"} : next = act[a].next BY <1>1, <2>1 DEF HoldsMessage
  <2>3. Enqueue(a, "sms", act[a].tok, next) /\ UNCHANGED <<sendVars, dropVars, storeVars, cond, msgs>>
    BY <1>4, <2>2 DEF EnqueueSMS
  <2> QED BY <1>2, <2>1, <2>3, EnqueueAlert
<1> QED BY <1>3, <1>4

-----------------------------------------------------------------------------
(* What is given up *)

\* The condition of a dropped PROBLEM of its current streak is not open any more.
LEMMA ReportDroppedAlert ==
  ASSUME Settings, NotifierInv, NotifierInv', AlertInv, NEW a \in Actors, ReportDropped(a)
  PROVE  AlertInv'
<1>1. Types /\ Types' /\ HangInv /\ QueueInv /\ StreakInv /\ GivenUpInv /\ OpenInv /\ QueueEnded
  BY DEF NotifierInv, AlertInv
<1>2. PICK s : s = act[a] OBVIOUS
<1>3. s \in Actor /\ HoldsMessage(a, s) /\ HandInv(a, s) BY <1>2, HandsOf DEF AlertInv
<1>4. PICK r : r = IF s.next = "idle" THEN Idle ELSE [s EXCEPT !.pc = s.next, !.drops = <<>>] OBVIOUS
<1>5. PICK problems : problems = {d \in Range(s.drops) : d.kind = "problem"} OBVIOUS
<1>6. PICK reopened : reopened = {d \in problems : Reopens(d.key, d.n)} OBVIOUS
<1>7. /\ s.pc = "report" /\ dropped' = dropped \cup Numbers(s.drops) /\ Step(a, r)
      /\ cond' = [k \in Keys |-> IF \E d \in reopened : d.key = k
                                   THEN [cond[k] EXCEPT !.open = FALSE] ELSE cond[k]]
      /\ UNCHANGED <<queueVars, sendVars, storeVars, msgs>>
  BY <1>2, <1>4, <1>5, <1>6 DEF ReportDropped, At
<1>8. /\ s.drops \in Seq(Item) /\ cond \in Cond /\ Len(msgs) \in Nat /\ msgs \in Seq(Message)
      /\ Len(msgs) <= MaxMsgs /\ MaxMsgs \in Nat
  BY <1>1, <1>3, NotifierAssumption DEF Actor, Types
<1>9. UNCHANGED <<queue, resolvedBefore, stored, loaded, restarts, crashed, msgs>> BY <1>7 DEF queueVars, storeVars
<1>10. r \in Actor /\ Moved(a, r) BY <1>1, <1>7, StepIs
<1>11. ASSUME NEW k \in Keys
       PROVE  /\ cond'[k].since = cond[k].since
              /\ cond'[k].open => cond[k].open /\ ~\E d \in reopened : d.key = k
  <2>1. cond[k] \in [open : BOOLEAN, since : Nat] BY <1>8 DEF Cond
  <2>2. CASE \E d \in reopened : d.key = k
    <3>1. cond'[k] = [cond[k] EXCEPT !.open = FALSE] BY <1>7, <2>2
    <3>2. cond'[k].since = cond[k].since /\ cond'[k].open = FALSE BY <2>1, <3>1
    <3> QED BY <3>2
  <2>3. CASE ~\E d \in reopened : d.key = k
    <3>1. cond'[k] = cond[k] BY <1>7, <2>3
    <3> QED BY <2>3, <3>1
  <2> QED BY <2>2, <2>3
<1>12. GrowsMsgs BY <1>8, <1>9 DEF GrowsMsgs
<1>13. KeepsSent BY <1>1, <1>7, <1>12, NoSend DEF sendVars
<1>14. StreaksMove BY <1>9, <1>11 DEF StreaksMove
<1>15. StreakInv' BY <1>1, <1>9, <1>11 DEF StreakInv
<1>16. GivenUpInv'
  <2>1. \A i \in 1..Len(s.drops) : s.drops[i].n \in 1..Len(msgs) BY <1>3 DEF HandInv, Of
  <2>2. Numbers(s.drops) \subseteq 1..Len(msgs) BY <2>1 DEF Numbers
  <2> QED BY <1>1, <1>7, <1>9, <2>2 DEF GivenUpInv
<1>17. QueueEnded'
  <2> SUFFICES ASSUME NEW i \in 1..Len(queue) PROVE Ended(queue[i])'
    BY <1>9 DEF QueueEnded
  <2>1. PICK item : item = queue[i] OBVIOUS
  <2>2. Of(item) /\ Ended(item) BY <1>1, <2>1 DEF QueueInv, QueueEnded
  <2>3. Ended(item)' BY <1>1, <1>12, <1>14, <2>2, EndedStays
  <2>4. queue'[i] = item BY <1>9, <2>1
  <2> QED BY <2>3, <2>4
<1>18. OpenInv'
  <2> SUFFICES ASSUME NEW k \in Keys, cond'[k].open
               PROVE  \E n \in 1..Len(msgs') : ProblemOf(k, cond[k].since, n)' /\ Kept(n)'
    BY DEF OpenInv
  <2>1. PICK x \in Nat : x = cond[k].since BY <1>8 DEF Cond
  <2>2. cond[k].open /\ cond'[k].since = x /\ ~\E d \in reopened : d.key = k BY <1>11, <2>1
  <2>3. PICK n \in 1..Len(msgs) : ProblemOf(k, x, n) /\ Kept(n) BY <1>1, <2>1, <2>2 DEF OpenInv
  <2>4. ProblemOf(k, x, n)' BY <1>12, <2>3, ProblemStays
  <2>5. n >= x
    <3>1. msgs[n].kind = "problem" /\ msgs[n].streak = x BY <2>3 DEF ProblemOf
    <3>2. x \in 1..n BY <1>1, <3>1 DEF StreakInv
    <3> QED BY <1>8, <3>2
  <2>6. n \notin Numbers(s.drops)
    <3> SUFFICES ASSUME n \in Numbers(s.drops) PROVE FALSE
      OBVIOUS
    <3>1. PICK i \in 1..Len(s.drops) : n = s.drops[i].n BY DEF Numbers
    <3>2. PICK d : d = s.drops[i] OBVIOUS
    <3>3. d.n = n /\ d.key = k /\ d.kind = "problem" BY <1>3, <2>3, <3>1, <3>2 DEF HandInv, Of, ProblemOf
    <3>4. d \in Range(s.drops) BY <1>8, <3>2 DEF Range
    <3>5. Reopens(d.key, d.n) BY <2>1, <2>2, <2>5, <3>3 DEF Reopens
    <3>6. d \in reopened BY <1>5, <1>6, <3>3, <3>4, <3>5
    <3> QED BY <2>2, <3>3, <3>6
  <2>7. Kept(n)'
    <3>1. n \in 1..MaxMsgs BY <1>8
    <3>2. CASE n \notin dropped \cup crashed BY <1>7, <1>9, <2>6, <3>2 DEF Kept
    <3>3. CASE WasSent(n) BY <1>13, <3>1, <3>3 DEF Kept, KeepsSent
    <3>4. CASE n \in Queued
      <4>1. CASE n \in Dropping
        <5>1. PICK b \in Actors : n \in Numbers(act[b].drops) BY <4>1 DEF Dropping
        <5>2. act'[b] = act[b] BY <1>2, <1>10, <2>6, <5>1 DEF Moved
        <5>3. n \in Dropping' BY <5>1, <5>2 DEF Dropping, Numbers
        <5> QED BY <5>3 DEF Kept, Queued
      <4>2. CASE n \in Numbers(queue) \cup (IF loaded THEN {} ELSE Numbers(stored.queue))
        <5>1. n \in Queued' BY <1>9, <4>2 DEF Queued, Numbers
        <5> QED BY <5>1 DEF Kept
      <4> QED BY <3>4, <4>1, <4>2 DEF Queued
    <3> QED BY <2>3, <3>2, <3>3, <3>4 DEF Kept
  <2>8. ProblemOf(k, cond[k].since, n)' BY <2>2, <2>4 DEF ProblemOf
  <2> QED BY <1>9, <2>7, <2>8
<1>19. HandInv(a, r)'
  <2>1. CASE s.next = "idle"
    <3>1. r.msg.n = 0 /\ r.drops = <<>> /\ r.pc = "idle" BY <1>4, <2>1, IdleFacts
    <3> QED BY <3>1, HandEmpty
  <2>2. CASE s.next # "idle"
    <3>1. r.pc = s.next /\ r.drops = <<>> /\ r.msg = s.msg BY <1>3, <1>4, <2>2 DEF Actor
    <3>2. s.next \in {"resolve", "fallback"} /\ s.msg.n # 0 /\ s.msg.n \in 1..Len(msgs) /\ msgs[s.msg.n] = s.msg
      BY <1>3, <1>7, <2>2 DEF HoldsMessage
    <3>3. s.msg.kind = "resolved" => cond'[s.msg.key].since = 0
      <4> SUFFICES ASSUME s.msg.kind = "resolved" PROVE cond'[s.msg.key].since = 0
        OBVIOUS
      <4>1. s.msg.key \in Keys BY <3>2 DEF NotifierInv, MessageInv
      <4>2. cond[s.msg.key].since = 0 BY <1>3, <3>2 DEF HandInv
      <4> QED BY <1>11, <4>1, <4>2
    <3>4. \A i \in 1..Len(r.drops) : Of(r.drops[i])' BY <3>1
    <3> QED BY <1>3, <3>1, <3>2, <3>3, <3>4 DEF HandInv, FlushPlaces
  <2> QED BY <2>1, <2>2
<1>20. \A k \in Keys : cond[k].since = 0 => cond'[k].since = 0 BY <1>11
<1>21. UNCHANGED <<stored, loaded, restarts>> BY <1>9
<1> QED BY <1>10, <1>12, <1>13, <1>14, <1>15, <1>16, <1>17, <1>18, <1>19, <1>20, <1>21, AlertStep

-----------------------------------------------------------------------------
(* Notify *)

\* Message m opens the condition of key k, or it was open.
Opens(m, k) ==
  \/ cond[k].open /\ cond'[k].since = cond[k].since
  \/ m.kind = "problem" /\ m.key = k /\ m.streak = cond'[k].since

\* A message that is new was not given up.
LEMMA NotifyAlert ==
  ASSUME Settings, NotifierInv, NotifierInv', AlertInv,
         NEW a \in Actors, NEW m \in Message, m.n = Len(msgs) + 1, m.mode \in Modes, Notify(a, m),
         m.kind # "event" => a = "tick" /\ m.streak \in 1..m.n,
         m.kind = "resolved" => cond'[m.key].since = 0,
         StreaksMove, \A k \in Keys : cond'[k].since <= Len(msgs) + 1,
         \A k \in Keys : cond'[k].open => Opens(m, k),
         a # "tick" => \A k \in Keys : cond[k].since = 0 => cond'[k].since = 0
  PROVE  AlertInv'
<1>1. Types /\ Types' /\ HangInv /\ QueueInv /\ StreakInv /\ GivenUpInv /\ OpenInv /\ QueueEnded
  BY DEF NotifierInv, AlertInv
<1>2. /\ act[a].pc = "idle" /\ Len(msgs) < MaxMsgs /\ msgs' = Append(msgs, m)
      /\ UNCHANGED <<queueVars, sendVars, dropVars, storeVars>>
  BY DEF Notify, At
<1>3. PICK pc \in {"sms", "telegram", "enqueue", "instead"} :
        Step(a, [Idle EXCEPT !.pc = pc, !.msg = m, !.off = offline]) /\ (pc = "sms" => m.mode = "sms")
  <2>1. m.mode \in {"tlg", "sms", "tlg-or-sms"} BY DEF Message
  <2>2. offline \in BOOLEAN BY <1>1 DEF Types
  <2>3. CASE m.mode = "sms" BY <2>2, <2>3 DEF Notify
  <2>4. CASE m.mode = "tlg" /\ ~offline BY <2>2, <2>4 DEF Notify
  <2>5. CASE m.mode = "tlg-or-sms" /\ ~offline BY <2>2, <2>5 DEF Notify
  <2>6. CASE m.mode = "tlg" /\ offline BY <2>2, <2>6 DEF Notify
  <2>7. CASE m.mode = "tlg-or-sms" /\ offline BY <2>2, <2>7 DEF Notify
  <2> QED BY <2>1, <2>3, <2>4, <2>5, <2>6, <2>7
<1>4. PICK r : r = [Idle EXCEPT !.pc = pc, !.msg = m, !.off = offline] OBVIOUS
<1>5. r.pc = pc /\ r.msg = m /\ r.drops = <<>>
  <2>1. r.pc = pc /\ r.msg = m /\ r.drops = Idle.drops BY <1>4, IdleFacts DEF Actor
  <2> QED BY <2>1, IdleFacts
<1>6. r \in Actor /\ Moved(a, r) BY <1>1, <1>3, <1>4, StepIs
<1>7. /\ msgs \in Seq(Message) /\ Len(msgs) \in Nat
      /\ msgs' \in Seq(Message) /\ Len(msgs') = Len(msgs) + 1
      /\ msgs'[Len(msgs) + 1] = m /\ \A i \in 1..Len(msgs) : msgs'[i] = msgs[i]
  BY <1>1, <1>2 DEF Types
<1>8. GrowsMsgs BY <1>7 DEF GrowsMsgs
<1>9. KeepsSent BY <1>1, <1>2, <1>8, NoSend DEF sendVars
<1>10. UNCHANGED <<queue, resolvedBefore, stored, loaded, restarts, crashed, dropped>>
  BY <1>2 DEF queueVars, storeVars, dropVars
<1>11. Numbers(act[a].drops) = {} BY <1>2, HandsOf
<1>12. KeepsQueued BY <1>6, <1>10, <1>11, SameQueued
<1>13. m.n \in 1..Len(msgs') /\ m.n \notin dropped' \cup crashed'
  <2>1. m.n \in 1..Len(msgs') /\ m.n \notin 1..Len(msgs) BY <1>7
  <2> QED BY <1>1, <1>10, <2>1 DEF GivenUpInv
<1>14. StreakInv'
  <2>1. ASSUME NEW n \in 1..Len(msgs'), msgs'[n].kind # "event" PROVE msgs'[n].streak \in 1..n
    <3>1. n \in 1..Len(msgs) \/ n = Len(msgs) + 1 BY <1>7
    <3>2. CASE n \in 1..Len(msgs) BY <1>1, <1>7, <2>1, <3>2 DEF StreakInv
    <3>3. CASE n = Len(msgs) + 1 BY <1>7, <2>1, <3>3
    <3> QED BY <3>1, <3>2, <3>3
  <2>2. ASSUME NEW k \in Keys
        PROVE  cond'[k].since <= Len(msgs') + 1 /\ stored'.cond[k].since <= Len(msgs') + 1
    <3>1. PICK x \in Nat : x = cond'[k].since BY <1>1 DEF Types, Cond
    <3>2. PICK y \in Nat : y = stored.cond[k].since BY <1>1 DEF Types, Store, Cond
    <3>3. x <= Len(msgs) + 1 /\ y <= Len(msgs) + 1 BY <1>1, <3>1, <3>2 DEF StreakInv
    <3>4. x <= Len(msgs') + 1 /\ y <= Len(msgs') + 1 BY <1>7, <3>3
    <3> QED BY <1>10, <3>1, <3>2, <3>4
  <2> QED BY <2>1, <2>2 DEF StreakInv
<1>15. GivenUpInv'
  <2>1. 1..Len(msgs) \subseteq 1..Len(msgs') BY <1>7
  <2> QED BY <1>1, <1>10, <2>1 DEF GivenUpInv
<1>16. QueueEnded'
  <2> SUFFICES ASSUME NEW i \in 1..Len(queue) PROVE Ended(queue[i])'
    BY <1>10 DEF QueueEnded
  <2>1. PICK item : item = queue[i] OBVIOUS
  <2>2. Of(item) /\ Ended(item) BY <1>1, <2>1 DEF QueueInv, QueueEnded
  <2>3. Ended(item)' BY <1>1, <1>8, <2>2, EndedStays
  <2>4. queue'[i] = item BY <1>10, <2>1
  <2> QED BY <2>3, <2>4
<1>17. OpenInv'
  <2> SUFFICES ASSUME NEW k \in Keys, cond'[k].open
               PROVE  \E n \in 1..Len(msgs') : ProblemOf(k, cond[k].since, n)' /\ Kept(n)'
    BY DEF OpenInv
  <2>1. CASE cond[k].open /\ cond'[k].since = cond[k].since
    BY <1>1, <1>8, <1>9, <1>10, <1>12, <2>1, OpenKept
  <2>2. CASE m.kind = "problem" /\ m.key = k /\ m.streak = cond'[k].since
    <3>1. PICK n : n = m.n OBVIOUS
    <3>2. msgs'[n] = m BY <1>7, <3>1
    <3>3. ProblemOf(k, cond[k].since, n)' BY <2>2, <3>2 DEF ProblemOf
    <3>4. Kept(n)' BY <1>13, <3>1 DEF Kept
    <3> QED BY <1>13, <3>1, <3>3, <3>4
  <2> QED BY <2>1, <2>2 DEF Opens
<1>18. HandInv(a, r)'
  <2>1. \A i \in 1..Len(r.drops) : Of(r.drops[i])' BY <1>5
  <2>2. pc = "sms" => MaxRestarts = 0 BY <1>3 DEF Settings
  <2> QED BY <1>5, <2>1, <2>2 DEF HandInv, FlushPlaces
<1>19. UNCHANGED <<stored, loaded, restarts>> BY <1>10
<1> QED BY <1>6, <1>8, <1>9, <1>14, <1>15, <1>16, <1>17, <1>18, <1>19, AlertStep

\* The tick's news of a condition.
LEMMA NotifyConditionAlert ==
  ASSUME Settings, NotifierInv, NotifierInv', AlertInv, NEW k \in Keys, NEW mode \in Modes, NotifyCondition(k, mode)
  PROVE  AlertInv'
<1>1. Types /\ StreakInv BY DEF NotifierInv, AlertInv
<1>2. cond \in Cond /\ Len(msgs) \in Nat /\ \A j \in Keys : cond[j].since <= Len(msgs) + 1 /\ cond[j].since \in Nat
  <2>1. cond \in Cond /\ Len(msgs) \in Nat BY <1>1 DEF Types
  <2> QED BY <1>1, <2>1 DEF StreakInv, Cond
<1>3. Modes \subseteq {"tlg", "sms", "tlg-or-sms"} /\ "tick" \in Actors BY NotifierAssumption
<1>4. PICK x : x = StreakOf(k) OBVIOUS
<1>5. x \in 1..(Len(msgs) + 1) /\ (x = cond[k].since \/ x = Len(msgs) + 1)
  <2>1. CASE cond[k].since = 0 BY <1>2, <1>4, <2>1 DEF StreakOf
  <2>2. CASE cond[k].since # 0 BY <1>2, <1>4, <2>2 DEF StreakOf
  <2> QED BY <2>1, <2>2
<1>6. PICK kind \in {"problem", "resolved"} : kind = IF cond[k].open THEN "resolved" ELSE "problem" OBVIOUS
<1>7. PICK m : m = [n |-> Len(msgs) + 1, key |-> k, mode |-> mode, streak |-> x, kind |-> kind] OBVIOUS
<1>8. /\ m \in Message /\ m.n = Len(msgs) + 1 /\ m.key = k /\ m.mode = mode /\ m.streak = x /\ m.kind = kind
  BY <1>2, <1>3, <1>5, <1>6, <1>7 DEF Message
<1>9. /\ Notify("tick", m)
      /\ cond' = [cond EXCEPT ![k] = IF @.open THEN Untracked ELSE [open |-> TRUE, since |-> x]]
  BY <1>4, <1>6, <1>7 DEF NotifyCondition
<1>10. \A j \in Keys : j # k => cond'[j] = cond[j] BY <1>2, <1>9 DEF Cond
<1>11. IF cond[k].open THEN cond'[k] = Untracked ELSE cond'[k] = [open |-> TRUE, since |-> x]
  BY <1>2, <1>9 DEF Cond
<1>12. Untracked.since = 0 /\ Untracked.open = FALSE BY DEF Untracked
<1>13. resolvedBefore' = resolvedBefore BY <1>9 DEF Notify, queueVars
<1>14. cond'[k].since = 0 \/ cond'[k].since = x BY <1>11, <1>12
<1>15. x = cond[k].since \/ x > Len(msgs) BY <1>2, <1>5
<1>16. StreaksMove BY <1>10, <1>13, <1>14, <1>15 DEF StreaksMove
<1>17. cond'[k].since <= Len(msgs) + 1 BY <1>2, <1>5, <1>14
<1>18. \A j \in Keys : cond'[j].since <= Len(msgs) + 1 BY <1>2, <1>10, <1>17
<1>19. \A j \in Keys : cond'[j].open => Opens(m, j)
  <2> SUFFICES ASSUME NEW j \in Keys, cond'[j].open PROVE Opens(m, j)
    OBVIOUS
  <2>1. CASE j # k BY <1>10, <2>1 DEF Opens
  <2>2. CASE j = k
    <3>1. ~cond[k].open /\ cond'[k].since = x BY <1>11, <1>12, <2>2
    <3> QED BY <1>6, <1>8, <2>2, <3>1 DEF Opens
  <2> QED BY <2>1, <2>2
<1>20. m.kind = "resolved" => cond'[m.key].since = 0 BY <1>6, <1>8, <1>11, <1>12
<1> QED BY <1>3, <1>5, <1>8, <1>9, <1>16, <1>18, <1>19, <1>20, NotifyAlert

\* A pushed event.
LEMMA NotifyEventAlert ==
  ASSUME Settings, NotifierInv, NotifierInv', AlertInv, NEW a \in Actors, NEW mode \in Modes, NotifyEvent(a, mode)
  PROVE  AlertInv'
<1>1. Types /\ StreakInv BY DEF NotifierInv, AlertInv
<1>2. Len(msgs) \in Nat BY <1>1 DEF Types
<1>3. Modes \subseteq {"tlg", "sms", "tlg-or-sms"} BY NotifierAssumption
<1>4. PICK m : m = [n |-> Len(msgs) + 1, key |-> NoKey, mode |-> mode, streak |-> 0, kind |-> "event"] OBVIOUS
<1>5. m \in Message /\ m.n = Len(msgs) + 1 /\ m.mode = mode /\ m.kind = "event" BY <1>2, <1>3, <1>4 DEF Message
<1>6. Notify(a, m) /\ cond' = cond BY <1>4 DEF NotifyEvent
<1>7. resolvedBefore' = resolvedBefore BY <1>6 DEF Notify, queueVars
<1>8. StreaksMove BY <1>6, <1>7 DEF StreaksMove
<1>9. \A k \in Keys : cond'[k].since <= Len(msgs) + 1 BY <1>1, <1>6 DEF StreakInv
<1>10. \A k \in Keys : cond'[k].open => Opens(m, k) BY <1>6 DEF Opens
<1>11. \A k \in Keys : cond[k].since = 0 => cond'[k].since = 0 BY <1>6
<1> QED BY <1>5, <1>6, <1>8, <1>9, <1>10, <1>11, NotifyAlert

-----------------------------------------------------------------------------
(* The store *)

\* With restarts only the tick calls the notifier, and no PROBLEM waits for an SMS of its own.
LEMMA OneActor ==
  ASSUME Settings, AlertInv, MaxRestarts # 0
  PROVE  Actors = {"tick"} /\ \A i \in 1..Len(queue) : ~SMSProblem(queue[i])
<1>1. Actors = {"tick"} BY DEF Settings
<1>2. \A i \in 1..Len(queue) : ~SMSProblem(queue[i]) BY DEF AlertInv, QueueEnded, Ended
<1> QED BY <1>1, <1>2

\* The save holds the PROBLEM of every condition that it says is open.
LEMMA CheckpointAlert ==
  ASSUME Settings, NotifierInv, NotifierInv', AlertInv, Checkpoint
  PROVE  AlertInv'
<1>1. /\ Types /\ Types' /\ HangInv /\ StreakInv /\ GivenUpInv /\ OpenInv /\ QueueEnded /\ "tick" \in Actors
      /\ restarts \in Nat /\ (MaxRestarts = 0 => loaded)
  BY NotifierAssumption DEF NotifierInv, AlertInv
<1>2. act["tick"].pc = "checkpoint" BY DEF Checkpoint, At
<1>3. loaded /\ Numbers(act["tick"].drops) = {} /\ act["tick"].msg.n = 0
  BY <1>1, <1>2, HandsOf DEF Holding, HoldsMessage
<1>4. PICK c : c = act["tick"].conds OBVIOUS
<1>5. Savable(c) BY <1>1, <1>2, <1>4 DEF AlertInv, HandInv
<1>6. Actors = {"tick"} /\ \A i \in 1..Len(queue) : ~SMSProblem(queue[i]) BY <1>5, OneActor DEF Savable
<1>7. PICK held : held = InHand \cup Dropping OBVIOUS
<1>8. held = {}
  <2>1. InHand = {} BY <1>3, <1>6 DEF InHand
  <2>2. Dropping = {} BY <1>3, <1>6 DEF Dropping
  <2> QED BY <1>7, <2>1, <2>2
<1>9. /\ stored' = [cond |-> c, queue |-> queue, failing |-> failing,
                    sms |-> smsProblems, undelivered |-> undelivered, upTo |-> Len(msgs), held |-> held]
      /\ Step("tick", Idle)
      /\ UNCHANGED <<queueVars, sendVars, dropVars, loaded, restarts, crashed, cond, msgs>>
  BY <1>4, <1>7 DEF Checkpoint
<1>10. stored'.cond = c /\ stored'.queue = queue /\ stored'.held = {} BY <1>8, <1>9
<1>11. UNCHANGED <<queue, resolvedBefore, sent, dropped, loaded, restarts, crashed, cond, msgs>>
  BY <1>9 DEF queueVars, dropVars, sendVars
<1>12. Idle \in Actor /\ Moved("tick", Idle) BY <1>1, <1>9, StepIs
<1>13. Len(msgs) \in Nat BY <1>1 DEF Types
<1>14. GrowsMsgs BY <1>11, <1>13 DEF GrowsMsgs
<1>15. KeepsSent BY <1>1, <1>9, <1>14, NoSend DEF sendVars
<1>16. StreakInv' BY <1>1, <1>5, <1>10, <1>11 DEF StreakInv, Savable
<1>17. GivenUpInv' BY <1>1, <1>10, <1>11 DEF GivenUpInv
<1>18. SavedInv'
  <2>1. \A i \in 1..Len(stored'.queue) : ~SMSProblem(stored'.queue[i]) BY <1>6, <1>10
  <2>2. ASSUME NEW k \in Keys, c[k].open
        PROVE  \E n \in 1..Len(msgs) : ProblemOf(k, c[k].since, n)' /\ (n \in Numbers(queue) \/ WasSent(n)')
    <3>1. PICK n \in 1..Len(msgs) : ProblemOf(k, c[k].since, n) /\ (n \in Numbers(queue) \/ WasSent(n))
      BY <1>5, <2>2 DEF Savable
    <3>2. ProblemOf(k, c[k].since, n)' BY <1>11, <3>1 DEF ProblemOf
    <3>3. WasSent(n) => WasSent(n)' BY <1>11 DEF WasSent
    <3> QED BY <3>1, <3>2, <3>3
  <2> QED BY <1>10, <1>11, <2>1, <2>2 DEF SavedInv, SMSProblem, Numbers, ProblemOf
<1>19. KeepsQueued
  <2>1. Dropping \subseteq Dropping' BY <1>1, <1>3, <1>12, DropsStay
  <2>2. Numbers(queue) = Numbers(queue)' BY <1>11 DEF Numbers
  <2> QED BY <1>3, <2>1, <2>2 DEF KeepsQueued, Queued
<1>20. OpensNone BY <1>11 DEF OpensNone
<1>21. OpenInv' BY <1>1, <1>11, <1>14, <1>15, <1>19, <1>20, OpenStays
<1>22. QueueEnded' BY <1>1, <1>11 DEF QueueEnded, Ended, SMSProblem
<1>23. ASSUME NEW a \in Actors PROVE HandInv(a, act[a])'
  <2>1. act'[a] = Idle BY <1>6, <1>12 DEF Moved
  <2>2. HandInv(a, Idle)' BY IdleFacts, HandEmpty
  <2> QED BY <2>1, <2>2 DEF HandInv
<1>24. restarts' \in Nat /\ (MaxRestarts = 0 => loaded') BY <1>1, <1>11
<1> QED BY <1>16, <1>17, <1>18, <1>21, <1>22, <1>23, <1>24 DEF AlertInv

\* A crash leaves no condition open.
LEMMA RestartAlert ==
  ASSUME Settings, NotifierInv, NotifierInv', AlertInv, Restart
  PROVE  AlertInv'
<1>1. /\ Types /\ Types' /\ HangInv /\ StreakInv /\ GivenUpInv /\ SavedInv /\ restarts \in Nat
      /\ stored.upTo \in Nat /\ Len(msgs) \in Nat
  <2>1. /\ Types /\ Types' /\ HangInv /\ StreakInv /\ GivenUpInv /\ SavedInv /\ restarts \in Nat
    BY DEF NotifierInv, AlertInv
  <2>2. stored.upTo \in Nat /\ Len(msgs) \in Nat BY <2>1 DEF Types, Store
  <2> QED BY <2>1, <2>2
<1>2. /\ restarts < MaxRestarts /\ restarts' = restarts + 1 /\ queue' = <<>> /\ act' = [a \in Actors |-> Idle]
      /\ cond' = [k \in Keys |-> Untracked]
      /\ crashed' = crashed \cup (stored.upTo + 1)..Len(msgs) \cup stored.held
      /\ UNCHANGED <<sent, dropped, stored, msgs>>
  BY DEF Restart
<1>3. MaxRestarts # 0 /\ restarts' \in Nat BY <1>1, <1>2, NotifierAssumption
<1>4. \A k \in Keys : cond'[k].since = 0 /\ cond'[k].open = FALSE BY <1>2 DEF Untracked
<1>5. GrowsMsgs BY <1>1, <1>2 DEF GrowsMsgs
<1>6. KeepsSent BY <1>2 DEF KeepsSent, WasSent
<1>7. StreakInv'
  <2>1. 0 <= Len(msgs) + 1 BY <1>1
  <2>2. \A k \in Keys : cond'[k].since <= Len(msgs) + 1 BY <1>4, <2>1
  <2> QED BY <1>1, <1>2, <2>2 DEF StreakInv
<1>8. GivenUpInv'
  <2>1. (stored.upTo + 1)..Len(msgs) \subseteq 1..Len(msgs) BY <1>1
  <2> QED BY <1>1, <1>2, <2>1 DEF GivenUpInv
<1>9. SavedInv' BY <1>1, <1>2, <1>5, <1>6, SavedStays
<1>10. OpenInv' BY <1>4 DEF OpenInv
<1>11. QueueEnded' BY <1>2 DEF QueueEnded
<1>12. ASSUME NEW a \in Actors PROVE HandInv(a, act[a])'
  <2>1. act'[a] = Idle BY <1>2
  <2>2. HandInv(a, Idle)' BY IdleFacts, HandEmpty
  <2> QED BY <2>1, <2>2 DEF HandInv
<1> QED BY <1>3, <1>7, <1>8, <1>9, <1>10, <1>11, <1>12 DEF AlertInv

\* A load brings back the open conditions with their PROBLEMs.
LEMMA LoadAlert ==
  ASSUME Settings, NotifierInv, NotifierInv', AlertInv, Load
  PROVE  AlertInv'
<1>1. /\ Types /\ Types' /\ HangInv /\ QueueInv /\ StoreInv /\ "tick" \in Actors
      /\ restarts \in Nat /\ (MaxRestarts = 0 => loaded) /\ StreakInv /\ GivenUpInv /\ SavedInv /\ OpenInv
  BY NotifierAssumption DEF NotifierInv, AlertInv
<1>2. ~loaded /\ act["tick"].pc = "idle" BY DEF Load, At
<1>3. Numbers(act["tick"].drops) = {} BY <1>1, <1>2, HandsOf
<1>4. Actors = {"tick"} /\ \A i \in 1..Len(queue) : ~SMSProblem(queue[i]) BY <1>1, <1>2, OneActor
<1>5. PICK S : S = stored.queue OBVIOUS
<1>6. S \in Seq(Item) /\ Sorted(S) /\ \A i \in 1..Len(S) : Of(S[i]) /\ ~SMSProblem(S[i])
  BY <1>1, <1>5 DEF Types, Store, StoreInv, SavedInv
<1>7. /\ queue \in Seq(Item) /\ Len(msgs) \in Nat /\ MaxMsgs \in Nat /\ Len(msgs) <= MaxMsgs /\ msgs' = msgs
  BY <1>1, NotifierAssumption DEF Types, Load
<1>8. \A j \in 1..Len(queue) : Of(queue[j]) /\ queue[j] \in Item
  <2>1. \A j \in 1..Len(queue) : queue[j] \in Item BY <1>7
  <2> QED BY <1>1, <2>1 DEF QueueInv
<1>9. PICK top \in Nat : top = Top /\ \A i \in 1..Len(S) : S[i].id <= top BY <1>5, <1>6, TopFacts DEF Top
<1>10. PICK M : M = MergedQueue OBVIOUS
<1>11. M = Merged(S, queue, top) BY <1>5, <1>9, <1>10 DEF MergedQueue, Merged, Renumbered
<1>12. /\ M \in Seq(Item)
       /\ \A i \in 1..Len(S) : i \in 1..Len(M) /\ M[i] = S[i]
       /\ \A j \in 1..Len(queue) : Len(S) + j \in 1..Len(M) /\ M[Len(S) + j] = [queue[j] EXCEPT !.id = top + j]
       /\ \A i \in 1..Len(M) : i \in 1..Len(S) \/ \E j \in 1..Len(queue) : i = Len(S) + j
  <2>1. PICK Q : Q = queue OBVIOUS
  <2>2. Q \in Seq(Item) /\ M = Merged(S, Q, top) BY <1>7, <1>11, <2>1
  <2>3. \A i \in 1..Len(S) : S[i].id <= top BY <1>9
  <2>4. S \in Seq(Item) /\ Sorted(S) /\ top \in Nat BY <1>6
  <2>5. IsMerge(M, S, Q, top) BY <2>2, <2>3, <2>4, MergeFacts
  <2> QED BY <2>1, <2>5 DEF IsMerge
<1>13. \A j \in 1..Len(queue) : /\ M[Len(S) + j].n = queue[j].n /\ M[Len(S) + j].ch = queue[j].ch
                                /\ M[Len(S) + j].kind = queue[j].kind /\ M[Len(S) + j].key = queue[j].key
  BY <1>8, <1>12 DEF Item
<1>14. ASSUME NEW i \in 1..Len(M) PROVE Of(M[i]) /\ ~SMSProblem(M[i])
  <2>1. CASE i \in 1..Len(S) BY <1>6, <1>12, <2>1
  <2>2. ASSUME NEW j \in 1..Len(queue), i = Len(S) + j PROVE Of(M[i]) /\ ~SMSProblem(M[i])
    <3>1. Of(queue[j]) /\ ~SMSProblem(queue[j]) BY <1>4, <1>8
    <3>2. /\ M[i].n = queue[j].n /\ M[i].ch = queue[j].ch /\ M[i].kind = queue[j].kind /\ M[i].key = queue[j].key
      BY <1>13, <2>2
    <3> QED BY <3>1, <3>2 DEF Of, SMSProblem
  <2> QED BY <1>12, <2>1, <2>2
<1>15. PICK drops : drops = Overflow(M) OBVIOUS
<1>16. PICK pc \in {"idle", "report"} : pc = IF drops = <<>> THEN "idle" ELSE "report" OBVIOUS
<1>17. PICK r : r = [Idle EXCEPT !.pc = pc, !.next = "idle", !.drops = drops] OBVIOUS
<1>18. /\ queue' = Trimmed(M) /\ Step("tick", r) /\ loaded' = TRUE
       /\ cond' = [k \in Keys |-> IF cond[k] = Untracked THEN stored.cond[k] ELSE cond[k]]
       /\ UNCHANGED <<sendVars, dropped, stored, restarts, crashed, msgs>>
  BY <1>10, <1>15, <1>16, <1>17 DEF Load, GoOn
<1>19. /\ PartOf(queue', M) /\ PartOf(drops, M)
       /\ \A j \in 1..Len(M) : \/ \E i \in 1..Len(queue') : queue'[i] = M[j]
                               \/ \E i \in 1..Len(drops) : drops[i] = M[j]
  BY <1>12, <1>15, <1>18, TrimParts
<1>20. r.pc = pc /\ r.drops = drops /\ r.msg = Idle.msg BY <1>17, IdleFacts DEF Actor
<1>21. r \in Actor /\ Moved("tick", r) BY <1>1, <1>18, StepIs
<1>22. GrowsMsgs BY <1>7 DEF GrowsMsgs
<1>23. KeepsSent BY <1>1, <1>18, <1>22, NoSend DEF sendVars
<1>24. StreakInv' BY <1>1, <1>18 DEF StreakInv
<1>25. GivenUpInv' BY <1>1, <1>18 DEF GivenUpInv
<1>26. SavedInv' BY <1>1, <1>18, <1>22, <1>23, SavedStays
<1>27. ASSUME NEW n, \E j \in 1..Len(M) : n = M[j].n PROVE n \in Queued'
  <2>1. PICK j \in 1..Len(M) : n = M[j].n BY <1>27
  <2>2. CASE \E i \in 1..Len(queue') : queue'[i] = M[j]
    <3>1. n \in Numbers(queue)' BY <2>1, <2>2 DEF Numbers
    <3> QED BY <3>1 DEF Queued
  <2>3. CASE \E i \in 1..Len(drops) : drops[i] = M[j]
    <3>1. n \in Numbers(r.drops) BY <1>20, <2>1, <2>3 DEF Numbers
    <3>2. n \in Dropping' BY <1>1, <1>3, <1>21, <3>1, DropsStay
    <3> QED BY <3>2 DEF Queued
  <2> QED BY <1>19, <2>1, <2>2, <2>3
<1>28. \A n \in Numbers(S) : n \in Queued'
  <2> SUFFICES ASSUME NEW i \in 1..Len(S) PROVE S[i].n \in Queued'
    BY DEF Numbers
  <2>1. i \in 1..Len(M) /\ S[i].n = M[i].n BY <1>12
  <2> QED BY <1>27, <2>1
<1>29. \A n \in Numbers(queue) : n \in Queued'
  <2> SUFFICES ASSUME NEW j \in 1..Len(queue) PROVE queue[j].n \in Queued'
    BY DEF Numbers
  <2>1. Len(S) + j \in 1..Len(M) /\ queue[j].n = M[Len(S) + j].n BY <1>12, <1>13
  <2> QED BY <1>27, <2>1
<1>30. KeepsQueued
  <2>1. Dropping = {} BY <1>3, <1>4 DEF Dropping
  <2> QED BY <1>2, <1>5, <1>28, <1>29, <2>1 DEF KeepsQueued, Queued
<1>31. OpenInv'
  <2> SUFFICES ASSUME NEW k \in Keys, cond'[k].open
               PROVE  \E n \in 1..Len(msgs') : ProblemOf(k, cond[k].since, n)' /\ Kept(n)'
    BY DEF OpenInv
  <2>1. CASE cond[k] # Untracked
    <3>1. cond'[k] = cond[k] BY <1>18, <2>1
    <3> QED BY <1>1, <1>18, <1>22, <1>23, <1>30, <3>1, OpenKept
  <2>2. CASE cond[k] = Untracked
    <3>1. PICK x : x = stored.cond[k].since OBVIOUS
    <3>2. cond'[k].since = x /\ stored.cond[k].open BY <1>18, <2>2, <3>1
    <3>3. PICK n \in 1..Len(msgs) : ProblemOf(k, x, n) /\ (n \in Numbers(S) \/ WasSent(n))
      BY <1>1, <1>5, <3>1, <3>2 DEF SavedInv
    <3>4. ProblemOf(k, cond[k].since, n)' BY <1>7, <3>2, <3>3 DEF ProblemOf
    <3>5. n \in 1..MaxMsgs BY <1>7
    <3>6. n \in Queued' \/ WasSent(n)' BY <1>23, <1>28, <3>3, <3>5 DEF KeepsSent
    <3>7. Kept(n)' BY <3>6 DEF Kept
    <3> QED BY <1>7, <3>4, <3>7
  <2> QED BY <2>1, <2>2
<1>32. QueueEnded'
  <2> SUFFICES ASSUME NEW i \in 1..Len(queue') PROVE Ended(queue[i])'
    BY DEF QueueEnded
  <2>1. PICK j \in 1..Len(M) : queue'[i] = M[j] BY <1>19 DEF PartOf
  <2>2. ~SMSProblem(M[j]) BY <1>14
  <2> QED BY <2>1, <2>2 DEF Ended, SMSProblem
<1>33. HandInv("tick", r)'
  <2>1. ASSUME NEW i \in 1..Len(r.drops) PROVE Of(r.drops[i])'
    <3>1. PICK j \in 1..Len(M) : drops[i] = M[j] BY <1>19, <1>20 DEF PartOf
    <3>2. PICK item : item = M[j] OBVIOUS
    <3>3. Of(item)' BY <1>7, <1>14, <3>2 DEF Of
    <3>4. r.drops[i] = item BY <1>20, <3>1, <3>2
    <3> QED BY <3>3, <3>4
  <2>2. r.msg.n = 0 BY <1>20, IdleFacts
  <2>3. r.pc \notin FlushPlaces \cup {"checkpoint", "sms", "enqueueSMS"} BY <1>16, <1>20 DEF FlushPlaces
  <2> QED BY <2>1, <2>2, <2>3 DEF HandInv
<1>34. ASSUME NEW a \in Actors PROVE HandInv(a, act[a])'
  <2>1. a = "tick" /\ act'[a] = r BY <1>4, <1>21 DEF Moved
  <2> QED BY <1>33, <2>1 DEF HandInv
<1>35. restarts' \in Nat /\ (MaxRestarts = 0 => loaded') BY <1>1, <1>18
<1> QED BY <1>24, <1>25, <1>26, <1>31, <1>32, <1>34, <1>35 DEF AlertInv

-----------------------------------------------------------------------------
(* The theorems *)

LEMMA InitAlert ==
  ASSUME Init
  PROVE  AlertInv
<1>1. /\ queue = <<>> /\ cond = [k \in Keys |-> Untracked] /\ act = [a \in Actors |-> Idle] /\ stored = NoState
      /\ loaded = TRUE /\ msgs = <<>> /\ dropped = {} /\ crashed = {} /\ restarts = 0
  BY DEF Init
<1>2. NoState.queue = <<>> /\ NoState.held = {} /\ NoState.cond = [k \in Keys |-> Untracked] BY DEF NoState
<1>3. Len(msgs) = 0 /\ Len(queue) = 0 /\ Len(stored.queue) = 0 BY <1>1, <1>2
<1>4. Untracked.since = 0 /\ Untracked.open = FALSE BY DEF Untracked
<1>5. \A k \in Keys : cond[k] = Untracked /\ stored.cond[k] = Untracked BY <1>1, <1>2
<1>6. StreakInv BY <1>3, <1>4, <1>5 DEF StreakInv
<1>7. GivenUpInv BY <1>1, <1>2 DEF GivenUpInv
<1>8. SavedInv /\ OpenInv /\ QueueEnded BY <1>3, <1>4, <1>5 DEF SavedInv, OpenInv, QueueEnded
<1>9. ASSUME NEW a \in Actors PROVE HandInv(a, act[a])
  <2>1. act[a] = Idle BY <1>1
  <2>2. \A i \in 1..Len(Idle.drops) : Of(Idle.drops[i]) BY IdleFacts
  <2>3. HandInv(a, Idle) BY <2>2, IdleFacts DEF HandInv, FlushPlaces
  <2> QED BY <2>1, <2>3
<1> QED BY <1>1, <1>6, <1>7, <1>8, <1>9 DEF AlertInv

\* Nothing changes without a step.
LEMMA StutterAlert ==
  ASSUME Settings, NotifierInv, NotifierInv', AlertInv, UNCHANGED vars
  PROVE  AlertInv'
<1>1. /\ UNCHANGED <<queueVars, sendVars, dropVars, storeVars, act, msgs, cond>> BY DEF vars
<1>2. UNCHANGED <<queue, resolvedBefore, stored, loaded, restarts, dropped, crashed, act, msgs, cond>>
  BY <1>1 DEF queueVars, dropVars, storeVars
<1>3. Types /\ Types' /\ HangInv /\ StreakInv BY DEF NotifierInv, AlertInv
<1>4. Len(msgs) \in Nat BY <1>3 DEF Types
<1>5. GrowsMsgs BY <1>2, <1>4 DEF GrowsMsgs
<1>6. KeepsSent BY <1>1, <1>3, <1>5, NoSend DEF sendVars
<1>7. LineEnded /\ KeepsLine BY <1>2, SameLine
<1>8. StreaksMove /\ OpensNone /\ \A k \in Keys : cond'[k].since <= Len(msgs) + 1
  BY <1>2, <1>3 DEF StreaksMove, OpensNone, StreakInv
<1> QED BY <1>2, <1>6, <1>7, <1>8, AlertRest

LEMMA NextAlert ==
  ASSUME Settings, NotifierInv, NotifierInv', AlertInv, Next
  PROVE  AlertInv'
<1>1. ASSUME NEW a \in Actors, NEW o,
             TryTelegram(a, o) \/ SMSInstead(a, o) \/ SendSMS(a, o) \/ FallbackSend(a, o)
      PROVE  AlertInv'
  BY <1>1, SendsAlert, FallbacksAlert
<1>2. ASSUME NEW a \in Actors,
             EnqueueTelegram(a) \/ EnqueueSMS(a) \/ Resolve(a) \/ Fallback(a) \/ ReportDropped(a)
      PROVE  AlertInv'
  BY <1>2, EnqueuesAlert, ResolveAlert, FallbacksAlert, ReportDroppedAlert
<1>3. ASSUME FlushBegin \/ FlushSkip \/ FlushRemove \/ FlushTrack \/ (\E o : FlushSend(o))
      PROVE  AlertInv'
  BY <1>3, FlushBeginAlert, FlushSkipAlert, FlushRemoveAlert, FlushTrackAlert, FlushSendAlert
<1>4. ASSUME Expire \/ SetOffline \/ (\E k \in Keys : Streak(k) \/ Clear(k)) PROVE AlertInv'
  BY <1>4, ExpireAlert, QuietAlert, ClearAlert
<1>5. ASSUME NEW ch \in Channels, NEW ok \in BOOLEAN, HangReturns(ch, ok) PROVE AlertInv'
  BY <1>5, HangReturnsAlert
<1>6. ASSUME NEW f \in flights, NEW r \in results, Settle(f, r) PROVE AlertInv'
  BY <1>6, SettleAlert
<1>7. ASSUME NEW s \in settlers, NEW r \in results, SettleFallback(s, r) PROVE AlertInv'
  BY <1>7, QuietAlert
<1>8. ASSUME EndTick \/ Checkpoint \/ Restart \/ Load PROVE AlertInv'
  BY <1>8, EndTickAlert, CheckpointAlert, RestartAlert, LoadAlert
<1>9. ASSUME (\E k \in Keys, mode \in Modes : NotifyCondition(k, mode))
             \/ (\E a \in Actors \ {"tick"}, mode \in Modes : NotifyEvent(a, mode))
      PROVE  AlertInv'
  BY <1>9, NotifyConditionAlert, NotifyEventAlert
<1> QED BY <1>1, <1>2, <1>3, <1>4, <1>5, <1>6, <1>7, <1>8, <1>9 DEF Next

\* The PROBLEM of an open condition was not given up, or is back: an invariant on top of
\* NotifierInv, in one process or with the tick alone and no SMS of their own.
THEOREM AlertInvariant == ASSUME Settings PROVE Spec => []AlertInv
<1>1. Init => AlertInv BY InitAlert
<1>2. NotifierInv /\ NotifierInv' /\ AlertInv /\ [Next]_vars => AlertInv' BY NextAlert, StutterAlert
<1> QED BY <1>1, <1>2, NotifierInvariant, PTL DEF Spec

\* Nothing is dropped in silence: a message that leaves the queue was delivered or reported, and a
\* condition is open only while its PROBLEM was delivered, is queued or is being sent, also when a push and
\* the tick change the queue between each other's steps, when an abandoned send settles late, and when a
\* process dies and the next one loads its state late.
THEOREM NothingIsSilent == ASSUME Settings PROVE Spec => []NothingSilent
<1>1. ASSUME NotifierInv, AlertInv PROVE NothingSilent
  <2>1. NothingLost /\ OpenInv /\ DOMAIN msgs = 1..Len(msgs) BY <1>1 DEF NotifierInv, AlertInv, Types
  <2>2. OpenProblemAccounted
    <3> SUFFICES ASSUME NEW k \in Keys, cond[k].open
                 PROVE  \E n \in DOMAIN msgs : ProblemOf(k, cond[k].since, n) /\ (n \in InHand \cup Queued \/ WasSent(n))
      BY DEF OpenProblemAccounted, ProblemOf
    <3>1. PICK n \in 1..Len(msgs) : ProblemOf(k, cond[k].since, n) /\ Kept(n) BY <2>1 DEF OpenInv
    <3>2. n \in InHand \cup Queued \/ WasSent(n) BY <2>1, <3>1 DEF NothingLost, Kept
    <3> QED BY <2>1, <3>1, <3>2
  <2> QED BY <2>1, <2>2 DEF NothingSilent
<1>2. NotifierInv /\ AlertInv => NothingSilent BY <1>1
<1> QED BY <1>2, NotifierInvariant, AlertInvariant, PTL

\* The condition is never left open whose PROBLEM never arrived and never will: across crashes and late loads.
THEOREM OpenProblemsAreAccounted == ASSUME Settings PROVE Spec => []OpenProblemAccounted
<1>1. NothingSilent => OpenProblemAccounted BY DEF NothingSilent
<1> QED BY <1>1, NothingIsSilent, PTL

-----------------------------------------------------------------------------
(* The RESOLVED is last.  LastInv is a third layer: of a PROBLEM whose RESOLVED was handed over, *)
(* nothing may still send an SMS.                                            *)

\* One process, in which only the tick calls the notifier.
Alone == Actors = {"tick"} /\ MaxRestarts = 0

\* Message m is the RESOLVED of message n's streak.
Resolves(m, n) == msgs[m].kind = "resolved" /\ msgs[m].key = msgs[n].key /\ msgs[m].streak = msgs[n].streak

HasEnded(n) == \E m \in 1..Len(msgs) : Resolves(m, n)

\* An actor in state r has a RESOLVED of key k in its hands that will mark the key's PROBLEMs.
Pending(r, k) ==
  /\ r.msg.n # 0 /\ r.msg.kind = "resolved" /\ r.msg.key = k
  /\ \/ r.pc \in {"telegram", "instead", "enqueue", "sms", "resolve"}
     \/ r.pc \in {"enqueueSMS", "report"} /\ r.next = "resolve"

\* A PROBLEM that ended is on the far side of its key's mark.
Marked(item) == item.kind = "problem" /\ HasEnded(item.n) => item.id < resolvedBefore[item.key]

\* What an actor in state r may still send by SMS has not ended.
LastHand(r) ==
  /\ r.msg.n # 0 /\ r.msg.kind = "problem" => ~HasEnded(r.msg.n)
  /\ r.pc \in FlushPlaces => \A j \in 1..Len(r.due) : Marked(r.due[j])
  /\ r.pc = "sending" => \A d \in r.claimed : ~HasEnded(d.n)

\* A streak that was resolved is not the current one.
StreaksEnd == \A m \in 1..Len(msgs) : msgs[m].kind = "resolved" => cond[msgs[m].key].since # msgs[m].streak

\* While the SMS of a PROBLEM hangs, its RESOLVED was not sent by SMS.
HangLast ==
  hang["sms"] # NoHang /\ msgs[hang["sms"].n].kind = "problem" =>
    \A m \in 1..Len(msgs) : Resolves(m, hang["sms"].n) => sent["sms"][m] = 0

\* No SMS of a message to come.
Unsent == \A n \in 1..MaxMsgs : n > Len(msgs) => sent["sms"][n] = 0

LastInv ==
  /\ afterEnd = {} /\ StreaksEnd /\ HangLast /\ Unsent /\ LastHand(act["tick"])
  /\ \A i \in 1..Len(queue) : Marked(queue[i]) \/ Pending(act["tick"], queue[i].key)

-----------------------------------------------------------------------------

\* Marks only move on.
MarksGrow == \A k \in Keys, x \in Nat : x < resolvedBefore[k] => x < resolvedBefore'[k]

\* The queue holds what it held, or what has not ended.
LineMarked ==
  \A i \in 1..Len(queue') : \E item \in Item :
    item = queue'[i] /\ Of(item) /\ (Marked(item) \/ Pending(act["tick"], item.key))

\* A pending RESOLVED stays so, or has marked its key's PROBLEMs.
KeepsPending(r) ==
  \A k \in Keys : Pending(act["tick"], k) =>
    Pending(r, k) \/ \A i \in 1..Len(queue') : queue'[i].key = k => queue'[i].id < resolvedBefore'[k]

\* Streaks stay, end or are new.
StreaksGo ==
  \A k \in Keys : cond'[k].since = cond[k].since \/ cond'[k].since = 0 \/ cond'[k].since > Len(msgs)

LEMMA MarkedStays ==
  ASSUME msgs' = msgs, MarksGrow, NEW item \in Item, Of(item), Marked(item)
  PROVE  Marked(item)'
<1> SUFFICES ASSUME item.kind = "problem", HasEnded(item.n)' PROVE item.id < resolvedBefore'[item.key]
  BY DEF Marked
<1>1. HasEnded(item.n) BY DEF HasEnded, Resolves
<1>2. item.id \in Nat /\ item.key \in Keys /\ item.id < resolvedBefore[item.key] BY <1>1 DEF Item, Of, Marked
<1> QED BY <1>2 DEF MarksGrow

\* A step after which the tick is in state r, and nothing new was handed over.
LEMMA LastStep ==
  ASSUME Alone, NotifierInv, NotifierInv', AlertInv, LastInv, msgs' = msgs, afterEnd' = {}, HangLast', Unsent',
         StreaksGo, MarksGrow, LineMarked, NEW r, act'["tick"] = r, KeepsPending(r), LastHand(r)'
  PROVE  LastInv'
<1>1. Types /\ Types' /\ MessageInv /\ StreakInv /\ StreaksEnd BY DEF NotifierInv, AlertInv, LastInv
<1>2. Len(msgs) \in Nat /\ cond \in Cond /\ cond' \in Cond BY <1>1 DEF Types
<1>3. StreaksEnd'
  <2> SUFFICES ASSUME NEW m \in 1..Len(msgs), msgs[m].kind = "resolved" PROVE cond'[msgs[m].key].since # msgs[m].streak
    BY DEF StreaksEnd
  <2>1. PICK k \in Keys : k = msgs[m].key BY <1>1 DEF MessageInv
  <2>2. PICK x \in 1..m : x = msgs[m].streak BY <1>1 DEF StreakInv
  <2>3. PICK y \in Nat : y = cond'[k].since BY <1>2 DEF Cond
  <2>4. CASE y = 0 \/ y > Len(msgs)
    <3>1. x # y BY <1>2, <2>4
    <3> QED BY <2>1, <2>2, <2>3, <3>1
  <2>5. CASE cond'[k].since = cond[k].since BY <1>1, <2>1, <2>5 DEF StreaksEnd
  <2> QED BY <2>3, <2>4, <2>5 DEF StreaksGo
<1>4. LastHand(act["tick"])' BY DEF LastHand
<1>5. ASSUME NEW i \in 1..Len(queue') PROVE Marked(queue[i])' \/ Pending(act["tick"], queue[i].key)'
  <2>1. PICK item \in Item : item = queue'[i] /\ Of(item) /\ (Marked(item) \/ Pending(act["tick"], item.key))
    BY DEF LineMarked
  <2>2. CASE Marked(item)
    <3>1. Marked(item)' BY <2>1, <2>2, MarkedStays
    <3> QED BY <2>1, <3>1
  <2>3. CASE Pending(act["tick"], item.key) /\ item.kind = "problem"
    <3>1. item.key \in Keys BY <2>1, <2>3 DEF Of
    <3>2. CASE Pending(r, item.key)
      <4>1. PICK k : k = item.key OBVIOUS
      <4>2. Pending(act["tick"], k)' BY <3>2, <4>1 DEF Pending
      <4> QED BY <2>1, <4>1, <4>2
    <3>3. CASE queue'[i].id < resolvedBefore'[item.key]
      <4>1. Marked(item)' BY <2>1, <3>3 DEF Marked
      <4> QED BY <2>1, <4>1
    <3> QED BY <2>1, <2>3, <3>1, <3>2, <3>3 DEF KeepsPending
  <2>4. CASE item.kind # "problem"
    <3>1. Marked(item)' BY <2>4 DEF Marked
    <3> QED BY <2>1, <3>1
  <2> QED BY <2>1, <2>2, <2>3, <2>4
<1> QED BY <1>3, <1>4, <1>5 DEF LastInv

\* A part of the queue.
LEMMA PartMarked ==
  ASSUME NotifierInv, LastInv, PartOf(queue', queue)
  PROVE  LineMarked
<1>1. queue \in Seq(Item) /\ QueueInv BY DEF NotifierInv, Types
<1> SUFFICES ASSUME NEW i \in 1..Len(queue')
             PROVE  \E item \in Item : item = queue'[i] /\ Of(item) /\ (Marked(item) \/ Pending(act["tick"], item.key))
  BY DEF LineMarked
<1>2. PICK j \in 1..Len(queue) : queue'[i] = queue[j] BY DEF PartOf
<1>3. queue[j] \in Item BY <1>1
<1>4. Of(queue[j]) /\ (Marked(queue[j]) \/ Pending(act["tick"], queue[j].key)) BY <1>1 DEF QueueInv, LastInv
<1> QED BY <1>2, <1>3, <1>4

LEMMA SameMarked ==
  ASSUME NotifierInv, LastInv, queue' = queue
  PROVE  LineMarked
<1>1. queue \in Seq(Item) BY DEF NotifierInv, Types
<1>2. PartOf(queue', queue) BY <1>1 DEF PartOf
<1> QED BY <1>2, PartMarked

\* What a step without a send keeps.
LEMMA NoSendLast ==
  ASSUME LastInv, UNCHANGED <<sendVars, msgs>>
  PROVE  afterEnd' = {} /\ HangLast' /\ Unsent'
<1>1. UNCHANGED <<hang, sent, afterEnd, msgs>> BY DEF sendVars
<1>2. afterEnd = {} /\ HangLast /\ Unsent BY DEF LastInv
<1> QED BY <1>1, <1>2 DEF HangLast, Resolves, Unsent

\* The tick that goes on with its message, or without one.
LEMMA HandLast ==
  ASSUME msgs' = msgs, NEW s, LastHand(s), NEW r, r.msg = s.msg \/ r.msg.n = 0,
         r.pc \notin FlushPlaces \cup {"sending"}
  PROVE  LastHand(r)'
  BY DEF LastHand, HasEnded, Resolves

\* The tick where it was.
LEMMA SameHand ==
  ASSUME NotifierInv, LastInv, Alone, msgs' = msgs, MarksGrow
  PROVE  \E r : r = act["tick"] /\ LastHand(r)'
<1>1. PICK r : r = act["tick"] OBVIOUS
<1>2. "tick" \in Actors BY DEF Alone
<1>3. r \in Actor /\ HoldsCopy("tick", r) BY <1>1, <1>2, HandsOf
<1>4. LastHand(r) BY <1>1 DEF LastInv
<1>5. ASSUME r.pc \in FlushPlaces, NEW j \in 1..Len(r.due) PROVE Marked(r.due[j])'
  <2>1. r.due \in Seq(Item) BY <1>3 DEF Actor
  <2>2. PICK item \in Item : item = r.due[j] BY <2>1
  <2>3. Of(item) /\ Marked(item) BY <1>3, <1>4, <1>5, <2>2 DEF HoldsCopy, LastHand
  <2>4. Marked(item)' BY <2>3, MarkedStays
  <2> QED BY <2>2, <2>4
<1>6. ASSUME NEW n PROVE HasEnded(n)' <=> HasEnded(n) BY DEF HasEnded, Resolves
<1>7. LastHand(r)' BY <1>4, <1>5, <1>6 DEF LastHand
<1> QED BY <1>1, <1>7

-----------------------------------------------------------------------------
(* Steps that move no actor *)

\* A step that moves no actor and sends nothing.
LEMMA RestLast ==
  ASSUME Alone, NotifierInv, NotifierInv', AlertInv, LastInv, UNCHANGED <<sendVars, act, msgs>>,
         StreaksGo, MarksGrow, PartOf(queue', queue)
  PROVE  LastInv'
<1>1. PICK r : r = act["tick"] /\ LastHand(r)' BY SameHand
<1>2. act'["tick"] = r /\ KeepsPending(r) BY <1>1 DEF KeepsPending
<1>3. afterEnd' = {} /\ HangLast' /\ Unsent' BY NoSendLast
<1>4. LineMarked BY PartMarked
<1> QED BY <1>1, <1>2, <1>3, <1>4, LastStep

\* A mark is set to the next number.
LEMMA MarkGrows ==
  ASSUME NotifierInv, NEW K, MarkResolved(K)
  PROVE  MarksGrow
<1>1. Types /\ MarkInv BY DEF NotifierInv
<1> SUFFICES ASSUME NEW k \in Keys, NEW x \in Nat, x < resolvedBefore[k] PROVE x < resolvedBefore'[k]
  BY DEF MarksGrow
<1>2. PICK y \in Nat : y = resolvedBefore[k] /\ y <= nextID /\ nextID \in Nat BY <1>1 DEF Types, MarkInv
<1>3. x < nextID BY <1>2
<1>4. resolvedBefore'[k] = nextID \/ resolvedBefore'[k] = resolvedBefore[k] BY DEF MarkResolved
<1> QED BY <1>3, <1>4

LEMMA RestsLast ==
  ASSUME Alone, NotifierInv, NotifierInv', AlertInv, LastInv
  PROVE  /\ SetOffline => LastInv'
         /\ \A k \in Keys : Streak(k) \/ Clear(k) => LastInv'
         /\ \A s \in settlers, r \in results : SettleFallback(s, r) => LastInv'
         /\ \A f \in flights, r \in results : Settle(f, r) => LastInv'
<1>1. Types BY DEF NotifierInv
<1>2. queue \in Seq(Item) /\ cond \in Cond /\ Len(msgs) \in Nat BY <1>1 DEF Types
<1>3. queue' = queue => PartOf(queue', queue) BY <1>2 DEF PartOf
<1>4. resolvedBefore' = resolvedBefore => MarksGrow BY DEF MarksGrow
<1>5. cond' = cond => StreaksGo BY DEF StreaksGo
<1>6. ASSUME SetOffline PROVE LastInv'
  <2>1. UNCHANGED <<sendVars, act, msgs, cond, queue, resolvedBefore>> BY <1>6 DEF SetOffline, queueVars
  <2> QED BY <1>3, <1>4, <1>5, <2>1, RestLast
<1>7. ASSUME NEW s \in settlers, NEW r \in results, SettleFallback(s, r) PROVE LastInv'
  <2>1. UNCHANGED <<sendVars, act, msgs, cond, queue, resolvedBefore>> BY <1>7 DEF SettleFallback, queueVars
  <2> QED BY <1>3, <1>4, <1>5, <2>1, RestLast
<1>8. ASSUME NEW f \in flights, NEW r \in results, Settle(f, r) PROVE LastInv'
  <2>1. /\ UNCHANGED <<sendVars, act, msgs, cond, resolvedBefore>>
        /\ queue' = IF r.ok THEN RemoveID(queue, f.id) ELSE queue
    BY <1>8 DEF Settle, DropsMessage
  <2>2. PartOf(queue', queue)
    <3>1. CASE r.ok BY <1>2, <2>1, <3>1, RemoveParts
    <3>2. CASE ~r.ok BY <1>3, <2>1, <3>2
    <3> QED BY <3>1, <3>2
  <2> QED BY <1>4, <1>5, <2>1, <2>2, RestLast
<1>9. ASSUME NEW k \in Keys, Streak(k) PROVE LastInv'
  <2>1. /\ UNCHANGED <<sendVars, act, msgs, queue, resolvedBefore>>
        /\ cond' = [cond EXCEPT ![k] = IF @ = Untracked THEN [open |-> FALSE, since |-> Len(msgs) + 1] ELSE Untracked]
    BY <1>9 DEF Streak, queueVars
  <2>2. /\ cond'[k] = Untracked \/ cond'[k] = [open |-> FALSE, since |-> Len(msgs) + 1]
        /\ \A j \in Keys : j # k => cond'[j] = cond[j]
    BY <1>2, <2>1 DEF Cond
  <2>3. cond'[k].since = 0 \/ cond'[k].since = Len(msgs) + 1 BY <2>2 DEF Untracked
  <2>4. cond'[k].since = 0 \/ cond'[k].since > Len(msgs) BY <1>2, <2>3
  <2>5. StreaksGo BY <2>2, <2>4 DEF StreaksGo
  <2> QED BY <1>3, <1>4, <2>1, <2>5, RestLast
<1>10. ASSUME NEW k \in Keys, Clear(k) PROVE LastInv'
  <2>1. PICK K : K = {k} \cap smsProblems OBVIOUS
  <2>2. MarkResolved(K) /\ cond' = [cond EXCEPT ![k] = Untracked] /\ UNCHANGED <<sendVars, act, msgs>>
    BY <1>10, <2>1 DEF Clear, ForgetEnded
  <2>3. cond'[k] = Untracked /\ Untracked.since = 0 /\ \A j \in Keys : j # k => cond'[j] = cond[j]
    BY <1>2, <2>2 DEF Cond, Untracked
  <2>4. StreaksGo BY <2>3 DEF StreaksGo
  <2>5. MarksGrow BY <2>2, MarkGrows
  <2>6. queue' = queue BY <2>2 DEF MarkResolved
  <2> QED BY <1>3, <2>2, <2>4, <2>5, <2>6, RestLast
<1> QED BY <1>6, <1>7, <1>8, <1>9, <1>10

\* A delivery on a channel.
LEMMA DeliveredFacts ==
  ASSUME Types, NEW ch \in Channels, NEW n \in 1..Len(msgs), Delivered(ch, n),
         ch = "sms" /\ msgs[n].kind = "problem" => \A m \in 1..Len(msgs) : Resolves(m, n) => sent["sms"][m] = 0
  PROVE  /\ afterEnd' = afterEnd /\ (ch # "sms" => sent'["sms"] = sent["sms"])
         /\ \A m \in 1..MaxMsgs : m # n => sent'["sms"][m] = sent["sms"][m]
<1>1. sent \in [Channels -> [1..MaxMsgs -> Nat]] /\ msgs \in Seq(Message) /\ DOMAIN msgs = 1..Len(msgs) BY DEF Types
<1>2. ~(/\ ch = "sms" /\ msgs[n].kind = "problem"
        /\ \E m \in DOMAIN msgs : /\ msgs[m].kind = "resolved" /\ sent["sms"][m] > 0
                                  /\ msgs[m].key = msgs[n].key /\ msgs[m].streak = msgs[n].streak)
  <2> SUFFICES ASSUME ch = "sms", msgs[n].kind = "problem", NEW m \in DOMAIN msgs,
                      msgs[m].kind = "resolved", sent["sms"][m] > 0,
                      msgs[m].key = msgs[n].key, msgs[m].streak = msgs[n].streak
               PROVE  FALSE
    OBVIOUS
  <2>1. Resolves(m, n) BY DEF Resolves
  <2>2. sent["sms"][m] = 0 BY <1>1, <2>1
  <2> QED BY <2>2
<1>3. afterEnd' = afterEnd BY <1>2 DEF Delivered
<1>4. ASSUME ch # "sms" PROVE sent'["sms"] = sent["sms"] BY <1>1, <1>4 DEF Delivered, Channels
<1>5. ASSUME NEW m \in 1..MaxMsgs, m # n PROVE sent'["sms"][m] = sent["sms"][m]
  BY <1>1, <1>5 DEF Delivered, Channels
<1> QED BY <1>3, <1>4, <1>5

\* A delivery of a message that was handed over.
LEMMA LaterUnsent ==
  ASSUME LastInv, msgs' = msgs, NEW n \in 1..Len(msgs), Len(msgs) \in Nat,
         \A m \in 1..MaxMsgs : m # n => sent'["sms"][m] = sent["sms"][m]
  PROVE  Unsent'
<1> SUFFICES ASSUME NEW m \in 1..MaxMsgs, m > Len(msgs) PROVE sent'["sms"][m] = 0
  BY DEF Unsent
<1>1. MaxMsgs \in Nat BY NotifierAssumption
<1>2. m # n BY <1>1
<1>3. sent["sms"][m] = 0 BY DEF LastInv, Unsent
<1> QED BY <1>2, <1>3

\* An abandoned send returns: no RESOLVED overtook it.
LEMMA HangReturnsLast ==
  ASSUME Alone, NotifierInv, NotifierInv', AlertInv, LastInv, NEW ch \in Channels, NEW ok \in BOOLEAN, HangReturns(ch, ok)
  PROVE  LastInv'
<1>1. Types /\ HangInv /\ HangLast /\ afterEnd = {} BY DEF NotifierInv, LastInv
<1>2. /\ hang[ch] # NoHang /\ hang' = [hang EXCEPT ![ch] = NoHang]
      /\ UNCHANGED <<queueVars, cond, act, msgs>>
  BY DEF HangReturns
<1>3. hang \in [Channels -> [tok : Nat, n : Nat]] /\ queue \in Seq(Item) /\ "sms" \in Channels BY <1>1 DEF Types, Channels
<1>4. PICK n : n = hang[ch].n OBVIOUS
<1>5. n \in 1..Len(msgs) BY <1>1, <1>2, <1>4 DEF HangInv
<1>6. ch = "sms" /\ msgs[n].kind = "problem" => \A m \in 1..Len(msgs) : Resolves(m, n) => sent["sms"][m] = 0
  BY <1>1, <1>2, <1>4 DEF HangLast
<1>7. /\ afterEnd' = {} /\ (ch # "sms" => sent'["sms"] = sent["sms"])
      /\ \A m \in 1..MaxMsgs : m # n => sent'["sms"][m] = sent["sms"][m]
  <2>1. CASE ok
    <3>1. Delivered(ch, n) BY <1>4, <2>1 DEF HangReturns
    <3> QED BY <1>1, <1>5, <1>6, <3>1, DeliveredFacts
  <2>2. CASE ~ok BY <1>1, <2>2 DEF HangReturns
  <2> QED BY <2>1, <2>2
<1>8. HangLast'
  <2>1. CASE ch = "sms"
    <3>1. hang'["sms"] = NoHang BY <1>2, <1>3, <2>1
    <3> QED BY <3>1 DEF HangLast
  <2>2. CASE ch # "sms"
    <3>1. hang'["sms"] = hang["sms"] BY <1>2, <1>3, <2>2
    <3> QED BY <1>1, <1>2, <1>7, <2>2, <3>1 DEF HangLast, Resolves
  <2> QED BY <2>1, <2>2
<1>9. UNCHANGED <<queue, resolvedBefore>> BY <1>2 DEF queueVars
<1>10. StreaksGo /\ MarksGrow BY <1>2, <1>9 DEF StreaksGo, MarksGrow
<1>11. LineMarked BY <1>9, SameMarked
<1>12. PICK r : r = act["tick"] /\ LastHand(r)' BY <1>2, <1>10, SameHand
<1>13. act'["tick"] = r /\ KeepsPending(r) BY <1>2, <1>12 DEF KeepsPending
<1>14. Unsent'
  <2>1. Len(msgs) \in Nat BY <1>1 DEF Types
  <2> QED BY <1>2, <1>5, <1>7, <2>1, LaterUnsent
<1> QED BY <1>2, <1>7, <1>8, <1>10, <1>11, <1>12, <1>13, <1>14, LastStep

-----------------------------------------------------------------------------
(* Sends of the tick's message *)

\* The channel's side of a send.
LEMMA SendLast ==
  ASSUME NotifierInv, LastInv, NEW ch \in Channels, NEW n \in 1..Len(msgs), NEW o, Send(ch, n, o), msgs' = msgs,
         ch = "sms" /\ msgs[n].kind = "problem" => ~HasEnded(n)
  PROVE  afterEnd' = {} /\ HangLast' /\ Unsent'
<1>1. Types /\ HangLast /\ afterEnd = {} /\ Unsent BY DEF NotifierInv, LastInv
<1>7. sent' = sent => Unsent' BY <1>1 DEF Unsent
<1>2. hang \in [Channels -> [tok : Nat, n : Nat]] /\ "sms" \in Channels BY <1>1 DEF Types, Channels
<1>3. ch = "sms" /\ msgs[n].kind = "problem" => \A m \in 1..Len(msgs) : ~Resolves(m, n) BY DEF HasEnded
<1>4. CASE o = "ok"
  <2>1. hang[ch] = NoHang /\ Delivered(ch, n) /\ hang' = hang BY <1>4 DEF Send, Outcomes
  <2>2. /\ afterEnd' = {} /\ (ch # "sms" => sent'["sms"] = sent["sms"])
        /\ \A m \in 1..MaxMsgs : m # n => sent'["sms"][m] = sent["sms"][m]
    BY <1>1, <1>3, <2>1, DeliveredFacts
  <2>3. HangLast' BY <1>1, <2>1, <2>2 DEF HangLast, Resolves
  <2>4. Len(msgs) \in Nat BY <1>1 DEF Types
  <2>5. Unsent' BY <2>2, <2>4, LaterUnsent
  <2> QED BY <2>2, <2>3, <2>5
<1>5. CASE o = "abandoned"
  <2>1. /\ UNCHANGED <<sent, afterEnd>> /\ hang' = [hang EXCEPT ![ch] = [tok |-> Token, n |-> n]]
    BY <1>5 DEF Send
  <2>2. CASE ch = "sms"
    <3>1. hang'["sms"].n = n BY <1>2, <2>1, <2>2
    <3>2. \A m \in 1..Len(msgs) : Resolves(m, n)' <=> Resolves(m, n) BY DEF Resolves
    <3>3. HangLast' BY <1>3, <2>2, <3>1, <3>2 DEF HangLast
    <3> QED BY <1>1, <1>7, <2>1, <3>3
  <2>3. CASE ch # "sms"
    <3>1. hang'["sms"] = hang["sms"] BY <1>2, <2>1, <2>3
    <3> QED BY <1>1, <1>7, <2>1, <3>1 DEF HangLast, Resolves
  <2> QED BY <2>2, <2>3
<1>6. CASE o # "ok" /\ o # "abandoned"
  <2>1. UNCHANGED <<sent, afterEnd, hang>> BY <1>6 DEF Send
  <2> QED BY <1>1, <1>7, <2>1 DEF HangLast, Resolves
<1> QED BY <1>4, <1>5, <1>6

\* A step of the tick that leaves the queue, the marks and the conditions alone.
LEMMA TalkLast ==
  ASSUME Alone, NotifierInv, NotifierInv', AlertInv, LastInv, UNCHANGED <<queue, resolvedBefore, cond, msgs>>,
         afterEnd' = {}, HangLast', Unsent', NEW r, Step("tick", r), KeepsPending(r), LastHand(r)'
  PROVE  LastInv'
<1>1. "tick" \in Actors /\ Types /\ Types' BY DEF Alone, NotifierInv
<1>2. act'["tick"] = r BY <1>1, StepIs DEF Moved
<1>3. StreaksGo /\ MarksGrow BY DEF StreaksGo, MarksGrow
<1>4. LineMarked BY SameMarked
<1> QED BY <1>2, <1>3, <1>4, LastStep

\* Telegram, the SMS in its place, and an SMS of its own.
LEMMA SendsLast ==
  ASSUME Alone, NotifierInv, NotifierInv', AlertInv, LastInv, NEW o
  PROVE  TryTelegram("tick", o) \/ SMSInstead("tick", o) \/ SendSMS("tick", o) => LastInv'
<1>0. "tick" \in Actors BY DEF Alone
<1>1. PICK s : s = act["tick"] OBVIOUS
<1>2. PICK n : n = act["tick"].msg.n OBVIOUS
<1>3. s \in Actor /\ HoldsMessage("tick", s) /\ LastHand(s) BY <1>0, <1>1, HandsOf DEF LastInv
<1>4. s.pc \in Early \cup {"also"} => n \in 1..Len(msgs) /\ n # 0 /\ msgs[n] = s.msg
  BY <1>1, <1>2, <1>3 DEF HoldsMessage, Early
<1>5. "tlg" \in Channels /\ "sms" \in Channels BY DEF Channels
<1>6. s.pc \in Early \cup {"also"} /\ msgs[n].kind = "problem" => ~HasEnded(n) BY <1>1, <1>2, <1>3, <1>4 DEF LastHand
<1>7. PICK tok : tok = IF o = "abandoned" THEN Token ELSE 0 OBVIOUS
<1>8. ASSUME TryTelegram("tick", o) PROVE LastInv'
  <2>1. PICK pc : /\ pc = CASE o = "ok" -> AfterSend(s.msg) [] o = "late" -> "enqueue"
                            [] OTHER -> IF s.msg.mode = "tlg" THEN "enqueue" ELSE "instead"
    OBVIOUS
  <2>2. PICK r : r = [s EXCEPT !.pc = pc, !.tok = tok] OBVIOUS
  <2>3. /\ s.pc = "telegram" /\ Send("tlg", n, o) /\ Step("tick", r) /\ UNCHANGED <<queueVars, cond, msgs>>
    BY <1>1, <1>2, <1>7, <1>8, <2>1, <2>2 DEF TryTelegram, At
  <2>4. pc \in {"instead", "enqueue", "resolve"} \/ (pc = "fallback" /\ s.msg.kind # "resolved")
    <3>1. CASE o = "ok" BY <2>1, <3>1 DEF AfterSend
    <3>2. CASE o = "late" BY <2>1, <3>2
    <3>3. CASE o # "ok" /\ o # "late" BY <2>1, <3>3
    <3> QED BY <3>1, <3>2, <3>3
  <2>5. r.pc = pc /\ r.msg = s.msg BY <1>3, <2>2 DEF Actor
  <2>6. LastHand(r)' BY <1>3, <2>3, <2>4, <2>5, HandLast DEF FlushPlaces
  <2>7. KeepsPending(r) BY <1>1, <2>4, <2>5 DEF KeepsPending, Pending
  <2>8. afterEnd' = {} /\ HangLast' /\ Unsent' BY <1>4, <1>5, <1>6, <2>3, SendLast DEF Early
  <2>9. UNCHANGED <<queue, resolvedBefore, cond, msgs>> BY <2>3 DEF queueVars
  <2> QED BY <2>3, <2>6, <2>7, <2>8, <2>9, TalkLast
<1>9. ASSUME SMSInstead("tick", o) PROVE LastInv'
  <2>1. PICK pc : pc = IF o = "ok" THEN AfterSend(s.msg) ELSE "enqueue" OBVIOUS
  <2>2. PICK via : via = (o = "ok") OBVIOUS
  <2>3. PICK r : r = [s EXCEPT !.pc = pc, !.via = via] OBVIOUS
  <2>4. /\ s.pc = "instead" /\ Send("sms", n, o) /\ Step("tick", r) /\ UNCHANGED <<queueVars, cond, msgs>>
    BY <1>1, <1>2, <1>9, <2>1, <2>2, <2>3 DEF SMSInstead, At
  <2>5. r.pc = pc /\ r.msg = s.msg BY <1>3, <2>3 DEF Actor
  <2>6. pc \in {"enqueue", "resolve"} \/ (pc = "fallback" /\ s.msg.kind # "resolved") BY <2>1 DEF AfterSend
  <2>7. LastHand(r)' BY <1>3, <2>4, <2>5, <2>6, HandLast DEF FlushPlaces
  <2>8. KeepsPending(r) BY <1>1, <2>5, <2>6 DEF KeepsPending, Pending
  <2>9. afterEnd' = {} /\ HangLast' /\ Unsent' BY <1>4, <1>5, <1>6, <2>4, SendLast DEF Early
  <2>10. UNCHANGED <<queue, resolvedBefore, cond, msgs>> BY <2>4 DEF queueVars
  <2> QED BY <2>4, <2>7, <2>8, <2>9, <2>10, TalkLast
<1>10. ASSUME SendSMS("tick", o) PROVE LastInv'
  <2>1. PICK next : next = IF s.pc = "sms" THEN AfterSend(s.msg) ELSE "fallback" OBVIOUS
  <2>2. PICK pc : pc = IF o = "ok" THEN next ELSE "enqueueSMS" OBVIOUS
  <2>3. PICK via : via = (s.pc = "sms" \/ s.via) OBVIOUS
  <2>4. PICK r : r = [s EXCEPT !.pc = pc, !.via = via, !.tok = tok, !.next = next] OBVIOUS
  <2>5. /\ s.pc \in {"sms", "also"} /\ Send("sms", n, o) /\ Step("tick", r) /\ UNCHANGED <<queueVars, cond, msgs>>
    BY <1>1, <1>2, <1>7, <1>10, <2>1, <2>2, <2>3, <2>4 DEF SendSMS, At
  <2>6. r.pc = pc /\ r.msg = s.msg /\ r.next = next BY <1>3, <2>4 DEF Actor
  <2>7. pc \in {"enqueueSMS", "resolve", "fallback"} BY <2>1, <2>2 DEF AfterSend
  <2>8. LastHand(r)' BY <1>3, <2>5, <2>6, <2>7, HandLast DEF FlushPlaces
  <2>9. KeepsPending(r)
    <3>1. s.pc = "sms" /\ s.msg.kind = "resolved" => next = "resolve" BY <2>1 DEF AfterSend
    <3>2. \A k : Pending(s, k) => Pending(r, k) BY <2>2, <2>5, <2>6, <3>1 DEF Pending
    <3> QED BY <1>1, <3>2 DEF KeepsPending
  <2>10. afterEnd' = {} /\ HangLast' /\ Unsent' BY <1>4, <1>5, <1>6, <2>5, SendLast DEF Early
  <2>11. UNCHANGED <<queue, resolvedBefore, cond, msgs>> BY <2>5 DEF queueVars
  <2> QED BY <2>5, <2>8, <2>9, <2>10, <2>11, TalkLast
<1> QED BY <1>8, <1>9, <1>10

\* A step of the tick that sends nothing.
LEMMA MoveLast ==
  ASSUME Alone, NotifierInv, NotifierInv', AlertInv, LastInv, UNCHANGED <<sendVars, msgs>>,
         StreaksGo, MarksGrow, LineMarked, NEW r, Step("tick", r), KeepsPending(r), LastHand(r)'
  PROVE  LastInv'
<1>1. "tick" \in Actors /\ Types /\ Types' BY DEF Alone, NotifierInv
<1>2. act'["tick"] = r BY <1>1, StepIs DEF Moved
<1>3. afterEnd' = {} /\ HangLast' /\ Unsent' BY NoSendLast
<1> QED BY <1>2, <1>3, LastStep

\* Nothing is pending at these places.
LEMMA NonePending ==
  ASSUME act["tick"].pc \in {"idle", "fallback", "sending", "also"} \cup FlushPlaces
  PROVE  (\A k : ~Pending(act["tick"], k)) /\ \A r : KeepsPending(r)
<1>1. \A k : ~Pending(act["tick"], k) BY DEF Pending, FlushPlaces
<1> QED BY <1>1 DEF KeepsPending

\* The fallback, and an SMS of it.
LEMMA FallbacksLast ==
  ASSUME Alone, NotifierInv, NotifierInv', AlertInv, LastInv, NEW o
  PROVE  Fallback("tick") \/ FallbackSend("tick", o) => LastInv'
<1>0. "tick" \in Actors BY DEF Alone
<1>1. PICK s : s = act["tick"] OBVIOUS
<1>2. s \in Actor /\ HoldsMessage("tick", s) /\ LastHand(s) /\ (s.pc \notin Holding => s.msg.n = 0)
  BY <1>0, <1>1, HandsOf DEF LastInv
<1>3. Types /\ QueueInv BY DEF NotifierInv
<1>4. Idle \in Actor /\ Idle.pc = "idle" /\ Idle.msg.n = 0 BY IdleFacts
<1>5. ASSUME Fallback("tick") PROVE LastInv'
  <2>1. PICK due : due = {item \in Range(queue) : failing /\ FallbackDueItem(item)} OBVIOUS
  <2>2. PICK r : r = IF due = {} THEN Idle ELSE [Idle EXCEPT !.pc = "sending", !.claimed = due] OBVIOUS
  <2>3. /\ act["tick"].pc = "fallback" /\ Step("tick", r) /\ UNCHANGED <<queueVars, sendVars, cond, msgs>>
    BY <1>5, <2>1, <2>2 DEF Fallback, At
  <2>4. queue' = queue /\ resolvedBefore' = resolvedBefore BY <2>3 DEF queueVars
  <2>5. (\A k : ~Pending(act["tick"], k)) /\ KeepsPending(r) BY <2>3, NonePending
  <2>6. ASSUME NEW d \in due PROVE ~HasEnded(d.n)
    <3>1. queue \in Seq(Item) /\ DOMAIN queue = 1..Len(queue) /\ resolvedBefore \in [Keys -> Nat] BY <1>3 DEF Types
    <3>2. PICK i \in 1..Len(queue) : d = queue[i] BY <2>1, <2>6, <3>1 DEF Range
    <3>3. d \in Item /\ Of(d) /\ Marked(d) BY <1>3, <2>5, <3>1, <3>2 DEF QueueInv, LastInv
    <3>4. d.kind = "problem" /\ d.id >= resolvedBefore[d.key] BY <2>1, <2>6 DEF FallbackDueItem
    <3>5. d.id \in Nat /\ d.key \in Keys BY <3>3, <3>4 DEF Item, Of
    <3>6. ~(d.id < resolvedBefore[d.key]) BY <3>1, <3>4, <3>5
    <3> QED BY <3>3, <3>4, <3>6 DEF Marked
  <2>7. LastHand(r)'
    <3>1. CASE due = {} BY <1>4, <2>2, <3>1 DEF LastHand, FlushPlaces
    <3>2. CASE due # {}
      <4>1. r = [Idle EXCEPT !.pc = "sending", !.claimed = due] BY <2>2, <3>2
      <4>2. r.pc = "sending" /\ r.msg = Idle.msg /\ r.claimed = due BY <1>4, <4>1 DEF Actor
      <4>3. \A d \in due : ~HasEnded(d.n)' BY <2>3, <2>6 DEF HasEnded, Resolves
      <4> QED BY <1>4, <4>2, <4>3 DEF LastHand, FlushPlaces
    <3> QED BY <3>1, <3>2
  <2>8. StreaksGo /\ MarksGrow BY <2>3, <2>4 DEF StreaksGo, MarksGrow
  <2>9. LineMarked BY <2>4, SameMarked
  <2> QED BY <2>3, <2>5, <2>7, <2>8, <2>9, MoveLast
<1>6. ASSUME FallbackSend("tick", o) PROVE LastInv'
  <2>1. s.pc = "sending" /\ UNCHANGED <<queueVars, cond, msgs>> BY <1>1, <1>6 DEF FallbackSend, At
  <2>2. s.msg.n = 0 BY <1>2, <2>1 DEF Holding
  <2>3. PICK item \in s.claimed :
          /\ Send("sms", item.n, o)
          /\ Step("tick", IF o = "ok" /\ s.claimed \ {item} # {} THEN [s EXCEPT !.claimed = s.claimed \ {item}] ELSE Idle)
    BY <1>1, <1>6 DEF FallbackSend
  <2>4. PICK r : r = IF o = "ok" /\ s.claimed \ {item} # {} THEN [s EXCEPT !.claimed = s.claimed \ {item}] ELSE Idle
    OBVIOUS
  <2>5. PICK n : n = item.n OBVIOUS
  <2>6. n \in 1..Len(msgs) /\ ~HasEnded(n) BY <1>2, <2>1, <2>3, <2>5 DEF HoldsMessage, Of, LastHand
  <2>7. LastHand(r)'
    <3>1. CASE o = "ok" /\ s.claimed \ {item} # {}
      <4>1. PICK rest : rest = s.claimed \ {item} OBVIOUS
      <4>2. r = [s EXCEPT !.claimed = rest] BY <2>4, <3>1, <4>1
      <4>3. r.pc = s.pc /\ r.msg = s.msg /\ r.claimed = rest BY <1>2, <4>2 DEF Actor
      <4>4. \A d \in rest : ~HasEnded(d.n) BY <1>2, <2>1, <4>1 DEF LastHand
      <4>5. \A d \in rest : ~HasEnded(d.n)' BY <2>1, <4>4 DEF HasEnded, Resolves
      <4> QED BY <2>1, <2>2, <4>3, <4>5 DEF LastHand, FlushPlaces
    <3>2. CASE ~(o = "ok" /\ s.claimed \ {item} # {}) BY <1>4, <2>4, <3>2 DEF LastHand, FlushPlaces
    <3> QED BY <3>1, <3>2
  <2>8. Step("tick", r) /\ Send("sms", n, o) /\ "sms" \in Channels BY <2>3, <2>4, <2>5 DEF Channels
  <2>9. afterEnd' = {} /\ HangLast' /\ Unsent' BY <2>1, <2>6, <2>8, SendLast
  <2>10. UNCHANGED <<queue, resolvedBefore, cond, msgs>> BY <2>1 DEF queueVars
  <2>11. KeepsPending(r) BY <1>1, <2>1, NonePending
  <2> QED BY <2>7, <2>8, <2>9, <2>10, <2>11, TalkLast
<1> QED BY <1>5, <1>6

\* A RESOLVED marks the PROBLEMs of its key.
LEMMA ResolveLast ==
  ASSUME Alone, NotifierInv, NotifierInv', AlertInv, LastInv, Resolve("tick")
  PROVE  LastInv'
<1>0. "tick" \in Actors /\ Types /\ QueueInv BY DEF Alone, NotifierInv
<1>1. PICK s : s = act["tick"] OBVIOUS
<1>2. s \in Actor /\ HoldsMessage("tick", s) /\ LastHand(s) BY <1>0, <1>1, HandsOf DEF LastInv
<1>3. PICK pc \in {"also", "fallback"} : pc = IF AlsoBySMS("tick") THEN "also" ELSE "fallback" OBVIOUS
<1>4. PICK r : r = [s EXCEPT !.pc = pc] OBVIOUS
<1>5. PICK K : K = {s.msg.key} OBVIOUS
<1>6. /\ s.pc = "resolve" /\ MarkResolved(K) /\ Step("tick", r) /\ UNCHANGED <<sendVars, cond, msgs>>
  BY <1>1, <1>3, <1>4, <1>5 DEF Resolve, At
<1>7. r.pc = pc /\ r.msg = s.msg BY <1>2, <1>4 DEF Actor
<1>8. LastHand(r)' BY <1>2, <1>3, <1>6, <1>7, HandLast DEF FlushPlaces
<1>9. queue' = queue /\ \A k \in Keys : k \in K => resolvedBefore'[k] = nextID BY <1>6 DEF MarkResolved
<1>10. KeepsPending(r)
  <2>1. ASSUME NEW k \in Keys, Pending(act["tick"], k), NEW i \in 1..Len(queue) PROVE queue[i].id < resolvedBefore'[k]
    <3>1. k \in K BY <1>1, <1>5, <2>1 DEF Pending
    <3>2. queue[i].id < nextID BY <1>0 DEF QueueInv
    <3> QED BY <1>9, <3>1, <3>2
  <2> QED BY <1>9, <2>1 DEF KeepsPending
<1>11. StreaksGo BY <1>6 DEF StreaksGo
<1>12. MarksGrow BY <1>6, MarkGrows
<1>13. LineMarked BY <1>9, SameMarked
<1> QED BY <1>6, <1>8, <1>10, <1>11, <1>12, <1>13, MoveLast

\* The end of a tick saves nothing in the last process.
LEMMA EndTickLast ==
  ASSUME Alone, NotifierInv, NotifierInv', AlertInv, LastInv, EndTick
  PROVE  LastInv'
<1>1. PICK K : K = {k \in Keys : cond[k] = Untracked} \cap smsProblems OBVIOUS
<1>2. ~(restarts < MaxRestarts)
  <2>1. restarts \in Nat BY DEF AlertInv
  <2> QED BY <2>1 DEF Alone
<1>3. /\ MarkResolved(K) /\ act["tick"].pc = "idle" /\ Step("tick", Idle) /\ UNCHANGED <<sendVars, cond, msgs>>
  BY <1>1, <1>2 DEF EndTick, ForgetEnded, At
<1>4. PICK r : r = Idle OBVIOUS
<1>5. LastHand(r)' BY <1>4, IdleFacts DEF LastHand, FlushPlaces
<1>6. KeepsPending(r) BY <1>3, NonePending
<1>7. queue' = queue BY <1>3 DEF MarkResolved
<1>8. StreaksGo BY <1>3 DEF StreaksGo
<1>9. MarksGrow BY <1>3, MarkGrows
<1>10. LineMarked BY <1>7, SameMarked
<1> QED BY <1>3, <1>4, <1>5, <1>6, <1>8, <1>9, <1>10, MoveLast

\* Without restarts nothing is saved or loaded.
LEMMA NoStoreLast ==
  ASSUME Alone, NotifierInv, AlertInv
  PROVE  ~Checkpoint /\ ~Restart /\ ~Load
<1>1. restarts \in Nat /\ loaded /\ MaxRestarts = 0 /\ "tick" \in Actors BY DEF AlertInv, Alone
<1>2. ~Load /\ ~Restart BY <1>1 DEF Load, Restart
<1>3. HandInv("tick", act["tick"]) BY <1>1 DEF AlertInv
<1>4. ~Checkpoint BY <1>1, <1>3 DEF Checkpoint, At, HandInv, Savable
<1> QED BY <1>2, <1>4

-----------------------------------------------------------------------------
(* Flush, Expire and the queue *)

\* Flush goes on with the rest of its copy.
LEMMA FlushingLast ==
  ASSUME UNCHANGED <<msgs, resolvedBefore>>, NEW due \in Seq(Item), due # <<>>,
         \A j \in 1..Len(due) : Marked(due[j]), NEW blocked, NEW r, r = Flushing(Tail(due), blocked)
  PROVE  LastHand(r)'
<1>1. /\ Tail(due) \in Seq(Item) /\ Len(Tail(due)) = Len(due) - 1 /\ Len(due) \in Nat /\ Len(due) # 0
      /\ \A j \in 1..(Len(due) - 1) : Tail(due)[j] = due[j + 1]
  OBVIOUS
<1>2. Idle \in Actor /\ Idle.msg.n = 0 BY IdleFacts
<1>3. CASE Tail(due) = <<>>
  <2>1. r = [Idle EXCEPT !.pc = "fallback"] BY <1>3 DEF Flushing
  <2>2. r.pc = "fallback" /\ r.msg = Idle.msg BY <1>2, <2>1 DEF Actor
  <2> QED BY <1>2, <2>2 DEF LastHand, FlushPlaces
<1>4. CASE Tail(due) # <<>>
  <2>1. PICK rest : rest = Tail(due) OBVIOUS
  <2>2. r = [Idle EXCEPT !.pc = "flush", !.due = rest, !.blocked = blocked] BY <1>4, <2>1 DEF Flushing
  <2>3. r.pc = "flush" /\ r.msg = Idle.msg /\ r.due = rest BY <1>2, <2>2 DEF Actor
  <2>4. ASSUME NEW j \in 1..Len(rest) PROVE Marked(rest[j])'
    <3>1. j \in 1..(Len(due) - 1) /\ j + 1 \in 1..Len(due) BY <1>1, <2>1
    <3>2. PICK k \in 1..Len(due) : rest[j] = due[k] BY <1>1, <2>1, <3>1
    <3>3. Marked(due[k]) BY <3>2
    <3> QED BY <3>2, <3>3 DEF Marked, HasEnded, Resolves
  <2> QED BY <1>2, <2>3, <2>4 DEF LastHand
<1> QED BY <1>3, <1>4

\* A tick that flushes.
LEMMA FlushMarked ==
  ASSUME NotifierInv, LastInv, NEW s, s = act["tick"], s.pc \in FlushPlaces
  PROVE  (\A j \in 1..Len(s.due) : Marked(s.due[j])) /\ \A r : KeepsPending(r)
<1>1. LastHand(s) BY DEF LastInv
<1> QED BY <1>1, NonePending DEF LastHand

\* Flush's copy of the queue, ...
LEMMA FlushBeginLast ==
  ASSUME Alone, NotifierInv, NotifierInv', AlertInv, LastInv, FlushBegin
  PROVE  LastInv'
<1>1. Types /\ "tick" \in Actors BY DEF NotifierInv, Alone
<1>2. queue \in Seq(Item) BY <1>1 DEF Types
<1>3. PICK blocked : blocked = IF offline THEN {"tlg"} ELSE {} OBVIOUS
<1>4. PICK r : r = [Idle EXCEPT !.pc = "flush", !.due = queue, !.blocked = blocked] OBVIOUS
<1>5. act["tick"].pc = "idle" /\ Step("tick", r) /\ UNCHANGED <<queueVars, sendVars, cond, msgs>>
  BY <1>3, <1>4 DEF FlushBegin, At
<1>6. Idle \in Actor /\ Idle.msg.n = 0 BY IdleFacts
<1>7. r.pc = "flush" /\ r.msg = Idle.msg /\ r.due = queue BY <1>4, <1>6 DEF Actor
<1>8. queue' = queue /\ resolvedBefore' = resolvedBefore BY <1>5 DEF queueVars
<1>9. (\A k : ~Pending(act["tick"], k)) /\ KeepsPending(r) BY <1>5, NonePending
<1>10. ASSUME NEW j \in 1..Len(r.due) PROVE Marked(r.due[j])'
  <2>1. PICK item : item = queue[j] OBVIOUS
  <2>2. Marked(item) BY <1>7, <1>9, <2>1 DEF LastInv
  <2>3. Marked(item)' BY <1>5, <1>8, <2>2 DEF Marked, HasEnded, Resolves
  <2>4. r.due[j] = item BY <1>7, <2>1
  <2> QED BY <2>3, <2>4
<1>11. LastHand(r)' BY <1>6, <1>7, <1>10 DEF LastHand
<1>12. StreaksGo /\ MarksGrow BY <1>5, <1>8 DEF StreaksGo, MarksGrow
<1>13. LineMarked BY <1>8, SameMarked
<1> QED BY <1>5, <1>9, <1>11, <1>12, <1>13, MoveLast

\* ... a send of it: an SMS of a PROBLEM that ended is stale, ...
LEMMA FlushSendLast ==
  ASSUME Alone, NotifierInv, NotifierInv', AlertInv, LastInv, NEW o, FlushSend(o)
  PROVE  LastInv'
<1>1. PICK s : s = act["tick"] OBVIOUS
<1>2. s.pc = "flush" /\ s.pc \in FlushPlaces BY <1>1 DEF FlushSend, At, FlushPlaces
<1>3. /\ s \in Actor /\ Head(s.due) = s.due[1] /\ s.due[1] \in Item /\ s.due[1].n \in 1..Len(msgs)
      /\ 1 \in 1..Len(s.due) /\ s.msg.n = 0 /\ Copied(s.due)
  BY <1>1, <1>2, FlushHands
<1>4. (\A j \in 1..Len(s.due) : Marked(s.due[j])) /\ \A r : KeepsPending(r) BY <1>1, <1>2, FlushMarked
<1>5. PICK item \in Item : item = s.due[1] BY <1>3
<1>6. PICK n \in 1..Len(msgs) : n = item.n BY <1>3, <1>5
<1>7. PICK ch \in Channels : ch = item.ch BY <1>5 DEF Item
<1>8. PICK tok : tok = IF o = "abandoned" THEN Token ELSE 0 OBVIOUS
<1>9. PICK pc \in {"flushed", "unflushed"} : pc = IF o = "ok" THEN "flushed" ELSE "unflushed" OBVIOUS
<1>10. PICK r : r = [s EXCEPT !.pc = pc, !.tok = tok] OBVIOUS
<1>11. /\ ~StaleSMSProblem(item) /\ Send(ch, n, o) /\ Step("tick", r) /\ UNCHANGED <<queueVars, cond, msgs>>
  BY <1>1, <1>3, <1>5, <1>6, <1>7, <1>8, <1>9, <1>10 DEF FlushSend
<1>12. r.pc = pc /\ r.msg = s.msg /\ r.due = s.due BY <1>3, <1>10 DEF Actor
<1>13. UNCHANGED <<queue, resolvedBefore, cond, msgs>> BY <1>11 DEF queueVars
<1>14. LastHand(r)'
  <2>1. ASSUME NEW j \in 1..Len(r.due) PROVE Marked(r.due[j])'
    <3>1. Marked(s.due[j]) BY <1>4, <1>12
    <3> QED BY <1>12, <1>13, <3>1 DEF Marked, HasEnded, Resolves
  <2> QED BY <1>3, <1>12, <2>1 DEF LastHand
<1>15. ch = "sms" /\ msgs[n].kind = "problem" => ~HasEnded(n)
  <2> SUFFICES ASSUME ch = "sms", msgs[n].kind = "problem", HasEnded(n) PROVE FALSE
    OBVIOUS
  <2>1. Of(item) /\ Marked(item) BY <1>3, <1>4, <1>5 DEF Copied
  <2>2. item.kind = "problem" BY <1>6, <2>1 DEF Of
  <2>3. item.id < resolvedBefore[item.key] BY <1>6, <2>1, <2>2 DEF Marked
  <2> QED BY <1>7, <1>11, <2>2, <2>3 DEF StaleSMSProblem
<1>16. afterEnd' = {} /\ HangLast' /\ Unsent' BY <1>11, <1>15, SendLast
<1> QED BY <1>4, <1>11, <1>13, <1>14, <1>16, TalkLast

\* ... and what Flush tracks, removes and skips.
LEMMA FlushRestLast ==
  ASSUME Alone, NotifierInv, NotifierInv', AlertInv, LastInv, FlushTrack \/ FlushRemove \/ FlushSkip
  PROVE  LastInv'
<1>1. PICK s : s = act["tick"] OBVIOUS
<1>2. s.pc \in FlushPlaces BY <1>1 DEF FlushTrack, FlushRemove, FlushSkip, At, FlushPlaces
<1>3. s.due \in Seq(Item) /\ s.due # <<>> BY <1>1, <1>2, FlushHands
<1>4. (\A j \in 1..Len(s.due) : Marked(s.due[j])) /\ \A r : KeepsPending(r) BY <1>1, <1>2, FlushMarked
<1>5. UNCHANGED <<resolvedBefore, sendVars, cond, msgs>> BY DEF FlushTrack, FlushRemove, FlushSkip
<1>6. PICK id, blocked : /\ queue' = queue \/ queue' = RemoveID(queue, id)
                         /\ Step("tick", Flushing(Tail(s.due), blocked))
  <2>1. CASE FlushTrack BY <1>1, <2>1 DEF FlushTrack
  <2>2. CASE FlushRemove BY <1>1, <2>2 DEF FlushRemove
  <2>3. CASE FlushSkip BY <1>1, <2>3 DEF FlushSkip
  <2> QED BY <2>1, <2>2, <2>3
<1>7. PICK r : r = Flushing(Tail(s.due), blocked) OBVIOUS
<1>8. LastHand(r)' BY <1>3, <1>4, <1>5, <1>7, FlushingLast
<1>9. StreaksGo /\ MarksGrow BY <1>5 DEF StreaksGo, MarksGrow
<1>10. LineMarked
  <2>1. queue \in Seq(Item) BY DEF NotifierInv, Types
  <2>2. CASE queue' = queue BY <2>2, SameMarked
  <2>3. CASE queue' = RemoveID(queue, id)
    <3>1. PartOf(queue', queue) BY <2>1, <2>3, RemoveParts
    <3> QED BY <3>1, PartMarked
  <2> QED BY <1>6, <2>2, <2>3
<1> QED BY <1>4, <1>5, <1>6, <1>7, <1>8, <1>9, <1>10, MoveLast

\* Expire hands the oldest message to the report.
LEMMA ExpireLast ==
  ASSUME Alone, NotifierInv, NotifierInv', AlertInv, LastInv, Expire
  PROVE  LastInv'
<1>0. Types /\ QueueInv BY DEF NotifierInv
<1>1. queue \in Seq(Item) /\ queue # <<>> /\ act["tick"].pc = "idle" BY <1>0 DEF Types, Expire, At
<1>2. PICK drops : drops = <<Head(queue)>> OBVIOUS
<1>3. PICK r : r = [Idle EXCEPT !.pc = "report", !.next = "idle", !.drops = drops] OBVIOUS
<1>4. drops # <<>> BY <1>2
<1>5. queue' = Tail(queue) /\ Step("tick", r) /\ UNCHANGED <<resolvedBefore, sendVars, cond, msgs>>
  BY <1>2, <1>3, <1>4 DEF Expire, GoOn
<1>6. Idle \in Actor /\ Idle.msg.n = 0 BY IdleFacts
<1>7. r.pc = "report" /\ r.msg = Idle.msg BY <1>3, <1>6 DEF Actor
<1>8. LastHand(r)' BY <1>6, <1>7 DEF LastHand, FlushPlaces
<1>9. KeepsPending(r) BY <1>1, NonePending
<1>10. StreaksGo /\ MarksGrow BY <1>5 DEF StreaksGo, MarksGrow
<1>11. LineMarked
  <2>1. /\ Len(queue) \in Nat /\ Len(queue) # 0 /\ Len(queue') = Len(queue) - 1 /\ queue' \in Seq(Item)
        /\ \A i \in 1..(Len(queue) - 1) : queue'[i] = queue[i + 1]
    BY <1>1, <1>5
  <2>2. \A i \in 1..Len(queue') : i + 1 \in 1..Len(queue) /\ queue'[i] = queue[i + 1] BY <2>1
  <2>3. Sorted(queue')
    <3> SUFFICES ASSUME NEW i \in 1..Len(queue'), NEW j \in 1..Len(queue'), i < j PROVE queue'[i].id < queue'[j].id
      BY DEF Sorted
    <3>1. i + 1 < j + 1 BY <2>1
    <3> QED BY <1>0, <2>2, <3>1 DEF QueueInv, Sorted
  <2>4. Len(queue') <= Len(queue) BY <2>1
  <2>5. PartOf(queue', queue) BY <2>1, <2>2, <2>3, <2>4 DEF PartOf
  <2> QED BY <2>5, PartMarked
<1> QED BY <1>5, <1>8, <1>9, <1>10, <1>11, MoveLast

\* A copy of a message that failed is queued.
LEMMA EnqueueLast ==
  ASSUME Alone, NotifierInv, NotifierInv', AlertInv, LastInv,
         NEW ch \in Channels, NEW next \in {"resolve", "fallback"}, act["tick"].pc \in {"enqueue", "enqueueSMS"},
         \A k : Pending(act["tick"], k) => next = "resolve",
         NEW tok, Enqueue("tick", ch, tok, next), UNCHANGED <<sendVars, cond, msgs>>
  PROVE  LastInv'
<1>0. "tick" \in Actors BY DEF Alone
<1>1. Types /\ MessageInv /\ QueueInv BY DEF NotifierInv
<1>2. PICK s : s = act["tick"] OBVIOUS
<1>3. s \in Actor /\ HoldsMessage("tick", s) /\ LastHand(s) BY <1>0, <1>2, HandsOf DEF LastInv
<1>4. PICK m : m = s.msg OBVIOUS
<1>5. m.n # 0 /\ m.n \in 1..Len(msgs) /\ msgs[m.n] = m BY <1>2, <1>3, <1>4 DEF HoldsMessage, Early
<1>6. queue \in Seq(Item) /\ nextID \in Nat /\ m \in Message
  <2>1. m \in Message BY <1>3, <1>4 DEF Actor
  <2> QED BY <1>1, <2>1 DEF Types
<1>7. PICK new : new = [id |-> nextID, ch |-> ch, n |-> m.n, kind |-> m.kind, key |-> m.key] OBVIOUS
<1>8. new \in Item /\ new.n = m.n /\ new.kind = m.kind /\ new.key = m.key BY <1>6, <1>7 DEF Item, Message
<1>9. PICK q : q = Append(queue, new) OBVIOUS
<1>10. /\ q \in Seq(Item)
       /\ \A i \in 1..Len(queue) : q[i] = queue[i] /\ i \in 1..Len(q)
       /\ q[Len(queue) + 1] = new /\ Len(queue) + 1 \in 1..Len(q)
       /\ \A i \in 1..Len(q) : i \in 1..Len(queue) \/ i = Len(queue) + 1
  BY <1>6, <1>8, <1>9, AppendFacts
<1>11. PICK drops : drops = Overflow(q) OBVIOUS
<1>12. PICK pc \in {next, "report"} : pc = IF drops = <<>> THEN next ELSE "report" OBVIOUS
<1>13. PICK r : r = [s EXCEPT !.pc = pc, !.next = next, !.drops = drops] OBVIOUS
<1>14. queue' = Trimmed(q) /\ Step("tick", r) /\ resolvedBefore' = resolvedBefore
  BY <1>2, <1>4, <1>7, <1>9, <1>11, <1>12, <1>13 DEF Enqueue, GoOn
<1>15. PartOf(queue', q) BY <1>10, <1>14, TrimParts
<1>16. r.pc = pc /\ r.msg = s.msg /\ r.next = next BY <1>3, <1>13 DEF Actor
<1>17. Of(new) /\ Marked(new)
  <2>1. m.kind = "problem" => m.key \in Keys BY <1>1, <1>5 DEF MessageInv
  <2>2. Of(new) BY <1>5, <1>8, <2>1 DEF Of
  <2>3. m.kind = "problem" => ~HasEnded(m.n) BY <1>3, <1>4, <1>5 DEF LastHand
  <2>4. Marked(new) BY <1>8, <2>3 DEF Marked
  <2> QED BY <2>2, <2>4
<1>18. LineMarked
  <2> SUFFICES ASSUME NEW i \in 1..Len(queue')
               PROVE  \E item \in Item : item = queue'[i] /\ Of(item) /\ (Marked(item) \/ Pending(act["tick"], item.key))
    BY DEF LineMarked
  <2>1. PICK j \in 1..Len(q) : queue'[i] = q[j] BY <1>15 DEF PartOf
  <2>2. CASE j = Len(queue) + 1 BY <1>8, <1>10, <1>17, <2>1, <2>2
  <2>3. CASE j \in 1..Len(queue)
    <3>1. queue'[i] = queue[j] /\ queue[j] \in Item BY <1>6, <1>10, <2>1, <2>3
    <3>2. Of(queue[j]) /\ (Marked(queue[j]) \/ Pending(act["tick"], queue[j].key)) BY <1>1, <2>3 DEF QueueInv, LastInv
    <3> QED BY <3>1, <3>2
  <2> QED BY <1>10, <2>1, <2>2, <2>3
<1>19. LastHand(r)' BY <1>3, <1>12, <1>16, HandLast DEF FlushPlaces
<1>20. KeepsPending(r)
  <2>1. \A k : Pending(s, k) => Pending(r, k) BY <1>2, <1>12, <1>16 DEF Pending
  <2> QED BY <1>2, <2>1 DEF KeepsPending
<1>21. StreaksGo /\ MarksGrow BY <1>14 DEF StreaksGo, MarksGrow
<1> QED BY <1>14, <1>18, <1>19, <1>20, <1>21, MoveLast

LEMMA EnqueuesLast ==
  ASSUME Alone, NotifierInv, NotifierInv', AlertInv, LastInv
  PROVE  EnqueueTelegram("tick") \/ EnqueueSMS("tick") => LastInv'
<1>0. "tick" \in Actors BY DEF Alone
<1>1. HoldsMessage("tick", act["tick"]) BY <1>0, HandsOf
<1>2. "tlg" \in Channels /\ "sms" \in Channels BY DEF Channels
<1>3. ASSUME EnqueueTelegram("tick") PROVE LastInv'
  <2>1. PICK next \in {"resolve", "fallback"} : next = AfterSend(act["tick"].msg) BY DEF AfterSend
  <2>2. /\ act["tick"].pc = "enqueue" /\ Enqueue("tick", "tlg", act["tick"].tok, next)
        /\ UNCHANGED <<sendVars, cond, msgs>>
    BY <1>3, <2>1 DEF EnqueueTelegram, At
  <2>3. \A k : Pending(act["tick"], k) => next = "resolve" BY <2>1 DEF Pending, AfterSend
  <2> QED BY <1>2, <2>2, <2>3, EnqueueLast
<1>4. ASSUME EnqueueSMS("tick") PROVE LastInv'
  <2>1. act["tick"].pc = "enqueueSMS" BY <1>4 DEF EnqueueSMS, At
  <2>2. PICK next \in {"resolve", "fallback"} : next = act["tick"].next BY <1>1, <2>1 DEF HoldsMessage
  <2>3. Enqueue("tick", "sms", act["tick"].tok, next) /\ UNCHANGED <<sendVars, cond, msgs>>
    BY <1>4, <2>2 DEF EnqueueSMS
  <2>4. \A k : Pending(act["tick"], k) => next = "resolve" BY <2>1, <2>2 DEF Pending
  <2> QED BY <1>2, <2>1, <2>3, <2>4, EnqueueLast
<1> QED BY <1>3, <1>4

\* A report ends no streak.
LEMMA ReportDroppedLast ==
  ASSUME Alone, NotifierInv, NotifierInv', AlertInv, LastInv, ReportDropped("tick")
  PROVE  LastInv'
<1>0. "tick" \in Actors /\ Types BY DEF Alone, NotifierInv
<1>1. PICK s : s = act["tick"] OBVIOUS
<1>2. s \in Actor /\ HoldsMessage("tick", s) /\ LastHand(s) BY <1>0, <1>1, HandsOf DEF LastInv
<1>3. PICK r : r = IF s.next = "idle" THEN Idle ELSE [s EXCEPT !.pc = s.next, !.drops = <<>>] OBVIOUS
<1>4. PICK reopened :
        cond' = [k \in Keys |-> IF \E d \in reopened : d.key = k THEN [cond[k] EXCEPT !.open = FALSE] ELSE cond[k]]
  BY DEF ReportDropped
<1>5. s.pc = "report" /\ Step("tick", r) /\ UNCHANGED <<queueVars, sendVars, msgs>>
  BY <1>1, <1>3 DEF ReportDropped, At
<1>6. UNCHANGED <<queue, resolvedBefore>> BY <1>5 DEF queueVars
<1>7. StreaksGo
  <2> SUFFICES ASSUME NEW k \in Keys PROVE cond'[k].since = cond[k].since
    BY DEF StreaksGo
  <2>1. cond[k] \in [open : BOOLEAN, since : Nat] BY <1>0 DEF Types, Cond
  <2>2. CASE \E d \in reopened : d.key = k
    <3>1. cond'[k] = [cond[k] EXCEPT !.open = FALSE] BY <1>4, <2>2
    <3> QED BY <2>1, <3>1
  <2>3. CASE ~\E d \in reopened : d.key = k BY <1>4, <2>3
  <2> QED BY <2>2, <2>3
<1>8. MarksGrow BY <1>6 DEF MarksGrow
<1>9. LineMarked BY <1>6, SameMarked
<1>10. CASE s.next = "idle"
  <2>1. r = Idle BY <1>3, <1>10
  <2>2. LastHand(r)' BY <2>1, IdleFacts DEF LastHand, FlushPlaces
  <2>3. KeepsPending(r) BY <1>1, <1>5, <1>10 DEF KeepsPending, Pending
  <2> QED BY <1>5, <1>7, <1>8, <1>9, <2>2, <2>3, MoveLast
<1>11. CASE s.next # "idle"
  <2>1. r = [s EXCEPT !.pc = s.next, !.drops = <<>>] BY <1>3, <1>11
  <2>2. r.pc = s.next /\ r.msg = s.msg BY <1>2, <2>1 DEF Actor
  <2>3. r.pc \in {"resolve", "fallback"} BY <1>2, <1>11, <2>2 DEF HoldsMessage
  <2>4. LastHand(r)' BY <1>2, <1>5, <2>2, <2>3, HandLast DEF FlushPlaces
  <2>5. KeepsPending(r) BY <1>1, <1>5, <2>2 DEF KeepsPending, Pending
  <2> QED BY <1>5, <1>7, <1>8, <1>9, <2>4, <2>5, MoveLast
<1> QED BY <1>10, <1>11

-----------------------------------------------------------------------------
(* News of a condition *)

\* The new message: a RESOLVED of its key is pending, a PROBLEM of its streak has not ended.
LEMMA NotifyLast ==
  ASSUME Alone, NotifierInv, NotifierInv', AlertInv, LastInv,
         NEW m \in Message, m.n = Len(msgs) + 1, m.key \in Keys, Notify("tick", m), StreaksGo,
         m.kind = "resolved" => cond'[m.key].since = 0 /\ m.streak # 0,
         m.streak = cond[m.key].since \/ m.streak = Len(msgs) + 1
  PROVE  LastInv'
<1>0. "tick" \in Actors BY DEF Alone
<1>1. Types /\ Types' /\ MessageInv /\ StreakInv /\ HangInv /\ QueueInv /\ StreaksEnd /\ HangLast /\ Unsent /\ afterEnd = {}
  BY DEF NotifierInv, AlertInv, LastInv
<1>2. /\ act["tick"].pc = "idle" /\ Len(msgs) < MaxMsgs /\ msgs' = Append(msgs, m) /\ UNCHANGED <<queueVars, sendVars>>
  BY DEF Notify, At
<1>3. PICK pc \in {"sms", "telegram", "enqueue", "instead"} :
        Step("tick", [Idle EXCEPT !.pc = pc, !.msg = m, !.off = offline])
  <2>1. m.mode \in {"tlg", "sms", "tlg-or-sms"} BY DEF Message
  <2>2. offline \in BOOLEAN BY <1>1 DEF Types
  <2>3. CASE m.mode = "sms" BY <2>2, <2>3 DEF Notify
  <2>4. CASE m.mode = "tlg" /\ ~offline BY <2>2, <2>4 DEF Notify
  <2>5. CASE m.mode = "tlg-or-sms" /\ ~offline BY <2>2, <2>5 DEF Notify
  <2>6. CASE m.mode = "tlg" /\ offline BY <2>2, <2>6 DEF Notify
  <2>7. CASE m.mode = "tlg-or-sms" /\ offline BY <2>2, <2>7 DEF Notify
  <2> QED BY <2>1, <2>3, <2>4, <2>5, <2>6, <2>7
<1>4. PICK r : r = [Idle EXCEPT !.pc = pc, !.msg = m, !.off = offline] OBVIOUS
<1>5. r.pc = pc /\ r.msg = m BY <1>4, IdleFacts DEF Actor
<1>6. act'["tick"] = r BY <1>0, <1>1, <1>3, <1>4, StepIs DEF Moved
<1>7. PICK n \in Nat : n = Len(msgs) /\ Len(msgs) \in Nat /\ n < MaxMsgs /\ MaxMsgs \in Nat
  BY <1>1, <1>2, NotifierAssumption DEF Types
<1>8. Len(msgs') = n + 1 /\ msgs'[n + 1] = m /\ \A i \in 1..n : msgs'[i] = msgs[i]
  BY <1>1, <1>2, <1>7 DEF Types
<1>9. \A i \in 1..(n + 1) : i \in 1..n \/ i = n + 1 BY <1>7
<1>10. UNCHANGED <<queue, resolvedBefore, hang, sent, afterEnd>> BY <1>2 DEF queueVars, sendVars
<1>11. ASSUME NEW i \in 1..n, NEW j \in 1..n PROVE Resolves(i, j)' <=> Resolves(i, j) BY <1>8 DEF Resolves
<1>12. Unsent'
  <2> SUFFICES ASSUME NEW j \in 1..MaxMsgs, j > n + 1 PROVE sent["sms"][j] = 0
    BY <1>8, <1>10 DEF Unsent
  <2>1. j > n BY <1>7
  <2> QED BY <1>1, <1>7, <2>1 DEF Unsent
<1>13. HangLast'
  <2> SUFFICES ASSUME hang["sms"] # NoHang, msgs'[hang["sms"].n].kind = "problem", NEW i \in 1..(n + 1),
                      Resolves(i, hang["sms"].n)'
               PROVE  sent["sms"][i] = 0
    BY <1>8, <1>10 DEF HangLast
  <2>1. PICK j \in 1..n : j = hang["sms"].n BY <1>1, <1>7 DEF HangInv, Channels
  <2>2. CASE i \in 1..n
    <3>1. Resolves(i, j)' BY <1>10, <2>1
    <3>2. Resolves(i, j) BY <1>11, <2>2, <3>1
    <3>3. msgs[j].kind = "problem" BY <1>8, <2>1
    <3> QED BY <1>1, <1>7, <2>1, <2>2, <3>2, <3>3 DEF HangLast
  <2>3. CASE i = n + 1
    <3>1. i \in 1..MaxMsgs /\ i > n BY <1>7, <2>3
    <3> QED BY <1>1, <1>7, <3>1 DEF Unsent
  <2> QED BY <1>9, <2>2, <2>3
<1>14. ASSUME NEW i \in 1..n, msgs[i].kind = "resolved"
       PROVE  msgs[i].streak \in 1..n /\ msgs[i].key \in Keys /\ cond[msgs[i].key].since # msgs[i].streak
  <2>1. msgs[i].streak \in 1..i /\ i <= n BY <1>1, <1>7, <1>14 DEF StreakInv
  <2>2. msgs[i].streak \in 1..n BY <1>7, <2>1
  <2> QED BY <1>1, <1>7, <1>14, <2>2 DEF StreaksEnd, MessageInv
<1>15. StreaksEnd'
  <2> SUFFICES ASSUME NEW i \in 1..(n + 1), msgs'[i].kind = "resolved" PROVE cond'[msgs'[i].key].since # msgs'[i].streak
    BY <1>8 DEF StreaksEnd
  <2>1. CASE i \in 1..n
    <3>1. msgs'[i] = msgs[i] BY <1>8, <2>1
    <3>2. PICK k \in Keys : k = msgs[i].key BY <1>14, <2>1, <3>1
    <3>3. PICK x \in 1..n : x = msgs[i].streak /\ cond[k].since # x BY <1>14, <2>1, <3>1, <3>2
    <3>4. cond'[k].since = cond[k].since \/ cond'[k].since = 0 \/ cond'[k].since > n BY <1>7 DEF StreaksGo
    <3>5. cond'[k].since # x BY <1>7, <3>3, <3>4
    <3> QED BY <3>1, <3>2, <3>3, <3>5
  <2>2. CASE i = n + 1 BY <1>8, <2>2
  <2> QED BY <1>9, <2>1, <2>2
<1>16. LastHand(r)'
  <2>1. ASSUME m.kind = "problem" PROVE ~HasEnded(m.n)'
    <3> SUFFICES ASSUME NEW i \in 1..(n + 1), Resolves(i, n + 1)' PROVE FALSE
      BY <1>7, <1>8 DEF HasEnded
    <3>1. msgs'[i].kind = "resolved" /\ msgs'[i].key = m.key /\ msgs'[i].streak = m.streak BY <1>8 DEF Resolves
    <3>2. i \in 1..n /\ msgs'[i] = msgs[i] BY <1>8, <1>9, <2>1, <3>1
    <3>3. m.streak \in 1..n /\ cond[m.key].since # m.streak BY <1>14, <3>1, <3>2
    <3>4. m.streak # n + 1 BY <1>7, <3>3
    <3> QED BY <1>7, <3>3, <3>4
  <2>2. r.msg.kind = "problem" => ~HasEnded(r.msg.n)' BY <1>5, <2>1
  <2> QED BY <1>3, <1>5, <2>2 DEF LastHand, FlushPlaces
<1>17. ASSUME NEW i \in 1..Len(queue) PROVE Marked(queue[i])' \/ Pending(act["tick"], queue[i].key)'
  <2>1. PICK item : item = queue[i] OBVIOUS
  <2>2. Of(item) /\ Marked(item) BY <1>1, <1>2, <2>1, NonePending DEF QueueInv, LastInv
  <2>3. PICK j \in 1..n : j = item.n BY <1>7, <2>2 DEF Of
  <2>4. CASE m.kind = "resolved" /\ m.key = item.key
    <3>1. m.n # 0 BY <1>7
    <3>2. Pending(r, item.key) BY <1>3, <1>5, <2>4, <3>1 DEF Pending
    <3>3. Pending(act["tick"], item.key)' BY <1>6, <3>2 DEF Pending
    <3> QED BY <1>10, <2>1, <3>3
  <2>5. CASE ~(m.kind = "resolved" /\ m.key = item.key)
    <3>1. ASSUME HasEnded(j)' PROVE HasEnded(j)
      <4>1. PICK k \in 1..(n + 1) : Resolves(k, j)' BY <1>8, <3>1 DEF HasEnded
      <4>2. msgs'[j].key = item.key BY <1>8, <2>2, <2>3 DEF Of
      <4>3. k # n + 1 BY <1>8, <2>5, <4>1, <4>2 DEF Resolves
      <4>4. k \in 1..n /\ Resolves(k, j) BY <1>9, <1>11, <4>1, <4>3
      <4> QED BY <1>7, <4>4 DEF HasEnded
    <3>2. HasEnded(item.n)' => HasEnded(item.n) BY <2>3, <3>1
    <3>3. Marked(item)' BY <1>10, <2>2, <3>2 DEF Marked
    <3> QED BY <1>10, <2>1, <3>3
  <2> QED BY <2>4, <2>5
<1>18. LastHand(act["tick"])' BY <1>6, <1>16 DEF LastHand
<1> QED BY <1>1, <1>10, <1>12, <1>13, <1>15, <1>17, <1>18 DEF LastInv

LEMMA NotifyConditionLast ==
  ASSUME Alone, NotifierInv, NotifierInv', AlertInv, LastInv, NEW k \in Keys, NEW mode \in Modes, NotifyCondition(k, mode)
  PROVE  LastInv'
<1>1. Types /\ StreakInv BY DEF NotifierInv, AlertInv
<1>2. cond \in Cond /\ Len(msgs) \in Nat BY <1>1 DEF Types
<1>3. Modes \subseteq {"tlg", "sms", "tlg-or-sms"} BY NotifierAssumption
<1>4. PICK x : x = StreakOf(k) OBVIOUS
<1>5. x \in Nat /\ x # 0 /\ (x = cond[k].since \/ x = Len(msgs) + 1)
  <2>1. cond[k].since \in Nat BY <1>2 DEF Cond
  <2>2. CASE cond[k].since = 0 BY <1>2, <1>4, <2>2 DEF StreakOf
  <2>3. CASE cond[k].since # 0 BY <1>4, <2>1, <2>3 DEF StreakOf
  <2> QED BY <2>2, <2>3
<1>6. PICK kind \in {"problem", "resolved"} : kind = IF cond[k].open THEN "resolved" ELSE "problem" OBVIOUS
<1>7. PICK m : m = [n |-> Len(msgs) + 1, key |-> k, mode |-> mode, streak |-> x, kind |-> kind] OBVIOUS
<1>8. m \in Message /\ m.n = Len(msgs) + 1 /\ m.key = k /\ m.streak = x /\ m.kind = kind
  BY <1>2, <1>3, <1>5, <1>6, <1>7 DEF Message
<1>9. /\ Notify("tick", m)
      /\ cond' = [cond EXCEPT ![k] = IF @.open THEN Untracked ELSE [open |-> TRUE, since |-> x]]
  BY <1>4, <1>6, <1>7 DEF NotifyCondition
<1>10. \A j \in Keys : j # k => cond'[j] = cond[j] BY <1>2, <1>9 DEF Cond
<1>11. IF cond[k].open THEN cond'[k] = Untracked ELSE cond'[k] = [open |-> TRUE, since |-> x]
  BY <1>2, <1>9 DEF Cond
<1>12. Untracked.since = 0 BY DEF Untracked
<1>13. cond'[k].since = 0 \/ cond'[k].since = x BY <1>11, <1>12
<1>14. x = cond[k].since \/ x > Len(msgs) BY <1>2, <1>5
<1>15. StreaksGo BY <1>10, <1>13, <1>14 DEF StreaksGo
<1>16. m.kind = "resolved" => cond'[m.key].since = 0 /\ m.streak # 0 BY <1>5, <1>6, <1>8, <1>11, <1>12
<1> QED BY <1>5, <1>8, <1>9, <1>15, <1>16, NotifyLast

-----------------------------------------------------------------------------

LEMMA InitLast ==
  ASSUME Alone, Init
  PROVE  LastInv
<1>1. /\ queue = <<>> /\ act = [a \in Actors |-> Idle] /\ msgs = <<>> /\ afterEnd = {} /\ "tick" \in Actors
      /\ hang = [c \in Channels |-> NoHang] /\ sent = [c \in Channels |-> [n \in 1..MaxMsgs |-> 0]]
  BY DEF Init, Alone
<1>2. Len(msgs) = 0 /\ Len(queue) = 0 /\ act["tick"] = Idle BY <1>1
<1>3. LastHand(act["tick"]) BY <1>2, IdleFacts DEF LastHand, FlushPlaces
<1>4. HangLast /\ Unsent BY <1>1 DEF HangLast, Unsent, Channels
<1>5. StreaksEnd BY <1>2 DEF StreaksEnd
<1> QED BY <1>1, <1>2, <1>3, <1>4, <1>5 DEF LastInv

\* Nothing changes without a step.
LEMMA StutterLast ==
  ASSUME Alone, NotifierInv, NotifierInv', AlertInv, LastInv, UNCHANGED vars
  PROVE  LastInv'
<1>1. UNCHANGED <<queueVars, sendVars, act, msgs, cond>> BY DEF vars
<1>2. UNCHANGED <<queue, resolvedBefore>> BY <1>1 DEF queueVars
<1>3. StreaksGo /\ MarksGrow BY <1>1, <1>2 DEF StreaksGo, MarksGrow
<1>4. queue \in Seq(Item) BY DEF NotifierInv, Types
<1>5. PartOf(queue', queue) BY <1>2, <1>4 DEF PartOf
<1> QED BY <1>1, <1>3, <1>5, RestLast

LEMMA NextLast ==
  ASSUME Alone, NotifierInv, NotifierInv', AlertInv, LastInv, Next
  PROVE  LastInv'
<1>0. \A a \in Actors : a = "tick" BY DEF Alone
<1>1. ASSUME NEW a \in Actors, NEW o,
             TryTelegram(a, o) \/ SMSInstead(a, o) \/ SendSMS(a, o) \/ FallbackSend(a, o)
      PROVE  LastInv'
  <2>1. a = "tick" BY <1>0
  <2> QED BY <1>1, <2>1, SendsLast, FallbacksLast
<1>2. ASSUME NEW a \in Actors,
             EnqueueTelegram(a) \/ EnqueueSMS(a) \/ Resolve(a) \/ Fallback(a) \/ ReportDropped(a)
      PROVE  LastInv'
  <2>1. a = "tick" BY <1>0
  <2> QED BY <1>2, <2>1, EnqueuesLast, ResolveLast, FallbacksLast, ReportDroppedLast
<1>3. ASSUME FlushBegin \/ FlushSkip \/ FlushRemove \/ FlushTrack \/ (\E o : FlushSend(o))
      PROVE  LastInv'
  BY <1>3, FlushBeginLast, FlushRestLast, FlushSendLast
<1>4. ASSUME Expire \/ SetOffline \/ (\E k \in Keys : Streak(k) \/ Clear(k)) PROVE LastInv'
  BY <1>4, ExpireLast, RestsLast
<1>5. ASSUME NEW ch \in Channels, NEW ok \in BOOLEAN, HangReturns(ch, ok) PROVE LastInv'
  BY <1>5, HangReturnsLast
<1>6. ASSUME NEW f \in flights, NEW r \in results, Settle(f, r) PROVE LastInv'
  BY <1>6, RestsLast
<1>7. ASSUME NEW s \in settlers, NEW r \in results, SettleFallback(s, r) PROVE LastInv'
  BY <1>7, RestsLast
<1>8. ASSUME EndTick \/ Checkpoint \/ Restart \/ Load PROVE LastInv'
  BY <1>8, EndTickLast, NoStoreLast
<1>9. ASSUME (\E k \in Keys, mode \in Modes : NotifyCondition(k, mode))
             \/ (\E a \in Actors \ {"tick"}, mode \in Modes : NotifyEvent(a, mode))
      PROVE  LastInv'
  BY <1>0, <1>9, NotifyConditionLast
<1> QED BY <1>1, <1>2, <1>3, <1>4, <1>5, <1>6, <1>7, <1>8, <1>9 DEF Next

LEMMA LastInvariant == ASSUME Alone PROVE Spec => []LastInv
<1>1. Init => LastInv BY InitLast
<1>2. NotifierInv /\ NotifierInv' /\ AlertInv /\ LastInv /\ [Next]_vars => LastInv' BY NextLast, StutterLast
<1>3. Settings BY DEF Alone, Settings
<1>4. Spec => []AlertInv BY <1>3, AlertInvariant
<1> QED BY <1>1, <1>2, <1>4, NotifierInvariant, PTL DEF Spec

\* No PROBLEM goes out by SMS after its own RESOLVED did, in one process in which only the tick calls the
\* notifier: whatever fails, is queued, trimmed, flushed or sent by the fallback, and however late an
\* abandoned send returns.
THEOREM ResolvedIsTheLast == ASSUME Alone PROVE Spec => []NoProblemAfterResolved
<1>1. LastInv => NoProblemAfterResolved BY DEF LastInv, NoProblemAfterResolved
<1> QED BY <1>1, LastInvariant, PTL

=============================================================================
