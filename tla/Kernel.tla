------------------------------- MODULE Kernel -------------------------------
(***************************************************************************)
(* The kernel check (pkg/health/check/kernel) with its log reader           *)
(* (pkg/host/kmsg) and its gate (cmd/health_hardware.go): the ring buffer    *)
(* the kernel overwrites, the inbox, the cursor that survives restarts and   *)
(* reboots, the previous boot's journal tail, and the episodes that turn     *)
(* records into messages.                                                    *)
(*                                                                          *)
(* A record is <<boot, seq>>; its kind is "err" (a class of the table),      *)
(* "kill" (an out-of-memory kill, told on its own) or "plain", which is also *)
(* its text.  One class stands for all; the EDAC counters are left out.      *)
(* A Run that fails (boot id unreadable, context over) changes nothing.      *)
(***************************************************************************)
EXTENDS Integers, Sequences, FiniteSets

CONSTANTS
  Kinds,
  Still, Quiet,   \* stillWindow, quietAfter
  MaxInbox,
  LastTime, MaxRecords, MaxOver, MaxBoots, MaxEnds, MaxFails  \* bounds

VARIABLES
  now, boot, ends, fails,
  logs,                   \* per boot, the records logged: kind and time since boot
  first,                  \* the oldest record still in the ring buffer
  reader,                 \* the record the log reader reads next
  maxSeq, firstSeq,       \* Check.maxSeq; firstSeq while firstPending, else 0
  inbox, lost,
  restored,               \* kernelGate.restored
  cur, ep, mark,          \* Check.st, and the process's own rate mark
  out,                    \* the result on its way: records told, reported lost, class and tail message
  stored,
  \* history
  told, unsaved,          \* records told; those told since the last save
  twice, excused,         \* told again; reported lost, or given up for a known reason
  message, savedMessage   \* time of the class's last message; boot of its last message about a boot before

logVars == <<boot, logs, first>>
checkVars == <<maxSeq, firstSeq, inbox, lost, restored, cur, ep, mark>>
history == <<told, unsaved, twice, excused, message, savedMessage>>
vars == <<now, ends, fails, logVars, reader, checkVars, out, stored, history>>

NoCursor == [boot |-> 0, seq |-> 0, seen |-> FALSE, t |-> 0, k |-> "plain"]
NoEpisode == [on |-> FALSE, lastAt |-> 0, lastStill |-> 0, unreported |-> {}]
NoResult == [busy |-> FALSE, tell |-> {}, lost |-> {}, class |-> FALSE, tail |-> FALSE]
NoMessage == [class |-> -1, tail |-> 0]

\* The daemon starts on a host it has never run on.
Init ==
  /\ now = 0 /\ boot = 1 /\ ends = 0 /\ fails = 0
  /\ logs = [b \in 1 .. MaxBoots |-> <<>>] /\ first = 1 /\ reader = 1
  /\ maxSeq = 0 /\ firstSeq = 0 /\ inbox = {} /\ lost = {} /\ restored = FALSE
  /\ cur = NoCursor /\ ep = NoEpisode /\ mark = -1 /\ out = NoResult
  /\ stored = [cur |-> NoCursor, ep |-> NoEpisode]
  /\ told = {} /\ unsaved = {} /\ twice = {} /\ excused = {} /\ message = NoMessage /\ savedMessage = NoMessage

Ids(b, seqs) == {<<b, s>> : s \in seqs}
Kind(r) == logs[r[1]][r[2]].k
Matching == {r \in UNION {Ids(b, DOMAIN logs[b]) : b \in DOMAIN logs} : Kind(r) # "plain"}

-----------------------------------------------------------------------------
(* The kernel and the log reader *)

\* The kernel logs a record, perhaps in the microsecond of the one before.
Log(k, dt) ==
  LET log == logs[boot]
      t == IF log = <<>> THEN 0 ELSE log[Len(log)].t + dt IN
  /\ Cardinality(UNION {Ids(b, DOMAIN logs[b]) : b \in DOMAIN logs}) < MaxRecords
  /\ logs' = [logs EXCEPT ![boot] = Append(log, [k |-> k, t |-> t])]
  /\ UNCHANGED <<now, ends, fails, boot, first, reader, checkVars, out, stored, history>>

\* The ring buffer overwrites its oldest record.
Overwrite ==
  /\ first <= Len(logs[boot]) /\ first <= MaxOver /\ first' = first + 1
  /\ UNCHANGED <<now, ends, fails, boot, logs, reader, checkVars, out, stored, history>>

\* Fault: a reader started again hands the buffer over again.
NeverBefore(s) == TRUE

\* A record at or below maxSeq was consumed by this process.
NotConsumed(s) == maxSeq = 0 \/ s > maxSeq

\* Reader.Run, Consume: overwritten records are skipped (EPIPE) and show as a gap.
Consume ==
  LET s == IF reader < first THEN first ELSE reader
      gap == IF maxSeq = 0 THEN {} ELSE maxSeq + 1 .. s - 1
      full == Cardinality(inbox) >= MaxInbox
      matches == logs[boot][s].k # "plain" IN
  /\ s <= Len(logs[boot]) /\ reader' = s + 1
  /\ IF NotConsumed(s)
     THEN /\ maxSeq' = s
          /\ firstSeq' = IF maxSeq = 0 THEN s ELSE firstSeq
          /\ inbox' = IF matches /\ ~full THEN inbox \cup {s} ELSE inbox
          /\ lost' = lost \cup Ids(boot, gap) \cup (IF matches /\ full THEN {<<boot, s>>} ELSE {})
     ELSE UNCHANGED <<maxSeq, firstSeq, inbox, lost>>
  /\ UNCHANGED <<now, ends, fails, logVars, restored, cur, ep, mark, out, stored, history>>

\* runBackground: a failed reader is started again, from the start of the buffer.
ReaderFails ==
  /\ fails < MaxFails /\ reader > first /\ fails' = fails + 1 /\ reader' = first
  /\ UNCHANGED <<now, ends, logVars, checkVars, out, stored, history>>

-----------------------------------------------------------------------------
(* A run *)

\* tailAfter: at the cursor's time, the records up to the first with its text were
\* processed.
TailAfter(log, c) ==
  LET same == {i \in DOMAIN log : log[i].t = c.t /\ log[i].k = c.k}
      at == IF same = {} THEN 0 ELSE CHOOSE i \in same : \A j \in same : i <= j
  IN {i \in DOMAIN log : ~c.seen \/ log[i].t > c.t \/ (log[i].t = c.t /\ i > at)}

\* bootTail: the journal hands over the first n records of the stored boot: all, or
\* fewer when the read was cut or failed, or none without a journal.
BootTail(n) == Ids(cur.boot, TailAfter(SubSeq(logs[cur.boot], 1, n), cur))

\* Fault: as long as the process has not said so, the message is due.
MarkDue(e) == e.unreported # {} /\ (mark = -1 \/ now - mark >= Still)

\* stillHappening: the stored time of the last message, and the process's own mark.
StillDue(e) == e.unreported # {} /\ now - e.lastStill >= Still /\ (mark = -1 \/ now - mark >= Still)

\* episode: the first message, or a count; what an ended episode left is gone.
Episode(errs) ==
  IF errs = {} THEN ep
  ELSE IF ~ep.on \/ now - ep.lastAt >= Quiet
       THEN [on |-> TRUE, lastAt |-> now, lastStill |-> now, unreported |-> {}]
       ELSE [ep EXCEPT !.lastAt = now, !.unreported = @ \cup errs]
Starts(errs) == errs # {} /\ (~ep.on \/ now - ep.lastAt >= Quiet)

\* Fault: a run before the state was restored.
Ungated == TRUE

\* kernelGate.run
Gate == restored

\* Fault: the cursor of a new boot takes over where the old one stood.
KeepPosition == [cur EXCEPT !.boot = boot]

\* kernelReadings: the cursor the inbox is compared with
CursorHere == IF cur.boot # boot THEN [NoCursor EXCEPT !.boot = boot] ELSE cur

\* kernelReadings of a fresh install: the ring buffer is history.
FreshRun ==
  /\ Gate /\ cur.boot = 0 /\ ~out.busy
  /\ cur' = IF maxSeq = 0 THEN cur
            ELSE [boot |-> boot, seq |-> maxSeq, seen |-> TRUE,
                  t |-> logs[boot][maxSeq].t, k |-> logs[boot][maxSeq].k]
  /\ inbox' = {} /\ lost' = {}
  /\ excused' = excused \cup Ids(boot, 1 .. maxSeq)
  /\ UNCHANGED <<now, ends, fails, logVars, reader, maxSeq, firstSeq, restored, ep, mark, out, stored,
                 told, unsaved, twice, message, savedMessage>>

\* Run: the tail, the inbox after the cursor, the episodes, and what was lost.
Run(n) ==
  LET tail == IF cur.boot # boot THEN BootTail(n) ELSE {}
      c == CursorHere
      down == IF firstSeq # 0 /\ c.seen THEN c.seq + 1 .. firstSeq - 1 ELSE {}
      unseen == IF firstSeq # 0 /\ ~c.seen THEN 1 .. firstSeq - 1 ELSE {}
      new == Ids(boot, {s \in inbox : ~c.seen \/ s > c.seq})
      errs == {r \in new : Kind(r) = "err"}
      e == Episode(errs)
      m == IF Starts(errs) THEN now ELSE mark
      still == ~Starts(errs) /\ StillDue(e)
      tell == {r \in tail \cup new : Kind(r) = "kill"} \cup {r \in tail : Kind(r) = "err"}
              \cup (IF Starts(errs) THEN errs ELSE {}) \cup (IF still THEN e.unreported ELSE {})
  IN
  /\ Gate /\ cur.boot # 0 /\ ~out.busy
  /\ IF cur.boot # boot THEN n \in 0 .. Len(logs[cur.boot]) ELSE n = 0
  /\ cur' = IF maxSeq > 0 /\ (~c.seen \/ maxSeq > c.seq)
            THEN [boot |-> boot, seq |-> maxSeq, seen |-> TRUE,
                  t |-> logs[boot][maxSeq].t, k |-> logs[boot][maxSeq].k]
            ELSE [c EXCEPT !.seen = @ \/ maxSeq > 0]
  /\ ep' = IF still THEN [e EXCEPT !.lastStill = now, !.unreported = {}] ELSE e
  /\ mark' = IF still THEN now ELSE m
  /\ inbox' = {} /\ lost' = {} /\ firstSeq' = 0
  /\ out' = [busy |-> TRUE, tell |-> tell, lost |-> lost \cup Ids(boot, down), class |-> Starts(errs) \/ still,
             tail |-> \E r \in tail : Kind(r) = "err"]
  /\ excused' = excused \cup Ids(boot, unseen)
                \cup (IF cur.boot # boot THEN Ids(cur.boot, n + 1 .. Len(logs[cur.boot])) ELSE {})
                \cup (IF Starts(errs) THEN ep.unreported ELSE {})
  /\ UNCHANGED <<now, ends, fails, logVars, reader, maxSeq, restored, stored,
                 told, unsaved, twice, message, savedMessage>>

\* The runner applies the result and its messages are told.
Apply ==
  /\ out.busy /\ out' = NoResult
  /\ told' = told \cup out.tell /\ unsaved' = unsaved \cup (out.tell \ told)
  /\ excused' = excused \cup out.lost
  /\ twice' = twice \cup (out.tell \cap told)
  /\ message' = [class |-> IF out.class THEN now ELSE message.class, tail |-> IF out.tail THEN boot ELSE message.tail]
  /\ UNCHANGED <<now, ends, fails, logVars, reader, checkVars, stored, savedMessage>>

\* The result of an abandoned run, or of a tick the stop interrupts, is dropped.
DropResult ==
  /\ out.busy /\ out' = NoResult
  /\ excused' = excused \cup out.tell \cup out.lost
  /\ UNCHANGED <<now, ends, fails, logVars, reader, checkVars, stored, told, unsaved, twice, message, savedMessage>>

-----------------------------------------------------------------------------
(* The process *)

\* kernelGate.Restore; an empty value is a no-op, which leaves the fresh state.
Load ==
  /\ ~restored /\ restored' = TRUE
  /\ cur' = stored.cur /\ ep' = stored.ep
  /\ UNCHANGED <<now, ends, fails, logVars, reader, maxSeq, firstSeq, inbox, lost, mark, out, stored, history>>

\* Export with the checkpoint
Save ==
  /\ restored /\ ~out.busy
  /\ stored' = [cur |-> cur, ep |-> ep] /\ stored' # stored
  /\ unsaved' = {} /\ savedMessage' = message
  /\ UNCHANGED <<now, ends, fails, logVars, reader, checkVars, out, told, twice, excused, message>>

Forget ==
  /\ maxSeq' = 0 /\ firstSeq' = 0 /\ inbox' = {} /\ lost' = {} /\ restored' = FALSE
  /\ cur' = NoCursor /\ ep' = NoEpisode /\ mark' = -1 /\ out' = NoResult
  /\ told' = told \ unsaved /\ unsaved' = {} /\ message' = savedMessage

\* The process ends and another starts in the same boot.  What was told and not
\* saved may be told again.
Restart ==
  /\ ends < MaxEnds /\ ends' = ends + 1
  /\ Forget /\ reader' = first
  /\ UNCHANGED <<now, fails, logVars, stored, twice, excused, savedMessage>>

\* The host reboots.  Records of a boot no cursor was stored for are out of reach.
Reboot ==
  /\ boot < MaxBoots /\ boot' = boot + 1 /\ first' = 1 /\ reader' = 1
  /\ Forget
  /\ excused' = excused \cup (IF stored.cur.boot = boot THEN {} ELSE Ids(boot, DOMAIN logs[boot]))
                \cup (IF stored.cur.boot = boot THEN lost ELSE {})
  /\ UNCHANGED <<now, ends, fails, logs, stored, twice, savedMessage>>

PassTime ==
  /\ now < LastTime /\ now' = now + 1 /\ ~out.busy
  /\ UNCHANGED <<ends, fails, logVars, reader, checkVars, out, stored, history>>

Next ==
  \/ \E k \in Kinds, dt \in {0, 1} : Log(k, dt)
  \/ Overwrite \/ Consume \/ ReaderFails
  \/ FreshRun \/ \E n \in 0 .. MaxRecords : Run(n)
  \/ Apply \/ DropResult \/ Load \/ Save \/ Restart \/ Reboot \/ PassTime

Spec == Init /\ [][Next]_vars

-----------------------------------------------------------------------------
(* Properties *)

TypeOK ==
  /\ inbox \subseteq 1 .. maxSeq /\ reader \in 1 .. Len(logs[boot]) + 1
  /\ maxSeq <= Len(logs[boot]) /\ firstSeq <= maxSeq

\* What the check, or the check a later process restores, still has before it.
StillToCome(r) ==
  LET c == IF restored THEN cur ELSE stored.cur
      u == IF restored THEN ep.unreported ELSE stored.ep.unreported
      after == ~c.seen \/ r[2] > c.seq
      b == r[1]
      s == r[2] IN
  \/ r \in u \cup lost \cup out.tell \cup out.lost
  \/ b = c.boot /\ b # boot /\ after
  \/ b = boot /\ (b = c.boot => after) /\ (s \in inbox \/ s > maxSeq \/ s < firstSeq)

\* No matching record gets lost between the kernel and the messages, over late
\* loads, crashes, reboots, a reader that starts again and an overwritten buffer:
\* it is told or reported as lost, waits in the buffer, the inbox or an episode, or
\* comes after the stored cursor of an earlier boot; unless a fresh install took it
\* as history, its result was dropped, the journal did not hand it over, its boot
\* never stored a cursor or overwrote it before the first look, or it was left over
\* in an episode the next one replaced.
NothingLost == \A r \in Matching : r \in told \cup excused \/ StillToCome(r)

\* No record is told twice across runs, reader restarts, process restarts and the
\* reboot, except one that was told and not yet saved when the process ended, and,
\* from the journal, one of several records of the same microsecond.
NothingTwice ==
  \A r \in twice :
    r[1] < boot /\ \E s \in DOMAIN logs[r[1]] \ {r[2]} : logs[r[1]][s].t = logs[r[1]][r[2]].t

\* Two messages about a class in the running boot are stillWindow apart, across
\* restarts and reboots too, as far as the first one was saved.  The message of the
\* same key about the boot before waits for nobody, not even for the one of its own
\* run, but comes once in a boot, as far as the cursor was saved.
MessagesSpaced ==
  Apply => /\ out.class => message.class = -1 \/ now - message.class >= Still
           /\ out.tail => message.tail < boot
=============================================================================
