------------------------------ MODULE SelfTest ------------------------------
(***************************************************************************)
(* A drive's self-test log against what the baseline remembers of it        *)
(* (pkg/health/check/disks: selftest.go, judgeSelfTest of disks.go, the     *)
(* self-test part of smart.go): which entries are new, which failures are   *)
(* told by an event, when a pass was last seen.                             *)
(*                                                                          *)
(* The log is newest first.  An entry is its power-on hour, its code and a  *)
(* number of its own the program cannot see.  The test's type, entries      *)
(* without hours, and the age the condition is judged by are left out.      *)
(***************************************************************************)
EXTENDS Integers, Sequences, FiniteSets, FiniteSetsExt

CONSTANTS
  Ata,          \* an ATA drive (hours wrap), else NVMe
  HoursWrap, FirstHour, LogSize, HeadSize,
  Codes,        \* how tests end: 0 passed, 15 in progress (ATA), others see Classify
  LastHour, LastTest, LastTime, LastClear \* bounds: hours run, tests, clock, log cleared

VARIABLES
  hours, tests, clears,
  log,
  seen, head, okAt, \* the baseline
  \* history
  told,      \* how often each test was told by an event
  shown,     \* failed tests the condition showed
  adopted,   \* tests in the log when it was first read
  blurred,   \* tests first read with the hour of the newest entry known before
  passed     \* a test passed since the last read

driveVars == <<hours, tests, clears, log>>
baseVars == <<seen, head, okAt>>
history == <<told, shown, adopted, blurred, passed>>
vars == <<driveVars, baseVars, history>>

Init ==
  /\ hours = 0 /\ tests = 0 /\ clears = 0
  /\ log \in {<<>>, <<[h |-> FirstHour, code |-> 0, n |-> 0]>>, <<[h |-> FirstHour, code |-> 7, n |-> 0]>>}
  /\ seen = FALSE /\ head = <<>> /\ okAt = 0
  /\ told = [n \in 0 .. LastTest |-> 0] /\ shown = {} /\ adopted = {} /\ blurred = {} /\ passed = FALSE

-----------------------------------------------------------------------------
(* The drive *)

\* The log's hours: 16 bits on ATA.
Hour == IF Ata THEN (FirstHour + hours) % HoursWrap ELSE FirstHour + hours

Push(e) == SubSeq(<<e>> \o log, 1, IF Len(log) < LogSize THEN Len(log) + 1 ELSE LogSize)

InProgress == log # <<>> /\ Head(log).code = 15

\* A test ends, or begins when the drive logs that (15).
Test(code) ==
  /\ tests < LastTest /\ tests' = tests + 1
  /\ ~InProgress
  /\ log' = Push([h |-> Hour, code |-> code, n |-> tests'])
  /\ passed' = (passed \/ code = 0)
  /\ UNCHANGED <<hours, clears, baseVars, told, shown, adopted, blurred>>

\* The logged test ends.
Finish(code) ==
  /\ InProgress /\ code # 15
  /\ log' = [log EXCEPT ![1].code = code]
  /\ passed' = (passed \/ code = 0)
  /\ UNCHANGED <<hours, tests, clears, baseVars, told, shown, adopted, blurred>>

RunHour ==
  /\ hours < LastHour /\ hours' = hours + 1
  /\ UNCHANGED <<tests, clears, log, baseVars, history>>

ClearLog ==
  /\ clears < LastClear /\ clears' = clears + 1 /\ log' = <<>>
  /\ UNCHANGED <<hours, tests, baseVars, history>>

-----------------------------------------------------------------------------
(* The check *)

\* classifyATA, classifyNVMe
Classify(code) ==
  CASE code = 0 -> "passed"
    [] code = 15 -> IF Ata THEN "in progress" ELSE "skipped"
    [] code \in 1 .. (IF Ata THEN 2 ELSE 3) -> "aborted"
    [] OTHER -> "failed"

ID(e) == [h |-> e.h, code |-> e.code]

MinOf(a, b) == IF a < b THEN a ELSE b

\* newestOf: the newest finished entry's position, 0 when there is none.
NewestOf ==
  LET finished == {i \in 1 .. Len(log) : Classify(log[i].code) \in {"passed", "failed"}}
  IN IF finished = {} THEN 0 ELSE Min(finished)

\* logHead
LogHead == [i \in 1 .. MinOf(Len(log), HeadSize) |-> ID(log[i])]

\* alignedAt: the head matches at i, as far as the log goes.
Aligned(i) == \A k \in 1 .. MinOf(Len(head), Len(log) - i + 1) : ID(log[i + k - 1]) = head[k]

\* Fault: the hours are compared as they are.
NewerPlain(e, h) == e.h > h

\* newerThan: less than half the range ahead.
NewerThan(e, h) ==
  IF ~Ata THEN e.h > h
  ELSE LET d == (e.h - h) % HoursWrap IN d # 0 /\ d < HoursWrap \div 2

\* newCount, of a head that is not empty
NewCount ==
  LET at == {i \in 1 .. Len(log) : Aligned(i)}
      new == {n \in 0 .. Len(log) : \A i \in 1 .. n : NewerThan(log[i], head[1].h)}
  IN IF at # {} THEN Min(at) - 1 ELSE Max(new)

\* Fault: the passes of a log never seen before count.
AllNew == IF head # <<>> THEN NewCount ELSE Len(log)

\* How many entries are new: none of a log never read, all of one read empty.
New ==
  CASE head # <<>> -> NewCount
    [] head = <<>> /\ ~seen -> 0
    [] OTHER -> Len(log)

\* judgeSelfTest, AlignSelfTests: an empty log keeps the head.  The wall clock may
\* have been set since the last read.
Read(time) ==
  LET n == IF log = <<>> THEN 0 ELSE New
      newest == NewestOf
      failures == {i \in 1 .. n : Classify(log[i].code) = "failed" /\ i # newest}
      ok == IF \E i \in 1 .. n : Classify(log[i].code) = "passed" THEN time ELSE MinOf(okAt, time)
  IN
  /\ seen' = TRUE /\ head' = (IF log = <<>> THEN head ELSE LogHead) /\ okAt' = ok
  /\ told' = [u \in DOMAIN told |-> told[u] + Cardinality({i \in failures : log[i].n = u})]
  /\ shown' = IF newest # 0 /\ Classify(log[newest].code) = "failed" THEN shown \cup {log[newest].n} ELSE shown
  /\ adopted' = IF seen THEN adopted ELSE {log[i].n : i \in 1 .. Len(log)}
  /\ blurred' = IF head = <<>> THEN blurred
                ELSE blurred \cup {log[i].n : i \in {j \in 1 .. Len(log) : log[j].h = head[1].h}}
  /\ passed' = FALSE
  /\ UNCHANGED driveVars

Next ==
  \/ \E c \in Codes : Test(c) \/ Finish(c)
  \/ RunHour \/ ClearLog
  \/ \E t \in 1 .. LastTime : Read(t)

Spec == Init /\ [][Next]_vars

-----------------------------------------------------------------------------
(* Properties *)

TypeOK ==
  /\ Len(log) <= LogSize /\ Len(head) <= HeadSize
  /\ okAt \in 0 .. LastTime

\* Every failed test that is read after the first sighting is told: by one event,
\* or by the condition while it was the newest finished one; in a cleared log, in
\* one whose hours wrapped, and after the newest known entries fell out of it, too.
\* One that ran in the hour of the newest entry known before may be taken for it.
\* What was in the log at first sight, and what was told before, is not told again.
FailuresTold ==
  seen' /\ log' = log /\ hours' = hours => \A i \in 1 .. Len(log) :
       Classify(log[i].code) = "failed" /\ log[i].n \notin adopted' \cup blurred' =>
         told'[log[i].n] = 1 \/ log[i].n \in shown'

ToldOnce == \A u \in DOMAIN told : told[u] <= 1 /\ (u \in adopted => told[u] = 0)

\* The date of the last pass moves on only for a test that passed since the read
\* before: an adopted log never makes an overdue drive look tested, whatever the
\* clock does.
PassDated == okAt' > okAt => passed /\ seen

=============================================================================
