--------------------------- MODULE CheckerErrors ---------------------------
(***************************************************************************)
(* The errors of the monitoring itself (pkg/health/notify/checker.go with   *)
(* the rate marks of pkg/health/ratelimit.go): each key goes to Telegram    *)
(* and email at most once per window; a failed state write gets one notice  *)
(* and one recovery notice; a Telegram outage is told once, by email.  The  *)
(* marks and the channel's health are saved by the tick's checkpoint and    *)
(* merged back by a load, perhaps a late one.                               *)
(*                                                                          *)
(* A key is reported by one goroutine: "save" by the runner, "job" by a     *)
(* background job.  Notify queues and retries: a notice handed to it counts *)
(* as told.  0 is the zero time, or no mark.                                *)
(***************************************************************************)
EXTENDS Integers, FiniteSets

CONSTANTS
  ErrorWindow,   \* CheckerErrorWindow
  After,         \* how long Telegram fails before the notice
  LastTime, LastEnd, LastReport, LastOutage \* bounds: clock, process ends, reports, Telegram failures

Keys == {"save", "job"}
Channels == {"telegram", "email"}

VARIABLES
  now, ends, reports, outages, loaded,
  marks,        \* Marks, by key and channel
  emailed,      \* keys whose error went out by email
  job,          \* ReportCheck in progress, by key
  step,         \* the runner's tick
  exported,     \* the snapshot the checkpoint writes
  stored, degraded,
  saveReported,
  health, healthOK, \* the Telegram channel's health; a success since the start
  failSince,    \* TelegramFailing in progress: the failure it read
  \* history
  told,         \* when the key last went out on the channel, as far as this process can know
  saveShown,    \* channels whose last word on the save key is the error
  mailLost,     \* the email of the last recovery that owed one was not sent
  staleMark,    \* the load brought back a mark of the save key
  noticed       \* Telegram failures (their since) an email told of

ceVars == <<marks, emailed, job>>
runnerVars == <<step, exported, saveReported, failSince>>
storeVars == <<stored, degraded, loaded>>
healthVars == <<health, healthOK>>
history == <<told, saveShown, mailLost, staleMark, noticed>>
bounds == <<now, ends, reports, outages>>
vars == <<bounds, ceVars, runnerVars, storeVars, healthVars, history>>

NoMarks == [k \in Keys |-> [c \in Channels |-> 0]]
OK == [since |-> 0, reported |-> FALSE]
NoExport == [marks |-> NoMarks, health |-> OK]
NoJob == [pc |-> "idle", at |-> 0, sent |-> FALSE]

Init ==
  /\ now = 1 /\ ends = 0 /\ reports = 0 /\ outages = 0 /\ loaded = FALSE
  /\ marks = NoMarks /\ emailed = {} /\ job = [k \in Keys |-> NoJob]
  /\ step = "idle" /\ exported = NoExport
  /\ stored = NoExport /\ degraded = FALSE
  /\ saveReported = FALSE /\ health = OK /\ healthOK = FALSE /\ failSince = 0
  /\ told = NoMarks /\ saveShown = {} /\ mailLost = FALSE /\ staleMark = FALSE /\ noticed = {}

-----------------------------------------------------------------------------
(* Rate marks *)

\* Allow
Allowed(k, c, t) == LET e == t - marks[k][c] IN marks[k][c] = 0 \/ e < 0 \/ e >= ErrorWindow

Mark(k, c, t) == [marks EXCEPT ![k][c] = t]

\* Revert: a mark set since is kept.
Revert(k, c, t) == IF marks[k][c] = t THEN Mark(k, c, 0) ELSE marks

\* Fault: the stored marks replace those of this process.
RestoreMarks(more) == more

\* Merge: the later mark wins.
MergeMarks(more) ==
  [k \in Keys |-> [c \in Channels |-> IF more[k][c] > marks[k][c] THEN more[k][c] ELSE marks[k][c]]]

-----------------------------------------------------------------------------
(* ReportCheck *)

\* Notify for Telegram, then on to the email; now is read once, at the start.
Report(k) ==
  LET ok == Allowed(k, "telegram", now) IN
    /\ reports < LastReport /\ reports' = reports + 1
    /\ marks' = IF ok THEN Mark(k, "telegram", now) ELSE marks
    /\ told' = IF ok THEN [told EXCEPT ![k].telegram = now] ELSE told
    /\ saveShown' = IF ok /\ k = "save" THEN saveShown \cup {"telegram"} ELSE saveShown
    /\ job' = [job EXCEPT ![k] = [pc |-> "email", at |-> now, sent |-> ok]]

ReportJob ==
  /\ job["job"].pc = "idle" /\ Report("job")
  /\ UNCHANGED <<now, ends, outages, emailed, runnerVars, storeVars, healthVars, mailLost, staleMark, noticed>>

AllowEmail(k) ==
  /\ job[k].pc = "email"
  /\ IF Allowed(k, "email", job[k].at)
       THEN marks' = Mark(k, "email", job[k].at) /\ job' = [job EXCEPT ![k].pc = "mail"]
       ELSE job' = [job EXCEPT ![k].pc = "done"] /\ UNCHANGED marks
  /\ UNCHANGED <<bounds, emailed, runnerVars, storeVars, healthVars, history>>

\* Fault: an email that failed gives its mark back, too.
RevertAlways(k, result) == IF result = "sent" THEN marks ELSE Revert(k, "email", job[k].at)

\* An email that was not attempted (ErrNotSent) gives its mark back; one that
\* failed keeps it.
MarkAfter(k, result) == IF result = "not sent" THEN Revert(k, "email", job[k].at) ELSE marks

\* mail: sent, failed (the relay may have taken it), or not attempted.
Mail(k, result) ==
  /\ job[k].pc = "mail"
  /\ marks' = MarkAfter(k, result)
  /\ job' = [job EXCEPT ![k].pc = "done", ![k].sent = @ \/ result = "sent"]
  /\ emailed' = IF result = "sent" THEN emailed \cup {k} ELSE emailed
  /\ told' = IF result # "not sent" THEN [told EXCEPT ![k].email = job[k].at] ELSE told
  /\ saveShown' = IF result = "sent" /\ k = "save" THEN saveShown \cup {"email"} ELSE saveShown
  /\ UNCHANGED <<bounds, runnerVars, storeVars, healthVars, mailLost, staleMark, noticed>>

ReportDone ==
  /\ job["job"].pc = "done" /\ job' = [job EXCEPT !["job"] = NoJob]
  /\ UNCHANGED <<bounds, marks, emailed, runnerVars, storeVars, healthVars, history>>

-----------------------------------------------------------------------------
(* Channel health *)

\* A send fails, or is queued while offline.
TelegramFails ==
  /\ outages < LastOutage /\ outages' = outages + (IF health.since = 0 THEN 1 ELSE 0)
  /\ health' = IF health.since = 0 THEN [health EXCEPT !.since = now] ELSE health
  /\ UNCHANGED <<now, ends, reports, ceVars, runnerVars, storeVars, healthOK, history>>

TelegramSends ==
  /\ LastOutage > 0 /\ health' = OK /\ healthOK' = TRUE
  /\ UNCHANGED <<bounds, ceVars, runnerVars, storeVars, history>>

\* RestoreChannels
MergeHealth(s) ==
  IF healthOK \/ s.since = 0 THEN health
  ELSE [since |-> IF health.since = 0 \/ s.since < health.since THEN s.since ELSE health.since,
        reported |-> s.reported \/ health.reported]

\* TelegramFailing: the health is read, and the email sent when it is due.
TelegramFailing ==
  /\ step = "notice"
  /\ IF health.since # 0 /\ ~health.reported /\ now - health.since >= After
       THEN step' = "notice mail" /\ failSince' = health.since
       ELSE step' = "export" /\ UNCHANGED failSince
  /\ UNCHANGED <<bounds, ceVars, exported, saveReported, storeVars, healthVars, history>>

\* Fault: the failure of the moment is marked, whichever was told.
MarkCurrent(since) == IF health.since # 0 THEN [health EXCEPT !.reported = TRUE] ELSE health

\* MarkTelegramReported: only the failure that was told.
MarkReported(since) == IF health.since = since THEN [health EXCEPT !.reported = TRUE] ELSE health

\* The email goes out (or not, and stays due).
NoticeMail(sent) ==
  /\ step = "notice mail" /\ step' = "export" /\ failSince' = 0
  /\ health' = IF sent THEN MarkReported(failSince) ELSE health
  /\ noticed' = IF sent THEN noticed \cup {failSince} ELSE noticed
  /\ UNCHANGED <<bounds, ceVars, exported, saveReported, storeVars, healthOK, told, saveShown, mailLost,
                 staleMark>>

-----------------------------------------------------------------------------
(* The tick: load, notice, checkpoint *)

BeginTick(loads) ==
  /\ step = "idle" /\ step' = "notice"
  /\ (loads => ~loaded) /\ loaded' = (loaded \/ loads)
  /\ IF loads
       THEN /\ marks' = MergeMarks(stored.marks) /\ health' = MergeHealth(stored.health)
            /\ told' = [k \in Keys |-> [c \in Channels |-> IF job[k].pc = "idle" /\ stored.marks[k][c] > told[k][c]
                                                           THEN stored.marks[k][c] ELSE told[k][c]]]
            /\ staleMark' = (stored.marks["save"] # NoMarks["save"])
            /\ noticed' = IF health'.reported THEN noticed \cup {health'.since} ELSE noticed
       ELSE UNCHANGED <<marks, health, told, staleMark, noticed>>
  /\ UNCHANGED <<bounds, emailed, job, exported, saveReported, failSince, stored, degraded, healthOK,
                 saveShown, mailLost>>

\* checkpoint: nothing is written until the state was loaded.
Export ==
  /\ step = "export"
  /\ IF loaded THEN exported' = [marks |-> marks, health |-> health] /\ step' = "write"
               ELSE step' = "idle" /\ UNCHANGED exported
  /\ UNCHANGED <<bounds, ceVars, saveReported, failSince, storeVars, healthVars, history>>

\* Fault: the recovery notice goes by Telegram only.
RecoverTelegram == {"telegram"}

\* Recovered: by Telegram, and by email when the error went by email.
RecoverOn == {"telegram"} \cup (IF "save" \in emailed THEN {"email"} ELSE {})

\* Fault: the marks outlive the recovery.
KeepMarks == marks

\* Recovered gives the key's marks back.
GiveBack == [marks EXCEPT !["save"] = NoMarks["save"]]

\* The write succeeds; saveRecovered sends the notice and gives the marks back.  The
\* notice's email, when one is owed, is tried once: one that fails is only logged.
Write(mailed) ==
  /\ step = "write" /\ step' = "idle" /\ (~mailed => saveReported /\ "email" \in RecoverOn)
  /\ stored' = exported /\ exported' = NoExport /\ degraded' = FALSE
  /\ IF saveReported
       THEN /\ saveReported' = FALSE
            /\ marks' = GiveBack
            /\ told' = [told EXCEPT !["save"] = NoMarks["save"]]
            /\ emailed' = emailed \ {"save"}
            /\ saveShown' = saveShown \ (IF mailed THEN RecoverOn ELSE RecoverOn \ {"email"})
            /\ mailLost' = IF "save" \in emailed THEN ~mailed ELSE mailLost
       ELSE UNCHANGED <<saveReported, marks, told, emailed, saveShown, mailLost>>
  /\ UNCHANGED <<bounds, job, failSince, loaded, healthVars, staleMark, noticed>>

\* The write fails: the store says so once per outage, and the runner reports it.
WriteFails ==
  /\ step = "write" /\ degraded' = TRUE
  /\ IF degraded THEN step' = "idle" /\ UNCHANGED <<marks, told, saveShown, job, reports>>
                 ELSE step' = "report" /\ Report("save")
  /\ exported' = NoExport
  /\ UNCHANGED <<now, ends, outages, emailed, saveReported, failSince, stored, loaded, healthVars, mailLost,
                 staleMark, noticed>>

SaveReported ==
  /\ step = "report" /\ job["save"].pc = "done" /\ step' = "idle"
  /\ saveReported' = (saveReported \/ job["save"].sent)
  /\ job' = [job EXCEPT !["save"] = NoJob]
  /\ UNCHANGED <<bounds, marks, emailed, exported, failSince, storeVars, healthVars, history>>

-----------------------------------------------------------------------------
(* The process *)

Tick ==
  /\ now < LastTime /\ now' = now + 1
  /\ UNCHANGED <<ends, reports, outages, ceVars, runnerVars, storeVars, healthVars, history>>

Crash ==
  /\ ends < LastEnd /\ ends' = ends + 1 /\ loaded' = FALSE
  /\ marks' = NoMarks /\ emailed' = {} /\ job' = [k \in Keys |-> NoJob]
  /\ step' = "idle" /\ exported' = NoExport /\ degraded' = FALSE
  /\ saveReported' = FALSE /\ health' = OK /\ healthOK' = FALSE /\ failSince' = 0
  /\ told' = NoMarks /\ saveShown' = {} /\ mailLost' = FALSE /\ staleMark' = FALSE
  /\ UNCHANGED <<now, reports, outages, stored, noticed>>

Next ==
  \/ ReportJob \/ ReportDone
  \/ \E k \in Keys : AllowEmail(k) \/ \E r \in {"sent", "failed", "not sent"} : Mail(k, r)
  \/ TelegramFails \/ TelegramSends \/ TelegramFailing
  \/ \E b \in BOOLEAN : NoticeMail(b) \/ BeginTick(b) \/ Write(b)
  \/ Export \/ WriteFails \/ SaveReported
  \/ Tick \/ Crash

Spec == Init /\ [][Next]_vars

-----------------------------------------------------------------------------
(* Properties *)

TypeOK ==
  /\ step \in {"idle", "notice", "notice mail", "export", "write", "report"}
  /\ \A k \in Keys : job[k].pc \in {"idle", "email", "mail", "done"}
  /\ saveShown \subseteq Channels /\ noticed \subseteq 1 .. LastTime

\* A channel gets a key again only after the window, a recovery, or a crash that
\* lost the mark (or whose mark is loaded too late): not when a late load meets
\* the marks of this process, not when a refused email gives its mark back.
Spaced ==
  \A k \in Keys, c \in Channels :
       told'[k][c] > told[k][c] /\ told[k][c] # 0 /\ loaded = loaded' => told'[k][c] - told[k][c] >= ErrorWindow

\* Once the state is written again, Telegram does not show the failure as its last
\* word, nor does the email that told of it, unless the recovery's own email failed,
\* which nobody tries again.
RecoveryTold == step = "idle" /\ ~degraded => saveShown \subseteq (IF mailLost THEN {"email"} ELSE {})

\* A failing store is told on Telegram, a second outage too, unless a stored mark
\* of an earlier process holds it back.
FailureTold == step = "idle" /\ degraded => "telegram" \in saveShown \/ staleMark

\* A Telegram failure counts as reported only when an email told of that very
\* failure, whatever Telegram did while the email was sent.
OwnNotice == health.reported => health.since \in noticed
=============================================================================
