-------------------------------- MODULE Temps --------------------------------
(***************************************************************************)
(* The temperatures check (pkg/health/check/temps/temps.go) and its         *)
(* conditions: which hwmon inputs are judged and under which key, and what  *)
(* becomes of the condition of a sensor that left the read, stopped being   *)
(* judged or stopped giving a value, across restarts and dropped results.   *)
(*                                                                          *)
(* A sensor is <<device, label>>.  The CPU devices have chips of one name   *)
(* and the labels "Tdie", "Tctl" and "core"; device 0 is the board chip     *)
(* with the input "sys".  A key is <<label, n>>: the n-th sensor of that    *)
(* name in the order of the devices; <<"gpu", 0>> is the GPU.  The engine   *)
(* opens a condition at the first bad reading (thresholds: module Engine).  *)
(***************************************************************************)
EXTENDS Integers, FiniteSets, FiniteSetsExt

CONSTANTS
  Layouts,            \* the sets of sensors a read of hwmon may list
  MaxRead, MaxDown    \* bounds: runs, process ends

Devices == {s[1] : s \in UNION Layouts}
Gpu == <<"gpu", 0>>
Slots(label) == 1 .. Max({Cardinality({s \in l : s[2] = label}) : l \in Layouts})
Keys == UNION {{<<s[2], n>> : n \in Slots(s[2])} : s \in UNION Layouts} \cup {Gpu}

VARIABLES
  reads, downs,
  listed,     \* the board sensor has a limit: a board_sensors entry or its own
  loaded,
  pc,
  seen,       \* Check.seen
  device,     \* Check.devices: the device of a seen key, -1 when not known
  since,      \* keys without a usable reading (Check.since)
  out,        \* the run's result: bad, good, told (events), forget
  open,       \* open conditions
  stored,
  \* history
  raisedBy,   \* the device whose reading opened the condition
  ended,      \* open conditions that ended without a word
  dropped     \* keys of a forget nobody applied, or left by a late load

checkVars == <<seen, device, since>>
history == <<raisedBy, ended, dropped>>
vars == <<reads, downs, listed, loaded, pc, checkVars, out, open, stored, history>>

None == <<-1, {}>>
NoOut == [bad |-> {}, good |-> {}, told |-> {}, forget |-> {}, by |-> [k \in Keys |-> None]]
Fresh == [any |-> FALSE, seen |-> {}, device |-> [k \in Keys |-> -1], since |-> {}, open |-> {}]

\* The first version judged every CPU input, and kept no devices.
FirstVersion == [Fresh EXCEPT !.any = TRUE, !.seen = {<<"core", 1>>, <<"Tctl", 1>>}, !.open = {<<"core", 1>>}]

Init ==
  /\ reads = 0 /\ downs = 0 /\ listed \in BOOLEAN /\ loaded = FALSE
  /\ pc = "idle"
  /\ seen = {} /\ device = Fresh.device /\ since = {} /\ out = NoOut /\ open = {}
  /\ stored \in {Fresh, FirstVersion}
  /\ raisedBy = NoOut.by /\ ended = {} /\ dropped = {}

-----------------------------------------------------------------------------
(* What is judged *)

\* packageLabels, isPackageSensor: one judged sensor per CPU.
PackageSensor(s, layout) ==
  \/ s[2] = "Tdie"
  \/ s[2] = "Tctl" /\ <<s[1], "Tdie">> \notin layout

\* classify
Judged(s, layout) == IF s[1] = 0 THEN listed ELSE PackageSensor(s, layout)

\* Fault: only a readable sensor takes its slot.
KeyIfReadable(s, value) ==
  <<s[2], Max({1, Cardinality({t \in DOMAIN value : t[2] = s[2] /\ t[1] <= s[1] /\ value[t] # "unknown"})})>>

\* names: every sensor takes its slot, by device, whether readable or not.
Key(s, value) == <<s[2], Cardinality({t \in DOMAIN value : t[2] = s[2] /\ t[1] <= s[1]})>>

\* chipPresent: the key's chip directory, or any of that name while its device is
\* not known.
ChipPresent(k, layout) ==
  IF device[k] # -1 THEN \E s \in layout : s[1] = device[k]
  ELSE \E s \in layout : (s[1] = 0) = (k[1] = "sys")

-----------------------------------------------------------------------------
(* A run *)

\* gpuObserved, stoppedGPUs: without any device, a seen GPU has stopped reporting.
GpuKeys(gpu) == IF gpu \in {"good", "bad", "unknown"} \/ (gpu = "none" /\ Gpu \in seen) THEN {Gpu} ELSE {}

\* missing: a seen key that lost only its input is kept while its problem is open.
KeptUnknown(gone, retired, layout) ==
  {k \in gone : k # Gpu /\ k \notin retired /\ ChipPresent(k, layout) /\ k \in open}

\* Fault: the end of a retired sensor's problem is not told.
TellGone(forget, retired) == {k \in forget : k \in open /\ k \notin retired}

\* A forgotten key that leaves an open problem behind is told.
TellOpen(forget, retired) == {k \in forget : k \in open}

\* Run, applyHwmon, applyGPUs, apply.  The reads hold no lock and depend on nothing
\* the check keeps, so they are one step with the judging.  value: what each sensor
\* of the hwmon read gives, ok: that read did not fail; gpu: what the GPU gives,
\* "none" (no devices at all), "absent" or "error".  The two sources share no keys:
\* a run that reads both is, in Next, a run that reads one and one that reads the
\* other.
Run(value, ok, gpu) ==
  LET layout == DOMAIN value
      judged == IF ok THEN {s \in layout : Judged(s, layout)} ELSE {}
      retired == {Key(s, value) : s \in {t \in layout : ~Judged(t, layout)}}
      cur == {Key(s, value) : s \in judged} \cup GpuKeys(gpu)
      sensor(k) == CHOOSE s \in judged : Key(s, value) = k
      verdict(k) == IF k # Gpu THEN value[sensor(k)] ELSE IF gpu = "none" THEN "unknown" ELSE gpu
      devOf(k) == IF k = Gpu THEN -1 ELSE sensor(k)[1]
      gone == {k \in seen \ cur : IF k = Gpu THEN gpu # "error" ELSE ok}
      kept == KeptUnknown(gone, retired, layout)
      forget == gone \ kept
  IN
  /\ pc = "idle" /\ reads < MaxRead /\ reads' = reads + 1
  /\ pc' = "result"
  /\ out' = [bad |-> {k \in cur : verdict(k) = "bad"}, good |-> {k \in cur : verdict(k) = "good"},
             told |-> TellOpen(forget, retired), forget |-> forget,
             by |-> [k \in Keys |-> IF k \in cur THEN <<devOf(k), {s[1] : s \in layout}>> ELSE None]]
  /\ seen' = (seen \ forget) \cup cur
  /\ device' = [k \in Keys |-> CASE k \in cur -> devOf(k) [] k \in forget -> -1 [] OTHER -> device[k]]
  /\ since' = ((since \ forget) \ {k \in cur : verdict(k) # "unknown"})
              \cup kept \cup {k \in cur : verdict(k) = "unknown"}
  /\ UNCHANGED <<downs, listed, loaded, open, stored, history>>

\* The runner applies the result: the engine, then forget.
Apply ==
  /\ pc = "result" /\ pc' = "idle" /\ out' = NoOut
  /\ open' = (((open \ out.good) \cup out.bad) \ out.forget)
  /\ raisedBy' = [k \in Keys |-> CASE k \in out.bad \ open -> out.by[k]
                                   [] k \in open' -> raisedBy[k]
                                   [] OTHER -> None]
  /\ ended' = ended \cup {k \in open : k \notin open' \cup out.told \cup out.good}
  /\ UNCHANGED <<reads, downs, listed, loaded, checkVars, stored, dropped>>

\* An abandoned run, or a tick the stop interrupts: the result is dropped.
DropResult ==
  /\ pc = "result" /\ pc' = "idle" /\ out' = NoOut
  /\ dropped' = dropped \cup out.forget
  /\ UNCHANGED <<reads, downs, listed, loaded, checkVars, open, stored, raisedBy, ended>>

-----------------------------------------------------------------------------
(* The process *)

\* Load: the engine merges, Restore replaces, perhaps after a few runs.
Load ==
  /\ pc = "idle" /\ ~loaded /\ loaded' = TRUE
  /\ IF stored.any THEN seen' = stored.seen /\ device' = stored.device /\ since' = stored.since
                   ELSE UNCHANGED checkVars
  /\ open' = open \cup stored.open
  /\ dropped' = dropped \cup (open \ seen')
  /\ UNCHANGED <<reads, downs, listed, pc, out, stored, raisedBy, ended>>

\* Export, with the conditions
Save ==
  /\ pc = "idle" /\ loaded /\ downs < MaxDown
  /\ stored' = [any |-> TRUE, seen |-> seen, device |-> device, since |-> since, open |-> open]
  /\ UNCHANGED <<reads, downs, listed, loaded, pc, checkVars, out, open, history>>

\* The process ends; another starts, with other board_sensors perhaps.
Restart(l) ==
  /\ downs < MaxDown /\ downs' = downs + 1
  /\ listed' = l /\ loaded' = FALSE
  /\ pc' = "idle"
  /\ seen' = {} /\ device' = Fresh.device /\ since' = {} /\ out' = NoOut /\ open' = {}
  /\ raisedBy' = NoOut.by
  /\ UNCHANGED <<reads, stored, ended, dropped>>

Next ==
  \/ \E l \in Layouts : \E v \in [l -> {"good", "bad", "unknown"}] : Run(v, TRUE, "error")
  \/ \E g \in {"good", "bad", "unknown", "none", "absent", "error"} : Run(<<>>, FALSE, g)
  \/ Apply \/ DropResult \/ Load \/ Save
  \/ \E l \in BOOLEAN : Restart(l)

Spec == Init /\ [][Next]_vars

-----------------------------------------------------------------------------
(* Properties *)

TypeOK ==
  /\ pc \in {"idle", "result"} /\ seen \subseteq Keys /\ open \subseteq Keys
  /\ device \in [Keys -> Devices \cup {-1}] /\ since \subseteq seen

\* No open problem ends without a word: its sensor reads good, or an event says that
\* it is gone or no longer judged.  And once the state is loaded, every open problem
\* belongs to a sensor the check still follows, so that it can end; unless the result
\* that said so was dropped, or a late load replaced what the check follows.
EndsAreTold ==
  /\ ended = {}
  /\ loaded /\ pc = "idle" => open \subseteq seen \cup dropped

\* A problem is resolved by the chip that raised it, although two sensors share a
\* name and one of them cannot be read, as long as the chips in the read are the
\* same as when it was raised.
ResolvedByItsOwn ==
  pc = "result" /\ pc' = "idle" =>
       \A k \in (open \cap out.good) \ open' :
         raisedBy[k] = out.by[k] \/ raisedBy[k] = None \/ raisedBy[k][2] # out.by[k][2]
=============================================================================
