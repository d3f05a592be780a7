------------------------------ MODULE MockTasks ------------------------------
(***************************************************************************)
(* The simulated device the web app is developed and previewed against     *)
(* (mock-device.js): commissioning mode CM100 with its timed tasks, manual *)
(* service modes and quick flow test, and the simulated firmware update.   *)
(* Every task is a chain of window timers set when its button is pressed;  *)
(* what another button then cancels, and what it leaves running, is what   *)
(* this module is about.                                                   *)
(***************************************************************************)
EXTENDS Naturals, Sequences

CONSTANT MaxPresses  \* bound: buttons, selections and controls used

(* The phases a task's timers bring, one after the other.                  *)
BoilerSteps      == <<"busy", "busy", "measuring", "done">>
AutotuneSteps    == <<"busy", "busy", "measuring", "done">>
PurgeSteps       == <<"busy", "busy", "busy", "done">>
CalibrationSteps == <<"busy", "measuring", "done">>

Chain == [ boiler |-> BoilerSteps, autotune |-> AutotuneSteps, purge |-> PurgeSteps,
           calibration |-> CalibrationSteps ]

TimedTask == DOMAIN Chain
Manual    == {"flow", "hp"}
Hps       == {1, 2}
OtaSteps  == 5
Targets   == {"current", "connection", "topology", "both"}
Channels  == {"main", "dev"}

VARIABLES
  bench,    \* CM100, task, phase, the "active" sensors that are on, enough flow shown
  timed,    \* the timed task whose steps are pending, and the next of them; or idle
  quick,    \* the quick flow test's timer is pending
  modes,    \* the manual service mode of each heat pump
  ota,      \* the update: status shown, steps done, and what it was asked for
  build,    \* connection, topology, channel and target shown
  presses

vars == <<bench, timed, quick, modes, ota, build, presses>>

taskVars == <<bench, timed, quick, modes>>
otaVars  == <<ota, build>>

NoSteps == [ task |-> "none", next |-> 0 ]
Resting == [h \in Hps |-> "Standby"]

Press == presses < MaxPresses /\ presses' = presses + 1

-----------------------------------------------------------------------------
(* What is shown: syncCommissioningEntities                                *)

Active(b) == b.task # "none" /\ b.phase \in {"busy", "measuring", "active"}

(* Outside CM100 nothing is brought up to date.                            *)
Shown(b) ==
  IF ~b.cm THEN b
  ELSE [b EXCEPT !.lit  = {"cm"} \cup (IF Active(b) /\ b.task # "autotune" THEN {b.task} ELSE {})
                            \cup {f \in {"burner"} : b.task = "boiler" /\ b.phase = "measuring"},
                 !.flow = Active(b)]

(* applyScenario: without CM100 the flow is the scenario's.                *)
Applied(b) == {Shown(b)} \cup {[b EXCEPT !.flow = f] : f \in {x \in BOOLEAN : ~b.cm}}

Tick ==
  /\ bench' \in Applied(bench)
  /\ UNCHANGED <<timed, quick, modes, otaVars, presses>>

-----------------------------------------------------------------------------
(* CM100: the buttons of handleButtonPress                                 *)

Idle(cm, b) == [b EXCEPT !.cm = cm, !.task = "none", !.phase = "idle"]

Cm100(on) ==
  /\ bench' = [Idle(on, bench) EXCEPT !.lit = IF on THEN @ \cap {"cm"} ELSE {},
                                      !.flow = IF on THEN FALSE ELSE @]
  /\ timed' = NoSteps /\ quick' = FALSE /\ modes' = Resting

\* mutant: no test stops the quick test
StopsQuick_Never(t) == FALSE

StopsQuick(t) == t = "boiler"

(* Refused outside CM100.  Only the boiler test stops the quick test.      *)
StartTimed(t) ==
  /\ IF bench.cm
     THEN /\ bench' = [bench EXCEPT !.task = t, !.phase = "busy", !.flow = TRUE,
                                    !.lit = @ \cup ({t} \ {"autotune"})]
          /\ timed' = [ task |-> t, next |-> 1 ]
          /\ quick' = (quick /\ ~StopsQuick(t))
     ELSE UNCHANGED <<bench, timed, quick>>
  /\ UNCHANGED modes

AbortTimed(t) ==
  /\ bench' = [bench EXCEPT !.task = t, !.phase = "aborted",
                            !.flow = @ /\ t # "calibration",
                            !.lit = @ \ ({t} \cup {f \in {"burner"} : t = "boiler"})]
  /\ timed' = NoSteps
  /\ UNCHANGED <<quick, modes>>

(* The steps that are pending go on.                                       *)
ApplyTimed(t) ==
  /\ bench' = [bench EXCEPT !.task = t, !.phase = "applied"]
  /\ UNCHANGED <<timed, quick, modes>>

(* A manual mode cancels nothing.                                          *)
StartManual(k) ==
  /\ IF bench.cm
     THEN bench' = [bench EXCEPT !.task = k, !.phase = "active", !.flow = TRUE, !.lit = @ \cup {k}]
     ELSE UNCHANGED bench
  /\ modes' = IF bench.cm /\ k = "hp" THEN Resting ELSE modes
  /\ UNCHANGED <<timed, quick>>

AbortManual(k) ==
  /\ bench' = [bench EXCEPT !.task = k, !.phase = "aborted", !.flow = @ /\ k = "hp", !.lit = @ \ {k}]
  /\ modes' = IF k = "hp" THEN Resting ELSE modes
  /\ UNCHANGED <<timed, quick>>

StartQuick ==
  /\ IF bench.cm
     THEN /\ bench' = [bench EXCEPT !.task = "flow", !.phase = "active", !.flow = TRUE,
                                    !.lit = @ \cup {"flow"}]
          /\ timed' = NoSteps /\ quick' = TRUE
     ELSE UNCHANGED <<bench, timed, quick>>
  /\ UNCHANGED modes

(* Leaves CM100 altogether, and cancels whatever was started meanwhile.    *)
AbortQuick ==
  /\ bench' = [Idle(FALSE, bench) EXCEPT !.flow = FALSE, !.lit = @ \ {"cm", "flow"}]
  /\ timed' = NoSteps /\ quick' = FALSE
  /\ UNCHANGED modes

Agree(h, m) == \A o \in Hps \ {h} : modes[o] \in {"Standby", m}

(* handleSelectSet of a service mode: only while the manual task is the    *)
(* last one, with flow, and never against the other heat pump.             *)
SelectMode(h, m) ==
  /\ IF m = "Standby" \/ (bench.task = "hp" /\ bench.flow /\ Agree(h, m))
     THEN modes' = [modes EXCEPT ![h] = m] /\ bench' \in Applied(bench)
     ELSE bench' = Shown(bench) /\ UNCHANGED modes
  /\ UNCHANGED <<timed, quick>>

Button ==
  /\ Press
  /\ \/ \E on \in BOOLEAN : Cm100(on)
     \/ \E t \in TimedTask : StartTimed(t) \/ AbortTimed(t) \/ (t # "purge" /\ ApplyTimed(t))
     \/ \E k \in Manual : StartManual(k) \/ AbortManual(k)
     \/ StartQuick \/ AbortQuick
     \/ \E h \in Hps, m \in {"Standby", "Heating", "Cooling"} : SelectMode(h, m)
  /\ UNCHANGED otaVars

-----------------------------------------------------------------------------
(* The timers: scheduleCommissioningStep                                   *)

(* A task's steps, the last of which comes later than the end of a quick   *)
(* test that was running when the task was started.  A purge may end with  *)
(* CM100, as "Air purge return to Auto" says.                              *)
StepFires ==
  LET t == timed.task  done == timed.next = Len(Chain[t]) IN
  /\ timed # NoSteps /\ (done => ~quick)
  /\ \E leave \in {x \in BOOLEAN : x => done /\ t = "purge"} :
       bench' \in Applied([bench EXCEPT
         !.task = t, !.cm = @ /\ ~leave,
         !.phase = Chain[t][timed.next],
         !.lit = @ \ ((IF done THEN {t} ELSE {}) \cup (IF leave THEN {"cm"} ELSE {}))])
  /\ timed' = IF done THEN NoSteps ELSE [timed EXCEPT !.next = @ + 1]
  /\ UNCHANGED <<quick, modes, otaVars, presses>>

QuickEnds ==
  /\ quick /\ quick' = FALSE
  /\ bench' \in Applied([Idle(FALSE, bench) EXCEPT !.flow = FALSE, !.lit = @ \ {"cm", "flow"}])
  /\ UNCHANGED <<timed, modes, otaVars, presses>>

-----------------------------------------------------------------------------
(* The simulated firmware update                                           *)

NoUpdate == [ status |-> "Idle", done |-> 0, timers |-> FALSE, asked |-> "current", channel |-> "main" ]

Changes(target, what) == target \in {what, "both"}

(* handleUpdateInstall, pressed anew while one runs as well.               *)
Install ==
  /\ ota' = [ status |-> "Starting", done |-> 0, timers |-> TRUE, asked |-> build.target,
              channel |-> build.channel ]
  /\ build' = [build EXCEPT !.asked = [ alternate |-> Changes(build.target, "connection") # build.alternate,
                                        single |-> Changes(build.target, "topology") # build.single ]]

(* The check, and every choice of a channel or target, ends the update.    *)
Choose ==
  /\ ota' = NoUpdate
  /\ \/ UNCHANGED build
     \/ \E c \in Channels : build' = [build EXCEPT !.channel = c]
     \/ \E g \in Targets : build' = [build EXCEPT !.target = g]

(* setConnectionMode and setInstallationMode, from the preferred           *)
(* connection or the preview's controls: an update that runs goes on.      *)
Reconfigure ==
  /\ \/ \E c \in BOOLEAN : build' = [build EXCEPT !.alternate = c, !.target = "current"]
     \/ \E s \in BOOLEAN : build' = [build EXCEPT !.single = s]
  /\ UNCHANGED ota

UpdateUsed == Press /\ (Install \/ Choose \/ Reconfigure) /\ UNCHANGED taskVars

Statuses == <<"Uploading", "Uploading", "Uploading", "Rebooting">>

UpdateStep ==
  /\ ota.timers
  /\ IF ota.done = OtaSteps - 1
     THEN /\ ota' = NoUpdate
          /\ build' = [build EXCEPT !.alternate = build.asked.alternate, !.single = build.asked.single,
                                    !.target = "current"]
     ELSE /\ ota' = [ota EXCEPT !.done = @ + 1, !.status = Statuses[ota.done + 1]]
          /\ UNCHANGED build
  /\ UNCHANGED <<taskVars, presses>>

-----------------------------------------------------------------------------
Init ==
  /\ bench = [ cm |-> FALSE, task |-> "none", phase |-> "idle", lit |-> {}, flow |-> TRUE ]
  /\ timed = NoSteps /\ quick = FALSE /\ modes = Resting
  /\ ota = NoUpdate
  /\ build = [ alternate |-> FALSE, single |-> FALSE, channel |-> "dev", target |-> "current",
               asked |-> [ alternate |-> FALSE, single |-> FALSE ] ]
  /\ presses = 0

Next == Tick \/ Button \/ StepFires \/ QuickEnds \/ UpdateUsed \/ UpdateStep

Spec == Init /\ [][Next]_vars
-----------------------------------------------------------------------------
(* Safety: the boiler test never goes on after CM100 was left, whichever   *)
(* timer or button ended it; the quick test's timer never outlives CM100;  *)
(* the two heat pumps are never sent into opposite modes; and an update is *)
(* under way exactly while its timers are, on the channel it was asked for.*)
TasksEnd ==
  /\ timed.task = "boiler" \/ quick => bench.cm
  /\ "cm" \in bench.lit => bench.cm
  /\ \A g, h \in Hps : modes[g] # "Standby" /\ modes[h] # "Standby" => modes[g] = modes[h]
  /\ (ota.status = "Idle") = ~ota.timers
  /\ ota.timers => ota.channel = build.channel
=============================================================================
