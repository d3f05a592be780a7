------------------------------ MODULE WebPanels ------------------------------
(***************************************************************************)
(* The panels and dialogs of the web app that stand on their own: each     *)
(* keeps a state of its own, talks to a service of the device of its own   *)
(* and shares nothing with the others.  So a behaviour is explored for one *)
(* area at a time: `area` is a bound.  The device's side of a posted MQTT  *)
(* configuration is the area "storage"; the areas "bench" and "services"    *)
(* are the mock device that the app is developed against.                  *)
(***************************************************************************)
EXTENDS MqttStorage

CONSTANTS
  Areas,                           \* bound: the areas explored
  MaxChoices, MaxJolts,            \* recorder
  MaxLines, MaxClears, MaxRuns,    \* logs
  MaxEdits, MaxHappenings,         \* mqtt
  MaxForms, MaxResets, MaxOutside, \* login
  MaxPresses, MaxRequests,         \* bench, services
  Units,                           \* the heat pumps of the replay
  MaxRecords, MaxTicks, MaxFaults, \* replay
  LastDay, Hours, MaxUse,          \* energy: its calendar
  MaxEvents                        \* energy

\* a calendar has a day, a day an hour
ASSUME PanelsAssumption ==
  LastDay \in Nat \ {0} /\ Hours \in Nat \ {0} /\ MaxUse \in Nat

VARIABLES
  area,
  recorder, panel, reads, setting, copy, said, misled, luck,
  journal, viewer, gets, clear, cleared, spare,
  pane, broker, form, asks, saving, flip, intent, steps,
  door, sheet, peeks, knock, wipe, beats,
  bench, timed, quick, modes, ota, build, presses,
  unit, serv, pending, profile, dump, tape, drill, guard, requests,
  era, plant, pump, archive, ran, still, faults, topic,
  clock, book, truth, upload, page, events, focus

Recorder == INSTANCE Recorder
Logs     == INSTANCE LogViewer
Mqtt     == INSTANCE MqttDialog
Login    == INSTANCE LoginDialog
Bench    == INSTANCE MockTasks
Services == INSTANCE MockServices
Replay   == INSTANCE ReplayHistory
Energy   == INSTANCE EnergyHistory

recorderVars == <<recorder, panel, reads, setting, copy, said, misled, luck>>
logsVars     == <<journal, viewer, gets, clear, cleared, spare>>
mqttVars     == <<pane, broker, form, asks, saving, flip, intent, steps>>
loginVars    == <<door, sheet, peeks, knock, wipe, beats>>
benchVars    == <<bench, timed, quick, modes, ota, build, presses>>
servicesVars == <<unit, serv, pending, profile, dump, tape, drill, guard,
                  requests>>
replayVars   == <<era, plant, pump, archive, ran, still, faults, topic>>
energyVars   == <<clock, book, truth, upload, page, events, focus>>

panels == <<area, vars, recorderVars, logsVars, mqttVars, loginVars,
            benchVars, servicesVars, replayVars, energyVars>>

In(a) == area = a

-----------------------------------------------------------------------------
(* An area that is not explored keeps one of its initial states.           *)
PanelsInit ==
  /\ area \in Areas
  /\ Init /\ (In("storage") \/ live = Default)
  /\ Recorder!Init
  /\ Logs!Init
  /\ Mqtt!Init /\ (In("mqtt") \/ pane = "settings")
  /\ Login!Init
  /\ Bench!Init
  /\ Services!Init
  /\ Replay!Init
  /\ In("replay") \/ (topic = "runs" /\ pump.is = "rest")
  /\ Energy!Init /\ (In("energy") \/ focus = "page")

PanelsNext ==
  /\ UNCHANGED area
  /\ IF In("storage") THEN Next ELSE UNCHANGED vars
  /\ IF In("recorder") THEN Recorder!Next ELSE UNCHANGED recorderVars
  /\ IF In("logs") THEN Logs!Next ELSE UNCHANGED logsVars
  /\ IF In("mqtt") THEN Mqtt!Next ELSE UNCHANGED mqttVars
  /\ IF In("login") THEN Login!Next ELSE UNCHANGED loginVars
  /\ IF In("bench") THEN Bench!Next ELSE UNCHANGED benchVars
  /\ IF In("services") THEN Services!Next ELSE UNCHANGED servicesVars
  /\ IF In("replay") THEN Replay!Next ELSE UNCHANGED replayVars
  /\ IF In("energy") THEN Energy!Next ELSE UNCHANGED energyVars

PanelsSpec == PanelsInit /\ [][PanelsNext]_panels

-----------------------------------------------------------------------------
(* What the recorder's dialog reports, shows and copies is so, lines of    *)
(* the log that were cleared do not come back, the MQTT dialogs keep what  *)
(* was typed and tell what was stored, and the login's resets wipe at most *)
(* once: see Recorder (setSystemRecorderEnabled,                           *)
(* getPreparedDebugRecordingCopy), LogViewer (clearWebServerLogOutput),    *)
(* MqttDialog (commitMqttConfig) and LoginDialog (resetCredentials).       *)
PanelsKeepFaith ==
  /\ In("recorder") => Recorder!RecorderTold
  /\ In("logs")     => Logs!LogsStayCleared
  /\ In("mqtt")     => Mqtt!SettingsAsTyped
  /\ In("login")    => Login!AccessAsAsked

(* What the page shows of the past is what happened, whatever the device's *)
(* archives lost, kept or imported: see ReplayHistory                      *)
(* (getConfirmedCompressorHistory, groupControlReplayStops) and            *)
(* EnergyHistory (write_history, import_history_records).                  *)
HistoryAsItWas ==
  /\ In("replay") => Replay!ReplayTrue
  /\ In("energy") => Energy!EnergyTrue

(* The mock device ends what it begins, as the device does: see MockTasks  *)
(* (scheduleCommissioningStep) and MockServices (the handlers of a unit's  *)
(* services).                                                              *)
MockHolds ==
  /\ In("bench")    => Bench!TasksEnd
  /\ In("services") => Services!ServicesHold
=============================================================================
