------------------------------- MODULE WebApp -------------------------------
(***************************************************************************)
(* The web app as a whole (openquatt/web/js/src): the entity sync and,     *)
(* next to it, the parts of the app that drive the device, each with the   *)
(* state it keeps of its own (three of them in WebControls).  Those slices *)
(* are disjoint, so a behaviour is explored for one area at a time: `area` *)
(* is a bound.                                                             *)
(***************************************************************************)
EXTENDS EntitySync, WebControls

CONSTANTS
  Areas,                                         \* bound: the areas explored
  Setups, Latest, MaxPolls, MaxRequests, MaxFaults,             \* install
  Newest, MaxReads, MaxClicks, MaxReleases,                     \* modal
  MaxPresses, MaxUpsets,                                        \* service
  MaxLooks, MaxIds, MaxBoots,                                   \* incident
  MaxSlips                                                      \* restore

ASSUME WebAssumption == MaxIds \in Nat /\ Newest \in Nat /\ Latest \in Nat

VARIABLES
  area,
  host, page, refresh, stale, overlay, install, record, poll, press, budget,
  modal, entity, unit, feed, check, change, quota,
  plant, bells, report, pending, lock, pressing, upset, allowance,
  ask, late, rig, known, lookup, ran, ids,
  draft, house, mailbox, restore, slips

Install  == INSTANCE FirmwareInstall
Modal    == INSTANCE FirmwareModal
Service  == INSTANCE ServiceTasks
Incident == INSTANCE IncidentAction
Restore  == INSTANCE SettingsRestore

installVars  == <<host, page, refresh, stale, overlay, install, record, poll, press, budget>>
modalVars    == <<modal, entity, unit, feed, check, change, quota>>
serviceVars  == <<plant, bells, report, pending, lock, pressing, upset, allowance>>
incidentVars == <<ask, late, rig, known, lookup, ran, ids>>
restoreVars  == <<draft, house, mailbox, restore, slips>>

web == <<area, vars, installVars, modalVars, writesVars, serviceVars, incidentVars,
         restoreVars, toolsVars, quickVars>>

In(a) == area = a

-----------------------------------------------------------------------------
(* An area that is not explored keeps one of its initial states.           *)
WebInit ==
  /\ area \in Areas
  /\ Init /\ (In("sync") \/ surface.view = "overview")
  /\ Install!Init /\ host.build.setup = "single" /\ (In("install") \/ host.build.version = 0)
  /\ Modal!Init /\ (In("modal") \/ (unit.channel = "main" /\ unit.running.tag = "dev"))
  /\ Writes!Init /\ (In("writes") \/ unitval["a"] = 0)
  /\ Service!Init
  /\ Incident!Init
  /\ Restore!Init /\ (In("restore") \/ (house.source = "Disabled" /\ house.setup = "no"
                                        /\ draft = Restore!Bare))
  /\ Tools!Init /\ (In("tools") \/ tool = "dump")
  /\ Quick!Init

WebNext ==
  /\ UNCHANGED area
  /\ IF In("sync") THEN Next ELSE UNCHANGED vars
  /\ IF In("install") THEN Install!Next ELSE UNCHANGED installVars
  /\ IF In("modal") THEN Modal!Next ELSE UNCHANGED modalVars
  /\ IF In("writes") THEN Writes!Next ELSE UNCHANGED writesVars
  /\ IF In("service") THEN Service!Next ELSE UNCHANGED serviceVars
  /\ IF In("incident") THEN Incident!Next ELSE UNCHANGED incidentVars
  /\ IF In("restore") THEN Restore!Next ELSE UNCHANGED restoreVars
  /\ IF In("tools") THEN Tools!Next ELSE UNCHANGED toolsVars
  /\ IF In("quick") THEN Quick!Next ELSE UNCHANGED quickVars

WebSpec == WebInit /\ [][WebNext]_web

(* The fairness of the areas with a liveness property.                     *)
WebFairness ==
  /\ WF_vars(In("sync") /\ PollFires)
  /\ \A f \in 1 .. Fetches : WF_vars(In("sync") /\ FetchStep(f))
  /\ SF_vars(In("sync") /\ \E f \in 1 .. Fetches : ProbeOk(f))
  /\ SF_vars(In("sync") /\ \E f \in 1 .. Fetches : Answer(f))
  /\ SF_vars(In("sync") /\ \E f \in 1 .. Fetches : MergeAnswer(f))
  /\ WF_vars(In("sync") /\ (PostAcknowledged \/ ConfirmSave \/ SaveFails))
  /\ WF_vars(In("sync") /\ CommandEnds)
  /\ WF_vars(In("sync") /\ ResetInstall)
  /\ WF_installVars(In("install") /\ Install!LinkUp)
  /\ WF_installVars(In("install") /\ Install!UpdateStep)
  /\ WF_installVars(In("install") /\ Install!InstallStep /\ ~Install!StartInstall)
  /\ WF_installVars(In("install") /\ Install!PressStep /\ ~Install!PressRestart)
  /\ WF_installVars(In("install") /\ Install!PollAnswered)
  /\ WF_installVars(In("install") /\ Install!PollMerges)
  /\ WF_installVars(In("install") /\ Install!TimerStep)
  /\ WF_installVars(In("install") /\ Install!RecoveryTimer)
  /\ WF_serviceVars(In("service") /\ (Service!PressTaken \/ Service!PressFails))
  /\ WF_serviceVars(In("service") /\ Service!Poll)
  /\ WF_serviceVars(In("service") /\ Service!Handle)
  /\ WF_serviceVars(In("service") /\ Service!EnterCm100)
  /\ WF_serviceVars(In("service") /\ Service!TaskEnds)

FairWebSpec == WebSpec /\ WebFairness

-----------------------------------------------------------------------------
(* What is left alone in the end settles: the page shows what the device   *)
(* has (syncEntities), the overlay of a restart or an update goes away or  *)
(* the page is reloaded (device-reconnect.js), and no service task stays   *)
(* pending or locks the others (getSettingsServiceModel).  Left alone      *)
(* means: the page in view without a focus or an update, and no restart or *)
(* stop of the service mode from elsewhere.                                *)
Unsettled == CASE In("sync")    -> ~Current
               [] In("install") -> overlay.mode # ""
               [] In("service") -> lock # "" \/ pending # {}
               [] OTHER         -> FALSE
LeftAlone == IF In("sync") THEN Undisturbed ELSE ~upset

PageSettles == <>[]LeftAlone => <>[]~Unsettled

(* Whatever the app reports as installed is what the device runs: see      *)
(* FirmwareInstall (pollFirmwareInstallState, reconcileStored...).         *)
InstalledMeansRuns == Install!InstalledMeansRuns

(* Nothing is installed over a newer version without a confirmation of     *)
(* that very version: see FirmwareModal (installFirmwareUpdate).           *)
OnlyAsConfirmed == Modal!OnlyAsConfirmed

(* One confirmation of an incident is executed at most once in a boot, and *)
(* its outcome is reported: see IncidentAction (triggerIncidentAction).    *)
ConfirmedOnce == Incident!ConfirmedOnce

(* A half-restored backup leaves the device harmless: see SettingsRestore  *)
(* (restoreSettingsBackup).                                                *)
RestoreIsSafe == Restore!RestoreIsSafe
=============================================================================
