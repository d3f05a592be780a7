---------------------------- MODULE ServiceTasks ----------------------------
(***************************************************************************)
(* The service page of the web app (settings/service.js,                   *)
(* core/named-button-actions.js, triggerNamedButton): service mode CM100   *)
(* and the tasks run in it.  The page presses buttons of a device it only  *)
(* knows from statuses it reads later, and meanwhile keeps what it asked   *)
(* for as pending and locks the other tasks.                               *)
(*                                                                         *)
(* Three tasks stand for six: "timed" for boiler test, air purge and water *)
(* calibration, "autotune", and "manual" for manual flow and heat pump.    *)
(***************************************************************************)
EXTENDS Naturals, Sequences

CONSTANTS
  MaxPresses,  \* bound: buttons the user presses
  MaxUpsets    \* bound: restarts of the device and stops from elsewhere

Tasks  == {"timed", "autotune", "manual"}
Modes  == {"idle", "requested", "ready", "stopping", "refused"}
Phases == {"idle", "running", "ended"}        \* ended: done, failed, aborted, refused
Keys   == {"cm100"} \cup Tasks
Orders == {"start", "stop"}

VARIABLES
  plant,    \* the device: service mode, and the phase of each task
  bells,    \* presses it has accepted and not yet handled
  report,   \* the page's copy of the statuses
  pending,  \* state.pending...Start of each key
  lock,     \* state.commissioningTaskLock
  pressing, \* the press under way, state.busyAction
  upset,    \* the device was restarted, or stopped by another client
  allowance \* what the bounds leave

vars == <<plant, bells, report, pending, lock, pressing, upset, allowance>>

NoPress == [ key |-> "none", order |-> "none" ]
Resting == [ mode |-> "idle", phase |-> [t \in Tasks |-> "idle"] ]

-----------------------------------------------------------------------------
(* What the page makes of the statuses: getSettingsServiceModel            *)

(* getCommissioningStatusValue: a start still pending shows as requested.  *)
ShownMode(r, p) == IF r.mode = "idle" /\ "cm100" \in p THEN "requested" ELSE r.mode
Waiting(r, p)   == ShownMode(r, p) = "requested"
Ready(r, p)     == ShownMode(r, p) \in {"ready", "stopping"}

Running(t, r, p, l) ==
  r.phase[t] # "ended" /\ (r.phase[t] = "running" \/ t \in p \/ l = t)

(* Every render drops what the statuses answer: a pending start when its   *)
(* task runs or has ended, except that an autotune has to end; a lock when *)
(* its task has ended, or for a manual task also when it runs.             *)
Answered(t, r)  == r.phase[t] = "ended" \/ (t # "autotune" /\ r.phase[t] = "running")
(* A bug: a manual task, too, would have to end.                           *)
Unlocked_OnlyWhenEnded(t, r) == r.phase[t] = "ended"

Unlocked(t, r)  == r.phase[t] = "ended" \/ (t = "manual" /\ r.phase[t] = "running")
ModeKnown(r)    == r.mode \in {"ready", "stopping", "refused"}

Rendered(r, p, l) ==
  /\ report' = r
  /\ pending' = {k \in p : IF k = "cm100" THEN ~ModeKnown(r) ELSE ~Answered(k, r)}
  /\ lock' = IF l # "" /\ (IF l = "cm100" THEN ModeKnown(r) ELSE Unlocked(l, r)) THEN "" ELSE l

Busy == pressing.key

StartEnabled(k) ==
  IF k = "cm100"
  THEN Busy # "cm100" /\ lock # "cm100" /\ ~Ready(report, pending) /\ ~Waiting(report, pending)
  ELSE /\ Ready(report, pending) /\ Busy # k /\ k \notin pending
       /\ \A t \in Tasks : ~Running(t, report, pending, lock)
       /\ lock \in {"", "cm100", k}

StopEnabled(k) ==
  IF k = "cm100"
  THEN Busy # "cm100" /\ lock # "cm100" /\ ~Waiting(report, pending) /\ report.mode # "stopping"
  ELSE Busy # k /\ (Running(k, report, pending, lock) \/ lock = k \/ k \in pending)

-----------------------------------------------------------------------------
(* prepareCommissioningState, before the request is sent.                  *)
Prepared(k, order) ==
  CASE k = "cm100" /\ order = "start" -> Rendered(report, pending \cup {k}, k)
    [] k = "cm100" /\ order = "stop"  -> Rendered(report, {}, "")
    [] k # "cm100" /\ order = "start" -> Rendered(report, (pending \cap {"cm100"}) \cup {k}, k)
    [] k # "cm100" /\ order = "stop"  -> Rendered(report, pending, k)

Press ==
  /\ allowance.presses > 0 /\ pressing = NoPress
  /\ allowance' = [allowance EXCEPT !.presses = @ - 1]
  /\ \E k \in Keys, order \in Orders :
       /\ IF order = "start" THEN StartEnabled(k) ELSE StopEnabled(k)
       /\ Prepared(k, order)
       /\ pressing' = [ key |-> k, order |-> order ]
  /\ UNCHANGED <<plant, bells, upset>>

(* triggerNamedButton: accepted, and the statuses read again or not.       *)
PressTaken ==
  /\ pressing # NoPress
  /\ bells' = Append(bells, pressing)
  /\ \E r \in {report, plant} : Rendered(r, pending, lock)
  /\ pressing' = NoPress
  /\ UNCHANGED <<plant, upset, allowance>>

(* It fails, or its answer is lost: a start is no longer pending, and the  *)
(* lock is dropped; the lock of a stop stays.                              *)
PressFails ==
  /\ pressing # NoPress
  /\ bells' \in {bells, Append(bells, pressing)}
  /\ IF pressing.order = "start"
     THEN Rendered(report, pending \ {pressing.key}, "")
     ELSE Rendered(report, pending, lock)
  /\ pressing' = NoPress
  /\ UNCHANGED <<plant, upset, allowance>>

Poll ==
  /\ pressing = NoPress
  /\ Rendered(plant, pending, lock)
  /\ UNCHANGED <<plant, bells, pressing, upset, allowance>>

-----------------------------------------------------------------------------
(* The device: oq_commissioning.yaml, oq_service_runtime.h                 *)

Current == {t \in Tasks : plant.phase[t] = "running"}
Ended   == [t \in Tasks |-> IF t \in Current THEN "ended" ELSE plant.phase[t]]

Handled(b) ==
  CASE b.key = "cm100" /\ b.order = "start" ->
         {[plant EXCEPT !.mode = m] : m \in {"refused"} \cup IF Current = {} THEN {"requested"} ELSE {}}
    [] b.key = "cm100" /\ b.order = "stop" ->
         {[plant EXCEPT !.mode = IF Current # {} THEN "stopping" ELSE "idle"]}
    [] b.key # "cm100" /\ b.order = "start" ->
         {[plant EXCEPT !.phase[b.key] = IF Current = {} /\ plant.mode = "ready" THEN "running"
                                         ELSE IF @ = "running" THEN @ ELSE "ended"]}
    [] b.key # "cm100" /\ b.order = "stop" ->
         {[plant EXCEPT !.phase[b.key] = IF @ = "running" THEN "ended" ELSE @]}

Handle ==
  /\ bells # <<>>
  /\ plant' \in Handled(Head(bells)) /\ bells' = Tail(bells)
  /\ UNCHANGED <<report, pending, lock, pressing, upset, allowance>>

EnterCm100 ==
  /\ plant.mode = "requested"
  /\ plant' = [plant EXCEPT !.mode = "ready"]
  /\ UNCHANGED <<bells, report, pending, lock, pressing, upset, allowance>>

(* A task ends by itself, or because service mode is being stopped.        *)
TaskEnds ==
  /\ \E t \in Current :
       /\ t # "manual" \/ plant.mode = "stopping"
       /\ plant' = [plant EXCEPT !.phase = Ended,
                      !.mode = IF @ \in {"stopping", "refused"} THEN "ready" ELSE @]
  /\ UNCHANGED <<bells, report, pending, lock, pressing, upset, allowance>>

Upset ==
  /\ allowance.upsets > 0
  /\ allowance' = [allowance EXCEPT !.upsets = @ - 1]
  /\ upset' = TRUE
  /\ \/ plant' = Resting /\ bells' = <<>>
     \/ bells' = Append(bells, [ key |-> "cm100", order |-> "stop" ]) /\ UNCHANGED plant
  /\ UNCHANGED <<report, pending, lock, pressing>>

Init ==
  /\ plant = Resting /\ bells = <<>> /\ report = Resting
  /\ pending = {} /\ lock = "" /\ pressing = NoPress /\ upset = FALSE
  /\ allowance = [ presses |-> MaxPresses, upsets |-> MaxUpsets ]

PageStep  == PressTaken \/ PressFails \/ Poll
PlantStep == Handle \/ EnterCm100 \/ TaskEnds

Next == Press \/ PageStep \/ PlantStep \/ Upset

Spec == Init /\ [][Next]_vars

Fairness == WF_vars(PressTaken \/ PressFails) /\ WF_vars(Poll)
            /\ WF_vars(Handle) /\ WF_vars(EnterCm100) /\ WF_vars(TaskEnds)

=============================================================================
