---------------------------- MODULE MockServices ----------------------------
(***************************************************************************)
(* The services of the simulated device (mock-device.js) that the page's   *)
(* own dialogs talk to: the tables, settings, defrost and dump of an       *)
(* outdoor unit, the recorder, the actions on incidents, and the login.    *)
(* A request is answered at once; what it starts is finished by a timer or *)
(* by a later read, and the preview's controls may change the unit or the  *)
(* scenario in between.                                                    *)
(***************************************************************************)
EXTENDS Naturals

CONSTANT MaxRequests  \* bound: requests and controls used

Services == {"table", "settings", "defrost"}
Modes    == 0..1
Phases   == 0..2
Hps      == {1, 2}

VARIABLES
  unit,    \* the outdoor unit: compressor running, its defrost active
  serv,    \* per service: busy, loaded, armed, state shown
  pending, \* per service: timers that are to finish a request, by what they do
  profile, \* settings: the desired and the actual value
  dump,    \* the EEPROM dump
  tape,    \* the recorder
  drill,   \* the incident scenario: phase, pending action, results, token
  guard,   \* the login: on, setup window, the password's and the token's number
  requests

vars == <<unit, serv, pending, profile, dump, tape, drill, guard, requests>>

unitVars == <<unit, serv, pending, profile>>

Fresh  == [ busy |-> FALSE, loaded |-> FALSE, armed |-> FALSE, state |-> "idle" ]
Quiet  == [ load |-> 0, write |-> 0, refuse |-> 0 ]
NoAct  == [ id |-> 0, hp |-> 1, reads |-> 0 ]

Ask == requests < MaxRequests /\ requests' = requests + 1

-----------------------------------------------------------------------------
(* The outdoor unit: handleMockOduRuntimeRequest, -SettingsRequest,        *)
(* -DefrostRequest                                                         *)

Free(s) == ~serv[s].busy

Load(s) ==
  /\ Free(s)
  /\ serv' = [serv EXCEPT ![s].busy = TRUE, ![s].armed = FALSE, ![s].state = "loading",
                         ![s].loaded = @ /\ s # "table"]
  /\ pending' = [pending EXCEPT ![s].load = @ + 1]
  /\ UNCHANGED <<unit, profile>>

Arm(on) ==
  /\ Free("table") /\ (on => serv["table"].loaded)
  /\ serv' = [serv EXCEPT !["table"].armed = on]
  /\ UNCHANGED <<unit, pending, profile>>

(* Looked at again when the timer fires: FinishTable.                      *)
Apply ==
  /\ Free("table") /\ serv["table"].loaded /\ serv["table"].armed
  /\ serv' = [serv EXCEPT !["table"].busy = TRUE, !["table"].state = "checking"]
  /\ pending' = [pending EXCEPT !["table"].write = @ + 1]
  /\ UNCHANGED <<unit, profile>>

Save(m) ==
  /\ Free("settings")
  /\ serv' = [serv EXCEPT !["settings"].busy = TRUE, !["settings"].state = "saving"]
  /\ profile' = [profile EXCEPT !.desired = m]
  /\ pending' = [pending EXCEPT !["settings"].write = @ + 1]
  /\ UNCHANGED unit

(* The mode expected, as the page last saw it, has to be the unit's, and   *)
(* the compressor may not run when it is asked.                            *)
SaveDefrost(m, expected) ==
  /\ Free("defrost") /\ serv["defrost"].loaded /\ expected = profile.defrost
  /\ CASE m = profile.defrost ->
            serv' = [serv EXCEPT !["defrost"].state = "saved"] /\ UNCHANGED <<pending, profile>>
       [] m # profile.defrost /\ unit.running ->
            /\ serv' = [serv EXCEPT !["defrost"].busy = TRUE, !["defrost"].state = "running"]
            /\ pending' = [pending EXCEPT !["defrost"].refuse = @ + 1]
            /\ UNCHANGED profile
       [] OTHER ->
            /\ serv' = [serv EXCEPT !["defrost"].busy = TRUE, !["defrost"].state = "checking"]
            /\ pending' = [pending EXCEPT !["defrost"].write = @ + 1]
            /\ profile' = [profile EXCEPT !.asked = m]
  /\ UNCHANGED unit

Trigger ==
  /\ Free("defrost")
  /\ serv' = [serv EXCEPT !["defrost"].busy = TRUE, !["defrost"].state = "triggering"]
  /\ pending' = [pending EXCEPT !["defrost"].refuse = @ + 1]
  /\ UNCHANGED <<unit, profile>>

Finish(s, kind, state) ==
  /\ pending[s][kind] > 0
  /\ pending' = [pending EXCEPT ![s][kind] = @ - 1]
  /\ serv' = [serv EXCEPT ![s].busy = FALSE, ![s].loaded = @ \/ kind = "load" \/ s = "settings",
                          ![s].armed = @ /\ state # "written", ![s].state = state]

FinishLoad == \E s \in Services : Finish(s, "load", "loaded") /\ UNCHANGED <<unit, profile>>

(* Written only in standby; what was armed stays so after a refusal.       *)
FinishTable ==
  /\ Finish("table", "write", IF unit.running THEN "blocked" ELSE "written")
  /\ UNCHANGED <<unit, profile>>

FinishSettings ==
  /\ Finish("settings", "write", "sync")
  /\ profile' = [profile EXCEPT !.actual = profile.desired]
  /\ UNCHANGED unit

CanTrigger == serv["defrost"].loaded /\ ~unit.defrosting /\ unit.running

FinishDefrost ==
  \/ /\ Finish("defrost", "write", "saved")
     /\ profile' = [profile EXCEPT !.defrost = profile.asked]
     /\ UNCHANGED unit
  \/ /\ serv["defrost"].state = "running" /\ Finish("defrost", "refuse", "running")
     /\ UNCHANGED <<unit, profile>>
  \/ /\ serv["defrost"].state = "triggering"
     /\ Finish("defrost", "refuse", IF CanTrigger THEN "active" ELSE "waiting")
     /\ unit' = [unit EXCEPT !.defrosting = @ \/ CanTrigger]
     /\ UNCHANGED profile

(* setMockOduGeneration: the table's and the defrost's record are replaced,*)
(* their timers act on the old ones; the settings' record is kept, with    *)
(* its timers.                                                             *)
OtherUnit(v) ==
  /\ unit' = [unit EXCEPT !.defrosting = FALSE]
  /\ serv' = [s \in Services |-> Fresh]
  /\ pending' = [pending EXCEPT !["table"] = Quiet, !["defrost"] = Quiet]
  /\ profile' = [profile EXCEPT !.actual = v, !.defrost = 0]

UnitAsked ==
  \/ \E s \in Services : Load(s)
  \/ \E on \in BOOLEAN : Arm(on)
  \/ Apply \/ Trigger
  \/ \E m \in Modes : Save(m) \/ \E e \in Modes : SaveDefrost(m, e)
  \/ \E v \in Modes : OtherUnit(v)
  \/ unit' = [unit EXCEPT !.running = ~@] /\ UNCHANGED <<serv, pending, profile>>

UnitFinishes == FinishLoad \/ FinishTable \/ FinishSettings \/ FinishDefrost

-----------------------------------------------------------------------------
(* The dump: its end is noticed by the first request after six seconds     *)

Noticed(d) == IF d.active /\ d.over THEN [d EXCEPT !.active = FALSE, !.ready = TRUE] ELSE d

DumpAsked ==
  \/ dump' = Noticed(dump)
  \/ dump' = IF Noticed(dump).active THEN dump
             ELSE [ active |-> TRUE, ready |-> FALSE, over |-> FALSE, job |-> dump.job + 1 ]

SixSeconds == dump.active /\ ~dump.over /\ dump' = [dump EXCEPT !.over = TRUE]

-----------------------------------------------------------------------------
(* The recorder: handleDebugRecording*.  The page needs the token of a     *)
(* status, and that read starts the recording a device starts by itself.   *)

Started(r) == [r EXCEPT !.enabled = TRUE, !.active = TRUE, !.id = requests + 1]

Configure(reset, found) ==
  /\ reset \/ tape.configuring
  /\ tape' = [tape EXCEPT !.configuring = TRUE, !.chosen = found \/ (~reset /\ @)]

Record ==
  /\ tape.enabled /\ tape.configuring /\ tape.chosen
  /\ tape' = [Started(tape) EXCEPT !.fields = TRUE, !.configuring = FALSE, !.chosen = FALSE]

Stop == tape' = [tape EXCEPT !.active = FALSE]

Restart == tape.enabled /\ tape' = [Started(tape) EXCEPT !.configuring = FALSE, !.chosen = FALSE]

(* Asked for what it already is, it keeps what it has.                     *)
Enable(on) ==
  tape' = CASE on = tape.enabled  -> tape
            [] on # tape.enabled /\ on -> Started(tape)
            [] OTHER -> [tape EXCEPT !.enabled = FALSE, !.active = FALSE]

TapeAsked ==
  \/ \E reset, found \in BOOLEAN : Configure(reset, found)
  \/ Record \/ Stop \/ Restart
  \/ \E on \in BOOLEAN : Enable(on)

-----------------------------------------------------------------------------
(* Incidents: handleIncidentAction, completePendingIncidentActionIfReady   *)

(* Some phases refuse the first token once; a second action takes the      *)
(* place of one that is still pending.                                     *)
Act(hp, token) ==
  /\ token = drill.token
  /\ drill' \in {[drill EXCEPT !.next = @ + 1, !.act = [ id |-> drill.next, hp |-> hp, reads |-> r ]]
                   : r \in 1..2}
       \cup {d \in {[drill EXCEPT !.refused = TRUE, !.token = @ + 1]} : ~drill.refused}

(* A read of the incidents counts, and the last one completes the action.  *)
Read ==
  /\ drill.act # NoAct
  /\ drill' \in IF drill.act.reads > 1 THEN {[drill EXCEPT !.act.reads = @ - 1]}
                ELSE {[drill EXCEPT !.act = NoAct, !.phase = p, !.results[drill.act.hp] = drill.act.id]
                        : p \in Phases}

(* configureIncidentScenario, setIncidentSimulationPhase                   *)
Stage(p) == drill' = [drill EXCEPT !.phase = p, !.act = NoAct, !.refused = FALSE,
                                   !.results = [h \in Hps |-> 0]]

DrillAsked ==
  \/ \E hp \in Hps, t \in {drill.token, drill.token - 1} : Act(hp, t)
  \/ \E p \in Phases : Stage(p)

-----------------------------------------------------------------------------
(* The login: handleAuthChange, handleAuthDisable, armAuthRecoveryWindow   *)

NewToken(g) == [g EXCEPT !.token = requests + 1, !.window = FALSE]

GuardAsked ==
  \/ /\ IF guard.on THEN TRUE ELSE guard.window
     /\ guard' = [NewToken(guard) EXCEPT !.on = TRUE, !.password = requests + 1]
  \/ /\ guard.on
     /\ guard' = [NewToken(guard) EXCEPT !.on = FALSE, !.password = 0]
  \/ guard' = [NewToken(guard) EXCEPT !.window = TRUE]

WindowCloses == guard.window /\ guard' = [guard EXCEPT !.window = FALSE]

-----------------------------------------------------------------------------
Init ==
  /\ unit = [ running |-> FALSE, defrosting |-> FALSE ]
  /\ serv = [s \in Services |-> Fresh]
  /\ pending = [s \in Services |-> Quiet]
  /\ profile = [ desired |-> 1, actual |-> 1, defrost |-> 0, asked |-> 0 ]
  /\ dump = [ active |-> FALSE, ready |-> FALSE, over |-> FALSE, job |-> 0 ]
  /\ tape = [ enabled |-> TRUE, active |-> TRUE, fields |-> TRUE, id |-> 0,
              configuring |-> FALSE, chosen |-> FALSE ]
  /\ drill = [ phase |-> 0, next |-> 1, act |-> NoAct, results |-> [h \in Hps |-> 0],
               token |-> 1, refused |-> FALSE ]
  /\ guard = [ on |-> FALSE, window |-> FALSE, password |-> 0, token |-> 0 ]
  /\ requests = 0

Next ==
  \/ Ask /\ UnitAsked /\ UNCHANGED <<dump, tape, drill, guard>>
  \/ UnitFinishes /\ UNCHANGED <<dump, tape, drill, guard, requests>>
  \/ Ask /\ DumpAsked /\ UNCHANGED <<unitVars, tape, drill, guard>>
  \/ SixSeconds /\ UNCHANGED <<unitVars, tape, drill, guard, requests>>
  \/ Ask /\ TapeAsked /\ UNCHANGED <<unitVars, dump, drill, guard>>
  \/ Ask /\ DrillAsked /\ UNCHANGED <<unitVars, dump, tape, guard>>
  \/ Read /\ UNCHANGED <<unitVars, dump, tape, guard, requests>>
  \/ Ask /\ GuardAsked /\ UNCHANGED <<unitVars, dump, tape, drill>>
  \/ WindowCloses /\ UNCHANGED <<unitVars, dump, tape, drill, requests>>

Spec == Init /\ [][Next]_vars
-----------------------------------------------------------------------------
(* Safety: whatever the preview's controls change underneath a request, no *)
(* service stays busy without a timer that will free it, a table's or a    *)
(* defrost's request is over with its own timer and no other's, writes are *)
(* armed only on a table that was read, and settings called in sync are    *)
(* so; the recorder never runs while it is disabled or has nothing to      *)
(* record; and a result is of an earlier action than the pending one.      *)
ServicesHold ==
  /\ \A s \in Services :
       LET waits == \E k \in DOMAIN Quiet : pending[s][k] > 0 IN
       IF s = "settings" THEN serv[s].busy => waits ELSE serv[s].busy = waits
  /\ serv["table"].armed => serv["table"].loaded
  /\ serv["settings"].state = "sync" => profile.actual = profile.desired
  /\ tape.active => tape.enabled /\ tape.fields
  /\ drill.act # NoAct => \A h \in Hps : drill.results[h] < drill.act.id
=============================================================================
