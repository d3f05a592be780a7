-------------------------- MODULE SettingsRestore --------------------------
(***************************************************************************)
(* Restoring a settings backup from the web app                            *)
(* (features/storage-history.js restoreSettingsBackup, core/               *)
(* entity-backup.js, core/settings-backup-domain.js): one setting after    *)
(* the other is written, some of them in an order and under guards that    *)
(* keep a half-restored device harmless.  Every write may fail, with or    *)
(* without effect.                                                         *)
(*                                                                         *)
(* The settings: the source and the two times of the cooling schedule, one *)
(* other source, which may be MQTT, the MQTT configuration, whether        *)
(* OpenQuatt is enabled, usage telemetry, and the completion of setup.     *)
(***************************************************************************)
EXTENDS Naturals, Sequences

CONSTANTS
  MaxSlips   \* bound: requests without an answer, or applied late

(* What a backup may say; "" where it says nothing.  The MQTT configuration *)
(* goes from the device's "own" to the one of the backup, disabled ("off"), *)
(* with its inputs ("inputs"), and then enabled ("on").                    *)
AllBackups ==
  [ source : {"", "Disabled", "Schedule", "MQTT"}, start : {"", "new"}, end : {"", "new"},
    other : {"", "new", "MQTT"}, mqtt : {"", "inputs", "on"}, enabled : {"", "on"},
    setup : {"", "no", "done"} ]

(* Bound: of those only these are restored, whose parts influence each     *)
(* other, and one that says nothing.                                       *)
Bare == [ source |-> "", start |-> "", end |-> "", other |-> "", mqtt |-> "", enabled |-> "", setup |-> "" ]

Backups ==
  {Bare} \cup
  {b \in AllBackups :
     /\ <<b.other, b.mqtt>> \in {<<"MQTT", "">>, <<"MQTT", "on">>, <<"new", "inputs">>}
     /\ b.setup = "done" <=> b.source = "Schedule" /\ b.start = "new" /\ b.end = "new"
     /\ b.enabled = "on" <=> b.setup = "done"
     /\ b.setup # "no"}

VARIABLES
  draft,    \* state.settingsBackupDraft
  house,    \* the settings of the device
  mailbox,  \* writes it has accepted and not applied
  restore,  \* where restoreSettingsBackup is, and its local variables
  slips     \* what the bound leaves

vars == <<draft, house, mailbox, restore, slips>>

Idle == [ at |-> "idle", guarded |-> "none", times |-> 0, mqtt |-> FALSE, ready |-> FALSE,
          wasDone |-> FALSE, safe |-> TRUE, applied |-> {} ]

-----------------------------------------------------------------------------
(* Requests                                                                *)

(* The settings once these writes are applied: the last one counts.        *)
Writes(writes, key) == {i \in DOMAIN writes : writes[i][1] = key}

Applied(h, writes) ==
  [key \in DOMAIN h |->
     IF Writes(writes, key) = {} THEN h[key]
     ELSE writes[CHOOSE i \in Writes(writes, key) : \A j \in Writes(writes, key) : j <= i][2]]

(* The device applies what it accepted in order, sooner or later.          *)
Drain(box) ==
  \E n \in 0 .. Len(box) :
    /\ house' = Applied(house, SubSeq(box, 1, n))
    /\ mailbox' = SubSeq(box, n + 1, Len(box))

Slip == slips > 0 /\ slips' = slips - 1

(* setEntityBackupValue                                                    *)
Set(key, value, ok) ==
  IF ok THEN Drain(Append(mailbox, <<key, value>>)) /\ UNCHANGED slips
  ELSE /\ Slip
       /\ house' = house
       /\ mailbox' \in {mailbox, Append(mailbox, <<key, value>>)}

(* setVerifiedCoolingValue and the like: the value is written and read     *)
(* back; it is not there yet when the write is not applied.                *)
SetVerified(key, value, ok) ==
  \/ /\ Drain(Append(mailbox, <<key, value>>))
     /\ ok <=> house'[key] = value
     /\ IF ok THEN UNCHANGED slips ELSE Slip
  \/ /\ ~ok /\ Slip
     /\ UNCHANGED house
     /\ mailbox' \in {mailbox, Append(mailbox, <<key, value>>)}

(* The MQTT requests are handled at once.                                  *)
PostMqtt(value, ok) ==
  /\ UNCHANGED mailbox
  /\ IF ok THEN house' = [house EXCEPT !.mqtt = value] /\ UNCHANGED slips
           ELSE house' \in {house, [house EXCEPT !.mqtt = value]} /\ Slip

No      == UNCHANGED <<house, mailbox, slips>>
Go(r)   == restore' = r /\ UNCHANGED draft
To(at)  == [restore EXCEPT !.at = at]
Took(key, at) == [To(at) EXCEPT !.applied = @ \cup {key}]
At(at)  == restore.at = at

(* guardCoolingSchedule                                                    *)
Guard(ok) == SetVerified("source", "Disabled", ok)
Told(ok)  == IF ok THEN "yes" ELSE "no"

-----------------------------------------------------------------------------
(* What changes the schedule calls for a guard: when the times or the      *)
(* schedule are restored, or another source while the schedule is active.  *)
NeedsGuard == draft.start # "" \/ draft.end # "" \/ draft.source = "Schedule"

Start ==
  /\ At("idle")
  /\ restore' = [Idle EXCEPT !.at = "guard", !.wasDone = house.setup = "done"]
  /\ UNCHANGED draft /\ No

FirstGuard ==
  /\ At("guard")
  /\ \/ /\ NeedsGuard \/ (draft.source # "" /\ house.source = "Schedule")
        /\ \E ok \in BOOLEAN : Guard(ok) /\ Go([To("mqtt") EXCEPT !.guarded = Told(ok)])
     \/ /\ ~NeedsGuard /\ (draft.source = "" \/ house.source # "Schedule")
        /\ Go(To("mqtt")) /\ No
     \/ /\ ~NeedsGuard /\ draft.source # ""      \* the read fails
        /\ \E ok \in BOOLEAN : Guard(ok) /\ Go([To("mqtt") EXCEPT !.guarded = Told(ok)])

(* prepareSettingsBackupMqttRestore: saved, but disabled.                  *)
PrepareMqtt ==
  /\ At("mqtt")
  /\ IF draft.mqtt = "" THEN Go(To("start")) /\ No
     ELSE \E ok \in BOOLEAN : PostMqtt("off", ok) /\ Go([To("start") EXCEPT !.mqtt = ok])

(* A time is written only behind a guard.                                  *)
RestoreTime(key, write, next) ==
  /\ At(key)
  /\ IF draft[key] = "" THEN Go(To(next)) /\ No
     ELSE \E ok \in BOOLEAN :
            /\ Guard(ok)
            /\ Go([To(IF ok THEN write ELSE next) EXCEPT !.guarded = Told(ok)])

WriteTime(key, write, next) ==
  /\ At(write)
  /\ \E ok \in BOOLEAN :
       /\ SetVerified(key, draft[key], ok)
       /\ Go(IF ok THEN [Took(key, next) EXCEPT !.times = @ + 1] ELSE To(next))

(* Any other setting; a source that becomes MQTT waits.                    *)
RestoreOther ==
  /\ At("other")
  /\ IF draft.other # "new" THEN Go(To("source")) /\ No
     ELSE \E ok \in BOOLEAN :
            Set("other", "new", ok) /\ Go(IF ok THEN Took("other", "source") ELSE To("source"))

(* A bug: one confirmed time is taken for both.                            *)
SourceAllowed_OneTime == restore.guarded = "yes" /\ (draft.source = "Schedule" => restore.times > 0)

(* The source of the schedule: last, and the schedule itself only when     *)
(* both times are confirmed.                                               *)
SourceAllowed == restore.guarded = "yes" /\ (draft.source = "Schedule" => restore.times = 2)

RestoreSource ==
  /\ At("source")
  /\ \/ draft.source \in {"", "MQTT"} /\ Go(To("finish")) /\ No
     \/ /\ draft.source \in {"Disabled", "Schedule"} /\ restore.guarded = "none"
        /\ \E ok \in BOOLEAN :
             /\ Set("source", draft.source, ok)
             /\ Go(IF ok THEN Took("source", "finish") ELSE To("finish"))
     \/ /\ draft.source \in {"Disabled", "Schedule"} /\ restore.guarded # "none"
        /\ IF SourceAllowed
           THEN \E ok \in BOOLEAN : Guard(ok) /\ Go(To(IF ok THEN "sourceWrite" ELSE "sourceUndo"))
           ELSE Go(To("sourceUndo")) /\ No

WriteSource ==
  /\ At("sourceWrite")
  /\ \E ok \in BOOLEAN :
       /\ SetVerified("source", draft.source, ok)
       /\ Go(IF ok THEN Took("source", "finish") ELSE To("sourceUndo"))

UndoSource(at, next) ==
  /\ At(at)
  /\ \E ok \in BOOLEAN : Guard(ok) /\ Go(To(next))

(* finishSettingsBackupMqttRestore                                         *)
FinishMqtt ==
  /\ At("finish")
  /\ IF ~restore.mqtt THEN Go(To("mqttOther")) /\ No
     ELSE \E ok \in BOOLEAN :
            /\ PostMqtt("inputs", ok)
            /\ Go(IF ~ok THEN To("mqttOther")
                  ELSE IF draft.mqtt = "on" THEN To("switchOn")
                  ELSE [Took("mqtt", "mqttOther") EXCEPT !.ready = TRUE])

EnableMqtt ==
  /\ At("switchOn")
  /\ \E ok \in BOOLEAN :
       /\ PostMqtt("on", ok)
       /\ Go(IF ok THEN [Took("mqtt", "mqttOther") EXCEPT !.ready = TRUE] ELSE To("mqttOther"))

(* The sources that become MQTT, when it is restored.                      *)
MqttOther ==
  /\ At("mqttOther")
  /\ IF draft.other # "MQTT" \/ ~restore.ready THEN Go(To("mqttSource")) /\ No
     ELSE \E ok \in BOOLEAN :
            /\ Set("other", "MQTT", ok)
            /\ Go(IF ok THEN Took("other", "mqttSource") ELSE To("mqttSource"))

MqttSource ==
  /\ At("mqttSource")
  /\ \/ (draft.source # "MQTT" \/ ~restore.ready \/ restore.guarded = "no") /\ Go(To("enable")) /\ No
     \/ /\ draft.source = "MQTT" /\ restore.ready /\ restore.guarded = "yes"
        /\ \E ok \in BOOLEAN : Guard(ok) /\ Go(To(IF ok THEN "mqttWrite" ELSE "enable"))
     \/ /\ draft.source = "MQTT" /\ restore.ready /\ restore.guarded = "none"
        /\ \E ok \in BOOLEAN :
             Set("source", "MQTT", ok) /\ Go(IF ok THEN Took("source", "enable") ELSE To("enable"))

WriteMqttSource ==
  /\ At("mqttWrite")
  /\ \E ok \in BOOLEAN :
       /\ SetVerified("source", "MQTT", ok)
       /\ Go(IF ok THEN Took("source", "enable") ELSE To("mqttUndo"))

-----------------------------------------------------------------------------
(* Control itself, telemetry, and the completion of setup                  *)

RestoreEnabled ==
  /\ At("enable")
  /\ IF draft.enabled = "" THEN Go(To("share")) /\ No
     ELSE \E ok \in BOOLEAN :
            /\ Set("enabled", draft.enabled, ok)
            /\ Go(IF ok THEN Took("enabled", "share") ELSE To("share"))

(* Completing setup must not start to share usage data: it is switched off *)
(* first, and that is read back.                                           *)
StopSharing ==
  /\ At("share")
  /\ IF draft.setup # "done" \/ restore.wasDone THEN Go(To("setup")) /\ No
     ELSE \/ Go([To("setup") EXCEPT !.safe = FALSE]) /\ No   \* the setting is missing
          \/ \E ok \in BOOLEAN :
               SetVerified("share", "off", ok) /\ Go([To("setup") EXCEPT !.safe = ok])

CompleteSetup ==
  /\ At("setup")
  /\ IF draft.setup # "done" \/ ~restore.safe THEN Go(To("done")) /\ No
     ELSE \E ok \in BOOLEAN :
            Set("setup", "done", ok) /\ Go(IF ok THEN Took("setup", "done") ELSE To("done"))

Apply ==
  /\ mailbox # <<>>
  /\ house' = Applied(house, <<Head(mailbox)>>) /\ mailbox' = Tail(mailbox)
  /\ UNCHANGED <<draft, restore, slips>>

Init ==
  /\ draft \in Backups
  /\ \E source \in {"Disabled", "Schedule"}, setup \in {"no", "done"} :
       house = [ source |-> source, start |-> "old", end |-> "old", other |-> "old",
                 mqtt |-> "own", enabled |-> "off", share |-> "on", setup |-> setup ]
  /\ mailbox = <<>> /\ restore = Idle /\ slips = MaxSlips

Next ==
  \/ Start \/ FirstGuard \/ PrepareMqtt
  \/ RestoreTime("start", "startWrite", "end") \/ WriteTime("start", "startWrite", "end")
  \/ RestoreTime("end", "endWrite", "other") \/ WriteTime("end", "endWrite", "other")
  \/ RestoreOther \/ RestoreSource \/ WriteSource \/ UndoSource("sourceUndo", "finish")
  \/ FinishMqtt \/ EnableMqtt \/ MqttOther \/ MqttSource \/ WriteMqttSource
  \/ UndoSource("mqttUndo", "enable")
  \/ RestoreEnabled \/ StopSharing \/ CompleteSetup \/ Apply

Spec == Init /\ [][Next]_vars

-----------------------------------------------------------------------------
(* Whatever fails, the device never cools by a schedule of one old and one *)
(* new time, no source is MQTT before MQTT is as the backup has it, and a  *)
(* setup is not completed with usage telemetry on; and what is reported as *)
(* applied is what the device has or will have (restoreSettingsBackup).    *)
Mqtt == IF draft.mqtt = "on" THEN "on" ELSE "inputs"
RestoreIsSafe ==
  /\ house.source = "Schedule" => house.start = house.end
  /\ "MQTT" \in {house.source, house.other} => draft.mqtt # "" /\ house.mqtt = Mqtt
  /\ house.setup = "done" => house.share = "off" \/ restore.wasDone \/ At("idle")
  /\ \A key \in restore.applied :
       Applied(house, mailbox)[key] = IF key = "mqtt" THEN Mqtt ELSE draft[key]
=============================================================================
