----------------------------- MODULE MqttDialog -----------------------------
(***************************************************************************)
(* The MQTT settings of the web app (features/mqtt-actions.js, mqtt.js):   *)
(* a copy of the device's status that several requests refresh, a draft    *)
(* the user edits in a dialog, and the switches of the inputs.  What the   *)
(* device does with what is posted is in MqttStorage.                      *)
(***************************************************************************)
EXTENDS Naturals

CONSTANTS
  MaxEdits,  \* bound: edits, and switches set
  MaxHappenings  \* bound: dialogs opened, periodic reads, restarts, other clients

Brokers == {"", "mine"}
Secrets == {"", "old", "new"}
Readers == {"opening", "saving", "switching", "polling"}

VARIABLES
  pane,    \* bound: which of the two dialogs is used
  broker,  \* the device: session, stored configuration, one input's switch
  form,    \* the page: dialog, copy of the status, draft, what it says
  asks,    \* status requests under way
  saving,    \* the configuration being saved
  flip,  \* the input's switch being set
  intent,   \* what became of the user's intentions
  steps    \* what the bounds leave

vars == <<pane, broker, form, asks, saving, flip, intent, steps>>

Unread  == [ boot |-> 0, on |-> FALSE, name |-> "", secret |-> FALSE, input |-> TRUE ]
NoDraft == [ on |-> FALSE, name |-> "", secret |-> "", clear |-> FALSE ]
NoGet   == [ open |-> FALSE, status |-> Unread ]
NoPost  == [ boot |-> 0, draft |-> NoDraft ]
NoSwitch == [ open |-> FALSE, boot |-> 0, want |-> FALSE ]

Status(b) == [ boot |-> b.boot, on |-> b.on, name |-> b.name, secret |-> b.secret # "",
               input |-> b.input ]

(* syncMqttDraftsFromStatus                                                *)
DraftOf(s) == [NoDraft EXCEPT !.on = s.on, !.name = s.name]

-----------------------------------------------------------------------------
(* refreshMqttStatus                                                       *)

Ask(r, b) == asks' = [asks EXCEPT ![r] = [ open |-> TRUE, status |-> Status(b) ]]

Protected(f) == f.dialog = "settings" /\ f.dirty

Refreshed(f, s) ==
  LET told == [f EXCEPT !.status = s]
  IN IF s = f.status THEN told
     ELSE IF Protected(f) THEN [told EXCEPT !.saved = FALSE]
     ELSE [told EXCEPT !.saved = FALSE, !.draft = DraftOf(s), !.dirty = FALSE]

(* The reads of the periodic sync, for the page in view.                   *)
Poll ==
  /\ ~asks["polling"].open /\ steps.events < MaxHappenings
  /\ Ask("polling", broker)
  /\ steps' = [steps EXCEPT !.events = @ + 1]
  /\ UNCHANGED <<broker, form, saving, flip, intent>>

(* commitMqttConfig, after its refresh, whatever came of that.             *)
AfterSave(f) ==
  [f EXCEPT !.draft = [@ EXCEPT !.secret = "", !.clear = FALSE], !.saved = TRUE,
           !.busy = FALSE]

(* An answer is as old as its request, or there is none.                   *)
GetEnds(r) ==
  /\ asks[r].open
  /\ \E f \in {form, Refreshed(form, asks[r].status)} :
       form' = CASE r = "saving"    -> AfterSave(f)
                 [] r = "switching" -> [f EXCEPT !.setting = FALSE]
                 [] OTHER           -> f
  /\ asks' = [asks EXCEPT ![r] = NoGet]
  /\ intent' = [intent EXCEPT !.lie = @ \/ (r = "saving" /\ ~intent.stored),
                            !.asked = @ /\ r # "saving"]
  /\ UNCHANGED <<broker, saving, flip, steps>>

-----------------------------------------------------------------------------
(* The dialog                                                              *)

(* open-mqtt-modal and open-mqtt-sensors-modal                             *)
Open ==
  /\ form.dialog = "none" /\ ~asks["opening"].open /\ steps.events < MaxHappenings
  /\ steps' = [steps EXCEPT !.events = @ + 1]
  /\ form' = IF pane = "settings"
             THEN [form EXCEPT !.dialog = pane, !.draft = DraftOf(form.status), !.dirty = FALSE,
                               !.saved = FALSE]
             ELSE [form EXCEPT !.dialog = pane, !.saved = FALSE, !.setting = FALSE]
  /\ Ask("opening", broker)
  /\ intent' = [intent EXCEPT !.asked = @ /\ saving # NoPost, !.typed = NoDraft]
  /\ UNCHANGED <<broker, saving, flip>>

(* The dialog's cross is there while it is busy.                           *)
Close ==
  /\ form.dialog # "none"
  /\ form' = [form EXCEPT !.dialog = "none"]
  /\ UNCHANGED <<broker, asks, saving, flip, intent, steps>>

(* syncMqttDraftFromInput                                                  *)
Edits(d) == { [d EXCEPT !.on = ~@], [d EXCEPT !.clear = ~@, !.secret = ""] }
              \cup { [d EXCEPT !.name = b] : b \in Brokers }
              \cup { [d EXCEPT !.secret = s] : s \in {"", "new"} \cap {x \in Secrets : ~d.clear} }

Edit ==
  /\ form.dialog = "settings" /\ ~form.busy /\ steps.edits < MaxEdits
  /\ \E d \in Edits(form.draft) \ {form.draft} :
       /\ form' = [form EXCEPT !.draft = d, !.dirty = TRUE, !.saved = FALSE]
       /\ intent' = [intent EXCEPT !.typed = d, !.asked = d.clear]
  /\ steps' = [steps EXCEPT !.edits = @ + 1]
  /\ UNCHANGED <<broker, asks, saving, flip>>

-----------------------------------------------------------------------------
(* Saving: commitMqttConfig                                                *)

(* A configuration that is off and has no broker is removed.               *)
Removal(d) == ~d.on /\ d.name = ""

Save ==
  /\ form.dialog = "settings" /\ ~form.busy /\ form.status.boot # 0
  /\ form.draft.on => form.draft.name # ""
  /\ form' = [form EXCEPT !.busy = TRUE, !.saved = FALSE]
  /\ saving' = [ boot |-> form.status.boot, draft |-> form.draft ]
  /\ intent' = [intent EXCEPT !.stored = FALSE]
  /\ UNCHANGED <<broker, asks, flip, steps>>

(* set_runtime_config: an empty password keeps the one there is.           *)
SecretAfter(d) == IF Removal(d) \/ d.clear THEN "" ELSE IF d.secret = "" THEN broker.secret ELSE d.secret

Accepted(ok) == ok

(* The device takes it, which its answer may fail to tell, or it does not. *)
SaveEnds ==
  /\ saving # NoPost
  /\ \E taken, ok \in BOOLEAN :
       /\ ok => taken
       /\ taken => saving.boot = broker.boot
       /\ broker' = IF ~taken THEN broker
                    ELSE [broker EXCEPT !.on = saving.draft.on, !.name = saving.draft.name,
                                        !.secret = SecretAfter(saving.draft)]
       /\ IF Accepted(ok)
          THEN form' = [form EXCEPT !.dirty = FALSE] /\ Ask("saving", broker')
          ELSE form' = [form EXCEPT !.busy = FALSE] /\ UNCHANGED asks
       /\ intent' = [intent EXCEPT !.stored = taken,
                      !.typed = IF Accepted(ok) THEN NoDraft ELSE @,
                      !.lost = @ \/ (/\ broker.secret # "" /\ broker'.secret = ""
                                     /\ ~intent.asked /\ ~Removal(saving.draft))]
  /\ saving' = NoPost
  /\ UNCHANGED <<flip, steps>>

-----------------------------------------------------------------------------
(* The switches of the inputs: commitMqttInputEnabled and                  *)
(* commitMqttInputAcceptRetained                                           *)

Flip ==
  /\ form.dialog = "sensors" /\ ~form.setting /\ ~flip.open /\ ~asks["switching"].open
  /\ form.status.boot # 0 /\ steps.edits < MaxEdits
  /\ steps' = [steps EXCEPT !.edits = @ + 1]
  /\ flip' = [ open |-> TRUE, boot |-> form.status.boot, want |-> ~form.status.input ]
  /\ form' = [form EXCEPT !.setting = TRUE, !.saved = FALSE]
  /\ UNCHANGED <<broker, asks, saving, intent>>

FlipHandled ==
  /\ flip.open
  /\ \/ /\ flip.boot = broker.boot
        /\ broker' = [broker EXCEPT !.input = flip.want]
        /\ Ask("switching", broker') /\ UNCHANGED form
     \/ /\ form' = [form EXCEPT !.setting = FALSE]
        /\ UNCHANGED <<broker, asks>>
  /\ flip' = NoSwitch
  /\ UNCHANGED <<saving, intent, steps>>

-----------------------------------------------------------------------------
(* A restart, which changes the token, or another client's configuration.  *)
News ==
  /\ steps.events < MaxHappenings
  /\ steps' = [steps EXCEPT !.events = @ + 1]
  /\ \/ broker' = [broker EXCEPT !.boot = @ + 1]
     \/ broker' = [broker EXCEPT !.on = TRUE, !.name = "other", !.secret = "old"]
  /\ UNCHANGED <<form, asks, saving, flip, intent>>

Init ==
  /\ pane \in {"settings", "sensors"}
  /\ broker = [ boot |-> 1, on |-> FALSE, name |-> "mine", secret |-> "old", input |-> TRUE ]
  /\ form = [ dialog |-> "none", status |-> Unread, draft |-> NoDraft, dirty |-> FALSE,
              busy |-> FALSE, setting |-> FALSE, saved |-> FALSE ]
  /\ asks = [r \in Readers |-> NoGet]
  /\ saving = NoPost /\ flip = NoSwitch
  /\ intent = [ typed |-> NoDraft, asked |-> FALSE, stored |-> FALSE, lie |-> FALSE, lost |-> FALSE ]
  /\ steps = [ edits |-> 0, events |-> 0 ]

Next == /\ UNCHANGED pane
        /\ \/ Open \/ Poll \/ Close \/ Edit \/ Save \/ SaveEnds
           \/ Flip \/ FlipHandled \/ News \/ \E r \in Readers : GetEnds(r)

Spec == Init /\ [][Next]_vars
-----------------------------------------------------------------------------
(* Safety: what was typed in the dialog stays until it is saved or the     *)
(* dialog is closed, whatever status comes in; "saved" is only said of     *)
(* what the device took; a password is only lost when that was asked for.  *)
SettingsAsTyped ==
  /\ form.dialog = "settings" /\ intent.typed # NoDraft => form.draft = intent.typed
  /\ ~intent.lie
  /\ ~intent.lost
=============================================================================
