----------------------------- MODULE LoginDialog -----------------------------
(***************************************************************************)
(* The login of the device and the two resets only an administrator may    *)
(* ask for (features/security-actions.js, security-access.js).  The page   *)
(* keeps a copy of the login's status, polls it while the login dialog is  *)
(* open, and posts changes with the token of the session it saw.  A reset  *)
(* wipes credentials and restarts the device, so its answer may be lost.   *)
(***************************************************************************)
EXTENDS Naturals

CONSTANTS
  MaxForms,    \* bound: changes of the login, and forms filled in
  MaxResets,   \* bound: resets asked for
  MaxOutside   \* bound: restarts, and changes of the login from elsewhere

Lookers == {"opening", "settling", "polling"}
Resets  == {"api", "wifi"}

VARIABLES
  door,   \* the device: session, login, the reset it accepted, resets done
  sheet,  \* the page: dialog, status, form, what it says, the poll's timer
  peeks,  \* status requests under way
  knock,  \* the change of the login being posted
  wipe,   \* the reset: asked for, accepted, or over
  beats   \* what the bounds leave

vars == <<door, sheet, peeks, knock, wipe, beats>>

Unseen  == [ boot |-> 0, on |-> FALSE ]
Empty   == [ current |-> "", fresh |-> FALSE ]
NoPeek  == [ open |-> FALSE, status |-> Unseen ]
NoKnock == [ act |-> "none", boot |-> 0, current |-> "" ]
NoWipe  == [ act |-> "none", stage |-> "free", boot |-> 0 ]

Status(d) == [ boot |-> d.boot, on |-> d.on ]

-----------------------------------------------------------------------------
(* The status: refreshAuthStatus                                           *)

Look(r, d) == peeks' = [peeks EXCEPT ![r] = [ open |-> TRUE, status |-> Status(d) ]]

(* Any change of the status empties the form, also while it is filled in.  *)
Refreshed(s, status) ==
  IF status = s.status THEN s ELSE [s EXCEPT !.status = status, !.form = Empty]

(* commitWebAuthChanges and commitDisableWebAuth, after their refresh.     *)
Settled(s) == [s EXCEPT !.form = Empty, !.said = s.doing, !.doing = "none", !.busy = FALSE]

(* scheduleLoginAuthStatusPolling                                          *)
PeekEnds(r) ==
  /\ peeks[r].open
  /\ \E s \in {sheet, Refreshed(sheet, peeks[r].status)} :
       sheet' = IF r = "settling" THEN Settled(s) ELSE [s EXCEPT !.timer = s.open]
  /\ peeks' = [peeks EXCEPT ![r] = NoPeek]
  /\ UNCHANGED <<door, knock, wipe, beats>>

TimerFires ==
  /\ sheet.timer /\ ~peeks["polling"].open
  /\ sheet' = [sheet EXCEPT !.timer = FALSE]
  /\ Look("polling", door)
  /\ UNCHANGED <<door, knock, wipe, beats>>

-----------------------------------------------------------------------------
(* The dialog                                                              *)

Open ==
  /\ ~sheet.open /\ ~peeks["opening"].open /\ beats.forms < MaxForms
  /\ beats' = [beats EXCEPT !.forms = @ + 1]
  /\ sheet' = [sheet EXCEPT !.open = TRUE, !.form = Empty, !.said = "none"]
  /\ Look("opening", door)
  /\ UNCHANGED <<door, knock, wipe>>

(* closeSystemModal: the dialog's cross is there while it is busy.         *)
Close ==
  /\ sheet.open
  /\ sheet' = [sheet EXCEPT !.open = FALSE, !.timer = FALSE, !.form = Empty, !.said = "none"]
  /\ UNCHANGED <<door, peeks, knock, wipe, beats>>

Fill ==
  /\ sheet.open /\ sheet.status.on /\ ~sheet.busy /\ beats.forms < MaxForms
  /\ beats' = [beats EXCEPT !.forms = @ + 1]
  /\ sheet' \in {[sheet EXCEPT !.form = [ current |-> c, fresh |-> n ]]
                   : c \in {"right", "wrong"}, n \in BOOLEAN}
  /\ UNCHANGED <<door, peeks, knock, wipe>>

(* A change needs the new login; a login can only be set up while there    *)
(* is one, as the device has no setup window any more.                     *)
Post(act) ==
  /\ sheet.open /\ ~sheet.busy /\ sheet.status.on /\ sheet.form.current # ""
  /\ act = "changed" => sheet.form.fresh
  /\ sheet' = [sheet EXCEPT !.busy = TRUE, !.doing = act, !.said = "none"]
  /\ knock' = [ act |-> act, boot |-> sheet.status.boot, current |-> sheet.form.current ]
  /\ UNCHANGED <<door, peeks, wipe, beats>>

Done(ok) == ok

(* OpenQuattWebAuth: the token, the current password, and the preference   *)
(* that is written before the answer.                                      *)
PostEnds ==
  /\ knock # NoKnock
  /\ \E taken, ok \in BOOLEAN :
       /\ ok => taken
       /\ taken => knock.boot = door.boot /\ door.on /\ knock.current = "right"
       /\ door' = IF taken THEN [door EXCEPT !.on = knock.act = "changed", !.did = knock.act]
                  ELSE [door EXCEPT !.did = "none"]
       /\ IF Done(ok)
          THEN Look("settling", door') /\ UNCHANGED sheet
          ELSE sheet' = [sheet EXCEPT !.busy = FALSE, !.doing = "none"] /\ UNCHANGED peeks
  /\ knock' = NoKnock
  /\ UNCHANGED <<wipe, beats>>

-----------------------------------------------------------------------------
(* The resets: resetCredentials                                            *)

(* Both buttons wait for either reset.                                     *)
AskReset ==
  /\ wipe.stage = "free" /\ sheet.status.on /\ beats.resets < MaxResets
  /\ beats' = [beats EXCEPT !.resets = @ + 1]
  /\ \E r \in Resets : wipe' = [ act |-> r, stage |-> "sent", boot |-> sheet.status.boot ]
  /\ UNCHANGED <<door, sheet, peeks, knock>>

(* Never sent again after an answer that leaves open what was done.        *)
Unknown == [wipe EXCEPT !.stage = "unknown"]

(* OpenQuattRecovery: accepted with 202, for the main loop to carry out.   *)
ResetAnswered ==
  /\ wipe.stage = "sent"
  /\ \E taken, heard \in BOOLEAN :
       /\ taken => wipe.boot = door.boot /\ door.on /\ door.job = "none"
       /\ door' = IF taken THEN [door EXCEPT !.job = wipe.act, !.error = FALSE] ELSE door
       /\ wipe' = CASE ~heard         -> Unknown
                    [] heard /\ taken -> [wipe EXCEPT !.stage = "accepted"]
                    [] OTHER          -> NoWipe
  /\ UNCHANGED <<sheet, peeks, knock, beats>>

(* One look, a second later.                                               *)
LookBack ==
  /\ wipe.stage = "accepted"
  /\ wipe' \in {IF door.error THEN NoWipe ELSE [wipe EXCEPT !.stage = "requested"], Unknown}
  /\ UNCHANGED <<door, sheet, peeks, knock, beats>>

(* The main loop: wiped and restarted, or the wiping could not be stored.  *)
CarryOut ==
  /\ door.job # "none"
  /\ \/ door' = [door EXCEPT !.job = "none", !.wiped = @ + 1, !.boot = @ + 1]
     \/ door' = [door EXCEPT !.job = "none", !.error = TRUE]
  /\ UNCHANGED <<sheet, peeks, knock, wipe, beats>>

-----------------------------------------------------------------------------
(* A restart, which changes the token, or the login set or opened by the   *)
(* recovery page.                                                          *)
Outside ==
  /\ beats.outside < MaxOutside
  /\ beats' = [beats EXCEPT !.outside = @ + 1]
  /\ door' \in {[door EXCEPT !.boot = @ + 1, !.job = "none", !.error = FALSE], [door EXCEPT !.on = ~@]}
  /\ UNCHANGED <<sheet, peeks, knock, wipe>>

Init ==
  /\ door = [ boot |-> 1, on |-> TRUE, did |-> "none", job |-> "none", error |-> FALSE, wiped |-> 0 ]
  /\ sheet = [ open |-> FALSE, status |-> Unseen, form |-> Empty, busy |-> FALSE, doing |-> "none",
               said |-> "none", timer |-> FALSE ]
  /\ peeks = [r \in Lookers |-> NoPeek]
  /\ knock = NoKnock /\ wipe = NoWipe
  /\ beats = [ forms |-> 0, resets |-> 0, outside |-> 0 ]

Next == \/ TimerFires \/ Open \/ Close \/ Fill \/ PostEnds
        \/ AskReset \/ ResetAnswered \/ LookBack \/ CarryOut \/ Outside
        \/ \E r \in Lookers : PeekEnds(r)
        \/ \E act \in {"changed", "off"} : Post(act)

Spec == Init /\ [][Next]_vars
-----------------------------------------------------------------------------
(* Safety: credentials are wiped at most once, however often the buttons   *)
(* are pressed and whatever answers get lost; and the dialog only says the *)
(* login was changed or switched off when the device did just that.        *)
AccessAsAsked ==
  /\ door.wiped <= 1
  /\ sheet.said # "none" => sheet.said = door.did
=============================================================================
