------------------------------ MODULE Recorder ------------------------------
(***************************************************************************)
(* The dialog of the system recorder (features/debug-recording.js): it     *)
(* switches the recorder of the device on and off for good, starts a new   *)
(* recording, and prepares a copy of the recording ahead of the click that *)
(* puts it on the clipboard.  Status polls go on all the while.            *)
(***************************************************************************)
EXTENDS Naturals

CONSTANTS
  MaxChoices,   \* bound: changes the user asks for
  MaxJolts      \* bound: restarts of the device, and changes by another client

VARIABLES
  recorder,  \* the device: enabled_, its flash, the recording, the boot
  panel,     \* the page: open or not, busy, known status, pending choice
  reads,     \* status requests under way: of the dialog, of the poll timer
  setting,   \* the change under way (debugRecordingMutationInFlight)
  copy,      \* preparedDebugRecordingCopy
  said,      \* the last notice, and whether another client came after it
  misled,    \* a copy was of an earlier recording than the one shown
  luck       \* what the bounds leave

vars == <<recorder, panel, reads, setting, copy, said, misled, luck>>

Readers   == {"dialog", "timer"}
NoRead    == [ stage |-> "idle", old |-> FALSE, on |-> TRUE, rec |-> 0, boot |-> 0 ]
NoSetting == [ stage |-> "idle", kind |-> "none", was |-> 0 ]
NoCopy    == [ stage |-> "none", text |-> 0 ]
NoNotice  == [ kind |-> "none", jolted |-> FALSE ]

Status == [ on |-> recorder.on, rec |-> recorder.rec, boot |-> recorder.boot ]

(* The choice a change is about; a change has a kind.                      *)
Kinds == {"enable", "disable", "restart"}
Wants(k) == k = "enable"

Changing == setting # NoSetting

-----------------------------------------------------------------------------
(* The known status, and the poll                                          *)

(* scheduleDebugRecordingDeviceStatusPoll; recording and enabled are one.  *)
Scheduled(p) == [p EXCEPT !.timer = p.status.on \/ p.open]

(* applyDebugRecordingDeviceStatus: another recording spoils the copy.     *)
CopyAfter(s) == IF s.rec # panel.status.rec THEN NoCopy ELSE copy

(* prepareDebugRecordingCopy, with what the dialog then knows.             *)
Prepared(c, open) == IF ~open THEN NoCopy ELSE IF c = NoCopy THEN [c EXCEPT !.stage = "loading"] ELSE c

Asked == [ stage |-> "sent", old |-> FALSE, on |-> recorder.on, rec |-> recorder.rec,
           boot |-> recorder.boot ]

(* refreshDebugRecordingDeviceStatus: barred during a change.  An answer   *)
(* holds what was so when the device gave it, however late it arrives.     *)
Open ==
  /\ ~panel.open
  /\ panel' = [panel EXCEPT !.open = TRUE, !.asks = FALSE, !.busy = @ \/ ~Changing]
  /\ reads' = IF Changing THEN reads ELSE [reads EXCEPT !["dialog"] = Asked]
  /\ reads["dialog"] = NoRead
  /\ copy' = NoCopy /\ said' = NoNotice
  /\ UNCHANGED <<recorder, setting, misled, luck>>

Close ==
  /\ panel.open
  /\ panel' = Scheduled([panel EXCEPT !.open = FALSE, !.timer = FALSE])
  /\ copy' = NoCopy
  /\ UNCHANGED <<recorder, reads, setting, said, misled, luck>>

TimerFires ==
  /\ panel.timer /\ reads["timer"] = NoRead
  /\ panel' = [panel EXCEPT !.timer = FALSE]
  /\ reads' = IF Changing THEN reads ELSE [reads EXCEPT !["timer"] = Asked]
  /\ UNCHANGED <<recorder, setting, copy, said, misled, luck>>

(* An answer from before a change is dropped (the generation differs).     *)
ReadEnds(r) ==
  /\ reads[r] # NoRead
  /\ LET s    == [ on |-> reads[r].on, rec |-> reads[r].rec, boot |-> reads[r].boot ]
         free == [panel EXCEPT !.busy = @ /\ r # "dialog"]
     IN IF reads[r].old THEN UNCHANGED <<panel, copy>>
        ELSE \/ /\ panel' = Scheduled([free EXCEPT !.status = s])
                /\ copy' = Prepared(CopyAfter(s), panel.open)
             \/ panel' = Scheduled(free) /\ UNCHANGED copy
  /\ reads' = [reads EXCEPT ![r] = NoRead]
  /\ UNCHANGED <<recorder, setting, said, misled, luck>>

-----------------------------------------------------------------------------
(* Changes                                                                 *)

Free == panel.open /\ ~panel.busy /\ ~Changing

(* requestSystemRecorderDisable: switching off is confirmed first.         *)
Request ==
  /\ Free /\ panel.pending = "none" /\ panel.status.on /\ ~panel.asks
  /\ panel' = [panel EXCEPT !.asks = TRUE] /\ said' = NoNotice
  /\ UNCHANGED <<recorder, reads, setting, copy, misled, luck>>

May(k) ==
  CASE k = "restart" -> panel.pending = "none" /\ panel.status.on
    [] k = "enable"  -> panel.pending = "enable" \/ (panel.pending = "none" /\ ~panel.status.on)
    [] k = "disable" -> panel.pending = "disable" \/ (panel.pending = "none" /\ panel.asks)

(* setSystemRecorderEnabled, retrySystemRecorderEnabled,                   *)
(* restartRollingDebugRecording: what was asked before is out of date.     *)
StartChange(k) ==
  /\ Free /\ May(k) /\ luck.choices > 0
  /\ luck' = [luck EXCEPT !.choices = @ - 1]
  /\ setting' = [ stage |-> "post", kind |-> k, was |-> panel.status.rec ]
  /\ panel' = [panel EXCEPT !.busy = TRUE, !.asks = FALSE, !.timer = FALSE,
                 !.pending = IF k = "restart" THEN @ ELSE k]
  /\ reads' = [r \in Readers |-> IF reads[r] = NoRead THEN NoRead ELSE [reads[r] EXCEPT !.old = TRUE]]
  /\ copy' = NoCopy /\ said' = NoNotice
  /\ UNCHANGED <<recorder, misled>>

(* postDebugRecordingDevice: a token of an earlier boot is refused, and    *)
(* the status read again.                                                  *)
NewToken ==
  /\ setting.stage = "post" /\ panel.status.boot # recorder.boot
  /\ panel' = [panel EXCEPT !.status = Status]
  /\ copy' = CopyAfter(Status)
  /\ UNCHANGED <<recorder, reads, setting, said, misled, luck>>

Fresh(d) == [d EXCEPT !.rec = @ + 1]

(* set_enabled and restart_rolling: what cannot be stored for sure leaves  *)
(* the recorder as it was, and the flash in doubt.                         *)
Handles(k) ==
  LET v == Wants(k)
  IN IF k = "restart" THEN recorder.on /\ recorder' = Fresh(recorder)
     ELSE recorder' = LET d == [recorder EXCEPT !.on = v, !.flash = v, !.dirty = FALSE]
                      IN IF v /\ ~recorder.on THEN Fresh(d) ELSE d

Spoils(k) == \E f \in {Wants(k), recorder.flash} :
               k # "restart" /\ (Wants(k) # recorder.on \/ recorder.dirty)
               /\ recorder' = [recorder EXCEPT !.flash = f, !.dirty = TRUE]

Ended(p) == Scheduled([p EXCEPT !.busy = FALSE])

(* Only the answer to a change tells that it is stored.                    *)
PostAnswered ==
  /\ setting.stage = "post" /\ panel.status.boot = recorder.boot
  /\ Handles(setting.kind)
  /\ panel' = Ended([panel EXCEPT !.status = Status',
                       !.pending = IF setting.kind = "restart" THEN @ ELSE "none"])
  /\ copy' = CopyAfter(Status')
  /\ said' = [ kind |-> setting.kind, jolted |-> FALSE ]
  /\ setting' = NoSetting
  /\ UNCHANGED <<reads, misled, luck>>

(* A bug: a choice that the runtime state shows counts as stored.          *)
AfterFailure_AsShown ==
  \/ panel' = Ended(panel) /\ UNCHANGED said
  \/ /\ setting.kind # "restart" /\ Status'.on = Wants(setting.kind)
     /\ panel' = Ended([panel EXCEPT !.status = Status', !.pending = "none"])
     /\ said' = [ kind |-> setting.kind, jolted |-> FALSE ]

(* The catch blocks: a choice stays pending; a restart is looked up.       *)
AfterFailure ==
  \/ panel' = Ended(panel) /\ UNCHANGED said
  \/ /\ setting.kind = "restart"
     /\ panel' = Ended([panel EXCEPT !.status = Status'])
     /\ said' = IF Status'.on /\ Status'.rec # setting.was THEN [ kind |-> "restart", jolted |-> FALSE ] ELSE said

PostFails ==
  /\ setting.stage = "post"
  /\ UNCHANGED recorder \/ Handles(setting.kind) \/ Spoils(setting.kind)
  /\ AfterFailure
  /\ copy' = CopyAfter(panel'.status)
  /\ setting' = NoSetting
  /\ UNCHANGED <<reads, misled, luck>>

-----------------------------------------------------------------------------
(* The copy                                                                *)

CopyArrives ==
  /\ copy.stage = "loading"
  /\ \E ok \in BOOLEAN : copy' = IF ok THEN [ stage |-> "ready", text |-> recorder.rec ]
                                 ELSE [copy EXCEPT !.stage = "failed"]
  /\ UNCHANGED <<recorder, panel, reads, setting, said, misled, luck>>

(* setDebugRecordingDownloadRange, prepareDebugRecordingCopy.              *)
SelectRange ==
  /\ panel.open /\ ~panel.busy /\ copy.stage \in {"ready", "failed"}
  /\ copy' = Prepared(NoCopy, ~Changing) /\ said' = NoNotice
  /\ UNCHANGED <<recorder, panel, reads, setting, misled, luck>>

(* exportDebugRecordingBundle.                                             *)
Copy ==
  /\ panel.open /\ ~panel.busy /\ copy.stage = "ready"
  /\ misled' = (misled \/ copy.text < panel.status.rec)
  /\ said' = NoNotice
  /\ UNCHANGED <<recorder, panel, reads, setting, copy, luck>>

-----------------------------------------------------------------------------
(* A restart reads the choice back, or cannot; another client may choose.  *)
Jolt ==
  /\ luck.jolts > 0
  /\ luck' = [luck EXCEPT !.jolts = @ - 1]
  /\ \/ /\ \E ok \in BOOLEAN : recorder' = Fresh([recorder EXCEPT !.boot = @ + 1, !.dirty = ~ok,
                                                    !.on = IF ok THEN recorder.flash ELSE TRUE])
        /\ UNCHANGED said
     \/ /\ \E k \in Kinds : Handles(k)
        /\ said' = [said EXCEPT !.jolted = TRUE]
  /\ UNCHANGED <<panel, reads, setting, copy, misled>>

Init ==
  /\ recorder = [ on |-> TRUE, flash |-> TRUE, dirty |-> FALSE, rec |-> 1, boot |-> 1 ]
  /\ panel = [ open |-> FALSE, busy |-> FALSE, asks |-> FALSE, timer |-> TRUE, pending |-> "none",
               status |-> Status ]
  /\ reads = [r \in Readers |-> NoRead]
  /\ setting = NoSetting /\ copy = NoCopy /\ said = NoNotice
  /\ misled = FALSE
  /\ luck = [ choices |-> MaxChoices, jolts |-> MaxJolts ]

Next ==
  \/ Open \/ Close \/ TimerFires \/ (\E r \in Readers : ReadEnds(r))
  \/ Request \/ (\E k \in Kinds : StartChange(k)) \/ NewToken \/ PostAnswered \/ PostFails
  \/ CopyArrives \/ SelectRange \/ Copy \/ Jolt

Spec == Init /\ [][Next]_vars

-----------------------------------------------------------------------------
(* "Enabled" and "disabled" are only reported when the choice is in flash, *)
(* whatever failed and restarted in between (setSystemRecorderEnabled);    *)
(* what is copied is never of an earlier recording than the one shown      *)
(* (getPreparedDebugRecordingCopy); and while the recorder's dialog is     *)
(* open its status is polled (refreshDebugRecordingDeviceStatus).          *)
RecorderTold ==
  /\ said.kind \in {"enable", "disable"} /\ ~said.jolted => recorder.flash = Wants(said.kind)
  /\ ~misled
  /\ panel.open /\ ~Changing =>
       panel.timer \/ \E r \in Readers : reads[r] # NoRead /\ ~reads[r].old
=============================================================================
