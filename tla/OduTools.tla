------------------------------ MODULE OduTools ------------------------------
(***************************************************************************)
(* The tools of the web app that talk to an outdoor unit                   *)
(* (features/odu-settings.js, odu-defrost.js, odu-runtime-frequency.js,    *)
(* odu-eeprom-dump.js): bottom plate settings, defrost method, compressor  *)
(* frequencies, memory dump.  Each keeps a copy of a status the device     *)
(* serves, lets the user edit what was loaded, and posts orders that the   *)
(* device carries out later, over a bus on which they may fail.            *)
(*                                                                         *)
(* One heat pump, and one value that stands for what a tool edits.         *)
(***************************************************************************)
EXTENDS Naturals

CONSTANTS
  MaxOrders,  \* bound: orders the user gives
  MaxStirs    \* bound: restarts, and orders of another client

Tools  == {"settings", "defrost", "frequency", "dump"}
Values == 1 .. 2          \* what the user may choose; 0: nothing loaded or chosen
Other  == 3               \* what another client chooses

VARIABLES
  tool,    \* the tool that is open
  odu,     \* the unit and the device's side of the tool
  desk,    \* the page: status, draft, confirmation, error, poll timer
  order,   \* the order under way: runOperation, toggleArm, startDump
  look,    \* the refresh under way
  word,    \* what the page last said was saved, and whether something came between
  spoilt,  \* an order replaced another value than its confirmation showed
  chances  \* what the bounds leave

vars == <<tool, odu, desk, order, look, word, spoilt, chances>>

NoJob   == [ act |-> "none", want |-> 0, expect |-> 0, shown |-> 0 ]
Fresh   == [ table |-> 0, armed |-> FALSE, job |-> NoJob, result |-> "ready" ]
NoOrder == [ stage |-> "idle", job |-> NoJob ]
NoAsk   == [ want |-> 0, expect |-> 0 ]

(* What the device serves: write_status.                                   *)
Status == [ busy |-> odu.job # NoJob, table |-> odu.table, armed |-> odu.armed,
            result |-> odu.result, boot |-> odu.boot ]
Unread == [ busy |-> FALSE, table |-> 0, armed |-> FALSE, result |-> "ready", boot |-> 0 ]
NoLook == [ open |-> FALSE, late |-> FALSE, status |-> Unread ]

-----------------------------------------------------------------------------
(* The page's copy of the status                                           *)

(* storeStatus.  A defrost draft that was saved is dropped; a draft of the *)
(* settings the user did not touch follows the status anyway.              *)
Stored(d, s) ==
  LET done == tool = "defrost" /\ s.result = "saved" /\ d.draft = s.table
  IN [d EXCEPT !.known = s, !.timer = tool = "dump" /\ s.busy,
               !.draft = IF done THEN 0 ELSE @, !.basis = IF done THEN 0 ELSE @]

(* The device answers at some moment; what counts is how long the answer   *)
(* takes to arrive.                                                        *)
StartLook ==
  /\ look = NoLook
  /\ tool = "defrost" => order = NoOrder
  /\ look' = [ open |-> TRUE, late |-> FALSE, status |-> Status ]
  /\ desk' = [desk EXCEPT !.timer = FALSE]
  /\ UNCHANGED <<tool, odu, order, word, spoilt, chances>>

(* A defrost status asked for before an order was posted is not used.      *)
LookEnds ==
  /\ look # NoLook
  /\ \/ desk' = IF look.late THEN desk ELSE [Stored(desk, look.status) EXCEPT !.failed = FALSE]
     \/ desk' = IF look.late THEN desk ELSE [desk EXCEPT !.failed = TRUE]
  /\ look' = NoLook
  /\ UNCHANGED <<tool, odu, order, word, spoilt, chances>>

-----------------------------------------------------------------------------
(* Editing                                                                 *)

Selected(d)  == IF d.draft # 0 THEN d.draft ELSE d.known.table
Expected(d)  == IF d.draft # 0 THEN d.basis ELSE d.known.table
Idle         == order = NoOrder /\ ~desk.known.busy
Usable       == Idle /\ desk.known.table # 0

(* updateOduDefrostDraft and its like: what the method was when the edit   *)
(* began is kept with the draft.                                           *)
Edit ==
  /\ tool # "dump" /\ Usable /\ desk.ask = NoAsk
  /\ tool = "defrost" => ~desk.failed
  /\ \E v \in Values \ {Selected(desk)} :
       desk' = [desk EXCEPT !.draft = v, !.basis = Expected(desk)]
  /\ UNCHANGED <<tool, odu, order, look, word, spoilt, chances>>

(* openSaveConfirm, and odu-defrost-cancel.                                *)
AskSave ==
  /\ tool = "defrost" /\ Usable /\ ~desk.failed /\ desk.ask = NoAsk
  /\ Expected(desk) = desk.known.table /\ Selected(desk) # desk.known.table
  /\ desk' = [desk EXCEPT !.ask = [ want |-> Selected(desk), expect |-> Expected(desk) ]]
  /\ UNCHANGED <<tool, odu, order, look, word, spoilt, chances>>

Cancel ==
  /\ desk.ask # NoAsk
  /\ desk' = [desk EXCEPT !.ask = NoAsk]
  /\ UNCHANGED <<tool, odu, order, look, word, spoilt, chances>>

-----------------------------------------------------------------------------
(* Orders                                                                  *)

Load  == [NoJob EXCEPT !.act = "load"]
Write(want) == [NoJob EXCEPT !.act = "save", !.want = want]

Confirmed(d) == [ act |-> "save", want |-> d.ask.want, expect |-> d.ask.expect,
                  shown |-> d.ask.expect ]

Orders ==
  CASE tool = "settings"  -> {Load} \cup {Write(v) : v \in {Selected(desk)} \ {0}}
    [] tool = "defrost"   -> {Load : x \in {0} \cap {desk.ask.want}}
                               \cup {Confirmed(desk) : x \in {desk.ask.want} \ {0}}
    [] tool = "frequency" -> {Load} \cup IF desk.known.table = 0 THEN {} ELSE
                               {[NoJob EXCEPT !.act = "arm", !.want = IF desk.known.armed THEN 0 ELSE 1]}
                                 \cup {Write(Selected(desk)) : x \in {TRUE} \cap {desk.known.armed}}
    [] tool = "dump"      -> {Load}

(* A confirmed save is checked once more against the status.               *)
Agrees(j) == tool = "defrost" /\ j.act = "save" =>
               /\ desk.known.table # 0 /\ ~desk.known.busy
               /\ j.expect = desk.known.table

Give ==
  /\ chances.orders > 0 /\ order = NoOrder
  /\ chances' = [chances EXCEPT !.orders = @ - 1]
  /\ IF tool = "defrost" THEN ~desk.failed ELSE ~desk.known.busy
  /\ \E j \in Orders :
       /\ Agrees(j) /\ (tool = "defrost" => ~desk.known.busy)
       /\ order' = [ stage |-> "post", job |-> j ]
       /\ desk' = [desk EXCEPT !.ask = NoAsk,
                     !.draft = IF tool = "defrost" /\ j.act = "load" THEN 0 ELSE @,
                     !.basis = IF tool = "defrost" /\ j.act = "load" THEN 0 ELSE @]
  /\ look' = [look EXCEPT !.late = look # NoLook /\ tool = "defrost"]
  /\ word' = [ saved |-> 0, stirred |-> FALSE ]
  /\ UNCHANGED <<tool, odu, spoilt>>

(* The device takes an order: request_load, request_save, request_arm,     *)
(* request_apply, enqueue, enqueue_save, start.  Loading a frequency table *)
(* locks it again.                                                         *)
Accepts(j) ==
  /\ odu.job = NoJob
  /\ tool = "frequency" /\ j.act # "load" => odu.table # 0 /\ (j.act = "save" => odu.armed)
  /\ IF j.act = "arm" THEN odu' = [odu EXCEPT !.armed = j.want = 1, !.result = "ready"]
     ELSE odu' = [odu EXCEPT !.job = j, !.result = "ready",
                    !.table = IF tool \in {"frequency", "dump"} /\ j.act = "load" THEN 0 ELSE @,
                    !.armed = @ /\ j.act # "load"]

(* postAction: the answer holds the status.  Defrost and dump do not wait  *)
(* for the end of an order.                                                *)
Posted ==
  /\ order.stage = "post"
  /\ tool = "dump" \/ desk.known.boot \in {0, odu.boot}   \* the token of the status
  /\ Accepts(order.job)
  /\ desk' = Stored(desk, Status')
  /\ order' = IF tool \in {"defrost", "dump"} \/ order.job.act = "arm"
              THEN NoOrder ELSE [order EXCEPT !.stage = "wait"]
  /\ UNCHANGED <<tool, look, word, spoilt, chances>>

(* Refused, or the answer is lost; for defrost a status must be read       *)
(* before the next order.                                                  *)
PostFails ==
  /\ order.stage = "post"
  /\ UNCHANGED odu \/ Accepts(order.job)
  /\ desk' = [desk EXCEPT !.failed = TRUE]
  /\ order' = NoOrder
  /\ UNCHANGED <<tool, look, word, spoilt, chances>>

(* assertOperationCompleted; of the frequencies it is only looked whether  *)
(* the status tells of a failure.                                          *)
Completed(s, j) ==
  IF tool = "settings" THEN s.table # 0 /\ s.result = (IF j.act = "load" THEN "loaded" ELSE "saved")
                       ELSE s.result # "failed"

(* waitForOperation: one status read, the order's end, and giving up.      *)
Wait ==
  /\ order.stage = "wait"
  /\ \/ /\ Status.busy
        /\ desk' = Stored(desk, Status) /\ UNCHANGED <<order, word>>
     \/ /\ ~Status.busy
        /\ desk' = LET d == Stored(desk, Status) IN
                   IF tool = "settings" \/ (order.job.act = "load" /\ Status.table # 0)
                   THEN [d EXCEPT !.draft = 0, !.basis = 0] ELSE d
        /\ word' = [word EXCEPT !.saved = IF Completed(Status, order.job) THEN order.job.want ELSE 0]
        /\ order' = NoOrder
     \/ /\ desk' = [desk EXCEPT !.failed = TRUE]
        /\ order' = NoOrder /\ UNCHANGED word
  /\ UNCHANGED <<tool, odu, look, spoilt, chances>>

-----------------------------------------------------------------------------
(* The device                                                              *)

(* Settings to be saved are kept in flash before the unit is written.      *)
Profile == IF tool = "settings" /\ odu.job.act = "save" THEN odu.job.want ELSE odu.profile

Done(actual, table, result) ==
  odu' = [odu EXCEPT !.actual = actual, !.table = table, !.result = result, !.job = NoJob,
            !.armed = @ /\ odu.job.act # "save", !.profile = Profile]

Ends(result) == odu' = [odu EXCEPT !.job = NoJob, !.result = result, !.profile = Profile]

(* A save of the defrost method reads it first and is refused when it is   *)
(* not the one expected; one that fails may have been written.             *)
CarryOut ==
  /\ odu.job # NoJob
  /\ \/ Ends("failed")
     \/ odu.job.act = "load" /\ Done(odu.actual, odu.actual, "loaded")
     \/ odu.job.act = "save" /\ tool = "defrost" /\ odu.job.expect # odu.actual
        /\ Done(odu.actual, odu.actual, "stale")
     \/ /\ odu.job.act = "save" /\ (tool = "defrost" => odu.job.expect = odu.actual)
        /\ \E ok \in BOOLEAN :
             Done(odu.job.want, IF ok THEN odu.job.want ELSE odu.table, IF ok THEN "saved" ELSE "failed")
  /\ spoilt' = (spoilt \/ (odu.job.shown # 0 /\ odu'.actual # odu.actual /\ odu.job.shown # odu.actual))
  /\ UNCHANGED <<tool, desk, order, look, word, chances>>

(* The settings are put back by the device itself.                         *)
Reconcile ==
  /\ tool = "settings" /\ odu.job = NoJob /\ odu.profile # 0
  /\ odu.table # odu.profile
  /\ odu' = [odu EXCEPT !.job = Write(odu.profile), !.result = "ready"]
  /\ UNCHANGED <<tool, desk, order, look, word, spoilt, chances>>

(* A restart, and a save of another client, left out as a bound for the    *)
(* settings, which the device writes again by itself anyway.               *)
Stir ==
  /\ chances.stirs > 0
  /\ chances' = [chances EXCEPT !.stirs = @ - 1]
  /\ word' = [word EXCEPT !.stirred = TRUE]
  /\ \/ odu' = [odu EXCEPT !.table = 0, !.armed = FALSE, !.job = NoJob, !.result = "ready", !.boot = @ + 1]
     \/ /\ tool \notin {"dump", "settings"}
        /\ Accepts([ act |-> "save", want |-> Other, expect |-> odu.actual, shown |-> 0 ])
  /\ UNCHANGED <<tool, desk, order, look, spoilt>>

Init ==
  /\ tool \in Tools
  /\ odu = [ actual |-> 1, table |-> 0, profile |-> 0, armed |-> FALSE, job |-> NoJob,
             result |-> "ready", boot |-> 1 ]
  /\ desk = [ known |-> Unread, draft |-> 0, basis |-> 0, ask |-> NoAsk, failed |-> FALSE, timer |-> FALSE ]
  /\ order = NoOrder /\ look = NoLook /\ spoilt = FALSE
  /\ word = [ saved |-> 0, stirred |-> FALSE ]
  /\ chances = [ orders |-> MaxOrders, stirs |-> MaxStirs ]

PageStep == StartLook \/ LookEnds \/ Edit \/ AskSave \/ Cancel \/ Give
            \/ Posted \/ PostFails \/ Wait

Next == PageStep \/ CarryOut \/ Reconcile \/ Stir

Spec == Init /\ [][Next]_vars

-----------------------------------------------------------------------------
(* A defrost method is only ever replaced by an order whose confirmation   *)
(* showed that very method, however old the page's status was when it was  *)
(* given (odu-defrost-save-confirm); what a tool says it saved is in the   *)
(* unit, unless it was restarted or used by another client meanwhile       *)
(* (assertOperationCompleted); and a dump that runs is looked at again,    *)
(* unless the last look failed (schedulePoll).                             *)
ToolsTellTrue ==
  /\ ~spoilt
  /\ word.saved # 0 /\ ~word.stirred => odu.actual = word.saved
  /\ tool = "dump" /\ desk.known.busy => desk.timer \/ look # NoLook \/ desk.failed
=============================================================================
