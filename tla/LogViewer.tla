----------------------------- MODULE LogViewer -----------------------------
(***************************************************************************)
(* The dialog with the device's log (features/webserver-logs.js): it reads *)
(* the log when it opens and again every few seconds, and can clear the    *)
(* log of the device.  Of the answers only the one to the latest request   *)
(* counts (webServerLogHistoryRequestToken).                               *)
(***************************************************************************)
EXTENDS Naturals

CONSTANTS
  MaxLines,   \* bound: lines the device logs
  MaxClears,  \* bound: clears the user asks for
  MaxRuns     \* bound: boots of the device

VARIABLES
  journal,  \* the device: its boot, the lines it holds: from < line <= upto
  viewer,   \* the dialog: open, lines shown, csrf token, loading, poll timer
  gets,     \* requests of the log: of the dialog, of a clear, of the timer
  clear,    \* clearWebServerLogHistory
  cleared,  \* the boot and the lines the last successful clear removed
  spare     \* what the bounds leave

vars == <<journal, viewer, gets, clear, cleared, spare>>

Askers  == {"dialog", "clear", "timer"}
Lines   == [ boot |-> journal.boot, from |-> journal.from, upto |-> journal.upto ]
NoLines == [ boot |-> 0, from |-> 0, upto |-> 0 ]
NoGet   == [ stage |-> "idle", old |-> FALSE, lines |-> NoLines ]

-----------------------------------------------------------------------------
(* A request supersedes the ones before it.                                *)
Superseded == [a \in Askers |-> IF gets[a] = NoGet THEN NoGet ELSE [gets[a] EXCEPT !.old = TRUE]]

Get == [ stage |-> "sent", old |-> FALSE, lines |-> Lines ]

(* closeWebServerLogStream: no timer, and no answer counts any more.       *)
Closed(v) == [v EXCEPT !.timer = "off", !.loading = FALSE]

(* syncWebServerLogStream, with every render.                              *)
Synced(v, busy) ==
  IF v.open /\ ~busy THEN [v EXCEPT !.timer = IF @ = "off" THEN "set" ELSE @] ELSE Closed(v)

Clearing == clear # "idle"

OpenLogs ==
  /\ ~viewer.open
  /\ viewer' = Synced([Closed(viewer) EXCEPT !.open = TRUE, !.loading = TRUE], Clearing)
  /\ gets' = [Superseded EXCEPT !["dialog"] = Get]
  /\ UNCHANGED <<journal, clear, cleared, spare>>

CloseLogs ==
  /\ viewer.open
  /\ viewer' = Closed([viewer EXCEPT !.open = FALSE])
  /\ gets' = Superseded
  /\ UNCHANGED <<journal, clear, cleared, spare>>

(* scheduleWebServerLogPoll: the timer waits for a request of the dialog.  *)
PollFires ==
  /\ viewer.timer = "set" /\ ~viewer.loading
  /\ viewer' = [viewer EXCEPT !.timer = "reading"]
  /\ gets' = [Superseded EXCEPT !["timer"] = Get]
  /\ UNCHANGED <<journal, clear, cleared, spare>>

Counts(g) == ~g.old /\ viewer.open

Read(g) == [viewer EXCEPT !.lines = g.lines, !.csrf = g.lines.boot]

Loaded(v, a) ==
  [v EXCEPT !.loading = @ /\ (a = "timer" \/ gets[a].old),
            !.timer = IF a = "timer" /\ @ = "reading" THEN "off" ELSE @]

GetEnds(a) ==
  /\ gets[a] # NoGet /\ a # "clear"
  /\ \E ok \in BOOLEAN :
       viewer' = Synced(Loaded(IF ok /\ Counts(gets[a]) THEN Read(gets[a]) ELSE viewer, a), Clearing)
  /\ gets' = [gets EXCEPT ![a] = NoGet]
  /\ UNCHANGED <<journal, clear, cleared, spare>>

-----------------------------------------------------------------------------
(* Clearing                                                                *)

StartClear ==
  /\ viewer.open /\ ~Clearing /\ ~viewer.loading /\ viewer.csrf # 0
  /\ spare.clears > 0
  /\ spare' = [spare EXCEPT !.clears = @ - 1]
  /\ clear' = "post"
  /\ viewer' = Closed(viewer)
  /\ gets' = Superseded
  /\ UNCHANGED <<journal, cleared>>

(* The end of a clear: an open dialog reads the log again.                 *)
After(v, g) ==
  /\ clear' = "idle"
  /\ viewer' = IF v.open THEN Synced([v EXCEPT !.loading = TRUE], FALSE) ELSE v
  /\ gets' = IF v.open THEN [g EXCEPT !["dialog"] = Get'] ELSE g

(* The device clears, and the answer tells so; or it is lost.              *)
ClearAnswered ==
  /\ clear \in {"post", "again"} /\ viewer.csrf = journal.boot
  /\ journal' = [journal EXCEPT !.from = journal.upto]
  /\ \/ /\ After([viewer EXCEPT !.lines = NoLines, !.loading = FALSE], Superseded)
        /\ cleared' = [ boot |-> journal.boot, upto |-> journal.upto ]
     \/ /\ After(viewer, Superseded)
        /\ UNCHANGED cleared
  /\ UNCHANGED spare

(* A token of an earlier boot: once, the log is read for a new one.        *)
ClearForbidden ==
  /\ clear = "post" /\ viewer.csrf # journal.boot
  /\ clear' = "token"
  /\ viewer' = [viewer EXCEPT !.csrf = 0, !.loading = TRUE]
  /\ gets' = [Superseded EXCEPT !["clear"] = Get]
  /\ UNCHANGED <<journal, cleared, spare>>

TokenRead ==
  /\ clear = "token" /\ UNCHANGED journal
  /\ \E ok \in BOOLEAN :
       LET g == gets["clear"]
           v == Loaded(IF ok /\ Counts(g) THEN Read(g) ELSE viewer, "clear")
           h == [gets EXCEPT !["clear"] = NoGet]
       IN IF v.csrf # 0 THEN clear' = "again" /\ viewer' = v /\ gets' = h ELSE After(v, h)
  /\ UNCHANGED <<cleared, spare>>

ClearFails ==
  /\ clear \in {"post", "again"} /\ UNCHANGED journal
  /\ After(viewer, Superseded)
  /\ UNCHANGED <<cleared, spare>>

-----------------------------------------------------------------------------
(* The device                                                              *)

Log ==
  /\ spare.lines > 0
  /\ spare' = [spare EXCEPT !.lines = @ - 1]
  /\ journal' = [journal EXCEPT !.upto = @ + 1]
  /\ UNCHANGED <<viewer, gets, clear, cleared>>

(* The log is in memory.                                                   *)
Restart ==
  /\ journal.boot < MaxRuns
  /\ journal' = [ boot |-> journal.boot + 1, from |-> 0, upto |-> 0 ]
  /\ UNCHANGED <<viewer, gets, clear, cleared, spare>>

(* resetWebServerLogRecoveryState, when the page has reached it again.     *)
Recovered ==
  /\ viewer.csrf \notin {0, journal.boot} /\ ~Clearing
  /\ viewer' = Synced([Closed(viewer) EXCEPT !.lines = NoLines, !.csrf = 0, !.loading = viewer.open], FALSE)
  /\ gets' = IF viewer.open THEN [Superseded EXCEPT !["dialog"] = Get] ELSE Superseded
  /\ UNCHANGED <<journal, clear, cleared, spare>>

Init ==
  /\ journal = [ boot |-> 1, from |-> 0, upto |-> 0 ]
  /\ viewer = [ open |-> FALSE, lines |-> NoLines, csrf |-> 0, loading |-> FALSE, timer |-> "off" ]
  /\ gets = [a \in Askers |-> NoGet]
  /\ clear = "idle"
  /\ cleared = [ boot |-> 0, upto |-> 0 ]
  /\ spare = [ lines |-> MaxLines, clears |-> MaxClears ]

Next ==
  \/ OpenLogs \/ CloseLogs \/ PollFires \/ (\E a \in Askers : GetEnds(a))
  \/ StartClear \/ ClearAnswered \/ ClearForbidden \/ TokenRead \/ ClearFails
  \/ Log \/ Restart \/ Recovered

Spec == Init /\ [][Next]_vars

-----------------------------------------------------------------------------
(* Lines the page said are cleared do not come back with a late answer     *)
(* (clearWebServerLogOutput), and an open dialog goes on polling           *)
(* (syncWebServerLogStream).                                               *)
LogsStayCleared ==
  /\ viewer.lines.boot = cleared.boot => viewer.lines.from >= cleared.upto
  /\ viewer.open /\ ~Clearing => viewer.timer # "off"
=============================================================================
