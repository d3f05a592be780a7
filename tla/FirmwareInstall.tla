-------------------------- MODULE FirmwareInstall --------------------------
(***************************************************************************)
(* How the web app installs firmware, restarts the device and finds its    *)
(* way back to it (features/firmware-actions.js, firmware-update.js,       *)
(* core/device-reconnect.js, entity-write-actions.js triggerNamedButton):  *)
(* the request that may be lost, the reboot it watches for, the page it    *)
(* then reloads, and the set-up install that outlives a reload.            *)
(*                                                                         *)
(* A build is a setup (topology and connection) and a version.             *)
(***************************************************************************)
EXTENDS Naturals

CONSTANTS
  Setups,      \* the setups a build can be for
  Latest,      \* the version the release channel offers
  MaxPolls,    \* attempts of pollFirmwareInstallState
  MaxRequests, \* bound: installs and restarts the user asks for
  MaxFaults    \* bound: outages, reboots of the device's own and user reloads

Builds == [ setup : Setups, version : 0 .. Latest ]
Modes  == {"normal", "switch", "quickstart", "upload"}
Active == {"uploading", "rebooting"}  \* isFirmwareProgressActive

VARIABLES
  host,     \* the device: reachable, its boots, its build, and its own update
  page,     \* state.entities: what the last answer said of it
  refresh,  \* state.ota and state.restartRefresh
  stale,    \* a reload callback awaits refreshWebAppCache
  overlay,  \* deviceReconnectMode, its recovery, entitySyncFailureCount
  install,  \* the install under way
  record,   \* the set-up install in sessionStorage
  poll,     \* the regular sync: idle, or answered and not merged yet
  press,    \* busyAction = "restartAction"
  budget    \* what the bounds leave of requests and faults

vars == <<host, page, refresh, stale, overlay, install, record, poll, press, budget>>

-----------------------------------------------------------------------------
(* Watching for a reboot                                                   *)

(* A browser refresh: `timer` is its one timeout, `base` what was known    *)
(* when it was armed, `ok` whether the request was accepted (1) and the    *)
(* device then lost (2).                                                   *)
Cleared == [ on |-> FALSE, ok |-> 0, timer |-> "none", wait |-> FALSE,
             boots |-> 0, version |-> 0 ]

Armed == [Cleared EXCEPT !.on = TRUE, !.boots = page.boots, !.version = page.build.version]

Await(r) == IF r.on THEN [r EXCEPT !.wait = TRUE, !.timer = "evidence"] ELSE r

Schedule(r) ==
  IF ~r.on \/ (r.timer # "none" /\ ~r.wait) THEN r
  ELSE [r EXCEPT !.wait = FALSE, !.timer = "reload"]

(* An uptime below the one it was armed with shows a reboot; a base that   *)
(* is old enough hides it.                                                 *)
Evidence(r, pg, uptimeFell, versionCounts) ==
  /\ r.on /\ r.wait
  /\ \/ pg.boots > r.boots /\ uptimeFell
     \/ r.ok = 2
     \/ versionCounts /\ pg.build.version # r.version

Lost(r) == [r EXCEPT !.ok = IF @ = 1 THEN 2 ELSE @]

-----------------------------------------------------------------------------
(* The overlay                                                             *)

NoOverlay == [ mode |-> "", recovering |-> FALSE, failures |-> 0 ]

Reconnect(o, mode) == [o EXCEPT !.mode = mode, !.recovering = FALSE]

(* noteEntityRefreshSuccess                                                *)
Recovered(o, rs) ==
  IF o.mode # "" /\ ~o.recovering /\ ~rs.on
  THEN [o EXCEPT !.recovering = TRUE, !.failures = 0]
  ELSE [o EXCEPT !.failures = 0]

Noted(pg, fell, rf) ==
  [ ota     |-> IF Evidence(rf.ota, pg, fell, TRUE) THEN Schedule(rf.ota) ELSE rf.ota,
    restart |-> IF Evidence(rf.restart, pg, fell, FALSE)
                THEN Schedule(rf.restart) ELSE rf.restart ]

(* noteEntityRefreshFailure: `severed` if the message is one of a lost     *)
(* connection; a request that timed out has none of those words.           *)
Severed(o, rf) ==
  LET n   == IF o.failures = 2 THEN 2 ELSE o.failures + 1
      due == o.mode # "" \/ press \/ install.mode # "none"
               \/ rf.ota.on \/ rf.restart.on \/ n = 2
      new == IF install.mode # "none" \/ rf.ota.on THEN "ota"
             ELSE IF rf.restart.on \/ press THEN "restart" ELSE "reconnect"
  IN IF due THEN Reconnect([o EXCEPT !.failures = n], new)
            ELSE [o EXCEPT !.failures = n]

Failed(o, rf, severed) ==
  IF severed THEN Severed(o, rf)
  ELSE IF rf.restart.on THEN [o EXCEPT !.failures = 0] ELSE NoOverlay

Fallen(rf, severed) ==
  IF severed THEN [ ota |-> Lost(rf.ota), restart |-> Lost(rf.restart) ] ELSE rf

-----------------------------------------------------------------------------
(* What the page makes of the device                                       *)

Read == [ boots |-> host.boots, build |-> host.build, phase |-> host.phase ]

(* hasInstalledFirmwareTargetVersion and isFirmwareUpdateAvailable         *)
HasTarget(pg, i) == pg.build.version >= i.target.version
Settled(pg, i)   == HasTarget(pg, i) /\ pg.phase \notin Active /\ pg.build.version >= Latest

Rebooted(ota) == ota.timer # "none" /\ ~ota.wait

(* A bug: the setup the device now runs is not compared.                   *)
SetupConfirmed_AnySetup(pg, i, ota, rec) ==
  /\ i.mode = "quickstart"
  /\ Rebooted(ota) \/ (i.resumed /\ pg.phase \notin Active)
  /\ i.success \/ (rec.status \in {"pending", "successful"} /\ rec.source # pg.build)
  /\ Settled(pg, i)

(* isQuickStartSetupInstallCompletionConfirmed                             *)
SetupConfirmed(pg, i, ota, rec) ==
  /\ i.mode = "quickstart"
  /\ Rebooted(ota) \/ (i.resumed /\ pg.phase \notin Active)
  /\ i.success \/ (rec.status \in {"pending", "successful"} /\ rec.source # pg.build)
  /\ pg.build.setup = i.target.setup
  /\ Settled(pg, i)

(* The end of an attempt of pollFirmwareInstallState.                      *)
Confirmed(pg, i, ota, rec) ==
  CASE i.mode = "switch"     -> pg.build.setup = i.target.setup /\ Settled(pg, i)
    [] i.mode = "quickstart" -> SetupConfirmed(pg, i, ota, rec)
    [] i.mode = "upload"     -> Rebooted(ota)
    [] i.mode = "normal"     -> Settled(pg, i)

(* `asked` is the device's boot the page knew of when it asked.            *)
NoInstall == [ mode |-> "none", stage |-> "idle", tries |-> 0, done |-> FALSE, seen |-> FALSE,
               success |-> FALSE, resumed |-> FALSE, asked |-> 0,
               target |-> CHOOSE b \in Builds : TRUE ]
NoRecord  == [ status |-> "none", target |-> NoInstall.target, source |-> NoInstall.target ]

Busy == install.stage # "idle"

-----------------------------------------------------------------------------
(* Asking for an install                                                   *)

(* installFirmwareUpdate, the connection and topology switches,            *)
(* installQuickStartSetupFirmware and uploadFirmwareUpdate: what each may  *)
(* be asked to install.                                                    *)
Offered(mode, b) ==
  CASE mode = "normal"     -> b = [ setup |-> page.build.setup, version |-> Latest ]
                              /\ page.build.version < Latest
    [] mode = "switch"     -> b.setup # page.build.setup /\ b.version = Latest
    [] mode = "quickstart" -> b.version = Latest
    [] mode = "upload"     -> TRUE

StartInstall ==
  /\ ~Busy /\ ~press /\ overlay.mode = "" /\ budget.requests > 0
  /\ budget' = [budget EXCEPT !.requests = @ - 1]
  /\ \E mode \in Modes, b \in Builds :
       /\ Offered(mode, b)
       /\ install' = [NoInstall EXCEPT !.mode = mode, !.target = b, !.asked = page.boots,
                        !.stage = IF mode = "upload" THEN "request" ELSE "target"]
       /\ refresh' = [refresh EXCEPT !.ota = IF mode = "upload" THEN Armed ELSE @]
  /\ UNCHANGED <<host, page, stale, overlay, record, poll, press>>

(* What `finally` leaves: a set-up install that may still succeed keeps    *)
(* its mode and its record.                                                *)
Kept == [install EXCEPT !.stage = "idle"]

(* The target could not be set, or what it offers is not what was asked.   *)
TargetFails ==
  /\ install.stage = "target"
  /\ IF install.mode = "quickstart" /\ refresh.ota.wait
     THEN install' = Kept /\ UNCHANGED record
     ELSE /\ install' = NoInstall
          /\ record' = IF install.mode = "quickstart" THEN NoRecord ELSE record
  /\ UNCHANGED <<host, page, refresh, stale, overlay, poll, press, budget>>

(* isQuickStartSetupFirmwareCurrent: there is nothing to install.          *)
AlreadyCurrent ==
  /\ install.stage = "target" /\ install.mode = "quickstart"
  /\ page.build = install.target
  /\ record' = [ status |-> "complete", target |-> install.target, source |-> page.build ]
  /\ install' = NoInstall
  /\ UNCHANGED <<host, page, refresh, stale, overlay, poll, press, budget>>

(* setFirmwareUpdateTarget done; requestFirmwareOta arms and posts.        *)
TargetReady ==
  /\ install.stage = "target" /\ host.up
  /\ ~(install.mode = "quickstart" /\ page.build = install.target)
  /\ install' = [install EXCEPT !.stage = "request"]
  /\ refresh' = [refresh EXCEPT !.ota = Armed]
  /\ record' = IF install.mode = "quickstart"
               THEN [ status |-> "pending", target |-> install.target, source |-> page.build ]
               ELSE record
  /\ UNCHANGED <<host, page, stale, overlay, poll, press, budget>>

(* An uploaded file is in place when the request is answered; any other    *)
(* build the device still has to fetch.                                    *)
Updating == [host EXCEPT !.phase = IF install.mode = "upload" THEN "flashed" ELSE "uploading",
                         !.next = install.target]
Taken    == IF host.phase \in {"idle", "error"} THEN {Updating} ELSE {host}

RequestAccepted ==
  /\ install.stage = "request" /\ host.up
  /\ host' \in Taken
  /\ LET o == [refresh.ota EXCEPT !.ok = 1] IN
     refresh' = [refresh EXCEPT !.ota = IF install.mode \in {"quickstart", "upload"}
                                        THEN Await(o) ELSE o]
  /\ install' = [install EXCEPT !.stage = "poll"]
  /\ UNCHANGED <<page, stale, overlay, record, poll, press, budget>>

(* The connection breaks: the device may have got the request or not.      *)
RequestLost ==
  /\ install.stage = "request"
  /\ host' \in {host} \cup (IF host.up THEN Taken ELSE {})
  /\ refresh' = [refresh EXCEPT !.ota = Await(@)]
  /\ overlay' = Reconnect(overlay, "ota")
  /\ install' = IF install.mode = "quickstart" THEN Kept ELSE NoInstall
  /\ UNCHANGED <<page, stale, record, poll, press, budget>>

(* The device refuses, or the answer is an error of another kind.          *)
RequestRefused ==
  /\ install.stage = "request" /\ host.up
  /\ refresh' = [refresh EXCEPT !.ota = Cleared]
  /\ install' = NoInstall
  /\ record' = IF install.mode = "quickstart" THEN NoRecord ELSE record
  /\ UNCHANGED <<host, page, stale, overlay, poll, press, budget>>

-----------------------------------------------------------------------------
(* pollFirmwareInstallState                                                *)

(* After the refresh of an attempt: a failure the device reports ends it,  *)
(* a reboot it announces puts up the overlay, then the completion check.   *)
AfterAttempt(pg, ov, rf, fresh) ==
  LET i  == [install EXCEPT !.tries = @ + 1, !.seen = @ \/ fresh,
               !.success = @ \/ (install.mode = "quickstart" /\ pg.phase = "rebooting"
                                 /\ (install.seen \/ fresh))]
      qs == install.mode = "quickstart"
      rec == IF qs /\ i.success /\ record.status = "pending"
             THEN [record EXCEPT !.status = "successful"] ELSE record
      shown == IF pg.phase = "rebooting" /\ i.seen THEN Reconnect(ov, "ota") ELSE ov
  IN
  /\ page' = pg
  /\ \/ /\ pg.phase = "error"
        /\ refresh' = [rf EXCEPT !.ota = Cleared]
        /\ overlay' = ov
        /\ install' = NoInstall
        /\ record' = IF qs THEN NoRecord ELSE record
     \/ /\ pg.phase # "error" /\ Confirmed(pg, i, rf.ota, rec)
        /\ refresh' = [rf EXCEPT !.ota = Schedule(@)]
        /\ overlay' = shown
        /\ install' = [NoInstall EXCEPT !.done = TRUE]
        /\ record' = IF qs THEN [rec EXCEPT !.status = "complete"] ELSE rec
     \/ /\ pg.phase # "error" /\ ~Confirmed(pg, i, rf.ota, rec)
        /\ overlay' = shown
        /\ record' = rec
        /\ IF i.tries < MaxPolls
           THEN install' = i /\ refresh' = rf
           ELSE /\ install' = IF qs THEN [i EXCEPT !.stage = "idle", !.tries = 0] ELSE NoInstall
                /\ refresh' = [rf EXCEPT !.ota = Await(@)]

AttemptAnswered ==
  /\ install.stage = "poll" /\ host.up
  /\ \E fell \in BOOLEAN :
       LET rf == Noted(Read, fell, refresh) IN
       AfterAttempt(Read, Recovered(overlay, rf.restart), rf, TRUE)
  /\ UNCHANGED <<host, stale, poll, press, budget>>

AttemptFails ==
  /\ install.stage = "poll"
  /\ \E severed \in BOOLEAN :
       AfterAttempt(page, Failed(overlay, refresh, severed), Fallen(refresh, severed), FALSE)
  /\ UNCHANGED <<host, stale, poll, press, budget>>

(* reconcileStoredQuickStartSetupInstall, in a render of the wizard; the   *)
(* record may be ten minutes old.                                          *)
ReconcileStored ==
  /\ install.mode = "quickstart" /\ ~Busy
  /\ record.status \in {"pending", "successful"}
  /\ LET i   == [install EXCEPT !.success = @ \/ page.phase = "rebooting"]
         rec == IF page.phase = "rebooting" THEN [record EXCEPT !.status = "successful"] ELSE record
     IN
     \/ page.phase = "error" /\ record' = NoRecord /\ install' = NoInstall
     \/ /\ page.phase # "error" /\ SetupConfirmed(page, i, refresh.ota, rec)
        /\ record' = [record EXCEPT !.status = "complete"]
        /\ install' = [NoInstall EXCEPT !.done = TRUE]
     \/ /\ page.phase # "error" /\ ~SetupConfirmed(page, i, refresh.ota, rec)
        /\ \/ record' = rec /\ install' = i
           \/ record' = NoRecord /\ install' = NoInstall
  /\ UNCHANGED <<host, page, refresh, stale, overlay, poll, press, budget>>

-----------------------------------------------------------------------------
(* Restarting the device: triggerNamedButton with reconnectMode "restart"  *)

PressRestart ==
  /\ ~Busy /\ ~press /\ overlay.mode = "" /\ budget.requests > 0
  /\ budget' = [budget EXCEPT !.requests = @ - 1]
  /\ press' = TRUE
  /\ refresh' = [refresh EXCEPT !.restart = Armed]
  /\ UNCHANGED <<host, page, stale, overlay, install, record, poll>>

Reboot(h) == [h EXCEPT !.up = FALSE, !.boots = @ + 1, !.phase = "idle"]

PressAccepted ==
  /\ press /\ host.up
  /\ host' = Reboot(host)
  /\ press' = FALSE
  /\ refresh' = [refresh EXCEPT !.restart = Await([@ EXCEPT !.ok = 1])]
  /\ overlay' = Reconnect(overlay, "restart")
  /\ UNCHANGED <<page, stale, install, record, poll, budget>>

(* No answer comes: the device may be restarting, or it never heard.       *)
PressLost ==
  /\ press
  /\ host' \in {host} \cup (IF host.up THEN {Reboot(host)} ELSE {})
  /\ press' = FALSE
  /\ refresh' = [refresh EXCEPT !.restart = Await([@ EXCEPT !.ok = 2])]
  /\ overlay' = Reconnect(overlay, "restart")
  /\ UNCHANGED <<page, stale, install, record, poll, budget>>

PressRefused ==
  /\ press /\ host.up
  /\ press' = FALSE
  /\ refresh' = [refresh EXCEPT !.restart = Cleared]
  /\ UNCHANGED <<host, page, stale, overlay, install, record, poll, budget>>

-----------------------------------------------------------------------------
(* The regular sync; it is held off while an install is busy, but one that *)
(* was under way still ends.                                               *)

PollAnswered ==
  /\ poll.stage = "idle" /\ ~Busy /\ host.up
  /\ poll' = [ stage |-> "answered", answer |-> Read ]
  /\ UNCHANGED <<host, page, refresh, stale, overlay, install, record, press, budget>>

PollMerges ==
  /\ poll.stage = "answered"
  /\ page' = poll.answer
  /\ poll' = [poll EXCEPT !.stage = "idle"]
  /\ IF press THEN UNCHANGED <<refresh, overlay>>
     ELSE \E fell \in BOOLEAN :
            /\ refresh' = Noted(page', fell, refresh)
            /\ overlay' = Recovered(overlay, refresh'.restart)
  /\ UNCHANGED <<host, stale, install, record, press, budget>>

PollFails ==
  /\ poll.stage = "idle" /\ ~Busy /\ ~host.up
  /\ \E severed \in BOOLEAN :
       /\ overlay' = Failed(overlay, refresh, severed)
       /\ refresh' = Fallen(refresh, severed)
  /\ UNCHANGED <<host, page, stale, install, record, poll, press, budget>>

-----------------------------------------------------------------------------
(* Timers of the page                                                      *)

RecoveryTimer ==
  /\ overlay.recovering
  /\ overlay' = NoOverlay
  /\ UNCHANGED <<host, page, refresh, stale, install, record, poll, press, budget>>

(* awaitRebootEvidence gives up after five minutes.                        *)
EvidenceTimer(r) ==
  /\ refresh[r].timer = "evidence"
  /\ refresh' = [refresh EXCEPT ![r] = Cleared]
  /\ UNCHANGED <<host, page, stale, overlay, install, record, poll, press, budget>>

(* scheduleBrowserRefresh: an update first refreshes the browser's cache.  *)
OtaReloadTimer ==
  /\ refresh.ota.timer = "reload"
  /\ refresh' = [refresh EXCEPT !.ota.timer = "fired"]
  /\ stale' = TRUE
  /\ UNCHANGED <<host, page, overlay, install, record, poll, press, budget>>

(* The page is loaded again: the set-up install is restored from its       *)
(* record (restoreStoredQuickStartSetupInstall).                           *)
Fresh ==
  /\ page' = Read
  /\ refresh' = [ ota |-> Cleared, restart |-> Cleared ]
  /\ stale' = FALSE
  /\ overlay' = NoOverlay
  /\ poll' = [ stage |-> "idle", answer |-> Read ]
  /\ press' = FALSE
  /\ install' = IF record.status \in {"pending", "successful"}
                THEN [NoInstall EXCEPT !.mode = "quickstart", !.target = record.target,
                        !.asked = host.boots, !.resumed = TRUE, !.success = record.status = "successful"]
                ELSE NoInstall
  /\ UNCHANGED <<host, record>>

CacheRefreshed ==
  /\ stale
  /\ IF refresh.ota.on
     THEN host.up /\ Fresh
     ELSE /\ stale' = FALSE
          /\ UNCHANGED <<host, page, refresh, overlay, install, record, poll, press>>
  /\ UNCHANGED budget

RestartReloadTimer ==
  /\ refresh.restart.timer = "reload"
  /\ host.up /\ Fresh
  /\ UNCHANGED budget

-----------------------------------------------------------------------------
(* The user and the device                                                 *)

Fault == budget.faults > 0 /\ budget' = [budget EXCEPT !.faults = @ - 1]

UserReload == Fault /\ host.up /\ Fresh

Outage ==
  /\ Fault /\ host.up
  /\ host' \in {[host EXCEPT !.up = FALSE], Reboot(host)}
  /\ UNCHANGED <<page, refresh, stale, overlay, install, record, poll, press>>

(* Bound: the requests of a regular sync, given up after eight seconds,    *)
(* end before a device that boots is back.                                 *)
LinkUp ==
  /\ ~host.up
  /\ poll.stage = "idle" \/ poll.answer.boots = host.boots
  /\ host' = [host EXCEPT !.up = TRUE]
  /\ UNCHANGED <<page, refresh, stale, overlay, install, record, poll, press, budget>>

UpdateStep ==
  /\ host.up
  /\ host' \in CASE host.phase = "uploading" -> {[host EXCEPT !.phase = p] : p \in {"rebooting", "error"}}
                 [] host.phase \in {"rebooting", "flashed"} -> {Reboot([host EXCEPT !.build = host.next])}
                 [] OTHER -> {}
  /\ UNCHANGED <<page, refresh, stale, overlay, install, record, poll, press, budget>>

Init ==
  /\ \E b \in Builds :
       /\ host = [ up |-> TRUE, boots |-> 0, build |-> b, phase |-> "idle", next |-> b ]
       /\ page = [ boots |-> 0, build |-> b, phase |-> "idle" ]
  /\ refresh = [ ota |-> Cleared, restart |-> Cleared ]
  /\ stale = FALSE
  /\ overlay = NoOverlay
  /\ install = NoInstall
  /\ record = NoRecord
  /\ poll = [ stage |-> "idle", answer |-> page ]
  /\ press = FALSE
  /\ budget = [ requests |-> MaxRequests, faults |-> MaxFaults ]

InstallStep == \/ StartInstall \/ TargetFails \/ AlreadyCurrent \/ TargetReady
               \/ RequestAccepted \/ RequestLost \/ RequestRefused
               \/ AttemptAnswered \/ AttemptFails \/ ReconcileStored

PressStep == PressRestart \/ PressAccepted \/ PressLost \/ PressRefused

PollStep == PollAnswered \/ PollMerges \/ PollFails

TimerStep == \/ RecoveryTimer \/ OtaReloadTimer \/ CacheRefreshed \/ RestartReloadTimer
             \/ \E r \in {"ota", "restart"} : EvidenceTimer(r)

WorldStep == UserReload \/ Outage \/ LinkUp \/ UpdateStep

Next == InstallStep \/ PressStep \/ PollStep \/ TimerStep \/ WorldStep

Spec == Init /\ [][Next]_vars

-----------------------------------------------------------------------------
(* Whatever the app reports as installed, for every install that names a   *)
(* build, the device told it to run, in an answer no older than the        *)
(* request, and still runs unless it restarted since; of an update or a    *)
(* switch it told so after a restart (isFirmwareInstallCompletionConfirmed *)
(* and its set-up variant).                                                *)
Runs(b, i) == b.version >= i.target.version
              /\ (i.mode # "normal" => b.setup = i.target.setup)

InstalledMeansRuns ==
  [][ install'.done /\ ~install.done /\ install.mode # "upload"
      => /\ Runs(page'.build, install)
         /\ page'.boots = host.boots => Runs(host.build, install)
         /\ page'.boots >= install.asked
         /\ install.mode # "quickstart" => page'.boots > install.asked ]_vars

Fairness ==
  /\ WF_vars(LinkUp) /\ WF_vars(UpdateStep)
  /\ WF_vars(InstallStep /\ ~StartInstall) /\ WF_vars(PressStep /\ ~PressRestart)
  /\ WF_vars(PollAnswered) /\ WF_vars(PollMerges)
  /\ WF_vars(TimerStep)
  /\ WF_vars(RecoveryTimer)
=============================================================================
