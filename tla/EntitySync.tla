----------------------------- MODULE EntitySync -----------------------------
(***************************************************************************)
(* How the web app keeps its copy of the device's entities current         *)
(* (openquatt/web/js/src/core/entity-sync.js and runtime.js): the polling  *)
(* chain, refreshes that overlap, the queue of requests made meanwhile,    *)
(* time edits that a late answer must not undo, and what a refresh draws.  *)
(*                                                                         *)
(* Two entities stand for all: `clock`, of domain "time", which the user   *)
(* saves, and `mode`, which the device changes by itself and on which the  *)
(* layout of a settings group depends.  Their values are version numbers,  *)
(* so an older value is a smaller one.                                     *)
(***************************************************************************)
EXTENDS Naturals, FiniteSets

CONSTANTS
  Fetches,      \* bound: refreshes that can be under way at once
  MaxEvents,    \* bound: what the user does and the device changes, together
  MaxSaves      \* bound: times the user saves the time

ASSUME SyncAssumption == Fetches \in Nat /\ MaxEvents \in Nat /\ MaxSaves \in Nat

Views    == {"overview", "heating", "service"}  \* the last two: settings groups
Settings == {"heating", "service"}

(* Options of a sync request; "plain" is the empty set.                    *)
Opts    == SUBSET {"fast", "bulk", "prefetch"}
NoOpts  == {"none"}
Timers  == {"deferred", "supplementary", "prefetch", "bulk"}

Quiet   == [ stage |-> "idle", task |-> "sync", opts |-> {}, chained |-> FALSE,
             rev |-> 0, clock |-> 0, mode |-> 0 ]

VARIABLES
  surface,  \* what is open in front of the user
  edit,     \* time-input.js edit: no time field focused, one open, a render waits for it
  loop,     \* poll timer, entitySyncInFlight, pending options, one-shot timers
  fetch,    \* the refreshes under way, each with what the device answered it
  store,    \* state.entities
  rev,      \* state.timeWriteRevision
  dom,      \* what the page shows: values, the structure, and its signature
  save,     \* commitTime: its request, and the version it last confirmed
  ota,      \* updateInstallBusy and the quiet window of an update
  dev,      \* the device's own values, and the save it applied last
  wire,     \* saves that are posted and not yet applied
  left      \* what the bounds leave of events and saves

vars == <<surface, edit, loop, fetch, store, rev, dom, save, ota, dev, wire, left>>

-----------------------------------------------------------------------------
(* Polling                                                                 *)

OtaBusy(o) == o.install \/ o.quiet

(* A bug: a timer is not armed while a refresh is under way.               *)
Arm_UnlessUnderWay(l, s, o) == [l EXCEPT !.poll = @ \/ ~(s.native \/ OtaBusy(o) \/ l.inFlight)]

(* scheduleEntityPolling: arms the timer unless something rules it out.    *)
Arm(l, s, o) == [l EXCEPT !.poll = @ \/ ~(s.native \/ OtaBusy(o))]

Merge(a, b) ==
  LET m == (a \ NoOpts) \cup b IN IF "bulk" \in m THEN m \ {"fast"} ELSE m

(* syncEntities up to its first request, and what its caller does when it  *)
(* returns at once.  A hidden page may skip it.                            *)
Barred(l, s)  == s.native \/ l.loading \/ s.held \/ s.busy # ""
Writing(s)    == s.focus = "field" /\ s.view = "overview"

Begin(f, g, task, opts, chained, stage) ==
  fetch' = [g EXCEPT ![f] =
              [Quiet EXCEPT !.stage = stage, !.task = task, !.opts = opts,
                            !.chained = chained,
                            !.rev = IF stage = "sent" THEN rev ELSE 0]]

Idle(f, g) == g[f].stage = "idle" /\ \A e \in 1 .. f - 1 : g[e].stage # "idle"

Prefetch(opts, s) == "prefetch" \in opts /\ "bulk" \notin opts /\ s.view \in Settings

SyncEntities(opts, chained, l, s, g) ==
  LET back(x) == (loop' = IF chained THEN Arm(x, s, ota) ELSE x) /\ fetch' = g
      task    == IF Prefetch(opts, s) THEN "prefetch" ELSE "sync"
      open    == ~(Barred(l, s) \/ OtaBusy(ota) \/ Writing(s))
  IN
  \/ (Barred(l, s) \/ (~OtaBusy(ota) /\ Writing(s))) /\ back(l)
  \/ ~Barred(l, s) /\ OtaBusy(ota) /\ back([l EXCEPT !.pending = NoOpts])
  \/ open /\ l.inFlight /\ back([l EXCEPT !.pending = Merge(@, opts)])
  \/ open /\ ~l.inFlight /\ s.hidden /\ back(l)
  \/ /\ open /\ ~l.inFlight
     /\ \E f \in 1 .. Fetches, stage \in {"probe", "sent"} :
          /\ Idle(f, g)
          /\ Begin(f, g, task, opts, chained, stage)
          /\ loop' = [l EXCEPT !.inFlight = TRUE]

PollFires ==
  /\ loop.poll
  /\ SyncEntities({}, TRUE, [loop EXCEPT !.poll = FALSE], surface, fetch)
  /\ UNCHANGED <<surface, edit, store, rev, dom, save, ota, dev, wire, left>>

-----------------------------------------------------------------------------
(* Drawing                                                                 *)

FullDom(s) == [ mode |-> store'.mode, layout |-> store'.mode, owed |-> FALSE,
                sig  |-> IF s.view \in Settings THEN store'.mode ELSE 0 ]

(* render: waits while a native time input has the focus.                  *)
Render(s) ==
  IF edit = "none" THEN dom' = FullDom(s) /\ UNCHANGED edit
                   ELSE edit' = "pending" /\ UNCHANGED dom

(* The end of a sync: an early full render for changes outside this model, *)
(* nothing behind an overlay, and else a patch where the view allows one.  *)
(* patchSettingsDom declines for the service group, and reports a warm-up  *)
(* field it could not patch as owed.                                       *)
DrawAfterSync ==
  \/ Render(surface)
  \/ /\ surface.overlay
     /\ UNCHANGED <<dom, edit>>
  \/ /\ ~surface.overlay /\ surface.view = "overview"
     /\ dom' = FullDom(surface) /\ UNCHANGED edit
  \/ /\ ~surface.overlay /\ surface.view \in Settings
     /\ \/ dom.owed /\ surface.focus = "button" /\ UNCHANGED <<dom, edit>>
        \/ /\ ~(dom.owed /\ surface.focus = "button") /\ surface.focus # "field"
           /\ (store.mode # dom.sig \/ surface.view = "service")
           /\ Render(surface)
        \/ /\ surface.focus = "field" /\ surface.view = "service"
           /\ UNCHANGED <<dom, edit>>
        \/ /\ surface.view = "heating" /\ ~(dom.owed /\ surface.focus = "button")
           /\ surface.focus = "field" \/ store.mode = dom.sig
           /\ \E owed \in BOOLEAN :
                dom' = [dom EXCEPT !.mode = store.mode, !.owed = owed,
                          !.sig = IF surface.focus = "field" /\ ~owed THEN store.mode ELSE @]
           /\ UNCHANGED edit

-----------------------------------------------------------------------------
(* A refresh                                                               *)

(* The connectivity probe of a sync; refreshEntities then notes the        *)
(* revision of the time writes.                                            *)
ProbeOk(f) ==
  /\ fetch[f].stage = "probe"
  /\ fetch' = [fetch EXCEPT ![f].stage = "sent", ![f].rev = rev]
  /\ UNCHANGED <<surface, edit, loop, store, rev, dom, save, ota, dev, wire, left>>

(* The finally block.  A fast sync of an overview asks for a bulk one and, *)
(* when it got that far, for the supplementary data; a queued request runs *)
(* at once (its timer has no delay), and the polling chain goes on.        *)
Finish(f) ==
  LET t       == fetch[f]
      queued  == loop.pending # NoOpts /\ ~surface.native
      fastOverview == /\ t.task = "sync" /\ "fast" \in t.opts
                      /\ surface.view = "overview" /\ ~surface.native
      next    == (IF fastOverview /\ ~queued THEN {"bulk"} ELSE {})
          \cup (IF fastOverview /\ t.stage = "extra" THEN {"supplementary"} ELSE {})
      done    == [loop EXCEPT !.inFlight = FALSE, !.pending = NoOpts, !.due = @ \cup next]
      onward  == IF t.chained THEN Arm(done, surface, ota) ELSE done
      freed   == [fetch EXCEPT ![f] = Quiet]
  IN IF queued THEN SyncEntities(loop.pending, FALSE, onward, surface, freed)
               ELSE loop' = onward /\ fetch' = freed

ProbeFails(f) ==
  /\ fetch[f].stage = "probe"
  /\ UNCHANGED store
  /\ IF fetch[f].task = "prefetch" THEN UNCHANGED <<dom, edit>> ELSE Render(surface)
  /\ Finish(f)
  /\ UNCHANGED <<surface, rev, save, ota, dev, wire, left>>

(* The device reads its values and answers.                                *)
Answer(f) ==
  /\ fetch[f].stage = "sent"
  /\ fetch' = [fetch EXCEPT ![f].stage = "answered",
                            ![f].clock = dev.clock, ![f].mode = dev.mode]
  /\ UNCHANGED <<surface, edit, loop, store, rev, dom, save, ota, dev, wire, left>>

(* A bug: only a save that is under way is looked at.                      *)
ClockFrom_IgnoringRevision(f) == IF save.stage # "idle" THEN store.clock ELSE fetch[f].clock

(* A poll started before or during a time write must not restore the old   *)
(* time.                                                                   *)
ClockFrom(f) ==
  IF save.stage # "idle" \/ fetch[f].rev # rev THEN store.clock ELSE fetch[f].clock

(* What follows a refresh: a sync awaits its supplementary requests one by *)
(* one ("extra"); primeEntities and primeDeferredEntities end, the latter  *)
(* dropping entitySyncInFlight whatever else is under way.                 *)
Proceed(f) ==
  CASE fetch[f].task \in {"sync", "prefetch"} ->
         /\ fetch' = [fetch EXCEPT ![f] =
                        [Quiet EXCEPT !.stage = "extra", !.task = fetch[f].task,
                           !.opts = fetch[f].opts, !.chained = fetch[f].chained]]
         /\ UNCHANGED <<edit, loop, dom>>
    [] fetch[f].task = "prime" ->
         /\ Render(surface)
         /\ fetch' = [fetch EXCEPT ![f] = Quiet]
         /\ loop' = [loop EXCEPT !.loading = FALSE,
                       !.due = @ \cup {"deferred"}
                           \cup (IF surface.native THEN {} ELSE {"supplementary"})]
    [] fetch[f].task = "deferred" ->
         /\ IF surface.native THEN UNCHANGED <<dom, edit>> ELSE Render(surface)
         /\ Finish(f)

MergeAnswer(f) ==
  /\ fetch[f].stage = "answered"
  /\ store' = [ clock |-> ClockFrom(f), mode |-> fetch[f].mode, loaded |-> TRUE ]
  /\ Proceed(f)
  /\ UNCHANGED <<surface, rev, save, ota, dev, wire, left>>

(* A refresh that fails is noted, merges nothing, and goes on.             *)
RequestFails(f) ==
  /\ fetch[f].stage \in {"sent", "answered"}
  /\ UNCHANGED store
  /\ Proceed(f)
  /\ UNCHANGED <<surface, rev, save, ota, dev, wire, left>>

EndSync(f) ==
  /\ fetch[f].stage = "extra"
  /\ UNCHANGED store
  /\ IF fetch[f].task = "prefetch" THEN UNCHANGED <<dom, edit>> ELSE DrawAfterSync
  /\ Finish(f)
  /\ UNCHANGED <<surface, rev, save, ota, dev, wire, left>>

-----------------------------------------------------------------------------
(* One-shot timers                                                         *)

Without(t) == [loop EXCEPT !.due = @ \ {t}]

BulkTimer ==
  /\ "bulk" \in loop.due
  /\ SyncEntities({"bulk"}, FALSE, Without("bulk"), surface, fetch)
  /\ UNCHANGED <<surface, edit, store, rev, dom, save, ota, dev, wire, left>>

DeferredTimer ==
  /\ "deferred" \in loop.due
  /\ IF surface.native
     THEN loop' = Without("deferred") /\ UNCHANGED fetch
     ELSE \E f \in 1 .. Fetches :
            /\ Idle(f, fetch)
            /\ Begin(f, fetch, "deferred", {}, FALSE, "sent")
            /\ loop' = [Without("deferred") EXCEPT !.inFlight = TRUE]
  /\ UNCHANGED <<surface, edit, store, rev, dom, save, ota, dev, wire, left>>

(* primeSupplementaryData: its history and account requests end in a       *)
(* render, and in a prefetch of the overview from the settings.            *)
SupplementaryTimer ==
  /\ "supplementary" \in loop.due
  /\ UNCHANGED store
  /\ IF surface.native
     THEN UNCHANGED <<dom, edit>> /\ loop' = Without("supplementary")
     ELSE /\ Render(surface)
          /\ loop' = [Without("supplementary") EXCEPT
                        !.due = @ \cup (IF surface.view \in Settings
                                        THEN {"prefetch"} ELSE {})]
  /\ UNCHANGED <<surface, fetch, rev, save, ota, dev, wire, left>>

(* scheduleOverviewPrefetch: waits for a quiet moment in the settings.     *)
PrefetchTimer ==
  /\ "prefetch" \in loop.due
  /\ LET s == surface IN
     IF s.native \/ s.view \notin Settings
     THEN loop' = Without("prefetch") /\ UNCHANGED fetch
     ELSE /\ ~(loop.loading \/ s.focus = "field" \/ s.held \/ s.busy # "")
          /\ SyncEntities({"prefetch", "fast"}, FALSE, Without("prefetch"), s, fetch)
  /\ UNCHANGED <<surface, edit, store, rev, dom, save, ota, dev, wire, left>>

-----------------------------------------------------------------------------
(* commitTime                                                              *)

(* The user leaves the time field with a new value in it.                  *)
StartSave ==
  /\ edit # "none" /\ ~loop.loading /\ save.stage = "idle" /\ left.saves > 0
  /\ left' = [left EXCEPT !.saves = @ - 1]
  /\ save' = [save EXCEPT !.stage = "posted", !.id = left.saves]
  /\ wire' = wire \cup {left.saves}
  /\ rev' = rev + 1
  /\ surface' = [surface EXCEPT !.busy = "save", !.focus = "none"]
  /\ edit' = "none"
  /\ UNCHANGED store
  /\ dom' = FullDom(surface')
  /\ UNCHANGED <<loop, fetch, ota, dev>>

(* The device applies a posted value, in time or long after.               *)
ApplySave(i) ==
  /\ i \in wire
  /\ wire' = wire \ {i}
  /\ dev' = [dev EXCEPT !.clock = @ + 1, !.by = i]
  /\ UNCHANGED <<surface, edit, loop, fetch, store, rev, dom, save, ota, left>>

PostAcknowledged ==
  /\ save.stage = "posted" /\ save.id \notin wire
  /\ save' = [save EXCEPT !.stage = "confirm"]
  /\ UNCHANGED <<surface, edit, loop, fetch, store, rev, dom, ota, dev, wire, left>>

EndSave(confirmed, clock) ==
  /\ store' = [store EXCEPT !.clock = clock]
  /\ save' = [save EXCEPT !.stage = "idle", !.confirmed = confirmed]
  /\ rev' = rev + 1
  /\ surface' = [surface EXCEPT !.busy = IF @ = "save" THEN "" ELSE @]
  /\ Render(surface')
  /\ UNCHANGED <<loop, fetch, ota, dev, wire, left>>

(* The request is lost, refused or timed out; a late one may still apply.  *)
SaveFails ==
  /\ save.stage # "idle"
  /\ EndSave(save.confirmed, store.clock)

(* The value read back is shown; it is confirmed when it is the one saved. *)
ConfirmSave ==
  /\ save.stage = "confirm"
  /\ EndSave(IF dev.by = save.id THEN dev.clock ELSE save.confirmed, dev.clock)

-----------------------------------------------------------------------------
(* The user                                                                *)

Gesture(s) ==
  /\ left.events > 0
  /\ left' = [left EXCEPT !.events = @ - 1]
  /\ surface' = s

(* focusin: of the time field, of any other, or of a button.               *)
Focus ==
  /\ ~surface.native /\ surface.focus = "none" /\ ~surface.overlay /\ store.loaded
  /\ \E what \in {"field", "button"} :
       /\ Gesture([surface EXCEPT !.focus = what])
       /\ edit' \in IF what = "field" /\ surface.view = "heating"
                     THEN {"none", "open"} ELSE {"none"}
  /\ UNCHANGED <<loop, fetch, store, rev, dom, save, ota, dev, wire>>

(* focusout without a new time: a render that waited runs, and so does one *)
(* owed to the heating settings.                                           *)
Blur ==
  /\ surface.focus # "none"
  /\ surface' = [surface EXCEPT !.focus = "none"]
  /\ edit' = "none"
  /\ UNCHANGED store
  /\ dom' = IF edit = "pending" \/ (dom.owed /\ surface.view = "heating")
            THEN FullDom(surface) ELSE dom
  /\ UNCHANGED <<loop, fetch, rev, save, ota, dev, wire, left>>

(* A drag of a curve point or a hovered hotspot holds the page still.      *)
Hold ==
  /\ ~surface.held /\ ~surface.native /\ ~surface.overlay
  /\ Gesture([surface EXCEPT !.held = TRUE])
  /\ UNCHANGED <<edit, loop, fetch, store, rev, dom, save, ota, dev, wire>>

Release ==
  /\ surface.held
  /\ surface' = [surface EXCEPT !.held = FALSE]
  /\ UNCHANGED store /\ Render(surface')
  /\ UNCHANGED <<loop, fetch, rev, save, ota, dev, wire, left>>

OpenOverlay ==
  /\ ~surface.native /\ surface.focus = "none" /\ ~surface.overlay
  /\ Gesture([surface EXCEPT !.overlay = TRUE])
  /\ UNCHANGED store /\ Render(surface')
  /\ UNCHANGED <<loop, fetch, rev, save, ota, dev, wire>>

CloseOverlay ==
  /\ surface.overlay
  /\ surface' = [surface EXCEPT !.overlay = FALSE]
  /\ UNCHANGED store /\ Render(surface')
  /\ UNCHANGED <<loop, fetch, rev, save, ota, dev, wire, left>>

(* Another command is busy with busyAction set, and ends in a render.      *)
Command ==
  /\ ~surface.native /\ surface.busy = ""
  /\ Gesture([surface EXCEPT !.busy = "command"])
  /\ UNCHANGED <<edit, loop, fetch, store, rev, dom, save, ota, dev, wire>>

CommandEnds ==
  /\ surface.busy = "command"
  /\ surface' = [surface EXCEPT !.busy = ""]
  /\ UNCHANGED store /\ Render(surface')
  /\ UNCHANGED <<loop, fetch, rev, save, ota, dev, wire, left>>

(* select-view and select-settings-group, reached by leaving the field.    *)
SwitchView ==
  /\ ~surface.native /\ surface.focus = "none" /\ ~surface.overlay
  /\ \E v \in Views \ {surface.view} :
       LET s == [surface EXCEPT !.view = v] IN
       /\ Gesture(s)
       /\ UNCHANGED store /\ Render(s)
       /\ SyncEntities({"fast"}, FALSE, loop, s, fetch)
  /\ UNCHANGED <<rev, save, ota, dev, wire>>

(* selectSurface and syncSurfaceRuntime.                                   *)
OpenNative ==
  /\ ~surface.native /\ surface.focus = "none"
  /\ Gesture([surface EXCEPT !.native = TRUE, !.overlay = FALSE])
  /\ loop' = [loop EXCEPT !.poll = FALSE]
  /\ UNCHANGED <<edit, fetch, store, rev, dom, save, ota, dev, wire>>

CloseNative ==
  /\ surface.native
  /\ surface' = [surface EXCEPT !.native = FALSE]
  /\ UNCHANGED store /\ Render(surface')
  /\ LET l == Arm(loop, surface', ota) IN
     IF store.loaded
     THEN SyncEntities({"fast"}, FALSE, l, surface', fetch)
     ELSE \E f \in 1 .. Fetches :
            /\ Idle(f, fetch)
            /\ Begin(f, fetch, "prime", {}, FALSE, "sent")
            /\ loop' = [l EXCEPT !.loading = TRUE]
  /\ UNCHANGED <<rev, save, ota, dev, wire, left>>

(* handleVisibilityChange                                                  *)
Hide ==
  /\ ~surface.native /\ ~surface.hidden
  /\ Gesture([surface EXCEPT !.hidden = TRUE])
  /\ loop' = Arm([loop EXCEPT !.poll = FALSE], surface', ota)
  /\ UNCHANGED <<edit, fetch, store, rev, dom, save, ota, dev, wire>>

Reveal ==
  /\ ~surface.native /\ surface.hidden
  /\ surface' = [surface EXCEPT !.hidden = FALSE]
  /\ SyncEntities({}, FALSE, Arm([loop EXCEPT !.poll = FALSE], surface', ota), surface', fetch)
  /\ UNCHANGED <<edit, store, rev, dom, save, ota, dev, wire, left>>

-----------------------------------------------------------------------------
(* A firmware update keeps the page from polling                           *)

BeginInstall ==
  /\ ~surface.native /\ surface.busy = "" /\ ~ota.install
  /\ Gesture(surface)
  /\ ota' = [ota EXCEPT !.install = TRUE]
  /\ UNCHANGED <<edit, loop, fetch, store, rev, dom, save, dev, wire>>

BeginQuiet ==
  /\ ota.install /\ ~ota.quiet
  /\ ota' = [ota EXCEPT !.quiet = TRUE]
  /\ loop' = [loop EXCEPT !.poll = FALSE, !.pending = NoOpts]
  /\ UNCHANGED <<surface, edit, fetch, store, rev, dom, save, dev, wire, left>>

QuietTimer ==
  /\ ota.quiet
  /\ ota' = [ota EXCEPT !.quiet = FALSE]
  /\ loop' = Arm(loop, surface, ota')
  /\ UNCHANGED <<surface, edit, fetch, store, rev, dom, save, dev, wire, left>>

ResetInstall ==
  /\ ota.install
  /\ ota' = [install |-> FALSE, quiet |-> FALSE]
  /\ loop' = Arm(loop, surface, ota')
  /\ UNCHANGED <<surface, edit, fetch, store, rev, dom, save, dev, wire, left>>

-----------------------------------------------------------------------------
DeviceChanges ==
  /\ left.events > 0
  /\ left' = [left EXCEPT !.events = @ - 1]
  /\ dev' = [dev EXCEPT !.mode = @ + 1]
  /\ UNCHANGED <<surface, edit, loop, fetch, store, rev, dom, save, ota, wire>>

(* After boot: mounted, polling, and the first refresh under way.          *)
Init ==
  /\ surface \in [ view : Views, native : {FALSE}, hidden : {FALSE}, focus : {"none"},
                   held : {FALSE}, overlay : {FALSE}, busy : {""} ]
  /\ edit = "none"
  /\ loop = [ poll |-> TRUE, inFlight |-> FALSE, pending |-> NoOpts,
              loading |-> TRUE, due |-> {} ]
  /\ fetch = [f \in 1 .. Fetches |->
                IF f = 1 THEN [Quiet EXCEPT !.stage = "sent", !.task = "prime"] ELSE Quiet]
  /\ store = [ clock |-> 0, mode |-> 0, loaded |-> FALSE ]
  /\ rev = 0
  /\ dom = [ mode |-> 0, layout |-> 0, owed |-> FALSE, sig |-> 0 ]
  /\ save = [ stage |-> "idle", id |-> 0, confirmed |-> 0 ]
  /\ ota = [ install |-> FALSE, quiet |-> FALSE ]
  /\ dev = [ clock |-> 1, mode |-> 1, by |-> 0 ]
  /\ wire = {}
  /\ left = [ events |-> MaxEvents, saves |-> MaxSaves ]

FetchStep(f) == \/ ProbeOk(f) \/ ProbeFails(f) \/ Answer(f) \/ MergeAnswer(f)
                \/ RequestFails(f) \/ EndSync(f)

TimerStep == \/ BulkTimer \/ DeferredTimer \/ SupplementaryTimer \/ PrefetchTimer

SaveStep == \/ StartSave \/ PostAcknowledged \/ SaveFails \/ ConfirmSave
            \/ \E i \in wire : ApplySave(i)

UserStep == \/ Focus \/ Blur \/ Hold \/ Release \/ OpenOverlay \/ CloseOverlay \/ Command \/ CommandEnds
            \/ SwitchView \/ OpenNative \/ CloseNative \/ Hide \/ Reveal

OtaStep == BeginInstall \/ BeginQuiet \/ QuietTimer \/ ResetInstall

Next == \/ PollFires \/ TimerStep \/ SaveStep \/ UserStep \/ OtaStep \/ DeviceChanges
        \/ \E f \in 1 .. Fetches : FetchStep(f)

Spec == Init /\ [][Next]_vars

(* Timers fire, requests are answered or time out, commands end.  That an  *)
(* answer gets through again and again is what "the device is reachable"   *)
(* means here.                                                             *)
Fairness ==
  /\ WF_vars(PollFires)
  /\ \A f \in 1 .. Fetches : WF_vars(FetchStep(f))
  /\ SF_vars(\E f \in 1 .. Fetches : ProbeOk(f))
  /\ SF_vars(\E f \in 1 .. Fetches : Answer(f))
  /\ SF_vars(\E f \in 1 .. Fetches : MergeAnswer(f))
  /\ WF_vars(PostAcknowledged \/ ConfirmSave \/ SaveFails)
  /\ WF_vars(CommandEnds)
  /\ WF_vars(ResetInstall)

-----------------------------------------------------------------------------
TypeOK ==
  /\ surface \in [ view : Views, native : BOOLEAN, hidden : BOOLEAN, focus : {"none", "field", "button"},
                   held : BOOLEAN, overlay : BOOLEAN, busy : {"", "save", "command"} ]
  /\ edit \in {"none", "open", "pending"}
  /\ loop \in [ poll : BOOLEAN, inFlight : BOOLEAN, pending : Opts \cup {NoOpts},
                loading : BOOLEAN, due : SUBSET Timers ]
  /\ fetch \in [1 .. Fetches ->
                  [ stage : {"idle", "probe", "sent", "answered", "extra"},
                    task : {"sync", "prefetch", "prime", "deferred"}, opts : Opts,
                    chained : BOOLEAN, rev : Nat, clock : Nat, mode : Nat ]]
  /\ store \in [ clock : Nat, mode : Nat, loaded : BOOLEAN ]
  /\ rev \in Nat
  /\ dom \in [ mode : Nat, layout : Nat, owed : BOOLEAN, sig : Nat ]
  /\ save \in [ stage : {"idle", "posted", "confirm"}, id : Nat, confirmed : Nat ]
  /\ ota \in [ install : BOOLEAN, quiet : BOOLEAN ]
  /\ dev \in [ clock : Nat, mode : Nat, by : Nat ]
  /\ wire \in SUBSET Nat
  /\ left \in [ events : Nat, saves : Nat ]

(* While the app's own surface is open something always brings the next    *)
(* poll: its timer is armed, a refresh it awaits is under way, or a        *)
(* firmware update has stopped polling and will restart it                 *)
(* (scheduleEntityPolling, stopEntityPolling, the quiet window).           *)
PollingAlive ==
  \/ surface.native \/ loop.poll \/ OtaBusy(ota)
  \/ \E f \in 1 .. Fetches : fetch[f].stage # "idle" /\ fetch[f].chained

(* Once a time is saved and confirmed, no refresh started before or during *)
(* the save puts an older one back on the page (refreshEntities and the    *)
(* write revision of commitTime).                                          *)
ConfirmedTimeStays == store.clock >= save.confirmed

(* If in the end the user leaves the page alone, in view, with no command  *)
(* or update busy, the page shows what the device has.                     *)
Undisturbed == /\ ~(surface.native \/ surface.hidden \/ surface.held \/ surface.overlay)
               /\ surface.focus = "none" /\ ~OtaBusy(ota)

Current == store.clock = dev.clock /\ store.mode = dev.mode /\ dom.mode = dev.mode
=============================================================================
