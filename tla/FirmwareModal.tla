--------------------------- MODULE FirmwareModal ---------------------------
(***************************************************************************)
(* The update modal of the web app (features/firmware-update.js and        *)
(* firmware-actions.js): what it makes of the running and the offered      *)
(* version, the panels it opens and what the user confirms in them, a      *)
(* check for updates that the user may cancel, and the install of another  *)
(* channel's version, for which the target is set and read back first.     *)
(***************************************************************************)
EXTENDS Naturals

CONSTANTS
  Newest,      \* bound: version numbers
  MaxReads,    \* attempts of pollFirmwareUpdateState
  MaxClicks,   \* bound: what the user does in the modal
  MaxReleases  \* bound: releases published meanwhile

(* A version's number, and its prerelease tag.                             *)
Versions == [ n : 1 .. Newest, tag : {"", "dev", "pr"} ]
Unknown  == [ n |-> 0, tag |-> "" ]
Channels == {"main", "dev"}
Sections == {"connection", "topology", "upload", "test"}

VARIABLES
  modal,   \* open, its panels, what is confirmed in them
  entity,  \* state.entities: channel, running and latest version, revision
  unit,    \* the device: selected channel, what it runs and last found, a check under way
  feed,    \* the newest release of each channel
  check,   \* activeFirmwareCheck
  change,  \* the install, until it is requested, or a change of channel
  quota    \* what the bounds leave

vars == <<modal, entity, unit, feed, check, change, quota>>

-----------------------------------------------------------------------------
(* Versions                                                                *)

(* compareFirmwareVersions: a stable version is newer than its             *)
(* prereleases.                                                            *)
Rank(v) == 4 * v.n + (CASE v.tag = "" -> 3 [] v.tag = "pr" -> 2 [] v.tag = "dev" -> 1)
Newer(a, b) == Rank(a) > Rank(b)

Channel(v) == IF v.tag = "" THEN "main" ELSE v.tag  \* getFirmwareRunningChannelLabel

(* isFirmwareEntityAlignedWithChannel                                      *)
Aligned(e, c) ==
  CASE c = "dev"  -> e.url = "dev" \/ e.latest.tag = "dev"
    [] c = "main" -> e.url # "dev" /\ e.latest.tag # "dev"

Related(e) == Aligned(e, e.channel) /\ e.latest # Unknown
Downgrade(e) ==
  /\ e.channel = "main" /\ Channel(e.running) = "dev"
  /\ Related(e) /\ Newer(e.running, e.latest)
Transition(e) ==
  /\ e.channel = "dev" /\ Aligned(e, "dev")
  /\ Channel(e.running) \in {"main", "pr"} /\ e.latest.tag = "dev"
Available(e) == Related(e) /\ (Transition(e) \/ Newer(e.latest, e.running))

Checking == check.busy \/ entity.checking

(* What getUpdateStatus says of it, and the versions the modal shows.      *)
Status ==
  CASE Checking -> "checking"
    [] ~Checking /\ change.stage # "idle" -> "installing"
    [] ~Checking /\ change.stage = "idle" /\ Downgrade(entity) -> "downgrade"
    [] ~Checking /\ change.stage = "idle" /\ ~Downgrade(entity) /\ Available(entity) -> "available"
    [] OTHER -> IF entity.latest = Unknown THEN "not checked" ELSE "current"

-----------------------------------------------------------------------------
(* Panels                                                                  *)

Closed == [ open |-> FALSE, advanced |-> FALSE, sections |-> {}, confirmed |-> {},
            downgrade |-> Unknown, said |-> "" ]

Click(m) == /\ quota.clicks > 0
            /\ quota' = [quota EXCEPT !.clicks = @ - 1]
            /\ modal' = m

(* What the modal leaves enabled.                                          *)
Free == modal.open /\ Status \notin {"checking", "installing"}

OpenModal ==
  /\ ~modal.open
  /\ Click([modal EXCEPT !.open = TRUE, !.downgrade = Unknown])
  /\ UNCHANGED <<entity, unit, feed, check, change>>

(* Hydration and every other refresh of the firmware entities.             *)
Fetched(e) == [ channel |-> unit.channel, running |-> unit.running, latest |-> unit.latest,
                url |-> unit.found, checking |-> unit.checking, rev |-> unit.rev ]

Hydrate ==
  /\ modal.open /\ entity # Fetched(entity)
  /\ entity' = Fetched(entity)
  /\ UNCHANGED <<modal, unit, feed, check, change, quota>>

(* close-update-modal aborts a check; a click beside the modal does not.   *)
CloseModal ==
  /\ modal.open /\ change.stage = "idle"
  /\ modal' = [Closed EXCEPT !.said = modal.said]
  /\ check' = IF check.stage = "none" THEN check
              ELSE [check EXCEPT !.aborted = TRUE, !.busy = FALSE]
  /\ UNCHANGED <<entity, unit, feed, change, quota>>

ClickBeside ==
  /\ modal.open /\ change.stage = "idle"
  /\ modal' = [Closed EXCEPT !.said = modal.said]
  /\ UNCHANGED <<entity, unit, feed, check, change, quota>>

ToggleAdvanced ==
  /\ Free
  /\ Click(IF modal.advanced \/ modal.sections # {}
           THEN [modal EXCEPT !.advanced = FALSE, !.sections = {}, !.confirmed = {}]
           ELSE [modal EXCEPT !.advanced = TRUE])
  /\ UNCHANGED <<entity, unit, feed, check, change>>

(* Opening a section closes the others and drops what they confirmed.      *)
ToggleSection(s) ==
  /\ Free /\ (modal.advanced \/ modal.sections # {})
  /\ Click(IF s \in modal.sections
           THEN [modal EXCEPT !.sections = @ \ {s}, !.confirmed = @ \ {s}]
           ELSE [modal EXCEPT !.advanced = TRUE, !.sections = {s}, !.confirmed = {}])
  /\ UNCHANGED <<entity, unit, feed, check, change>>

Confirm(s) ==
  /\ Free /\ s \in modal.sections
  /\ Click([modal EXCEPT !.confirmed = IF s \in @ THEN @ \ {s} ELSE @ \cup {s}])
  /\ UNCHANGED <<entity, unit, feed, check, change>>

(* Another pull request's number drops the confirmation of the test.       *)
EditTest ==
  /\ Free /\ "test" \in modal.sections
  /\ Click([modal EXCEPT !.confirmed = @ \ {"test"}])
  /\ UNCHANGED <<entity, unit, feed, check, change>>

ConfirmDowngrade ==
  /\ Free /\ Downgrade(entity)
  /\ Click([modal EXCEPT !.downgrade = IF @ = entity.latest THEN Unknown ELSE entity.latest])
  /\ UNCHANGED <<entity, unit, feed, check, change>>

-----------------------------------------------------------------------------
(* The check for updates                                                   *)

(* primeFirmwareUpdateState                                                *)
Primed(e, c) == [e EXCEPT !.checking = TRUE, !.latest = Unknown, !.url = c]

NoCheck == [ stage |-> "none", busy |-> FALSE, aborted |-> FALSE, rev |-> 0, tries |-> 0 ]

StartCheck ==
  /\ Free /\ check.stage = "none"
  /\ Click([modal EXCEPT !.said = ""])
  /\ check' = [NoCheck EXCEPT !.stage = "read", !.busy = TRUE]
  /\ UNCHANGED <<entity, unit, feed, change>>

EndCheck(says) ==
  /\ check' = NoCheck
  /\ modal' = [modal EXCEPT !.said = IF check.aborted THEN @ ELSE says]

(* The refresh before the press tells the revision of the last check.      *)
CheckReads ==
  /\ check.stage = "read"
  /\ IF check.aborted
     THEN EndCheck("") /\ UNCHANGED entity
     ELSE \/ /\ check' = [check EXCEPT !.stage = "press", !.rev = unit.rev]
             /\ entity' = Primed(Fetched(entity), unit.channel)
             /\ UNCHANGED modal
          \/ EndCheck("failed") /\ UNCHANGED entity
  /\ UNCHANGED <<unit, feed, change, quota>>

(* The press itself is never taken back; only the polling after it is.     *)
CheckPresses ==
  /\ check.stage = "press"
  /\ unit' = [unit EXCEPT !.checking = TRUE]
  /\ IF check.aborted
     THEN EndCheck("")
     ELSE check' = [check EXCEPT !.stage = "poll"] /\ UNCHANGED modal
  /\ UNCHANGED <<entity, feed, change, quota>>

Fresh(e) == e.rev # check.rev /\ Aligned(e, e.channel) /\ e.latest # Unknown

CheckPolls ==
  /\ check.stage = "poll"
  /\ IF check.aborted
     THEN EndCheck("") /\ UNCHANGED entity
     ELSE /\ entity' \in {entity, Fetched(entity)}
          /\ IF Fresh(entity') THEN EndCheck("updated")
             ELSE IF check.tries + 1 = MaxReads THEN EndCheck("failed")
             ELSE check' = [check EXCEPT !.tries = @ + 1] /\ UNCHANGED modal
  /\ UNCHANGED <<unit, feed, change, quota>>

-----------------------------------------------------------------------------
(* A change of channel, and the install                                    *)

Idle == [ stage |-> "idle", kind |-> "none", version |-> Unknown, tries |-> 0 ]

(* commitSelect of firmwareUpdateChannel: shown at once, then posted.      *)
SelectChannel(c) ==
  /\ Free /\ c # entity.channel
  /\ Click([modal EXCEPT !.downgrade = Unknown])
  /\ change' = [Idle EXCEPT !.stage = "post", !.kind = "channel"]
  /\ entity' = [entity EXCEPT !.channel = c]
  /\ UNCHANGED <<unit, feed, check>>

ChannelPosted ==
  /\ change.stage = "post" /\ change.kind = "channel"
  /\ \/ /\ unit' = [unit EXCEPT !.channel = entity.channel, !.checking = TRUE]
        /\ entity' = Primed(entity, entity.channel)
        /\ change' = [change EXCEPT !.stage = "poll"]
     \/ /\ entity' = [entity EXCEPT !.channel = unit.channel]
        /\ change' = Idle /\ UNCHANGED unit
  /\ UNCHANGED <<modal, feed, check, quota>>

(* installFirmwareUpdate: a downgrade needs the confirmation of the very   *)
(* version it would install, and closes every panel.                       *)
StartInstall ==
  /\ Free /\ (Available(entity) \/ Downgrade(entity))
  /\ Downgrade(entity) => modal.downgrade = entity.latest
  /\ Click([modal EXCEPT !.advanced = FALSE, !.sections = {}, !.confirmed = {}])
  /\ change' = [ stage |-> "post", version |-> entity.latest, tries |-> 0,
                 kind |-> IF Downgrade(entity) THEN "downgrade"
                          ELSE IF Transition(entity) THEN "transition" ELSE "update" ]
  /\ UNCHANGED <<entity, unit, feed, check>>

(* setFirmwareUpdateTarget: setting the target starts a check, whose       *)
(* result only a downgrade waits for.                                      *)
TargetPosted ==
  /\ change.stage = "post" /\ change.kind # "channel"
  /\ \/ /\ unit' = [unit EXCEPT !.checking = TRUE]
        /\ IF change.kind = "downgrade"
           THEN /\ entity' = Primed(entity, entity.channel)
                /\ change' = [change EXCEPT !.stage = "poll"]
           ELSE /\ UNCHANGED entity
                /\ change' = [change EXCEPT !.stage = "verify"]
     \/ change' = Idle /\ UNCHANGED <<unit, entity>>
  /\ UNCHANGED <<modal, feed, check, quota>>

ChangePolls ==
  /\ change.stage = "poll"
  /\ entity' \in {entity, Fetched(entity)}
  /\ change' = IF Aligned(entity', entity'.channel) /\ entity'.latest # Unknown
               THEN IF change.kind = "channel" THEN Idle ELSE [change EXCEPT !.stage = "verify"]
               ELSE IF change.tries + 1 = MaxReads THEN Idle
               ELSE [change EXCEPT !.tries = @ + 1]
  /\ UNCHANGED <<modal, unit, feed, check, quota>>

(* A bug: it is not asked which downgrade was confirmed.                   *)
Verified_AnyDowngrade ==
  CASE change.kind = "downgrade"  -> Downgrade(entity)
    [] change.kind = "transition" -> Transition(entity) /\ entity.latest = change.version
    [] change.kind = "update"     -> TRUE

(* What is offered now must still be what was asked and confirmed; the     *)
(* device then installs what it found itself.                              *)
Verified ==
  CASE change.kind = "downgrade"  -> Downgrade(entity) /\ modal.downgrade = entity.latest
    [] change.kind = "transition" -> Transition(entity) /\ entity.latest = change.version
    [] change.kind = "update"     -> TRUE

RequestInstall ==
  /\ change.stage = "verify"
  /\ change' = IF Verified THEN [change EXCEPT !.stage = "requested", !.version = entity.latest] ELSE Idle
  /\ UNCHANGED <<modal, entity, unit, feed, check, quota>>

-----------------------------------------------------------------------------
(* The device and the release channels                                     *)

UnitFinds ==
  /\ unit.checking
  /\ unit' = [unit EXCEPT !.checking = FALSE, !.latest = feed[unit.channel],
                          !.found = unit.channel, !.rev = @ + 1]
  /\ UNCHANGED <<modal, entity, feed, check, change, quota>>

Publish(c) ==
  /\ quota.releases > 0 /\ feed[c].n < Newest
  /\ quota' = [quota EXCEPT !.releases = @ - 1]
  /\ feed' = [feed EXCEPT ![c].n = @ + 1]
  /\ UNCHANGED <<modal, entity, unit, check, change>>

Init ==
  /\ feed = [c \in Channels |-> [ n |-> 1, tag |-> IF c = "main" THEN "" ELSE "dev" ]]
  /\ \E tag \in {"", "dev", "pr"}, c \in Channels :
       unit = [ channel |-> c, running |-> [ n |-> IF tag = "" THEN 1 ELSE Newest, tag |-> tag ],
                latest |-> feed[c], found |-> c, checking |-> FALSE, rev |-> 1 ]
  /\ entity = [ channel |-> unit.channel, running |-> unit.running, latest |-> unit.latest,
                url |-> unit.found, checking |-> FALSE, rev |-> 1 ]
  /\ modal = Closed /\ check = NoCheck /\ change = Idle
  /\ quota = [ clicks |-> MaxClicks, releases |-> MaxReleases ]

Next ==
  \/ OpenModal \/ Hydrate \/ CloseModal \/ ClickBeside \/ ToggleAdvanced \/ EditTest
  \/ ConfirmDowngrade \/ StartCheck \/ CheckReads \/ CheckPresses \/ CheckPolls
  \/ ChannelPosted \/ StartInstall \/ TargetPosted \/ ChangePolls \/ RequestInstall \/ UnitFinds
  \/ \E s \in Sections : ToggleSection(s) \/ Confirm(s)
  \/ \E c \in Channels : SelectChannel(c) \/ Publish(c)

Spec == Init /\ [][Next]_vars

-----------------------------------------------------------------------------
(* What the user confirmed is on screen, a version never is installed over *)
(* a newer one unless that very version was confirmed, and a check says it *)
(* is done only of a result the device found after it began               *)
(* (toggle-firmware-*, installFirmwareUpdate, pollFirmwareUpdateState).    *)
OnlyAsConfirmed ==
  /\ modal.confirmed \subseteq modal.sections
  /\ \A s, t \in modal.sections : s = t
  /\ change.stage = "requested" /\ Newer(entity.running, change.version)
       /\ Channel(entity.running) = "dev" => modal.downgrade = change.version
=============================================================================
