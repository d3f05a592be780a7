--------------------------- MODULE RestartHandoff ---------------------------
(***************************************************************************)
(* The one-shot record that carries off-time credit and running heat pumps *)
(* across a planned restart or a firmware update                           *)
(* (components/openquatt_incident_manager/OpenQuattRestartHandoff.cpp).    *)
(*                                                                         *)
(* Everything around the record is in the model because everything around  *)
(* it can go wrong: flash whose reads, erases and writes fail half way,    *)
(* resets of every kind between any two steps, a boot loader that rolls    *)
(* back, a web upload whose events reach the main loop late, a native      *)
(* update that blocks it, and heat pumps that go on while the controller   *)
(* is down.  `on` and `rest` are what the compressors really do.           *)
(***************************************************************************)
EXTENDS Naturals, Sequences

CONSTANTS
  HPs,          \* the heat pumps of the installation
  MinimumOff,   \* configured_minimum_off_ms
  Images,       \* firmware images that exist
  NoImage,      \* stands for a slot that holds no image, and for the empty hash
  Config,       \* Config[i]: configuration_hash compiled into image i
  MaxTransfer,  \* OtaResumePolicy::MAX_TRANSFER_MS
  QueueLimit    \* bound: deferred upload events that wait at the same time

Least(a, b) == IF a <= b THEN a ELSE b

Slots    == {"A", "B"}
Other(s) == IF s = "A" THEN "B" ELSE "A"
Image    == Images \cup {NoImage}

ASSUME HandoffAssumption ==
  /\ MinimumOff \in Nat \ {0} /\ MaxTransfer \in Nat \ {0} /\ QueueLimit \in Nat
  /\ NoImage \notin Images
  /\ Config = [i \in Image |-> Config[i]]

Credits   == [HPs -> 0 .. MinimumOff]
NoCredit  == [h \in HPs |-> 0]

(* Record: what the NVS key holds.  A torn or foreign blob is Garbage, and *)
(* the checksum, magic and version tests tell it from a record.            *)
NoRecord == [kind |-> "absent"]
Garbage  == [kind |-> "garbage"]
Record   == [ kind : {"armed", "ota"}, mask : SUBSET HPs, credit : Credits,
              slot : Slots, image : Image, config : {Config[i] : i \in Image} ]

IsRecord(r) == r \notin {NoRecord, Garbage}

ValidRecord(r) ==
  /\ IsRecord(r) /\ r.image # NoImage
  /\ r.credit # NoCredit \/ r.mask # {}
  /\ \A h \in r.mask : r.credit[h] = 0

ImageState == {"VALID", "UNDEFINED", "NEW", "PENDING", "ABORTED"}
Flash == [ running : Slots, selected : Slots,      \* running and boot partition
           img : [Slots -> Image], state : [Slots -> ImageState],
           marks : BOOLEAN ]  \* the boot loader turns NEW into PENDING_VERIFY

Context == [ sw : BOOLEAN, match : BOOLEAN, valid : BOOLEAN,
             confirmed : BOOLEAN, pending : BOOLEAN ]
NoContext == [ sw |-> FALSE, match |-> FALSE, valid |-> FALSE,
               confirmed |-> FALSE, pending |-> FALSE ]

Memory == [ ready : BOOLEAN, credit : Credits, mask : SUBSET HPs ]
NoMemory == [ ready |-> FALSE, credit |-> NoCredit, mask |-> {} ]

Uploader == {"web", "native"}   \* background upload; blocking update
Session == [ active : BOOLEAN, phase : {"IDLE", "UPLOADING", "COMPLETED", "CANCELLED"},
             owner : Uploader, age : 0 .. MaxTransfer,
             mask : SUBSET HPs, credit : Credits ]
NoSession == [ active |-> FALSE, phase |-> "IDLE", owner |-> "web", age |-> 0,
               mask |-> {}, credit |-> NoCredit ]

Transfer   == {"idle", "started", "writing", "written"}
NoTransfer == [ web |-> "idle", native |-> "idle", due |-> FALSE ]
-----------------------------------------------------------------------------
VARIABLES
  pc,        \* "reset", "consume", "setup", "run" or "restarting"
  attempts,  \* storage attempts left in initialize_restart_handoff
  reason,    \* esp_reset_reason(): "SW", "OTHER", or "READ" once no longer needed
  marker,    \* consume_incomplete, the word of RTC memory
  nvs,       \* the key oq_restart_v1
  flash,     \* OTA partitions
  ctx,       \* the BootContext of initialize_restart_handoff
  ram,       \* storage_ready; restored_credit_ms, restored_resume until setup() took them
  ota,       \* OpenQuattOtaHandoff
  xfer,      \* the transfers themselves, and the reboot timer of the web server
  inbox,     \* events the web server has deferred to the main loop
  on,        \* compressors that are on, or about to be
  rest,      \* how long each compressor has been off, counted to MinimumOff
  tag        \* history of the record in nvs, see Tag

vars == <<pc, attempts, reason, marker, nvs, flash, ctx, ram, ota, xfer, inbox,
          on, rest, tag>>

(* About the record now in nvs: whether it has been redeemed, the resets   *)
(* since it was written, whether a compressor was started since, and the   *)
(* heat pumps that ran when it was written.                                *)
Tag    == [spent : BOOLEAN, boots : 0 .. 2, late : BOOLEAN, ran : SUBSET HPs]
NewTag(ran) == [spent |-> FALSE, boots |-> 0, late |-> FALSE, ran |-> ran]
NoTag       == [spent |-> FALSE, boots |-> 2, late |-> FALSE, ran |-> {}]

TypeOK ==
  /\ pc \in {"reset", "consume", "setup", "run", "restarting"}
  /\ attempts \in 0 .. 3
  /\ reason \in {"SW", "OTHER", "READ"}
  /\ marker \in {"INCOMPLETE", "CLEAR"}
  /\ nvs \in Record \cup {NoRecord, Garbage}
  /\ flash \in Flash
  /\ ctx \in Context
  /\ ram \in Memory
  /\ ota \in Session
  /\ xfer \in [ web : Transfer, native : Transfer, due : BOOLEAN ]
  /\ inbox \in Seq({"STARTED", "FAILED", "COMPLETED"})
  /\ on \in SUBSET HPs
  /\ rest \in [HPs -> 0 .. MinimumOff]
  /\ tag \in Tag

(* First power-up: RTC memory and an old flash may hold anything.          *)
Init ==
  /\ pc = "reset" /\ attempts = 0 /\ reason = "OTHER"
  /\ marker \in {"INCOMPLETE", "CLEAR"}
  /\ nvs \in {NoRecord, Garbage}
  /\ \E i \in Images, m \in BOOLEAN :
       flash = [ running |-> "A", selected |-> "A",
                 img |-> [s \in Slots |-> IF s = "A" THEN i ELSE NoImage],
                 state |-> [s \in Slots |-> "UNDEFINED"], marks |-> m ]
  /\ ctx = NoContext /\ ram = NoMemory /\ ota = NoSession
  /\ xfer = NoTransfer /\ inbox = <<>>
  /\ on \in SUBSET HPs
  /\ rest = [h \in HPs |-> 0]
  /\ tag = NoTag
-----------------------------------------------------------------------------
(* A native or downloaded update runs inside the main loop and blocks it;  *)
(* a web upload is written by the web server's own task.                   *)
MainLoop == pc = "run" /\ xfer.native = "idle"

(* Resets.  The boot loader rolls back an image that was never confirmed,  *)
(* takes the other slot when the selected one does not hold a good image,  *)
(* and (the newer ones) turns NEW into PENDING_VERIFY.                     *)
Bootable(f, s) == f.img[s] # NoImage /\ f.state[s] # "ABORTED"
RolledBack(f) == [f EXCEPT !.state[f.selected] = "ABORTED",
                           !.selected = Other(f.selected), !.running = Other(f.selected)]
Started(f, s) == [f EXCEPT !.running = s,
                           !.state[s] = IF f.marks /\ f.state[s] = "NEW"
                                        THEN "PENDING" ELSE f.state[s]]

BootLoader(f, g) ==
  IF f.state[f.selected] = "PENDING" THEN g = RolledBack(f)
  ELSE \E s \in {f.selected, Other(f.selected)} : Bootable(f, s) /\ g = Started(f, s)

ResetFor(why) ==
  /\ pc' = "reset" /\ attempts' = 0 /\ reason' = why
  /\ BootLoader(flash, flash')
  /\ ctx' = NoContext /\ ram' = NoMemory /\ ota' = NoSession
  /\ xfer' = NoTransfer /\ inbox' = <<>>
  /\ tag' = IF nvs = NoRecord THEN tag ELSE [tag EXCEPT !.boots = Least(tag.boots + 1, 2)]
  /\ UNCHANGED <<nvs, on, rest>>

(* App.safe_reboot() after a planned restart or a finished update.         *)
SafeReboot ==
  /\ pc = "restarting"
  /\ ResetFor("SW")
  /\ UNCHANGED marker

(* Other software resets: recovery, safe mode, a failed manager's restart. *)
SoftwareReset ==
  /\ pc = "run"
  /\ ResetFor("SW")
  /\ UNCHANGED marker

(* The timeout the web server set when an upload was written.              *)
WebReboot ==
  /\ MainLoop /\ xfer.due
  /\ \A k \in DOMAIN inbox : inbox[k] # "COMPLETED"
  /\ ResetFor("SW")
  /\ UNCHANGED marker

Panic     == ResetFor("OTHER") /\ UNCHANGED marker
PowerLoss == ResetFor("OTHER") /\ marker' \in {"INCOMPLETE", "CLEAR"}
-----------------------------------------------------------------------------
(* initialize_restart_handoff().                                           *)

CaptureContext(available) ==
  LET s == flash.state[flash.running]
      valid == s \in {"VALID", "UNDEFINED"}
      pending == s \in {"PENDING", "NEW"}
  IN IF available /\ (valid \/ pending)
     THEN [ sw |-> reason = "SW", match |-> flash.running = flash.selected,
            valid |-> valid, confirmed |-> s = "VALID", pending |-> pending ]
     ELSE NoContext

\* mutant: the marker of an interrupted consume is not looked at
BeginConsume_MarkerIgnored ==
  /\ pc = "reset"
  /\ pc' = "consume" /\ attempts' = 3
  /\ marker' = "INCOMPLETE"
  /\ \E available \in BOOLEAN : ctx' = CaptureContext(available)
  /\ UNCHANGED <<reason, nvs, flash, ram, ota, xfer, inbox, on, rest, tag>>

BeginConsume ==
  /\ pc = "reset"
  /\ pc' = "consume" /\ attempts' = 3
  /\ marker' = "INCOMPLETE"
  /\ \E available \in BOOLEAN :
       ctx' = [CaptureContext(available) EXCEPT !.sw = @ /\ marker = "CLEAR"]
  /\ UNCHANGED <<reason, nvs, flash, ram, ota, xfer, inbox, on, rest, tag>>

MayRestoreCredit(r) ==
  /\ ValidRecord(r) /\ ctx.sw /\ ctx.match
  /\ ctx.valid \/ ctx.pending
  /\ r.config = Config[flash.img[flash.running]]
  /\ r.slot = flash.running
  /\ r.image = flash.img[flash.running]

MayRestoreRunning(r) ==
  /\ MayRestoreCredit(r) /\ r.mask # {}
  /\ \/ r.kind = "armed" /\ ctx.valid
     \/ ctx.confirmed
     \/ r.kind = "ota" /\ ctx.pending

(* What erase_and_verify_absent() can do: the record may or may not be     *)
(* gone, and only a read that finds nothing counts as success.             *)
EraseOutcome == {[ok |-> TRUE, nvs |-> NoRecord], [ok |-> FALSE, nvs |-> NoRecord],
                 [ok |-> FALSE, nvs |-> nvs]}

KeptTag == IF nvs' = NoRecord THEN NoTag ELSE tag

Consumed(granted) ==
  /\ pc' = "setup" /\ marker' = "CLEAR"
  /\ ram' = IF granted
            THEN [ ready |-> TRUE, credit |-> nvs.credit,
                   mask |-> IF MayRestoreRunning(nvs) THEN nvs.mask ELSE {} ]
            ELSE [NoMemory EXCEPT !.ready = TRUE]
  /\ attempts' = 0 /\ reason' = "READ" /\ ctx' = NoContext
  /\ tag' = IF nvs' = NoRecord THEN NoTag ELSE [tag EXCEPT !.spent = @ \/ granted]

FailedAttempt ==
  /\ attempts' = attempts - 1
  /\ tag' = KeptTag
  /\ UNCHANGED <<pc, reason, marker, ctx, ram>>

\* mutant: the credit is taken although the erase was not verified
TryConsume_EraseUnverified ==
  /\ pc = "consume" /\ attempts > 0
  /\ \E unreadable \in BOOLEAN, e \in EraseOutcome :
       /\ nvs # NoRecord
       /\ nvs' = e.nvs
       /\ Consumed(~unreadable /\ MayRestoreCredit(nvs))
  /\ UNCHANGED <<flash, ota, xfer, inbox, on, rest>>

(* One attempt: open, read, and for any record erase before granting.      *)
TryConsume ==
  /\ pc = "consume" /\ attempts > 0
  /\ \/ UNCHANGED nvs /\ FailedAttempt                       \* nvs_open failed
     \/ /\ nvs = NoRecord
        /\ UNCHANGED nvs
        /\ Consumed(FALSE)
     \/ \E unreadable \in BOOLEAN, e \in EraseOutcome :
          /\ nvs # NoRecord
          /\ nvs' = e.nvs
          /\ IF e.ok THEN Consumed(~unreadable /\ MayRestoreCredit(nvs))
                     ELSE FailedAttempt
  /\ UNCHANGED <<flash, ota, xfer, inbox, on, rest>>

\* mutant: control is released although the record could not be consumed
GiveUp_Released ==
  /\ pc = "consume" /\ attempts = 0
  /\ pc' = "setup" /\ reason' = "READ" /\ ctx' = NoContext
  /\ ram' = [NoMemory EXCEPT !.ready = TRUE]
  /\ UNCHANGED <<attempts, marker, nvs, flash, ota, xfer, inbox, on, rest, tag>>

(* Three attempts failed: the marker stays and control stays inhibited.    *)
GiveUp ==
  /\ pc = "consume" /\ attempts = 0
  /\ pc' = "setup" /\ reason' = "READ" /\ ctx' = NoContext
  /\ UNCHANGED <<attempts, marker, nvs, flash, ram, ota, xfer, inbox, on, rest, tag>>

(* setup() of the incident manager gives the credit to the restart guards  *)
(* and the running units to the boot-resume policies; nothing reads them   *)
(* after that.                                                             *)
ManagerSetup ==
  /\ pc = "setup"
  /\ pc' = "run"
  /\ ram' = [ram EXCEPT !.credit = NoCredit, !.mask = {}]
  /\ UNCHANGED <<attempts, reason, marker, nvs, flash, ctx, ota, xfer, inbox, on, rest, tag>>
-----------------------------------------------------------------------------
(* Writing a record.  "Even a failed write may have changed flash."        *)

WriteRecord(r, ran) ==
  IF ram.ready /\ ValidRecord(r)
  THEN \/ UNCHANGED <<nvs, tag>>
       \/ nvs' \in {r, Garbage} /\ tag' = NewTag(ran)
  ELSE UNCHANGED <<nvs, tag>>

NewRecord(kind, mask, credit, slot) ==
  [ kind |-> kind, mask |-> mask, credit |-> credit, slot |-> slot,
    image |-> flash.img[slot], config |-> Config[flash.img[flash.running]] ]

(* Credit the guard can vouch for: never more than the rest there has been *)
(* (RestartGuard, SnapshotIsEarned).                                       *)
SnapshotCredits == {c \in Credits : \A h \in HPs : c[h] <= IF h \in on THEN 0 ELSE rest[h]}

ImageConfirmed(f) == f.state[f.running] \in {"VALID", "UNDEFINED"}

(* perform_restart_() with arm_restart_handoff(): a pending image is       *)
(* confirmed first, and whatever comes of the write the device restarts.   *)
PerformRestart ==
  /\ MainLoop /\ ram.ready
  /\ pc' = "restarting"
  /\ flash' \in {flash} \cup
       (IF flash.running = flash.selected /\ flash.state[flash.running] = "PENDING"
        THEN {[flash EXCEPT !.state[flash.running] = "VALID"]} ELSE {})
  /\ IF flash.running = flash.selected /\ ImageConfirmed(flash')
     THEN \E mask \in SUBSET on, credit \in SnapshotCredits :
            WriteRecord(NewRecord("armed", mask, credit, flash.running), on)
     ELSE UNCHANGED <<nvs, tag>>
  /\ UNCHANGED <<attempts, reason, marker, ctx, ram, ota, xfer, inbox, on, rest>>

(* safe_mode marks the image valid after a boot that stayed up, and on the *)
(* way into a safe reboot.                                                 *)
ConfirmImage ==
  /\ pc \in {"run", "restarting"} /\ flash.state[flash.running] = "PENDING"
  /\ flash' = [flash EXCEPT !.state[flash.running] = "VALID"]
  /\ UNCHANGED <<pc, attempts, reason, marker, nvs, ctx, ram, ota, xfer, inbox,
                 on, rest, tag>>
-----------------------------------------------------------------------------
(* OpenQuattOtaHandoff: the record of a firmware update.                   *)

(* full_credit_if_confirmed_(): all or nothing, and only on a confirmed    *)
(* full rest (RestartGuard, RestedWhenAllowed); telemetry may be missing.  *)
FullCredits == {[h \in HPs |-> IF h \in ok THEN MinimumOff ELSE 0] :
                  ok \in SUBSET {h \in HPs \ on : rest[h] = MinimumOff}}

Cancelled(s) == [s EXCEPT !.phase = "CANCELLED", !.mask = {}, !.age = 0]

Withdrawn(s, live) ==
  IF s.phase \in {"UPLOADING", "COMPLETED"} /\ (s.age = MaxTransfer \/ ~(s.mask \subseteq live))
  THEN Cancelled(s) ELSE s

\* mutant: credit once captured is kept
Confirmed_CreditKept(s, c) == s

Confirmed(s, c) == [s EXCEPT !.credit = [h \in HPs |-> IF c[h] = 0 THEN 0 ELSE s.credit[h]]]

(* What loop() can make of the session: permission withdrawn when the      *)
(* transfer takes too long or a unit no longer runs confirmed, and credit  *)
(* dropped for a unit whose full rest is no longer confirmed.              *)
LoopOutcomes(s) ==
  {Confirmed(Withdrawn(s, live), c) : live \in SUBSET on, c \in FullCredits}

LoopHandoff ==
  /\ MainLoop /\ ota.active
  /\ ota' \in LoopOutcomes(ota)
  /\ UNCHANGED <<pc, attempts, reason, marker, nvs, flash, ctx, ram, xfer, inbox,
                 on, rest, tag>>

(* select_running_after_storage_failure(): a target that may have a stale  *)
(* record must not be booted into; that call can itself fail.              *)
SelectRunning ==
  /\ ram' = [ram EXCEPT !.ready = FALSE]
  /\ flash' \in {flash, [flash EXCEPT !.selected = flash.running]}

OnStarted(u) ==
  \E e \in EraseOutcome :
    /\ nvs' = e.nvs
    /\ tag' = KeptTag
    /\ IF e.ok
       THEN /\ IF ota.active
               THEN ota' = [Cancelled(ota) EXCEPT !.credit = NoCredit]
               ELSE \E mask \in SUBSET on, credit \in FullCredits :
                      ota' = [ active |-> TRUE, phase |-> "UPLOADING", owner |-> u,
                               age |-> 0, mask |-> mask, credit |-> credit ]
            /\ UNCHANGED <<ram, flash>>
       ELSE ota' = Cancelled(ota) /\ SelectRunning

OnFailed(u) ==
  IF ota.active /\ ota.phase # "IDLE" /\ ota.owner = u
  THEN \E e \in EraseOutcome :
         /\ nvs' = e.nvs
         /\ ota' = NoSession
         /\ IF e.ok THEN UNCHANGED <<ram, flash>> ELSE SelectRunning
         /\ tag' = KeptTag
  ELSE UNCHANGED <<nvs, tag, ota, ram, flash>>

ArmCompleted(s, mask, ran) ==
  IF flash.running # flash.selected /\ flash.img[flash.selected] # NoImage
  THEN WriteRecord(NewRecord("ota", mask, s.credit, flash.selected), ran)
  ELSE UNCHANGED <<nvs, tag>>

(* OTA_COMPLETED: the guards are checked once more for a background upload *)
(* and the record is written for the image in the selected slot.           *)
OnCompleted(u) ==
  IF ~ram.ready THEN SelectRunning /\ UNCHANGED <<nvs, tag, ota>>
  ELSE IF ~ota.active THEN UNCHANGED <<nvs, tag, ota, ram, flash>>
  ELSE \E s \in IF u = "web" THEN LoopOutcomes(ota) ELSE {ota} :
         LET kept == s.phase = "UPLOADING" /\ s.owner = u /\ s.age < MaxTransfer
             mask == IF kept THEN s.mask ELSE {}
         IN /\ ArmCompleted(s, mask, IF u = "web" THEN on ELSE HPs)
            /\ ota' = [IF kept THEN [s EXCEPT !.phase = "COMPLETED"] ELSE Cancelled(s)
                       EXCEPT !.credit = NoCredit]
            /\ UNCHANGED <<ram, flash>>

(* esp_ota_begin() erases the other slot (it refuses while the running     *)
(* image is pending); the end of the transfer selects that slot.           *)
Target == Other(flash.running)
MayUpload == flash.state[flash.running] # "PENDING"
Erased == [flash EXCEPT !.img[Target] = NoImage]
Written(i) == [flash EXCEPT !.img[Target] = i, !.state[Target] = "NEW", !.selected = Target]

WebStarted ==
  /\ pc = "run" /\ xfer.web \in {"idle", "written"} /\ Len(inbox) < QueueLimit
  /\ xfer' = [xfer EXCEPT !.web = "started"]
  /\ inbox' = Append(inbox, "STARTED")
  /\ UNCHANGED <<pc, attempts, reason, marker, nvs, flash, ctx, ram, ota, on, rest, tag>>

WebBegin ==
  /\ pc = "run" /\ xfer.web = "started" /\ MayUpload
  /\ xfer' = [xfer EXCEPT !.web = "writing"]
  /\ flash' = Erased
  /\ UNCHANGED <<pc, attempts, reason, marker, nvs, ctx, ram, ota, inbox, on, rest, tag>>

WebAbort ==
  /\ pc = "run" /\ xfer.web \in {"started", "writing"} /\ Len(inbox) < QueueLimit
  /\ xfer' = [xfer EXCEPT !.web = "idle"]
  /\ inbox' = Append(inbox, "FAILED")
  /\ UNCHANGED <<pc, attempts, reason, marker, nvs, flash, ctx, ram, ota, on, rest, tag>>

WebWritten ==
  /\ pc = "run" /\ xfer.web = "writing" /\ Len(inbox) < QueueLimit
  /\ xfer' = [xfer EXCEPT !.web = "written", !.due = TRUE]
  /\ \E i \in Images : flash' = Written(i)
  /\ inbox' = Append(inbox, "COMPLETED")
  /\ UNCHANGED <<pc, attempts, reason, marker, nvs, ctx, ram, ota, on, rest, tag>>

WebEvent ==
  /\ MainLoop /\ inbox # <<>>
  /\ CASE Head(inbox) = "STARTED"   -> OnStarted("web")
       [] Head(inbox) = "FAILED"    -> OnFailed("web")
       [] Head(inbox) = "COMPLETED" -> OnCompleted("web")
  /\ inbox' = Tail(inbox)
  /\ UNCHANGED <<pc, attempts, reason, marker, ctx, xfer, on, rest>>

NativeStarted ==
  /\ MainLoop
  /\ xfer' = [xfer EXCEPT !.native = "started"]
  /\ OnStarted("native")
  /\ UNCHANGED <<pc, attempts, reason, marker, ctx, inbox, on, rest>>

NativeBegin ==
  /\ xfer.native = "started" /\ MayUpload
  /\ xfer' = [xfer EXCEPT !.native = "writing"]
  /\ flash' = Erased
  /\ UNCHANGED <<pc, attempts, reason, marker, nvs, ctx, ram, ota, inbox, on, rest, tag>>

NativeFailed ==
  /\ xfer.native \in {"started", "writing"}
  /\ xfer' = [xfer EXCEPT !.native = "idle"]
  /\ OnFailed("native")
  /\ UNCHANGED <<pc, attempts, reason, marker, ctx, inbox, on, rest>>

NativeWritten ==
  /\ xfer.native = "writing"
  /\ xfer' = [xfer EXCEPT !.native = "written"]
  /\ \E i \in Images : flash' = Written(i)
  /\ UNCHANGED <<pc, attempts, reason, marker, nvs, ctx, ram, ota, inbox, on, rest, tag>>

(* The success callback, after which the device restarts at once.          *)
NativeCompleted ==
  /\ pc = "run" /\ xfer.native = "written"
  /\ pc' = "restarting"
  /\ OnCompleted("native")
  /\ UNCHANGED <<attempts, reason, marker, ctx, xfer, inbox, on, rest>>
-----------------------------------------------------------------------------
(* The heat pumps.  request_start() refuses while storage is not ready or  *)
(* a planned restart is under way; a compressor may stop at any time.      *)

StartCompressor(h) ==
  /\ MainLoop /\ ram.ready /\ h \notin on
  /\ on' = on \cup {h}
  /\ rest' = [rest EXCEPT ![h] = 0]
  /\ tag' = IF nvs = NoRecord THEN tag ELSE [tag EXCEPT !.late = TRUE]
  /\ UNCHANGED <<pc, attempts, reason, marker, nvs, flash, ctx, ram, ota, xfer, inbox>>

StopCompressor(h) ==
  /\ h \in on
  /\ on' = on \ {h}
  /\ UNCHANGED <<pc, attempts, reason, marker, nvs, flash, ctx, ram, ota, xfer, inbox,
                 rest, tag>>

Pass ==
  /\ rest' = [h \in HPs |-> IF h \in on THEN 0 ELSE Least(rest[h] + 1, MinimumOff)]
  /\ ota' = IF ota.phase \in {"UPLOADING", "COMPLETED"}
            THEN [ota EXCEPT !.age = Least(ota.age + 1, MaxTransfer)] ELSE ota
  /\ UNCHANGED <<pc, attempts, reason, marker, nvs, flash, ctx, ram, xfer, inbox, on, tag>>

Boot  == SafeReboot \/ SoftwareReset \/ WebReboot \/ Panic \/ PowerLoss
Setup == BeginConsume \/ TryConsume \/ GiveUp \/ ManagerSetup
Run   == PerformRestart \/ ConfirmImage \/ LoopHandoff
Web   == WebStarted \/ WebBegin \/ WebAbort \/ WebWritten \/ WebEvent
Native == NativeStarted \/ NativeBegin \/ NativeFailed \/ NativeWritten \/ NativeCompleted
Plant == (\E h \in HPs : StartCompressor(h) \/ StopCompressor(h)) \/ Pass

Next == Boot \/ Setup \/ Run \/ Web \/ Native \/ Plant

Spec == Init /\ [][Next]_vars
-----------------------------------------------------------------------------
(* A boot that hands something over to the new run.                        *)
Grants == pc = "consume" /\ pc' = "setup" /\ (ram'.credit # NoCredit \/ ram'.mask # {})

(* Action property: the off-time credit a boot restores is rest the        *)
(* compressor has really had, across every reset, storage failure and      *)
(* update.  The one exception the code leaves open is a compressor that is *)
(* started in the 100 ms between the end of a web upload and its reboot.   *)
HandsOverRealRest ==
  [][Grants /\ (nvs.kind = "ota" => ~tag.late)
       => \A h \in HPs : ram'.credit[h] <= rest[h]]_vars

(* Action property: no record is ever redeemed twice, although erasing it  *)
(* can fail and the device can reset between any two steps.                *)
NoReplay == [][Grants => ~tag.spent]_vars

(* Action property: a record is only redeemed by the very first boot after *)
(* it was written, after a software reset, in the slot and by the image it *)
(* was written for: no crash, rollback, failed consume or foreign image    *)
(* in between.                                                             *)
OnlyThePlannedBoot ==
  [][Grants => /\ reason = "SW" /\ tag.boots = 1
               /\ flash.running = nvs.slot
               /\ flash.img[flash.running] = nvs.image]_vars

(* Action property: a heat pump is only resumed if its compressor ran when *)
(* the record was written, and it then gets no off-time credit.  (A        *)
(* blocking update reads the permission once, at its start, and bounds     *)
(* the transfer instead.)                                                  *)
ResumesWhatRan ==
  [][Grants => \A h \in ram'.mask : h \in tag.ran /\ ram'.credit[h] = 0]_vars

(* Safety: while control is released, flash never holds a record of an     *)
(* earlier boot, so that no later reset can redeem a stale one.            *)
ReleasedOnlyAfterConsume == ram.ready /\ nvs # NoRecord => tag.boots = 0
=============================================================================
