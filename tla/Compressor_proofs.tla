-------------------------- MODULE Compressor_proofs --------------------------
(***************************************************************************)
(* Proofs about what gives a compressor its rest, across restarts and in   *)
(* an hour: RestartHandoff, for every set of heat pumps and images, every  *)
(* minimum-off time and transfer limit; the guard that takes what the      *)
(* handoff hands over, RestartGuard, for every clock width and every       *)
(* interval that satisfies GuardAssumption; and CompressorStartLimit, for  *)
(* every length of the ring, every window and every counter that wraps     *)
(* late enough.                                                            *)
(***************************************************************************)
EXTENDS RestartHandoff, RestartGuard, CompressorStartLimit, SequenceTheorems, FiniteSetTheorems,
        WellFoundedInduction, TLAPS

-----------------------------------------------------------------------------
(* Types.                                                                  *)

LEMMA ConstantTypes ==
  /\ NoCredit \in Credits /\ NoContext \in Context /\ NoMemory \in Memory
  /\ NoSession \in Session /\ NoTag \in Tag
  /\ NoTransfer \in [web : Transfer, native : Transfer, due : BOOLEAN]
  /\ FullCredits \subseteq Credits /\ SnapshotCredits \subseteq Credits
<1>1. NoCredit \in Credits
  BY HandoffAssumption DEF NoCredit, Credits
<1>2. NoContext \in Context
  BY DEF NoContext, Context
<1>3. NoMemory \in Memory
  BY <1>1 DEF NoMemory, Memory
<1>4. NoSession \in Session
  BY <1>1, HandoffAssumption DEF NoSession, Session, Uploader
<1>5. NoTag \in Tag
  BY DEF NoTag, NewTag, Tag
<1>6. NoTransfer \in [web : Transfer, native : Transfer, due : BOOLEAN]
  BY DEF NoTransfer, Transfer
<1>7. FullCredits \subseteq Credits
  BY HandoffAssumption DEF FullCredits, Credits
<1>8. SnapshotCredits \subseteq Credits
  BY DEF SnapshotCredits
<1> QED BY <1>1, <1>2, <1>3, <1>4, <1>5, <1>6, <1>7, <1>8

LEMMA NewTagType == ASSUME NEW ran \in SUBSET HPs PROVE NewTag(ran) \in Tag
BY DEF NewTag, Tag

LEMMA CancelledSession ==
  ASSUME NEW s \in Session
  PROVE  /\ Cancelled(s) \in Session
         /\ Cancelled(s).phase = "CANCELLED" /\ Cancelled(s).mask = {}
         /\ Cancelled(s).credit = s.credit
<1>1. {} \in SUBSET HPs /\ 0 \in 0 .. MaxTransfer
  BY HandoffAssumption
<1>2. Cancelled(s) \in Session
  BY <1>1 DEF Cancelled, Session
<1>3. Cancelled(s).phase = "CANCELLED" /\ Cancelled(s).mask = {}
  BY DEF Cancelled, Session
<1>4. Cancelled(s).credit = s.credit
  BY DEF Cancelled, Session
<1> QED BY <1>2, <1>3, <1>4

(* What loop() leaves of a session: a running unit's permission only while *)
(* it runs, and credit only for a unit that is off and fully rested.       *)
LEMMA LoopSession ==
  ASSUME NEW s \in Session, NEW o \in LoopOutcomes(s)
  PROVE  /\ o \in Session
         /\ o.phase = "UPLOADING" => o.mask \subseteq on
         /\ \A h \in HPs : o.credit[h] # 0 => h \notin on /\ rest[h] = MinimumOff
<1>1. PICK live \in SUBSET on, c \in FullCredits : o = Confirmed(Withdrawn(s, live), c)
  BY DEF LoopOutcomes
<1>2. /\ c \in Credits
      /\ \A h \in HPs : c[h] # 0 => h \notin on /\ rest[h] = MinimumOff
  BY ConstantTypes DEF FullCredits
<1> DEFINE w == Withdrawn(s, live)
           k == [h \in HPs |-> IF c[h] = 0 THEN 0 ELSE w.credit[h]]
<1>3. /\ w \in Session
      /\ w.phase = "UPLOADING" => w.mask \subseteq live
  BY CancelledSession DEF Withdrawn
<1>4. k \in Credits
  BY <1>2, <1>3, HandoffAssumption DEF Credits, Session
<1>5. o = [w EXCEPT !.credit = k]
  BY <1>1 DEF Confirmed
<1> HIDE DEF w
<1>6. o \in Session /\ o.phase = w.phase /\ o.mask = w.mask /\ o.credit = k
  BY <1>3, <1>4, <1>5 DEF Session
<1> QED BY <1>2, <1>3, <1>6

LEMMA NewRecordType ==
  ASSUME flash \in Flash, NEW kind \in {"armed", "ota"}, NEW mask \in SUBSET HPs,
         NEW credit \in Credits, NEW slot \in Slots
  PROVE  NewRecord(kind, mask, credit, slot) \in Record
<1>1. flash.img[slot] \in Image /\ flash.img[flash.running] \in Image
  BY DEF Flash
<1>2. Config[flash.img[flash.running]] \in {Config[i] : i \in Image}
  BY <1>1
<1> QED BY <1>1, <1>2 DEF NewRecord, Record

LEMMA WriteRecordType ==
  ASSUME TypeOK, NEW r \in Record, NEW ran \in SUBSET HPs, WriteRecord(r, ran)
  PROVE  nvs' \in Record \cup {NoRecord, Garbage} /\ tag' \in Tag
BY NewTagType DEF WriteRecord, TypeOK

LEMMA EraseType ==
  ASSUME TypeOK, NEW e \in EraseOutcome, nvs' = e.nvs
  PROVE  /\ nvs' \in Record \cup {NoRecord, Garbage}
         /\ KeptTag \in Tag
         /\ e.ok => nvs' = NoRecord
         /\ nvs' = NoRecord \/ nvs' = nvs
BY ConstantTypes DEF EraseOutcome, KeptTag, TypeOK

LEMMA BootLoaderType ==
  ASSUME flash \in Flash, BootLoader(flash, flash')
  PROVE  flash' \in Flash
<1>1. ASSUME NEW s \in Slots PROVE Other(s) \in Slots
  BY DEF Other, Slots
<1>2. flash.selected \in Slots /\ flash.state \in [Slots -> ImageState]
  BY DEF Flash
<1>3. CASE flash.state[flash.selected] = "PENDING"
  <2>1. flash' = RolledBack(flash)
    BY <1>3 DEF BootLoader
  <2>2. [flash.state EXCEPT ![flash.selected] = "ABORTED"] \in [Slots -> ImageState]
    BY <1>2 DEF ImageState
  <2> QED BY <2>1, <2>2, <1>1, <1>2 DEF RolledBack, Flash
<1>4. CASE flash.state[flash.selected] # "PENDING"
  <2>1. PICK s \in Slots : flash' = Started(flash, s)
    BY <1>4, <1>1, <1>2 DEF BootLoader
  <2> DEFINE st == IF flash.marks /\ flash.state[s] = "NEW" THEN "PENDING" ELSE flash.state[s]
  <2>2. st \in ImageState
    BY <1>2 DEF ImageState
  <2>3. [flash.state EXCEPT ![s] = st] \in [Slots -> ImageState]
    BY <2>2, <1>2
  <2> QED BY <2>1, <2>3, <1>1, <1>2 DEF Started, Flash
<1> QED BY <1>3, <1>4

LEMMA ResetType == ASSUME TypeOK, NEW why \in {"SW", "OTHER"}, ResetFor(why),
                          marker' \in {"INCOMPLETE", "CLEAR"}
                   PROVE  TypeOK'
<1> USE DEF ResetFor, TypeOK
<1>1. flash' \in Flash
  BY BootLoaderType
<1>2. tag' \in Tag
  BY DEF Tag, Least
<1>3. inbox' \in Seq({"STARTED", "FAILED", "COMPLETED"})
  BY EmptySeq
<1>4. /\ ctx' \in Context /\ ram' \in Memory /\ ota' \in Session
      /\ xfer' \in [web : Transfer, native : Transfer, due : BOOLEAN]
  BY ConstantTypes
<1>5. /\ pc' \in {"reset", "consume", "setup", "run", "restarting"}
      /\ attempts' \in 0 .. 3 /\ reason' \in {"SW", "OTHER", "READ"}
  OBVIOUS
<1> QED BY <1>1, <1>2, <1>3, <1>4, <1>5

LEMMA ConsumedType ==
  ASSUME TypeOK, NEW granted \in BOOLEAN, Consumed(granted),
         nvs' \in Record \cup {NoRecord, Garbage}, granted => nvs \in Record
  PROVE  /\ ram' \in Memory /\ tag' \in Tag /\ ctx' \in Context
         /\ pc' = "setup" /\ attempts' = 0 /\ reason' = "READ" /\ marker' = "CLEAR"
<1>1. ram' \in Memory
  <2>1. CASE granted
    <3>1. nvs.credit \in Credits /\ nvs.mask \in SUBSET HPs
      BY <2>1 DEF Record
    <3> QED BY <2>1, <3>1 DEF Consumed, Memory
  <2>2. CASE ~granted
    BY <2>2, ConstantTypes DEF Consumed, Memory
  <2> QED BY <2>1, <2>2
<1>2. tag' \in Tag
  <2>1. CASE nvs' = NoRecord
    BY <2>1, ConstantTypes DEF Consumed
  <2>2. CASE nvs' # NoRecord
    <3>1. tag' = [tag EXCEPT !.spent = tag.spent \/ granted]
      BY <2>2 DEF Consumed
    <3>2. (tag.spent \/ granted) \in BOOLEAN
      OBVIOUS
    <3> QED BY <3>1, <3>2 DEF TypeOK, Tag
  <2> QED BY <2>1, <2>2
<1> QED BY <1>1, <1>2, ConstantTypes DEF Consumed

(* A record that may be restored is a real record.                         *)
LEMMA RestorableIsRecord ==
  ASSUME TypeOK, MayRestoreCredit(nvs)
  PROVE  nvs \in Record
BY DEF MayRestoreCredit, ValidRecord, IsRecord, TypeOK

LEMMA CaptureType ==
  ASSUME NEW a \in BOOLEAN
  PROVE  CaptureContext(a) \in Context
BY ConstantTypes DEF CaptureContext, Context

LEMMA SetupTypes == ASSUME TypeOK, Setup PROVE TypeOK'
<1>1. CASE BeginConsume
  <2>1. ctx' \in Context
    <3>1. PICK a \in BOOLEAN :
            ctx' = [CaptureContext(a) EXCEPT !.sw = CaptureContext(a).sw /\ marker = "CLEAR"]
      BY <1>1, CaptureType DEF BeginConsume, Context
    <3>2. (CaptureContext(a).sw /\ marker = "CLEAR") \in BOOLEAN
      OBVIOUS
    <3> QED BY <3>1, <3>2, CaptureType DEF Context
  <2> QED BY <1>1, <2>1 DEF BeginConsume, TypeOK
<1>2. CASE TryConsume
  <2> USE <1>2 DEF TryConsume
  <2>1. CASE UNCHANGED nvs /\ FailedAttempt
    <3>1. KeptTag \in Tag
      BY ConstantTypes DEF KeptTag, TypeOK
    <3> QED BY <2>1, <3>1 DEF FailedAttempt, TypeOK
  <2>2. CASE nvs = NoRecord /\ UNCHANGED nvs /\ Consumed(FALSE)
    <3>1. nvs' \in Record \cup {NoRecord, Garbage}
      BY <2>2 DEF TypeOK
    <3>2. ram' \in Memory
      BY <2>2, ConstantTypes DEF Consumed, Memory
    <3>3. tag' \in Tag /\ ctx' \in Context
      BY <2>2, ConstantTypes DEF Consumed
    <3> QED BY <2>2, <3>1, <3>2, <3>3 DEF Consumed, TypeOK
  <2>3. CASE \E unreadable \in BOOLEAN, e \in EraseOutcome :
               /\ nvs # NoRecord
               /\ nvs' = e.nvs
               /\ IF e.ok THEN Consumed(~unreadable /\ MayRestoreCredit(nvs))
                          ELSE FailedAttempt
    <3>1. PICK unreadable \in BOOLEAN, e \in EraseOutcome :
               /\ nvs' = e.nvs
               /\ IF e.ok THEN Consumed(~unreadable /\ MayRestoreCredit(nvs))
                          ELSE FailedAttempt
      BY <2>3
    <3>2. nvs' \in Record \cup {NoRecord, Garbage} /\ KeptTag \in Tag
      BY <3>1, EraseType
    <3>3. CASE e.ok
      <4>1. Consumed(~unreadable /\ MayRestoreCredit(nvs))
        BY <3>1, <3>3
      <4>2. (~unreadable /\ MayRestoreCredit(nvs)) => nvs \in Record
        BY RestorableIsRecord
      <4>3. (~unreadable /\ MayRestoreCredit(nvs)) \in BOOLEAN
        OBVIOUS
      <4>4. /\ ram' \in Memory /\ tag' \in Tag /\ ctx' \in Context
            /\ pc' = "setup" /\ attempts' = 0 /\ reason' = "READ" /\ marker' = "CLEAR"
        BY <4>1, <4>2, <4>3, <3>2, ConsumedType
      <4> QED BY <4>4, <3>2 DEF TypeOK
    <3>4. CASE ~e.ok
      BY <3>1, <3>2, <3>4 DEF FailedAttempt, TypeOK
    <3> QED BY <3>3, <3>4
  <2> QED BY <2>1, <2>2, <2>3
<1>3. CASE GiveUp
  BY <1>3, ConstantTypes DEF GiveUp, TypeOK
<1>4. CASE ManagerSetup
  <2>1. ram' \in Memory
    BY <1>4, ConstantTypes DEF ManagerSetup, TypeOK, Memory
  <2> QED BY <1>4, <2>1 DEF ManagerSetup, TypeOK
<1> QED BY <1>1, <1>2, <1>3, <1>4 DEF Setup

LEMMA BootTypes == ASSUME TypeOK, Boot PROVE TypeOK'
BY ResetType DEF Boot, SafeReboot, SoftwareReset, WebReboot, Panic, PowerLoss, TypeOK

LEMMA SelectRunningType ==
  ASSUME TypeOK, SelectRunning
  PROVE  flash' \in Flash /\ ram' \in Memory
BY DEF SelectRunning, TypeOK, Flash, Memory

LEMMA OnStartedType ==
  ASSUME TypeOK, NEW u \in Uploader, OnStarted(u)
  PROVE  /\ nvs' \in Record \cup {NoRecord, Garbage} /\ tag' \in Tag
         /\ ota' \in Session /\ flash' \in Flash /\ ram' \in Memory
<1>1. PICK e \in EraseOutcome :
    /\ nvs' = e.nvs
    /\ tag' = KeptTag
    /\ IF e.ok
       THEN /\ IF ota.active
               THEN ota' = [Cancelled(ota) EXCEPT !.credit = NoCredit]
               ELSE \E mask \in SUBSET on, credit \in FullCredits :
                      ota' = [ active |-> TRUE, phase |-> "UPLOADING", owner |-> u,
                               age |-> 0, mask |-> mask, credit |-> credit ]
            /\ UNCHANGED <<ram, flash>>
       ELSE ota' = Cancelled(ota) /\ SelectRunning
  BY DEF OnStarted
<1>2. nvs' \in Record \cup {NoRecord, Garbage} /\ tag' \in Tag
  BY <1>1, EraseType
<1>3. ota' \in Session
  <2>1. ota \in Session /\ Cancelled(ota) \in Session
    BY CancelledSession DEF TypeOK
  <2>2. CASE e.ok /\ ota.active
    BY <1>1, <2>1, <2>2, ConstantTypes DEF Session
  <2>3. CASE e.ok /\ ~ota.active
    <3>1. PICK mask \in SUBSET on, credit \in FullCredits :
            ota' = [ active |-> TRUE, phase |-> "UPLOADING", owner |-> u,
                     age |-> 0, mask |-> mask, credit |-> credit ]
      BY <1>1, <2>3
    <3>2. mask \in SUBSET HPs /\ credit \in Credits /\ 0 \in 0 .. MaxTransfer
      BY ConstantTypes, HandoffAssumption DEF TypeOK
    <3> QED BY <3>1, <3>2 DEF Session
  <2>4. CASE ~e.ok
    BY <1>1, <2>1, <2>4
  <2> QED BY <2>2, <2>3, <2>4
<1>4. flash' \in Flash /\ ram' \in Memory
  BY <1>1, SelectRunningType DEF TypeOK
<1> QED BY <1>2, <1>3, <1>4

LEMMA OnFailedType ==
  ASSUME TypeOK, NEW u \in Uploader, OnFailed(u)
  PROVE  /\ nvs' \in Record \cup {NoRecord, Garbage} /\ tag' \in Tag
         /\ ota' \in Session /\ flash' \in Flash /\ ram' \in Memory
<1>1. CASE ota.active /\ ota.phase # "IDLE" /\ ota.owner = u
  <2>1. PICK e \in EraseOutcome :
         /\ nvs' = e.nvs
         /\ ota' = NoSession
         /\ IF e.ok THEN UNCHANGED <<ram, flash>> ELSE SelectRunning
         /\ tag' = KeptTag
    BY <1>1 DEF OnFailed
  <2> QED BY <2>1, EraseType, SelectRunningType, ConstantTypes DEF TypeOK
<1>2. CASE ~(ota.active /\ ota.phase # "IDLE" /\ ota.owner = u)
  BY <1>2 DEF OnFailed, TypeOK
<1> QED BY <1>1, <1>2

LEMMA ArmCompletedType ==
  ASSUME TypeOK, NEW s \in Session, NEW mask \in SUBSET HPs, NEW ran \in SUBSET HPs,
         ArmCompleted(s, mask, ran)
  PROVE  nvs' \in Record \cup {NoRecord, Garbage} /\ tag' \in Tag
<1>1. s.credit \in Credits /\ flash.selected \in Slots
  BY DEF Session, TypeOK, Flash
<1>2. NewRecord("ota", mask, s.credit, flash.selected) \in Record
  BY <1>1, NewRecordType DEF TypeOK
<1>3. CASE flash.running # flash.selected /\ flash.img[flash.selected] # NoImage
  BY <1>2, <1>3, WriteRecordType DEF ArmCompleted
<1>4. CASE ~(flash.running # flash.selected /\ flash.img[flash.selected] # NoImage)
  BY <1>4 DEF ArmCompleted, TypeOK
<1> QED BY <1>3, <1>4

(* What OnCompleted does in its last case, with its locals named.          *)
LEMMA OnCompletedArms ==
  ASSUME TypeOK, NEW u \in Uploader, OnCompleted(u), ram.ready, ota.active
  PROVE  \E s \in Session, mask \in SUBSET HPs :
           /\ s \in IF u = "web" THEN LoopOutcomes(ota) ELSE {ota}
           /\ mask = {} \/ (s.phase = "UPLOADING" /\ mask = s.mask)
           /\ ArmCompleted(s, mask, IF u = "web" THEN on ELSE HPs)
           /\ ota' \in Session /\ ota'.credit = NoCredit
           /\ UNCHANGED <<ram, flash>>
<1> DEFINE kept(s) == s.phase = "UPLOADING" /\ s.owner = u /\ s.age < MaxTransfer
           mask(s) == IF kept(s) THEN s.mask ELSE {}
           last(s) == IF kept(s) THEN [s EXCEPT !.phase = "COMPLETED"] ELSE Cancelled(s)
<1>1. PICK s \in IF u = "web" THEN LoopOutcomes(ota) ELSE {ota} :
         /\ ArmCompleted(s, mask(s), IF u = "web" THEN on ELSE HPs)
         /\ ota' = [last(s) EXCEPT !.credit = NoCredit]
         /\ UNCHANGED <<ram, flash>>
  BY DEF OnCompleted
<1>2. s \in Session
  BY LoopSession DEF TypeOK
<1>3. mask(s) \in SUBSET HPs /\ (mask(s) = {} \/ (s.phase = "UPLOADING" /\ mask(s) = s.mask))
  <2>1. s.mask \in SUBSET HPs
    BY <1>2 DEF Session
  <2>2. CASE kept(s)
    BY <2>1, <2>2
  <2>3. CASE ~kept(s)
    BY <2>3
  <2> QED BY <2>2, <2>3
<1>4. last(s) \in Session
  BY <1>2, CancelledSession DEF Session
<1>5. ota' \in Session /\ ota'.credit = NoCredit
  <2> HIDE DEF last
  <2> QED BY <1>1, <1>4, ConstantTypes DEF Session
<1> HIDE DEF mask
<1> QED BY <1>1, <1>2, <1>3, <1>5

LEMMA OnCompletedType ==
  ASSUME TypeOK, NEW u \in Uploader, OnCompleted(u)
  PROVE  /\ nvs' \in Record \cup {NoRecord, Garbage} /\ tag' \in Tag
         /\ ota' \in Session /\ flash' \in Flash /\ ram' \in Memory
<1>1. CASE ~ram.ready
  BY <1>1, SelectRunningType DEF OnCompleted, TypeOK
<1>2. CASE ram.ready /\ ~ota.active
  BY <1>2 DEF OnCompleted, TypeOK
<1>3. CASE ram.ready /\ ota.active
  <2>1. PICK s \in Session, mask \in SUBSET HPs :
           /\ ArmCompleted(s, mask, IF u = "web" THEN on ELSE HPs)
           /\ ota' \in Session
           /\ UNCHANGED <<ram, flash>>
    BY <1>3, OnCompletedArms
  <2>2. (IF u = "web" THEN on ELSE HPs) \in SUBSET HPs
    BY DEF TypeOK
  <2> QED BY <2>1, <2>2, ArmCompletedType DEF TypeOK
<1> QED BY <1>1, <1>2, <1>3

LEMMA ConfirmedType ==
  ASSUME flash \in Flash
  PROVE  [flash EXCEPT !.state[flash.running] = "VALID"] \in Flash
<1>1. [flash.state EXCEPT ![flash.running] = "VALID"] \in [Slots -> ImageState]
  BY DEF Flash, ImageState
<1> QED BY <1>1 DEF Flash

LEMMA LoopTypes == ASSUME TypeOK, Run PROVE TypeOK'
<1>1. CASE PerformRestart
  <2>1. flash' \in Flash
    BY <1>1, ConfirmedType DEF PerformRestart, TypeOK
  <2>2. nvs' \in Record \cup {NoRecord, Garbage} /\ tag' \in Tag
    <3>1. CASE UNCHANGED <<nvs, tag>>
      BY <3>1 DEF TypeOK
    <3>2. CASE \E mask \in SUBSET on, credit \in SnapshotCredits :
                 WriteRecord(NewRecord("armed", mask, credit, flash.running), on)
      <4>1. PICK mask \in SUBSET on, credit \in SnapshotCredits :
              WriteRecord(NewRecord("armed", mask, credit, flash.running), on)
        BY <3>2
      <4>2. mask \in SUBSET HPs /\ credit \in Credits /\ flash.running \in Slots
        BY ConstantTypes DEF TypeOK, Flash
      <4>3. NewRecord("armed", mask, credit, flash.running) \in Record
        BY <4>2, NewRecordType DEF TypeOK
      <4>4. on \in SUBSET HPs
        BY DEF TypeOK
      <4> QED BY <4>1, <4>3, <4>4, WriteRecordType
    <3> QED BY <1>1, <3>1, <3>2 DEF PerformRestart
  <2> QED BY <1>1, <2>1, <2>2 DEF PerformRestart, TypeOK
<1>2. CASE ConfirmImage
  <2>1. flash' \in Flash
    BY <1>2, ConfirmedType DEF ConfirmImage, TypeOK
  <2> QED BY <1>2, <2>1 DEF ConfirmImage, TypeOK
<1>3. CASE LoopHandoff
  <2>1. ota' \in Session
    BY <1>3, LoopSession DEF LoopHandoff, TypeOK
  <2> QED BY <1>3, <2>1 DEF LoopHandoff, TypeOK
<1> QED BY <1>1, <1>2, <1>3 DEF Run

LEMMA FlashWritten ==
  ASSUME flash \in Flash, NEW i \in Images
  PROVE  Written(i) \in Flash
<1>1. Target \in Slots
  BY DEF Target, Other, Slots
<1>2. flash.img \in [Slots -> Image] /\ flash.state \in [Slots -> ImageState]
  BY DEF Flash
<1>3. /\ [flash.img EXCEPT ![Target] = i] \in [Slots -> Image]
      /\ [flash.state EXCEPT ![Target] = "NEW"] \in [Slots -> ImageState]
  BY <1>1, <1>2 DEF Image, ImageState
<1> QED BY <1>1, <1>3 DEF Written, Flash

LEMMA ErasedType == ASSUME flash \in Flash PROVE Erased \in Flash
<1>1. Target \in Slots
  BY DEF Target, Other, Slots
<1>2. [flash.img EXCEPT ![Target] = NoImage] \in [Slots -> Image]
  BY <1>1 DEF Image, Flash
<1> QED BY <1>2 DEF Erased, Flash

LEMMA WebTypes == ASSUME TypeOK, Web PROVE TypeOK'
<1> DEFINE Ev == {"STARTED", "FAILED", "COMPLETED"}
<1>0. inbox \in Seq(Ev) /\ "web" \in Uploader
  BY DEF TypeOK, Uploader
<1>1. CASE WebStarted
  <2>1. inbox' \in Seq(Ev)
    BY <1>0, <1>1, AppendProperties DEF WebStarted
  <2>2. xfer' \in [web : Transfer, native : Transfer, due : BOOLEAN]
    BY <1>1 DEF WebStarted, TypeOK, Transfer
  <2> QED BY <1>1, <2>1, <2>2 DEF WebStarted, TypeOK
<1>5. CASE WebBegin
  <2>1. xfer' \in [web : Transfer, native : Transfer, due : BOOLEAN]
    BY <1>5 DEF WebBegin, TypeOK, Transfer
  <2> QED BY <1>5, <2>1, ErasedType DEF WebBegin, TypeOK
<1>2. CASE WebAbort
  <2>1. inbox' \in Seq(Ev)
    BY <1>0, <1>2, AppendProperties DEF WebAbort
  <2>2. xfer' \in [web : Transfer, native : Transfer, due : BOOLEAN]
    BY <1>2 DEF WebAbort, TypeOK, Transfer
  <2> QED BY <1>2, <2>1, <2>2 DEF WebAbort, TypeOK
<1>3. CASE WebWritten
  <2>1. inbox' \in Seq(Ev)
    BY <1>0, <1>3, AppendProperties DEF WebWritten
  <2>2. xfer' \in [web : Transfer, native : Transfer, due : BOOLEAN]
    BY <1>3 DEF WebWritten, TypeOK, Transfer
  <2>3. flash' \in Flash
    BY <1>3, FlashWritten DEF WebWritten, TypeOK
  <2> QED BY <1>3, <2>1, <2>2, <2>3 DEF WebWritten, TypeOK
<1>4. CASE WebEvent
  <2>1. inbox' \in Seq(Ev) /\ Head(inbox) \in Ev
    BY <1>0, <1>4, HeadTailProperties DEF WebEvent
  <2>2. OnStarted("web") \/ OnFailed("web") \/ OnCompleted("web")
    BY <1>4, <2>1 DEF WebEvent
  <2>3. /\ nvs' \in Record \cup {NoRecord, Garbage} /\ tag' \in Tag
        /\ ota' \in Session /\ flash' \in Flash /\ ram' \in Memory
    BY <1>0, <2>2, OnStartedType, OnFailedType, OnCompletedType
  <2> QED BY <1>4, <2>1, <2>3 DEF WebEvent, TypeOK
<1> QED BY <1>1, <1>2, <1>3, <1>4, <1>5 DEF Web

LEMMA NativeTypes == ASSUME TypeOK, Native PROVE TypeOK'
<1>0. "native" \in Uploader
  BY DEF Uploader
<1>1. CASE NativeStarted
  <2>1. xfer' \in [web : Transfer, native : Transfer, due : BOOLEAN]
    BY <1>1 DEF NativeStarted, TypeOK, Transfer
  <2>2. /\ nvs' \in Record \cup {NoRecord, Garbage} /\ tag' \in Tag
        /\ ota' \in Session /\ flash' \in Flash /\ ram' \in Memory
    BY <1>0, <1>1, OnStartedType DEF NativeStarted
  <2> QED BY <1>1, <2>1, <2>2 DEF NativeStarted, TypeOK
<1>2. CASE NativeBegin
  <2>1. xfer' \in [web : Transfer, native : Transfer, due : BOOLEAN]
    BY <1>2 DEF NativeBegin, TypeOK, Transfer
  <2> QED BY <1>2, <2>1, ErasedType DEF NativeBegin, TypeOK
<1>3. CASE NativeFailed
  <2>1. xfer' \in [web : Transfer, native : Transfer, due : BOOLEAN]
    BY <1>3 DEF NativeFailed, TypeOK, Transfer
  <2>2. /\ nvs' \in Record \cup {NoRecord, Garbage} /\ tag' \in Tag
        /\ ota' \in Session /\ flash' \in Flash /\ ram' \in Memory
    BY <1>0, <1>3, OnFailedType DEF NativeFailed
  <2> QED BY <1>3, <2>1, <2>2 DEF NativeFailed, TypeOK
<1>4. CASE NativeWritten
  <2>1. xfer' \in [web : Transfer, native : Transfer, due : BOOLEAN]
    BY <1>4 DEF NativeWritten, TypeOK, Transfer
  <2>2. flash' \in Flash
    BY <1>4, FlashWritten DEF NativeWritten, TypeOK
  <2> QED BY <1>4, <2>1, <2>2 DEF NativeWritten, TypeOK
<1>5. CASE NativeCompleted
  <2>1. /\ nvs' \in Record \cup {NoRecord, Garbage} /\ tag' \in Tag
        /\ ota' \in Session /\ flash' \in Flash /\ ram' \in Memory
    BY <1>0, <1>5, OnCompletedType DEF NativeCompleted
  <2> QED BY <1>5, <2>1 DEF NativeCompleted, TypeOK
<1> QED BY <1>1, <1>2, <1>3, <1>4, <1>5 DEF Native

LEMMA PlantTypes == ASSUME TypeOK, Plant PROVE TypeOK'
<1>1. ASSUME NEW h \in HPs, StartCompressor(h) PROVE TypeOK'
  <2>1. tag' \in Tag
    BY <1>1 DEF StartCompressor, TypeOK, Tag
  <2>2. rest' \in [HPs -> 0 .. MinimumOff] /\ on' \in SUBSET HPs
    BY <1>1, HandoffAssumption DEF StartCompressor, TypeOK
  <2> QED BY <1>1, <2>1, <2>2 DEF StartCompressor, TypeOK
<1>2. ASSUME NEW h \in HPs, StopCompressor(h) PROVE TypeOK'
  BY <1>2 DEF StopCompressor, TypeOK
<1>3. CASE Pass
  <2>1. rest' \in [HPs -> 0 .. MinimumOff]
    BY <1>3, HandoffAssumption DEF Pass, TypeOK, Least
  <2>2. Least(ota.age + 1, MaxTransfer) \in 0 .. MaxTransfer
    BY HandoffAssumption DEF TypeOK, Session, Least
  <2>3. ota' \in Session
    BY <1>3, <2>2 DEF Pass, TypeOK, Session
  <2> QED BY <1>3, <2>1, <2>3 DEF Pass, TypeOK
<1> QED BY <1>1, <1>2, <1>3 DEF Plant

LEMMA InitTypes == Init => TypeOK
<1> SUFFICES ASSUME Init PROVE TypeOK
  OBVIOUS
<1>1. flash \in Flash
  <2>1. PICK i \in Images, m \in BOOLEAN :
       flash = [ running |-> "A", selected |-> "A",
                 img |-> [s \in Slots |-> IF s = "A" THEN i ELSE NoImage],
                 state |-> [s \in Slots |-> "UNDEFINED"], marks |-> m ]
    BY DEF Init
  <2>2. /\ [s \in Slots |-> IF s = "A" THEN i ELSE NoImage] \in [Slots -> Image]
        /\ [s \in Slots |-> "UNDEFINED"] \in [Slots -> ImageState]
        /\ "A" \in Slots
    BY DEF Image, ImageState, Slots
  <2> QED BY <2>1, <2>2 DEF Flash
<1>2. inbox \in Seq({"STARTED", "FAILED", "COMPLETED"})
  BY EmptySeq DEF Init
<1>3. rest \in [HPs -> 0 .. MinimumOff]
  BY HandoffAssumption DEF Init
<1>4. ctx \in Context /\ ram \in Memory /\ ota \in Session /\ tag \in Tag
  BY ConstantTypes DEF Init
<1>5. xfer \in [web : Transfer, native : Transfer, due : BOOLEAN]
  BY ConstantTypes DEF Init
<1> QED BY <1>1, <1>2, <1>3, <1>4, <1>5 DEF Init, TypeOK

LEMMA NextTypes == TypeOK /\ [Next]_vars => TypeOK'
<1>1. CASE UNCHANGED vars
  BY <1>1 DEF vars, TypeOK
<1>2. CASE Next
  BY <1>2, BootTypes, SetupTypes, LoopTypes, WebTypes, NativeTypes, PlantTypes DEF Next
<1> QED BY <1>1, <1>2

(* Every reachable state has its type: no storage failure, reset or late   *)
(* event of an upload leads outside the states the code was written for.   *)
THEOREM HandoffTypeCorrect == Spec => []TypeOK
BY InitTypes, NextTypes, PTL DEF Spec
-----------------------------------------------------------------------------
(* The inductive invariant.                                                *)

(* The device booted once, on purpose, since the record was written: that  *)
(* is what a software reset with a clear marker means, because a boot      *)
(* clears the marker only after it has seen the record go.                 *)
BootedOnce ==
  /\ pc \in {"reset", "consume"} => ram = NoMemory
  /\ pc = "consume" => marker = "INCOMPLETE"
  /\ pc # "consume" => ctx.sw = FALSE
  /\ ctx.sw => reason = "SW" /\ (nvs # NoRecord => tag.boots = 1)
  /\ ram.ready => pc \in {"setup", "run", "restarting"} /\ marker = "CLEAR"
  /\ pc = "reset" /\ reason = "SW" /\ marker = "CLEAR" /\ nvs # NoRecord => tag.boots = 1
  /\ pc \in {"setup", "run", "restarting"} /\ marker = "CLEAR" /\ nvs # NoRecord
       => tag.boots = 0
  /\ xfer.native # "idle" => pc \in {"run", "restarting"}

Unspent == tag.spent = FALSE

(* A bound on credit that a compressor cannot break without being started. *)
Earned(credit) == \A h \in HPs : credit[h] <= rest[h] /\ (h \in on => credit[h] = 0)

(* What the record in flash says is still true, unless a compressor was    *)
(* started since, which only an update leaves time for.                    *)
RecordTrue ==
  IsRecord(nvs) =>
    /\ nvs.mask \subseteq tag.ran
    /\ nvs.kind = "armed" /\ tag.boots = 0 => pc = "restarting"
    /\ nvs.kind = "armed" => tag.late = FALSE
    /\ tag.late = FALSE => Earned(nvs.credit)

(* A blocking update keeps the main loop from starting anything, so what   *)
(* it captured at its start still holds at its end.                        *)
CaptureTrue == xfer.native # "idle" /\ ram.ready => Earned(ota.credit)

IInv == TypeOK /\ BootedOnce /\ Unspent /\ RecordTrue /\ CaptureTrue

LEMMA InitInv == Init => BootedOnce /\ Unspent /\ RecordTrue /\ CaptureTrue
BY DEF Init, BootedOnce, Unspent, RecordTrue, CaptureTrue, IsRecord, NoTransfer, NoContext,
       NoMemory, NoTag, NewTag

LEMMA BootInv == ASSUME IInv, Boot PROVE BootedOnce' /\ Unspent' /\ RecordTrue' /\ CaptureTrue'
<1>1. PICK why \in {"SW", "OTHER"} :
        /\ ResetFor(why)
        /\ why = "SW" => pc \in {"run", "restarting"} /\ marker' = marker
  BY DEF Boot, SafeReboot, SoftwareReset, WebReboot, Panic, PowerLoss, MainLoop
<1>2. /\ pc' = "reset" /\ reason' = why /\ ctx'.sw = FALSE /\ ram' = NoMemory
      /\ ram'.ready = FALSE /\ xfer'.native = "idle"
      /\ nvs' = nvs /\ on' = on /\ rest' = rest
  BY <1>1 DEF ResetFor, NoContext, NoMemory, NoTransfer
<1>3. /\ nvs = NoRecord => tag' = tag
      /\ nvs # NoRecord => /\ tag'.boots = Least(tag.boots + 1, 2) /\ tag'.spent = tag.spent
                           /\ tag'.late = tag.late /\ tag'.ran = tag.ran
  BY <1>1 DEF ResetFor, IInv, TypeOK, Tag
<1>4. tag.boots \in 0 .. 2
  BY DEF IInv, TypeOK, Tag
<1>5. BootedOnce'
  BY <1>1, <1>2, <1>3, <1>4 DEF IInv, BootedOnce, Least
<1>6. Unspent'
  BY <1>3 DEF IInv, Unspent
<1>7. RecordTrue'
  BY <1>2, <1>3, <1>4 DEF IInv, RecordTrue, IsRecord, Earned, Least
<1>8. CaptureTrue'
  BY <1>2 DEF CaptureTrue
<1> QED BY <1>5, <1>6, <1>7, <1>8

(* A step that keeps the record, or loses it.                              *)
LEMMA RecordKept ==
  ASSUME RecordTrue, UNCHANGED <<pc, on, rest>>,
         \/ nvs' = NoRecord \/ UNCHANGED <<nvs, tag>>
  PROVE  RecordTrue'
BY DEF RecordTrue, IsRecord, Earned

(* What TryConsume grants, it grants by an erased record.                  *)
LEMMA Attempts ==
  ASSUME TryConsume
  PROVE  \/ /\ FailedAttempt
            /\ nvs' = nvs \/ nvs' = NoRecord
         \/ /\ nvs' = NoRecord /\ tag' = NoTag /\ pc' = "setup" /\ marker' = "CLEAR"
            /\ ctx' = NoContext
            /\ \/ ram' = [NoMemory EXCEPT !.ready = TRUE]
               \/ /\ MayRestoreCredit(nvs)
                  /\ ram' = [ ready |-> TRUE, credit |-> nvs.credit,
                              mask |-> IF MayRestoreRunning(nvs) THEN nvs.mask ELSE {} ]
BY DEF TryConsume, EraseOutcome, Consumed

LEMMA SetupInv ==
  ASSUME IInv, Setup PROVE BootedOnce' /\ Unspent' /\ RecordTrue' /\ CaptureTrue'
<1> USE DEF IInv
<1>0. xfer' = xfer /\ on' = on /\ rest' = rest /\ xfer.native = "idle"
  BY DEF Setup, BeginConsume, TryConsume, GiveUp, ManagerSetup, BootedOnce
<1>1. CASE BeginConsume
  <2>1. PICK a \in BOOLEAN :
          ctx' = [CaptureContext(a) EXCEPT !.sw = CaptureContext(a).sw /\ marker = "CLEAR"]
    BY <1>1, CaptureType DEF BeginConsume, Context
  <2>2. ctx'.sw => CaptureContext(a).sw /\ marker = "CLEAR"
    BY <2>1, CaptureType DEF Context
  <2>3. CaptureContext(a).sw => reason = "SW"
    BY DEF CaptureContext, NoContext
  <2>4. BootedOnce'
    BY <1>0, <1>1, <2>2, <2>3 DEF BeginConsume, BootedOnce
  <2> QED BY <1>0, <1>1, <2>4 DEF BeginConsume, Unspent, RecordTrue, CaptureTrue, Earned, IsRecord
<1>2. CASE TryConsume
  <2>1. pc = "consume"
    BY <1>2 DEF TryConsume
  <2>2. CASE /\ FailedAttempt
             /\ nvs' = nvs \/ nvs' = NoRecord
    <3>1. tag' = IF nvs' = NoRecord THEN NoTag ELSE tag
      BY <2>2 DEF FailedAttempt, KeptTag
    <3>2. UNCHANGED <<pc, reason, marker, ctx, ram>>
      BY <2>2 DEF FailedAttempt
    <3> QED BY <1>0, <2>1, <2>2, <3>1, <3>2
            DEF BootedOnce, Unspent, RecordTrue, CaptureTrue, Earned, IsRecord, NoTag
  <2>3. CASE nvs' = NoRecord /\ tag' = NoTag /\ pc' = "setup" /\ marker' = "CLEAR"
             /\ ctx' = NoContext
    BY <1>0, <2>3 DEF BootedOnce, Unspent, RecordTrue, CaptureTrue, IsRecord, NoTag, NoContext
  <2> QED BY <1>2, <2>2, <2>3, Attempts
<1>3. CASE GiveUp
  BY <1>0, <1>3 DEF GiveUp, BootedOnce, Unspent, RecordTrue, CaptureTrue, Earned, IsRecord,
                    NoContext, NoMemory
<1>4. CASE ManagerSetup
  <2>1. ram'.ready = ram.ready
    BY <1>4 DEF ManagerSetup, TypeOK, Memory
  <2> QED BY <1>0, <1>4, <2>1
          DEF ManagerSetup, BootedOnce, Unspent, RecordTrue, CaptureTrue, Earned, IsRecord
<1> QED BY <1>1, <1>2, <1>3, <1>4 DEF Setup

LEMMA EarnedNothing == ASSUME TypeOK PROVE Earned(NoCredit)
BY HandoffAssumption DEF Earned, NoCredit, TypeOK

(* What a handler of a running device may do to the record: leave it, lose *)
(* it, or write one whose contents are true.                               *)
RecordStep ==
  \/ UNCHANGED <<nvs, tag>>
  \/ nvs' = NoRecord /\ tag' = NoTag
  \/ \E ran \in SUBSET HPs :
       /\ tag' = NewTag(ran)
       /\ \/ nvs' = Garbage
          \/ /\ nvs' \in Record
             /\ nvs'.mask \subseteq ran /\ Earned(nvs'.credit)
             /\ nvs'.kind = "armed" => pc' = "restarting"

LEMMA Handled ==
  ASSUME IInv, pc \in {"run", "restarting"}, pc' \in {pc, "restarting"},
         UNCHANGED <<marker, ctx, reason, on, rest>>, ram'.ready => ram.ready, RecordStep
  PROVE  BootedOnce' /\ Unspent' /\ RecordTrue'
<1> USE DEF IInv
<1>1. CASE UNCHANGED <<nvs, tag>>
  BY <1>1 DEF BootedOnce, Unspent, RecordTrue, IsRecord, Earned
<1>2. CASE nvs' = NoRecord /\ tag' = NoTag
  BY <1>2 DEF BootedOnce, Unspent, RecordTrue, IsRecord, NoTag
<1>3. CASE \E ran \in SUBSET HPs :
             /\ tag' = NewTag(ran)
             /\ \/ nvs' = Garbage
                \/ /\ nvs' \in Record
                   /\ nvs'.mask \subseteq ran /\ Earned(nvs'.credit)
                   /\ nvs'.kind = "armed" => pc' = "restarting"
  <2>1. PICK ran \in SUBSET HPs :
             /\ tag' = NewTag(ran)
             /\ \/ nvs' = Garbage
                \/ /\ nvs' \in Record
                   /\ nvs'.mask \subseteq ran /\ Earned(nvs'.credit)
                   /\ nvs'.kind = "armed" => pc' = "restarting"
    BY <1>3
  <2>2. tag'.boots = 0 /\ tag'.spent = FALSE /\ tag'.late = FALSE /\ tag'.ran = ran
    BY <2>1 DEF NewTag
  <2> QED BY <2>1, <2>2 DEF BootedOnce, Unspent, RecordTrue, IsRecord, Earned
<1> QED BY <1>1, <1>2, <1>3 DEF RecordStep

LEMMA NewRecordFields ==
  ASSUME NEW kind, NEW mask, NEW credit, NEW slot
  PROVE  /\ NewRecord(kind, mask, credit, slot).kind = kind
         /\ NewRecord(kind, mask, credit, slot).mask = mask
         /\ NewRecord(kind, mask, credit, slot).credit = credit
BY DEF NewRecord

LEMMA LoopInv ==
  ASSUME IInv, Run PROVE BootedOnce' /\ Unspent' /\ RecordTrue' /\ CaptureTrue'
<1> USE DEF IInv
<1>1. CASE PerformRestart
  <2>1. RecordStep
    <3>1. CASE UNCHANGED <<nvs, tag>>
      BY <3>1 DEF RecordStep
    <3>2. CASE \E mask \in SUBSET on, credit \in SnapshotCredits :
                 WriteRecord(NewRecord("armed", mask, credit, flash.running), on)
      <4>1. PICK mask \in SUBSET on, credit \in SnapshotCredits :
              WriteRecord(NewRecord("armed", mask, credit, flash.running), on)
        BY <3>2
      <4>2. mask \in SUBSET HPs /\ flash.running \in Slots /\ on \in SUBSET HPs
        BY DEF TypeOK, Flash
      <4>3. credit \in Credits
        BY ConstantTypes
      <4>4. Earned(credit)
        <5> SUFFICES ASSUME NEW h \in HPs PROVE credit[h] <= rest[h] /\ (h \in on => credit[h] = 0)
          BY DEF Earned
        <5>1. credit[h] <= IF h \in on THEN 0 ELSE rest[h]
          BY DEF SnapshotCredits
        <5>2. credit[h] \in 0 .. MinimumOff /\ rest[h] \in 0 .. MinimumOff
          BY <4>3 DEF Credits, TypeOK
        <5> QED BY <5>1, <5>2, HandoffAssumption
      <4>5. NewRecord("armed", mask, credit, flash.running) \in Record
        BY <4>2, <4>3, NewRecordType DEF TypeOK
      <4>6. pc' = "restarting"
        BY <1>1 DEF PerformRestart
      <4> QED BY <4>1, <4>2, <4>4, <4>5, <4>6, NewRecordFields DEF WriteRecord, RecordStep
    <3> QED BY <1>1, <3>1, <3>2 DEF PerformRestart
  <2>2. CaptureTrue'
    BY <1>1 DEF PerformRestart, MainLoop, CaptureTrue
  <2> QED BY <1>1, <2>1, <2>2, Handled DEF PerformRestart, MainLoop
<1>2. CASE ConfirmImage
  <2>1. RecordStep /\ CaptureTrue'
    BY <1>2 DEF ConfirmImage, CaptureTrue, RecordStep, Earned
  <2> QED BY <1>2, <2>1, Handled DEF ConfirmImage
<1>3. CASE LoopHandoff
  <2>1. RecordStep /\ CaptureTrue'
    BY <1>3 DEF LoopHandoff, MainLoop, CaptureTrue, RecordStep
  <2> QED BY <1>3, <2>1, Handled DEF LoopHandoff, MainLoop
<1> QED BY <1>1, <1>2, <1>3 DEF Run

LEMMA StartedEffect ==
  ASSUME TypeOK, NEW u \in Uploader, OnStarted(u)
  PROVE  RecordStep /\ (ram'.ready => ram.ready /\ Earned(ota'.credit))
<1>1. PICK e \in EraseOutcome :
    /\ nvs' = e.nvs
    /\ tag' = KeptTag
    /\ IF e.ok
       THEN /\ IF ota.active
               THEN ota' = [Cancelled(ota) EXCEPT !.credit = NoCredit]
               ELSE \E mask \in SUBSET on, credit \in FullCredits :
                      ota' = [ active |-> TRUE, phase |-> "UPLOADING", owner |-> u,
                               age |-> 0, mask |-> mask, credit |-> credit ]
            /\ UNCHANGED <<ram, flash>>
       ELSE ota' = Cancelled(ota) /\ SelectRunning
  BY DEF OnStarted
<1>2. RecordStep
  BY <1>1 DEF EraseOutcome, KeptTag, RecordStep
<1>3. CASE ~e.ok
  <2>1. ram'.ready = FALSE
    BY <1>1, <1>3 DEF SelectRunning, TypeOK, Memory
  <2> QED BY <1>2, <2>1
<1>4. CASE e.ok /\ ota.active
  <2>1. Cancelled(ota) \in Session
    BY CancelledSession DEF TypeOK
  <2>2. ota'.credit = NoCredit
    BY <1>1, <1>4, <2>1 DEF Session
  <2> QED BY <1>1, <1>2, <1>4, <2>2, EarnedNothing
<1>5. CASE e.ok /\ ~ota.active
  <2>1. PICK mask \in SUBSET on, credit \in FullCredits :
          ota' = [ active |-> TRUE, phase |-> "UPLOADING", owner |-> u,
                   age |-> 0, mask |-> mask, credit |-> credit ]
    BY <1>1, <1>5
  <2>2. Earned(credit)
    BY HandoffAssumption DEF FullCredits, Earned, TypeOK
  <2> QED BY <1>1, <1>2, <1>5, <2>1, <2>2
<1> QED BY <1>3, <1>4, <1>5

LEMMA FailedEffect ==
  ASSUME TypeOK, NEW u \in Uploader, OnFailed(u)
  PROVE  RecordStep /\ (ram'.ready => ram.ready)
<1>1. CASE ota.active /\ ota.phase # "IDLE" /\ ota.owner = u
  <2>1. PICK e \in EraseOutcome :
         /\ nvs' = e.nvs
         /\ ota' = NoSession
         /\ IF e.ok THEN UNCHANGED <<ram, flash>> ELSE SelectRunning
         /\ tag' = KeptTag
    BY <1>1 DEF OnFailed
  <2>2. RecordStep
    BY <2>1 DEF EraseOutcome, KeptTag, RecordStep
  <2> QED BY <2>1, <2>2 DEF SelectRunning, TypeOK, Memory
<1>2. CASE ~(ota.active /\ ota.phase # "IDLE" /\ ota.owner = u)
  BY <1>2 DEF OnFailed, RecordStep
<1> QED BY <1>1, <1>2

LEMMA CompletedEffect ==
  ASSUME TypeOK, NEW u \in Uploader, OnCompleted(u),
         u = "native" /\ ram.ready => Earned(ota.credit)
  PROVE  RecordStep /\ (ram'.ready => ram.ready) /\ (u = "native" /\ ram'.ready => Earned(ota'.credit))
<1>1. CASE ~ram.ready
  <2>1. ram'.ready = FALSE /\ UNCHANGED <<nvs, tag>>
    BY <1>1 DEF OnCompleted, SelectRunning, TypeOK, Memory
  <2> QED BY <2>1 DEF RecordStep
<1>2. CASE ram.ready /\ ~ota.active
  <2>1. UNCHANGED <<nvs, tag, ota, ram>>
    BY <1>2 DEF OnCompleted
  <2> QED BY <2>1 DEF RecordStep
<1>3. CASE ram.ready /\ ota.active
  <2>1. PICK s \in Session, mask \in SUBSET HPs :
           /\ s \in IF u = "web" THEN LoopOutcomes(ota) ELSE {ota}
           /\ mask = {} \/ (s.phase = "UPLOADING" /\ mask = s.mask)
           /\ ArmCompleted(s, mask, IF u = "web" THEN on ELSE HPs)
           /\ ota' \in Session /\ ota'.credit = NoCredit
           /\ UNCHANGED <<ram, flash>>
    BY <1>3, OnCompletedArms
  <2> DEFINE ran == IF u = "web" THEN on ELSE HPs
             new == NewRecord("ota", mask, s.credit, flash.selected)
  <2>2. ran \in SUBSET HPs
    BY DEF TypeOK
  <2>3. mask \subseteq ran /\ Earned(s.credit)
    <3>1. CASE u = "web"
      <4>1. s \in LoopOutcomes(ota) /\ ota \in Session
        BY <2>1, <3>1 DEF TypeOK
      <4>2. /\ s.phase = "UPLOADING" => s.mask \subseteq on
            /\ \A h \in HPs : s.credit[h] # 0 => h \notin on /\ rest[h] = MinimumOff
        BY <4>1, LoopSession
      <4>3. s.credit \in Credits
        BY DEF Session
      <4> QED BY <2>1, <3>1, <4>2, <4>3, HandoffAssumption DEF Earned, Credits, TypeOK
    <3>2. CASE u = "native"
      BY <1>3, <2>1, <3>2
    <3> QED BY <3>1, <3>2 DEF Uploader
  <2>4. new \in Record
    <3>1. flash.selected \in Slots /\ s.credit \in Credits
      BY DEF TypeOK, Flash, Session
    <3> QED BY <3>1, NewRecordType DEF TypeOK
  <2>5. /\ new.mask \subseteq ran /\ Earned(new.credit) /\ new.kind = "ota"
    BY <2>3, NewRecordFields
  <2>6. \/ UNCHANGED <<nvs, tag>>
        \/ nvs' \in {new, Garbage} /\ tag' = NewTag(ran)
    BY <2>1 DEF ArmCompleted, WriteRecord
  <2> HIDE DEF new, ran
  <2>7. RecordStep
    BY <2>2, <2>4, <2>5, <2>6 DEF RecordStep
  <2> QED BY <2>1, <2>7, EarnedNothing
<1> QED BY <1>1, <1>2, <1>3

LEMMA WebInv ==
  ASSUME IInv, Web PROVE BootedOnce' /\ Unspent' /\ RecordTrue' /\ CaptureTrue'
<1> USE DEF IInv
<1>1. CASE WebStarted \/ WebBegin \/ WebAbort \/ WebWritten
  <2>1. RecordStep /\ xfer'.native = xfer.native
    BY <1>1 DEF WebStarted, WebBegin, WebAbort, WebWritten, RecordStep, TypeOK
  <2>2. CaptureTrue'
    BY <1>1, <2>1 DEF WebStarted, WebBegin, WebAbort, WebWritten, CaptureTrue, Earned
  <2> QED BY <1>1, <2>1, <2>2, Handled DEF WebStarted, WebBegin, WebAbort, WebWritten
<1>2. CASE WebEvent
  <2>1. Head(inbox) \in {"STARTED", "FAILED", "COMPLETED"}
    BY <1>2, HeadTailProperties DEF WebEvent, TypeOK
  <2>2. OnStarted("web") \/ OnFailed("web") \/ OnCompleted("web")
    BY <1>2, <2>1 DEF WebEvent
  <2>3. RecordStep /\ (ram'.ready => ram.ready)
    BY <2>2, StartedEffect, FailedEffect, CompletedEffect DEF Uploader
  <2>4. CaptureTrue'
    BY <1>2 DEF WebEvent, MainLoop, CaptureTrue
  <2> QED BY <1>2, <2>3, <2>4, Handled DEF WebEvent, MainLoop
<1> QED BY <1>1, <1>2 DEF Web

LEMMA NativeInv ==
  ASSUME IInv, Native PROVE BootedOnce' /\ Unspent' /\ RecordTrue' /\ CaptureTrue'
<1> USE DEF IInv
<1>0. "native" \in Uploader /\ (xfer.native # "idle" => pc \in {"run", "restarting"})
  BY DEF Uploader, BootedOnce
<1>1. CASE NativeStarted
  <2>1. RecordStep /\ (ram'.ready => ram.ready /\ Earned(ota'.credit))
    BY <1>0, <1>1, StartedEffect DEF NativeStarted
  <2>2. CaptureTrue'
    BY <1>1, <2>1 DEF NativeStarted, CaptureTrue, Earned
  <2> QED BY <1>1, <2>1, <2>2, Handled DEF NativeStarted, MainLoop
<1>2. CASE NativeBegin \/ NativeWritten
  <2>1. RecordStep /\ CaptureTrue'
    BY <1>2 DEF NativeBegin, NativeWritten, RecordStep, CaptureTrue, Earned
  <2> QED BY <1>0, <1>2, <2>1, Handled DEF NativeBegin, NativeWritten
<1>3. CASE NativeFailed
  <2>1. RecordStep /\ (ram'.ready => ram.ready)
    BY <1>0, <1>3, FailedEffect DEF NativeFailed
  <2>2. CaptureTrue'
    BY <1>3 DEF NativeFailed, CaptureTrue, TypeOK
  <2> QED BY <1>0, <1>3, <2>1, <2>2, Handled DEF NativeFailed
<1>4. CASE NativeCompleted
  <2>1. ram.ready => Earned(ota.credit)
    BY <1>4 DEF NativeCompleted, CaptureTrue
  <2>2. RecordStep /\ (ram'.ready => ram.ready) /\ (ram'.ready => Earned(ota'.credit))
    BY <1>0, <1>4, <2>1, CompletedEffect DEF NativeCompleted
  <2>3. CaptureTrue'
    BY <1>4, <2>2 DEF NativeCompleted, CaptureTrue, Earned
  <2> QED BY <1>4, <2>2, <2>3, Handled DEF NativeCompleted
<1> QED BY <1>1, <1>2, <1>3, <1>4 DEF Native

LEMMA PlantInv ==
  ASSUME IInv, Plant PROVE BootedOnce' /\ Unspent' /\ RecordTrue' /\ CaptureTrue'
<1> USE DEF IInv
<1>1. ASSUME NEW h \in HPs, StartCompressor(h)
      PROVE  BootedOnce' /\ Unspent' /\ RecordTrue' /\ CaptureTrue'
  <2>1. pc = "run" /\ xfer.native = "idle" /\ (nvs # NoRecord => tag.boots = 0)
    BY <1>1 DEF StartCompressor, MainLoop, BootedOnce
  <2>2. /\ nvs = NoRecord => tag' = tag
        /\ nvs # NoRecord => /\ tag'.late = TRUE /\ tag'.boots = tag.boots
                             /\ tag'.ran = tag.ran /\ tag'.spent = tag.spent
    BY <1>1 DEF StartCompressor, TypeOK, Tag
  <2>3. UNCHANGED <<pc, reason, marker, nvs, ctx, ram, xfer>>
    BY <1>1 DEF StartCompressor
  <2> QED BY <2>1, <2>2, <2>3 DEF BootedOnce, Unspent, RecordTrue, CaptureTrue, IsRecord
<1>2. ASSUME NEW h \in HPs, StopCompressor(h)
      PROVE  BootedOnce' /\ Unspent' /\ RecordTrue' /\ CaptureTrue'
  BY <1>2 DEF StopCompressor, BootedOnce, Unspent, RecordTrue, CaptureTrue, Earned, IsRecord
<1>3. CASE Pass
  <2>1. UNCHANGED <<pc, reason, marker, nvs, ctx, ram, xfer, on, tag>>
    BY <1>3 DEF Pass
  <2>2. ASSUME NEW credit \in Credits, Earned(credit) PROVE Earned(credit)'
    <3> SUFFICES ASSUME NEW h \in HPs
                 PROVE  credit[h] <= rest'[h] /\ (h \in on => credit[h] = 0)
      BY <2>1 DEF Earned
    <3>1. credit[h] \in 0 .. MinimumOff /\ rest[h] \in 0 .. MinimumOff
      BY DEF Credits, TypeOK
    <3>2. rest'[h] = IF h \in on THEN 0 ELSE Least(rest[h] + 1, MinimumOff)
      BY <1>3 DEF Pass
    <3>3. credit[h] <= rest[h] /\ (h \in on => credit[h] = 0)
      BY <2>2 DEF Earned
    <3> QED BY <3>1, <3>2, <3>3, HandoffAssumption DEF Least
  <2>3. ota'.credit = ota.credit /\ ota.credit \in Credits
    BY <1>3 DEF Pass, TypeOK, Session
  <2>4. CaptureTrue'
    BY <2>1, <2>2, <2>3 DEF CaptureTrue, Earned
  <2>5. RecordTrue'
    <3>1. IsRecord(nvs) => nvs.credit \in Credits
      BY DEF IsRecord, TypeOK, Record
    <3> QED BY <2>1, <2>2, <3>1 DEF RecordTrue, Earned
  <2> QED BY <2>1, <2>4, <2>5 DEF BootedOnce, Unspent
<1> QED BY <1>1, <1>2, <1>3 DEF Plant

LEMMA Invariance == Spec => []IInv
<1>1. Init => IInv
  BY InitTypes, InitInv DEF IInv
<1>2. IInv /\ [Next]_vars => IInv'
  <2> SUFFICES ASSUME IInv, [Next]_vars PROVE IInv'
    OBVIOUS
  <2>1. TypeOK'
    BY NextTypes DEF IInv
  <2>2. CASE UNCHANGED vars
    BY <2>1, <2>2 DEF vars, IInv, BootedOnce, Unspent, RecordTrue, CaptureTrue, Earned
  <2>3. CASE Next
    BY <2>1, <2>3, BootInv, SetupInv, LoopInv, WebInv, NativeInv, PlantInv DEF Next, IInv
  <2> QED BY <2>2, <2>3
<1> QED BY <1>1, <1>2, PTL DEF Spec

-----------------------------------------------------------------------------
(* What follows from it.                                                   *)

(* Safety: control is released only after the record of an earlier boot    *)
(* was seen to be gone, so no later reset can redeem a stale one.          *)
THEOREM ReleaseImpliesConsumed == Spec => []ReleasedOnlyAfterConsume
<1>1. IInv => ReleasedOnlyAfterConsume
  BY DEF IInv, BootedOnce, ReleasedOnlyAfterConsume
<1> QED BY <1>1, Invariance, PTL

(* A boot that hands something over has found a record it may restore.     *)
LEMMA GrantRedeems ==
  ASSUME IInv, [Next]_vars, Grants
  PROVE  /\ MayRestoreCredit(nvs)
         /\ ram'.credit = nvs.credit /\ ram'.mask \subseteq nvs.mask
<1>1. ram = NoMemory
  BY DEF IInv, BootedOnce, Grants
<1>2. Setup
  BY DEF Grants, Next, vars, Boot, Run, Web, Native, Plant, SafeReboot, SoftwareReset,
         WebReboot, Panic, PowerLoss, ResetFor, PerformRestart, ConfirmImage, LoopHandoff,
         WebStarted, WebBegin, WebAbort, WebWritten, WebEvent, NativeStarted, NativeBegin, NativeFailed,
         NativeWritten, NativeCompleted, StartCompressor, StopCompressor, Pass
<1>3. TryConsume
  BY <1>1, <1>2 DEF Setup, Grants, BeginConsume, GiveUp, ManagerSetup, NoMemory
<1>4. ~FailedAttempt
  BY DEF Grants, FailedAttempt
<1>5. ram' # [NoMemory EXCEPT !.ready = TRUE]
  BY DEF Grants, NoMemory
<1>6. /\ MayRestoreCredit(nvs)
      /\ ram' = [ ready |-> TRUE, credit |-> nvs.credit,
                  mask |-> IF MayRestoreRunning(nvs) THEN nvs.mask ELSE {} ]
  BY <1>3, <1>4, <1>5, Attempts
<1>7. (IF MayRestoreRunning(nvs) THEN nvs.mask ELSE {}) \subseteq nvs.mask
  OBVIOUS
<1> QED BY <1>6, <1>7

(* Action property: no record is ever redeemed twice.                      *)
THEOREM RecordsAreOneShot == Spec => NoReplay
<1>1. IInv /\ [Next]_vars => [Grants => ~tag.spent]_vars
  BY DEF IInv, Unspent
<1> QED BY <1>1, Invariance, PTL DEF Spec, NoReplay

(* Action property: a record is only redeemed by the first boot after it   *)
(* was written, after a software reset, in the slot and by the image it    *)
(* was written for.                                                        *)
THEOREM RedeemedByPlannedBoot == Spec => OnlyThePlannedBoot
<1>1. ASSUME IInv, [Next]_vars, Grants
      PROVE  /\ reason = "SW" /\ tag.boots = 1
             /\ flash.running = nvs.slot
             /\ flash.img[flash.running] = nvs.image
  BY <1>1, GrantRedeems DEF MayRestoreCredit, ValidRecord, IsRecord, IInv, BootedOnce
<1>2. IInv /\ [Next]_vars =>
        [Grants => /\ reason = "SW" /\ tag.boots = 1
                   /\ flash.running = nvs.slot
                   /\ flash.img[flash.running] = nvs.image]_vars
  BY <1>1
<1> QED BY <1>2, Invariance, PTL DEF Spec, OnlyThePlannedBoot

(* Action property: the off-time credit a boot restores is rest the        *)
(* compressor has really had.                                              *)
THEOREM CreditIsReal == Spec => HandsOverRealRest
<1>1. ASSUME IInv, [Next]_vars, Grants, nvs.kind = "ota" => ~tag.late, NEW h \in HPs
      PROVE  ram'.credit[h] <= rest[h]
  <2>1. MayRestoreCredit(nvs) /\ ram'.credit = nvs.credit
    BY <1>1, GrantRedeems
  <2>2. nvs \in Record /\ IsRecord(nvs)
    BY <1>1, <2>1, RestorableIsRecord DEF IInv, MayRestoreCredit, ValidRecord
  <2>3. nvs.kind \in {"armed", "ota"} /\ tag.late \in BOOLEAN
    BY <1>1, <2>2 DEF Record, IInv, TypeOK, Tag
  <2> QED BY <1>1, <2>1, <2>2, <2>3 DEF IInv, RecordTrue, Earned
<1>2. IInv /\ [Next]_vars =>
        [Grants /\ (nvs.kind = "ota" => ~tag.late)
           => \A h \in HPs : ram'.credit[h] <= rest[h]]_vars
  BY <1>1
<1> QED BY <1>2, Invariance, PTL DEF Spec, HandsOverRealRest

(* Action property: a heat pump is only resumed if its compressor ran when *)
(* the record was written, and it then gets no off-time credit.            *)
THEOREM ResumeIsReal == Spec => ResumesWhatRan
<1>1. ASSUME IInv, [Next]_vars, Grants, NEW h \in ram'.mask
      PROVE  h \in tag.ran /\ ram'.credit[h] = 0
  <2>1. MayRestoreCredit(nvs) /\ ram'.credit = nvs.credit /\ h \in nvs.mask
    BY <1>1, GrantRedeems
  <2> QED BY <1>1, <2>1 DEF MayRestoreCredit, ValidRecord, IInv, RecordTrue
<1>2. IInv /\ [Next]_vars =>
        [Grants => \A h \in ram'.mask : h \in tag.ran /\ ram'.credit[h] = 0]_vars
  BY <1>1
<1> QED BY <1>2, Invariance, PTL DEF Spec, ResumesWhatRan
-----------------------------------------------------------------------------
(* The guard of one heat pump.  What it may be given as credit at boot     *)
(* (RestoreCredit) is at most the rest its compressor has had:             *)
(* CreditIsReal above is why.                                              *)

(* The strengthening that makes RestedWhenAllowed inductive: credit plus   *)
(* the time since the observation it was given at never exceeds the rest   *)
(* the compressor has had, and while there is credit of either kind the    *)
(* compressor is off.  The wrapped age of an observation can only be less  *)
(* than its real age, so a wrap errs on the safe side here.                *)
CreditEarned ==
  /\ guard.stopConfirmed =>
       /\ plant = "off"
       /\ Lesser(guard.credit + Elapsed(now, guard.last), MinOff) <= offTime
  /\ ~guard.stopConfirmed =>
       /\ guard.pending <= offTime
       /\ guard.pending > 0 => plant = "off"

GuardInv == GuardTypeOK /\ CreditEarned

(* Elapsed is a duration on the clock, zero for the present.               *)
LEMMA ElapsedType ==
  ASSUME GuardAssumption,
         NEW a \in Clock, NEW b \in Clock
  PROVE  /\ Elapsed(a, b) \in 0 .. ClockMod - 1
         /\ Elapsed(a, a) = 0
BY GuardAssumption DEF Elapsed, Clock

(* One tick makes an observation at most one tick older.                   *)
LEMMA ElapsedTick ==
  ASSUME GuardAssumption,
         NEW a \in Clock, NEW b \in Clock
  PROVE  /\ NextTime(a) \in Clock
         /\ Elapsed(NextTime(a), b) <= Elapsed(a, b) + 1
BY GuardAssumption DEF Elapsed, NextTime, Clock

(* AddCredit is addition that saturates at MinOff.                     *)
LEMMA AddCreditSaturates ==
  ASSUME GuardAssumption,
         NEW c \in 0 .. MinOff, NEW e \in Nat
  PROVE  /\ AddCredit(c, e) \in 0 .. MinOff
         /\ AddCredit(c, e) = Lesser(c + e, MinOff)
BY GuardAssumption DEF AddCredit, Lesser

LEMMA ResetGuard ==
  ASSUME GuardAssumption
  PROVE  Reset \in Policy /\ Configured \in Policy
<1>1. Reset \in Policy
  BY GuardAssumption DEF Reset, Policy, Clock
<1>2. Configured \in Policy
  BY <1>1 DEF Configured, Policy
<1> QED BY <1>1, <1>2

(* Every member function of the class keeps its state in range.            *)
LEMMA PolicyClosed ==
  ASSUME GuardAssumption,
         NEW g \in Policy, NEW t \in Clock, NEW c \in Nat
  PROVE  /\ Restored(g, c) \in Policy
         /\ ObservedStopped(g, t) \in Policy
         /\ Invalidated(g) \in Policy
<1>1. Restored(g, c) \in Policy
  <2>1. Lesser(c, MinOff) \in 0 .. MinOff
    BY GuardAssumption DEF Lesser
  <2>2. [g EXCEPT !.pending = Lesser(c, MinOff)] \in Policy
    BY <2>1 DEF Policy
  <2>3. [g EXCEPT !.pending = Lesser(c, MinOff), !.restoreOpen = FALSE] \in Policy
    BY <2>2 DEF Policy
  <2> QED BY <2>3 DEF Restored
<1>2. ObservedStopped(g, t) \in Policy
  <2> DEFINE e == Elapsed(t, g.last)
  <2>1. g.last \in Clock /\ g.credit \in 0 .. MinOff /\ g.pending \in 0 .. MinOff
    BY DEF Policy
  <2>2. e \in Nat
    BY <2>1, ElapsedType, GuardAssumption
  <2>3. AddCredit(g.credit, e) \in 0 .. MinOff
    BY <2>1, <2>2, AddCreditSaturates
  <2> QED
    BY <2>1, <2>3, GuardAssumption DEF ObservedStopped, Policy
<1>3. Invalidated(g) \in Policy
  BY ResetGuard DEF Invalidated
<1> QED BY <1>1, <1>2, <1>3

(* The fields a Reset or Configured guard starts with.                     *)
LEMMA ResetFields ==
  /\ ~Reset.stopConfirmed /\ Reset.pending = 0
  /\ ~Configured.stopConfirmed /\ Configured.pending = 0
BY DEF Reset, Configured

LEMMA InitGuard ==
  ASSUME GuardAssumption
  PROVE  GuardInit => GuardInv
BY GuardAssumption, ResetGuard, ResetFields
   DEF GuardInit, GuardInv, GuardTypeOK, CreditEarned, Clock, PlantState

(* GuardInv is inductive.  Only ObservedStopped turns elapsed time into    *)
(* credit; the actions that put the compressor under way drop all credit   *)
(* first.                                                                  *)
LEMMA StepGuard ==
  ASSUME GuardAssumption
  PROVE  GuardInv /\ [GuardNext]_(guardVars) => GuardInv'
<1> SUFFICES ASSUME GuardInv, [GuardNext]_(guardVars) PROVE GuardInv'
  OBVIOUS
<1> USE GuardAssumption
<1> USE DEF GuardInv
<1>1. CASE RestoreCredit
  <2> PICK c \in 0 .. offTime : guard' = Restored(guard, c)
    BY <1>1 DEF RestoreCredit
  <2>0. guard \in Policy /\ now \in Clock /\ c \in Nat
    BY DEF GuardTypeOK
  <2>1. guard' \in Policy
    BY <2>0, PolicyClosed
  <2>2. GuardTypeOK'
    BY <1>1, <2>1 DEF GuardTypeOK, RestoreCredit
  <2>3. guard' = [guard EXCEPT !.pending = Lesser(c, MinOff), !.restoreOpen = FALSE]
    BY <1>1 DEF RestoreCredit, Restored
  <2>4. guard'.pending = Lesser(c, MinOff) /\ guard'.stopConfirmed = guard.stopConfirmed
        /\ guard'.credit = guard.credit /\ guard'.last = guard.last
    BY <2>3 DEF GuardTypeOK, Policy
  <2>5. Lesser(c, MinOff) <= offTime
    BY DEF Lesser, GuardTypeOK
  <2> QED
    BY <1>1, <2>2, <2>4, <2>5 DEF RestoreCredit, CreditEarned, GuardTypeOK
<1>2. CASE ObserveStopped
  <2> DEFINE e == Elapsed(now, guard.last)
  <2>1. guard' \in Policy /\ GuardTypeOK'
    BY <1>2, PolicyClosed DEF GuardTypeOK, ObserveStopped
  <2>2. guard.credit \in 0 .. MinOff /\ guard.pending \in 0 .. MinOff /\ e \in Nat
        /\ offTime \in 0 .. MinOff
    BY ElapsedType DEF GuardTypeOK, Policy
  <2>3. guard'.stopConfirmed /\ guard'.last = now
    BY <1>2 DEF ObserveStopped, ObservedStopped
  <2>4. guard'.credit <= offTime
    <3>1. CASE ~guard.stopConfirmed
      BY <1>2, <3>1 DEF ObserveStopped, ObservedStopped, CreditEarned
    <3>2. CASE guard.stopConfirmed /\ e > Freshness
      BY <1>2, <2>2, <3>2 DEF ObserveStopped, ObservedStopped
    <3>3. CASE guard.stopConfirmed /\ ~(e > Freshness)
      <4>1. guard'.credit = AddCredit(guard.credit, e)
        BY <1>2, <3>3 DEF ObserveStopped, ObservedStopped
      <4> QED BY <2>2, <3>3, <4>1, AddCreditSaturates DEF CreditEarned
    <3> QED BY <3>1, <3>2, <3>3
  <2>5. guard'.credit \in 0 .. MinOff
    BY <2>1 DEF Policy
  <2>6. Elapsed(now', guard'.last) = 0
    BY <1>2, <2>3, ElapsedType DEF ObserveStopped, GuardTypeOK
  <2>7. Lesser(guard'.credit + 0, MinOff) <= offTime
    BY <2>2, <2>4, <2>5 DEF Lesser
  <2> QED
    BY <1>2, <2>1, <2>3, <2>5, <2>6, <2>7 DEF ObserveStopped, CreditEarned
<1>3. CASE ObserveOtherwise
  BY <1>3, ResetFields, ResetGuard
     DEF ObserveOtherwise, Invalidated, CreditEarned, GuardTypeOK
<1>4. CASE LoopLinkTimeout
  BY <1>4, ResetFields, ResetGuard
     DEF LoopLinkTimeout, Invalidated, CreditEarned, GuardTypeOK
<1>5. CASE StartCommand
  BY <1>5, ResetFields, ResetGuard
     DEF StartCommand, Invalidated, CreditEarned, GuardTypeOK,
         PlantState
<1>6. CASE CompressorOn
  BY <1>6
     DEF CompressorOn, CreditEarned, GuardTypeOK, PlantState,
         Policy
<1>7. CASE CompressorOff
  BY <1>7 DEF CompressorOff, CreditEarned, GuardTypeOK, PlantState
<1>8. CASE Reboot
  BY <1>8, ResetFields, ResetGuard
     DEF Reboot, CreditEarned, GuardTypeOK, Clock
<1>9. CASE TimePasses
  <2> DEFINE e  == Elapsed(now, guard.last)
             e2 == Elapsed(NextTime(now), guard.last)
  <2>1. now \in Clock /\ guard.last \in Clock /\ guard.credit \in 0 .. MinOff
        /\ guard.pending \in 0 .. MinOff /\ offTime \in 0 .. MinOff
    BY DEF GuardTypeOK, Policy
  <2>2. e \in Nat /\ e2 \in Nat /\ e2 <= e + 1 /\ NextTime(now) \in Clock
    BY <2>1, ElapsedType, ElapsedTick
  <2>3. offTime' \in 0 .. MinOff
    BY <1>9, <2>1 DEF TimePasses, Lesser
  <2>4. GuardTypeOK'
    BY <1>9, <2>2, <2>3 DEF TimePasses, GuardTypeOK, Lesser
  <2>5. CASE guard.stopConfirmed
    <3>1. plant = "off" /\ Lesser(guard.credit + e, MinOff) <= offTime
      BY <2>5 DEF CreditEarned
    <3>2. offTime' = Lesser(offTime + 1, MinOff)
      BY <1>9, <3>1 DEF TimePasses
    <3>3. Lesser(guard.credit + e2, MinOff) <= offTime'
      BY <2>1, <2>2, <3>1, <3>2 DEF Lesser
    <3> QED
      BY <1>9, <2>4, <2>5, <3>1, <3>3 DEF TimePasses, CreditEarned
  <2>6. CASE ~guard.stopConfirmed
    <3>1. plant = "off" => offTime <= offTime'
      BY <1>9, <2>1 DEF TimePasses, Lesser
    <3> QED
      BY <1>9, <2>1, <2>3, <2>4, <2>6, <3>1 DEF TimePasses, CreditEarned
  <2> QED BY <2>5, <2>6
<1>10. CASE UNCHANGED guardVars
  BY <1>10 DEF guardVars, CreditEarned, GuardTypeOK
<1> QED
  BY <1>1, <1>2, <1>3, <1>4, <1>5, <1>6, <1>7, <1>8, <1>9, <1>10 DEF GuardNext

(* The guard's state stays in range for every clock and every interval.    *)
THEOREM GuardTypeCorrect ==
  ASSUME GuardAssumption
  PROVE  GuardSpec => []GuardTypeOK
<1>1. GuardInv => GuardTypeOK BY DEF GuardInv
<1> QED BY InitGuard, StepGuard, <1>1, PTL DEF GuardSpec

(* What the two safety properties say follows from the invariant.          *)
LEMMA GuardInvImplies ==
  ASSUME GuardAssumption
  PROVE  GuardInv => RestedWhenAllowed /\ SnapshotIsEarned
<1> SUFFICES ASSUME GuardInv PROVE RestedWhenAllowed /\ SnapshotIsEarned
  OBVIOUS
<1> DEFINE e == Elapsed(now, guard.last)
<1>1. guard.credit \in 0 .. MinOff /\ e \in Nat /\ offTime \in 0 .. MinOff
  BY ElapsedType, GuardAssumption DEF GuardInv, GuardTypeOK, Policy
<1>2. guard.stopConfirmed => Lesser(guard.credit + e, MinOff) <= offTime
  BY DEF GuardInv, CreditEarned
<1>3. RestedWhenAllowed
  <2>1. AddCredit(guard.credit, e) = Lesser(guard.credit + e, MinOff)
    BY <1>1, AddCreditSaturates
  <2> QED
    BY <1>1, <1>2, <2>1, GuardAssumption
       DEF RestedWhenAllowed, CanStart, Fresh, CreditAt,
           Lesser
<1>4. SnapshotIsEarned
  BY <1>1, <1>2, GuardAssumption
     DEF SnapshotIsEarned, SnapshotCredit, Fresh, Lesser
<1> QED BY <1>3, <1>4

(* A start the guard lets through follows a full rest (can_start()).       *)
THEOREM AllowedOnlyWhenRested ==
  ASSUME GuardAssumption
  PROVE  GuardSpec => []RestedWhenAllowed
BY InitGuard, StepGuard, GuardInvImplies, PTL DEF GuardSpec

(* The credit a controlled restart saves was earned (snapshot_credit_ms()).*)
THEOREM SnapshotEarned ==
  ASSUME GuardAssumption
  PROVE  GuardSpec => []SnapshotIsEarned
BY InitGuard, StepGuard, GuardInvImplies, PTL DEF GuardSpec

(* The unit is put under way only after a full rest (request_start()).     *)
THEOREM StartsOnlyRested ==
  ASSUME GuardAssumption
  PROVE  GuardSpec => StartsRested
<1>1. GuardInv /\ [GuardNext]_(guardVars) =>
        [plant = "off" /\ plant' = "starting" => offTime >= MinOff]_(guardVars)
  <2> SUFFICES ASSUME GuardInv, GuardNext, plant = "off", plant' = "starting"
               PROVE  offTime >= MinOff
    OBVIOUS
  <2>1. StartCommand
    BY DEF GuardNext, RestoreCredit, ObserveStopped,
           ObserveOtherwise, LoopLinkTimeout,
           CompressorOn, CompressorOff, Reboot, TimePasses
  <2> QED BY <2>1, GuardInvImplies DEF StartCommand, RestedWhenAllowed
<1> QED BY InitGuard, StepGuard, <1>1, PTL DEF GuardSpec, StartsRested
-----------------------------------------------------------------------------
(* FreshEvidence needs a second invariant: while the guard holds an        *)
(* observation, its age on the wrapping clock is the silence the manager's *)
(* loop bounds, so the age cannot come round to zero.                      *)
AgeIsSilence ==
  guard.stopConfirmed =>
    /\ Elapsed(now, guard.last) = silent
    /\ unseen = Lesser(silent, Freshness + 1)

(* One tick makes an observation exactly one tick older, short of a wrap.  *)
LEMMA ElapsedTickExact ==
  ASSUME GuardAssumption,
         NEW a \in Clock, NEW b \in Clock, Elapsed(a, b) + 1 < ClockMod
  PROVE  Elapsed(NextTime(a), b) = Elapsed(a, b) + 1
BY GuardAssumption DEF Elapsed, NextTime, Clock

LEMMA StepAge ==
  ASSUME GuardAssumption
  PROVE  GuardTypeOK /\ AgeIsSilence /\ [GuardNext]_(guardVars) => AgeIsSilence'
<1> SUFFICES ASSUME GuardTypeOK, AgeIsSilence, [GuardNext]_(guardVars) PROVE AgeIsSilence'
  OBVIOUS
<1> USE GuardAssumption
<1>1. CASE RestoreCredit
  <2>1. guard'.stopConfirmed = guard.stopConfirmed /\ guard'.last = guard.last
    BY <1>1 DEF RestoreCredit, Restored, GuardTypeOK, Policy
  <2> QED BY <1>1, <2>1 DEF RestoreCredit, AgeIsSilence
<1>2. CASE ObserveStopped
  <2>1. guard'.last = now
    BY <1>2 DEF ObserveStopped, ObservedStopped
  <2> QED BY <1>2, <2>1, ElapsedType
             DEF ObserveStopped, AgeIsSilence, GuardTypeOK, Lesser
<1>3. CASE ObserveOtherwise \/ LoopLinkTimeout \/ StartCommand \/ Reboot
  BY <1>3, ResetFields
     DEF ObserveOtherwise, LoopLinkTimeout, StartCommand, Reboot,
         Invalidated, AgeIsSilence
<1>4. CASE CompressorOn \/ CompressorOff \/ UNCHANGED guardVars
  BY <1>4 DEF CompressorOn, CompressorOff, guardVars, AgeIsSilence
<1>5. CASE TimePasses
  <2> SUFFICES ASSUME guard.stopConfirmed
               PROVE  /\ Elapsed(now', guard.last) = silent'
                      /\ unseen' = Lesser(silent', Freshness + 1)
    BY <1>5 DEF TimePasses, AgeIsSilence
  <2>1. Elapsed(now, guard.last) = silent /\ unseen = Lesser(silent, Freshness + 1)
    BY DEF AgeIsSilence
  <2>2. now \in Clock /\ guard.last \in Clock /\ silent \in Nat
    BY DEF GuardTypeOK, Policy
  <2>3. silent + 1 < ClockMod
    BY <1>5, <2>2 DEF TimePasses
  <2>4. Elapsed(now', guard.last) = silent'
    BY <1>5, <2>1, <2>2, <2>3, ElapsedTickExact DEF TimePasses
  <2>5. unseen' = Lesser(silent', Freshness + 1)
    BY <1>5, <2>1, <2>2 DEF TimePasses, Lesser
  <2> QED BY <2>4, <2>5
<1> QED BY <1>1, <1>2, <1>3, <1>4, <1>5 DEF GuardNext

(* No start is let through on an observation older than Freshness.         *)
THEOREM EvidenceIsFresh ==
  ASSUME GuardAssumption
  PROVE  GuardSpec => []FreshEvidence
<1>1. GuardInit => AgeIsSilence
  BY ResetFields DEF GuardInit, AgeIsSilence
<1>2. GuardTypeOK /\ AgeIsSilence => FreshEvidence
  BY GuardAssumption
     DEF GuardTypeOK, AgeIsSilence, FreshEvidence, CanStart,
         Fresh, Lesser
<1> QED BY GuardTypeCorrect, StepAge, <1>1, <1>2, PTL DEF GuardSpec

-----------------------------------------------------------------------------
(***************************************************************************)
(* The start limit: the ring of time stamps implements the quota.          *)
(***************************************************************************)

(* Arithmetic.                                                             *)

LEMMA ClockTypes ==
  /\ \A t \in Millis, s \in Millis : Since(t, s) \in 0 .. Wrap - 1
  /\ \A d \in 1 .. MaxGap : millis \in Millis => Later(d) \in Millis
  /\ \A t \in Millis : Since(t, t) = 0
BY LimitAssumption DEF Since, Later, Millis

(* A time stamp of the window is simply `d` older after a tick.            *)
LEMMA AgeGrows ==
  ASSUME millis \in Millis, NEW d \in 1 .. MaxGap, NEW s \in Millis, Since(millis, s) < Window
  PROVE  Since(Later(d), s) = Since(millis, s) + d
BY LimitAssumption DEF Since, Later, Millis

LEMMA IndexFacts ==
  ASSUME NEW o \in 0 .. MaxStarts - 1
  PROVE  /\ \A k \in 0 .. MaxStarts : Index(o, k) \in 0 .. MaxStarts - 1
         /\ \A n \in 0 .. MaxStarts, k \in 0 .. MaxStarts :
              n + k <= MaxStarts => Index(Index(o, n), k) = Index(o, n + k)
         /\ \A j \in 0 .. MaxStarts - 1, k \in 0 .. MaxStarts - 1 :
              j # k => Index(o, j) # Index(o, k)
BY LimitAssumption DEF Index

LEMMA LeastNumber ==
  ASSUME NEW S \in SUBSET Nat, S # {}
  PROVE  \E m \in S : \A k \in S : m <= k
<1>1. IsWellFoundedOn(OpToRel(<, Nat), Nat)
  BY NatLessThanWellFounded
<1>2. PICK m \in S : \A k \in S : ~ (<<k, m>> \in OpToRel(<, Nat))
  BY <1>1, WFMin
<1>3. \A k \in S : m <= k
  <2> TAKE k \in S
  <2>1. k \in Nat /\ m \in Nat
    OBVIOUS
  <2>2. k < m => <<k, m>> \in OpToRel(<, Nat)
    BY <2>1 DEF OpToRel
  <2>3. ~ (<<k, m>> \in OpToRel(<, Nat))
    BY <1>2
  <2>4. ~ (k < m)
    BY <2>2, <2>3
  <2> QED BY <2>1, <2>4
<1> QED BY <1>3

-----------------------------------------------------------------------------
(* The starts in the ring, oldest first, are inside the window and no two  *)
(* have the same age.                                                      *)
Young(q, t)   == \A k \in 0 .. q.count - 1 : Age(q, k, t) < Window
Ordered(q, t) == \A j, k \in 0 .. q.count - 1 : j < k => Age(q, j, t) > Age(q, k, t)
Ages(q, t)    == {Age(q, k, t) : k \in 0 .. q.count - 1}

LEMMA AgeType ==
  ASSUME NEW q \in Limit, NEW t \in Millis, NEW k \in 0 .. MaxStarts
  PROVE  Age(q, k, t) \in 0 .. Wrap - 1
BY ClockTypes, IndexFacts DEF Age, Limit

LEMMA DropType ==
  ASSUME NEW q \in Limit, NEW n \in 0 .. q.count
  PROVE  /\ Drop(q, n) \in Limit
         /\ Drop(q, n).starts = q.starts
         /\ Drop(q, n).oldest = Index(q.oldest, n)
         /\ Drop(q, n).count = q.count - n
<1>0. q.oldest \in 0 .. MaxStarts - 1 /\ q.count \in 0 .. MaxStarts
  BY DEF Limit
<1>1. n \in 0 .. MaxStarts /\ q.count - n \in 0 .. MaxStarts
  BY <1>0, LimitAssumption
<1>2. Index(q.oldest, n) \in 0 .. MaxStarts - 1
  BY <1>0, <1>1, IndexFacts
<1> QED BY <1>1, <1>2 DEF Drop, Limit

LEMMA DropAge ==
  ASSUME NEW q \in Limit, NEW n \in 0 .. q.count, NEW k \in 0 .. q.count - n - 1, NEW t
  PROVE  Age(Drop(q, n), k, t) = Age(q, n + k, t)
<1>1. q.oldest \in 0 .. MaxStarts - 1 /\ q.count \in 0 .. MaxStarts
  BY DEF Limit
<1>0. n \in 0 .. MaxStarts /\ k \in 0 .. MaxStarts /\ n + k <= MaxStarts
  BY <1>1, LimitAssumption
<1>2. Index(Index(q.oldest, n), k) = Index(q.oldest, n + k)
  BY <1>0, <1>1, IndexFacts
<1> QED BY <1>2, DropType DEF Age

(* expire() leaves the starts of the window, each older by the time passed.*)
LEMMA ExpiredStarts ==
  ASSUME NEW q \in Limit, millis \in Millis, NEW d \in 1 .. MaxGap,
         Young(q, millis), Ordered(q, millis)
  PROVE  /\ Expired(q, Later(d)) \in Limit
         /\ Young(Expired(q, Later(d)), Later(d))
         /\ Ordered(Expired(q, Later(d)), Later(d))
         /\ \A k \in 0 .. Expired(q, Later(d)).count - 1 : Age(Expired(q, Later(d)), k, Later(d)) > 0
         /\ Ages(Expired(q, Later(d)), Later(d)) = {a \in 0 .. Window - 1 : a - d \in Ages(q, millis)}
<1> DEFINE t == Later(d)
<1>0. q.count \in 0 .. MaxStarts /\ t \in Millis
  BY ClockTypes DEF Limit
<1>1. \A k \in 0 .. q.count - 1 : /\ Age(q, k, millis) \in Nat
                                  /\ Age(q, k, t) = Age(q, k, millis) + d
  <2> TAKE k \in 0 .. q.count - 1
  <2>1. k \in 0 .. MaxStarts /\ k \in 0 .. MaxStarts - 1
    BY <1>0, LimitAssumption
  <2>2. q.starts[Index(q.oldest, k)] \in Millis
    BY <2>1, IndexFacts DEF Limit
  <2>3. Since(millis, q.starts[Index(q.oldest, k)]) < Window
    BY DEF Young, Age
  <2>4. Since(t, q.starts[Index(q.oldest, k)]) = Since(millis, q.starts[Index(q.oldest, k)]) + d
    BY <2>2, <2>3, AgeGrows
  <2>5. Age(q, k, millis) \in 0 .. Wrap - 1
    BY <2>1, AgeType
  <2> QED BY <2>4, <2>5 DEF Age
<1> HIDE DEF t
<1>2. \E n \in 0 .. q.count : Gone(q, n, t)
  <2> DEFINE S == {k \in 0 .. q.count : k = q.count \/ Age(q, k, t) < Window}
  <2>1. S \in SUBSET Nat /\ S # {}
    BY <1>0
  <2>2. PICK n \in S : \A k \in S : n <= k
    BY <2>1, LeastNumber
  <2>3. \A k \in 0 .. n - 1 : Age(q, k, t) >= Window
    BY <1>0, <1>1, <2>2, LimitAssumption
  <2> QED BY <2>2, <2>3 DEF Gone
<1> DEFINE n == CHOOSE m \in 0 .. q.count : Gone(q, m, t)
           e == Drop(q, n)
<1>3. n \in 0 .. q.count /\ Gone(q, n, t) /\ Expired(q, t) = e
  BY <1>2 DEF Expired
<1> HIDE DEF n
<1>4. e \in Limit /\ e.count = q.count - n
  BY <1>3, DropType
<1>5. \A k \in 0 .. e.count - 1 : /\ n + k \in 0 .. q.count - 1
                                  /\ Age(e, k, t) = Age(q, n + k, millis) + d
  BY <1>0, <1>1, <1>3, <1>4, DropAge
<1> HIDE DEF e
<1>6. Young(e, t)
  <2> SUFFICES ASSUME NEW k \in 0 .. e.count - 1 PROVE Age(e, k, t) < Window
    BY DEF Young
  <2>1. n \in 0 .. q.count - 1 /\ Age(q, n, t) < Window
    BY <1>0, <1>3, <1>4 DEF Gone
  <2>2. CASE k = 0
    BY <1>1, <1>5, <2>1, <2>2
  <2>3. CASE k # 0
    <3>1. n < n + k /\ n + k \in 0 .. q.count - 1
      BY <1>3, <1>4, <1>5, <2>3, <1>0
    <3>2. Age(q, n, millis) > Age(q, n + k, millis)
      BY <2>1, <3>1 DEF Ordered
    <3> QED BY <1>1, <1>5, <2>1, <3>1, <3>2, LimitAssumption
  <2> QED BY <2>2, <2>3
<1>7. Ordered(e, t)
  <2> SUFFICES ASSUME NEW j \in 0 .. e.count - 1, NEW k \in 0 .. e.count - 1, j < k
               PROVE  Age(e, j, t) > Age(e, k, t)
    BY DEF Ordered
  <2>1. n + j < n + k
    BY <1>3
  <2>2. Age(q, n + j, millis) > Age(q, n + k, millis)
    BY <1>5, <2>1 DEF Ordered
  <2> QED BY <1>1, <1>5, <2>2
<1>8. \A k \in 0 .. e.count - 1 : Age(e, k, t) > 0
  BY <1>1, <1>5
<1>9. Ages(e, t) = {a \in 0 .. Window - 1 : a - d \in Ages(q, millis)}
  <2>1. ASSUME NEW k \in 0 .. e.count - 1
        PROVE  Age(e, k, t) \in 0 .. Window - 1 /\ Age(e, k, t) - d \in Ages(q, millis)
    <3>1. Age(e, k, t) = Age(q, n + k, millis) + d /\ n + k \in 0 .. q.count - 1
      BY <1>5
    <3>2. Age(q, n + k, millis) \in Nat /\ Age(q, n + k, millis) \in Ages(q, millis)
      BY <1>1, <3>1 DEF Ages
    <3>3. Age(e, k, t) < Window
      BY <1>6 DEF Young
    <3> QED BY <3>1, <3>2, <3>3, LimitAssumption
  <2>2. ASSUME NEW a \in 0 .. Window - 1, a - d \in Ages(q, millis)
        PROVE  a \in Ages(e, t)
    <3>1. PICK k \in 0 .. q.count - 1 : a - d = Age(q, k, millis)
      BY <2>2 DEF Ages
    <3>2. Age(q, k, t) = a
      BY <1>1, <3>1
    <3>3. k >= n
      BY <1>3, <3>1, <3>2, LimitAssumption DEF Gone
    <3>4. k - n \in 0 .. e.count - 1 /\ n + (k - n) = k
      BY <1>0, <1>3, <1>4, <3>3
    <3>5. Age(e, k - n, t) = Age(q, k, millis) + d
      BY <1>5, <3>4
    <3> QED BY <1>1, <3>1, <3>4, <3>5 DEF Ages
  <2> QED BY <2>1, <2>2 DEF Ages
<1> QED BY <1>3, <1>4, <1>6, <1>7, <1>8, <1>9 DEF t

(* As many ages as starts, and the first is the greatest: the countdown of *)
(* the ring is the one of the quota.                                       *)
LEMMA AgesCounted ==
  ASSUME NEW q \in Limit, NEW t \in Millis, Ordered(q, t)
  PROVE  Cardinality(Ages(q, t)) = q.count
<1>0. q.count \in Nat /\ q.count <= MaxStarts
  BY LimitAssumption DEF Limit
<1>1. \A k \in 0 .. q.count - 1 : Age(q, k, t) \in Nat
  <2> TAKE k \in 0 .. q.count - 1
  <2>1. k \in 0 .. MaxStarts
    BY <1>0, LimitAssumption
  <2> QED BY <2>1, AgeType, LimitAssumption
<1> DEFINE f == [k \in 1 .. q.count |-> Age(q, k - 1, t)]
<1>2. f \in [1 .. q.count -> Ages(q, t)]
  <2> SUFFICES ASSUME NEW k \in 1 .. q.count PROVE Age(q, k - 1, t) \in Ages(q, t)
    OBVIOUS
  <2>1. k - 1 \in 0 .. q.count - 1
    BY <1>0
  <2> QED BY <2>1 DEF Ages
<1>3. \A a \in Ages(q, t) : \E k \in 1 .. q.count : f[k] = a
  <2> TAKE a \in Ages(q, t)
  <2>1. PICK k \in 0 .. q.count - 1 : a = Age(q, k, t)
    BY DEF Ages
  <2>2. k + 1 \in 1 .. q.count /\ (k + 1) - 1 = k
    BY <1>0
  <2>3. f[k + 1] = a
    BY <2>1, <2>2
  <2> QED BY <2>2, <2>3
<1>4. \A j \in 1 .. q.count, k \in 1 .. q.count : f[j] = f[k] => j = k
  <2> TAKE j \in 1 .. q.count, k \in 1 .. q.count
  <2>1. j - 1 \in 0 .. q.count - 1 /\ k - 1 \in 0 .. q.count - 1
    BY <1>0
  <2>2. j - 1 < k - 1 => Age(q, j - 1, t) > Age(q, k - 1, t)
    BY <2>1 DEF Ordered
  <2>3. k - 1 < j - 1 => Age(q, k - 1, t) > Age(q, j - 1, t)
    BY <2>1 DEF Ordered
  <2> QED BY <1>0, <1>1, <2>1, <2>2, <2>3
<1>5. f \in Bijection(1 .. q.count, Ages(q, t))
  <2> HIDE DEF f
  <2> QED BY <1>2, <1>3, <1>4 DEF Bijection, Injection, Surjection, IsInjective
<1>6. ExistsBijection(1 .. q.count, Ages(q, t))
  BY <1>5 DEF ExistsBijection
<1> QED BY <1>0, <1>6, FS_CountingElements

(* The Cardinality that the instance of StartQuota sees is the same.       *)
LEMMA SameCardinality == \A S : Quota!Cardinality(S) = Cardinality(S)
BY DEF Quota!Cardinality, Cardinality

LEMMA CountdownIsWait ==
  ASSUME NEW q \in Limit, NEW t \in Millis, Young(q, t), Ordered(q, t)
  PROVE  /\ RemainingMs(q, t) = Quota!Wait(Ages(q, t))
         /\ RemainingMs(q, t) \in 0 .. Window
         /\ RemainingMs(q, t) = 0 <=> q.count < MaxStarts
<1>0. q.count \in 0 .. MaxStarts
  BY DEF Limit
<1>1. CASE q.count = MaxStarts
  <2>1. 0 \in 0 .. q.count - 1 /\ 0 \in 0 .. MaxStarts
    BY <1>1, LimitAssumption
  <2>2. Age(q, 0, t) \in Nat /\ Age(q, 0, t) < Window
    BY <2>1, AgeType, LimitAssumption DEF Young
  <2>3. Age(q, 0, t) \in Ages(q, t)
    BY <2>1 DEF Ages
  <2>4. \A b \in Ages(q, t) : b \in Nat /\ b <= Age(q, 0, t)
    <3> TAKE b \in Ages(q, t)
    <3>1. PICK k \in 0 .. q.count - 1 : b = Age(q, k, t)
      BY DEF Ages
    <3>2. k \in 0 .. MaxStarts
      BY <1>1, <3>1, LimitAssumption
    <3>3. b \in Nat
      BY <3>1, <3>2, AgeType, LimitAssumption
    <3>4. k = 0 \/ Age(q, 0, t) > Age(q, k, t)
      BY <2>1, <1>1, LimitAssumption DEF Ordered
    <3> QED BY <2>2, <3>1, <3>3, <3>4
  <2>5. Quota!Oldest(Ages(q, t)) = Age(q, 0, t)
    <3>1. \E a \in Ages(q, t) : \A b \in Ages(q, t) : b <= a
      BY <2>3, <2>4
    <3> DEFINE o == Quota!Oldest(Ages(q, t))
    <3>2. o \in Ages(q, t) /\ \A b \in Ages(q, t) : b <= o
      BY <3>1 DEF Quota!Oldest
    <3> HIDE DEF o
    <3>3. o <= Age(q, 0, t) /\ Age(q, 0, t) <= o /\ o \in Nat
      BY <2>3, <2>4, <3>2
    <3>4. o = Age(q, 0, t)
      BY <2>2, <3>3
    <3> QED BY <3>4 DEF o
  <2>6. Cardinality(Ages(q, t)) = MaxStarts
    BY <1>1, AgesCounted
  <2>7. RemainingMs(q, t) = Window - Age(q, 0, t)
    BY <1>1 DEF RemainingMs
  <2>8. Quota!Wait(Ages(q, t)) = Window - Age(q, 0, t)
    BY <2>5, <2>6, SameCardinality DEF Quota!Wait
  <2>9. Window - Age(q, 0, t) \in 1 .. Window
    BY <2>2, LimitAssumption
  <2> QED BY <1>1, <2>7, <2>8, <2>9, LimitAssumption
<1>2. CASE q.count # MaxStarts
  <2>1. Cardinality(Ages(q, t)) # MaxStarts
    BY <1>2, AgesCounted
  <2>2. RemainingMs(q, t) = 0
    BY <1>2 DEF RemainingMs
  <2>3. Quota!Wait(Ages(q, t)) = 0
    BY <2>1, SameCardinality DEF Quota!Wait
  <2> QED BY <1>0, <1>2, <2>2, <2>3, LimitAssumption
<1> QED BY <1>1, <1>2

(* record_transition() of a start, while the ring has room.                *)
LEMMA PushedStart ==
  ASSUME NEW q \in Limit, NEW t \in Millis, Young(q, t), Ordered(q, t),
         q.count < MaxStarts, \A k \in 0 .. q.count - 1 : Age(q, k, t) > 0
  PROVE  /\ Pushed(q, t) \in Limit
         /\ Young(Pushed(q, t), t)
         /\ Ordered(Pushed(q, t), t)
         /\ Ages(Pushed(q, t), t) = Ages(q, t) \cup {0}
<1> DEFINE p == Pushed(q, t)
           i == Index(q.oldest, q.count)
<1>0. q.count \in 0 .. MaxStarts - 1 /\ q.oldest \in 0 .. MaxStarts - 1
  BY LimitAssumption DEF Limit
<1>1. i \in 0 .. MaxStarts - 1
  <2>1. q.count \in 0 .. MaxStarts
    BY <1>0, LimitAssumption
  <2> QED BY <1>0, <2>1, IndexFacts
<1>2. /\ p.oldest = q.oldest /\ p.count = q.count + 1
      /\ p.starts = [q.starts EXCEPT ![i] = t]
      /\ p \in Limit
  <2> HIDE DEF i
  <2>1. Pushed(q, t) = [q EXCEPT !.starts = [q.starts EXCEPT ![i] = t], !.count = q.count + 1]
    BY DEF Pushed, i, Limit
  <2>2. [q.starts EXCEPT ![i] = t] \in [0 .. MaxStarts - 1 -> Millis]
    BY DEF Limit
  <2>3. q.count + 1 \in 0 .. MaxStarts
    BY <1>0, LimitAssumption
  <2> QED BY <2>1, <2>2, <2>3 DEF Limit
<1>3. \A k \in 0 .. q.count - 1 : Age(p, k, t) = Age(q, k, t)
  <2> TAKE k \in 0 .. q.count - 1
  <2>1. k \in 0 .. MaxStarts - 1 /\ k # q.count /\ k \in 0 .. MaxStarts
    BY <1>0, LimitAssumption
  <2>2. Index(q.oldest, k) # i /\ Index(q.oldest, k) \in 0 .. MaxStarts - 1
    BY <1>0, <2>1, IndexFacts
  <2>3. q.starts \in [0 .. MaxStarts - 1 -> Millis]
    BY DEF Limit
  <2> HIDE DEF p, i
  <2>4. p.starts[Index(q.oldest, k)] = q.starts[Index(q.oldest, k)]
    BY <1>2, <2>2, <2>3
  <2> QED BY <1>2, <2>4 DEF Age
<1>4. Age(p, q.count, t) = 0
  <2>1. q.starts \in [0 .. MaxStarts - 1 -> Millis]
    BY DEF Limit
  <2>2. p.starts[i] = t
    <3> HIDE DEF p, i
    <3> QED BY <1>1, <1>2, <2>1
  <2>3. Since(t, t) = 0
    BY ClockTypes
  <2>4. Age(p, q.count, t) = Since(t, p.starts[i])
    <3> HIDE DEF p
    <3> QED BY <1>2 DEF Age
  <2> QED BY <2>2, <2>3, <2>4
<1> HIDE DEF p, i
<1>5. \A k \in 0 .. q.count - 1 : Age(q, k, t) \in Nat
  <2> TAKE k \in 0 .. q.count - 1
  <2>1. k \in 0 .. MaxStarts
    BY <1>0, LimitAssumption
  <2> QED BY <2>1, AgeType, LimitAssumption
<1>6. \A k \in 0 .. p.count - 1 : k \in 0 .. q.count - 1 \/ k = q.count
  BY <1>0, <1>2
<1>7. Young(p, t)
  BY <1>3, <1>4, <1>6, LimitAssumption DEF Young
<1>8. Ordered(p, t)
  <2> SUFFICES ASSUME NEW j \in 0 .. p.count - 1, NEW k \in 0 .. p.count - 1, j < k
               PROVE  Age(p, j, t) > Age(p, k, t)
    BY DEF Ordered
  <2>1. j \in 0 .. q.count - 1
    BY <1>0, <1>2
  <2>2. CASE k = q.count
    BY <1>3, <1>4, <2>1, <2>2
  <2>3. CASE k \in 0 .. q.count - 1
    BY <1>3, <2>1, <2>3 DEF Ordered
  <2> QED BY <1>6, <2>2, <2>3
<1>9. Ages(p, t) = Ages(q, t) \cup {0}
  <2>1. ASSUME NEW k \in 0 .. p.count - 1 PROVE Age(p, k, t) \in Ages(q, t) \cup {0}
    BY <1>3, <1>4, <1>6 DEF Ages
  <2>2. ASSUME NEW k \in 0 .. q.count - 1 PROVE Age(q, k, t) \in Ages(p, t)
    <3>1. k \in 0 .. p.count - 1
      BY <1>0, <1>2
    <3> QED BY <1>3, <3>1 DEF Ages
  <2>3. 0 \in Ages(p, t)
    <3>1. q.count \in 0 .. p.count - 1
      BY <1>0, <1>2
    <3> QED BY <1>4, <3>1 DEF Ages
  <2> QED BY <2>1, <2>2, <2>3 DEF Ages
<1> QED BY <1>2, <1>7, <1>8, <1>9 DEF p

-----------------------------------------------------------------------------
(* The inductive invariant, and the two results of one step.               *)
LimitInv == LimitTypeOK /\ Young(limit, millis) /\ Ordered(limit, millis)

LEMMA EmptyRing ==
  ASSUME NEW t \in Millis
  PROVE  /\ NoStarts \in Limit /\ Young(NoStarts, t) /\ Ordered(NoStarts, t)
         /\ Ages(NoStarts, t) = {}
BY LimitAssumption DEF NoStarts, Limit, Young, Ordered, Ages, Millis

LEMMA InitStep == LimitInit => LimitInv /\ Quota!Init
<1> SUFFICES ASSUME LimitInit PROVE LimitInv /\ Quota!Init
  OBVIOUS
<1>1. LimitInv
  BY EmptyRing, LimitAssumption DEF LimitInit, LimitInv, LimitTypeOK
<1>2. Recent = {}
  BY EmptyRing DEF LimitInit, Recent, Ages
<1> QED BY <1>1, <1>2 DEF LimitInit, Quota!Init

LEMMA RebootStep == LimitInv /\ LimitReboot => LimitInv' /\ Quota!Forget
<1> SUFFICES ASSUME LimitInv, LimitReboot PROVE LimitInv' /\ Quota!Forget
  OBVIOUS
<1>1. LimitInv'
  BY EmptyRing, LimitAssumption DEF LimitReboot, LimitInv, LimitTypeOK
<1>2. Recent' = {}
  BY EmptyRing DEF LimitReboot, Recent, Ages
<1> QED BY <1>1, <1>2 DEF LimitReboot, Quota!Forget

LEMMA TickStep ==
  ASSUME LimitInv, NEW d \in 1 .. MaxGap, Tick(d)
  PROVE  LimitInv' /\ (Quota!StartTick(d) \/ Quota!OtherTick(d))
<1> DEFINE t == Later(d)
           q == Expired(limit, t)
<1>1. /\ q \in Limit /\ Young(q, t) /\ Ordered(q, t) /\ t \in Millis
      /\ \A k \in 0 .. q.count - 1 : Age(q, k, t) > 0
      /\ Ages(q, t) = {a \in 0 .. Window - 1 : a - d \in Ages(limit, millis)}
  BY ExpiredStarts, ClockTypes DEF LimitInv, LimitTypeOK
<1>2. PICK adopted \in Adoptions, applied \in Levels \cup {0} :
        LET previous == IF adopted # 0 THEN adopted ELSE level
        IN /\ acquiring' \in IF adopted # 0 THEN {FALSE} ELSE {acquiring, FALSE}
           /\ millis' = t
           /\ remaining' = RemainingMs(q, t)
           /\ applied \in Applied(previous, remaining')
           /\ limit' = Recorded(q, previous, applied, t)
           /\ level' = applied
  BY DEF Tick, Applied
<1> HIDE DEF q, t
<1> DEFINE previous == IF adopted # 0 THEN adopted ELSE level
<1>3. /\ remaining' = Quota!Wait(Ages(q, t)) /\ remaining' \in 0 .. Window
      /\ remaining' = 0 <=> q.count < MaxStarts
  BY <1>1, <1>2, CountdownIsWait
<1>4. Quota!Aged(d) = Ages(q, t)
  BY <1>1 DEF Quota!Aged, Recent, Ages
<1>5. level \in Levels \cup {0} /\ acquiring \in BOOLEAN /\ acquiring' \in BOOLEAN
  BY <1>2 DEF LimitInv, LimitTypeOK
<1>6. CASE previous = 0 /\ applied # 0
  <2>1. adopted = 0 /\ level = 0
    BY <1>6, LimitAssumption DEF Adoptions
  <2>2. ~ acquiring' /\ ~ (remaining' > 0)
    BY <1>2, <1>6 DEF Applied
  <2>3. remaining' = 0 /\ q.count < MaxStarts
    BY <1>3, <2>2, LimitAssumption
  <2>4. limit' = Pushed(q, t)
    BY <1>1, <1>2, <1>6, <2>3, LimitAssumption DEF Recorded, Limit
  <2>5. /\ limit' \in Limit /\ Young(limit', t) /\ Ordered(limit', t)
        /\ Ages(limit', t) = Ages(q, t) \cup {0}
    BY <1>1, <2>3, <2>4, PushedStart
  <2>6. LimitInv'
    BY <1>1, <1>2, <1>3, <1>5, <2>5 DEF LimitInv, LimitTypeOK
  <2>7. Recent' = Quota!Aged(d) \cup {0}
    BY <1>2, <1>4, <2>5 DEF Recent, Ages
  <2>8. Cardinality(Quota!Aged(d)) < MaxStarts
    BY <1>1, <1>4, <2>3, AgesCounted
  <2>9. acquiring' = FALSE
    BY <1>5, <2>2
  <2>10. level' \in Levels
    BY <1>2, <1>6
  <2>11. Quota!StartTick(d)
    BY <2>1, <2>3, <2>7, <2>8, <2>9, <2>10, SameCardinality DEF Quota!StartTick
  <2> QED BY <2>6, <2>11
<1>7. CASE ~ (previous = 0 /\ applied # 0)
  <2>1. limit' = q
    BY <1>2, <1>7 DEF Recorded
  <2>2. LimitInv'
    BY <1>1, <1>2, <1>3, <1>5, <2>1 DEF LimitInv, LimitTypeOK
  <2>3. Recent' = Quota!Aged(d)
    BY <1>2, <1>4, <2>1 DEF Recent, Ages
  <2>4. acquiring' \in {acquiring, FALSE}
    BY <1>2
  <2>5. level' \in Levels \cup {0}
    BY <1>2
  <2>6. level' # 0 => level # 0 \/ (acquiring /\ ~ acquiring')
    <3> SUFFICES ASSUME level' # 0 PROVE level # 0 \/ (acquiring /\ ~ acquiring')
      OBVIOUS
    <3>1. previous # 0
      BY <1>2, <1>7
    <3>2. CASE adopted # 0
      BY <1>2, <3>2 DEF Adoptions
    <3> QED BY <3>1, <3>2
  <2>7. Quota!OtherTick(d)
    BY <1>3, <1>4, <2>3, <2>4, <2>5, <2>6 DEF Quota!OtherTick
  <2> QED BY <2>2, <2>7
<1> QED BY <1>6, <1>7

LEMMA NextStep == LimitInv /\ [LimitNext]_limitVars => LimitInv' /\ [Quota!Next]_(Quota!qvars)
<1> SUFFICES ASSUME LimitInv, [LimitNext]_limitVars PROVE LimitInv' /\ [Quota!Next]_(Quota!qvars)
  OBVIOUS
<1>1. CASE LimitReboot
  BY <1>1, RebootStep DEF Quota!Next
<1>2. ASSUME NEW d \in 1 .. MaxGap, Tick(d) PROVE LimitInv' /\ Quota!Next
  BY <1>2, TickStep DEF Quota!Next
<1>3. CASE UNCHANGED limitVars
  <2>1. Recent' = Recent
    BY <1>3 DEF limitVars, Recent
  <2> QED BY <1>3, <2>1 DEF limitVars, LimitInv, LimitTypeOK, Young, Ordered, Quota!qvars
<1> QED BY <1>1, <1>2, <1>3 DEF LimitNext

(* Type correctness: the ring stays inside its array and the countdown     *)
(* inside the window (the private state of CompressorStartLimit).          *)
THEOREM LimitTypeCorrect == LimitSpec => []LimitTypeOK
<1>1. LimitInv => LimitTypeOK
  BY DEF LimitInv
<1> QED BY <1>1, InitStep, NextStep, PTL DEF LimitSpec

(* Refinement: the ring of wrapping time stamps implements the quota: a    *)
(* start is applied only below MaxStarts starts in the window, and is held *)
(* back only, and exactly as long as, that many are in it (expire,         *)
(* remaining_ms and record_transition, called as tick() calls them).       *)
THEOREM RingImplementsQuota == LimitSpec => ImplementsQuota
<1> QED BY InitStep, NextStep, PTL DEF LimitSpec, ImplementsQuota, Quota!Spec
=============================================================================
