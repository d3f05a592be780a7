----------------------------- MODULE Boot_proofs -----------------------------
(***************************************************************************)
(* What a boot finds and takes over.                                       *)
(*                                                                         *)
(* Part 1: ManualResetLatch.  No saved lock is lost, and flash agrees with *)
(* the engines while the persistence reports no fault: for any masks,      *)
(* retry time and baseline.                                                *)
(*                                                                         *)
(* Part 2: BootResume, for every set of times and levels.  NoSecondChance  *)
(* needs one fact: an attempt that anything spoke against is not open any  *)
(* more.  AdoptsWhatRuns needs the ages of what was read to be compared    *)
(* with the ages of what has happened: a good reading of the compressor is *)
(* at least as old as its last turn (Turning), and a good reading of a     *)
(* command register still tells the register's content, unless the unit    *)
(* lost its power after it; a unit without power stays dead, since nobody  *)
(* writes to it while the attempt is open (Unwritten).                     *)
(***************************************************************************)
EXTENDS ManualResetLatch, BootResume, TLAPS

(* The policy is sound for what flash holds: a ready one has both copies,  *)
(* reports what is not saved as a fault, and agrees with flash elsewhere.  *)
Sound(f, p) ==
  p.ready => /\ AllOf(f, "valid") /\ ~p.initPending /\ p.pending \subseteq p.faults
             /\ \A h \in Configured \ p.faults :
                  h \in p.persisted <=> h \in f.a.mask \cup f.b.mask

(* The locks `o` are kept by flash and by the policy.                      *)
Stored(f, o)  == o \subseteq f.a.mask \cup f.b.mask /\ (o # {} => AllOf(f, "valid"))
Kept(p, o)    == o \subseteq p.persisted /\ (o # {} => p.ready)

(* The engines hold what is saved, and the policy knows all they hold.     *)
Follows(p, u) ==
  /\ p.persisted \cap Configured \subseteq Latched(u)
  /\ Latched(u) \subseteq p.persisted \cup p.pending

IInv == /\ TypeOK /\ Sound(flash, policy) /\ Stored(flash, owed) /\ Kept(policy, owed)
        /\ Follows(policy, unit)

Units == [Configured -> Lock]
-----------------------------------------------------------------------------
(* Types of what the handlers compute.                                     *)
LEMMA ReadType ==
  ASSUME NEW r \in Lock, NEW raw \in BOOLEAN
  PROVE  Read(r, raw) \in Lock
<1>1. Tripping(r) \in Lock
  BY DEF Tripping, Lock
<1>2. Clearing(r) \in Lock
  BY DEF Clearing, Lock
<1> QED BY <1>1, <1>2 DEF Read

LEMMA ReadUnits ==
  ASSUME NEW u \in Units, NEW h \in Configured, NEW raw \in BOOLEAN
  PROVE  [u EXCEPT ![h] = Read(@, raw)] \in Units
BY ReadType DEF Units

LEMMA RestoredUnits ==
  ASSUME NEW u \in Units, NEW mask
  PROVE  /\ Restored(u, mask) \in Units
         /\ \A h \in Configured : Restored(u, mask)[h].latched <=> u[h].latched \/ h \in mask
<1>1. ASSUME NEW h \in Configured
      PROVE  /\ [u[h] EXCEPT !.latched = @ \/ h \in mask] \in Lock
             /\ [u[h] EXCEPT !.latched = @ \/ h \in mask].latched <=> u[h].latched \/ h \in mask
  <2>1. u[h] \in Lock
    BY DEF Units
  <2> QED BY <2>1 DEF Lock
<1> QED BY <1>1 DEF Restored, Units

LEMMA LoadType == ASSUME NEW f \in Flash PROVE Load(f) \in Policy
<1>1. LoadedMask(f) \in SUBSET Hps
  BY LatchAssumption DEF LoadedMask, Flash, Slot
<1>2. 0 \in 0 .. RetryTime
  BY LatchAssumption
<1> QED BY <1>1, <1>2, LatchAssumption DEF Load, Policy

LEMMA SavedType ==
  ASSUME NEW p \in Policy, NEW mask \in SUBSET Hps PROVE Saved(p, mask) \in Policy
<1>1. 0 \in 0 .. RetryTime
  BY LatchAssumption
<1> QED BY <1>1 DEF Saved, Policy

(* How each operation of the policy changes the fields that matter.        *)
LEMMA NotSavedFields ==
  ASSUME NEW p \in Policy
  PROVE  /\ NotSaved(p) \in Policy
         /\ NotSaved(p).persisted = p.persisted /\ NotSaved(p).pending = p.pending
         /\ NotSaved(p).ready = p.ready /\ NotSaved(p).initPending = p.initPending
         /\ p.faults \cup p.pending \subseteq NotSaved(p).faults
<1> DEFINE more == IF ~p.ready \/ p.initPending THEN Configured ELSE {}
<1>1. more \in SUBSET Hps /\ 0 \in 0 .. RetryTime
  BY LatchAssumption
<1>2. NotSaved(p) = [p EXCEPT !.faults = @ \cup p.pending \cup more, !.attempted = TRUE, !.age = 0]
  BY DEF NotSaved
<1> HIDE DEF more
<1> QED BY <1>1, <1>2 DEF Policy

LEMMA NotConfirmedFields ==
  ASSUME NEW p \in Policy, NEW h \in Configured
  PROVE  /\ NotConfirmed(p, h) \in Policy
         /\ NotConfirmed(p, h).persisted = p.persisted /\ NotConfirmed(p, h).pending = p.pending
         /\ NotConfirmed(p, h).ready = p.ready /\ NotConfirmed(p, h).initPending = p.initPending
         /\ NotConfirmed(p, h).faults = p.faults \cup {h}
<1>1. h \in Hps /\ 0 \in 0 .. RetryTime
  BY LatchAssumption
<1> QED BY <1>1 DEF NotConfirmed, Policy

LEMMA NoticedFields ==
  ASSUME NEW p \in Policy, NEW locks \in SUBSET Configured
  PROVE  /\ Noticed(p, locks) \in Policy
         /\ Noticed(p, locks).persisted = p.persisted
         /\ Noticed(p, locks).ready = p.ready /\ Noticed(p, locks).initPending = p.initPending
         /\ p.faults \subseteq Noticed(p, locks).faults
         /\ p.pending \subseteq p.faults => Noticed(p, locks).pending \subseteq Noticed(p, locks).faults
         /\ locks \subseteq p.persisted \cup Noticed(p, locks).pending
<1> DEFINE new == locks \ (p.persisted \cup p.pending)
<1>1. CASE new = {}
  <2>1. Noticed(p, locks) = p
    BY <1>1 DEF Noticed
  <2> QED BY <1>1, <2>1
<1>2. CASE new # {}
  <2>1. Noticed(p, locks) = [p EXCEPT !.pending = @ \cup (locks \ p.persisted),
                                      !.faults = @ \cup new,
                                      !.attempted = FALSE, !.age = 0]
    BY <1>2 DEF Noticed
  <2>2. new \in SUBSET Hps /\ locks \ p.persisted \in SUBSET Hps /\ 0 \in 0 .. RetryTime
    BY LatchAssumption
  <2>3. locks \ p.persisted \subseteq p.pending \cup new
    OBVIOUS
  <2> HIDE DEF new
  <2>4. Noticed(p, locks).pending = p.pending \cup (locks \ p.persisted)
    BY <2>1 DEF Policy
  <2>5. Noticed(p, locks).faults = p.faults \cup new
    BY <2>1 DEF Policy
  <2>6. /\ Noticed(p, locks).persisted = p.persisted
        /\ Noticed(p, locks).ready = p.ready /\ Noticed(p, locks).initPending = p.initPending
    BY <2>1 DEF Policy
  <2>7. Noticed(p, locks) \in Policy
    BY <2>1, <2>2 DEF Policy
  <2> QED BY <2>3, <2>4, <2>5, <2>6, <2>7
<1> QED BY <1>1, <1>2

LEMMA AgedFields ==
  ASSUME NEW p \in Policy
  PROVE  /\ Aged(p) \in Policy
         /\ Aged(p).persisted = p.persisted /\ Aged(p).pending = p.pending
         /\ Aged(p).faults = p.faults
         /\ Aged(p).ready = p.ready /\ Aged(p).initPending = p.initPending
<1>1. p.age < RetryTime => p.age + 1 \in 0 .. RetryTime
  BY LatchAssumption DEF Policy
<1> QED BY <1>1 DEF Aged, Policy

LEMMA BaselineFields ==
  ASSUME NEW p \in Policy, NEW mask \in SUBSET Configured
  PROVE  /\ BaselineObserved(p, mask) \in Policy
         /\ BaselineObserved(p, mask).persisted = p.persisted
         /\ BaselineObserved(p, mask).ready = p.ready
         /\ BaselineObserved(p, mask).initPending = p.initPending
         /\ BaselineObserved(p, mask).faults = p.faults
         /\ ~p.initPending => BaselineObserved(p, mask) = p
<1>1. p.pending \cup mask \in SUBSET Hps /\ 0 \in 0 .. RetryTime
  BY LatchAssumption DEF Policy
<1> QED BY <1>1 DEF BaselineObserved, Policy

-----------------------------------------------------------------------------
(* Writing.  Whatever part of a mask reaches flash, what both the copies   *)
(* and the mask agree on is untouched.                                     *)
LEMMA WrittenFacts ==
  ASSUME NEW f \in Flash, NEW mask \in SUBSET Hps, NEW g \in PartlyWritten(f, mask)
  PROVE  /\ g \in Flash
         /\ AllOf(f, "valid") => AllOf(g, "valid")
         /\ \A h : h \in mask /\ h \in f.a.mask \cup f.b.mask => h \in g.a.mask \cup g.b.mask
         /\ \A h : h \notin mask /\ h \notin f.a.mask \cup f.b.mask => h \notin g.a.mask \cup g.b.mask
<1>1. PICK x \in {f.a, Filled(mask).a}, y \in {f.b, Filled(mask).b}, z \in {f.marker, "valid"} :
        g = [a |-> x, b |-> y, marker |-> z]
  BY DEF PartlyWritten
<1>2. /\ Filled(mask).a = [kind |-> "valid", mask |-> mask]
      /\ Filled(mask).b = [kind |-> "valid", mask |-> mask]
  BY DEF Filled
<1>3. x \in Slot /\ y \in Slot /\ z \in Kind
  BY <1>1, <1>2 DEF Flash, Slot, Kind
<1>4. x = f.a \/ (x.kind = "valid" /\ x.mask = mask)
  BY <1>1, <1>2
<1>5. y = f.b \/ (y.kind = "valid" /\ y.mask = mask)
  BY <1>1, <1>2
<1>6. g.a = x /\ g.b = y /\ g.marker = z
  BY <1>1
<1>7. g \in Flash
  BY <1>1, <1>3 DEF Flash
<1>8. AllOf(f, "valid") => AllOf(g, "valid")
  BY <1>1, <1>4, <1>5, <1>6 DEF AllOf
<1> QED BY <1>4, <1>5, <1>6, <1>7, <1>8

LEMMA FilledFacts ==
  ASSUME NEW mask \in SUBSET Hps
  PROVE  /\ Filled(mask) \in Flash /\ AllOf(Filled(mask), "valid")
         /\ Filled(mask).a.mask \cup Filled(mask).b.mask = mask
BY DEF Filled, Flash, Slot, Kind, AllOf

LEMMA WritesPartly ==
  ASSUME NEW f \in Flash, NEW mask \in SUBSET Hps
  PROVE  Writes(f, mask) \subseteq PartlyWritten(f, mask)
<1>1. Filled(mask) \in PartlyWritten(f, mask)
  BY DEF PartlyWritten, Filled
<1> QED BY <1>1 DEF Writes

LEMMA StoredWritten ==
  ASSUME NEW f \in Flash, NEW mask \in SUBSET Hps, NEW g \in PartlyWritten(f, mask),
         NEW o \in SUBSET mask, Stored(f, o)
  PROVE  Stored(g, o)
BY WrittenFacts DEF Stored

-----------------------------------------------------------------------------
(* Reconciliation: from a sound policy to a sound one that the engines     *)
(* follow, keeping every lock kept so far.                                 *)
LEMMA ReconcileStep ==
  ASSUME NEW f \in Flash, NEW p \in Policy, NEW u \in Units, NEW o \in SUBSET Configured,
         Sound(f, p), Stored(f, o), Kept(p, o), Reconcile(f, p, u)
  PROVE  /\ flash' \in Flash /\ policy' \in Policy /\ unit' \in Units
         /\ Sound(flash', policy') /\ Stored(flash', o) /\ Kept(policy', o)
         /\ Follows(policy', unit')
<1> DEFINE v == Restored(u, p.persisted)
           q == Noticed(p, Latched(v))
<1>1. /\ v \in Units
      /\ \A h \in Configured : v[h].latched <=> u[h].latched \/ h \in p.persisted
  BY RestoredUnits
<1>2. Latched(v) \in SUBSET Configured
  BY DEF Latched
<1>3. /\ q \in Policy /\ q.persisted = p.persisted
      /\ q.ready = p.ready /\ q.initPending = p.initPending /\ p.faults \subseteq q.faults
      /\ p.pending \subseteq p.faults => q.pending \subseteq q.faults
      /\ Latched(v) \subseteq p.persisted \cup q.pending
  BY <1>2, NoticedFields
<1>4. Sound(f, q) /\ Kept(q, o)
  BY <1>3 DEF Sound, Kept
<1>5. \/ /\ ShouldPersist(q)
         /\ \E g \in Writes(f, Target(q)) :
              /\ flash' = g
              /\ policy' = IF g = Filled(Target(q)) THEN Saved(q, Target(q)) ELSE NotSaved(q)
              /\ unit' = Restored(v, policy'.persisted)
      \/ flash' = f /\ policy' = q /\ unit' = v
  BY DEF Reconcile
<1>6. Target(q) \in SUBSET Hps /\ Target(q) = q.persisted \cup q.pending
  BY <1>3 DEF Target, Policy
<1> HIDE DEF q, v
<1>7. CASE flash' = f /\ policy' = q /\ unit' = v
  <2>1. Follows(q, v)
    <3>1. q.persisted \cap Configured \subseteq Latched(v)
      BY <1>1, <1>3 DEF Latched
    <3> QED BY <1>3, <3>1 DEF Follows
  <2> QED BY <1>1, <1>3, <1>4, <1>7, <2>1
<1>8. ASSUME NEW g \in Writes(f, Target(q)), flash' = g, g = Filled(Target(q)),
             policy' = Saved(q, Target(q)), unit' = Restored(v, policy'.persisted)
      PROVE  /\ flash' \in Flash /\ policy' \in Policy /\ unit' \in Units
             /\ Sound(flash', policy') /\ Stored(flash', o) /\ Kept(policy', o)
             /\ Follows(policy', unit')
  <2>1. /\ policy'.persisted = Target(q) /\ policy'.pending = {} /\ policy'.faults = {}
        /\ policy'.ready /\ ~policy'.initPending
    BY <1>8 DEF Saved
  <2>2. policy' \in Policy
    BY <1>3, <1>6, <1>8, SavedType
  <2>3. /\ flash' \in Flash /\ AllOf(flash', "valid")
        /\ flash'.a.mask \cup flash'.b.mask = Target(q)
    BY <1>6, <1>8, FilledFacts
  <2>4. Sound(flash', policy')
    BY <2>1, <2>3 DEF Sound
  <2>5. o \subseteq Target(q)
    BY <1>4, <1>6 DEF Kept
  <2>6. Stored(flash', o) /\ Kept(policy', o)
    BY <2>1, <2>3, <2>5 DEF Stored, Kept
  <2>7. /\ unit' \in Units
        /\ \A h \in Configured : unit'[h].latched <=> v[h].latched \/ h \in Target(q)
    BY <1>1, <1>8, <2>1, RestoredUnits
  <2>8. Follows(policy', unit')
    <3>1. \A h \in Configured : v[h].latched => h \in Target(q)
      BY <1>3, <1>6 DEF Latched
    <3> QED BY <2>1, <2>7, <3>1 DEF Follows, Latched
  <2> QED BY <2>2, <2>3, <2>4, <2>6, <2>7, <2>8
<1>9. ASSUME NEW g \in Writes(f, Target(q)), flash' = g,
             policy' = NotSaved(q), unit' = Restored(v, policy'.persisted)
      PROVE  /\ flash' \in Flash /\ policy' \in Policy /\ unit' \in Units
             /\ Sound(flash', policy') /\ Stored(flash', o) /\ Kept(policy', o)
             /\ Follows(policy', unit')
  <2>1. /\ policy' \in Policy /\ policy'.persisted = q.persisted /\ policy'.pending = q.pending
        /\ policy'.ready = q.ready /\ policy'.initPending = q.initPending
        /\ q.faults \cup q.pending \subseteq policy'.faults
    BY <1>3, <1>9, NotSavedFields
  <2>2. g \in PartlyWritten(f, Target(q))
    BY <1>6, <1>9, WritesPartly
  <2>3. /\ flash' \in Flash
        /\ AllOf(f, "valid") => AllOf(flash', "valid")
        /\ \A h : h \in Target(q) /\ h \in f.a.mask \cup f.b.mask
                  => h \in flash'.a.mask \cup flash'.b.mask
        /\ \A h : h \notin Target(q) /\ h \notin f.a.mask \cup f.b.mask
                  => h \notin flash'.a.mask \cup flash'.b.mask
    BY <1>6, <1>9, <2>2, WrittenFacts
  <2>4. Sound(flash', policy')
    <3> SUFFICES ASSUME policy'.ready PROVE
          /\ AllOf(flash', "valid") /\ ~policy'.initPending
          /\ policy'.pending \subseteq policy'.faults
          /\ \A h \in Configured \ policy'.faults :
               h \in policy'.persisted <=> h \in flash'.a.mask \cup flash'.b.mask
      BY DEF Sound
    <3>1. /\ AllOf(f, "valid") /\ ~q.initPending
          /\ \A h \in Configured \ q.faults : h \in q.persisted <=> h \in f.a.mask \cup f.b.mask
      BY <1>4, <2>1 DEF Sound
    <3>2. ASSUME NEW h \in Configured \ policy'.faults
          PROVE  h \in q.persisted <=> h \in flash'.a.mask \cup flash'.b.mask
      <4>1. h \in Configured \ q.faults /\ h \notin q.pending
        BY <2>1, <3>2
      <4>2. h \in Target(q) <=> h \in q.persisted
        BY <1>6, <4>1
      <4> QED BY <2>3, <3>1, <4>1, <4>2
    <3> QED BY <2>1, <2>3, <3>1, <3>2
  <2>5. Stored(flash', o)
    <3>1. o \in SUBSET Target(q)
      BY <1>4, <1>6 DEF Kept
    <3> QED BY <1>6, <1>9, <2>2, <3>1, StoredWritten
  <2>6. Kept(policy', o)
    BY <1>4, <2>1 DEF Kept
  <2>7. /\ unit' \in Units
        /\ \A h \in Configured : unit'[h].latched <=> v[h].latched \/ h \in q.persisted
    BY <1>1, <1>9, <2>1, RestoredUnits
  <2>8. Follows(policy', unit')
    <3>1. \A h \in Configured : v[h].latched => h \in q.persisted \/ h \in q.pending
      BY <1>3 DEF Latched
    <3> QED BY <2>1, <2>7, <3>1 DEF Follows, Latched
  <2> QED BY <2>1, <2>3, <2>4, <2>5, <2>6, <2>7, <2>8
<1> QED BY <1>5, <1>7, <1>8, <1>9

(* setup(): what flash keeps, the policy and the engines keep.             *)
LEMMA BootedStep ==
  ASSUME NEW f \in Flash, NEW kept \in SUBSET Configured, Stored(f, kept), Booted(f, kept),
         works' \in BOOLEAN
  PROVE  IInv'
<1> DEFINE u == [h \in Configured |-> Quiet]
<1>1. u \in Units
  BY DEF Units, Quiet, Lock
<1>2. Load(f) \in Policy
  BY LoadType
<1>3. /\ Load(f).ready <=> AllOf(f, "valid")
      /\ Load(f).ready => /\ Load(f).persisted = f.a.mask \cup f.b.mask
                          /\ ~Load(f).initPending /\ Load(f).pending = {}
  BY DEF Load, LoadResult, LoadedMask, AllOf
<1>4. Sound(f, Load(f))
  BY <1>3 DEF Sound
<1>5. Kept(Load(f), kept)
  BY <1>3 DEF Kept, Stored
<1>6. Reconcile(f, Load(f), u)
  BY DEF Booted
<1> HIDE DEF u
<1>7. /\ flash' \in Flash /\ policy' \in Policy /\ unit' \in Units
      /\ Sound(flash', policy') /\ Stored(flash', kept) /\ Kept(policy', kept)
      /\ Follows(policy', unit')
  BY <1>1, <1>2, <1>4, <1>5, <1>6, ReconcileStep
<1>8. owed' = kept \cup Held(flash', policy')
  BY DEF Booted
<1>9. owed' \in SUBSET Configured /\ Stored(flash', owed') /\ Kept(policy', owed')
  BY <1>7, <1>8 DEF Held, Stored, Kept, Sound
<1>10. /\ count' \in [Configured -> 0 .. Snapshots] /\ baseline' \in SUBSET Configured
       /\ loaded' \in Loaded /\ shown' \in SUBSET Configured
  BY LatchAssumption DEF Booted, Loaded, LoadResult
<1> QED BY <1>7, <1>9, <1>10 DEF IInv, TypeOK, Units

LEMMA HandledStep ==
  ASSUME IInv, NEW p \in Policy, NEW u \in Units, Sound(flash, p), Kept(p, owed),
         NEW c \in [Configured -> 0 .. Snapshots], NEW b \in SUBSET Configured,
         NEW s \in SUBSET Configured, Handled(p, u, c, b, s), UNCHANGED works
  PROVE  IInv'
<1>0. flash \in Flash /\ owed \in SUBSET Configured /\ Stored(flash, owed) /\ works' \in BOOLEAN
  BY DEF IInv, TypeOK
<1>1. CASE /\ Reconcile(flash, p, u)
           /\ count' = c /\ baseline' = b /\ shown' = s /\ UNCHANGED loaded
           /\ owed' = owed \cup Held(flash', policy')
  <2>1. /\ flash' \in Flash /\ policy' \in Policy /\ unit' \in Units
        /\ Sound(flash', policy') /\ Stored(flash', owed) /\ Kept(policy', owed)
        /\ Follows(policy', unit')
    BY <1>0, <1>1, ReconcileStep
  <2>2. owed' \in SUBSET Configured /\ Stored(flash', owed') /\ Kept(policy', owed')
    BY <1>0, <1>1, <2>1 DEF Held, Stored, Kept, Sound
  <2> QED BY <1>0, <1>1, <2>1, <2>2 DEF IInv, TypeOK, Units
<1>2. ASSUME NEW f \in PartlyWritten(flash, Target(Noticed(p, Latched(Restored(u, p.persisted))))),
             Booted(f, owed)
      PROVE  IInv'
  <2> DEFINE q == Noticed(p, Latched(Restored(u, p.persisted)))
  <2>1. Latched(Restored(u, p.persisted)) \in SUBSET Configured
    BY DEF Latched
  <2>2. q \in Policy /\ q.persisted = p.persisted
    BY <2>1, NoticedFields
  <2> HIDE DEF q
  <2>3. Target(q) \in SUBSET Hps /\ owed \in SUBSET Target(q)
    BY <2>2 DEF Target, Policy, Kept
  <2>4. f \in PartlyWritten(flash, Target(q))
    BY <1>2 DEF q
  <2>5. f \in Flash /\ Stored(f, owed)
    BY <1>0, <2>3, <2>4, WrittenFacts, StoredWritten
  <2> QED BY <1>0, <1>2, <2>5, BootedStep
<1> QED BY <1>1, <1>2 DEF Handled

(* A confirmation takes its own lock out of what is kept, whatever becomes *)
(* of the write, and disturbs no other.                                    *)
LEMMA ConfirmFacts ==
  ASSUME IInv, NEW h \in Configured, Confirmable(h)
  PROVE  /\ Remaining(h) \in SUBSET Hps /\ owed \ {h} \in SUBSET Remaining(h)
         /\ owed \ {h} \in SUBSET Configured /\ Stored(flash, owed \ {h})
         /\ policy \in Policy /\ flash \in Flash /\ unit \in Units /\ policy.ready
         /\ Remaining(h) = (policy.persisted \cup policy.pending) \ {h}
BY DEF IInv, TypeOK, Confirmable, Remaining, Target, Kept, Stored, Policy, Units

LEMMA ConfirmFailsStep ==
  ASSUME IInv, NEW h \in Configured, ConfirmFails(h)
  PROVE  IInv'
<1>0. Confirmable(h)
  BY DEF ConfirmFails
<1>1. /\ policy' \in Policy /\ policy'.persisted = policy.persisted
      /\ policy'.pending = policy.pending /\ policy'.ready = policy.ready
      /\ policy'.initPending = policy.initPending /\ policy'.faults = policy.faults \cup {h}
  BY <1>0, ConfirmFacts, NotConfirmedFields DEF ConfirmFails
<1>2. flash' \in PartlyWritten(flash, Remaining(h))
  BY <1>0, ConfirmFacts, WritesPartly DEF ConfirmFails
<1>3. flash' \in Flash /\ Stored(flash', owed \ {h})
  BY <1>0, <1>2, ConfirmFacts, WrittenFacts, StoredWritten
<1>4. /\ AllOf(flash, "valid") => AllOf(flash', "valid")
      /\ \A g : g \in Remaining(h) /\ g \in flash.a.mask \cup flash.b.mask
                => g \in flash'.a.mask \cup flash'.b.mask
      /\ \A g : g \notin Remaining(h) /\ g \notin flash.a.mask \cup flash.b.mask
                => g \notin flash'.a.mask \cup flash'.b.mask
  <2>1. flash \in Flash /\ Remaining(h) \in SUBSET Hps
    BY <1>0, ConfirmFacts
  <2> HIDE DEF Remaining
  <2> QED BY <1>2, <2>1, WrittenFacts
<1>5. Sound(flash', policy')
  <2>1. /\ AllOf(flash, "valid") /\ ~policy.initPending /\ policy.pending \subseteq policy.faults
        /\ \A g \in Configured \ policy.faults :
             g \in policy.persisted <=> g \in flash.a.mask \cup flash.b.mask
    BY <1>0, ConfirmFacts DEF IInv, Sound
  <2>2. ASSUME NEW g \in Configured \ policy'.faults
        PROVE  g \in policy'.persisted <=> g \in flash'.a.mask \cup flash'.b.mask
    <3>1. g # h /\ g \in Configured \ policy.faults /\ g \notin policy.pending
      BY <1>1, <2>1, <2>2
    <3>2. g \in Remaining(h) <=> g \in policy.persisted
      BY <1>0, <3>1, ConfirmFacts
    <3> QED BY <1>1, <1>4, <2>1, <3>1, <3>2
  <2> QED BY <1>1, <1>4, <2>1, <2>2 DEF Sound
<1>6. owed' = owed \ {h} /\ UNCHANGED <<works, unit, boot>>
  BY DEF ConfirmFails
<1>7. Kept(policy', owed') /\ Follows(policy', unit')
  BY <1>1, <1>6 DEF IInv, Kept, Follows
<1>8. owed' \in SUBSET Configured
  BY <1>0, <1>6, ConfirmFacts
<1> QED BY <1>1, <1>3, <1>5, <1>6, <1>7, <1>8 DEF IInv, TypeOK, boot

LEMMA ConfirmSucceedsStep ==
  ASSUME IInv, NEW h \in Configured, ConfirmSucceeds(h)
  PROVE  IInv'
<1>0. Confirmable(h)
  BY DEF ConfirmSucceeds
<1> DEFINE m == Remaining(h)
<1>1. m \in SUBSET Hps /\ policy \in Policy /\ unit \in Units /\ owed \ {h} \in SUBSET m
  BY <1>0, ConfirmFacts
<1>2. /\ policy' \in Policy /\ policy'.persisted = m /\ policy'.pending = {}
      /\ policy'.faults = {} /\ policy'.ready /\ ~policy'.initPending
  <2>1. policy' = Saved(policy, m)
    BY DEF ConfirmSucceeds
  <2> QED BY <1>1, <2>1, SavedType DEF Saved
<1>3. /\ flash' \in Flash /\ AllOf(flash', "valid") /\ flash'.a.mask \cup flash'.b.mask = m
  BY <1>1, FilledFacts DEF ConfirmSucceeds
<1>4. Released(unit, h) \in Units
  BY <1>1 DEF Released, Units, Lock
<1>5. \A g \in Configured : Released(unit, h)[g].latched => g # h /\ unit[g].latched
  BY <1>1 DEF Released, Units, Lock
<1>6. /\ unit' \in Units
      /\ \A g \in Configured : unit'[g].latched <=> Released(unit, h)[g].latched \/ g \in m
  BY <1>4, RestoredUnits DEF ConfirmSucceeds
<1>7. Follows(policy', unit')
  <2>1. m \cap Configured \subseteq Latched(unit')
    BY <1>6 DEF Latched
  <2>2. ASSUME NEW g \in Configured, unit'[g].latched PROVE g \in m
    <3>1. CASE Released(unit, h)[g].latched
      <4>1. g # h /\ unit[g].latched
        BY <1>5, <3>1
      <4>2. g \in policy.persisted \cup policy.pending
        BY <4>1 DEF IInv, Follows, Latched
      <4> QED BY <1>0, <4>1, <4>2, ConfirmFacts
    <3> QED BY <1>6, <2>2, <3>1
  <2> QED BY <1>2, <2>1, <2>2 DEF Follows, Latched
<1>8. owed' = (owed \ {h}) \cup Held(flash', policy')
  BY DEF ConfirmSucceeds
<1>9. owed' \in SUBSET Configured /\ Stored(flash', owed') /\ Kept(policy', owed')
  BY <1>0, <1>1, <1>2, <1>3, <1>8, ConfirmFacts DEF Held, Stored, Kept
<1>10. Sound(flash', policy')
  BY <1>2, <1>3 DEF Sound
<1>11. /\ shown' \in SUBSET Configured
       /\ UNCHANGED <<works, count, baseline, loaded>>
  BY DEF ConfirmSucceeds, IInv, TypeOK
<1> HIDE DEF m
<1> QED BY <1>2, <1>3, <1>6, <1>7, <1>9, <1>10, <1>11 DEF IInv, TypeOK, Units

LEMMA ConfirmCutShortStep ==
  ASSUME IInv, NEW h \in Configured, ConfirmCutShort(h)
  PROVE  IInv'
<1>1. Confirmable(h) /\ UNCHANGED works
  BY DEF ConfirmCutShort
<1>2. PICK f \in PartlyWritten(flash, Remaining(h)) : Booted(f, owed \ {h})
  BY DEF ConfirmCutShort
<1>3. f \in Flash /\ Stored(f, owed \ {h}) /\ owed \ {h} \in SUBSET Configured
  BY <1>1, <1>2, ConfirmFacts, WrittenFacts, StoredWritten
<1>4. works' \in BOOLEAN
  BY <1>1 DEF IInv, TypeOK
<1> QED BY <1>2, <1>3, <1>4, BootedStep

-----------------------------------------------------------------------------
(* The handlers that end in a reconciliation.                              *)
LEMMA LoopStep ==
  ASSUME IInv, Loop
  PROVE  IInv'
<1>1. policy \in Policy /\ Sound(flash, policy) /\ Kept(policy, owed)
  BY DEF IInv, TypeOK
<1>2. Aged(policy) \in Policy /\ Sound(flash, Aged(policy)) /\ Kept(Aged(policy), owed)
  BY <1>1, AgedFields DEF Sound, Kept
<1>3. /\ unit \in Units /\ count \in [Configured -> 0 .. Snapshots]
      /\ baseline \in SUBSET Configured /\ shown \in SUBSET Configured
  BY DEF IInv, TypeOK, Units
<1> QED BY <1>2, <1>3, HandledStep DEF Loop

LEMMA CompleteSnapshotStep ==
  ASSUME IInv, NEW h \in Configured, NEW raw \in BOOLEAN, CompleteSnapshot(h, raw)
  PROVE  IInv'
<1> DEFINE one == IF raw /\ policy.initPending THEN {h} ELSE {}
           c   == [count EXCEPT ![h] = IF @ < Snapshots THEN @ + 1 ELSE @]
           all == \A g \in Configured : c[g] = Snapshots
           p   == IF all THEN BaselineObserved(policy, baseline \cup one) ELSE policy
           u   == [unit EXCEPT ![h] = Read(@, raw)]
<1>1. /\ policy \in Policy /\ Sound(flash, policy) /\ Kept(policy, owed) /\ unit \in Units
      /\ count \in [Configured -> 0 .. Snapshots]
  BY DEF IInv, TypeOK, Units
<1>2. one \in SUBSET Configured /\ baseline \cup one \in SUBSET Configured /\ shown \cup one \in SUBSET Configured
  BY DEF IInv, TypeOK
<1>3. c \in [Configured -> 0 .. Snapshots]
  BY <1>1, LatchAssumption
<1>4. u \in Units
  BY <1>1, ReadUnits
<1>5. Handled(p, u, c, baseline \cup one, shown \cup one) /\ UNCHANGED works
  BY DEF CompleteSnapshot
<1> HIDE DEF one, c, all, u
<1>6. p \in Policy /\ Sound(flash, p) /\ Kept(p, owed)
  <2> DEFINE b == BaselineObserved(policy, baseline \cup one)
  <2>1. /\ b \in Policy /\ b.persisted = policy.persisted /\ b.ready = policy.ready
        /\ ~policy.initPending => b = policy
    BY <1>1, <1>2, BaselineFields
  <2> HIDE DEF b
  <2>2. Sound(flash, b) /\ Kept(b, owed)
    <3>1. CASE policy.ready
      BY <1>1, <2>1, <3>1 DEF Sound
    <3>2. CASE ~policy.ready
      BY <1>1, <2>1, <3>2 DEF Sound, Kept
    <3> QED BY <3>1, <3>2
  <2> QED BY <1>1, <2>1, <2>2 DEF b
<1> HIDE DEF p
<1> QED BY <1>2, <1>3, <1>4, <1>5, <1>6, HandledStep

LEMMA PartialSnapshotStep ==
  ASSUME IInv, NEW h \in Configured, NEW raw \in BOOLEAN, PartialSnapshot(h, raw)
  PROVE  IInv'
<1>1. policy \in Policy /\ Sound(flash, policy) /\ Kept(policy, owed) /\ unit \in Units
  BY DEF IInv, TypeOK, Units
<1>2. [unit EXCEPT ![h] = Read(@, raw)] \in Units
  BY <1>1, ReadUnits
<1>3. /\ count \in [Configured -> 0 .. Snapshots]
      /\ baseline \in SUBSET Configured /\ shown \in SUBSET Configured
  BY DEF IInv, TypeOK
<1> QED BY <1>1, <1>2, <1>3, HandledStep DEF PartialSnapshot

LEMMA ResetStep ==
  ASSUME IInv, Reset
  PROVE  IInv'
<1>1. flash \in Flash /\ owed \in SUBSET Configured /\ Stored(flash, owed) /\ works' \in BOOLEAN
  BY DEF IInv, TypeOK, Reset
<1> QED BY <1>1, BootedStep DEF Reset

LEMMA FlashTurnsStep ==
  ASSUME IInv, FlashTurns
  PROVE  IInv'
<1>1. works' \in BOOLEAN
  BY DEF FlashTurns
<1>2. UNCHANGED <<flash, policy, unit, count, baseline, loaded, shown, owed>>
  BY DEF FlashTurns, boot
<1> QED BY <1>1, <1>2 DEF IInv, TypeOK, Sound, Stored, Kept, Follows, Latched, AllOf

LEMMA InitStep ==
  ASSUME Init
  PROVE  IInv
<1> DEFINE u == [h \in Configured |-> Quiet]
<1>1. u \in Units
  BY DEF Units, Quiet, Lock
<1>2. flash \in Flash
  BY DEF Init, Flash, Slot
<1>3. policy = Load(flash) /\ policy \in Policy
  BY <1>2, LoadType DEF Init
<1>4. /\ policy.ready <=> AllOf(flash, "valid")
      /\ policy.ready => /\ policy.persisted = flash.a.mask \cup flash.b.mask
                         /\ ~policy.initPending /\ policy.pending = {}
  BY <1>3 DEF Load, LoadResult, LoadedMask, AllOf
<1>5. Sound(flash, policy)
  BY <1>4 DEF Sound
<1>6. unit = Restored(u, policy.persisted)
  BY DEF Init
<1>7. \A h \in Configured : ~u[h].latched
  BY DEF Quiet
<1> HIDE DEF u
<1>8. /\ unit \in Units
      /\ \A h \in Configured : unit[h].latched <=> h \in policy.persisted
  BY <1>1, <1>6, <1>7, RestoredUnits
<1>9. Follows(policy, unit)
  BY <1>8 DEF Follows, Latched
<1>10. owed = Held(flash, policy)
  BY DEF Init
<1>11. owed \in SUBSET Configured /\ Stored(flash, owed) /\ Kept(policy, owed)
  BY <1>4, <1>10 DEF Held, Stored, Kept
<1>12. /\ works \in BOOLEAN /\ count \in [Configured -> 0 .. Snapshots]
       /\ baseline \in SUBSET Configured /\ shown \in SUBSET Configured /\ loaded \in Loaded
  BY LatchAssumption DEF Init, Loaded, LoadResult
<1> QED BY <1>2, <1>3, <1>5, <1>8, <1>9, <1>11, <1>12 DEF IInv, TypeOK, Units

LEMMA NextStep ==
  ASSUME IInv, [Next]_vars
  PROVE  IInv'
<1>1. CASE Loop
  BY <1>1, LoopStep
<1>2. CASE Reset
  BY <1>2, ResetStep
<1>3. CASE FlashTurns
  BY <1>3, FlashTurnsStep
<1>4. ASSUME NEW h \in Configured, NEW raw \in BOOLEAN, CompleteSnapshot(h, raw) PROVE IInv'
  BY <1>4, CompleteSnapshotStep
<1>5. ASSUME NEW h \in Configured, NEW raw \in BOOLEAN, PartialSnapshot(h, raw) PROVE IInv'
  BY <1>5, PartialSnapshotStep
<1>6. ASSUME NEW h \in Configured, ConfirmFails(h) PROVE IInv'
  BY <1>6, ConfirmFailsStep
<1>7. ASSUME NEW h \in Configured, ConfirmSucceeds(h) PROVE IInv'
  BY <1>7, ConfirmSucceedsStep
<1>8. ASSUME NEW h \in Configured, ConfirmCutShort(h) PROVE IInv'
  BY <1>8, ConfirmCutShortStep
<1>9. CASE UNCHANGED vars
  BY <1>9 DEF vars, boot, IInv, TypeOK, Sound, Stored, Kept, Follows, Latched, AllOf
<1> QED BY <1>1, <1>2, <1>3, <1>4, <1>5, <1>6, <1>7, <1>8, <1>9 DEF Next

LEMMA Inductive == Spec => []IInv
<1>1. Init => IInv
  BY InitStep
<1>2. IInv /\ [Next]_vars => IInv'
  BY NextStep
<1> QED BY <1>1, <1>2, PTL DEF Spec

-----------------------------------------------------------------------------
(* The latch, its copies in flash and the baseline stay within their types. *)
THEOREM LatchTypeCorrect == Spec => []TypeOK
<1>1. IInv => TypeOK
  BY DEF IInv
<1> QED BY <1>1, Inductive, PTL

(* A lock that was saved holds its heat pump until its power cycle is      *)
(* confirmed, through resets in the middle of a write, failed writes and   *)
(* repairs of the copies.                                                  *)
THEOREM SavedLocksSurvive == Spec => []SavedLockSurvives
<1>1. IInv => SavedLockSurvives
  BY DEF IInv, TypeOK, SavedLockSurvives, Kept, Follows
<1> QED BY <1>1, Inductive, PTL

(* Without a reported persistence fault, flash would restore exactly what  *)
(* the engine of the heat pump holds.                                      *)
THEOREM FaultFreeDurable == Spec => []FaultFreeIsDurable
<1>1. ASSUME IInv, NEW h \in Configured, h \notin FaultMask(policy)
      PROVE  h \in LoadedMask(flash) <=> unit[h].latched
  <2>1. policy.ready /\ h \notin policy.faults
    BY <1>1 DEF FaultMask
  <2>2. /\ AllOf(flash, "valid") /\ h \notin policy.pending
        /\ h \in policy.persisted <=> h \in flash.a.mask \cup flash.b.mask
    BY <1>1, <2>1 DEF IInv, Sound
  <2>3. LoadedMask(flash) = flash.a.mask \cup flash.b.mask
    BY <2>2 DEF LoadedMask, LoadResult
  <2>4. h \in policy.persisted <=> unit[h].latched
    BY <1>1, <2>2 DEF IInv, Follows, Latched
  <2> QED BY <2>2, <2>3, <2>4
<1>2. IInv => FaultFreeIsDurable
  BY <1>1 DEF FaultFreeIsDurable
<1> QED BY <1>2, Inductive, PTL
-----------------------------------------------------------------------------
(* What a first install has come to.  The baseline holds every lock shown  *)
(* so far; once it is observed every heat pump has given its snapshots and *)
(* the policy is to save these locks; once it is saved the engines hold    *)
(* them.                                                                   *)
Founded(l, p, u, c, b, s) ==
  l = "initialize" =>
    /\ p.ready \/ p.initPending
    /\ p.ready \/ s \subseteq b
    /\ p.ready \/ p.initObserved => \A h \in Configured : c[h] = Snapshots
    /\ p.initPending /\ p.initObserved => s \subseteq p.persisted \cup p.pending
    /\ p.ready => s \subseteq Latched(u)

FInv == IInv /\ Founded(loaded, policy, unit, count, baseline, shown)

LEMMA ObservedFields ==
  ASSUME NEW p \in Policy, NEW locks \in SUBSET Configured
  PROVE  /\ Noticed(p, locks).initObserved = p.initObserved
         /\ p.pending \subseteq Noticed(p, locks).pending
         /\ NotSaved(p).initObserved = p.initObserved
         /\ Aged(p).initObserved = p.initObserved
         /\ p.initPending => /\ BaselineObserved(p, locks).initObserved
                             /\ BaselineObserved(p, locks).pending = p.pending \cup locks
<1>1. Noticed(p, locks).initObserved = p.initObserved /\ p.pending \subseteq Noticed(p, locks).pending
  <2> DEFINE new == locks \ (p.persisted \cup p.pending)
  <2>1. CASE new = {}
    BY <2>1 DEF Noticed
  <2>2. CASE new # {}
    <3>1. Noticed(p, locks) = [p EXCEPT !.pending = @ \cup (locks \ p.persisted),
                                        !.faults = @ \cup new,
                                        !.attempted = FALSE, !.age = 0]
      BY <2>2 DEF Noticed
    <3> HIDE DEF new
    <3> QED BY <3>1 DEF Policy
  <2> QED BY <2>1, <2>2
<1>2. NotSaved(p).initObserved = p.initObserved
  <2> DEFINE more == IF ~p.ready \/ p.initPending THEN Configured ELSE {}
  <2>1. NotSaved(p) = [p EXCEPT !.faults = @ \cup p.pending \cup more, !.attempted = TRUE, !.age = 0]
    BY DEF NotSaved
  <2> HIDE DEF more
  <2> QED BY <2>1 DEF Policy
<1>3. Aged(p).initObserved = p.initObserved
  BY DEF Aged, Policy
<1>4. p.initPending => /\ BaselineObserved(p, locks).initObserved
                      /\ BaselineObserved(p, locks).pending = p.pending \cup locks
  BY DEF BaselineObserved, Policy
<1> QED BY <1>1, <1>2, <1>3, <1>4

(* A reconciliation takes a baseline that is observed to one that is saved *)
(* and held, or leaves it as it was.                                       *)
LEMMA ReconcileFounded ==
  ASSUME NEW f \in Flash, NEW p \in Policy, NEW u \in Units, Sound(f, p),
         NEW l, NEW c, NEW b, NEW s \in SUBSET Configured, Founded(l, p, u, c, b, s),
         Reconcile(f, p, u)
  PROVE  Founded(l, policy', unit', c, b, s)
<1> DEFINE v == Restored(u, p.persisted)
           q == Noticed(p, Latched(v))
<1>1. /\ v \in Units
      /\ \A h \in Configured : v[h].latched <=> u[h].latched \/ h \in p.persisted
  BY RestoredUnits
<1>2. Latched(v) \in SUBSET Configured /\ Latched(u) \subseteq Latched(v)
  BY <1>1 DEF Latched
<1>3. /\ q \in Policy /\ q.persisted = p.persisted
      /\ q.ready = p.ready /\ q.initPending = p.initPending
      /\ q.initObserved = p.initObserved /\ p.pending \subseteq q.pending
  BY <1>2, NoticedFields, ObservedFields
<1>4. Founded(l, q, v, c, b, s)
  BY <1>2, <1>3 DEF Founded
<1>5. \/ /\ ShouldPersist(q)
         /\ \E g \in Writes(f, Target(q)) :
              /\ flash' = g
              /\ policy' = IF g = Filled(Target(q)) THEN Saved(q, Target(q)) ELSE NotSaved(q)
              /\ unit' = Restored(v, policy'.persisted)
      \/ flash' = f /\ policy' = q /\ unit' = v
  BY DEF Reconcile
<1>6. Target(q) = q.persisted \cup q.pending
  BY DEF Target
<1>7. p.ready => ~p.initPending
  BY DEF Sound
<1> HIDE DEF q, v
<1>8. CASE flash' = f /\ policy' = q /\ unit' = v
  BY <1>4, <1>8
<1>9. ASSUME ShouldPersist(q), policy' = Saved(q, Target(q)), unit' = Restored(v, policy'.persisted)
      PROVE  Founded(l, policy', unit', c, b, s)
  <2>1. policy'.persisted = Target(q) /\ policy'.ready /\ ~policy'.initPending
    BY <1>9 DEF Saved
  <2>2. \A h \in Configured : unit'[h].latched <=> v[h].latched \/ h \in Target(q)
    BY <1>1, <1>9, <2>1, RestoredUnits
  <2> SUFFICES ASSUME l = "initialize"
               PROVE  s \subseteq Latched(unit') /\ \A h \in Configured : c[h] = Snapshots
    BY <2>1 DEF Founded
  <2>3. CASE q.ready
    BY <1>4, <2>2, <2>3 DEF Founded, Latched
  <2>4. CASE ~q.ready
    <3>1. q.initPending /\ q.initObserved
      BY <1>4, <1>9, <2>4 DEF Founded, ShouldPersist
    <3> QED BY <1>4, <1>6, <2>2, <3>1 DEF Founded, Latched
  <2> QED BY <2>3, <2>4
<1>10. ASSUME policy' = NotSaved(q), unit' = Restored(v, policy'.persisted)
       PROVE  Founded(l, policy', unit', c, b, s)
  <2>1. /\ policy'.persisted = q.persisted /\ policy'.pending = q.pending
        /\ policy'.ready = q.ready /\ policy'.initPending = q.initPending
        /\ policy'.initObserved = q.initObserved
    BY <1>3, <1>10, NotSavedFields, ObservedFields
  <2>2. \A h \in Configured : unit'[h].latched <=> v[h].latched \/ h \in q.persisted
    BY <1>1, <1>10, <2>1, RestoredUnits
  <2>3. Latched(v) \subseteq Latched(unit')
    BY <2>2 DEF Latched
  <2> QED BY <1>4, <2>1, <2>3 DEF Founded
<1> QED BY <1>5, <1>8, <1>9, <1>10

LEMMA BootedFounded ==
  ASSUME NEW f \in Flash, NEW kept, Booted(f, kept)
  PROVE  Founded(loaded', policy', unit', count', baseline', shown')
<1> DEFINE u == [h \in Configured |-> Quiet]
           c == [h \in Configured |-> 0]
<1>1. u \in Units /\ Load(f) \in Policy
  BY LoadType DEF Units, Quiet, Lock
<1>2. Sound(f, Load(f)) /\ Founded(LoadResult(f), Load(f), u, c, {}, {})
  BY DEF Sound, Founded, Load, LoadResult, LoadedMask, AllOf
<1>3. Reconcile(f, Load(f), u) /\ loaded' = LoadResult(f) /\ count' = c /\ baseline' = {} /\ shown' = {}
  BY DEF Booted
<1> HIDE DEF u, c
<1>4. Founded(LoadResult(f), policy', unit', c, {}, {})
  BY <1>1, <1>2, <1>3, ReconcileFounded
<1> QED BY <1>3, <1>4

LEMMA HandledFounded ==
  ASSUME IInv, NEW p \in Policy, NEW u \in Units, Sound(flash, p),
         NEW c, NEW b, NEW s \in SUBSET Configured,
         Founded(loaded, p, u, c, b, s), Handled(p, u, c, b, s)
  PROVE  Founded(loaded', policy', unit', count', baseline', shown')
<1>0. flash \in Flash
  BY DEF IInv, TypeOK
<1>1. CASE /\ Reconcile(flash, p, u)
           /\ count' = c /\ baseline' = b /\ shown' = s /\ UNCHANGED loaded
  <2>1. Founded(loaded, policy', unit', c, b, s)
    BY <1>0, <1>1, ReconcileFounded
  <2> QED BY <1>1, <2>1
<1>2. ASSUME NEW f \in PartlyWritten(flash, Target(Noticed(p, Latched(Restored(u, p.persisted))))),
             Booted(f, owed)
      PROVE  Founded(loaded', policy', unit', count', baseline', shown')
  <2> DEFINE q == Noticed(p, Latched(Restored(u, p.persisted)))
  <2>1. Latched(Restored(u, p.persisted)) \in SUBSET Configured
    BY DEF Latched
  <2>2. q \in Policy
    BY <2>1, NoticedFields
  <2>3. f \in PartlyWritten(flash, Target(q))
    BY <1>2
  <2> HIDE DEF q
  <2>4. Target(q) \in SUBSET Hps
    BY <2>2 DEF Target, Policy
  <2>5. f \in Flash
    BY <1>0, <2>3, <2>4, WrittenFacts
  <2> QED BY <1>2, <2>5, BootedFounded
<1> QED BY <1>1, <1>2 DEF Handled

LEMMA ReadKeepsLatched ==
  ASSUME NEW u \in Units, NEW h \in Configured, NEW raw \in BOOLEAN
  PROVE  Latched(u) \subseteq Latched([u EXCEPT ![h] = Read(@, raw)])
<1>1. u[h].latched => Read(u[h], raw).latched
  BY DEF Read, Tripping, Clearing, Units, Lock
<1> QED BY <1>1 DEF Latched, Units

LEMMA CompleteSnapshotFounded ==
  ASSUME FInv, NEW h \in Configured, NEW raw \in BOOLEAN, CompleteSnapshot(h, raw)
  PROVE  Founded(loaded', policy', unit', count', baseline', shown')
<1> DEFINE one == IF raw /\ policy.initPending THEN {h} ELSE {}
           c   == [count EXCEPT ![h] = IF @ < Snapshots THEN @ + 1 ELSE @]
           all == \A g \in Configured : c[g] = Snapshots
           p   == IF all THEN BaselineObserved(policy, baseline \cup one) ELSE policy
           u   == [unit EXCEPT ![h] = Read(@, raw)]
<1>1. /\ policy \in Policy /\ Sound(flash, policy) /\ unit \in Units /\ IInv
      /\ count \in [Configured -> 0 .. Snapshots]
      /\ Founded(loaded, policy, unit, count, baseline, shown)
  BY DEF FInv, IInv, TypeOK, Units
<1>2. /\ baseline \cup one \in SUBSET Configured /\ shown \cup one \in SUBSET Configured
      /\ ~policy.initPending => one = {}
  BY DEF FInv, IInv, TypeOK
<1>3. (\A g \in Configured : count[g] = Snapshots) => all
  BY <1>1, LatchAssumption
<1>4. u \in Units /\ Latched(unit) \subseteq Latched(u)
  BY <1>1, ReadUnits, ReadKeepsLatched
<1>5. Handled(p, u, c, baseline \cup one, shown \cup one)
  BY DEF CompleteSnapshot
<1>6. /\ p \in Policy /\ p.persisted = policy.persisted /\ p.ready = policy.ready
      /\ p.initPending = policy.initPending
      /\ ~policy.initPending => p = policy
  BY <1>1, <1>2, BaselineFields
<1>7. /\ ~all => p = policy
      /\ all /\ policy.initPending =>
           /\ p.initObserved
           /\ p.pending = policy.pending \cup baseline \cup one
  BY <1>1, <1>2, ObservedFields
<1> HIDE DEF one, c, u, p
<1>8. all => \A g \in Configured : c[g] = Snapshots
  OBVIOUS
<1> HIDE DEF all
<1>9. policy.ready => ~policy.initPending
  BY <1>1 DEF Sound
<1>10. Sound(flash, p)
  <2>1. CASE policy.ready
    <3>1. p = policy
      BY <1>6, <1>9, <2>1
    <3> QED BY <1>1, <3>1
  <2>2. CASE ~policy.ready
    BY <1>6, <2>2 DEF Sound
  <2> QED BY <2>1, <2>2
<1>11. Founded(loaded, p, u, c, baseline \cup one, shown \cup one)
  <2> SUFFICES ASSUME loaded = "initialize"
               PROVE  /\ p.ready \/ p.initPending
                      /\ p.ready \/ shown \cup one \subseteq baseline \cup one
                      /\ p.ready \/ p.initObserved => \A g \in Configured : c[g] = Snapshots
                      /\ p.initPending /\ p.initObserved =>
                           shown \cup one \subseteq p.persisted \cup p.pending
                      /\ p.ready => shown \cup one \subseteq Latched(u)
    BY DEF Founded
  <2>1. /\ policy.ready \/ policy.initPending
        /\ policy.ready \/ shown \subseteq baseline
        /\ policy.ready \/ policy.initObserved => all
        /\ policy.ready => shown \subseteq Latched(unit)
    BY <1>1, <1>3 DEF Founded
  <2>2. CASE policy.ready
    <3>1. p.ready /\ ~p.initPending /\ one = {} /\ all
      BY <1>2, <1>6, <1>9, <2>1, <2>2
    <3>2. shown \cup one \subseteq Latched(u)
      BY <1>4, <2>1, <2>2, <3>1
    <3> QED BY <1>8, <3>1, <3>2
  <2>3. CASE ~policy.ready /\ all
    <3>1. ~p.ready /\ p.initPending /\ shown \subseteq baseline
      BY <1>6, <2>1, <2>3
    <3>2. p.pending = policy.pending \cup baseline \cup one
      BY <1>6, <1>7, <2>3, <3>1
    <3> QED BY <1>8, <2>3, <3>1, <3>2
  <2>4. CASE ~policy.ready /\ ~all
    BY <1>6, <1>7, <2>1, <2>4
  <2> QED BY <2>2, <2>3, <2>4
<1> QED BY <1>1, <1>2, <1>4, <1>5, <1>6, <1>10, <1>11, HandledFounded

LEMMA ConfirmSucceedsFounded ==
  ASSUME FInv, NEW h \in Configured, ConfirmSucceeds(h)
  PROVE  Founded(loaded', policy', unit', count', baseline', shown')
<1> DEFINE m == Remaining(h)
<1>1. m \in SUBSET Hps /\ unit \in Units /\ policy.ready
  BY ConfirmFacts DEF FInv, ConfirmSucceeds
<1>2. policy'.persisted = m /\ policy'.ready /\ ~policy'.initPending
  BY DEF ConfirmSucceeds, Saved
<1>3. Released(unit, h) \in Units
  BY <1>1 DEF Released, Units, Lock
<1>4. \A g \in Configured : g # h => Released(unit, h)[g] = unit[g]
  BY <1>1 DEF Released, Units
<1>5. \A g \in Configured : g # h /\ unit[g].latched => unit'[g].latched
  BY <1>3, <1>4, RestoredUnits DEF ConfirmSucceeds
<1>6. shown' = shown \ {h} /\ UNCHANGED <<count, loaded>> /\ shown \subseteq Configured
  BY DEF ConfirmSucceeds, FInv, IInv, TypeOK
<1> HIDE DEF m
<1> QED BY <1>1, <1>2, <1>5, <1>6 DEF FInv, Founded, Latched

LEMMA FoundedStep ==
  ASSUME FInv, [Next]_vars
  PROVE  Founded(loaded', policy', unit', count', baseline', shown')
<1>0. /\ IInv /\ policy \in Policy /\ Sound(flash, policy) /\ unit \in Units /\ flash \in Flash
      /\ shown \in SUBSET Configured /\ Founded(loaded, policy, unit, count, baseline, shown)
  BY DEF FInv, IInv, TypeOK, Units
<1>1. CASE Loop
  <2>1. /\ Aged(policy) \in Policy /\ Sound(flash, Aged(policy))
        /\ Founded(loaded, Aged(policy), unit, count, baseline, shown)
    <3>1. {} \in SUBSET Configured
      OBVIOUS
    <3>2. Aged(policy).initObserved = policy.initObserved
      BY <1>0, <3>1, ObservedFields
    <3> QED BY <1>0, <3>2, AgedFields DEF Sound, Founded
  <2> QED BY <1>0, <1>1, <2>1, HandledFounded DEF Loop
<1>2. CASE Reset
  BY <1>0, <1>2, BootedFounded DEF Reset
<1>3. CASE FlashTurns
  BY <1>0, <1>3 DEF FlashTurns, boot
<1>4. ASSUME NEW h \in Configured, NEW raw \in BOOLEAN, CompleteSnapshot(h, raw)
      PROVE  Founded(loaded', policy', unit', count', baseline', shown')
  BY <1>4, CompleteSnapshotFounded
<1>5. ASSUME NEW h \in Configured, NEW raw \in BOOLEAN, PartialSnapshot(h, raw)
      PROVE  Founded(loaded', policy', unit', count', baseline', shown')
  <2> DEFINE u == [unit EXCEPT ![h] = Read(@, raw)]
  <2>1. u \in Units /\ Latched(unit) \subseteq Latched(u)
    BY <1>0, ReadUnits, ReadKeepsLatched
  <2>2. Handled(policy, u, count, baseline, shown)
    BY <1>5 DEF PartialSnapshot
  <2> HIDE DEF u
  <2>3. Founded(loaded, policy, u, count, baseline, shown)
    BY <1>0, <2>1 DEF Founded
  <2> QED BY <1>0, <2>1, <2>2, <2>3, HandledFounded
<1>6. ASSUME NEW h \in Configured, ConfirmFails(h)
      PROVE  Founded(loaded', policy', unit', count', baseline', shown')
  <2>1. {} \in SUBSET Configured /\ policy.ready /\ ~policy.initPending
    BY <1>0, <1>6 DEF ConfirmFails, Confirmable, Sound
  <2>2. /\ policy'.persisted = policy.persisted /\ policy'.pending = policy.pending
        /\ policy'.ready = policy.ready /\ policy'.initPending = policy.initPending
    BY <1>0, <1>6, NotConfirmedFields DEF ConfirmFails
  <2>3. UNCHANGED <<unit, count, baseline, loaded, shown>>
    BY <1>6 DEF ConfirmFails, boot
  <2> QED BY <1>0, <2>1, <2>2, <2>3 DEF Founded
<1>7. ASSUME NEW h \in Configured, ConfirmSucceeds(h)
      PROVE  Founded(loaded', policy', unit', count', baseline', shown')
  BY <1>7, ConfirmSucceedsFounded
<1>8. ASSUME NEW h \in Configured, ConfirmCutShort(h)
      PROVE  Founded(loaded', policy', unit', count', baseline', shown')
  <2>1. Confirmable(h)
    BY <1>8 DEF ConfirmCutShort
  <2>2. PICK f \in PartlyWritten(flash, Remaining(h)) : Booted(f, owed \ {h})
    BY <1>8 DEF ConfirmCutShort
  <2>3. f \in Flash
    BY <1>0, <2>1, <2>2, ConfirmFacts, WrittenFacts
  <2> QED BY <2>2, <2>3, BootedFounded
<1>9. CASE UNCHANGED vars
  BY <1>0, <1>9 DEF vars, boot
<1> QED BY <1>1, <1>2, <1>3, <1>4, <1>5, <1>6, <1>7, <1>8, <1>9 DEF Next

(* After a first install or an upgrade no heat pump is let go before every *)
(* one gave its snapshots, and a lock shown in any of these is then held,  *)
(* whatever fails or is cut short while the baseline is made.              *)
THEOREM BaselineComesFirst == Spec => []BaselineFirst
<1>1. Init => FInv
  <2> SUFFICES ASSUME Init PROVE Founded(loaded, policy, unit, count, baseline, shown)
    BY InitStep DEF FInv
  <2>1. policy = Load(flash) /\ loaded = LoadResult(flash) /\ shown = {}
    BY DEF Init
  <2> QED BY <2>1 DEF Founded, Load
<1>2. FInv /\ [Next]_vars => FInv'
  BY NextStep, FoundedStep DEF FInv
<1>3. FInv => BaselineFirst
  BY DEF FInv, Founded, BaselineFirst
<1> QED BY <1>1, <1>2, <1>3, PTL DEF Spec

-----------------------------------------------------------------------------
(***************************************************************************)
(* Part 2: BootResume                                                      *)
(***************************************************************************)
Spent == spoiled => resume.phase # "ACQUIRING"

\* As long as the counter has not wrapped it is the uptime.
InOneCount == now = uptime

Turning == /\ odu["run"] > 0 => idle = 0
           /\ Reads("run") => idle <= sample["run"].age

\* Without power since cut: every register is at zero, and what was read of the
\* mode and of the compressor as good is older than that.
Dead == /\ \A r \in Reg : odu[r] = 0
        /\ Reads("run") => cut <= sample["run"].age

Unwritten == Pending(resume) =>
               \/ Dead
               \/ \A r \in Command : Reads(r) => odu[r] = sample[r].value

ResumeInv == ResumeTypeOK /\ InOneCount /\ Turning /\ Unwritten

(* --------------------------------- types -------------------------------- *)
LEMMA ClockType == ASSUME ResumeTypeOK PROVE now + 1 # Wrap => now + 1 \in Clock
BY ResumeAssumption DEF ResumeTypeOK, Clock

LEMMA UpdatedType ==
  ASSUME ResumeTypeOK, NEW a \in BOOLEAN, NEW s \in BOOLEAN, NEW w \in BOOLEAN
  PROVE Updated(resume, a, s, w) \in ResumePolicy
<1> DEFINE p == resume
<1>1. p \in ResumePolicy /\ now \in Clock
  BY DEF ResumeTypeOK
<1>2. Cancelled(p) \in ResumePolicy
  BY <1>1 DEF Cancelled, ResumePolicy, Phase
<1>3. [p EXCEPT !.safetySeen = TRUE, !.phase = "RESUMED", !.resumed = now] \in ResumePolicy
  BY <1>1 DEF ResumePolicy, Phase
<1>4. \A b \in BOOLEAN : [p EXCEPT !.safetySeen = @ \/ b] \in ResumePolicy
  BY <1>1 DEF ResumePolicy
<1>5. (s /\ ReadbackReady) \in BOOLEAN
  OBVIOUS
<1> QED
  BY <1>1, <1>2, <1>3, <1>4, <1>5 DEF Updated

LEMMA SampleType ==
  ASSUME ResumeTypeOK, NEW r \in Reg
  PROVE /\ sample[r] \in Sample(r)
        /\ sample[r].fresh => sample[r].age \in 0 .. MaxAge(r) /\ sample[r].value \in Says(r)
        /\ MaxAge(r) \in Nat
<1>1. sample[r] \in Sample(r)
  BY DEF ResumeTypeOK, Samples
<1>2. MaxAge(r) \in Nat
  BY ResumeAssumption DEF MaxAge
<1>3. ~Stale.fresh
  BY DEF Stale
<1>4. sample[r].fresh => sample[r] \in [fresh : {TRUE}, age : 0 .. MaxAge(r), value : Says(r)]
  BY <1>1, <1>3 DEF Sample
<1> QED
  BY <1>1, <1>2, <1>4

LEMMA SamplesType ==
  ASSUME NEW s, s = [r \in Reg |-> s[r]], \A r \in Reg : s[r] \in Sample(r)
  PROVE s \in Samples
BY DEF Samples

LEMMA ZeroSays == \A r \in Reg : 0 \in Says(r) /\ 1 \in {0, 1}
BY ResumeAssumption DEF Says, Value

LEMMA AgedType == ASSUME ResumeTypeOK, NEW r \in Reg PROVE AgedSample(r) \in Sample(r)
<1>1. CASE sample[r].fresh /\ sample[r].age < MaxAge(r)
  <2>1. sample[r] \in [fresh : {TRUE}, age : 0 .. MaxAge(r), value : Says(r)]
    BY <1>1, SampleType DEF Sample, Stale
  <2>2. sample[r].age + 1 \in 0 .. MaxAge(r)
    BY <1>1, SampleType
  <2>3. [sample[r] EXCEPT !.age = @ + 1] \in [fresh : {TRUE}, age : 0 .. MaxAge(r), value : Says(r)]
    BY <2>1, <2>2
  <2> QED
    BY <1>1, <2>3 DEF AgedSample, Sample
<1>2. CASE ~(sample[r].fresh /\ sample[r].age < MaxAge(r))
  BY <1>2 DEF AgedSample, Sample
<1> QED
  BY <1>1, <1>2

LEMMA CommandedType ==
  ASSUME ResumeTypeOK, NEW level \in Value, NEW arrived \in SUBSET Command
  PROVE Commanded(level, arrived) \in Registers
<1>1. \A r \in Reg : Commanded(level, arrived)[r] \in Says(r) /\ Commanded(level, arrived)[r] \in Value
  BY ResumeAssumption DEF Commanded, ResumeTypeOK, Registers, Says, Value, Reg
<1>2. Commanded(level, arrived) = [r \in Reg |-> Commanded(level, arrived)[r]]
  BY DEF Commanded
<1> QED
  BY <1>1, <1>2 DEF Registers

LEMMA LevelType == ASSUME ResumeTypeOK PROVE ReadbackReady => Level \in Value
BY SampleType DEF Level, ReadbackReady, Reads, Says, Reg

LEMMA ResumedReady ==
  ASSUME ResumeTypeOK, NEW a \in BOOLEAN, NEW s \in BOOLEAN, NEW w \in BOOLEAN,
         Adopted(Updated(resume, a, s, w))
  PROVE ReadbackReady /\ Pending(resume)
<1>1. resume \in ResumePolicy
  BY DEF ResumeTypeOK
<1>2. resume.phase = "ACQUIRING"
  BY DEF Adopted
<1>3. Cancelled(resume).phase = "STOP_REQUIRED"
  BY <1>1, <1>2 DEF Cancelled, ResumePolicy
<1>4. \A b : [resume EXCEPT !.safetySeen = b].phase = "ACQUIRING"
  BY <1>1, <1>2 DEF ResumePolicy
<1> QED
  BY <1>1, <1>2, <1>3, <1>4 DEF Updated, Adopted

LEMMA InitType == ResumeInit => ResumeTypeOK
<1> SUFFICES ASSUME ResumeInit PROVE ResumeTypeOK
  OBVIOUS
<1>1. 0 \in Clock /\ 0 \in 0 .. Horizon /\ 0 \in Value /\ 0 \in 0 .. Beats - 1
  BY ResumeAssumption DEF Clock, Value
<1>2. resume \in ResumePolicy
  BY <1>1 DEF ResumeInit, ResumePolicy, Phase
<1>3. sample \in Samples
  <2>1. \A r \in Reg : sample[r] = Stale
    BY DEF ResumeInit
  <2>2. sample = [r \in Reg |-> sample[r]]
    BY DEF ResumeInit
  <2> QED
    BY <2>1, <2>2, SamplesType DEF Sample
<1>4. 0 \in 0 .. LongAgo /\ LongAgo \in 0 .. LongAgo
  BY ResumeAssumption DEF LongAgo
<1> QED
  BY <1>1, <1>2, <1>3, <1>4 DEF ResumeInit, ResumeTypeOK

LEMMA ReadRegisterType ==
  ASSUME ResumeTypeOK, NEW r \in Reg, NEW value \in Value, ReadRegister(r, value)
  PROVE ResumeTypeOK'
<1>1. value \in Says(r)
  BY ZeroSays DEF ReadRegister, ResumeTypeOK, Registers
<1>2. sample' \in Samples
  <2>1. [fresh |-> TRUE, age |-> 0, value |-> value] \in Sample(r)
    <3>1. 0 \in 0 .. MaxAge(r)
      BY SampleType
    <3> QED
      BY <1>1, <3>1 DEF Sample
  <2>2. \A q \in Reg : sample'[q] = IF q = r THEN [fresh |-> TRUE, age |-> 0, value |-> value] ELSE sample[q]
    BY DEF ReadRegister, ResumeTypeOK, Samples
  <2>3. sample' = [q \in Reg |-> sample'[q]]
    BY DEF ReadRegister, ResumeTypeOK, Samples
  <2>4. \A q \in Reg : sample'[q] \in Sample(q)
    BY <2>1, <2>2, SampleType
  <2> HIDE DEF ReadRegister
  <2> QED
    BY <2>3, <2>4, SamplesType
<1>3. resume' \in ResumePolicy
  BY DEF ReadRegister, ResumeTypeOK, Cancelled, ResumePolicy, Phase
<1>4. spoiled' \in BOOLEAN
  BY DEF ReadRegister, ResumeTypeOK
<1> QED
  BY <1>2, <1>3, <1>4 DEF ReadRegister, ResumeTypeOK

LEMMA GuardedWriteType == ASSUME ResumeTypeOK, GuardedWrite PROVE ResumeTypeOK'
<1> PICK a \in BOOLEAN, s \in BOOLEAN :
      resume' = Updated(resume, a, s, FALSE) /\ spoiled' = (spoiled \/ Against(a, s))
  BY DEF GuardedWrite
<1>1. resume' \in ResumePolicy
  BY UpdatedType
<1> QED
  BY <1>1 DEF GuardedWrite, ResumeTypeOK

LEMMA TickType ==
  ASSUME ResumeTypeOK, NEW world \in World, NEW allow \in BOOLEAN, NEW defrost \in BOOLEAN,
         NEW levelAllowed \in BOOLEAN, NEW arrivals \in SUBSET SUBSET Command,
         Tick(world, allow, defrost, levelAllowed, arrivals)
  PROVE ResumeTypeOK'
<1> DEFINE abort == world \in {"fault", "abort"}
           safe == world = "safe"
           p == Updated(resume, abort, safe, allow)
           previous == IF Adopted(p) THEN Level ELSE applied
<1>0. abort \in BOOLEAN /\ safe \in BOOLEAN
  OBVIOUS
<1>1. resume' = p /\ resume' \in ResumePolicy
  <2>1. resume' = p
    BY DEF Tick
  <2> HIDE DEF abort, safe
  <2>2. p \in ResumePolicy
    BY <1>0, UpdatedType
  <2> QED
    BY <2>1, <2>2
<1>2. previous \in Value
  <2> HIDE DEF abort, safe
  <2>1. Adopted(p) => Level \in Value
    BY <1>0, LevelType, ResumedReady
  <2>2. applied \in Value
    BY DEF ResumeTypeOK
  <2> QED
    BY <2>1, <2>2
<1>3. beat' \in 0 .. Beats - 1
  BY ResumeAssumption DEF Tick, ResumeTypeOK
<1>4. applied' \in Value /\ odu' \in Registers
  <2>1. CASE applied' = previous /\ odu' = odu
    BY <2>1, <1>2 DEF ResumeTypeOK
  <2>2. CASE applied' \in Value /\ \E arrived \in arrivals : odu' = Commanded(applied', arrived)
    BY <2>2, CommandedType
  <2>3. {0} \subseteq Value
    BY ResumeAssumption DEF Value
  <2> QED
    BY <2>1, <2>2, <2>3 DEF Tick
<1>5. released' \in BOOLEAN /\ spoiled' \in BOOLEAN
  BY DEF Tick, ResumeTypeOK, Adopted
<1>6. UNCHANGED <<now, uptime, sample, idle, cut>>
  BY DEF Tick
<1> QED
  BY <1>1, <1>3, <1>4, <1>5, <1>6 DEF ResumeTypeOK

LEMMA UnitType ==
  ASSUME ResumeTypeOK, UnitStops \/ UnitRuns \/ PowerCut
  PROVE ResumeTypeOK'
<1>1. 0 \in 0 .. LongAgo /\ 0 \in Value /\ 1 \in Value
  BY ResumeAssumption DEF LongAgo, Value
<1>2. odu' \in Registers
  BY <1>1, ZeroSays DEF UnitStops, UnitRuns, PowerCut, ResumeTypeOK, Registers, Says, Reg
<1> QED
  BY <1>1, <1>2 DEF UnitStops, UnitRuns, PowerCut, ResumeTypeOK

LEMMA PassType == ASSUME ResumeTypeOK, Pass PROVE ResumeTypeOK'
<1>1. now' \in Clock /\ uptime' \in 0 .. Horizon
  BY ResumeAssumption DEF Pass, ResumeTypeOK, Clock
<1>2. sample' \in Samples
  BY AgedType, SamplesType DEF Pass
<1>3. idle' \in 0 .. LongAgo /\ cut' \in 0 .. LongAgo
  BY ResumeAssumption DEF Pass, ResumeTypeOK, Older, LongAgo
<1> QED
  BY <1>1, <1>2, <1>3 DEF Pass, ResumeTypeOK

LEMMA RebootType == ASSUME ResumeTypeOK, Reboot PROVE ResumeTypeOK'
<1>1. 0 \in Clock /\ 0 \in 0 .. Horizon /\ 0 \in Value /\ 0 \in 0 .. Beats - 1
  BY ResumeAssumption DEF Clock, Value
<1>2. resume' \in ResumePolicy
  BY <1>1 DEF Reboot, ResumePolicy, Phase
<1>3. sample' \in Samples
  <2>1. \A r \in Reg : sample'[r] = Stale
    BY DEF Reboot
  <2>2. sample' = [r \in Reg |-> sample'[r]]
    BY DEF Reboot
  <2> QED
    BY <2>1, <2>2, SamplesType DEF Sample
<1>4. LongAgo \in 0 .. LongAgo
  BY ResumeAssumption DEF LongAgo
<1> QED
  BY <1>1, <1>2, <1>3, <1>4 DEF Reboot, ResumeTypeOK

LEMMA NextType == ResumeTypeOK /\ [ResumeNext]_resumeVars => ResumeTypeOK'
<1> SUFFICES ASSUME ResumeTypeOK, [ResumeNext]_resumeVars PROVE ResumeTypeOK'
  OBVIOUS
<1>1. CASE \E r \in Reg, value \in Value : ReadRegister(r, value)
  BY <1>1, ReadRegisterType
<1>2. CASE GuardedWrite
  BY <1>2, GuardedWriteType
<1>3. CASE Release
  BY <1>3 DEF Release, ResumeTypeOK
<1>4. CASE Ticks(SUBSET Command)
  BY <1>4, TickType DEF Ticks
<1>5. CASE UnitStops \/ UnitRuns \/ PowerCut
  BY <1>5, UnitType
<1>6. CASE Pass
  BY <1>6, PassType
<1>7. CASE Reboot
  BY <1>7, RebootType
<1>8. CASE UNCHANGED resumeVars
  BY <1>8 DEF resumeVars, ResumeTypeOK
<1> QED
  BY <1>1, <1>2, <1>3, <1>4, <1>5, <1>6, <1>7, <1>8 DEF ResumeNext

\* Every variable keeps its type: above all, no sample outlives its limit, and
\* no reading, command or power cut makes a register say what it cannot say
\* (oq_boot_resume::Policy, Sample).
THEOREM ResumeTypeCorrect == ResumeSpec => []ResumeTypeOK
BY InitType, NextType, PTL DEF ResumeSpec

(* ---------------------------- no second chance -------------------------- *)
LEMMA CancelledClosed == ASSUME ResumeTypeOK PROVE Cancelled(resume).phase # "ACQUIRING"
BY DEF ResumeTypeOK, Cancelled, ResumePolicy

\* What speaks against the attempt closes it, and an update opens none.
LEMMA UpdatedClosed ==
  ASSUME ResumeTypeOK, NEW a \in BOOLEAN, NEW s \in BOOLEAN, NEW w \in BOOLEAN
  PROVE /\ resume.phase # "ACQUIRING" => Updated(resume, a, s, w) = resume
        /\ Against(a, s) => Updated(resume, a, s, w).phase # "ACQUIRING"
        /\ Against(a, s) => ~Adopted(Updated(resume, a, s, w))
<1>1. resume.phase # "ACQUIRING" => Updated(resume, a, s, w) = resume
  BY DEF Updated, Pending
<1>2. ASSUME Against(a, s) PROVE Updated(resume, a, s, w) = Cancelled(resume)
  BY <1>2 DEF Updated, Against, Ended
<1>3. Cancelled(resume).phase # "RESUMED" \/ resume.phase # "ACQUIRING"
  BY DEF ResumeTypeOK, Cancelled, ResumePolicy
<1> QED
  BY <1>1, <1>2, <1>3, CancelledClosed DEF Adopted

LEMMA SpentStep ==
  ResumeTypeOK /\ Spent /\ [ResumeNext]_resumeVars => Spent' /\ (Adopts => ~spoiled)
<1> SUFFICES ASSUME ResumeTypeOK, Spent, [ResumeNext]_resumeVars PROVE Spent' /\ (Adopts => ~spoiled)
  OBVIOUS
<1>0. Adopts => ~spoiled
  BY DEF Spent, Adopts, Adopted
<1>1. CASE \E r \in Reg, value \in Value : ReadRegister(r, value)
  <2> PICK r \in Reg, value \in Value : ReadRegister(r, value)
    BY <1>1
  <2>1. CASE value > 0
    <3>1. value # 0
      BY <2>1, ResumeAssumption DEF Value
    <3>2. resume' = resume /\ spoiled' = (spoiled \/ value = 0)
      BY <2>1 DEF ReadRegister
    <3> QED
      BY <3>1, <3>2, <1>0 DEF Spent
  <2>2. CASE value = 0
    <3>1. resume' = Cancelled(resume)
      BY <2>2 DEF ReadRegister
    <3> QED
      BY <3>1, <1>0, CancelledClosed DEF Spent
  <2> QED
    BY <2>1, <2>2 DEF Value
<1>2. CASE GuardedWrite
  <2> PICK a \in BOOLEAN, s \in BOOLEAN :
        resume' = Updated(resume, a, s, FALSE) /\ spoiled' = (spoiled \/ Against(a, s))
    BY <1>2 DEF GuardedWrite
  <2> QED
    BY <1>0, UpdatedClosed DEF Spent
<1>3. CASE Ticks(SUBSET Command)
  <2> PICK world \in World, allow \in BOOLEAN, defrost \in BOOLEAN, levelAllowed \in BOOLEAN :
        Tick(world, allow, defrost, levelAllowed, SUBSET Command)
    BY <1>3 DEF Ticks
  <2> DEFINE abort == world \in {"fault", "abort"}
             safe == world = "safe"
  <2>1. abort \in BOOLEAN /\ safe \in BOOLEAN
    OBVIOUS
  <2>2. resume' = Updated(resume, abort, safe, allow) /\ spoiled' = (spoiled \/ Against(abort, safe))
    BY DEF Tick
  <2> HIDE DEF abort, safe
  <2> QED
    BY <1>0, <2>1, <2>2, UpdatedClosed DEF Spent
<1>4. CASE Reboot
  BY <1>4, <1>0 DEF Reboot, Spent
<1>5. CASE UNCHANGED <<resume, spoiled>>
  BY <1>5, <1>0 DEF Spent
<1>6. Release \/ UnitStops \/ UnitRuns \/ PowerCut \/ Pass \/ UNCHANGED resumeVars => UNCHANGED <<resume, spoiled>>
  BY DEF Release, UnitStops, UnitRuns, PowerCut, Pass, resumeVars
<1> QED
  BY <1>1, <1>2, <1>3, <1>4, <1>5, <1>6 DEF ResumeNext

\* However often the millisecond counter wraps: after a bad reading, an abort
\* or a loss of safety nothing is adopted any more in this boot (observe, cancel).
THEOREM NothingAdoptedAfterwards == ResumeSpec => NoSecondChance
<1>1. ResumeInit => Spent
  BY DEF ResumeInit, Spent
<1>2. ResumeTypeOK /\ Spent /\ [ResumeNext]_resumeVars => Spent'
  BY SpentStep
<1>3. ResumeTypeOK /\ Spent /\ [ResumeNext]_resumeVars => [Adopts => ~spoiled]_resumeVars
  BY SpentStep
<1> QED
  BY <1>1, <1>2, <1>3, ResumeTypeCorrect, PTL DEF ResumeSpec, NoSecondChance

(* --------------------------- what is adopted runs ----------------------- *)
LEMMA CountStep ==
  ASSUME Horizon < Wrap, ResumeTypeOK, InOneCount, [ResumeNext]_resumeVars
  PROVE  InOneCount'
<1>1. CASE Pass
  <2>1. now = uptime /\ uptime < Horizon /\ uptime \in Nat
    BY <1>1, ResumeAssumption DEF Pass, InOneCount, ResumeTypeOK
  <2>2. now + 1 # Wrap
    BY <2>1, ResumeAssumption
  <2> QED
    BY <1>1, <2>1, <2>2 DEF Pass, InOneCount
<1>2. CASE Reboot
  BY <1>2 DEF Reboot, InOneCount
<1>3. CASE UNCHANGED <<now, uptime>>
  BY <1>3 DEF InOneCount
<1>4. ASSUME Ticks(SUBSET Command) PROVE UNCHANGED <<now, uptime>>
  BY <1>4 DEF Ticks, Tick
<1>5. ASSUME \E r \in Reg, value \in Value : ReadRegister(r, value) PROVE UNCHANGED <<now, uptime>>
  BY <1>5 DEF ReadRegister
<1>6. GuardedWrite \/ Release \/ UnitStops \/ UnitRuns \/ PowerCut \/ UNCHANGED resumeVars
        => UNCHANGED <<now, uptime>>
  BY DEF GuardedWrite, Release, UnitStops, UnitRuns, PowerCut, resumeVars
<1> QED
  BY <1>1, <1>2, <1>3, <1>4, <1>5, <1>6 DEF ResumeNext

LEMMA OlderUp == ASSUME NEW n \in 0 .. LongAgo, NEW k \in Nat, n <= k PROVE Older(n) <= k + 1
BY ResumeAssumption DEF Older, LongAgo

LEMMA AgedReads ==
  ASSUME ResumeTypeOK, NEW r \in Reg, AgedSample(r).fresh /\ AgedSample(r).value > 0
  PROVE Reads(r) /\ AgedSample(r).age = sample[r].age + 1 /\ AgedSample(r).value = sample[r].value
<1>1. sample[r].fresh /\ sample[r].age < MaxAge(r)
  BY DEF AgedSample, Stale
<1>2. sample[r] \in [fresh : {TRUE}, age : 0 .. MaxAge(r), value : Says(r)]
  BY <1>1, SampleType DEF Sample, Stale
<1> QED
  BY <1>1, <1>2 DEF AgedSample, Reads

LEMMA ReadReads ==
  ASSUME ResumeTypeOK, NEW r \in Reg, NEW value \in Value, ReadRegister(r, value), NEW q \in Reg
  PROVE /\ q # r => sample'[q] = sample[q]
        /\ q = r => sample'[q].fresh /\ sample'[q].age = 0 /\ sample'[q].value = value
BY DEF ReadRegister, ResumeTypeOK, Samples

LEMMA TurningStep ==
  ASSUME ResumeTypeOK, Turning, [ResumeNext]_resumeVars
  PROVE  Turning'
<1>0. "run" \in Reg /\ idle \in 0 .. LongAgo /\ LongAgo \in Nat
  BY ResumeAssumption DEF Reg, ResumeTypeOK, LongAgo
<1>1. CASE \E r \in Reg, value \in Value : ReadRegister(r, value)
  <2> PICK r \in Reg, value \in Value : ReadRegister(r, value)
    BY <1>1
  <2>1. UNCHANGED <<odu, idle>>
    BY DEF ReadRegister
  <2>2. ASSUME r = "run", value > 0 PROVE idle <= 0
    BY <2>2, <1>0 DEF ReadRegister, Turning
  <2>3. Reads("run")' => idle <= sample'["run"].age
    <3>1. CASE r = "run"
      <4>1. sample'["run"].age = 0 /\ sample'["run"].value = value
        BY <3>1 DEF ReadRegister, ResumeTypeOK, Samples
      <4> QED
        BY <4>1, <3>1, <2>2 DEF Reads
    <3>2. CASE r # "run"
      BY <3>2, <1>0, ReadReads DEF Reads, Turning
    <3> QED
      BY <3>1, <3>2
  <2> QED
    BY <2>1, <2>3 DEF Turning
<1>2. CASE Ticks(SUBSET Command)
  <2> PICK world \in World, allow \in BOOLEAN, defrost \in BOOLEAN, levelAllowed \in BOOLEAN :
        Tick(world, allow, defrost, levelAllowed, SUBSET Command)
    BY <1>2 DEF Ticks
  <2>1. UNCHANGED <<sample, idle>>
    BY DEF Tick
  <2>2. odu'["run"] = odu["run"]
    BY <1>0 DEF Tick, Commanded, Command
  <2> QED
    BY <2>1, <2>2 DEF Turning, Reads
<1>3. CASE UnitStops \/ UnitRuns \/ PowerCut
  <2>1. UNCHANGED sample
    BY <1>3 DEF UnitStops, UnitRuns, PowerCut
  <2>2. Reads("run") => sample["run"].age >= 0
    BY <1>0, SampleType DEF Reads
  <2>3. UnitRuns => idle' = 0
    BY DEF UnitRuns
  <2>4. UnitStops \/ PowerCut => odu'["run"] = 0 /\ UNCHANGED idle
    BY <1>0 DEF UnitStops, PowerCut, ResumeTypeOK, Registers
  <2> QED
    BY <1>3, <2>1, <2>2, <2>3, <2>4, <1>0 DEF Turning, Reads
<1>4. CASE Pass
  <2>1. sample'["run"] = AgedSample("run") /\ UNCHANGED odu /\ idle' = IF odu["run"] > 0 THEN 0 ELSE Older(idle)
    BY <1>4, <1>0 DEF Pass
  <2>2. ASSUME AgedSample("run").fresh /\ AgedSample("run").value > 0 PROVE idle' <= AgedSample("run").age
    <3>1. Reads("run") /\ AgedSample("run").age = sample["run"].age + 1
      BY <2>2, <1>0, AgedReads
    <3>2. sample["run"].age \in Nat
      BY <3>1, <1>0, SampleType DEF Reads
    <3>3. Older(idle) <= sample["run"].age + 1
      BY <3>1, <3>2, <1>0, OlderUp DEF Turning
    <3> QED
      BY <2>1, <3>1, <3>2, <3>3
  <2> QED
    BY <2>1, <2>2 DEF Turning, Reads
<1>5. CASE Reboot
  BY <1>5, <1>0 DEF Reboot, Turning, Reads, Stale
<1>6. CASE UNCHANGED <<odu, idle, sample>>
  BY <1>6 DEF Turning, Reads
<1>7. GuardedWrite \/ Release \/ UNCHANGED resumeVars => UNCHANGED <<odu, idle, sample>>
  BY DEF GuardedWrite, Release, resumeVars
<1> QED
  BY <1>1, <1>2, <1>3, <1>4, <1>5, <1>6, <1>7 DEF ResumeNext

\* An update leaves an attempt open only if it was open before.
LEMMA UpdatedPending ==
  ASSUME ResumeTypeOK, NEW a \in BOOLEAN, NEW s \in BOOLEAN, NEW w \in BOOLEAN,
         Pending(Updated(resume, a, s, w))
  PROVE  Pending(resume)
<1>1. resume \in ResumePolicy
  BY DEF ResumeTypeOK
<1> QED
  BY <1>1, CancelledClosed, UpdatedClosed DEF Pending, Against

LEMMA UnwrittenStep ==
  ASSUME Horizon < Wrap, ResumeTypeOK, ResumeTypeOK', InOneCount, InOneCount', Unwritten,
         [ResumeNext]_resumeVars
  PROVE  Unwritten'
<1>0. /\ "run" \in Reg /\ Command \subseteq Reg /\ "run" \notin Command
      /\ cut \in 0 .. LongAgo /\ LongAgo \in Nat
  BY ResumeAssumption DEF Reg, Command, ResumeTypeOK, LongAgo
<1>a. SinceBoot = uptime /\ SinceBoot' = uptime'
  BY DEF SinceBoot, InOneCount
<1> SUFFICES ASSUME Pending(resume)'
             PROVE  \/ Dead'
                    \/ \A r \in Command : Reads(r)' => odu'[r] = sample'[r].value
  BY DEF Unwritten
<1>b. resume'.phase = "ACQUIRING" /\ uptime' < InputTime
  BY <1>a DEF Pending
<1>1. CASE \E r \in Reg, value \in Value : ReadRegister(r, value)
  <2> PICK r \in Reg, value \in Value : ReadRegister(r, value)
    BY <1>1
  <2>1. value > 0 /\ value = odu[r]
    <3>1. ASSUME ~(value > 0) PROVE FALSE
      BY <3>1, <1>b, CancelledClosed DEF ReadRegister
    <3> QED
      BY <3>1 DEF ReadRegister
  <2>2. resume' = resume /\ UNCHANGED <<uptime, odu, cut>>
    BY <2>1 DEF ReadRegister
  <2>3. ~Dead
    BY <2>1 DEF Dead
  <2>4. \A q \in Command : Reads(q) => odu[q] = sample[q].value
    BY <2>2, <2>3, <1>a, <1>b DEF Unwritten, Pending
  <2>5. ASSUME NEW q \in Command, Reads(q)' PROVE odu'[q] = sample'[q].value
    <3>1. CASE q = r
      <4>1. sample'[r].value = value
        BY DEF ReadRegister, ResumeTypeOK, Samples
      <4> QED
        BY <3>1, <4>1, <2>1, <2>2
    <3>2. CASE q # r
      <4>1. sample'[q] = sample[q]
        BY <3>2, <1>0 DEF ReadRegister, ResumeTypeOK, Samples
      <4> QED
        BY <4>1, <2>2, <2>4, <2>5 DEF Reads
    <3> QED
      BY <3>1, <3>2
  <2> QED
    BY <2>5
<1>2. CASE GuardedWrite
  <2> PICK a \in BOOLEAN, s \in BOOLEAN : resume' = Updated(resume, a, s, FALSE)
    BY <1>2 DEF GuardedWrite
  <2>1. UNCHANGED <<now, sample, odu, cut>>
    BY <1>2 DEF GuardedWrite
  <2>2. Pending(resume') = Pending(resume)'
    BY <2>1 DEF Pending, SinceBoot
  <2>3. Pending(resume)
    BY <2>2, UpdatedPending
  <2> QED
    BY <2>1, <2>3 DEF Unwritten, Dead, Reads
<1>3. CASE Ticks(SUBSET Command)
  <2> PICK world \in World, allow \in BOOLEAN, defrost \in BOOLEAN, levelAllowed \in BOOLEAN :
        Tick(world, allow, defrost, levelAllowed, SUBSET Command)
    BY <1>3 DEF Ticks
  <2> DEFINE abort == world \in {"fault", "abort"}
             safe == world = "safe"
  <2>1. abort \in BOOLEAN /\ safe \in BOOLEAN
    OBVIOUS
  <2>2. resume' = Updated(resume, abort, safe, allow)
    BY DEF Tick
  <2>3. UNCHANGED <<now, uptime, sample, cut>>
    BY DEF Tick
  <2>4. Pending(resume') = Pending(resume)'
    BY <2>3 DEF Pending, SinceBoot
  <2>5. Pending(Updated(resume, abort, safe, allow))
    BY <2>2, <2>4
  <2>6. Pending(resume)
    <3> HIDE DEF abort, safe
    <3> QED
      BY <2>1, <2>5, UpdatedPending
  <2>7. UNCHANGED odu
    BY <2>5 DEF Tick
  <2> QED
    BY <2>3, <2>6, <2>7 DEF Unwritten, Dead, Reads
<1>4. CASE PowerCut
  <2>1. Reads("run") => 0 <= sample["run"].age
    BY <1>0, SampleType DEF Reads
  <2> QED
    BY <1>4, <2>1 DEF PowerCut, Dead, Reads
<1>5. CASE UnitStops \/ UnitRuns
  <2>1. UNCHANGED <<now, resume, sample, cut>>
    BY <1>5 DEF UnitStops, UnitRuns
  <2>2. Pending(resume)
    BY <2>1 DEF Pending, SinceBoot
  <2>3. \A r \in Command : odu'[r] = odu[r]
    BY <1>5, <1>0 DEF UnitStops, UnitRuns, ResumeTypeOK, Registers
  <2>4. ~Dead
    BY <1>5, <1>0 DEF UnitStops, UnitRuns, Dead, Reg
  <2> QED
    BY <2>1, <2>2, <2>3, <2>4 DEF Unwritten, Reads
<1>6. CASE Pass
  <2>1. /\ UNCHANGED <<resume, odu>> /\ uptime' = uptime + 1 /\ cut' = Older(cut)
        /\ \A r \in Reg : sample'[r] = AgedSample(r)
    BY <1>6 DEF Pass
  <2>2. Pending(resume)
    BY <2>1, <1>a, <1>b, ResumeAssumption DEF Pending, ResumeTypeOK
  <2>3. \A r \in Reg : Reads(r)' => /\ Reads(r) /\ sample'[r].value = sample[r].value
                                    /\ sample'[r].age = sample[r].age + 1
    BY <2>1, AgedReads DEF Reads
  <2>4. CASE Dead
    <3>1. ASSUME Reads("run")' PROVE cut' <= sample'["run"].age
      <4>1. Reads("run") /\ sample'["run"].age = sample["run"].age + 1
        BY <3>1, <2>3, <1>0
      <4>2. sample["run"].age \in Nat /\ cut <= sample["run"].age
        BY <4>1, <2>4, <1>0, SampleType DEF Reads, Dead
      <4> QED
        BY <4>1, <4>2, <2>1, <1>0, OlderUp
    <3> QED
      BY <3>1, <2>1, <2>4 DEF Dead
  <2>5. CASE \A r \in Command : Reads(r) => odu[r] = sample[r].value
    BY <2>5, <2>1, <2>3, <1>0
  <2> QED
    BY <2>2, <2>4, <2>5 DEF Unwritten
<1>7. CASE Reboot
  BY <1>7, <1>0 DEF Reboot, Reads, Stale
<1>8. CASE Release \/ UNCHANGED resumeVars
  <2>1. UNCHANGED <<now, resume, sample, odu, cut>>
    BY <1>8 DEF Release, resumeVars
  <2> QED
    BY <2>1 DEF Unwritten, Pending, SinceBoot, Dead, Reads
<1> QED
  BY <1>1, <1>2, <1>3, <1>4, <1>5, <1>6, <1>7, <1>8 DEF ResumeNext

LEMMA AdoptsFromTick ==
  ASSUME ResumeTypeOK, [ResumeNext]_resumeVars, Adopts
  PROVE  ReadbackReady /\ Pending(resume)
<1>0. \A a, s, w \in BOOLEAN :
        Adopted(Updated(resume, a, s, w)) => ReadbackReady /\ Pending(resume)
  BY ResumedReady
<1>1. CASE \E r \in Reg, value \in Value : ReadRegister(r, value)
  BY <1>1 DEF ReadRegister, Adopts, Adopted, Cancelled, ResumeTypeOK, ResumePolicy
<1>2. CASE GuardedWrite
  BY <1>2, <1>0 DEF GuardedWrite, Adopts
<1>3. CASE Ticks(SUBSET Command)
  <2> PICK world \in World, allow \in BOOLEAN, defrost \in BOOLEAN, levelAllowed \in BOOLEAN :
        Tick(world, allow, defrost, levelAllowed, SUBSET Command)
    BY <1>3 DEF Ticks
  <2> DEFINE abort == world \in {"fault", "abort"}
             safe == world = "safe"
  <2>1. abort \in BOOLEAN /\ safe \in BOOLEAN
    OBVIOUS
  <2>2. resume' = Updated(resume, abort, safe, allow)
    BY DEF Tick
  <2> HIDE DEF abort, safe
  <2> QED
    BY <1>0, <2>1, <2>2 DEF Adopts
<1>4. CASE Reboot
  BY <1>4 DEF Reboot, Adopts, Adopted
<1>5. Release \/ UnitStops \/ UnitRuns \/ PowerCut \/ Pass \/ UNCHANGED resumeVars => UNCHANGED resume
  BY DEF Release, UnitStops, UnitRuns, PowerCut, Pass, resumeVars
<1> QED
  BY <1>1, <1>2, <1>3, <1>4, <1>5 DEF ResumeNext, Adopts, Adopted

LEMMA AdoptionStep ==
  ASSUME ResumeInv, [ResumeNext]_resumeVars, Adopts
  PROVE  /\ idle <= TelemetryFresh
         /\ \/ cut <= TelemetryFresh
            \/ odu["setLevel"] = Level /\ odu["setMode"] = 1
<1>1. ResumeTypeOK /\ ReadbackReady /\ Pending(resume)
  BY AdoptsFromTick DEF ResumeInv
<1>2. Reads("run") /\ sample["run"].age \in 0 .. TelemetryFresh
  <2>1. Reads("run") /\ MaxAge("run") = TelemetryFresh
    BY <1>1 DEF ReadbackReady, Reg, MaxAge
  <2> QED
    BY <1>1, <2>1, SampleType DEF Reads, Reg
<1>3. idle <= TelemetryFresh
  BY <1>1, <1>2, ResumeAssumption DEF ResumeInv, Turning, ResumeTypeOK, LongAgo
<1>4. CASE Dead
  BY <1>1, <1>2, <1>3, <1>4, ResumeAssumption DEF Dead, ResumeTypeOK, LongAgo
<1>5. CASE \A r \in Command : Reads(r) => odu[r] = sample[r].value
  <2>1. odu["setLevel"] = sample["setLevel"].value /\ odu["setMode"] = sample["setMode"].value
    BY <1>1, <1>5 DEF ReadbackReady, Reg, Command
  <2>2. sample["setMode"].value = 1
    <3>1. Reads("setMode") /\ Says("setMode") = {0, 1}
      BY <1>1 DEF ReadbackReady, Reg, Says
    <3> QED
      BY <1>1, <3>1, SampleType DEF Reads, Reg
  <2> QED
    BY <1>3, <2>1, <2>2 DEF Level
<1> QED
  BY <1>1, <1>4, <1>5 DEF ResumeInv, Unwritten

LEMMA InitInductive == ResumeInit => ResumeInv
<1> SUFFICES ASSUME ResumeInit PROVE ResumeInv
  OBVIOUS
<1>1. \A r \in Reg : ~Reads(r)
  BY DEF ResumeInit, Reads, Stale
<1>2. "run" \in Reg /\ Command \subseteq Reg
  BY DEF Reg, Command
<1> QED
  BY <1>1, <1>2, InitType DEF ResumeInit, ResumeInv, InOneCount, Turning, Unwritten

\* As long as the millisecond counter has not wrapped, what the actuator adopts
\* is a compressor that ran at most TelemetryFresh ago at the level its unit
\* still holds (readback_ready, observe, guarded_write, resume_boot_cycle_).
THEOREM AdoptionIsReal == ASSUME Horizon < Wrap PROVE ResumeSpec => AdoptsWhatRuns
<1>1. ResumeInv /\ [ResumeNext]_resumeVars => ResumeInv'
  BY NextType, CountStep, TurningStep, UnwrittenStep DEF ResumeInv
<1>2. ResumeInv /\ [ResumeNext]_resumeVars =>
        [Adopts => /\ idle <= TelemetryFresh
                   /\ \/ cut <= TelemetryFresh
                      \/ odu["setLevel"] = Level /\ odu["setMode"] = 1]_resumeVars
  BY AdoptionStep
<1> QED
  BY InitInductive, <1>1, <1>2, PTL DEF ResumeSpec, AdoptsWhatRuns
=============================================================================
