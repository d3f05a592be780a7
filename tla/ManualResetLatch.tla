-------------------------- MODULE ManualResetLatch --------------------------
(***************************************************************************)
(* The lock that only a confirmed power cycle of the outdoor unit releases *)
(* (register 2120, bit 4), and its redundant copy in flash                 *)
(* (incidents/oq_manual_reset_latch_policy.h and its callers in the        *)
(* incident manager).  Two slots and a marker are written one by one; any  *)
(* write may fail and the controller may reset between any two of them.    *)
(*                                                                         *)
(* A mask is the set of heat pumps whose bit it has.                       *)
(***************************************************************************)
EXTENDS Naturals

CONSTANTS
  Hps,         \* the bits of a mask: HP1 and HP2
  Configured,  \* configured_hp_mask: the heat pumps of this topology
  Snapshots,   \* INITIALIZATION_FAULT_SNAPSHOT_COUNT
  RetryTime    \* MANUAL_RESET_PERSIST_RETRY_MS, in calls of loop()

ASSUME LatchAssumption ==
  Configured \subseteq Hps /\ Snapshots \in Nat \ {0} /\ RetryTime \in Nat \ {0}

VARIABLES
  flash,       \* what the preferences hold
  works,       \* do writes to flash succeed at present?
  policy,      \* manual_reset_persistence_
  unit,        \* the lock incident of each engine
  count,       \* initialization_fault_snapshot_count of each unit
  baseline,    \* initialization_manual_reset_mask_
  loaded,      \* load_result of this boot
  owed,        \* for the properties: locks saved and not confirmed since
  shown        \* for the properties: locks seen while the baseline was made

boot  == <<count, baseline, loaded, shown>>
vars  == <<flash, works, policy, unit, boot, owed>>

Kind   == {"absent", "legacy", "valid"}
Slot   == [kind : Kind, mask : SUBSET Hps]
Flash  == [a : Slot, b : Slot, marker : Kind]
Loaded == {"restored", "initialize", "recover"}
Policy == [persisted : SUBSET Hps, pending : SUBSET Hps, faults : SUBSET Hps,
           ready : BOOLEAN, initPending : BOOLEAN, initObserved : BOOLEAN,
           repair : BOOLEAN, attempted : BOOLEAN, age : 0 .. RetryTime]
Lock   == [raw : BOOLEAN, confirmed : BOOLEAN, latched : BOOLEAN, streak : 0 .. 3]

TypeOK ==
  /\ flash \in Flash /\ works \in BOOLEAN /\ policy \in Policy
  /\ unit \in [Configured -> Lock] /\ count \in [Configured -> 0 .. Snapshots]
  /\ baseline \in SUBSET Configured /\ loaded \in Loaded
  /\ owed \in SUBSET Configured /\ shown \in SUBSET Configured
-----------------------------------------------------------------------------
(* The engine's lock: two reads trip it, three clear it, and it stays      *)
(* latched (update_incident()).                                            *)
Quiet == [raw |-> FALSE, confirmed |-> FALSE, latched |-> FALSE, streak |-> 0]

Tripping(r) ==
  LET streak == IF ~r.raw THEN 1 ELSE IF r.streak < 2 THEN r.streak + 1 ELSE 2
      trips  == streak = 2
  IN [raw |-> TRUE, confirmed |-> r.confirmed \/ trips,
      latched |-> r.latched \/ (trips /\ ~r.confirmed), streak |-> streak]

Clearing(r) ==
  LET streak == IF ~r.confirmed THEN 0 ELSE IF r.raw THEN 1 ELSE IF r.streak < 3 THEN r.streak + 1 ELSE 3
  IN [raw |-> FALSE, confirmed |-> r.confirmed /\ streak < 3, latched |-> r.latched,
      streak |-> IF streak < 3 THEN streak ELSE 0]

Read(r, raw) == IF raw THEN Tripping(r) ELSE Clearing(r)

(* restore_power_cycle_latch() for every unit in the mask.                 *)
Restored(u, mask) == [h \in Configured |-> [u[h] EXCEPT !.latched = @ \/ h \in mask]]

Latched(u)    == {h \in Configured : u[h].latched}
Cleared(r)    == r.latched /\ ~r.confirmed /\ ~r.raw
Released(u, h) == [u EXCEPT ![h] = [@ EXCEPT !.latched = FALSE]]
-----------------------------------------------------------------------------
(* ManualResetLatchPersistencePolicy::load()                               *)
AllOf(f, kind) == f.a.kind = kind /\ f.b.kind = kind /\ f.marker = kind

LoadResult(f) ==
  IF AllOf(f, "valid") THEN "restored"
  ELSE IF AllOf(f, "absent") \/ (AllOf(f, "legacy") /\ f.a.mask = f.b.mask) THEN "initialize"
  ELSE "recover"

\* mutant: a lock is restored only if both copies agree
LoadedMask_BothCopies(f) ==
  IF LoadResult(f) = "restored" THEN f.a.mask \cap f.b.mask
  ELSE IF LoadResult(f) = "initialize" THEN {} ELSE Configured

LoadedMask(f) ==
  IF LoadResult(f) = "restored" THEN f.a.mask \cup f.b.mask
  ELSE IF LoadResult(f) = "initialize" THEN {} ELSE Configured

Load(f) ==
  [ persisted |-> LoadedMask(f), pending |-> {},
    faults |-> IF LoadResult(f) = "restored" THEN {} ELSE Configured,
    ready |-> LoadResult(f) = "restored",
    initPending |-> LoadResult(f) = "initialize", initObserved |-> FALSE,
    repair |-> \/ LoadResult(f) = "recover"
               \/ LoadResult(f) = "restored" /\ f.a.mask # f.b.mask,
    attempted |-> FALSE, age |-> 0 ]

\* mutant: the baseline is forgotten when it is complete
BaselineObserved_Empty(p, mask) ==
  IF p.initPending THEN [p EXCEPT !.initObserved = TRUE, !.attempted = FALSE, !.age = 0] ELSE p

(* complete_initialization()                                               *)
BaselineObserved(p, mask) ==
  IF p.initPending
  THEN [p EXCEPT !.pending = @ \cup mask, !.initObserved = TRUE, !.attempted = FALSE, !.age = 0]
  ELSE p

(* observe_runtime_latches(): a new lock is saved without delay.           *)
Noticed(p, locks) ==
  IF locks \ (p.persisted \cup p.pending) = {} THEN p
  ELSE [p EXCEPT !.pending = @ \cup (locks \ p.persisted),
                 !.faults = @ \cup (locks \ (p.persisted \cup p.pending)),
                 !.attempted = FALSE, !.age = 0]

Unsaved(p) == p.initPending \/ p.repair \/ p.pending # {}

\* mutant: a failed save is not tried again
ShouldPersist_Once(p) ==
  (p.initPending => p.initObserved) /\ Unsaved(p) /\ ~p.attempted

(* should_attempt_persist()                                                *)
ShouldPersist(p) ==
  (p.initPending => p.initObserved) /\ Unsaved(p) /\ (~p.attempted \/ p.age >= RetryTime)

Target(p) == p.persisted \cup p.pending

\* mutant: what is saved is not noted
Saved_Unnoted(p, mask) ==
  [ persisted |-> p.persisted, pending |-> {}, faults |-> {}, ready |-> TRUE,
    initPending |-> FALSE, initObserved |-> FALSE, repair |-> FALSE,
    attempted |-> TRUE, age |-> 0 ]

(* mark_persist_success(), mark_persist_failure()                          *)
Saved(p, mask) ==
  [ persisted |-> mask, pending |-> {}, faults |-> {}, ready |-> TRUE,
    initPending |-> FALSE, initObserved |-> FALSE, repair |-> FALSE,
    attempted |-> TRUE, age |-> 0 ]

NotSaved(p) ==
  [p EXCEPT !.faults = @ \cup p.pending
                         \cup (IF ~p.ready \/ p.initPending THEN Configured ELSE {}),
            !.attempted = TRUE, !.age = 0]

(* mark_confirmation_failure()                                             *)
NotConfirmed(p, h) == [p EXCEPT !.faults = @ \cup {h}, !.attempted = TRUE, !.age = 0]

FaultMask(p) == IF p.ready THEN p.faults ELSE Configured
-----------------------------------------------------------------------------
(* persist_manual_reset_mask_(): three preferences are written, and only   *)
(* reading all of them back counts.                                        *)
Filled(mask) == [a |-> [kind |-> "valid", mask |-> mask],
                 b |-> [kind |-> "valid", mask |-> mask], marker |-> "valid"]

PartlyWritten(f, mask) ==
  {[a |-> x, b |-> y, marker |-> z] :
     x \in {f.a, Filled(mask).a}, y \in {f.b, Filled(mask).b}, z \in {f.marker, "valid"}}

Writes(f, mask) == IF works THEN {Filled(mask)} ELSE PartlyWritten(f, mask)

(* reconcile_manual_reset_persistence_() on the policy and units that a    *)
(* handler has come to.  Every handler calls it twice, once more when it   *)
(* publishes its snapshot; the second call finds nothing to write and      *)
(* restores what the first one saved.                                      *)
Reconcile(f, p, u) ==
  LET v == Restored(u, p.persisted)
      q == Noticed(p, Latched(v))
  IN IF ShouldPersist(q)
     THEN \E g \in Writes(f, Target(q)) :
            /\ flash' = g
            /\ policy' = IF g = Filled(Target(q)) THEN Saved(q, Target(q)) ELSE NotSaved(q)
            /\ unit' = Restored(v, policy'.persisted)
     ELSE flash' = f /\ policy' = q /\ unit' = v

(* The locks that were saved, in both copies or, since, in one of them.    *)
Held(f, p) ==
  IF p.ready THEN p.persisted \cap (f.a.mask \cup f.b.mask) \cap Configured ELSE {}

(* setup() after a reset that found flash as `f`.                          *)
Booted(f, kept) ==
  /\ Reconcile(f, Load(f), [h \in Configured |-> Quiet])
  /\ loaded' = LoadResult(f)
  /\ count' = [h \in Configured |-> 0] /\ baseline' = {} /\ shown' = {}
  /\ owed' = kept \cup Held(flash', policy')

(* The end of a handler that has counted `c`, collected `b` and shown `s`: *)
(* it reconciles, or a reset cuts its save short.                          *)
Handled(p, u, c, b, s) ==
  \/ /\ Reconcile(flash, p, u)
     /\ count' = c /\ baseline' = b /\ shown' = s /\ UNCHANGED loaded
     /\ owed' = owed \cup Held(flash', policy')
  \/ LET q == Noticed(p, Latched(Restored(u, p.persisted)))
     IN /\ ShouldPersist(q)
        /\ \E f \in PartlyWritten(flash, Target(q)) : Booted(f, owed)

Init ==
  /\ flash \in {[a |-> x, b |-> x, marker |-> x.kind] :
                  x \in {y \in Slot : y.kind = "absent" => y.mask = {}}}
  /\ works = TRUE
  /\ policy = Load(flash)
  /\ unit = Restored([h \in Configured |-> Quiet], policy.persisted)
  /\ count = [h \in Configured |-> 0] /\ baseline = {} /\ shown = {}
  /\ loaded = LoadResult(flash)
  /\ owed = Held(flash, policy)

(* loop(), once a second.                                                  *)
Aged(p) == IF p.attempted /\ p.age < RetryTime THEN [p EXCEPT !.age = @ + 1] ELSE p

Loop == Handled(Aged(policy), unit, count, baseline, shown) /\ UNCHANGED works

(* process_fault_snapshot_() of all fault words of a unit, with or without *)
(* the lock bit; the baseline needs Snapshots of these from every unit.    *)
CompleteSnapshot(h, raw) ==
  LET one == IF raw /\ policy.initPending THEN {h} ELSE {}
      c   == [count EXCEPT ![h] = IF @ < Snapshots THEN @ + 1 ELSE @]
      all == \A g \in Configured : c[g] = Snapshots
  IN /\ Handled(IF all THEN BaselineObserved(policy, baseline \cup one) ELSE policy,
                [unit EXCEPT ![h] = Read(@, raw)], c, baseline \cup one, shown \cup one)
     /\ UNCHANGED works

(* The same after PARTIAL_FAULT_SNAPSHOT_TIMEOUT_MS: some words only.      *)
PartialSnapshot(h, raw) ==
  /\ Handled(policy, [unit EXCEPT ![h] = Read(@, raw)], count, baseline, shown)
  /\ UNCHANGED works

(* confirm_odu_power_cycle(): flash first, then the engine.  The recon-    *)
(* ciliation at its end finds nothing to write.                            *)
Remaining(h) == Target(policy) \ {h}

Confirmable(h) == Cleared(unit[h]) /\ policy.ready

ConfirmFails(h) ==
  /\ Confirmable(h)
  /\ \E g \in Writes(flash, Remaining(h)) \ {Filled(Remaining(h))} : flash' = g
  /\ policy' = NotConfirmed(policy, h)
  /\ owed' = owed \ {h} /\ UNCHANGED <<works, unit, boot>>

ConfirmSucceeds(h) ==
  /\ Confirmable(h)
  /\ Filled(Remaining(h)) \in Writes(flash, Remaining(h))
  /\ flash' = Filled(Remaining(h))
  /\ policy' = Saved(policy, Remaining(h))
  /\ unit' = Restored(Released(unit, h), Remaining(h))
  /\ owed' = (owed \ {h}) \cup Held(flash', policy')
  /\ shown' = shown \ {h} /\ UNCHANGED <<works, count, baseline, loaded>>

ConfirmCutShort(h) ==
  /\ Confirmable(h)
  /\ \E f \in PartlyWritten(flash, Remaining(h)) : Booted(f, owed \ {h})
  /\ UNCHANGED works

(* A reset between two handlers; writing to flash starts or stops failing. *)
Reset      == Booted(flash, owed) /\ UNCHANGED works
FlashTurns == works' = ~works /\ UNCHANGED <<flash, policy, unit, boot, owed>>

Next ==
  \/ Loop \/ Reset \/ FlashTurns
  \/ \E h \in Configured :
       \/ \E raw \in BOOLEAN : CompleteSnapshot(h, raw) \/ PartialSnapshot(h, raw)
       \/ ConfirmFails(h) \/ ConfirmSucceeds(h) \/ ConfirmCutShort(h)

Spec     == Init /\ [][Next]_vars
FairSpec == Spec /\ WF_vars(Loop)
-----------------------------------------------------------------------------
(* Safety: a lock that was saved holds its heat pump until the power cycle *)
(* is confirmed: no reset, failed write or repair of the copies loses it.  *)
SavedLockSurvives == owed \subseteq Latched(unit)

(* Safety: while the persistence reports no fault for a heat pump, flash   *)
(* would restore at a reset exactly what the engine holds: neither is a    *)
(* new lock unsaved nor a released one about to come back.                 *)
FaultFreeIsDurable ==
  \A h \in Configured :
    h \notin FaultMask(policy) => (h \in LoadedMask(flash) <=> unit[h].latched)

(* Safety: after a first install or an upgrade no heat pump is let go      *)
(* before every one gave Snapshots complete snapshots, and a lock shown in *)
(* any of these is then held.                                              *)
BaselineFirst ==
  loaded = "initialize" /\ policy.ready =>
    shown \subseteq Latched(unit) /\ \A h \in Configured : count[h] = Snapshots

Waiting(p) == p.repair \/ (p.ready /\ p.pending # {})

(* Liveness: once writing works, new locks and disagreeing copies are      *)
(* saved, however often the controller is reset.                           *)
LocksGetSaved ==
  <>[]works => (Waiting(policy) ~> ~Waiting(policy))

(* What the comment in load() says of the two copies: a clear that was not *)
(* completed leaves one of them with the old bit, so that the lock stays   *)
(* active.                                                                 *)
PartialClearKeepsLatch ==
  [][ \A h \in Configured :
        ConfirmFails(h) /\ h \in LoadedMask(flash) => h \in LoadedMask(flash') ]_vars
=============================================================================
