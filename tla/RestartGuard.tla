---------------------------- MODULE RestartGuard ----------------------------
(***************************************************************************)
(* The minimum-off-time guard of one heat pump                             *)
(* (openquatt/includes/control/oq_hp_restart_guard.h) with the calls the   *)
(* incident manager makes to it.                                           *)
(*                                                                         *)
(* A compressor may only be started again after it has been off for        *)
(* MinOff.  The controller never sees "off" as such: it sees telemetry     *)
(* that says so now and then, on a clock that wraps, and it loses its      *)
(* memory when it restarts.  The guard turns confirmed-off observations    *)
(* into a credit and lets a start through only on enough fresh credit.     *)
(*                                                                         *)
(* The outdoor unit is part of the model: `plant` is what the compressor   *)
(* really does and `offTime` how long it has really been off, neither of   *)
(* which the code can read.  Correctness relates the guard to them.        *)
(***************************************************************************)
EXTENDS Naturals

CONSTANTS
  ClockMod,     \* number of values of the uint32_t millisecond clock
  MinOff,       \* minimum_off_ms: rest required before a start
  Freshness,    \* freshness_ms: how long one observation may be relied on
  LinkTimeout   \* LINK_ROUND_TIMEOUT_MS: silence after which credit is dropped

ASSUME GuardAssumption ==
  /\ ClockMod \in Nat /\ MinOff \in Nat
  /\ Freshness \in Nat \ {0} /\ LinkTimeout \in Nat \ {0}
  /\ MinOff < ClockMod
  /\ LinkTimeout < ClockMod

Clock == 0 .. ClockMod - 1

(* Unsigned subtraction of two timestamps, and the clock's next value. *)
Elapsed(later, earlier) ==
  IF later >= earlier THEN later - earlier ELSE later + ClockMod - earlier
NextTime(t) == IF t + 1 = ClockMod THEN 0 ELSE t + 1

Lesser(a, b) == IF a <= b THEN a ELSE b
-----------------------------------------------------------------------------
(* Policy: the private state of the class and its member functions.        *)

Policy == [ pending   : 0 .. MinOff,   \* pending_credit_ms_
            credit    : 0 .. MinOff,   \* credit_at_observation_ms_
            last      : Clock,             \* last_observation_ms_
            restoreOpen   : BOOLEAN,       \* restore_open_
            stopConfirmed : BOOLEAN ]      \* stop_confirmed_

Reset == [ pending |-> 0, credit |-> 0, last |-> 0,
           restoreOpen |-> FALSE, stopConfirmed |-> FALSE ]

Configured == [Reset EXCEPT !.restoreOpen = TRUE]

Restored(g, credit) ==
  IF g.restoreOpen
  THEN [g EXCEPT !.pending = Lesser(credit, MinOff), !.restoreOpen = FALSE]
  ELSE g

AddCredit(credit, elapsed) ==
  IF elapsed >= MinOff - credit THEN MinOff ELSE credit + elapsed

\* mutant: the time of the observation is not recorded
ObservedStopped_OldStamp(g, t) ==
  LET elapsed == Elapsed(t, g.last)
  IN [ pending |-> 0, credit |-> IF ~g.stopConfirmed THEN g.pending
                                 ELSE IF elapsed > Freshness THEN 0
                                 ELSE AddCredit(g.credit, elapsed),
       last |-> g.last, restoreOpen |-> FALSE, stopConfirmed |-> TRUE ]

ObservedStopped(g, t) ==
  LET elapsed == Elapsed(t, g.last)
      credit  == IF ~g.stopConfirmed THEN g.pending
                 ELSE IF elapsed > Freshness THEN 0
                 ELSE AddCredit(g.credit, elapsed)
  IN [ pending |-> 0, credit |-> credit, last |-> t,
       restoreOpen |-> FALSE, stopConfirmed |-> TRUE ]

\* mutant: the observation is kept
Invalidated_StopKept(g) == [g EXCEPT !.restoreOpen = FALSE, !.pending = 0]

Invalidated(g) == Reset

Fresh(g, t)    == g.stopConfirmed /\ Elapsed(t, g.last) <= Freshness
CreditAt(g, t) == AddCredit(g.credit, Elapsed(t, g.last))
CanStart(g, t) == Fresh(g, t) /\ CreditAt(g, t) >= MinOff

Remaining(g, t) ==
  IF ~Fresh(g, t) THEN MinOff
  ELSE IF CreditAt(g, t) >= MinOff THEN 0
  ELSE MinOff - CreditAt(g, t)

SnapshotCredit(g, t) == IF Fresh(g, t) THEN g.credit ELSE 0
-----------------------------------------------------------------------------
VARIABLES
  guard,    \* UnitState.restart_guard
  now,      \* millis()
  silent,   \* time since UnitState.last_link_round_ms, at most LinkTimeout
  plant,    \* what the outdoor unit does
  offTime,  \* how long the compressor has been off, counted to MinOff
  unseen    \* time since telemetry last confirmed the stop, past Freshness

guardVars == <<guard, now, silent, plant, offTime, unseen>>

\* "starting": a start command is under way; the compressor may come on any time.
PlantState == {"off", "starting", "running"}

GuardTypeOK ==
  /\ guard \in Policy
  /\ now \in Clock
  /\ silent \in 0 .. LinkTimeout
  /\ plant \in PlantState
  /\ offTime \in 0 .. MinOff
  /\ unseen \in 0 .. Freshness + 1

(* setup() configures the guard of a unit whose compressor may be doing    *)
(* anything: the controller has just booted.                               *)
GuardInit ==
  /\ guard = Configured
  /\ now = 0
  /\ silent = 0
  /\ plant \in PlantState
  /\ offTime \in 0 .. MinOff
  /\ plant = "running" => offTime = 0
  /\ unseen = Freshness + 1

(* setup(): credit from the restart handoff.  RestartHandoff shows that    *)
(* what it hands over is rest the compressor has really had.               *)
RestoreCredit ==
  /\ guard.restoreOpen
  /\ plant = "off"
  /\ \E credit \in 0 .. offTime : guard' = Restored(guard, credit)
  /\ UNCHANGED <<now, silent, plant, offTime, unseen>>

(* observe_compressor_frequency(): a new mode sample and a new frequency   *)
(* sample both say that the compressor is off, and complete a link round.  *)
ObserveStopped ==
  /\ plant = "off"
  /\ guard' = ObservedStopped(guard, now)
  /\ unseen' = 0
  /\ silent' = 0
  /\ UNCHANGED <<now, plant, offTime>>

(* Telemetry of a running unit, a lost transport, a sample that is not a   *)
(* number, an unusable frequency mapping: all drop the credit.             *)
ObserveOtherwise ==
  /\ guard' = Invalidated(guard)
  /\ silent' \in {silent, 0}
  /\ UNCHANGED <<now, plant, offTime, unseen>>

\* mutant: silence does not drop the credit
LoopLinkTimeout_CreditKept ==
  /\ silent >= LinkTimeout
  /\ silent' = 0
  /\ UNCHANGED <<guard, now, plant, offTime, unseen>>

(* loop(): a link round that stays out for LINK_ROUND_TIMEOUT_MS.          *)
LoopLinkTimeout ==
  /\ silent >= LinkTimeout
  /\ guard' = Invalidated(guard)
  /\ silent' = 0
  /\ UNCHANGED <<now, plant, offTime, unseen>>

(* request_start() of a unit that is STOPPED: the credit is dropped before *)
(* the write enters the Modbus queue.                                      *)
StartCommand ==
  /\ plant = "off"
  /\ CanStart(guard, now)
  /\ guard' = Invalidated(guard)
  /\ plant' = "starting"
  /\ UNCHANGED <<now, silent, offTime, unseen>>

CompressorOn ==
  /\ plant = "starting"
  /\ plant' = "running"
  /\ offTime' = 0
  /\ UNCHANGED <<guard, now, silent, unseen>>

CompressorOff ==
  /\ plant \in {"starting", "running"}
  /\ plant' = "off"
  /\ UNCHANGED <<guard, now, silent, offTime, unseen>>

(* The controller restarts: memory is gone and millis() starts again.      *)
Reboot ==
  /\ guard' = Configured
  /\ now' = 0
  /\ silent' = 0
  /\ unseen' = Freshness + 1
  /\ UNCHANGED <<plant, offTime>>

(* Time passes.  loop() runs often enough that a link timeout is handled   *)
(* when it is due.                                                         *)
TimePasses ==
  /\ silent < LinkTimeout
  /\ now' = NextTime(now)
  /\ silent' = silent + 1
  /\ offTime' = IF plant = "running" THEN 0 ELSE Lesser(offTime + 1, MinOff)
  /\ unseen' = Lesser(unseen + 1, Freshness + 1)
  /\ UNCHANGED <<guard, plant>>

GuardNext ==
  \/ RestoreCredit \/ ObserveStopped \/ ObserveOtherwise \/ LoopLinkTimeout
  \/ StartCommand \/ CompressorOn \/ CompressorOff \/ Reboot \/ TimePasses

GuardSpec == GuardInit /\ [][GuardNext]_guardVars
-----------------------------------------------------------------------------
(* Safety: whenever the guard would let a start through, the compressor    *)
(* has really been off for MinimumOff, whatever observations, restarts and *)
(* clock wraps came before.                                                *)
RestedWhenAllowed == CanStart(guard, now) => offTime >= MinOff

(* Safety: what a controlled restart would save as credit is never more    *)
(* than the rest the compressor has had (snapshot_credit_ms()).            *)
SnapshotIsEarned == SnapshotCredit(guard, now) <= offTime

(* Safety: a start is never let through on an observation older than       *)
(* Freshness, although the age of an observation is computed on a clock    *)
(* that wraps: the link timeout drops the credit long before the wrap can  *)
(* make an old observation look new.                                       *)
FreshEvidence == CanStart(guard, now) => unseen <= Freshness

(* Action property: a unit that was off is put under way only after a full *)
(* rest.                                                                   *)
StartsRested ==
  [][plant = "off" /\ plant' = "starting" => offTime >= MinOff]_guardVars
=============================================================================
