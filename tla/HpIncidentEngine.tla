-------------------------- MODULE HpIncidentEngine --------------------------
(***************************************************************************)
(* The incident engine of one heat pump                                    *)
(* (openquatt/includes/incidents/oq_hp_incident_engine.h).                 *)
(*                                                                         *)
(* The engine turns telemetry rounds, fault words, compressor samples and  *)
(* commands into three things the rest of the controller relies on: may    *)
(* this unit be started, must it stop, and may the boiler take over from   *)
(* it.  It is one C++ object; its private state is the record `engine` and *)
(* every public member function is an operator from record to record.      *)
(*                                                                         *)
(* Time: every call carries `now`, and the engine looks at how long ago    *)
(* something started.  The model keeps those durations instead of the      *)
(* timestamps and stops counting them where nothing distinguishes them any *)
(* more; `d` is the time since the previous call.                          *)
(***************************************************************************)
EXTENDS Naturals, FiniteSets

CONSTANTS
  Incident,             \* the fault bits modelled
  Kind,                 \* [Incident -> IncidentKind]: their catalog entry
  BankOf,               \* [Incident -> Bank]: the fault register that holds the bit
  Bank,                 \* the fault registers
  MaxStep,              \* most time between two calls
  LinkLostRounds, LinkLostTime,
  LinkRecoveryRounds, LinkRecoveryTime,
  FaultRecoveryRounds, FaultRecoveryTime,
  StopReads, StopTime,  \* stop_confirm_reads, stop_confirm_timeout_ms
  ModeAckTime, StartTime

(* Catalog entries by what they do: "hard" stops the compressor and allows *)
(* boiler fallback, "locked" does so until a power cycle is confirmed,     *)
(* "preheat" and "unknown" only block a start, "limit" only caps capacity. *)
IncidentKind == {"hard", "locked", "preheat", "unknown", "limit"}

ASSUME EngineAssumption ==
  /\ IsFiniteSet(Incident) /\ Bank # {}
  /\ Kind \in [Incident -> IncidentKind]
  /\ BankOf \in [Incident -> Bank]
  /\ \A n \in {LinkLostRounds, LinkRecoveryRounds, FaultRecoveryRounds, StopReads} :
       n \in Nat \ {0}
  /\ \A t \in {MaxStep, LinkLostTime, LinkRecoveryTime, FaultRecoveryTime,
               StopTime, ModeAckTime, StartTime} : t \in Nat
  /\ ModeAckTime <= StartTime

AtMost(cap, n) == IF n <= cap THEN n ELSE cap

LinkState == {"BOOTSTRAP", "HEALTHY", "SUSPECT", "LOST", "RECOVERING"}
RunState  == {"UNKNOWN", "STOPPED", "START_REQUESTED", "WAIT_MODE",
              "WAIT_COMPRESSOR", "RUNNING", "STOPPING", "STOP_UNCONFIRMED"}

TripReads(i)  == IF Kind[i] \in {"hard", "locked", "unknown"} THEN 2 ELSE 1
ClearReads(i) == IF Kind[i] \in {"hard", "locked", "unknown"} THEN 3 ELSE 2
MaxRounds == LinkLostRounds + LinkRecoveryRounds
MaxLink   == LinkLostTime + LinkRecoveryTime

Runtime == [raw : BOOLEAN, confirmed : BOOLEAN, latched : BOOLEAN,
            acknowledged : BOOLEAN, streak : 0 .. 3]

\* linkRounds and linkAge count missed rounds while SUSPECT and complete ones
\* while RECOVERING; streaks of an incident count trips while its bit is set
\* and clears while it is not.
Engine == [
  link : LinkState, linkRounds : 0 .. MaxRounds, linkAge : 0 .. MaxLink,
  fromLoss : BOOLEAN, everHealthy : BOOLEAN, armed : BOOLEAN,
  inc : [Incident -> Runtime],
  faultSeen : BOOLEAN, recovering : BOOLEAN,
  cleanRounds : 0 .. FaultRecoveryRounds, cleanAge : 0 .. FaultRecoveryTime,
  run : RunState, running : BOOLEAN, stopRequested : BOOLEAN,
  stopInit : BOOLEAN, stopPending : BOOLEAN, stopAge : 0 .. StopTime,
  stopStreak : 0 .. StopReads,
  watchdog : BOOLEAN, waited : 0 .. StartTime, modeSeen : BOOLEAN,
  ackTimedOut : BOOLEAN, startTimedOut : BOOLEAN, wrongMode : BOOLEAN ]

Quiet == [raw |-> FALSE, confirmed |-> FALSE, latched |-> FALSE,
          acknowledged |-> FALSE, streak |-> 0]

InitEngine == [
  link |-> "BOOTSTRAP", linkRounds |-> 0, linkAge |-> 0,
  fromLoss |-> FALSE, everHealthy |-> FALSE, armed |-> FALSE,
  inc |-> [i \in Incident |-> Quiet],
  faultSeen |-> FALSE, recovering |-> FALSE, cleanRounds |-> 0, cleanAge |-> 0,
  run |-> "UNKNOWN", running |-> FALSE, stopRequested |-> FALSE,
  stopInit |-> FALSE, stopPending |-> FALSE, stopAge |-> 0, stopStreak |-> 0,
  watchdog |-> FALSE, waited |-> 0, modeSeen |-> FALSE,
  ackTimedOut |-> FALSE, startTimedOut |-> FALSE, wrongMode |-> FALSE ]
-----------------------------------------------------------------------------
(* Derived outputs: refresh_derived().                                     *)

Effective(e, i) == e.inc[i].confirmed \/ (Kind[i] = "locked" /\ e.inc[i].latched)
StopsCompressor(i) == Kind[i] \in {"hard", "locked"}
HardFault(e) == \E i \in Incident : StopsCompressor(i) /\ Effective(e, i)
StartBlock(e) == \E i \in Incident : Kind[i] # "limit" /\ Effective(e, i)
Preheat(e)   == \E i \in Incident : Kind[i] = "preheat" /\ Effective(e, i)

ConfirmedLoss(e) == e.link = "LOST" \/ (e.link = "RECOVERING" /\ e.fromLoss)

UnconfirmedByLoss(e) ==
  e.armed /\ ConfirmedLoss(e) /\ e.run = "STOP_UNCONFIRMED" /\ ~e.stopPending

MustStop(e) == \/ HardFault(e) \/ e.startTimedOut \/ e.stopPending
               \/ e.run = "STOP_UNCONFIRMED" \/ ConfirmedLoss(e)

Available(e) == /\ e.link = "HEALTHY" /\ ~HardFault(e) /\ ~StartBlock(e)
                /\ ~e.recovering /\ ~e.startTimedOut
                /\ ~e.stopPending /\ e.run # "STOP_UNCONFIRMED"

FallbackCause(e) ==
  HardFault(e) \/ e.recovering \/ e.startTimedOut \/ ConfirmedLoss(e)

FallbackEligible(e) ==
  FallbackCause(e) /\ ~Available(e) /\ e.run = "STOPPED"
-----------------------------------------------------------------------------
(* advance_time(): the start watchdog counts only while a start is under   *)
(* way and no preheat is active; a stop that is not confirmed in time      *)
(* becomes STOP_UNCONFIRMED.                                               *)

Waiting(e) == e.run \in {"START_REQUESTED", "WAIT_MODE", "WAIT_COMPRESSOR"}

\* mutant: the watchdog starts counting with the acknowledged mode
Watched_FromMode(e, d) ==
  IF e.watchdog /\ Waiting(e) /\ ~Preheat(e) /\ e.modeSeen
  THEN [e EXCEPT !.waited = AtMost(StartTime, @ + d), !.startTimedOut = @ \/ e.waited + d >= StartTime]
  ELSE e

Watched(e, d) ==
  IF e.watchdog /\ Waiting(e) /\ ~Preheat(e)
  THEN LET waited == AtMost(StartTime, e.waited + d)
           ackLate == ~e.modeSeen /\ waited >= ModeAckTime
       IN [e EXCEPT !.waited = waited,
                    !.ackTimedOut = @ \/ ackLate,
                    !.startTimedOut = \/ @ \/ waited >= StartTime
                                      \/ ackLate /\ e.wrongMode]
  ELSE e

StopTimed(e) ==
  IF e.stopInit /\ e.run # "STOPPED" /\ e.stopAge >= StopTime
  THEN [e EXCEPT !.run = "STOP_UNCONFIRMED", !.running = FALSE, !.stopPending = FALSE]
  ELSE e

Aged(e, d) ==
  [e EXCEPT !.linkAge  = IF e.link \in {"SUSPECT", "RECOVERING"}
                         THEN AtMost(MaxLink, @ + d) ELSE 0,
            !.cleanAge = IF e.recovering THEN AtMost(FaultRecoveryTime, @ + d) ELSE 0,
            !.stopAge  = IF e.stopInit THEN AtMost(StopTime, @ + d) ELSE 0]

AdvanceTime(e, d) == StopTimed(Watched(Aged(e, d), d))
-----------------------------------------------------------------------------
(* invalidate_stop_confirmation_(): the last stop observation is stale.    *)
StopInvalidated(e) ==
  LET failed == e.run = "STOP_UNCONFIRMED"
  IN [e EXCEPT !.run = IF failed THEN @ ELSE "STOPPING",
               !.stopPending = IF failed THEN @ ELSE TRUE,
               !.running = FALSE, !.stopRequested = FALSE,
               !.stopInit = FALSE, !.stopStreak = 0, !.stopAge = 0]

\* mutant: any unconfirmed stop counts as the loss's own
LinkLost_AlwaysArmed(e) ==
  [StopInvalidated(e) EXCEPT !.link = "LOST", !.linkRounds = 0, !.linkAge = 0,
                             !.fromLoss = TRUE, !.armed = TRUE]

(* mark_link_lost()                                                        *)
LinkLost(e) ==
  [StopInvalidated(e) EXCEPT
     !.link = "LOST", !.linkRounds = 0, !.linkAge = 0, !.fromLoss = TRUE,
     !.armed = e.run # "STOP_UNCONFIRMED" \/ (e.fromLoss /\ @)]

Healthy(e) ==
  [e EXCEPT !.link = "HEALTHY", !.linkRounds = 0, !.linkAge = 0, !.armed = FALSE]

\* mutant: a loss is over with the first complete round
CompleteRound_OneIsEnough(e) ==
  IF e.link = "HEALTHY" THEN [e EXCEPT !.linkRounds = 0]
  ELSE [Healthy(e) EXCEPT !.fromLoss = FALSE, !.everHealthy = TRUE]

(* observe_complete_link_round().  The first complete round of a unit that *)
(* was SUSPECT before it was ever HEALTHY enters RECOVERING and then also  *)
(* falls into the branch that counts a round of RECOVERING.                *)
RecoveryStarted(e, n, loss) ==
  [e EXCEPT !.link = "RECOVERING", !.fromLoss = loss, !.linkRounds = n, !.linkAge = 0]

RoundCounted(e) ==
  CASE e.link = "SUSPECT"    -> RecoveryStarted(e, 2, FALSE)
    [] e.link = "BOOTSTRAP"  -> RecoveryStarted(e, 1, FALSE)
    [] e.link = "LOST"       -> RecoveryStarted(e, 1, TRUE)
    [] OTHER -> [e EXCEPT !.linkRounds = AtMost(LinkRecoveryRounds, @ + 1)]

Recovered(e) ==
  IF e.linkRounds >= LinkRecoveryRounds /\ e.linkAge >= LinkRecoveryTime
  THEN [Healthy(e) EXCEPT !.fromLoss = FALSE, !.everHealthy = TRUE]
  ELSE e

CompleteRound(e) ==
  IF e.link = "HEALTHY" THEN e
  ELSE IF e.link = "SUSPECT" /\ e.everHealthy THEN Healthy(e)
  ELSE Recovered(RoundCounted(e))

(* observe_incomplete_link_round()                                         *)
Missed(e) ==
  IF e.link = "SUSPECT"
  THEN [e EXCEPT !.linkRounds = AtMost(LinkLostRounds, @ + 1)]
  ELSE [e EXCEPT !.link = "SUSPECT", !.linkRounds = 1, !.linkAge = 0]

MissedTooLong(e) == e.linkRounds >= LinkLostRounds /\ e.linkAge >= LinkLostTime

IncompleteRound(e) ==
  IF e.link = "LOST" THEN e
  ELSE IF e.link = "RECOVERING" /\ e.fromLoss THEN LinkLost(e)
  ELSE IF MissedTooLong(Missed(e)) THEN LinkLost(Missed(e))
  ELSE Missed(e)

ObserveLinkRound(e, d, complete) ==
  LET t == AdvanceTime(e, d)
  IN IF complete THEN CompleteRound(t) ELSE IncompleteRound(t)
-----------------------------------------------------------------------------
(* update_incident(): a bit confirms after TripReads and clears after      *)
(* ClearReads consecutive reads.  What stays latched afterwards is history *)
(* to acknowledge, except for a lock, which keeps controlling.             *)
Updated(r, i, raw) ==
  IF raw THEN
    LET streak == AtMost(TripReads(i), IF r.raw THEN r.streak + 1 ELSE 1)
        trips  == ~r.confirmed /\ streak >= TripReads(i)
    IN [ raw |-> TRUE, confirmed |-> r.confirmed \/ trips,
         latched |-> r.latched \/ trips,
         acknowledged |-> r.acknowledged /\ ~trips, streak |-> streak ]
  ELSE
    LET streak == IF ~r.confirmed THEN 0 ELSE IF r.raw THEN 1 ELSE r.streak + 1
        clears == r.confirmed /\ streak >= ClearReads(i)
    IN [ raw |-> FALSE, confirmed |-> r.confirmed /\ ~clears,
         latched |-> IF clears /\ Kind[i] # "locked" THEN ~r.acknowledged ELSE r.latched,
         acknowledged |-> r.acknowledged,
         streak |-> IF clears THEN 0 ELSE streak ]

\* mutant: a partial set of fault words counts as a clean round
FaultRecovery_PartialCounts(e, complete) ==
  IF HardFault(e)
  THEN [e EXCEPT !.faultSeen = TRUE, !.recovering = FALSE, !.cleanRounds = 0, !.cleanAge = 0]
  ELSE IF ~e.faultSeen THEN e
  ELSE LET r == IF ~e.recovering
                THEN [e EXCEPT !.recovering = TRUE, !.cleanAge = 0, !.cleanRounds = 1]
                ELSE [e EXCEPT !.cleanRounds = AtMost(FaultRecoveryRounds, @ + 1)]
       IN IF r.cleanRounds >= FaultRecoveryRounds /\ r.cleanAge >= FaultRecoveryTime
          THEN [r EXCEPT !.recovering = FALSE, !.cleanRounds = 0, !.cleanAge = 0,
                         !.faultSeen = FALSE]
          ELSE r

(* update_fault_recovery()                                                 *)
FaultRecovery(e, complete) ==
  IF HardFault(e)
  THEN [e EXCEPT !.faultSeen = TRUE, !.recovering = FALSE, !.cleanRounds = 0, !.cleanAge = 0]
  ELSE IF ~e.faultSeen THEN e
  ELSE LET one == IF complete THEN 1 ELSE 0
           r == IF ~e.recovering
                THEN [e EXCEPT !.recovering = TRUE, !.cleanAge = 0, !.cleanRounds = one]
                ELSE [e EXCEPT !.cleanRounds = AtMost(FaultRecoveryRounds, @ + one)]
       IN IF complete /\ r.cleanRounds >= FaultRecoveryRounds
                      /\ r.cleanAge >= FaultRecoveryTime
          THEN [r EXCEPT !.recovering = FALSE, !.cleanRounds = 0, !.cleanAge = 0,
                         !.faultSeen = FALSE]
          ELSE r

FaultsRead(e, fresh, raw) ==
  [e EXCEPT !.inc = [i \in Incident |->
     IF BankOf[i] \in fresh THEN Updated(e.inc[i], i, i \in raw) ELSE e.inc[i]]]

\* mutant: an old stop confirmation survives the onset of a hard fault
ObserveFaultWords_OldStopKept(e, d, fresh, raw) ==
  FaultRecovery(FaultsRead(AdvanceTime(e, d), fresh, raw), fresh = Bank)

(* observe_fault_words(): only fresh banks are read, and the onset of a    *)
(* hard fault makes any earlier stop confirmation stale.                   *)
ObserveFaultWords(e, d, fresh, raw) ==
  LET t == AdvanceTime(e, d)
      r == FaultRecovery(FaultsRead(t, fresh, raw), fresh = Bank)
  IN IF ~HardFault(t) /\ HardFault(r) THEN StopInvalidated(r) ELSE r
-----------------------------------------------------------------------------
(* request_start(): nothing unless a start is available and the unit is    *)
(* known to be stopped.                                                    *)
StartAccepted(e) ==
  [e EXCEPT !.run = "START_REQUESTED", !.running = FALSE,
            !.stopRequested = FALSE, !.stopInit = FALSE, !.stopStreak = 0, !.stopAge = 0,
            !.watchdog = TRUE, !.waited = 0, !.modeSeen = FALSE,
            !.ackTimedOut = FALSE, !.startTimedOut = FALSE,
            !.wrongMode = FALSE, !.stopPending = FALSE]

RequestStart(e, d) ==
  LET t == AdvanceTime(e, d)
  IN IF Available(t) /\ t.run = "STOPPED" THEN StartAccepted(t) ELSE t

(* request_stop(): a repeated request does not restart the stop timeout.   *)
StopInitialized(e) ==
  [e EXCEPT !.stopRequested = TRUE, !.stopInit = TRUE, !.stopAge = 0, !.stopStreak = 0,
            !.run = IF @ = "STOP_UNCONFIRMED" THEN @ ELSE "STOPPING"]

StopAccepted(e) ==
  IF e.run = "STOPPED" THEN [e EXCEPT !.stopRequested = FALSE]
  ELSE IF e.stopInit THEN [e EXCEPT !.stopRequested = TRUE]
  ELSE StopInitialized(e)

RequestStop(e, d) == StopAccepted(AdvanceTime(e, d))

(* observe_run(), the compressor runs.  Running in another mode than the   *)
(* one requested is not a successful start.                                *)
SampleActive(e) ==
  LET s == [e EXCEPT !.armed = FALSE, !.stopStreak = 0]
  IN IF e.stopRequested
     THEN [s EXCEPT !.run = IF @ = "STOP_UNCONFIRMED" THEN @ ELSE "STOPPING"]
     ELSE s

SampleStarted(e, modeMatches) ==
  IF Waiting(e) /\ ~modeMatches
  THEN [e EXCEPT !.running = FALSE, !.wrongMode = TRUE, !.run = "WAIT_MODE"]
  ELSE [e EXCEPT !.running = TRUE, !.wrongMode = FALSE, !.run = "RUNNING",
                 !.watchdog = FALSE]

(* observe_run(), the compressor stands still and the mode says stop.      *)
SampleStopped(e) ==
  LET streak == AtMost(StopReads, e.stopStreak + 1)
  IN IF streak >= StopReads
     THEN [e EXCEPT !.run = "STOPPED", !.running = FALSE,
                    !.stopRequested = FALSE, !.stopInit = FALSE,
                    !.stopPending = FALSE, !.stopStreak = 0, !.stopAge = 0,
                    !.wrongMode = FALSE, !.armed = FALSE]
     ELSE [e EXCEPT !.stopStreak = streak,
                    !.run = IF @ = "STOP_UNCONFIRMED" THEN @ ELSE "STOPPING"]

\* A sample counts only when fresh and, in a stop revalidation, only after
\* the new stop command.
Consumed(e, fresh) == fresh /\ (e.stopPending => e.stopInit)

SampleInactive(e, modeMatches, stopMode) ==
  IF Waiting(e)
  THEN [e EXCEPT !.wrongMode = FALSE,
                 !.run = IF modeMatches THEN "WAIT_COMPRESSOR" ELSE "WAIT_MODE"]
  ELSE IF ~stopMode
  THEN [e EXCEPT !.stopStreak = 0,
                 !.run = IF e.stopRequested /\ @ # "STOP_UNCONFIRMED"
                         THEN "STOPPING" ELSE @]
  ELSE IF e.run = "STOPPED" /\ ~e.stopRequested
  THEN [e EXCEPT !.stopStreak = 0]
  ELSE SampleStopped(e)

Sampled(e, modeMatches, stopMode, active) ==
  LET s == [e EXCEPT !.modeSeen = @ \/ modeMatches]
  IN IF ~active THEN SampleInactive(s, modeMatches, stopMode)
     ELSE IF s.stopRequested THEN SampleActive(s)
     ELSE SampleStarted(SampleActive(s), modeMatches)

ObserveRun(e, d, fresh, modeMatches, stopMode, active) ==
  LET t == AdvanceTime(e, d)
  IN IF Consumed(t, fresh) THEN Sampled(t, modeMatches, stopMode, active) ELSE t
-----------------------------------------------------------------------------
\* mutant: a failed start can be retried on a unit that did not stop
RetryReady_AnyRun(e) ==
  e.startTimedOut /\ e.link = "HEALTHY" /\ ~HardFault(e) /\ ~e.recovering

(* start_failure_reset_status() is READY; clear_start_failure().           *)
RetryReady(e) ==
  /\ e.startTimedOut /\ e.run = "STOPPED" /\ e.link = "HEALTHY"
  /\ ~HardFault(e) /\ ~e.recovering

RetryAccepted(e) ==
  [e EXCEPT !.watchdog = FALSE, !.waited = 0, !.modeSeen = FALSE,
            !.ackTimedOut = FALSE, !.startTimedOut = FALSE, !.wrongMode = FALSE]

ClearStartFailure(e, d) ==
  LET t == AdvanceTime(e, d) IN IF RetryReady(t) THEN RetryAccepted(t) ELSE t

\* mutant: a lock can be acknowledged away like any other incident
Acknowledge_LocksToo(e, i) ==
  IF e.inc[i].confirmed \/ e.inc[i].latched
  THEN [e EXCEPT !.inc[i] = [@ EXCEPT !.acknowledged = TRUE,
                                      !.latched = e.inc[i].latched /\ e.inc[i].confirmed]]
  ELSE e

(* acknowledge()                                                           *)
Acknowledge(e, i) ==
  IF (e.inc[i].confirmed \/ e.inc[i].latched) /\ Kind[i] # "locked"
  THEN [e EXCEPT !.inc[i] = [@ EXCEPT !.acknowledged = TRUE,
                                      !.latched = e.inc[i].latched /\ e.inc[i].confirmed]]
  ELSE e

Releasable(e, i) ==
  LET r == e.inc[i]
  IN Kind[i] = "locked" /\ r.latched /\ ~r.confirmed /\ ~r.raw

(* restore_power_cycle_latch(), confirm_odu_power_cycle()                  *)
RestoreLatch(e, i) ==
  IF Kind[i] = "locked"
  THEN [e EXCEPT !.inc[i] = [@ EXCEPT !.latched = TRUE, !.acknowledged = FALSE]]
  ELSE e

Released(e) ==
  [e EXCEPT !.inc = [i \in Incident |->
     IF Releasable(e, i)
     THEN [e.inc[i] EXCEPT !.latched = FALSE, !.acknowledged = TRUE]
     ELSE e.inc[i]]]

ConfirmPowerCycle(e, d) ==
  LET t == AdvanceTime(e, d)
  IN IF \E i \in Incident : Releasable(t, i)
     THEN [Released(t) EXCEPT !.faultSeen = TRUE, !.recovering = TRUE,
                              !.cleanAge = 0, !.cleanRounds = 0]
     ELSE t
-----------------------------------------------------------------------------
VARIABLES
  engine,
  seen      \* what has really been observed, for the properties only

vars == <<engine, seen>>

(* seen.stops     consecutive stopped samples consumed since the compressor *)
(*                was last seen running, a start was requested, or the link *)
(*                was lost or a hard fault set in                           *)
(* seen.failed    the present STOP_UNCONFIRMED began without a link loss    *)
(* seen.clean     complete snapshots without a hard fault since the last one *)
(* seen.cleanTime time since a hard fault was last effective, but while one *)
(*                is, time since a power cycle was confirmed also counts    *)
(*                until the fault is read again (confirm_odu_power_cycle()) *)
(* seen.rounds    complete link rounds in a row since the link was lost     *)
Observed == [stops : 0 .. StopReads, failed : BOOLEAN,
             clean : 0 .. FaultRecoveryRounds, cleanTime : 0 .. FaultRecoveryTime,
             rounds : 0 .. LinkRecoveryRounds]

TypeOK == engine \in Engine /\ seen \in Observed

Init ==
  /\ engine = InitEngine
  /\ seen = [stops |-> 0, failed |-> FALSE, clean |-> FaultRecoveryRounds,
             cleanTime |-> FaultRecoveryTime, rounds |-> LinkRecoveryRounds]

\* What makes an earlier observation of a stop worthless.
Voids(e, f) == \/ ~HardFault(e) /\ HardFault(f)
               \/ f.link = "LOST" /\ e.link # "LOST"
               \/ f.run = "START_REQUESTED" /\ e.run # "START_REQUESTED"

Faulty(e) == HardFault(e) /\ ~e.recovering

(* How every step changes what has been seen; `stops` is the count before  *)
(* events that void it.                                                    *)
See(d, stops, snapshot, roundsSeen) ==
  LET e == engine'
  IN seen' =
     [ stops  |-> IF Voids(engine, e) THEN 0 ELSE stops,
       failed |-> /\ e.run = "STOP_UNCONFIRMED"
                  /\ \/ seen.failed
                     \/ engine.run # "STOP_UNCONFIRMED" /\ ~ConfirmedLoss(engine),
       clean  |-> IF HardFault(e) THEN 0 ELSE AtMost(FaultRecoveryRounds, seen.clean + snapshot),
       cleanTime |-> IF Faulty(e) \/ Faulty(engine) THEN 0
                     ELSE AtMost(FaultRecoveryTime, seen.cleanTime + d),
       rounds |-> IF e.link = "LOST" THEN 0 ELSE roundsSeen ]

Unseen(d) == See(d, seen.stops, 0, seen.rounds)

LinkRound(d) == \E complete \in BOOLEAN :
  /\ engine' = ObserveLinkRound(engine, d, complete)
  /\ See(d, seen.stops, 0, IF complete THEN AtMost(LinkRecoveryRounds, seen.rounds + 1)
                           ELSE seen.rounds)

FaultWords(d) == \E fresh \in SUBSET Bank \ {{}} :
  \E raw \in SUBSET {i \in Incident : BankOf[i] \in fresh} :
    /\ engine' = ObserveFaultWords(engine, d, fresh, raw)
    /\ See(d, seen.stops, IF fresh = Bank THEN 1 ELSE 0, seen.rounds)

\* A stale sample is not looked at, so what it would say makes no difference.
Says(fresh) == IF fresh THEN BOOLEAN ELSE {FALSE}

RunSample(d) == \E fresh \in BOOLEAN :
  \E modeMatches, stopMode, active \in Says(fresh) :
  LET t == AdvanceTime(engine, d)
      consumed == Consumed(t, fresh)
      stops == IF ~consumed \/ (t.run = "STOPPED" /\ ~active) THEN seen.stops
               ELSE IF active \/ ~stopMode \/ Waiting(t) THEN 0
               ELSE AtMost(StopReads, seen.stops + 1)
  IN /\ engine' = ObserveRun(engine, d, fresh, modeMatches, stopMode, active)
     /\ See(d, stops, 0, seen.rounds)

Start(d)  == engine' = RequestStart(engine, d) /\ Unseen(d)
Stop(d)   == engine' = RequestStop(engine, d) /\ Unseen(d)
Tick(d)   == engine' = AdvanceTime(engine, d) /\ Unseen(d)
Retry(d)  == engine' = ClearStartFailure(engine, d) /\ Unseen(d)
Confirm(d) == engine' = ConfirmPowerCycle(engine, d) /\ Unseen(d)
Ack       == \E i \in Incident : engine' = Acknowledge(engine, i) /\ Unseen(0)

(* setup_manual_reset_persistence_() and the recovery of its storage       *)
(* restore latches at boot, before the first start.                        *)
Restore ==
  /\ engine.link = "BOOTSTRAP" /\ engine.run = "UNKNOWN"
  /\ \E i \in Incident : engine' = RestoreLatch(engine, i) /\ Unseen(0)

Step(d) == \/ LinkRound(d) \/ FaultWords(d) \/ RunSample(d) \/ Start(d)
           \/ Stop(d) \/ Tick(d) \/ Retry(d) \/ Confirm(d)

Next == (\E d \in 0 .. MaxStep : Step(d)) \/ Ack \/ Restore

Spec == Init /\ [][Next]_vars

(* The manager's loop() ticks the engine once a second.                    *)
LoopRuns == WF_vars(Tick(1))
FairSpec == Spec /\ LoopRuns
-----------------------------------------------------------------------------
(* Safety: the boiler is only offered the heat pump's place on a stop that *)
(* was confirmed by consecutive samples taken after whatever made the unit *)
(* unavailable: a confirmation that predates a hard fault or a link loss   *)
(* does not count ("cannot authorize CM4").                                *)
FallbackOnFreshStop ==
  FallbackEligible(engine) => seen.stops >= StopReads

(* Safety: a stop failure that predates a link loss is never laundered     *)
(* into the degraded permission that a loss gives (mark_link_lost()),      *)
(* however the link flaps.                                                 *)
DegradedOnlyByLoss == UnconfirmedByLoss(engine) => ~seen.failed

(* Action property: after a hard fault a start needs the whole recovery    *)
(* window: enough complete clean snapshots over enough time.               *)
StartAfterFaultRecovery ==
  [][ engine'.run = "START_REQUESTED" /\ engine.run # "START_REQUESTED"
      => /\ seen.clean >= FaultRecoveryRounds
         /\ seen'.cleanTime >= FaultRecoveryTime ]_vars

(* Action property: after a confirmed loss the link is healthy again only  *)
(* with enough complete rounds in a row.                                   *)
LossNeedsFullRecovery ==
  [][ engine'.link = "HEALTHY" /\ engine.link # "HEALTHY"
      => seen'.rounds >= LinkRecoveryRounds ]_vars

(* Action property: a lock is only released by the confirmed power cycle,  *)
(* with its bit clear.                                                     *)
LockHeld ==
  [][ \A i \in Incident :
        Kind[i] = "locked" /\ engine.inc[i].latched /\ ~engine'.inc[i].latched
        => Releasable(engine, i) /\ \E d \in 0 .. MaxStep : Confirm(d) ]_vars

(* Action property: a failed start stays a reason to stop until it is      *)
(* retried explicitly on a unit that was seen to stop.                     *)
StartFailureLatched ==
  [][ engine.startTimedOut /\ ~engine'.startTimedOut
      => /\ \E d \in 0 .. MaxStep : Retry(d)
         /\ engine.run = "STOPPED" /\ seen.stops >= StopReads ]_vars

(* Liveness: a stop request is answered; it ends confirmed, unconfirmed or *)
(* withdrawn by a new revalidation.                                        *)
StopResolves ==
  engine.stopInit ~> (~engine.stopInit \/ engine.run = "STOP_UNCONFIRMED")

(* Liveness: a start either gets away from waiting or fails, as long as    *)
(* preheat does not go on for ever.                                        *)
StartResolves ==
  <>[]~Preheat(engine) => (Waiting(engine) ~> (~Waiting(engine) \/ engine.startTimedOut))

(* Liveness: no request stays open for ever (advance_time(), observe_run). *)
RunResolves == StopResolves /\ StartResolves
=============================================================================
