---------------------- MODULE HpIncidentEngine_proofs ----------------------
(***************************************************************************)
(* Proofs about the incident engine, for every fault catalog, every number *)
(* of rounds and reads and every timeout.                                  *)
(*                                                                         *)
(* Part 1: every member function keeps the record in its type.             *)
(* Part 2: what a call may do to the confirmation of a stop.  Every call   *)
(* but a compressor sample is Harmless: it can void a confirmation, not    *)
(* bring one nearer.  A sample counts exactly as `seen` counts.            *)
(* Part 3: the invariant and the theorems.                                 *)
(* Part 4: what each call leaves alone, and with it the steps that no call *)
(* may take: out of a loss, a fault, a lock or a failed start.             *)
(***************************************************************************)
EXTENDS HpIncidentEngine, TLAPS

(* The engine record by parts.                                             *)
Shape(r) == r = [f \in DOMAIN InitEngine |-> r[f]]
LinkOK(r) ==
  /\ r.link \in LinkState /\ r.linkRounds \in 0 .. MaxRounds /\ r.linkAge \in 0 .. MaxLink
  /\ r.fromLoss \in BOOLEAN /\ r.everHealthy \in BOOLEAN /\ r.armed \in BOOLEAN
FaultsOK(r) ==
  /\ r.inc \in [Incident -> Runtime]
  /\ r.faultSeen \in BOOLEAN /\ r.recovering \in BOOLEAN
  /\ r.cleanRounds \in 0 .. FaultRecoveryRounds /\ r.cleanAge \in 0 .. FaultRecoveryTime
RunOK(r) ==
  /\ r.run \in RunState /\ r.running \in BOOLEAN /\ r.stopRequested \in BOOLEAN
  /\ r.stopInit \in BOOLEAN /\ r.stopPending \in BOOLEAN /\ r.stopAge \in 0 .. StopTime
  /\ r.stopStreak \in 0 .. StopReads
StartOK(r) ==
  /\ r.watchdog \in BOOLEAN /\ r.waited \in 0 .. StartTime /\ r.modeSeen \in BOOLEAN
  /\ r.ackTimedOut \in BOOLEAN /\ r.startTimedOut \in BOOLEAN /\ r.wrongMode \in BOOLEAN

LEMMA EngineParts ==
  ASSUME NEW r
  PROVE  r \in Engine <=> Shape(r) /\ LinkOK(r) /\ FaultsOK(r) /\ RunOK(r) /\ StartOK(r)
  BY DEF Shape, LinkOK, FaultsOK, RunOK, StartOK, Engine, InitEngine

LEMMA Consts ==
  /\ LinkLostRounds \in Nat /\ LinkRecoveryRounds \in Nat
  /\ FaultRecoveryRounds \in Nat /\ StopReads \in Nat
  /\ LinkLostRounds > 0 /\ LinkRecoveryRounds > 0 /\ FaultRecoveryRounds > 0 /\ StopReads > 0
  /\ MaxStep \in Nat /\ LinkLostTime \in Nat /\ LinkRecoveryTime \in Nat
  /\ FaultRecoveryTime \in Nat /\ StopTime \in Nat /\ ModeAckTime \in Nat /\ StartTime \in Nat
  BY EngineAssumption

LEMMA AtMostBound ==
  ASSUME NEW cap \in Nat, NEW n \in Nat PROVE AtMost(cap, n) \in 0 .. cap
  BY DEF AtMost
-----------------------------------------------------------------------------
(* Part 1: types, one lemma per member function.                           *)
LEMMA AgedType ==
  ASSUME NEW e \in Engine, NEW d \in Nat
  PROVE  Aged(e, d) \in Engine
<1> DEFINE s == Aged(e, d)
<1>0. Shape(e) /\ LinkOK(e) /\ FaultsOK(e) /\ RunOK(e) /\ StartOK(e) BY EngineParts
<1>1. Shape(s) BY <1>0 DEF Shape, Aged
<1>2. LinkOK(s)
  <2>1. s.linkAge \in 0 .. MaxLink
    BY <1>0, Consts, AtMostBound DEF Shape, InitEngine, LinkOK, Aged, MaxLink
  <2> QED BY <1>0, <2>1 DEF Shape, InitEngine, LinkOK, Aged
<1>3. FaultsOK(s)
  <2>1. s.cleanAge \in 0 .. FaultRecoveryTime
    BY <1>0, Consts, AtMostBound DEF Shape, InitEngine, FaultsOK, Aged
  <2> QED BY <1>0, <2>1 DEF Shape, InitEngine, FaultsOK, Aged
<1>4. RunOK(s)
  <2>1. s.stopAge \in 0 .. StopTime
    BY <1>0, Consts, AtMostBound DEF Shape, InitEngine, RunOK, Aged
  <2> QED BY <1>0, <2>1 DEF Shape, InitEngine, RunOK, Aged
<1>5. StartOK(s) BY <1>0 DEF Shape, InitEngine, StartOK, Aged
<1> QED BY <1>1, <1>2, <1>3, <1>4, <1>5, EngineParts

LEMMA WatchedType ==
  ASSUME NEW e \in Engine, NEW d \in Nat
  PROVE  Watched(e, d) \in Engine
<1> DEFINE s == Watched(e, d)
<1>0. Shape(e) /\ LinkOK(e) /\ FaultsOK(e) /\ RunOK(e) /\ StartOK(e) BY EngineParts
<1>1. Shape(s) BY <1>0 DEF Shape, Watched
<1>2. LinkOK(s) BY <1>0 DEF Shape, InitEngine, LinkOK, Watched
<1>3. FaultsOK(s) BY <1>0 DEF Shape, InitEngine, FaultsOK, Watched
<1>4. RunOK(s) BY <1>0 DEF Shape, InitEngine, RunOK, Watched
<1>5. StartOK(s)
  <2>1. s.waited \in 0 .. StartTime
    BY <1>0, Consts, AtMostBound DEF Shape, InitEngine, StartOK, Watched
  <2>2. s.startTimedOut \in BOOLEAN /\ s.ackTimedOut \in BOOLEAN
    BY <1>0 DEF Shape, InitEngine, StartOK, Watched
  <2>3. s.watchdog \in BOOLEAN /\ s.modeSeen \in BOOLEAN /\ s.wrongMode \in BOOLEAN
    BY <1>0 DEF Shape, InitEngine, StartOK, Watched
  <2> HIDE DEF s
  <2> QED BY <2>1, <2>2, <2>3 DEF StartOK
<1> QED BY <1>1, <1>2, <1>3, <1>4, <1>5, EngineParts

LEMMA StopTimedType == ASSUME NEW e \in Engine PROVE StopTimed(e) \in Engine
<1> DEFINE s == StopTimed(e)
<1>0. Shape(e) /\ LinkOK(e) /\ FaultsOK(e) /\ RunOK(e) /\ StartOK(e) BY EngineParts
<1>1. Shape(s) BY <1>0 DEF Shape, StopTimed
<1>2. LinkOK(s) BY <1>0 DEF Shape, InitEngine, LinkOK, StopTimed
<1>3. FaultsOK(s) BY <1>0 DEF Shape, InitEngine, FaultsOK, StopTimed
<1>4. RunOK(s)
  <2>1. s.run \in RunState
    BY <1>0 DEF Shape, InitEngine, RunOK, StopTimed, RunState
  <2>2. s.running \in BOOLEAN /\ s.stopPending \in BOOLEAN
    BY <1>0 DEF Shape, InitEngine, RunOK, StopTimed
  <2>3. s.stopRequested \in BOOLEAN /\ s.stopInit \in BOOLEAN
    BY <1>0 DEF Shape, InitEngine, RunOK, StopTimed
  <2>4. s.stopAge \in 0 .. StopTime /\ s.stopStreak \in 0 .. StopReads
    BY <1>0 DEF Shape, InitEngine, RunOK, StopTimed
  <2> HIDE DEF s
  <2> QED BY <2>1, <2>2, <2>3, <2>4 DEF RunOK
<1>5. StartOK(s) BY <1>0 DEF Shape, InitEngine, StartOK, StopTimed
<1> QED BY <1>1, <1>2, <1>3, <1>4, <1>5, EngineParts

LEMMA StopInvalidatedType ==
  ASSUME NEW e \in Engine
  PROVE  StopInvalidated(e) \in Engine
<1> DEFINE s == StopInvalidated(e)
<1>0. Shape(e) /\ LinkOK(e) /\ FaultsOK(e) /\ RunOK(e) /\ StartOK(e) BY EngineParts
<1>1. Shape(s) BY <1>0 DEF Shape, StopInvalidated
<1>2. LinkOK(s) BY <1>0 DEF Shape, InitEngine, LinkOK, StopInvalidated
<1>3. FaultsOK(s) BY <1>0 DEF Shape, InitEngine, FaultsOK, StopInvalidated
<1>4. RunOK(s)
  <2>1. s.run \in RunState
    BY <1>0 DEF Shape, InitEngine, RunOK, StopInvalidated, RunState
  <2>2. /\ s.running \in BOOLEAN /\ s.stopRequested \in BOOLEAN
        /\ s.stopInit \in BOOLEAN /\ s.stopPending \in BOOLEAN
    BY <1>0 DEF Shape, InitEngine, RunOK, StopInvalidated
  <2>3. s.stopAge \in 0 .. StopTime /\ s.stopStreak \in 0 .. StopReads
    BY <1>0, Consts DEF Shape, InitEngine, RunOK, StopInvalidated
  <2> HIDE DEF s
  <2> QED BY <2>1, <2>2, <2>3 DEF RunOK
<1>5. StartOK(s) BY <1>0 DEF Shape, InitEngine, StartOK, StopInvalidated
<1> QED BY <1>1, <1>2, <1>3, <1>4, <1>5, EngineParts

LEMMA AdvanceTimeType ==
  ASSUME NEW e \in Engine, NEW d \in Nat PROVE AdvanceTime(e, d) \in Engine
  BY AgedType, WatchedType, StopTimedType DEF AdvanceTime

LEMMA HealthyType == ASSUME NEW e \in Engine PROVE Healthy(e) \in Engine
<1> DEFINE s == Healthy(e)
<1>0. Shape(e) /\ LinkOK(e) /\ FaultsOK(e) /\ RunOK(e) /\ StartOK(e) BY EngineParts
<1>1. Shape(s) BY <1>0 DEF Shape, Healthy
<1>2. LinkOK(s)
  <2>1. s.link \in LinkState
    BY <1>0 DEF Shape, InitEngine, LinkOK, Healthy, LinkState
  <2>2. s.linkRounds \in 0 .. MaxRounds /\ s.linkAge \in 0 .. MaxLink
    BY <1>0, Consts DEF Shape, InitEngine, LinkOK, Healthy, MaxRounds, MaxLink
  <2>3. s.fromLoss \in BOOLEAN /\ s.everHealthy \in BOOLEAN /\ s.armed \in BOOLEAN
    BY <1>0 DEF Shape, InitEngine, LinkOK, Healthy
  <2> HIDE DEF s
  <2> QED BY <2>1, <2>2, <2>3 DEF LinkOK
<1>3. FaultsOK(s) BY <1>0 DEF Shape, InitEngine, FaultsOK, Healthy
<1>4. RunOK(s) BY <1>0 DEF Shape, InitEngine, RunOK, Healthy
<1>5. StartOK(s) BY <1>0 DEF Shape, InitEngine, StartOK, Healthy
<1> QED BY <1>1, <1>2, <1>3, <1>4, <1>5, EngineParts

LEMMA LinkLostType == ASSUME NEW e \in Engine PROVE LinkLost(e) \in Engine
<1> DEFINE i == StopInvalidated(e)
           s == LinkLost(e)
<1> i \in Engine BY StopInvalidatedType
<1>0. Shape(i) /\ LinkOK(i) /\ FaultsOK(i) /\ RunOK(i) /\ StartOK(i) BY EngineParts
<1>1. e.armed \in BOOLEAN /\ e.fromLoss \in BOOLEAN BY EngineParts DEF LinkOK
<1> HIDE DEF i
<1>2. s = [i EXCEPT !.link = "LOST", !.linkRounds = 0, !.linkAge = 0, !.fromLoss = TRUE,
             !.armed = e.run # "STOP_UNCONFIRMED" \/ (e.fromLoss /\ @)]
  BY DEF LinkLost, i
<1> HIDE DEF s
<1>3. Shape(s) BY <1>0, <1>2 DEF Shape
<1>4. LinkOK(s)
  <2>1. s.link \in LinkState BY <1>0, <1>2 DEF Shape, InitEngine, LinkState
  <2>2. s.linkRounds \in 0 .. MaxRounds /\ s.linkAge \in 0 .. MaxLink
    BY <1>0, <1>2, Consts DEF Shape, InitEngine, MaxRounds, MaxLink
  <2>3. s.fromLoss \in BOOLEAN /\ s.everHealthy \in BOOLEAN
    BY <1>0, <1>2 DEF Shape, InitEngine, LinkOK
  <2>4. s.armed \in BOOLEAN
    BY <1>0, <1>1, <1>2 DEF Shape, InitEngine, LinkOK
  <2> QED BY <2>1, <2>2, <2>3, <2>4 DEF LinkOK
<1>5. FaultsOK(s) BY <1>0, <1>2 DEF Shape, InitEngine, FaultsOK
<1>6. RunOK(s) BY <1>0, <1>2 DEF Shape, InitEngine, RunOK
<1>7. StartOK(s) BY <1>0, <1>2 DEF Shape, InitEngine, StartOK
<1> QED BY <1>3, <1>4, <1>5, <1>6, <1>7, EngineParts DEF s

LEMMA RecoveryStartedType ==
  ASSUME NEW e \in Engine, NEW n \in {1, 2}, NEW loss \in BOOLEAN
  PROVE  RecoveryStarted(e, n, loss) \in Engine
<1> DEFINE s == RecoveryStarted(e, n, loss)
<1>0. Shape(e) /\ LinkOK(e) /\ FaultsOK(e) /\ RunOK(e) /\ StartOK(e) BY EngineParts
<1>1. Shape(s) BY <1>0 DEF Shape, RecoveryStarted
<1>2. LinkOK(s)
  <2>1. s.link \in LinkState
    BY <1>0 DEF Shape, InitEngine, LinkOK, RecoveryStarted, LinkState
  <2>2. s.linkRounds \in 0 .. MaxRounds /\ s.linkAge \in 0 .. MaxLink
    BY <1>0, Consts DEF Shape, InitEngine, LinkOK, RecoveryStarted, MaxRounds, MaxLink
  <2>3. s.fromLoss \in BOOLEAN /\ s.everHealthy \in BOOLEAN /\ s.armed \in BOOLEAN
    BY <1>0 DEF Shape, InitEngine, LinkOK, RecoveryStarted
  <2> HIDE DEF s
  <2> QED BY <2>1, <2>2, <2>3 DEF LinkOK
<1>3. FaultsOK(s) BY <1>0 DEF Shape, InitEngine, FaultsOK, RecoveryStarted
<1>4. RunOK(s) BY <1>0 DEF Shape, InitEngine, RunOK, RecoveryStarted
<1>5. StartOK(s) BY <1>0 DEF Shape, InitEngine, StartOK, RecoveryStarted
<1> QED BY <1>1, <1>2, <1>3, <1>4, <1>5, EngineParts

LEMMA AddRounds ==
  ASSUME NEW n \in 0 .. MaxRounds
  PROVE  /\ AtMost(LinkRecoveryRounds, n + 1) \in 0 .. MaxRounds
         /\ AtMost(LinkLostRounds, n + 1) \in 0 .. MaxRounds
  BY Consts DEF AtMost, MaxRounds

LEMMA RoundCountedType ==
  ASSUME NEW e \in Engine
  PROVE  RoundCounted(e) \in Engine
<1> DEFINE s == [e EXCEPT !.linkRounds = AtMost(LinkRecoveryRounds, @ + 1)]
<1>1. s \in Engine BY AddRounds DEF Engine
<1>2. \/ \E n \in {1, 2}, loss \in BOOLEAN : RoundCounted(e) = RecoveryStarted(e, n, loss)
      \/ RoundCounted(e) = s
  BY DEF RoundCounted
<1> QED BY <1>1, <1>2, RecoveryStartedType

LEMMA RecoveredType == ASSUME NEW e \in Engine PROVE Recovered(e) \in Engine
<1>1. Healthy(e) \in Engine BY HealthyType
<1>2. [Healthy(e) EXCEPT !.fromLoss = FALSE, !.everHealthy = TRUE] \in Engine
  BY <1>1 DEF Engine
<1> QED BY <1>2 DEF Recovered

LEMMA CompleteRoundType ==
  ASSUME NEW e \in Engine
  PROVE  CompleteRound(e) \in Engine
  BY HealthyType, RecoveredType, RoundCountedType DEF CompleteRound

LEMMA MissedType == ASSUME NEW e \in Engine PROVE Missed(e) \in Engine
<1> DEFINE s == Missed(e)
<1>0. Shape(e) /\ LinkOK(e) /\ FaultsOK(e) /\ RunOK(e) /\ StartOK(e) BY EngineParts
<1>1. Shape(s) BY <1>0 DEF Shape, Missed
<1>2. LinkOK(s)
  <2>1. s.link \in LinkState
    BY <1>0 DEF Shape, InitEngine, LinkOK, Missed, LinkState
  <2>2. s.linkRounds \in 0 .. MaxRounds
    BY <1>0, Consts, AddRounds DEF Shape, InitEngine, LinkOK, Missed, MaxRounds
  <2>3. s.linkAge \in 0 .. MaxLink
    BY <1>0, Consts DEF Shape, InitEngine, LinkOK, Missed, MaxLink
  <2>4. s.fromLoss \in BOOLEAN /\ s.everHealthy \in BOOLEAN /\ s.armed \in BOOLEAN
    BY <1>0 DEF Shape, InitEngine, LinkOK, Missed
  <2> HIDE DEF s
  <2> QED BY <2>1, <2>2, <2>3, <2>4 DEF LinkOK
<1>3. FaultsOK(s) BY <1>0 DEF Shape, InitEngine, FaultsOK, Missed
<1>4. RunOK(s) BY <1>0 DEF Shape, InitEngine, RunOK, Missed
<1>5. StartOK(s) BY <1>0 DEF Shape, InitEngine, StartOK, Missed
<1> QED BY <1>1, <1>2, <1>3, <1>4, <1>5, EngineParts

LEMMA IncompleteRoundType ==
  ASSUME NEW e \in Engine
  PROVE  IncompleteRound(e) \in Engine
  BY LinkLostType, MissedType DEF IncompleteRound

LEMMA ObserveLinkRoundType ==
  ASSUME NEW e \in Engine, NEW d \in Nat, NEW complete \in BOOLEAN
  PROVE  ObserveLinkRound(e, d, complete) \in Engine
  BY AdvanceTimeType, CompleteRoundType, IncompleteRoundType DEF ObserveLinkRound

LEMMA UpdatedType ==
  ASSUME NEW r \in Runtime, NEW i, NEW raw \in BOOLEAN PROVE Updated(r, i, raw) \in Runtime
<1>1. TripReads(i) \in {1, 2} /\ ClearReads(i) \in {2, 3} BY DEF TripReads, ClearReads
<1>2. CASE raw
  <2> DEFINE n == IF r.raw THEN r.streak + 1 ELSE 1
  <2>1. AtMost(TripReads(i), n) \in 0 .. 3 BY <1>1 DEF AtMost, Runtime
  <2> HIDE DEF n
  <2> QED BY <1>2, <2>1 DEF Updated, Runtime, n
<1>3. CASE ~raw
  <2> DEFINE streak == IF ~r.confirmed THEN 0 ELSE IF r.raw THEN 1 ELSE r.streak + 1
             clears == r.confirmed /\ streak >= ClearReads(i)
             final  == IF clears THEN 0 ELSE streak
  <2>1. final \in 0 .. 3 BY <1>1 DEF Runtime
  <2> QED BY <1>3, <2>1 DEF Updated, Runtime
<1> QED BY <1>2, <1>3

LEMMA FaultsReadType ==
  ASSUME NEW e \in Engine, NEW fresh, NEW raw PROVE FaultsRead(e, fresh, raw) \in Engine
<1>1. e.inc \in [Incident -> Runtime] BY DEF Engine
<1>2. \A i \in Incident : (i \in raw) \in BOOLEAN OBVIOUS
<1>3. \A i \in Incident : Updated(e.inc[i], i, i \in raw) \in Runtime
  BY <1>1, <1>2, UpdatedType
<1>4. [i \in Incident |-> IF BankOf[i] \in fresh THEN Updated(e.inc[i], i, i \in raw) ELSE e.inc[i]]
        \in [Incident -> Runtime]
  BY <1>1, <1>3
<1> QED BY <1>4 DEF FaultsRead, Engine

LEMMA FaultRecoveryType ==
  ASSUME NEW e \in Engine, NEW complete \in BOOLEAN
  PROVE  FaultRecovery(e, complete) \in Engine
<1> DEFINE s == FaultRecovery(e, complete)
<1>0. Shape(e) /\ LinkOK(e) /\ FaultsOK(e) /\ RunOK(e) /\ StartOK(e) BY EngineParts
<1>1. Shape(s) BY <1>0 DEF Shape, FaultRecovery
<1>2. LinkOK(s) BY <1>0 DEF Shape, InitEngine, LinkOK, FaultRecovery
<1>3. FaultsOK(s)
  <2>1. s.cleanRounds \in 0 .. FaultRecoveryRounds
    BY <1>0, Consts DEF Shape, InitEngine, FaultsOK, FaultRecovery, AtMost
  <2>2. s.cleanAge \in 0 .. FaultRecoveryTime
    BY <1>0, Consts DEF Shape, InitEngine, FaultsOK, FaultRecovery
  <2>3. s.inc \in [Incident -> Runtime]
    BY <1>0 DEF Shape, InitEngine, FaultsOK, FaultRecovery
  <2>4. s.faultSeen \in BOOLEAN /\ s.recovering \in BOOLEAN
    BY <1>0 DEF Shape, InitEngine, FaultsOK, FaultRecovery
  <2> HIDE DEF s
  <2> QED BY <2>1, <2>2, <2>3, <2>4 DEF FaultsOK
<1>4. RunOK(s) BY <1>0 DEF Shape, InitEngine, RunOK, FaultRecovery
<1>5. StartOK(s) BY <1>0 DEF Shape, InitEngine, StartOK, FaultRecovery
<1> QED BY <1>1, <1>2, <1>3, <1>4, <1>5, EngineParts

LEMMA ObserveFaultWordsType ==
  ASSUME NEW e \in Engine, NEW d \in Nat, NEW fresh, NEW raw
  PROVE  ObserveFaultWords(e, d, fresh, raw) \in Engine
<1>1. (fresh = Bank) \in BOOLEAN OBVIOUS
<1> QED
  BY <1>1, AdvanceTimeType, FaultsReadType, FaultRecoveryType, StopInvalidatedType
  DEF ObserveFaultWords

LEMMA StartAcceptedType ==
  ASSUME NEW e \in Engine
  PROVE  StartAccepted(e) \in Engine
<1> DEFINE s == StartAccepted(e)
<1>0. Shape(e) /\ LinkOK(e) /\ FaultsOK(e) /\ RunOK(e) /\ StartOK(e) BY EngineParts
<1>1. Shape(s) BY <1>0 DEF Shape, StartAccepted
<1>2. LinkOK(s) BY <1>0 DEF Shape, InitEngine, LinkOK, StartAccepted
<1>3. FaultsOK(s) BY <1>0 DEF Shape, InitEngine, FaultsOK, StartAccepted
<1>4. RunOK(s)
  <2>1. s.run \in RunState
    BY <1>0 DEF Shape, InitEngine, RunOK, StartAccepted, RunState
  <2>2. /\ s.running \in BOOLEAN /\ s.stopRequested \in BOOLEAN
        /\ s.stopInit \in BOOLEAN /\ s.stopPending \in BOOLEAN
    BY <1>0 DEF Shape, InitEngine, RunOK, StartAccepted
  <2>3. s.stopAge \in 0 .. StopTime /\ s.stopStreak \in 0 .. StopReads
    BY <1>0, Consts DEF Shape, InitEngine, RunOK, StartAccepted
  <2> HIDE DEF s
  <2> QED BY <2>1, <2>2, <2>3 DEF RunOK
<1>5. StartOK(s)
  <2>1. /\ s.watchdog \in BOOLEAN /\ s.modeSeen \in BOOLEAN
        /\ s.ackTimedOut \in BOOLEAN /\ s.startTimedOut \in BOOLEAN /\ s.wrongMode \in BOOLEAN
    BY <1>0 DEF Shape, InitEngine, StartOK, StartAccepted
  <2>2. s.waited \in 0 .. StartTime
    BY <1>0, Consts DEF Shape, InitEngine, StartOK, StartAccepted
  <2> HIDE DEF s
  <2> QED BY <2>1, <2>2 DEF StartOK
<1> QED BY <1>1, <1>2, <1>3, <1>4, <1>5, EngineParts

LEMMA RequestStartType ==
  ASSUME NEW e \in Engine, NEW d \in Nat PROVE RequestStart(e, d) \in Engine
  BY AdvanceTimeType, StartAcceptedType DEF RequestStart

LEMMA StopAcceptedType ==
  ASSUME NEW e \in Engine
  PROVE  StopAccepted(e) \in Engine
<1> DEFINE s == StopAccepted(e)
<1>0. Shape(e) /\ LinkOK(e) /\ FaultsOK(e) /\ RunOK(e) /\ StartOK(e) BY EngineParts
<1>1. Shape(s) BY <1>0 DEF Shape, StopAccepted, StopInitialized
<1>2. LinkOK(s) BY <1>0 DEF Shape, InitEngine, LinkOK, StopAccepted, StopInitialized
<1>3. FaultsOK(s) BY <1>0 DEF Shape, InitEngine, FaultsOK, StopAccepted, StopInitialized
<1>4. RunOK(s)
  <2>1. s.run \in RunState
    BY <1>0 DEF Shape, InitEngine, RunOK, StopAccepted, StopInitialized, RunState
  <2>2. /\ s.running \in BOOLEAN /\ s.stopRequested \in BOOLEAN
        /\ s.stopInit \in BOOLEAN /\ s.stopPending \in BOOLEAN
    BY <1>0 DEF Shape, InitEngine, RunOK, StopAccepted, StopInitialized
  <2>3. s.stopAge \in 0 .. StopTime /\ s.stopStreak \in 0 .. StopReads
    BY <1>0, Consts DEF Shape, InitEngine, RunOK, StopAccepted, StopInitialized
  <2> HIDE DEF s
  <2> QED BY <2>1, <2>2, <2>3 DEF RunOK
<1>5. StartOK(s) BY <1>0 DEF Shape, InitEngine, StartOK, StopAccepted, StopInitialized
<1> QED BY <1>1, <1>2, <1>3, <1>4, <1>5, EngineParts

LEMMA RequestStopType ==
  ASSUME NEW e \in Engine, NEW d \in Nat PROVE RequestStop(e, d) \in Engine
  BY AdvanceTimeType, StopAcceptedType DEF RequestStop

LEMMA SampleActiveType ==
  ASSUME NEW e \in Engine
  PROVE  SampleActive(e) \in Engine
<1> DEFINE s == SampleActive(e)
<1>0. Shape(e) /\ LinkOK(e) /\ FaultsOK(e) /\ RunOK(e) /\ StartOK(e) BY EngineParts
<1>1. Shape(s) BY <1>0 DEF Shape, SampleActive
<1>2. LinkOK(s)
  <2>1. s.fromLoss \in BOOLEAN /\ s.everHealthy \in BOOLEAN /\ s.armed \in BOOLEAN
    BY <1>0 DEF Shape, InitEngine, LinkOK, SampleActive
  <2>2. s.link \in LinkState /\ s.linkRounds \in 0 .. MaxRounds /\ s.linkAge \in 0 .. MaxLink
    BY <1>0, Consts DEF Shape, InitEngine, LinkOK, SampleActive
  <2> HIDE DEF s
  <2> QED BY <2>1, <2>2 DEF LinkOK
<1>3. FaultsOK(s) BY <1>0 DEF Shape, InitEngine, FaultsOK, SampleActive
<1>4. RunOK(s)
  <2>1. s.run \in RunState
    BY <1>0 DEF Shape, InitEngine, RunOK, SampleActive, RunState
  <2>2. /\ s.running \in BOOLEAN /\ s.stopRequested \in BOOLEAN
        /\ s.stopInit \in BOOLEAN /\ s.stopPending \in BOOLEAN
    BY <1>0 DEF Shape, InitEngine, RunOK, SampleActive
  <2>3. s.stopAge \in 0 .. StopTime /\ s.stopStreak \in 0 .. StopReads
    BY <1>0, Consts DEF Shape, InitEngine, RunOK, SampleActive
  <2> HIDE DEF s
  <2> QED BY <2>1, <2>2, <2>3 DEF RunOK
<1>5. StartOK(s) BY <1>0 DEF Shape, InitEngine, StartOK, SampleActive
<1> QED BY <1>1, <1>2, <1>3, <1>4, <1>5, EngineParts

LEMMA SampleStartedType ==
  ASSUME NEW e \in Engine, NEW m \in BOOLEAN
  PROVE  SampleStarted(e, m) \in Engine
<1> DEFINE s == SampleStarted(e, m)
<1>0. Shape(e) /\ LinkOK(e) /\ FaultsOK(e) /\ RunOK(e) /\ StartOK(e) BY EngineParts
<1>1. Shape(s) BY <1>0 DEF Shape, SampleStarted
<1>2. LinkOK(s) BY <1>0 DEF Shape, InitEngine, LinkOK, SampleStarted
<1>3. FaultsOK(s) BY <1>0 DEF Shape, InitEngine, FaultsOK, SampleStarted
<1>4. RunOK(s)
  <2>1. s.run \in RunState
    BY <1>0 DEF Shape, InitEngine, RunOK, SampleStarted, RunState
  <2>2. /\ s.running \in BOOLEAN /\ s.stopRequested \in BOOLEAN
        /\ s.stopInit \in BOOLEAN /\ s.stopPending \in BOOLEAN
    BY <1>0 DEF Shape, InitEngine, RunOK, SampleStarted
  <2>3. s.stopAge \in 0 .. StopTime /\ s.stopStreak \in 0 .. StopReads
    BY <1>0, Consts DEF Shape, InitEngine, RunOK, SampleStarted
  <2> HIDE DEF s
  <2> QED BY <2>1, <2>2, <2>3 DEF RunOK
<1>5. StartOK(s)
  <2>1. /\ s.watchdog \in BOOLEAN /\ s.modeSeen \in BOOLEAN
        /\ s.ackTimedOut \in BOOLEAN /\ s.startTimedOut \in BOOLEAN /\ s.wrongMode \in BOOLEAN
    BY <1>0 DEF Shape, InitEngine, StartOK, SampleStarted
  <2>2. s.waited \in 0 .. StartTime
    BY <1>0, Consts DEF Shape, InitEngine, StartOK, SampleStarted
  <2> HIDE DEF s
  <2> QED BY <2>1, <2>2 DEF StartOK
<1> QED BY <1>1, <1>2, <1>3, <1>4, <1>5, EngineParts

LEMMA SampleStoppedType ==
  ASSUME NEW e \in Engine
  PROVE  SampleStopped(e) \in Engine
<1> DEFINE s == SampleStopped(e)
<1>0. Shape(e) /\ LinkOK(e) /\ FaultsOK(e) /\ RunOK(e) /\ StartOK(e) BY EngineParts
<1>1. Shape(s) BY <1>0 DEF Shape, SampleStopped
<1>2. LinkOK(s)
  <2>1. s.fromLoss \in BOOLEAN /\ s.everHealthy \in BOOLEAN /\ s.armed \in BOOLEAN
    BY <1>0 DEF Shape, InitEngine, LinkOK, SampleStopped
  <2>2. s.link \in LinkState /\ s.linkRounds \in 0 .. MaxRounds /\ s.linkAge \in 0 .. MaxLink
    BY <1>0, Consts DEF Shape, InitEngine, LinkOK, SampleStopped
  <2> HIDE DEF s
  <2> QED BY <2>1, <2>2 DEF LinkOK
<1>3. FaultsOK(s) BY <1>0 DEF Shape, InitEngine, FaultsOK, SampleStopped
<1>4. RunOK(s)
  <2>1. s.run \in RunState
    BY <1>0 DEF Shape, InitEngine, RunOK, SampleStopped, RunState
  <2>2. s.stopStreak \in 0 .. StopReads
    BY <1>0, Consts DEF Shape, InitEngine, RunOK, SampleStopped, AtMost
  <2>3. /\ s.running \in BOOLEAN /\ s.stopRequested \in BOOLEAN
        /\ s.stopInit \in BOOLEAN /\ s.stopPending \in BOOLEAN
    BY <1>0 DEF Shape, InitEngine, RunOK, SampleStopped
  <2>4. s.stopAge \in 0 .. StopTime
    BY <1>0, Consts DEF Shape, InitEngine, RunOK, SampleStopped
  <2> HIDE DEF s
  <2> QED BY <2>1, <2>2, <2>3, <2>4 DEF RunOK
<1>5. StartOK(s)
  <2>1. /\ s.watchdog \in BOOLEAN /\ s.modeSeen \in BOOLEAN
        /\ s.ackTimedOut \in BOOLEAN /\ s.startTimedOut \in BOOLEAN /\ s.wrongMode \in BOOLEAN
    BY <1>0 DEF Shape, InitEngine, StartOK, SampleStopped
  <2>2. s.waited \in 0 .. StartTime
    BY <1>0, Consts DEF Shape, InitEngine, StartOK, SampleStopped
  <2> HIDE DEF s
  <2> QED BY <2>1, <2>2 DEF StartOK
<1> QED BY <1>1, <1>2, <1>3, <1>4, <1>5, EngineParts

LEMMA SampleInactiveType ==
  ASSUME NEW e \in Engine, NEW m \in BOOLEAN, NEW stop \in BOOLEAN
  PROVE  SampleInactive(e, m, stop) \in Engine
<1> DEFINE waits == [e EXCEPT !.wrongMode = FALSE,
                       !.run = IF m THEN "WAIT_COMPRESSOR" ELSE "WAIT_MODE"]
           other == [e EXCEPT !.stopStreak = 0,
                       !.run = IF e.stopRequested /\ @ # "STOP_UNCONFIRMED" THEN "STOPPING" ELSE @]
           stays == [e EXCEPT !.stopStreak = 0]
<1>1. waits \in Engine BY DEF Engine, RunState
<1>2. stays \in Engine BY Consts DEF Engine
<1>3. other \in Engine
  <2>1. other = [stays EXCEPT !.run = IF e.stopRequested /\ @ # "STOP_UNCONFIRMED"
                                      THEN "STOPPING" ELSE @]
    BY DEF Engine
  <2> HIDE DEF stays, other
  <2> QED BY <1>2, <2>1 DEF Engine, RunState
<1>4. SampleStopped(e) \in Engine BY SampleStoppedType
<1> QED BY <1>1, <1>2, <1>3, <1>4 DEF SampleInactive

LEMMA RetryAcceptedType ==
  ASSUME NEW e \in Engine
  PROVE  RetryAccepted(e) \in Engine
<1> DEFINE s == RetryAccepted(e)
<1>0. Shape(e) /\ LinkOK(e) /\ FaultsOK(e) /\ RunOK(e) /\ StartOK(e) BY EngineParts
<1>1. Shape(s) BY <1>0 DEF Shape, RetryAccepted
<1>2. LinkOK(s) BY <1>0 DEF Shape, InitEngine, LinkOK, RetryAccepted
<1>3. FaultsOK(s) BY <1>0 DEF Shape, InitEngine, FaultsOK, RetryAccepted
<1>4. RunOK(s) BY <1>0 DEF Shape, InitEngine, RunOK, RetryAccepted
<1>5. StartOK(s)
  <2>1. /\ s.watchdog \in BOOLEAN /\ s.modeSeen \in BOOLEAN
        /\ s.ackTimedOut \in BOOLEAN /\ s.startTimedOut \in BOOLEAN /\ s.wrongMode \in BOOLEAN
    BY <1>0 DEF Shape, InitEngine, StartOK, RetryAccepted
  <2>2. s.waited \in 0 .. StartTime
    BY <1>0, Consts DEF Shape, InitEngine, StartOK, RetryAccepted
  <2> HIDE DEF s
  <2> QED BY <2>1, <2>2 DEF StartOK
<1> QED BY <1>1, <1>2, <1>3, <1>4, <1>5, EngineParts

LEMMA SampledType ==
  ASSUME NEW e \in Engine, NEW m \in BOOLEAN, NEW stop \in BOOLEAN, NEW active \in BOOLEAN
  PROVE  Sampled(e, m, stop, active) \in Engine
<1> DEFINE s == [e EXCEPT !.modeSeen = @ \/ m]
<1>1. s \in Engine BY DEF Engine
<1> HIDE DEF s
<1>2. SampleInactive(s, m, stop) \in Engine BY <1>1, SampleInactiveType
<1>3. SampleActive(s) \in Engine BY <1>1, SampleActiveType
<1>4. SampleStarted(SampleActive(s), m) \in Engine BY <1>3, SampleStartedType
<1> QED BY <1>2, <1>3, <1>4 DEF Sampled, s

LEMMA ObserveRunType ==
  ASSUME NEW e \in Engine, NEW d \in Nat, NEW fresh \in BOOLEAN, NEW m \in BOOLEAN,
         NEW stop \in BOOLEAN, NEW active \in BOOLEAN
  PROVE  ObserveRun(e, d, fresh, m, stop, active) \in Engine
  BY AdvanceTimeType, SampledType DEF ObserveRun

LEMMA ClearStartFailureType ==
  ASSUME NEW e \in Engine, NEW d \in Nat PROVE ClearStartFailure(e, d) \in Engine
  BY AdvanceTimeType, RetryAcceptedType DEF ClearStartFailure

LEMMA AcknowledgeType ==
  ASSUME NEW e \in Engine, NEW i \in Incident
  PROVE  Acknowledge(e, i) \in Engine
<1>1. e.inc \in [Incident -> Runtime] BY DEF Engine
<1> DEFINE r == [e.inc[i] EXCEPT !.acknowledged = TRUE, !.latched = e.inc[i].latched /\ e.inc[i].confirmed]
<1>2. r \in Runtime BY <1>1 DEF Runtime
<1> HIDE DEF r
<1>3. [e EXCEPT !.inc[i] = r] \in Engine BY <1>1, <1>2 DEF Engine
<1>4. Acknowledge(e, i) \in {e, [e EXCEPT !.inc[i] = r]} BY Zenon DEF Acknowledge, r
<1> QED BY <1>3, <1>4

LEMMA RestoreLatchType ==
  ASSUME NEW e \in Engine, NEW i \in Incident
  PROVE  RestoreLatch(e, i) \in Engine
<1>1. e.inc \in [Incident -> Runtime] BY DEF Engine
<1> DEFINE r == [e.inc[i] EXCEPT !.latched = TRUE, !.acknowledged = FALSE]
<1>2. r \in Runtime BY <1>1 DEF Runtime
<1> HIDE DEF r
<1>3. [e EXCEPT !.inc[i] = r] \in Engine BY <1>1, <1>2 DEF Engine
<1> QED BY <1>3 DEF RestoreLatch, r

LEMMA ReleasedType == ASSUME NEW e \in Engine PROVE Released(e) \in Engine
<1>1. e.inc \in [Incident -> Runtime] BY DEF Engine
<1>2. \A i \in Incident : [e.inc[i] EXCEPT !.latched = FALSE, !.acknowledged = TRUE] \in Runtime
  BY <1>1 DEF Runtime
<1>3. [i \in Incident |-> IF Releasable(e, i)
         THEN [e.inc[i] EXCEPT !.latched = FALSE, !.acknowledged = TRUE] ELSE e.inc[i]]
        \in [Incident -> Runtime]
  BY <1>1, <1>2
<1> QED BY <1>3 DEF Released, Engine

LEMMA ConfirmPowerCycleType ==
  ASSUME NEW e \in Engine, NEW d \in Nat PROVE ConfirmPowerCycle(e, d) \in Engine
<1> DEFINE t == AdvanceTime(e, d)
           u == Released(t)
           s == [u EXCEPT !.faultSeen = TRUE, !.recovering = TRUE]
           w == [s EXCEPT !.cleanAge = 0]
           v == [w EXCEPT !.cleanRounds = 0]
<1>1. t \in Engine BY AdvanceTimeType
<1>2. u \in Engine BY <1>1, ReleasedType
<1> HIDE DEF t, u
<1>3. s \in Engine BY <1>2 DEF Engine
<1> HIDE DEF s
<1>4. v \in Engine
  <2>1. w \in Engine BY <1>3, Consts DEF Engine
  <2> HIDE DEF w
  <2> QED BY <2>1, Consts DEF Engine
<1>5. v = [u EXCEPT !.faultSeen = TRUE, !.recovering = TRUE, !.cleanAge = 0, !.cleanRounds = 0]
  BY DEF s, w
<1> QED BY <1>1, <1>4, <1>5 DEF ConfirmPowerCycle, t, u



-----------------------------------------------------------------------------
(* Part 2.                                                                 *)
(* No permission outlives the loss it came from, and a unit that is not    *)
(* being stopped has no partial stop confirmation.                         *)
Settled(e) ==
  /\ e.armed => ConfirmedLoss(e)
  /\ e.run = "UNKNOWN" \/ Waiting(e) => e.stopStreak = 0

(* What any call but a compressor sample may do to the confirmation of a   *)
(* stop: take it away, never bring it nearer.                              *)
NoNearer(e, f) ==
  /\ f.run = "STOPPED" => e.run = "STOPPED"
  /\ f.stopStreak <= e.stopStreak

Voided(e, f) == Voids(e, f) => f.run # "STOPPED" /\ f.stopStreak = 0

ArmedBefore(e, f) == f.armed /\ f.run = "STOP_UNCONFIRMED" => e.armed

Harmless(e, f) == NoNearer(e, f) /\ Voided(e, f) /\ ArmedBefore(e, f) /\ Settled(f)

Steady(e, t) ==
  /\ t.armed = e.armed /\ t.inc = e.inc /\ t.link = e.link /\ t.fromLoss = e.fromLoss
  /\ t.stopStreak = e.stopStreak
  /\ t.run = e.run \/ (t.run = "STOP_UNCONFIRMED" /\ e.run # "STOPPED")

LEMMA AdvanceTimeSteady ==
  ASSUME NEW e \in Engine, NEW d \in Nat PROVE Steady(e, AdvanceTime(e, d))
<1> DEFINE a == Aged(e, d)
           w == Watched(a, d)
<1>0. Shape(e) BY EngineParts
<1>1. a \in Engine /\ Steady(e, a)
  <2>1. Steady(e, a) BY <1>0 DEF Shape, InitEngine, Aged, Steady
  <2> QED BY <2>1, AgedType
<1> HIDE DEF a
<1>2. w \in Engine /\ Steady(a, w)
  <2>1. Shape(a) BY <1>1, EngineParts
  <2>2. Steady(a, w) BY <2>1 DEF Shape, InitEngine, Watched, Steady
  <2> QED BY <1>1, <2>2, WatchedType
<1> HIDE DEF w
<1>3. Steady(w, StopTimed(w)) BY <1>2 DEF StopTimed, Engine, Steady
<1> QED BY <1>1, <1>2, <1>3 DEF Steady, AdvanceTime, a, w

LEMMA SteadySettled ==
  ASSUME NEW e, NEW t, Steady(e, t), Settled(e) PROVE Settled(t)
  BY DEF Steady, Settled, ConfirmedLoss, Waiting

LEMMA SteadyHardFault ==
  ASSUME NEW e, NEW t, t.inc = e.inc PROVE HardFault(t) <=> HardFault(e)
  BY DEF HardFault, Effective

LEMMA AfterTime ==
  ASSUME NEW e, NEW t, NEW f, Steady(e, t), Harmless(t, f) PROVE Harmless(e, f)
<1>1. HardFault(t) <=> HardFault(e) BY SteadyHardFault DEF Steady
<1> QED BY <1>1 DEF Steady, Harmless, NoNearer, Voided, Voids, ArmedBefore

LEMMA SteadyHarmless ==
  ASSUME NEW e, NEW t, Steady(e, t), Settled(e), e.stopStreak \in Nat PROVE Harmless(e, t)
<1>1. HardFault(t) <=> HardFault(e) BY SteadyHardFault DEF Steady
<1>2. Settled(t) BY SteadySettled
<1> QED BY <1>1, <1>2 DEF Steady, Harmless, NoNearer, Voided, Voids, ArmedBefore

LEMMA LinkLostHarmless ==
  ASSUME NEW e \in Engine, Settled(e) PROVE Harmless(e, LinkLost(e))
<1> DEFINE i == StopInvalidated(e)
           f == LinkLost(e)
<1>1. i \in Engine BY StopInvalidatedType
<1>2. /\ i.run = IF e.run = "STOP_UNCONFIRMED" THEN e.run ELSE "STOPPING"
      /\ i.stopStreak = 0 /\ i.inc = e.inc
  BY DEF StopInvalidated, Engine
<1> HIDE DEF i
<1>3. /\ f.run = i.run /\ f.stopStreak = 0 /\ f.inc = e.inc /\ f.link = "LOST"
      /\ f.armed = (e.run # "STOP_UNCONFIRMED" \/ (e.fromLoss /\ i.armed))
      /\ i.armed = e.armed
  BY <1>1, <1>2 DEF LinkLost, Engine, i, StopInvalidated
<1>4. e.stopStreak \in Nat BY DEF Engine
<1> HIDE DEF f
<1>5. NoNearer(e, f) /\ Voided(e, f) BY <1>2, <1>3, <1>4 DEF NoNearer, Voided, Voids
<1>6. ArmedBefore(e, f) BY <1>2, <1>3 DEF ArmedBefore
<1>7. Settled(f) BY <1>2, <1>3 DEF Settled, ConfirmedLoss, Waiting
<1> QED BY <1>5, <1>6, <1>7 DEF Harmless, f

LEMMA HarmlessDef ==
  ASSUME NEW e, NEW f, NoNearer(e, f), Voided(e, f), ArmedBefore(e, f), Settled(f)
  PROVE  Harmless(e, f)
  BY DEF Harmless

\* A call that leaves the run state and the incidents alone and does not
\* lose the link.
LEMMA LinkOnly ==
  ASSUME NEW e \in Engine, NEW f, f.run = e.run, f.stopStreak = e.stopStreak, f.inc = e.inc,
         f.link = "LOST" => e.link = "LOST", f.armed => e.armed,
         Settled(e), f.armed => ConfirmedLoss(f)
  PROVE  Harmless(e, f)
<1>1. HardFault(f) <=> HardFault(e) BY SteadyHardFault
<1>2. e.stopStreak \in Nat BY DEF Engine
<1>3. NoNearer(e, f) BY <1>2 DEF NoNearer
<1>4. Voided(e, f) BY <1>1 DEF Voided, Voids
<1>5. ArmedBefore(e, f) BY DEF ArmedBefore
<1>6. Settled(f) BY DEF Settled, Waiting
<1> QED BY <1>3, <1>4, <1>5, <1>6 DEF Harmless

LEMMA HealthyHarmless ==
  ASSUME NEW e \in Engine, Settled(e) PROVE Harmless(e, Healthy(e))
<1>1. Shape(e) BY EngineParts
<1> DEFINE f == Healthy(e)
<1>2. f.run = e.run /\ f.stopStreak = e.stopStreak /\ f.inc = e.inc /\ f.link = "HEALTHY" /\ ~f.armed
  BY <1>1 DEF Shape, InitEngine, Healthy
<1> HIDE DEF f
<1> QED BY <1>2, LinkOnly DEF f

LEMMA RecoveredHarmless ==
  ASSUME NEW e \in Engine, Settled(e) PROVE Harmless(e, Recovered(e))
<1>1. Shape(e) BY EngineParts
<1> DEFINE f == Recovered(e)
<1>2. f.run = e.run /\ f.stopStreak = e.stopStreak /\ f.inc = e.inc
  BY <1>1 DEF Shape, InitEngine, Recovered, Healthy
<1>3. f = e \/ (f.link = "HEALTHY" /\ ~f.armed)
  BY <1>1 DEF Shape, InitEngine, Recovered, Healthy
<1> HIDE DEF f
<1> QED BY <1>2, <1>3, LinkOnly DEF f, Settled

LEMMA RoundCountedHarmless ==
  ASSUME NEW e \in Engine, Settled(e), e.link # "HEALTHY"
  PROVE  Harmless(e, RoundCounted(e))
<1>1. Shape(e) BY EngineParts
<1> DEFINE f == RoundCounted(e)
<1>2. f.run = e.run /\ f.stopStreak = e.stopStreak /\ f.inc = e.inc
  BY <1>1 DEF Shape, InitEngine, RoundCounted, RecoveryStarted
<1>3. f.link # "LOST" /\ f.armed = e.armed
  BY <1>1 DEF Shape, InitEngine, RoundCounted, RecoveryStarted
<1>4. ConfirmedLoss(e) => ConfirmedLoss(f)
  BY <1>1 DEF Shape, InitEngine, RoundCounted, RecoveryStarted, ConfirmedLoss
<1> HIDE DEF f
<1> QED BY <1>2, <1>3, <1>4, LinkOnly DEF f, Settled

LEMMA Both ==
  ASSUME NEW e, NEW t, NEW f, t.armed => e.armed, t.run = e.run, t.stopStreak = e.stopStreak,
         t.inc = e.inc, t.link = "LOST" => e.link = "LOST", Harmless(t, f)
  PROVE  Harmless(e, f)
<1>1. HardFault(t) <=> HardFault(e) BY SteadyHardFault
<1>2. NoNearer(e, f) BY DEF Harmless, NoNearer
<1>3. Voided(e, f) BY <1>1 DEF Harmless, Voided, Voids
<1>4. ArmedBefore(e, f) BY DEF Harmless, ArmedBefore
<1> QED BY <1>2, <1>3, <1>4 DEF Harmless

LEMMA CompleteRoundHarmless ==
  ASSUME NEW e \in Engine, Settled(e) PROVE Harmless(e, CompleteRound(e))
<1>1. CASE e.link = "HEALTHY"
  <2>1. e.armed => ConfirmedLoss(e) BY DEF Settled
  <2>2. CompleteRound(e) = e BY <1>1 DEF CompleteRound
  <2> QED BY <2>1, <2>2, LinkOnly
<1>2. CASE e.link = "SUSPECT" /\ e.everHealthy
  BY <1>2, HealthyHarmless DEF CompleteRound
<1>3. CASE e.link # "HEALTHY" /\ ~(e.link = "SUSPECT" /\ e.everHealthy)
  <2> DEFINE t == RoundCounted(e)
  <2>1. t \in Engine /\ Harmless(e, t) BY <1>3, RoundCountedType, RoundCountedHarmless
  <2>2. Shape(e) BY EngineParts
  <2>3. /\ t.armed = e.armed /\ t.run = e.run /\ t.stopStreak = e.stopStreak
        /\ t.inc = e.inc /\ (t.link = "LOST" => e.link = "LOST")
    BY <2>2 DEF Shape, InitEngine, RoundCounted, RecoveryStarted
  <2> HIDE DEF t
  <2>4. Harmless(t, Recovered(t)) BY <2>1, RecoveredHarmless DEF Harmless
  <2>5. Harmless(e, Recovered(t)) BY <2>3, <2>4, Both
  <2> QED BY <1>3, <2>5 DEF CompleteRound, t
<1> QED BY <1>1, <1>2, <1>3

LEMMA MissedHarmless ==
  ASSUME NEW e \in Engine, Settled(e), ~ConfirmedLoss(e)
  PROVE  /\ Harmless(e, Missed(e))
         /\ Missed(e).armed = e.armed /\ Missed(e).run = e.run
         /\ Missed(e).stopStreak = e.stopStreak /\ Missed(e).inc = e.inc
         /\ Missed(e).link # "LOST" /\ Missed(e).fromLoss = e.fromLoss
<1>1. Shape(e) BY EngineParts
<1> DEFINE f == Missed(e)
<1>2. /\ f.run = e.run /\ f.stopStreak = e.stopStreak /\ f.inc = e.inc
      /\ f.link = "SUSPECT" /\ f.armed = e.armed /\ f.fromLoss = e.fromLoss
  BY <1>1 DEF Shape, InitEngine, Missed
<1>3. ~e.armed BY DEF Settled
<1> HIDE DEF f
<1>4. Harmless(e, f) BY <1>2, <1>3, LinkOnly
<1> QED BY <1>2, <1>4 DEF f

LEMMA IncompleteRoundHarmless ==
  ASSUME NEW e \in Engine, Settled(e) PROVE Harmless(e, IncompleteRound(e))
<1>0. e.armed => ConfirmedLoss(e) BY DEF Settled
<1>1. CASE e.link = "LOST"
  <2>1. IncompleteRound(e) = e BY <1>1 DEF IncompleteRound
  <2> QED BY <1>0, <2>1, LinkOnly
<1>2. CASE e.link = "RECOVERING" /\ e.fromLoss
  BY <1>2, LinkLostHarmless DEF IncompleteRound
<1>3. CASE ~ConfirmedLoss(e)
  <2> DEFINE t == Missed(e)
  <2>1. t \in Engine /\ Harmless(e, t) BY <1>3, MissedType, MissedHarmless
  <2>2. /\ t.armed = e.armed /\ t.run = e.run /\ t.stopStreak = e.stopStreak
        /\ t.inc = e.inc /\ t.link # "LOST"
    BY <1>3, MissedHarmless
  <2> HIDE DEF t
  <2>3. Harmless(t, LinkLost(t)) BY <2>1, LinkLostHarmless DEF Harmless
  <2>4. Harmless(e, LinkLost(t)) BY <2>2, <2>3, Both
  <2> QED BY <1>3, <2>1, <2>4 DEF IncompleteRound, ConfirmedLoss, t
<1> QED BY <1>1, <1>2, <1>3 DEF ConfirmedLoss

LEMMA ObserveLinkRoundHarmless ==
  ASSUME NEW e \in Engine, Settled(e), NEW d \in Nat, NEW complete \in BOOLEAN
  PROVE  Harmless(e, ObserveLinkRound(e, d, complete))
<1> DEFINE t == AdvanceTime(e, d)
<1>1. t \in Engine /\ Steady(e, t) BY AdvanceTimeType, AdvanceTimeSteady
<1> HIDE DEF t
<1>2. Settled(t) BY <1>1, SteadySettled
<1>3. Harmless(t, IF complete THEN CompleteRound(t) ELSE IncompleteRound(t))
  BY <1>1, <1>2, CompleteRoundHarmless, IncompleteRoundHarmless
<1> QED BY <1>1, <1>3, AfterTime DEF ObserveLinkRound, t

LEMMA StopInvalidatedHarmless ==
  ASSUME NEW e \in Engine, Settled(e)
  PROVE  /\ StopInvalidated(e).run \in {"STOPPING", "STOP_UNCONFIRMED"}
         /\ StopInvalidated(e).stopStreak = 0
         /\ StopInvalidated(e).link = e.link
         /\ ArmedBefore(e, StopInvalidated(e)) /\ Settled(StopInvalidated(e))
<1>1. Shape(e) BY EngineParts
<1> DEFINE f == StopInvalidated(e)
<1>2. /\ f.run \in {"STOPPING", "STOP_UNCONFIRMED"} /\ f.stopStreak = 0 /\ f.armed = e.armed
      /\ f.link = e.link /\ f.fromLoss = e.fromLoss
  BY <1>1 DEF Shape, InitEngine, StopInvalidated
<1> HIDE DEF f
<1>3. ArmedBefore(e, f) BY <1>2 DEF ArmedBefore
<1>4. Settled(f) BY <1>2 DEF Settled, ConfirmedLoss, Waiting
<1> QED BY <1>2, <1>3, <1>4 DEF f

LEMMA ObserveFaultWordsHarmless ==
  ASSUME NEW e \in Engine, Settled(e), NEW d \in Nat, NEW fresh, NEW raw
  PROVE  Harmless(e, ObserveFaultWords(e, d, fresh, raw))
<1> DEFINE t == AdvanceTime(e, d)
           u == FaultsRead(t, fresh, raw)
           r == FaultRecovery(u, fresh = Bank)
           f == IF ~HardFault(t) /\ HardFault(r) THEN StopInvalidated(r) ELSE r
<1>1. t \in Engine /\ Steady(e, t) BY AdvanceTimeType, AdvanceTimeSteady
<1> HIDE DEF t
<1>2. Settled(t) BY <1>1, SteadySettled
<1>3. u \in Engine BY <1>1, FaultsReadType
<1>4. u.run = t.run /\ u.stopStreak = t.stopStreak /\ u.link = t.link /\ u.armed = t.armed
      /\ u.fromLoss = t.fromLoss
  BY <1>1 DEF FaultsRead, Engine
<1> HIDE DEF u
<1>5. (fresh = Bank) \in BOOLEAN OBVIOUS
<1>6. r \in Engine BY <1>3, <1>5, FaultRecoveryType
<1>7. r.run = u.run /\ r.stopStreak = u.stopStreak /\ r.link = u.link /\ r.armed = u.armed
      /\ r.fromLoss = u.fromLoss
  <2>1. Shape(u) BY <1>3, EngineParts
  <2> QED BY <2>1 DEF Shape, InitEngine, FaultRecovery
<1> HIDE DEF r
<1>8. Settled(r) BY <1>2, <1>4, <1>7 DEF Settled, ConfirmedLoss, Waiting
<1>9. t.stopStreak \in Nat BY <1>1 DEF Engine
<1>10. ASSUME ~HardFault(t), HardFault(r) PROVE Harmless(t, StopInvalidated(r))
  <2> DEFINE g == StopInvalidated(r)
  <2>1. g.run \in {"STOPPING", "STOP_UNCONFIRMED"} /\ g.stopStreak = 0
    BY <1>6, <1>8, StopInvalidatedHarmless
  <2>2. ArmedBefore(r, g) /\ Settled(g) BY <1>6, <1>8, StopInvalidatedHarmless
  <2> HIDE DEF g
  <2>3. NoNearer(t, g) BY <1>9, <2>1 DEF NoNearer
  <2>4. Voided(t, g) BY <2>1 DEF Voided
  <2>5. ArmedBefore(t, g) BY <1>4, <1>7, <2>2 DEF ArmedBefore
  <2>6. Harmless(t, g) BY <2>2, <2>3, <2>4, <2>5 DEF Harmless
  <2> QED BY <2>6 DEF g
<1>11. ASSUME ~(~HardFault(t) /\ HardFault(r)) PROVE Harmless(t, r)
  <2>1. NoNearer(t, r) BY <1>4, <1>7, <1>9 DEF NoNearer
  <2>2. Voided(t, r) BY <1>4, <1>7, <1>11 DEF Voided, Voids
  <2>3. ArmedBefore(t, r) BY <1>4, <1>7 DEF ArmedBefore
  <2>4. Harmless(t, r) BY <1>8, <2>1, <2>2, <2>3 DEF Harmless
  <2> QED BY <2>4
<1>12. Harmless(t, f) BY <1>10, <1>11
<1> HIDE DEF f
<1>13. Harmless(e, f) BY <1>1, <1>12, AfterTime
<1> QED BY <1>13 DEF ObserveFaultWords, f, r, u, t

LEMMA RequestStartHarmless ==
  ASSUME NEW e \in Engine, Settled(e), NEW d \in Nat PROVE Harmless(e, RequestStart(e, d))
<1> DEFINE t == AdvanceTime(e, d)
           f == StartAccepted(t)
<1>1. t \in Engine /\ Steady(e, t) BY AdvanceTimeType, AdvanceTimeSteady
<1>2. Settled(t) BY <1>1, SteadySettled
<1>3. Shape(t) /\ t.stopStreak \in Nat /\ e.stopStreak \in Nat
  BY <1>1, EngineParts, Consts DEF RunOK
<1> HIDE DEF t
<1>4. /\ f.run = "START_REQUESTED" /\ f.stopStreak = 0 /\ f.armed = t.armed
      /\ f.link = t.link /\ f.fromLoss = t.fromLoss
  BY <1>3 DEF Shape, InitEngine, StartAccepted
<1> HIDE DEF f
<1>5. NoNearer(t, f) /\ Voided(t, f) /\ ArmedBefore(t, f)
  BY <1>3, <1>4 DEF NoNearer, Voided, ArmedBefore
<1>6. Settled(f) BY <1>2, <1>4 DEF Settled, ConfirmedLoss
<1>7. Harmless(e, f) BY <1>1, <1>5, <1>6, AfterTime DEF Harmless
<1>8. Harmless(e, t) BY <1>1, <1>3, SteadyHarmless
<1> QED BY <1>7, <1>8 DEF RequestStart, f, t

LEMMA RequestStopHarmless ==
  ASSUME NEW e \in Engine, Settled(e), NEW d \in Nat PROVE Harmless(e, RequestStop(e, d))
<1> DEFINE t == AdvanceTime(e, d)
           f == StopAccepted(t)
<1>1. t \in Engine /\ Steady(e, t) BY AdvanceTimeType, AdvanceTimeSteady
<1>2. Settled(t) BY <1>1, SteadySettled
<1>3. Shape(t) /\ t.stopStreak \in Nat BY <1>1, EngineParts, Consts DEF RunOK
<1> HIDE DEF t
<1>4. /\ f.run = t.run \/ f.run \in {"STOPPING", "STOP_UNCONFIRMED"}
      /\ f.stopStreak = t.stopStreak \/ f.stopStreak = 0
      /\ f.armed = t.armed /\ f.link = t.link /\ f.fromLoss = t.fromLoss /\ f.inc = t.inc
  BY <1>3 DEF Shape, InitEngine, StopAccepted, StopInitialized
<1> HIDE DEF f
<1>5. HardFault(f) <=> HardFault(t) BY <1>4, SteadyHardFault
<1>6. NoNearer(t, f) /\ Voided(t, f) /\ ArmedBefore(t, f)
  BY <1>3, <1>4, <1>5 DEF NoNearer, Voided, Voids, ArmedBefore
<1>7. Settled(f) BY <1>2, <1>4 DEF Settled, ConfirmedLoss, Waiting
<1>8. Harmless(e, f) BY <1>1, <1>6, <1>7, AfterTime DEF Harmless
<1> QED BY <1>8 DEF RequestStop, f, t

LEMMA ClearStartFailureHarmless ==
  ASSUME NEW e \in Engine, Settled(e), NEW d \in Nat PROVE Harmless(e, ClearStartFailure(e, d))
<1> DEFINE t == AdvanceTime(e, d)
           f == RetryAccepted(t)
<1>1. t \in Engine /\ Steady(e, t) BY AdvanceTimeType, AdvanceTimeSteady
<1>2. Settled(t) BY <1>1, SteadySettled
<1>3. Shape(t) /\ e.stopStreak \in Nat BY <1>1, EngineParts, Consts DEF RunOK
<1> HIDE DEF t
<1>4. /\ f.run = t.run /\ f.stopStreak = t.stopStreak /\ f.inc = t.inc /\ f.link = t.link
      /\ f.armed = t.armed /\ f.fromLoss = t.fromLoss
  BY <1>3 DEF Shape, InitEngine, RetryAccepted
<1> HIDE DEF f
<1>5. Harmless(t, f) BY <1>1, <1>2, <1>4, LinkOnly DEF Settled, ConfirmedLoss
<1>6. Harmless(e, f) BY <1>1, <1>5, AfterTime
<1>7. Harmless(e, t) BY <1>1, <1>3, SteadyHarmless
<1> QED BY <1>6, <1>7 DEF ClearStartFailure, f, t

\* A call that only takes latches away.
LEMMA NoNewFault ==
  ASSUME NEW e \in Engine, Settled(e), NEW f, f.run = e.run, f.stopStreak = e.stopStreak,
         f.link = e.link, f.fromLoss = e.fromLoss, f.armed = e.armed,
         HardFault(f) => HardFault(e)
  PROVE  Harmless(e, f)
<1>1. e.stopStreak \in Nat BY DEF Engine
<1>2. NoNearer(e, f) /\ Voided(e, f) BY <1>1 DEF NoNearer, Voided, Voids
<1>3. ArmedBefore(e, f) BY DEF ArmedBefore
<1>4. Settled(f) BY DEF Settled, ConfirmedLoss, Waiting
<1> QED BY <1>2, <1>3, <1>4 DEF Harmless

LEMMA AcknowledgeHarmless ==
  ASSUME NEW e \in Engine, Settled(e), NEW i \in Incident PROVE Harmless(e, Acknowledge(e, i))
<1> DEFINE f == Acknowledge(e, i)
<1>1. e.inc \in [Incident -> Runtime] BY DEF Engine
<1>2. /\ f.run = e.run /\ f.stopStreak = e.stopStreak /\ f.link = e.link
      /\ f.fromLoss = e.fromLoss /\ f.armed = e.armed
  BY DEF Acknowledge, Engine
<1>3. \A j \in Incident : Kind[j] = "locked" => f.inc[j] = e.inc[j]
  BY <1>1 DEF Acknowledge, Engine
<1>4. \A j \in Incident : f.inc[j].confirmed = e.inc[j].confirmed
  BY <1>1 DEF Acknowledge, Engine, Runtime
<1> HIDE DEF f
<1>5. HardFault(f) => HardFault(e) BY <1>3, <1>4 DEF HardFault, Effective
<1>6. Harmless(e, f) BY <1>2, <1>5, NoNewFault
<1> QED BY <1>6 DEF f

LEMMA ConfirmPowerCycleHarmless ==
  ASSUME NEW e \in Engine, Settled(e), NEW d \in Nat PROVE Harmless(e, ConfirmPowerCycle(e, d))
<1> DEFINE t == AdvanceTime(e, d)
           u == Released(t)
           f == ConfirmPowerCycle(e, d)
<1>1. t \in Engine /\ Steady(e, t) BY AdvanceTimeType, AdvanceTimeSteady
<1>2. Settled(t) BY <1>1, SteadySettled
<1>3. t.inc \in [Incident -> Runtime] BY <1>1 DEF Engine
<1>4. u \in Engine BY <1>1, ReleasedType
<1>5. f = t \/ f = [u EXCEPT !.faultSeen = TRUE, !.recovering = TRUE, !.cleanAge = 0, !.cleanRounds = 0]
  BY DEF ConfirmPowerCycle
<1> HIDE DEF t, f
<1>6. /\ u.run = t.run /\ u.stopStreak = t.stopStreak /\ u.link = t.link
      /\ u.fromLoss = t.fromLoss /\ u.armed = t.armed
  BY <1>1 DEF Released, Engine
<1>7. \A j \in Incident : /\ u.inc[j].confirmed = t.inc[j].confirmed
                          /\ u.inc[j].latched => t.inc[j].latched
  BY <1>1, <1>3 DEF Released, Engine, Runtime, Releasable
<1> HIDE DEF u
<1>8. Shape(u) BY <1>4, EngineParts
<1>9. /\ f.run = t.run /\ f.stopStreak = t.stopStreak /\ f.link = t.link
      /\ f.fromLoss = t.fromLoss /\ f.armed = t.armed /\ (f.inc = t.inc \/ f.inc = u.inc)
  BY <1>5, <1>6, <1>8 DEF Shape, InitEngine
<1>10. HardFault(f) => HardFault(t) BY <1>7, <1>9 DEF HardFault, Effective
<1>11. Harmless(t, f) BY <1>1, <1>2, <1>9, <1>10, NoNewFault
<1>12. Harmless(e, f) BY <1>1, <1>11, AfterTime
<1> QED BY <1>12 DEF f

LEMMA RestoreLatchHarmless ==
  ASSUME NEW e \in Engine, Settled(e), NEW i \in Incident, e.run = "UNKNOWN"
  PROVE  Harmless(e, RestoreLatch(e, i))
<1> DEFINE f == RestoreLatch(e, i)
<1>1. /\ f.run = e.run /\ f.stopStreak = e.stopStreak /\ f.link = e.link
      /\ f.fromLoss = e.fromLoss /\ f.armed = e.armed
  BY DEF RestoreLatch, Engine
<1> HIDE DEF f
<1>2. e.stopStreak = 0 BY DEF Settled
<1>3. NoNearer(e, f) /\ Voided(e, f) BY <1>1, <1>2 DEF NoNearer, Voided, Voids
<1>4. ArmedBefore(e, f) BY <1>1 DEF ArmedBefore
<1>5. Settled(f) BY <1>1 DEF Settled, ConfirmedLoss, Waiting
<1> QED BY <1>3, <1>4, <1>5 DEF Harmless, f
-----------------------------------------------------------------------------
\* The count of stopped samples after one more sample.
StopsAfter(t, stops, consumed, stopMode, active) ==
  IF ~consumed \/ (t.run = "STOPPED" /\ ~active) THEN stops
  ELSE IF active \/ ~stopMode \/ Waiting(t) THEN 0
  ELSE AtMost(StopReads, stops + 1)

Backed(e, stops) ==
  /\ e.stopStreak <= stops
  /\ e.run = "STOPPED" => stops >= StopReads

LEMMA SampledBacked ==
  ASSUME NEW t \in Engine, Settled(t), NEW m \in BOOLEAN, NEW stop \in BOOLEAN,
         NEW active \in BOOLEAN, NEW stops \in 0 .. StopReads, Backed(t, stops),
         NEW f, f = Sampled(t, m, stop, active),
         NEW n \in 0 .. StopReads,
         t.run = "STOPPED" /\ ~active => n = stops,
         active \/ (t.run # "STOPPED" /\ (~stop \/ Waiting(t))) => n = 0,
         t.run # "STOPPED" /\ ~active /\ stop /\ ~Waiting(t) => n = AtMost(StopReads, stops + 1)
  PROVE  /\ Backed(f, n) /\ ArmedBefore(t, f) /\ Settled(f)
         /\ f.inc = t.inc /\ f.link = t.link /\ f.run # "START_REQUESTED"
<1> DEFINE s == [t EXCEPT !.modeSeen = @ \/ m]
<1>1. s \in Engine BY DEF Engine
<1>2. /\ s.run = t.run /\ s.stopStreak = t.stopStreak /\ s.inc = t.inc /\ s.link = t.link
      /\ s.armed = t.armed /\ s.fromLoss = t.fromLoss /\ s.stopRequested = t.stopRequested
  BY DEF Engine
<1>3. f = IF ~active THEN SampleInactive(s, m, stop)
          ELSE IF s.stopRequested THEN SampleActive(s)
          ELSE SampleStarted(SampleActive(s), m)
  BY DEF Sampled, s
<1> HIDE DEF s
<1>4. Shape(s) /\ s.stopStreak \in 0 .. StopReads /\ s.run \in RunState
  BY <1>1, EngineParts DEF RunOK
<1>5. CASE active
  <2> DEFINE a == SampleActive(s)
  <2>1. a \in Engine BY <1>1, SampleActiveType
  <2>2. /\ a.stopStreak = 0 /\ ~a.armed /\ a.inc = s.inc /\ a.link = s.link
        /\ a.run = IF s.stopRequested
                   THEN IF s.run = "STOP_UNCONFIRMED" THEN s.run ELSE "STOPPING" ELSE s.run
    BY <1>4 DEF Shape, InitEngine, SampleActive
  <2> HIDE DEF a
  <2>3. Shape(a) BY <2>1, EngineParts
  <2>4. /\ f.stopStreak = 0 /\ ~f.armed /\ f.inc = s.inc /\ f.link = s.link
        /\ f.run \in {"STOP_UNCONFIRMED", "STOPPING", "WAIT_MODE", "RUNNING"}
    BY <1>3, <1>5, <2>2, <2>3 DEF Shape, InitEngine, SampleStarted, a
  <2>5. n = 0 BY <1>5
  <2>6. Backed(f, n) BY <2>4, <2>5 DEF Backed
  <2>7. ArmedBefore(t, f) /\ Settled(f) BY <2>4 DEF ArmedBefore, Settled
  <2> QED BY <1>2, <2>4, <2>6, <2>7
<1>6. CASE ~active /\ Waiting(s)
  <2>1. f.run \in {"WAIT_MODE", "WAIT_COMPRESSOR"} /\ f.stopStreak = s.stopStreak
    BY <1>3, <1>4, <1>6 DEF Shape, InitEngine, SampleInactive
  <2>2. f.armed = s.armed /\ f.link = s.link /\ f.fromLoss = s.fromLoss /\ f.inc = s.inc
    BY <1>3, <1>4, <1>6 DEF Shape, InitEngine, SampleInactive
  <2>3. s.stopStreak = 0 BY <1>2, <1>6 DEF Settled, Waiting
  <2>4. n = 0 BY <1>2, <1>6 DEF Waiting
  <2>5. Backed(f, n) BY <2>1, <2>3, <2>4 DEF Backed
  <2>6. ArmedBefore(t, f) /\ Settled(f)
    BY <1>2, <2>1, <2>2, <2>3 DEF ArmedBefore, Settled, ConfirmedLoss
  <2> QED BY <1>2, <2>1, <2>2, <2>5, <2>6
<1>7. CASE ~active /\ ~Waiting(s) /\ (~stop \/ (s.run = "STOPPED" /\ ~s.stopRequested))
  <2>1. f.stopStreak = 0 /\ f.run \in {s.run, "STOPPING"}
    BY <1>3, <1>4, <1>7 DEF Shape, InitEngine, SampleInactive
  <2>2. f.armed = s.armed /\ f.link = s.link /\ f.fromLoss = s.fromLoss /\ f.inc = s.inc
    BY <1>3, <1>4, <1>7 DEF Shape, InitEngine, SampleInactive
  <2>3. f.run = "STOPPED" => n = stops BY <1>2, <1>7, <2>1 DEF Waiting
  <2>4. n \in 0 .. StopReads OBVIOUS
  <2>5. Backed(f, n) BY <1>2, <2>1, <2>3, <2>4 DEF Backed
  <2>6. f.run # "START_REQUESTED" BY <1>7, <2>1 DEF Waiting
  <2>7. ArmedBefore(t, f) /\ Settled(f)
    BY <1>2, <2>1, <2>2 DEF ArmedBefore, Settled, ConfirmedLoss
  <2> QED BY <1>2, <2>2, <2>5, <2>6, <2>7
<1>8. CASE ~active /\ ~Waiting(s) /\ stop /\ ~(s.run = "STOPPED" /\ ~s.stopRequested)
  <2> DEFINE streak == AtMost(StopReads, s.stopStreak + 1)
  <2>1. f = SampleStopped(s) BY <1>3, <1>8 DEF SampleInactive
  <2>2. f.link = s.link /\ f.fromLoss = s.fromLoss /\ f.inc = s.inc /\ (f.armed => s.armed)
    BY <1>4, <2>1 DEF Shape, InitEngine, SampleStopped
  <2>3. \/ f.run = "STOPPED" /\ f.stopStreak = 0 /\ ~f.armed /\ streak >= StopReads
        \/ f.run \in {"STOP_UNCONFIRMED", "STOPPING"} /\ f.stopStreak = streak
    BY <1>4, <2>1 DEF Shape, InitEngine, SampleStopped
  <2>4. (n = stops /\ s.run = "STOPPED") \/ n = AtMost(StopReads, stops + 1)
    BY <1>2, <1>8 DEF Waiting
  <2>5. streak <= n /\ n >= 0
    BY <1>2, <1>4, <2>4, Consts DEF Backed, AtMost
  <2> HIDE DEF streak
  <2>6. n \in Nat /\ streak \in Nat /\ StopReads \in Nat
    BY <1>4, Consts DEF streak, AtMost
  <2>7. Backed(f, n) BY <2>3, <2>5, <2>6 DEF Backed
  <2>8. ArmedBefore(t, f) BY <1>2, <2>2 DEF ArmedBefore
  <2>9. Settled(f) BY <1>2, <2>2, <2>3 DEF Settled, ConfirmedLoss, Waiting
  <2>10. f.run # "START_REQUESTED" BY <2>3
  <2> QED BY <1>2, <2>2, <2>7, <2>8, <2>9, <2>10
<1> QED BY <1>5, <1>6, <1>7, <1>8

-----------------------------------------------------------------------------
(* Part 3: the inductive invariant.  FallbackOnFreshStop is not inductive: *)
(* a partial confirmation must be backed by as many real samples, and      *)
(* DegradedOnlyByLoss needs to know that a permission ends with its loss.  *)
IInv ==
  /\ TypeOK
  /\ Settled(engine)
  /\ Backed(engine, seen.stops)
  /\ seen.failed => engine.run = "STOP_UNCONFIRMED" /\ ~engine.armed

\* What a step has to show about the engine for the invariant to go on.
Goes(stops) ==
  /\ engine' \in Engine /\ Settled(engine')
  /\ Voided(engine, engine') /\ ArmedBefore(engine, engine')
  /\ Voids(engine, engine') \/ Backed(engine', stops)

LEMMA Seen ==
  ASSUME IInv, NEW d \in Nat, NEW stops \in 0 .. StopReads, NEW snapshot \in {0, 1},
         NEW rounds \in 0 .. LinkRecoveryRounds, See(d, stops, snapshot, rounds), Goes(stops)
  PROVE  IInv'
<1>1. seen \in Observed BY DEF IInv, TypeOK
<1>2. seen' \in Observed
  <2>1. /\ AtMost(FaultRecoveryRounds, seen.clean + snapshot) \in 0 .. FaultRecoveryRounds
        /\ AtMost(FaultRecoveryTime, seen.cleanTime + d) \in 0 .. FaultRecoveryTime
    BY <1>1, Consts DEF Observed, AtMost
  <2> QED BY <1>1, <2>1, Consts DEF See, Observed
<1>3. seen'.stops = IF Voids(engine, engine') THEN 0 ELSE stops BY DEF See
<1>4. seen'.failed <=> /\ engine'.run = "STOP_UNCONFIRMED"
                       /\ seen.failed \/ (engine.run # "STOP_UNCONFIRMED" /\ ~ConfirmedLoss(engine))
  BY DEF See
<1>5. Backed(engine', seen'.stops)
  <2>1. CASE Voids(engine, engine')
    BY <1>3, <2>1 DEF Goes, Voided, Backed
  <2>2. CASE ~Voids(engine, engine')
    BY <1>3, <2>2 DEF Goes
  <2> QED BY <2>1, <2>2
<1>6. ASSUME seen'.failed PROVE engine'.run = "STOP_UNCONFIRMED" /\ ~engine'.armed
  <2>1. engine'.run = "STOP_UNCONFIRMED" BY <1>4, <1>6
  <2>2. ASSUME engine'.armed PROVE FALSE
    <3>1. engine.armed BY <2>1, <2>2 DEF Goes, ArmedBefore
    <3>2. ConfirmedLoss(engine) /\ ~seen.failed BY <3>1 DEF IInv, Settled
    <3> QED BY <1>4, <1>6, <3>2
  <2> QED BY <2>1, <2>2
<1> QED BY <1>2, <1>5, <1>6 DEF IInv, TypeOK, Goes

LEMMA HarmlessGoes ==
  ASSUME IInv, engine' \in Engine, Harmless(engine, engine') PROVE Goes(seen.stops)
<1>1. /\ seen.stops \in Nat /\ engine.stopStreak \in Nat /\ engine'.stopStreak \in Nat
  BY Consts, EngineParts DEF IInv, TypeOK, Observed, RunOK
<1> QED BY <1>1 DEF IInv, Harmless, Goes, NoNearer, Backed

LEMMA NatStep == \A d \in 0 .. MaxStep : d \in Nat
  BY Consts

LEMMA UnseenStep ==
  ASSUME IInv, NEW d \in Nat, Unseen(d), engine' \in Engine, Harmless(engine, engine')
  PROVE  IInv'
<1>1. Goes(seen.stops) BY HarmlessGoes
<1>2. seen.stops \in 0 .. StopReads /\ seen.rounds \in 0 .. LinkRecoveryRounds
  BY DEF IInv, TypeOK, Observed
<1> QED BY <1>1, <1>2, Seen DEF Unseen

LEMMA LinkRoundStep == ASSUME IInv, NEW d \in Nat, LinkRound(d) PROVE IInv'
<1>1. PICK complete \in BOOLEAN :
        /\ engine' = ObserveLinkRound(engine, d, complete)
        /\ See(d, seen.stops, 0, IF complete THEN AtMost(LinkRecoveryRounds, seen.rounds + 1)
                                 ELSE seen.rounds)
  BY DEF LinkRound
<1>2. engine' \in Engine /\ Harmless(engine, engine')
  BY <1>1, ObserveLinkRoundType, ObserveLinkRoundHarmless DEF IInv, TypeOK
<1>3. seen.stops \in 0 .. StopReads /\ seen.rounds \in 0 .. LinkRecoveryRounds
  BY DEF IInv, TypeOK, Observed
<1>4. (IF complete THEN AtMost(LinkRecoveryRounds, seen.rounds + 1) ELSE seen.rounds)
        \in 0 .. LinkRecoveryRounds
  BY <1>3, Consts DEF AtMost
<1> QED BY <1>1, <1>2, <1>3, <1>4, HarmlessGoes, Seen

LEMMA FaultWordsStep == ASSUME IInv, NEW d \in Nat, FaultWords(d) PROVE IInv'
<1>1. PICK fresh \in SUBSET Bank \ {{}}, raw \in SUBSET Incident :
        /\ engine' = ObserveFaultWords(engine, d, fresh, raw)
        /\ See(d, seen.stops, IF fresh = Bank THEN 1 ELSE 0, seen.rounds)
  BY DEF FaultWords
<1>2. engine' \in Engine /\ Harmless(engine, engine')
  BY <1>1, ObserveFaultWordsType, ObserveFaultWordsHarmless DEF IInv, TypeOK
<1>3. seen.stops \in 0 .. StopReads /\ seen.rounds \in 0 .. LinkRecoveryRounds
  BY DEF IInv, TypeOK, Observed
<1> QED BY <1>1, <1>2, <1>3, HarmlessGoes, Seen

LEMMA RunSampleStep == ASSUME IInv, NEW d \in Nat, RunSample(d) PROVE IInv'
<1> DEFINE t == AdvanceTime(engine, d)
<1>a. PICK fresh \in BOOLEAN :
        \E m, stop, active \in Says(fresh) :
          /\ engine' = ObserveRun(engine, d, fresh, m, stop, active)
          /\ See(d, StopsAfter(t, seen.stops, Consumed(t, fresh), stop, active), 0, seen.rounds)
  BY DEF RunSample, StopsAfter
<1>b. Says(fresh) \subseteq BOOLEAN BY DEF Says
<1>1. PICK m \in BOOLEAN, stop \in BOOLEAN, active \in BOOLEAN :
        /\ engine' = ObserveRun(engine, d, fresh, m, stop, active)
        /\ See(d, StopsAfter(t, seen.stops, Consumed(t, fresh), stop, active), 0, seen.rounds)
  BY <1>a, <1>b
<1>2. t \in Engine /\ Steady(engine, t)
  BY AdvanceTimeType, AdvanceTimeSteady DEF IInv, TypeOK
<1>3. engine' = IF Consumed(t, fresh) THEN Sampled(t, m, stop, active) ELSE t
  BY <1>1 DEF ObserveRun
<1> HIDE DEF t
<1> DEFINE n == StopsAfter(t, seen.stops, Consumed(t, fresh), stop, active)
<1>4. Settled(t) BY <1>2, SteadySettled DEF IInv
<1>5. Backed(t, seen.stops) BY <1>2 DEF IInv, Backed, Steady
<1>6. seen.stops \in 0 .. StopReads /\ seen.rounds \in 0 .. LinkRecoveryRounds
  BY DEF IInv, TypeOK, Observed
<1>7. n \in 0 .. StopReads BY <1>6, Consts DEF StopsAfter, AtMost
<1>8. HardFault(t) <=> HardFault(engine) BY <1>2, SteadyHardFault DEF Steady
<1>9. Goes(n)
  <2>1. CASE Consumed(t, fresh)
    <3>1. engine' = Sampled(t, m, stop, active) BY <1>3, <2>1
    <3>2. /\ t.run = "STOPPED" /\ ~active => n = seen.stops
          /\ active \/ (t.run # "STOPPED" /\ (~stop \/ Waiting(t))) => n = 0
          /\ t.run # "STOPPED" /\ ~active /\ stop /\ ~Waiting(t)
               => n = AtMost(StopReads, seen.stops + 1)
      BY <2>1 DEF StopsAfter
    <3>3. engine' \in Engine BY <1>2, <3>1, SampledType
    <3> HIDE DEF n
    <3>4. /\ Backed(engine', n) /\ ArmedBefore(t, engine') /\ Settled(engine')
          /\ engine'.inc = t.inc /\ engine'.link = t.link /\ engine'.run # "START_REQUESTED"
      BY <1>2, <1>4, <1>5, <1>6, <1>7, <3>1, <3>2, SampledBacked
    <3>5. HardFault(engine') <=> HardFault(t) BY <3>4, SteadyHardFault
    <3> HIDE DEF n
    <3>6. Voided(engine, engine') BY <1>2, <1>8, <3>4, <3>5 DEF Voided, Voids, Steady
    <3>7. ArmedBefore(engine, engine') BY <1>2, <3>4 DEF ArmedBefore, Steady
    <3> QED BY <3>3, <3>4, <3>6, <3>7 DEF Goes
  <2>2. CASE ~Consumed(t, fresh)
    <3>1. engine' = t BY <1>3, <2>2
    <3>2. n = seen.stops BY <2>2 DEF StopsAfter
    <3> HIDE DEF n
    <3>3. Voided(engine, t) BY <1>2, <1>8 DEF Voided, Voids, Steady
    <3>4. ArmedBefore(engine, t) BY <1>2 DEF ArmedBefore, Steady
    <3> QED BY <1>2, <1>4, <1>5, <3>1, <3>2, <3>3, <3>4 DEF Goes
  <2> QED BY <2>1, <2>2
<1> HIDE DEF n
<1>10. See(d, n, 0, seen.rounds) BY <1>1 DEF n, t
<1> QED BY <1>6, <1>7, <1>9, <1>10, Seen

LEMMA NextInv == ASSUME IInv, [Next]_vars PROVE IInv'
<1>0. engine \in Engine /\ Settled(engine) /\ 0 \in Nat BY DEF IInv, TypeOK
<1>1. CASE \E d \in 0 .. MaxStep : Step(d)
  <2>1. PICK d \in 0 .. MaxStep : Step(d) BY <1>1
  <2>2. d \in Nat BY <2>1, NatStep
  <2>3. CASE LinkRound(d) BY <2>2, <2>3, LinkRoundStep
  <2>4. CASE FaultWords(d) BY <2>2, <2>4, FaultWordsStep
  <2>5. CASE RunSample(d) BY <2>2, <2>5, RunSampleStep
  <2>6. CASE Start(d)
    BY <1>0, <2>2, <2>6, RequestStartType, RequestStartHarmless, UnseenStep DEF Start
  <2>7. CASE Stop(d)
    BY <1>0, <2>2, <2>7, RequestStopType, RequestStopHarmless, UnseenStep DEF Stop
  <2>8. CASE Tick(d)
    <3>1. engine.stopStreak \in Nat BY <1>0, EngineParts, Consts DEF RunOK
    <3> QED BY <1>0, <2>2, <2>8, <3>1, AdvanceTimeType, AdvanceTimeSteady, SteadyHarmless, UnseenStep DEF Tick
  <2>9. CASE Retry(d)
    BY <1>0, <2>2, <2>9, ClearStartFailureType, ClearStartFailureHarmless, UnseenStep DEF Retry
  <2>10. CASE Confirm(d)
    BY <1>0, <2>2, <2>10, ConfirmPowerCycleType, ConfirmPowerCycleHarmless, UnseenStep DEF Confirm
  <2> QED BY <2>1, <2>3, <2>4, <2>5, <2>6, <2>7, <2>8, <2>9, <2>10 DEF Step
<1>2. CASE Ack
  BY <1>0, <1>2, AcknowledgeType, AcknowledgeHarmless, UnseenStep DEF Ack
<1>3. CASE Restore
  BY <1>0, <1>3, RestoreLatchType, RestoreLatchHarmless, UnseenStep DEF Restore
<1>4. CASE UNCHANGED vars
  BY <1>4 DEF vars, IInv, TypeOK
<1> QED BY <1>1, <1>2, <1>3, <1>4 DEF Next

LEMMA InitInv == Init => IInv
<1> SUFFICES ASSUME Init PROVE IInv OBVIOUS
<1>1. engine = InitEngine BY DEF Init
<1>2. Quiet \in Runtime BY DEF Quiet, Runtime
<1>3. engine \in Engine
  <2>1. Shape(engine) BY <1>1 DEF Shape, InitEngine
  <2>2. LinkOK(engine) BY <1>1, Consts DEF LinkOK, InitEngine, LinkState, MaxRounds, MaxLink
  <2>3. FaultsOK(engine) BY <1>1, <1>2, Consts DEF FaultsOK, InitEngine
  <2>4. RunOK(engine) BY <1>1, Consts DEF RunOK, InitEngine, RunState
  <2>5. StartOK(engine) BY <1>1, Consts DEF StartOK, InitEngine
  <2> QED BY <2>1, <2>2, <2>3, <2>4, <2>5, EngineParts
<1>4. seen \in Observed BY Consts DEF Init, Observed
<1>5. Settled(engine) BY <1>1 DEF Settled, InitEngine
<1>6. Backed(engine, seen.stops) BY <1>1 DEF Init, Backed, InitEngine
<1>7. ~seen.failed BY DEF Init
<1> QED BY <1>3, <1>4, <1>5, <1>6, <1>7 DEF IInv, TypeOK

LEMMA Invariance == Spec => []IInv
  BY InitInv, NextInv, PTL DEF Spec

(* The private state of HpIncidentEngine stays in range.                   *)
THEOREM EngineTypeCorrect == Spec => []TypeOK
<1>1. IInv => TypeOK BY DEF IInv
<1> QED BY <1>1, Invariance, PTL

(* fallback_eligible is never set on a stop confirmation that predates the *)
(* hard fault or the link loss that made the unit unavailable.             *)
THEOREM FallbackIsFresh == Spec => []FallbackOnFreshStop
<1>1. IInv => FallbackOnFreshStop BY DEF IInv, Backed, FallbackOnFreshStop, FallbackEligible
<1> QED BY <1>1, Invariance, PTL

(* mark_link_lost() never turns a stop failure that is older than the loss *)
(* into one caused by it, however the link flaps.                          *)
THEOREM NoLaunderedFailure == Spec => []DegradedOnlyByLoss
<1>1. IInv => DegradedOnlyByLoss BY DEF IInv, DegradedOnlyByLoss, UnconfirmedByLoss
<1> QED BY <1>1, Invariance, PTL
-----------------------------------------------------------------------------
(* Part 4.  A call works on the link, on the faults or on the run; here is *)
(* what each of them leaves alone.                                         *)
SameLink(e, f) ==
  f.link = e.link /\ f.fromLoss = e.fromLoss /\ f.linkRounds = e.linkRounds
SameRecovery(e, f) ==
  /\ f.faultSeen = e.faultSeen /\ f.recovering = e.recovering
  /\ f.cleanRounds = e.cleanRounds /\ f.cleanAge = e.cleanAge
SameFaults(e, f) == f.inc = e.inc /\ SameRecovery(e, f)
SameStart(e, f)  == f.startTimedOut = e.startTimedOut

\* Time moves the durations on; only the watchdog does more.
Later(e, t, d) ==
  /\ SameLink(e, t) /\ t.inc = e.inc /\ t.faultSeen = e.faultSeen
  /\ t.recovering = e.recovering /\ t.cleanRounds = e.cleanRounds
  /\ t.cleanAge = IF e.recovering THEN AtMost(FaultRecoveryTime, e.cleanAge + d) ELSE 0
  /\ e.startTimedOut => t.startTimedOut
  /\ t.run = "STOPPED" => e.run = "STOPPED"
  /\ t.run = "START_REQUESTED" => e.run = "START_REQUESTED"

LEMMA TimePasses ==
  ASSUME NEW e \in Engine, NEW d \in Nat
  PROVE  AdvanceTime(e, d) \in Engine /\ Later(e, AdvanceTime(e, d), d)
<1> DEFINE a == Aged(e, d)
           w == Watched(a, d)
<1>0. Shape(e) BY EngineParts
<1>1. a \in Engine BY AgedType
<1>2. Later(e, a, d) /\ a.run = e.run
  BY <1>0 DEF Shape, InitEngine, Aged, Later, SameLink
<1> HIDE DEF a
<1>3. Shape(a) /\ w \in Engine BY <1>1, EngineParts, WatchedType
<1>4. /\ SameLink(a, w) /\ SameFaults(a, w) /\ w.run = a.run
      /\ a.startTimedOut => w.startTimedOut
  BY <1>3 DEF Shape, InitEngine, Watched, SameLink, SameFaults, SameRecovery
<1> HIDE DEF w
<1> DEFINE t == StopTimed(w)
<1>5. Shape(w) BY <1>3, EngineParts
<1>6. /\ SameLink(w, t) /\ SameFaults(w, t) /\ SameStart(w, t)
      /\ t.run = w.run \/ t.run = "STOP_UNCONFIRMED"
  BY <1>5 DEF Shape, InitEngine, StopTimed, SameLink, SameFaults, SameRecovery, SameStart
<1> HIDE DEF t
<1>7. Later(e, t, d)
  BY <1>2, <1>4, <1>6 DEF Later, SameLink, SameFaults, SameRecovery, SameStart
<1> QED BY <1>7, AdvanceTimeType DEF AdvanceTime, t, w, a

LEMMA StopInvalidatedLeaves ==
  ASSUME NEW e \in Engine
  PROVE  LET f == StopInvalidated(e)
         IN /\ SameLink(e, f) /\ SameFaults(e, f) /\ SameStart(e, f)
            /\ f.run # "START_REQUESTED"
<1>1. Shape(e) BY EngineParts
<1> QED BY <1>1 DEF Shape, InitEngine, StopInvalidated, SameLink, SameFaults, SameRecovery, SameStart

(* Nothing but the link.                                                   *)
RunOrStop(e, f) == f.run = e.run \/ f.run # "START_REQUESTED"
OnlyLink(e, f)  == SameFaults(e, f) /\ SameStart(e, f) /\ RunOrStop(e, f)

LEMMA LinkLostLeaves ==
  ASSUME NEW e \in Engine PROVE OnlyLink(e, LinkLost(e)) /\ LinkLost(e).link = "LOST"
<1> DEFINE i == StopInvalidated(e)
<1>1. i \in Engine BY StopInvalidatedType
<1>2. SameFaults(e, i) /\ SameStart(e, i) /\ i.run # "START_REQUESTED"
  BY StopInvalidatedLeaves
<1>3. LinkLost(e) = [i EXCEPT !.link = "LOST", !.linkRounds = 0, !.linkAge = 0, !.fromLoss = TRUE,
                              !.armed = e.run # "STOP_UNCONFIRMED" \/ (e.fromLoss /\ @)]
  BY DEF LinkLost
<1> HIDE DEF i
<1>4. Shape(i) BY <1>1, EngineParts
<1>5. SameFaults(i, LinkLost(e)) /\ SameStart(i, LinkLost(e)) /\ LinkLost(e).run = i.run /\ LinkLost(e).link = "LOST"
  BY <1>3, <1>4 DEF Shape, InitEngine, SameFaults, SameRecovery, SameStart
<1> QED BY <1>2, <1>5 DEF OnlyLink, RunOrStop, SameFaults, SameRecovery, SameStart

(* The link of a unit that is not LOST and was not, or the rounds since.   *)
LinkBacked(e, rounds) ==
  /\ e.link \notin {"LOST", "RECOVERING"} \/ (e.link = "RECOVERING" /\ ~e.fromLoss)
       => rounds = LinkRecoveryRounds
  /\ e.link = "RECOVERING" /\ e.fromLoss => e.linkRounds <= rounds

RoundsAfter(f, rounds) == IF f.link = "LOST" THEN 0 ELSE rounds

LEMMA HealthyLeaves ==
  ASSUME NEW e \in Engine
  PROVE  OnlyLink(e, Healthy(e)) /\ Healthy(e).link = "HEALTHY"
<1>1. Shape(e) BY EngineParts
<1> QED BY <1>1 DEF Shape, InitEngine, Healthy, OnlyLink, SameFaults, SameRecovery, SameStart, RunOrStop

LEMMA RoundCountedLeaves ==
  ASSUME NEW e \in Engine, e.link # "HEALTHY", NEW n \in 0 .. LinkRecoveryRounds, LinkBacked(e, n)
  PROVE  /\ OnlyLink(e, RoundCounted(e)) /\ RoundCounted(e).link = "RECOVERING"
         /\ LinkBacked(RoundCounted(e), AtMost(LinkRecoveryRounds, n + 1))
<1> DEFINE f == RoundCounted(e)
<1>1. Shape(e) /\ LinkOK(e) BY EngineParts
<1>2. OnlyLink(e, f) /\ f.link = "RECOVERING"
  BY <1>1 DEF Shape, InitEngine, RoundCounted, RecoveryStarted, OnlyLink, SameFaults, SameRecovery, SameStart,
              RunOrStop, LinkOK, LinkState
<1>3. CASE e.link \in {"SUSPECT", "BOOTSTRAP"}
  <2>1. ~f.fromLoss BY <1>1, <1>3 DEF Shape, InitEngine, RoundCounted, RecoveryStarted
  <2>2. n = LinkRecoveryRounds BY <1>3 DEF LinkBacked
  <2> HIDE DEF f
  <2> QED BY <1>2, <2>1, <2>2, Consts DEF LinkBacked, AtMost, f
<1>4. CASE e.link = "LOST"
  <2>1. f.linkRounds = 1 /\ f.fromLoss BY <1>1, <1>4 DEF Shape, InitEngine, RoundCounted, RecoveryStarted
  <2> HIDE DEF f
  <2>2. 1 <= AtMost(LinkRecoveryRounds, n + 1) BY Consts DEF AtMost
  <2> QED BY <1>2, <2>1, <2>2 DEF LinkBacked, f
<1>5. CASE e.link = "RECOVERING"
  <2>1. f.linkRounds = AtMost(LinkRecoveryRounds, e.linkRounds + 1) /\ f.fromLoss = e.fromLoss
    BY <1>1, <1>5 DEF Shape, InitEngine, RoundCounted
  <2>2. e.linkRounds \in Nat BY <1>1, Consts DEF LinkOK, MaxRounds
  <2> HIDE DEF f
  <2>3. CASE e.fromLoss
    <3>1. e.linkRounds <= n BY <1>5, <2>3 DEF LinkBacked
    <3>2. f.linkRounds <= AtMost(LinkRecoveryRounds, n + 1)
      BY <2>1, <2>2, <3>1, Consts DEF AtMost
    <3> QED BY <1>2, <2>1, <2>3, <3>2 DEF LinkBacked, f
  <2>4. CASE ~e.fromLoss
    <3>1. n = LinkRecoveryRounds BY <1>5, <2>4 DEF LinkBacked
    <3> QED BY <1>2, <2>1, <2>4, <3>1, Consts DEF LinkBacked, AtMost, f
  <2> QED BY <2>3, <2>4
<1> QED BY <1>1, <1>2, <1>3, <1>4, <1>5 DEF LinkOK, LinkState

LEMMA CompleteRoundBacked ==
  ASSUME NEW e \in Engine, NEW n \in 0 .. LinkRecoveryRounds, LinkBacked(e, n)
  PROVE  /\ OnlyLink(e, CompleteRound(e)) /\ CompleteRound(e).link # "LOST"
         /\ LinkBacked(CompleteRound(e), AtMost(LinkRecoveryRounds, n + 1))
<1> DEFINE m == AtMost(LinkRecoveryRounds, n + 1)
<1>0. n = LinkRecoveryRounds => m = LinkRecoveryRounds BY Consts DEF AtMost
<1> HIDE DEF m
<1>1. CASE e.link = "HEALTHY"
  <2>1. CompleteRound(e) = e BY <1>1 DEF CompleteRound
  <2>2. n = LinkRecoveryRounds BY <1>1 DEF LinkBacked
  <2>3. LinkBacked(e, m) BY <1>0, <1>1, <2>2 DEF LinkBacked
  <2> QED BY <1>1, <2>1, <2>3 DEF OnlyLink, SameFaults, SameRecovery, SameStart, RunOrStop, m
<1>2. CASE e.link = "SUSPECT" /\ e.everHealthy
  <2>1. CompleteRound(e) = Healthy(e) BY <1>2 DEF CompleteRound
  <2>2. n = LinkRecoveryRounds BY <1>2 DEF LinkBacked
  <2>3. OnlyLink(e, Healthy(e)) /\ Healthy(e).link = "HEALTHY" BY HealthyLeaves
  <2>4. LinkBacked(Healthy(e), m) BY <1>0, <2>2, <2>3 DEF LinkBacked
  <2> QED BY <2>1, <2>3, <2>4 DEF m
<1>3. CASE e.link # "HEALTHY" /\ ~(e.link = "SUSPECT" /\ e.everHealthy)
  <2> DEFINE t == RoundCounted(e)
             f == Recovered(t)
  <2>1. /\ t \in Engine /\ OnlyLink(e, t) /\ t.link = "RECOVERING" /\ LinkBacked(t, m)
    BY <1>3, RoundCountedType, RoundCountedLeaves DEF m
  <2>2. CompleteRound(e) = f BY <1>3 DEF CompleteRound
  <2> HIDE DEF t
  <2>3. Shape(t) /\ t.linkRounds \in Nat /\ m \in 0 .. LinkRecoveryRounds
    BY <2>1, EngineParts, Consts DEF LinkOK, MaxRounds, m, AtMost
  <2>4. CASE t.linkRounds >= LinkRecoveryRounds /\ t.linkAge >= LinkRecoveryTime
    <3>1. OnlyLink(t, f) /\ f.link = "HEALTHY"
      BY <2>3, <2>4 DEF Shape, InitEngine, Recovered, Healthy, OnlyLink, SameFaults, SameRecovery,
                        SameStart, RunOrStop
    <3> HIDE DEF f
    <3>2. m = LinkRecoveryRounds
      <4>1. CASE t.fromLoss
        <5>1. t.linkRounds <= m BY <2>1, <4>1 DEF LinkBacked
        <5> QED BY <2>3, <2>4, <5>1, Consts
      <4>2. CASE ~t.fromLoss BY <2>1, <4>2 DEF LinkBacked
      <4> QED BY <4>1, <4>2
    <3>3. LinkBacked(f, m) BY <3>1, <3>2 DEF LinkBacked
    <3>4. OnlyLink(e, f)
      BY <2>1, <3>1 DEF OnlyLink, SameFaults, SameRecovery, SameStart, RunOrStop
    <3> QED BY <2>2, <3>1, <3>3, <3>4 DEF m
  <2>5. CASE ~(t.linkRounds >= LinkRecoveryRounds /\ t.linkAge >= LinkRecoveryTime)
    <3>1. f = t BY <2>5 DEF Recovered
    <3> QED BY <2>1, <2>2, <3>1 DEF m
  <2> QED BY <2>4, <2>5
<1> QED BY <1>1, <1>2, <1>3

LEMMA IncompleteRoundBacked ==
  ASSUME NEW e \in Engine, NEW n \in 0 .. LinkRecoveryRounds, LinkBacked(e, n)
  PROVE  /\ OnlyLink(e, IncompleteRound(e))
         /\ LinkBacked(IncompleteRound(e), RoundsAfter(IncompleteRound(e), n))
         /\ IncompleteRound(e).link = "HEALTHY" => e.link = "HEALTHY"
<1> DEFINE f == IncompleteRound(e)
           t == Missed(e)
<1>1. CASE e.link = "LOST"
  <2>1. f = e BY <1>1 DEF IncompleteRound
  <2> QED BY <1>1, <2>1 DEF OnlyLink, SameFaults, SameRecovery, SameStart, RunOrStop, LinkBacked
<1>2. CASE e.link # "LOST" /\ e.link = "RECOVERING" /\ e.fromLoss
  <2>1. f = LinkLost(e) BY <1>2 DEF IncompleteRound
  <2>2. OnlyLink(e, LinkLost(e)) /\ LinkLost(e).link = "LOST" BY LinkLostLeaves
  <2> QED BY <2>1, <2>2 DEF LinkBacked
<1>3. CASE e.link # "LOST" /\ ~(e.link = "RECOVERING" /\ e.fromLoss)
  <2>0. Shape(e) /\ LinkOK(e) /\ t \in Engine BY EngineParts, MissedType
  <2>1. OnlyLink(e, t) /\ t.link = "SUSPECT"
    BY <2>0 DEF Shape, InitEngine, Missed, OnlyLink, SameFaults, SameRecovery, SameStart, RunOrStop
  <2>2. n = LinkRecoveryRounds BY <1>3, <2>0 DEF LinkBacked, LinkOK, LinkState
  <2>3. f = IF MissedTooLong(t) THEN LinkLost(t) ELSE t BY <1>3 DEF IncompleteRound
  <2> HIDE DEF t, f
  <2>4. OnlyLink(t, LinkLost(t)) /\ LinkLost(t).link = "LOST" BY <2>0, LinkLostLeaves
  <2>5. CASE MissedTooLong(t)
    <3>1. f = LinkLost(t) BY <2>3, <2>5
    <3>2. OnlyLink(e, f)
      BY <2>1, <2>4, <3>1 DEF OnlyLink, SameFaults, SameRecovery, SameStart, RunOrStop
    <3> QED BY <2>4, <3>1, <3>2 DEF LinkBacked, f
  <2>6. CASE ~MissedTooLong(t)
    BY <2>1, <2>2, <2>3, <2>6 DEF LinkBacked, RoundsAfter, f
  <2> QED BY <2>5, <2>6
<1> QED BY <1>1, <1>2, <1>3
-----------------------------------------------------------------------------
(* What a call does to the faults, against the snapshots really seen clean *)
(* and the time really gone by.                                            *)
Locked(e)  == \E i \in Incident : Kind[i] = "locked" /\ e.inc[i].latched
Tripped(e) == \E i \in Incident : StopsCompressor(i) /\ e.inc[i].confirmed

CleanBacked(e, clean, time) ==
  /\ HardFault(e) \/ e.faultSeen \/ (clean >= FaultRecoveryRounds /\ time >= FaultRecoveryTime)
  /\ Tripped(e) => e.faultSeen
  /\ e.faultSeen /\ ~e.recovering => HardFault(e)
  /\ e.recovering => Locked(e) \/ (e.cleanRounds <= clean /\ e.cleanAge <= time)
  /\ HardFault(e) => clean = 0

CleanAfter(f, clean, one)  == IF HardFault(f) THEN 0 ELSE AtMost(FaultRecoveryRounds, clean + one)
TimeAfter(e, f, time, d)   == IF Faulty(f) \/ Faulty(e) THEN 0 ELSE AtMost(FaultRecoveryTime, time + d)

LEMMA HardFaultCauses == ASSUME NEW e PROVE HardFault(e) <=> Tripped(e) \/ Locked(e)
  BY DEF HardFault, Tripped, Locked, Effective, StopsCompressor

LEMMA SameInc ==
  ASSUME NEW e, NEW f, f.inc = e.inc
  PROVE  (Tripped(f) <=> Tripped(e)) /\ (Locked(f) <=> Locked(e))
  BY DEF Tripped, Locked

\* A call that brings no fault and takes none away.
LEMMA CleanGoesOn ==
  ASSUME NEW e \in Engine, NEW f \in Engine, NEW d \in Nat,
         NEW c \in 0 .. FaultRecoveryRounds, NEW y \in 0 .. FaultRecoveryTime,
         CleanBacked(e, c, y), Tripped(f) <=> Tripped(e), Locked(f) <=> Locked(e),
         f.faultSeen = e.faultSeen, f.recovering = e.recovering, f.cleanRounds = e.cleanRounds,
         e.recovering => f.cleanAge = AtMost(FaultRecoveryTime, e.cleanAge + d)
  PROVE  CleanBacked(f, CleanAfter(f, c, 0), TimeAfter(e, f, y, d))
<1> DEFINE k == CleanAfter(f, c, 0)
           z == TimeAfter(e, f, y, d)
<1>1. HardFault(f) <=> HardFault(e) BY HardFaultCauses
<1>2. k = c
  BY <1>1, Consts DEF CleanAfter, AtMost, CleanBacked
<1>3. ~Faulty(e) => z = AtMost(FaultRecoveryTime, y + d)
  BY <1>1 DEF TimeAfter, Faulty
<1> HIDE DEF k, z
<1>4. HardFault(f) \/ f.faultSeen \/ (k >= FaultRecoveryRounds /\ z >= FaultRecoveryTime)
  <2> SUFFICES ASSUME ~HardFault(f), ~f.faultSeen
               PROVE  k >= FaultRecoveryRounds /\ z >= FaultRecoveryTime
    OBVIOUS
  <2>1. c >= FaultRecoveryRounds /\ y >= FaultRecoveryTime /\ ~Faulty(e)
    BY <1>1 DEF CleanBacked, Faulty
  <2> QED BY <1>2, <1>3, <2>1, Consts DEF AtMost
<1>5. f.recovering => Locked(f) \/ (f.cleanRounds <= k /\ f.cleanAge <= z)
  <2> SUFFICES ASSUME f.recovering, ~Locked(f) PROVE f.cleanRounds <= k /\ f.cleanAge <= z
    OBVIOUS
  <2>1. e.cleanRounds <= c /\ e.cleanAge <= y /\ ~Faulty(e) BY DEF CleanBacked, Faulty
  <2>2. e.cleanAge \in Nat /\ e.cleanRounds \in Nat BY EngineParts, Consts DEF FaultsOK
  <2> QED BY <1>2, <1>3, <2>1, <2>2, Consts DEF AtMost
<1> QED BY <1>1, <1>2, <1>4, <1>5 DEF CleanBacked, k, z

LEMMA UpdatedKeepsLock ==
  ASSUME NEW r \in Runtime, NEW i \in Incident, NEW raw \in BOOLEAN,
         Kind[i] = "locked", r.latched
  PROVE  Updated(r, i, raw).latched
  BY DEF Updated, Runtime

LEMMA FaultsReadKeepsLocks ==
  ASSUME NEW e \in Engine, NEW fresh, NEW raw
  PROVE  /\ \A i \in Incident : Kind[i] = "locked" /\ e.inc[i].latched
                               => FaultsRead(e, fresh, raw).inc[i].latched
         /\ SameRecovery(e, FaultsRead(e, fresh, raw)) /\ SameLink(e, FaultsRead(e, fresh, raw))
         /\ SameStart(e, FaultsRead(e, fresh, raw)) /\ FaultsRead(e, fresh, raw).run = e.run
<1> DEFINE f == FaultsRead(e, fresh, raw)
           n == [i \in Incident |->
                   IF BankOf[i] \in fresh THEN Updated(e.inc[i], i, i \in raw) ELSE e.inc[i]]
<1>1. Shape(e) /\ e.inc \in [Incident -> Runtime] BY EngineParts DEF FaultsOK
<1>2. f = [e EXCEPT !.inc = n] BY DEF FaultsRead
<1>3. \A i \in Incident : Kind[i] = "locked" /\ e.inc[i].latched => n[i].latched
  <2> SUFFICES ASSUME NEW i \in Incident, Kind[i] = "locked", e.inc[i].latched PROVE n[i].latched
    OBVIOUS
  <2>1. e.inc[i] \in Runtime /\ (i \in raw) \in BOOLEAN BY <1>1
  <2>2. Updated(e.inc[i], i, i \in raw).latched BY <2>1, UpdatedKeepsLock
  <2> QED BY <2>2
<1> HIDE DEF n, f
<1>4. f.inc = n /\ SameRecovery(e, f) /\ SameLink(e, f) /\ SameStart(e, f) /\ f.run = e.run
  BY <1>1, <1>2 DEF Shape, InitEngine, SameRecovery, SameLink, SameStart
<1> QED BY <1>3, <1>4 DEF f

LEMMA FaultRecoveryLeaves ==
  ASSUME NEW e \in Engine, NEW complete \in BOOLEAN
  PROVE  LET f == FaultRecovery(e, complete)
         IN f.inc = e.inc /\ SameLink(e, f) /\ SameStart(e, f) /\ f.run = e.run
<1>1. Shape(e) BY EngineParts
<1> QED BY <1>1 DEF Shape, InitEngine, FaultRecovery, SameLink, SameStart

\* What FaultRecovery() makes of the fields it owns.
LEMMA FaultRecoveryFields ==
  ASSUME NEW e \in Engine, NEW complete \in BOOLEAN, NEW f, f = FaultRecovery(e, complete)
  PROVE  LET one == IF complete THEN 1 ELSE 0
             rounds == IF e.recovering THEN AtMost(FaultRecoveryRounds, e.cleanRounds + one) ELSE one
             age == IF e.recovering THEN e.cleanAge ELSE 0
         IN /\ HardFault(e) => f.faultSeen /\ ~f.recovering
            /\ ~HardFault(e) /\ ~e.faultSeen => f = e
            /\ ~HardFault(e) /\ e.faultSeen =>
                 \/ /\ f.faultSeen /\ f.recovering
                    /\ f.cleanRounds = rounds /\ f.cleanAge = age
                 \/ /\ ~f.faultSeen /\ ~f.recovering
                    /\ rounds >= FaultRecoveryRounds /\ age >= FaultRecoveryTime
<1>1. Shape(e) BY EngineParts
<1>2. CASE HardFault(e)
  BY <1>1, <1>2 DEF Shape, InitEngine, FaultRecovery
<1>3. CASE ~HardFault(e) /\ ~e.faultSeen
  BY <1>3 DEF FaultRecovery
<1>4. CASE ~HardFault(e) /\ e.faultSeen
  <2> DEFINE one == IF complete THEN 1 ELSE 0
             r == IF ~e.recovering
                  THEN [e EXCEPT !.recovering = TRUE, !.cleanAge = 0, !.cleanRounds = one]
                  ELSE [e EXCEPT !.cleanRounds = AtMost(FaultRecoveryRounds, @ + one)]
  <2>1. /\ r.faultSeen /\ r.recovering /\ Shape(r)
        /\ r.cleanRounds = IF e.recovering
                           THEN AtMost(FaultRecoveryRounds, e.cleanRounds + one) ELSE one
        /\ r.cleanAge = IF e.recovering THEN e.cleanAge ELSE 0
    BY <1>1, <1>4 DEF Shape, InitEngine
  <2>2. f = IF complete /\ r.cleanRounds >= FaultRecoveryRounds /\ r.cleanAge >= FaultRecoveryTime
            THEN [r EXCEPT !.recovering = FALSE, !.cleanRounds = 0, !.cleanAge = 0,
                           !.faultSeen = FALSE]
            ELSE r
    BY <1>4 DEF FaultRecovery
  <2> HIDE DEF r, one
  <2>3. \/ f = r
        \/ /\ ~f.faultSeen /\ ~f.recovering
           /\ r.cleanRounds >= FaultRecoveryRounds /\ r.cleanAge >= FaultRecoveryTime
    BY <2>1, <2>2 DEF Shape, InitEngine
  <2> QED BY <1>4, <2>1, <2>3 DEF one
<1> QED BY <1>2, <1>3, <1>4
-----------------------------------------------------------------------------
(* No call but a start starts, none but a retry forgets a failed start,    *)
(* none but a confirmed power cycle lets a lock go.                        *)
Starts(e, f)  == f.run = "START_REQUESTED" /\ e.run # "START_REQUESTED"
Forgets(e, f) == e.startTimedOut /\ ~f.startTimedOut
LetsGo(e, f)  == \E i \in Incident : /\ Kind[i] = "locked" /\ e.inc[i].latched
                                     /\ ~f.inc[i].latched

LEMMA ObserveFaultWordsBacked ==
  ASSUME NEW e \in Engine, NEW d \in Nat, NEW fresh, NEW raw,
         NEW c \in 0 .. FaultRecoveryRounds, NEW y \in 0 .. FaultRecoveryTime,
         NEW one \in {0, 1}, one = IF fresh = Bank THEN 1 ELSE 0,
         CleanBacked(e, c, y), NEW f, f = ObserveFaultWords(e, d, fresh, raw)
  PROVE  /\ CleanBacked(f, CleanAfter(f, c, one), TimeAfter(e, f, y, d))
         /\ SameLink(e, f) /\ ~Starts(e, f) /\ ~Forgets(e, f) /\ ~LetsGo(e, f)
<1> DEFINE t == AdvanceTime(e, d)
           u == FaultsRead(t, fresh, raw)
           r == FaultRecovery(u, fresh = Bank)
           complete == fresh = Bank
           rounds == IF u.recovering THEN AtMost(FaultRecoveryRounds, u.cleanRounds + one) ELSE one
           age == IF u.recovering THEN u.cleanAge ELSE 0
<1>1. t \in Engine /\ Later(e, t, d) BY TimePasses
<1> HIDE DEF t
<1>2. /\ u \in Engine /\ SameRecovery(t, u) /\ SameLink(t, u) /\ SameStart(t, u) /\ u.run = t.run
      /\ \A i \in Incident : Kind[i] = "locked" /\ t.inc[i].latched => u.inc[i].latched
  BY <1>1, FaultsReadType, FaultsReadKeepsLocks
<1> HIDE DEF u
<1>3. complete \in BOOLEAN /\ one = IF complete THEN 1 ELSE 0 OBVIOUS
<1>4. /\ r \in Engine /\ r.inc = u.inc /\ SameLink(u, r) /\ SameStart(u, r) /\ r.run = u.run
  BY <1>2, <1>3, FaultRecoveryType, FaultRecoveryLeaves
<1>5. /\ HardFault(u) => r.faultSeen /\ ~r.recovering
      /\ ~HardFault(u) /\ ~u.faultSeen => r = u
      /\ ~HardFault(u) /\ u.faultSeen =>
           \/ /\ r.faultSeen /\ r.recovering
              /\ r.cleanRounds = rounds /\ r.cleanAge = age
           \/ /\ ~r.faultSeen /\ ~r.recovering
              /\ rounds >= FaultRecoveryRounds /\ age >= FaultRecoveryTime
  BY <1>2, <1>3, FaultRecoveryFields
<1> HIDE DEF r
<1>6. /\ f.inc = r.inc /\ SameRecovery(r, f) /\ SameLink(r, f) /\ SameStart(r, f)
      /\ f.run = r.run \/ f.run # "START_REQUESTED"
  <2>1. f = StopInvalidated(r) \/ f = r BY DEF ObserveFaultWords, r, u, t
  <2>2. CASE f = StopInvalidated(r)
    BY <1>4, <2>2, StopInvalidatedLeaves DEF SameFaults
  <2>3. CASE f = r
    BY <2>3 DEF SameRecovery, SameLink, SameStart
  <2> QED BY <2>1, <2>2, <2>3
<1>7. SameLink(e, f) /\ ~Starts(e, f) /\ ~Forgets(e, f)
  BY <1>1, <1>2, <1>4, <1>6 DEF Later, SameLink, SameStart, Starts, Forgets
<1>8. \A i \in Incident : Kind[i] = "locked" /\ e.inc[i].latched => f.inc[i].latched
  BY <1>1, <1>2, <1>4, <1>6 DEF Later
<1>9. Locked(e) => Locked(u) BY <1>4, <1>6, <1>8 DEF Locked
<1>10. /\ HardFault(f) <=> HardFault(u)
       /\ Tripped(f) <=> Tripped(u)
       /\ Locked(f) <=> Locked(u)
  BY <1>4, <1>6, SameInc, HardFaultCauses
<1>11. u.faultSeen = e.faultSeen /\ u.recovering = e.recovering /\ u.cleanRounds = e.cleanRounds
  BY <1>1, <1>2 DEF Later, SameRecovery
<1>12. e.recovering => u.cleanAge = AtMost(FaultRecoveryTime, e.cleanAge + d)
  BY <1>1, <1>2 DEF Later, SameRecovery
<1> DEFINE k == CleanAfter(f, c, one)
           z == TimeAfter(e, f, y, d)
<1>13. ~HardFault(f) => k = AtMost(FaultRecoveryRounds, c + one) BY DEF CleanAfter
<1>14. HardFault(f) => k = 0 BY DEF CleanAfter
<1>15. ~HardFault(f) /\ ~Faulty(e) => z = AtMost(FaultRecoveryTime, y + d)
  BY DEF TimeAfter, Faulty
<1>16. z \in Nat BY Consts DEF TimeAfter, AtMost
<1>17. e.cleanAge \in Nat /\ e.cleanRounds \in Nat BY EngineParts, Consts DEF FaultsOK
<1> HIDE DEF k, z
<1>18. ASSUME ~HardFault(u) PROVE e.recovering => e.cleanRounds <= c /\ e.cleanAge <= y /\ ~Faulty(e)
  BY <1>9, <1>18, HardFaultCauses DEF CleanBacked, Faulty
<1>19. CleanBacked(f, k, z)
  <2>1. CASE HardFault(u)
    <3>1. r.faultSeen /\ ~r.recovering BY <1>5, <2>1
    <3> QED BY <1>6, <1>10, <1>14, <2>1, <3>1 DEF CleanBacked, SameRecovery
  <2>2. CASE ~HardFault(u) /\ ~u.faultSeen
    <3>1. r = u BY <1>5, <2>2
    <3>2. ~HardFault(e) BY <1>9, <1>11, <2>2, HardFaultCauses DEF CleanBacked
    <3>3. c >= FaultRecoveryRounds /\ y >= FaultRecoveryTime /\ ~Faulty(e)
      BY <1>11, <2>2, <3>2 DEF CleanBacked, Faulty
    <3>4. k >= FaultRecoveryRounds /\ z >= FaultRecoveryTime
      BY <1>10, <1>13, <1>15, <2>2, <3>3, Consts DEF AtMost
    <3>5. ~HardFault(f) /\ ~Tripped(f) BY <1>10, <2>2, HardFaultCauses
    <3>6. ~f.faultSeen BY <1>6, <2>2, <3>1 DEF SameRecovery
    <3>7. f.recovering => f.cleanRounds <= k /\ f.cleanAge <= z
      <4> SUFFICES ASSUME f.recovering PROVE f.cleanRounds <= k /\ f.cleanAge <= z OBVIOUS
      <4>1. e.recovering /\ f.cleanRounds = e.cleanRounds /\ f.cleanAge = u.cleanAge
        BY <1>6, <1>11, <3>1 DEF SameRecovery
      <4>2. e.cleanRounds <= c /\ e.cleanAge <= y BY <1>18, <2>2, <4>1
      <4> QED BY <1>10, <1>12, <1>13, <1>15, <1>17, <2>2, <3>3, <4>1, <4>2, Consts DEF AtMost
    <3> QED BY <3>4, <3>5, <3>6, <3>7 DEF CleanBacked
  <2>3. CASE ~HardFault(u) /\ u.faultSeen
    <3>1. ~HardFault(f) /\ ~Tripped(f) BY <1>10, <2>3, HardFaultCauses
    <3>2. k = AtMost(FaultRecoveryRounds, c + one) BY <1>13, <3>1
    <3>3. rounds <= k
      BY <1>11, <1>17, <1>18, <2>3, <3>2, Consts DEF AtMost
    <3>4. age <= z
      <4>1. CASE e.recovering
        <5>1. age = AtMost(FaultRecoveryTime, e.cleanAge + d) /\ e.cleanAge <= y
          BY <1>11, <1>12, <1>18, <2>3, <4>1
        <5>2. z = AtMost(FaultRecoveryTime, y + d) BY <1>15, <1>18, <2>3, <3>1, <4>1
        <5> HIDE DEF age
        <5> QED BY <1>17, <5>1, <5>2, Consts DEF AtMost
      <4>2. CASE ~e.recovering
        BY <1>11, <1>16, <4>2
      <4> QED BY <4>1, <4>2
    <3>5. k \in Nat BY <3>2, Consts DEF AtMost
    <3>6. rounds \in Nat /\ age \in Nat
      <4>1. u.cleanRounds \in Nat /\ u.cleanAge \in Nat BY <1>2, EngineParts, Consts DEF FaultsOK
      <4> QED BY <4>1, Consts DEF AtMost
    <3> HIDE DEF rounds, age
    <3>7. CASE r.faultSeen /\ r.recovering /\ r.cleanRounds = rounds /\ r.cleanAge = age
      <4>1. f.faultSeen /\ f.recovering /\ f.cleanRounds <= k /\ f.cleanAge <= z
        BY <1>6, <3>3, <3>4, <3>7 DEF SameRecovery
      <4> QED BY <3>1, <4>1 DEF CleanBacked
    <3>8. CASE /\ ~r.faultSeen /\ ~r.recovering
               /\ rounds >= FaultRecoveryRounds /\ age >= FaultRecoveryTime
      <4>1. ~f.faultSeen /\ ~f.recovering BY <1>6, <3>8 DEF SameRecovery
      <4>2. k >= FaultRecoveryRounds /\ z >= FaultRecoveryTime
        BY <1>16, <3>3, <3>4, <3>5, <3>6, <3>8, Consts
      <4> QED BY <3>1, <4>1, <4>2 DEF CleanBacked
    <3> QED BY <1>5, <2>3, <3>7, <3>8
  <2> QED BY <2>1, <2>2, <2>3
<1> QED BY <1>7, <1>8, <1>19 DEF k, z, LetsGo

(* The calls that work on the run only.                                    *)
LEMMA SampledLeaves ==
  ASSUME NEW t \in Engine, NEW m \in BOOLEAN, NEW stop \in BOOLEAN, NEW active \in BOOLEAN
  PROVE  LET f == Sampled(t, m, stop, active)
         IN SameLink(t, f) /\ SameFaults(t, f) /\ SameStart(t, f) /\ f.run # "START_REQUESTED"
<1> DEFINE s == [t EXCEPT !.modeSeen = @ \/ m]
           f == Sampled(t, m, stop, active)
<1>1. s \in Engine BY DEF Engine
<1>2. Shape(t) BY EngineParts
<1>3. SameLink(t, s) /\ SameFaults(t, s) /\ SameStart(t, s) /\ s.run = t.run
  BY <1>2 DEF Shape, InitEngine, SameLink, SameFaults, SameRecovery, SameStart
<1>4. f = IF ~active THEN SampleInactive(s, m, stop)
          ELSE IF s.stopRequested THEN SampleActive(s)
          ELSE SampleStarted(SampleActive(s), m)
  BY DEF Sampled
<1> HIDE DEF s, f
<1>5. Shape(s) BY <1>1, EngineParts
<1>6. CASE ~active
  <2>1. f = SampleInactive(s, m, stop) BY <1>4, <1>6
  <2>2. SameLink(s, f) /\ SameFaults(s, f) /\ SameStart(s, f)
    BY <1>5, <2>1 DEF Shape, InitEngine, SampleInactive, SampleStopped, SameLink, SameFaults, SameRecovery, SameStart
  <2>3. f.run # "START_REQUESTED"
    BY <1>5, <2>1 DEF Shape, InitEngine, SampleInactive, SampleStopped, Waiting
  <2> QED BY <1>3, <2>2, <2>3 DEF SameLink, SameFaults, SameRecovery, SameStart, f
<1>7. CASE active
  <2> DEFINE a == SampleActive(s)
  <2>1. a \in Engine BY <1>1, SampleActiveType
  <2>2. /\ SameLink(s, a) /\ SameFaults(s, a) /\ SameStart(s, a)
        /\ s.stopRequested => a.run # "START_REQUESTED"
    BY <1>5 DEF Shape, InitEngine, SampleActive, SameLink, SameFaults, SameRecovery, SameStart
  <2> HIDE DEF a
  <2>3. Shape(a) BY <2>1, EngineParts
  <2>4. LET b == SampleStarted(a, m)
        IN SameLink(a, b) /\ SameFaults(a, b) /\ SameStart(a, b) /\ b.run # "START_REQUESTED"
    BY <2>3 DEF Shape, InitEngine, SampleStarted, SameLink, SameFaults, SameRecovery, SameStart
  <2>5. SameLink(s, f) /\ SameFaults(s, f) /\ SameStart(s, f) /\ f.run # "START_REQUESTED"
    BY <1>4, <1>7, <2>2, <2>4 DEF SameLink, SameFaults, SameRecovery, SameStart, a
  <2> QED BY <1>3, <2>5 DEF SameLink, SameFaults, SameRecovery, SameStart, f
<1> QED BY <1>6, <1>7

LEMMA StopAcceptedLeaves ==
  ASSUME NEW t \in Engine
  PROVE  LET f == StopAccepted(t)
         IN SameLink(t, f) /\ SameFaults(t, f) /\ SameStart(t, f) /\ RunOrStop(t, f)
<1>1. Shape(t) BY EngineParts
<1> QED BY <1>1 DEF Shape, InitEngine, StopAccepted, StopInitialized, SameLink, SameFaults, SameRecovery,
                    SameStart, RunOrStop

LEMMA StartAcceptedLeaves ==
  ASSUME NEW t \in Engine PROVE SameLink(t, StartAccepted(t)) /\ SameFaults(t, StartAccepted(t))
<1>1. Shape(t) BY EngineParts
<1> QED BY <1>1 DEF Shape, InitEngine, StartAccepted, SameLink, SameFaults, SameRecovery

LEMMA RetryAcceptedLeaves ==
  ASSUME NEW t \in Engine
  PROVE  /\ SameLink(t, RetryAccepted(t)) /\ SameFaults(t, RetryAccepted(t))
         /\ RetryAccepted(t).run = t.run
<1>1. Shape(t) BY EngineParts
<1> QED BY <1>1 DEF Shape, InitEngine, RetryAccepted, SameLink, SameFaults, SameRecovery

LEMMA AcknowledgeLeaves ==
  ASSUME NEW e \in Engine, NEW i \in Incident
  PROVE  LET f == Acknowledge(e, i)
         IN /\ SameLink(e, f) /\ SameRecovery(e, f) /\ SameStart(e, f) /\ f.run = e.run
            /\ Tripped(f) <=> Tripped(e)
            /\ \A j \in Incident : Kind[j] = "locked" => f.inc[j] = e.inc[j]
<1> DEFINE f == Acknowledge(e, i)
<1>1. e.inc \in [Incident -> Runtime] BY DEF Engine
<1>2. /\ SameLink(e, f) /\ SameRecovery(e, f) /\ SameStart(e, f) /\ f.run = e.run
  BY DEF Acknowledge, Engine, SameLink, SameRecovery, SameStart
<1>3. \A j \in Incident : Kind[j] = "locked" => f.inc[j] = e.inc[j]
  BY <1>1 DEF Acknowledge, Engine
<1>4. \A j \in Incident : f.inc[j].confirmed = e.inc[j].confirmed
  BY <1>1 DEF Acknowledge, Engine, Runtime
<1> HIDE DEF f
<1>5. Tripped(f) <=> Tripped(e) BY <1>4 DEF Tripped
<1> QED BY <1>2, <1>3, <1>5 DEF f

LEMMA RestoreLatchLeaves ==
  ASSUME NEW e \in Engine, NEW i \in Incident
  PROVE  LET f == RestoreLatch(e, i)
         IN /\ SameLink(e, f) /\ SameRecovery(e, f) /\ SameStart(e, f) /\ f.run = e.run
            /\ Tripped(f) <=> Tripped(e)
            /\ \A j \in Incident : e.inc[j].latched => f.inc[j].latched
            /\ Locked(f) \/ f = e
<1> DEFINE f == RestoreLatch(e, i)
<1>1. e.inc \in [Incident -> Runtime] BY DEF Engine
<1>2. /\ SameLink(e, f) /\ SameRecovery(e, f) /\ SameStart(e, f) /\ f.run = e.run
  BY DEF RestoreLatch, Engine, SameLink, SameRecovery, SameStart
<1>3. \A j \in Incident : f.inc[j].confirmed = e.inc[j].confirmed
  BY <1>1 DEF RestoreLatch, Engine, Runtime
<1>4. \A j \in Incident : e.inc[j].latched => f.inc[j].latched
  BY <1>1 DEF RestoreLatch, Engine, Runtime
<1>5. Locked(f) \/ f = e
  <2>1. CASE Kind[i] = "locked"
    <3>1. f.inc[i].latched BY <1>1, <2>1 DEF RestoreLatch, Engine, Runtime
    <3> QED BY <2>1, <3>1 DEF Locked
  <2>2. CASE Kind[i] # "locked"
    BY <2>2 DEF RestoreLatch
  <2> QED BY <2>1, <2>2
<1> HIDE DEF f
<1>6. Tripped(f) <=> Tripped(e) BY <1>3 DEF Tripped
<1> QED BY <1>2, <1>4, <1>5, <1>6 DEF f
LEMMA ConfirmPowerCycleBacked ==
  ASSUME NEW e \in Engine, NEW d \in Nat,
         NEW c \in 0 .. FaultRecoveryRounds, NEW y \in 0 .. FaultRecoveryTime,
         CleanBacked(e, c, y), NEW f, f = ConfirmPowerCycle(e, d)
  PROVE  /\ CleanBacked(f, CleanAfter(f, c, 0), TimeAfter(e, f, y, d))
         /\ SameLink(e, f) /\ ~Starts(e, f) /\ ~Forgets(e, f)
         /\ \A i \in Incident : e.inc[i].latched /\ ~f.inc[i].latched => Releasable(e, i)
<1> DEFINE t == AdvanceTime(e, d)
           u == Released(t)
<1>1. t \in Engine /\ Later(e, t, d) BY TimePasses
<1>2. f \in Engine BY ConfirmPowerCycleType
<1>3. \/ f = [u EXCEPT !.faultSeen = TRUE, !.recovering = TRUE, !.cleanAge = 0, !.cleanRounds = 0]
      \/ f = t
  BY DEF ConfirmPowerCycle
<1> HIDE DEF t
<1>4. \A i \in Incident : Releasable(t, i) <=> Releasable(e, i)
  BY <1>1 DEF Later, Releasable
<1>5. CASE f = t
  <2>1. CleanBacked(f, CleanAfter(f, c, 0), TimeAfter(e, f, y, d))
    <3>1. /\ Tripped(f) <=> Tripped(e)
          /\ Locked(f) <=> Locked(e)
      BY <1>1, <1>5, SameInc DEF Later
    <3> QED BY <1>1, <1>2, <1>5, <3>1, CleanGoesOn DEF Later
  <2> QED BY <1>1, <1>5, <2>1 DEF Later, Starts, Forgets
<1>6. CASE f = [u EXCEPT !.faultSeen = TRUE, !.recovering = TRUE, !.cleanAge = 0, !.cleanRounds = 0]
  <2>1. u \in Engine /\ t.inc \in [Incident -> Runtime] BY <1>1, ReleasedType DEF Engine
  <2>2. SameLink(t, u) /\ SameStart(t, u) /\ u.run = t.run
    BY <1>1 DEF Released, Engine, SameLink, SameStart
  <2>3. \A i \in Incident : t.inc[i].latched /\ ~u.inc[i].latched => Releasable(t, i)
    BY <1>1, <2>1 DEF Released, Engine, Runtime
  <2> HIDE DEF u
  <2>4. Shape(u) BY <2>1, EngineParts
  <2>5. /\ SameLink(u, f) /\ SameStart(u, f) /\ f.run = u.run /\ f.inc = u.inc
        /\ f.faultSeen /\ f.recovering /\ f.cleanAge = 0 /\ f.cleanRounds = 0
    BY <1>6, <2>4 DEF Shape, InitEngine, SameLink, SameStart
  <2>6. CleanAfter(f, c, 0) \in Nat /\ TimeAfter(e, f, y, d) \in Nat
    BY Consts DEF CleanAfter, TimeAfter, AtMost
  <2>7. HardFault(f) => CleanAfter(f, c, 0) = 0 BY DEF CleanAfter
  <2>8. CleanBacked(f, CleanAfter(f, c, 0), TimeAfter(e, f, y, d))
    BY <2>5, <2>6, <2>7 DEF CleanBacked
  <2>9. \A i \in Incident : e.inc[i].latched /\ ~f.inc[i].latched => Releasable(e, i)
    BY <1>1, <1>4, <2>3, <2>5 DEF Later
  <2> QED BY <1>1, <2>2, <2>5, <2>8, <2>9 DEF Later, SameLink, SameStart, Starts, Forgets
<1> QED BY <1>3, <1>5, <1>6

(* A call that lets time pass and then works on the run only.              *)
LEMMA RunCall ==
  ASSUME NEW e \in Engine, NEW f \in Engine, NEW t, NEW d \in Nat, Later(e, t, d),
         SameLink(t, f), SameFaults(t, f),
         NEW c \in 0 .. FaultRecoveryRounds, NEW y \in 0 .. FaultRecoveryTime,
         CleanBacked(e, c, y)
  PROVE  /\ CleanBacked(f, CleanAfter(f, c, 0), TimeAfter(e, f, y, d))
         /\ SameLink(e, f) /\ ~LetsGo(e, f)
<1>1. /\ f.inc = e.inc /\ f.faultSeen = e.faultSeen /\ f.recovering = e.recovering
      /\ f.cleanRounds = e.cleanRounds
      /\ e.recovering => f.cleanAge = AtMost(FaultRecoveryTime, e.cleanAge + d)
  BY DEF Later, SameFaults, SameRecovery
<1>2. /\ Tripped(f) <=> Tripped(e)
      /\ Locked(f) <=> Locked(e)
  BY <1>1, SameInc
<1>3. CleanBacked(f, CleanAfter(f, c, 0), TimeAfter(e, f, y, d))
  BY <1>1, <1>2, CleanGoesOn
<1> QED BY <1>1, <1>3 DEF Later, SameLink, LetsGo

(* The invariant of the action properties.                                 *)
FInv ==
  /\ IInv
  /\ LinkBacked(engine, seen.rounds)
  /\ CleanBacked(engine, seen.clean, seen.cleanTime)

\* What a call that takes `d` has done and what it may not have done.
Faithful(d) ==
  /\ LinkBacked(engine', seen'.rounds)
  /\ CleanBacked(engine', seen'.clean, seen'.cleanTime)
  /\ Starts(engine, engine') => Start(d) /\ Available(AdvanceTime(engine, d))
  /\ Forgets(engine, engine') => Retry(d) /\ RetryReady(AdvanceTime(engine, d))
  /\ \A i \in Incident :
       Kind[i] = "locked" /\ engine.inc[i].latched /\ ~engine'.inc[i].latched
       => Confirm(d) /\ Releasable(engine, i)

LEMMA SeenFaithful ==
  ASSUME FInv, NEW d \in Nat, NEW stops, NEW one \in {0, 1}, NEW rounds,
         See(d, stops, one, rounds)
  PROVE  /\ seen'.clean = CleanAfter(engine', seen.clean, one)
         /\ seen'.cleanTime = TimeAfter(engine, engine', seen.cleanTime, d)
         /\ seen'.rounds = RoundsAfter(engine', rounds)
         /\ SameLink(engine, engine') /\ rounds = seen.rounds => LinkBacked(engine', seen'.rounds)
<1>1. /\ seen'.clean = CleanAfter(engine', seen.clean, one)
      /\ seen'.cleanTime = TimeAfter(engine, engine', seen.cleanTime, d)
      /\ seen'.rounds = RoundsAfter(engine', rounds)
  BY DEF See, CleanAfter, TimeAfter, RoundsAfter
<1>2. SameLink(engine, engine') /\ rounds = seen.rounds => LinkBacked(engine', seen'.rounds)
  BY <1>1 DEF FInv, LinkBacked, SameLink, RoundsAfter
<1> QED BY <1>1, <1>2

\* A call seen as nothing, on the run only, that neither starts nor forgets.
LEMMA RunCallFaithful ==
  ASSUME FInv, NEW d \in Nat, NEW t, Later(engine, t, d), engine' \in Engine,
         SameLink(t, engine'), SameFaults(t, engine'), NEW stops, See(d, stops, 0, seen.rounds),
         Starts(engine, engine') => Start(d) /\ Available(AdvanceTime(engine, d)),
         Forgets(engine, engine') => Retry(d) /\ RetryReady(AdvanceTime(engine, d))
  PROVE  Faithful(d)
<1>1. /\ seen.clean \in 0 .. FaultRecoveryRounds /\ seen.cleanTime \in 0 .. FaultRecoveryTime
      /\ engine \in Engine
  BY DEF FInv, IInv, TypeOK, Observed
<1>2. /\ CleanBacked(engine', CleanAfter(engine', seen.clean, 0), TimeAfter(engine, engine', seen.cleanTime, d))
      /\ SameLink(engine, engine') /\ ~LetsGo(engine, engine')
  BY <1>1, RunCall DEF FInv
<1> QED BY <1>2, SeenFaithful DEF Faithful, LetsGo

LEMMA LinkRoundFaithful == ASSUME FInv, NEW d \in Nat, LinkRound(d) PROVE Faithful(d)
<1> DEFINE t == AdvanceTime(engine, d)
<1>0. /\ engine \in Engine /\ seen.rounds \in 0 .. LinkRecoveryRounds
      /\ seen.clean \in 0 .. FaultRecoveryRounds /\ seen.cleanTime \in 0 .. FaultRecoveryTime
  BY DEF FInv, IInv, TypeOK, Observed
<1>1. PICK complete \in BOOLEAN :
        /\ engine' = ObserveLinkRound(engine, d, complete)
        /\ See(d, seen.stops, 0, IF complete THEN AtMost(LinkRecoveryRounds, seen.rounds + 1)
                                 ELSE seen.rounds)
  BY DEF LinkRound
<1>2. t \in Engine /\ Later(engine, t, d) BY <1>0, TimePasses
<1>3. engine' = IF complete THEN CompleteRound(t) ELSE IncompleteRound(t)
  BY <1>1 DEF ObserveLinkRound
<1> HIDE DEF t
<1>4. LinkBacked(t, seen.rounds) BY <1>2 DEF FInv, LinkBacked, Later, SameLink
<1>5. OnlyLink(t, engine') /\ LinkBacked(engine', seen'.rounds)
  <2>1. CASE complete
    <3>1. /\ OnlyLink(t, engine') /\ engine'.link # "LOST"
          /\ LinkBacked(engine', AtMost(LinkRecoveryRounds, seen.rounds + 1))
      BY <1>0, <1>2, <1>3, <1>4, <2>1, CompleteRoundBacked
    <3>2. seen'.rounds = RoundsAfter(engine', AtMost(LinkRecoveryRounds, seen.rounds + 1))
      BY <1>1, <2>1, SeenFaithful
    <3> QED BY <3>1, <3>2 DEF RoundsAfter
  <2>2. CASE ~complete
    <3>1. OnlyLink(t, engine') /\ LinkBacked(engine', RoundsAfter(engine', seen.rounds))
      BY <1>0, <1>2, <1>3, <1>4, <2>2, IncompleteRoundBacked
    <3>2. seen'.rounds = RoundsAfter(engine', seen.rounds)
      BY <1>1, <2>2, SeenFaithful
    <3> QED BY <3>1, <3>2
  <2> QED BY <2>1, <2>2
<1>6. engine' \in Engine BY <1>0, <1>1, ObserveLinkRoundType
<1>7. /\ engine'.inc = engine.inc /\ engine'.faultSeen = engine.faultSeen
      /\ engine'.recovering = engine.recovering /\ engine'.cleanRounds = engine.cleanRounds
      /\ engine.recovering => engine'.cleanAge = AtMost(FaultRecoveryTime, engine.cleanAge + d)
      /\ ~Starts(engine, engine') /\ ~Forgets(engine, engine')
  BY <1>2, <1>5 DEF OnlyLink, SameFaults, SameRecovery, SameStart, RunOrStop, Later, Starts, Forgets
<1>8. /\ Tripped(engine') <=> Tripped(engine)
      /\ Locked(engine') <=> Locked(engine)
  BY <1>7, SameInc
<1>9. CleanBacked(engine', CleanAfter(engine', seen.clean, 0), TimeAfter(engine, engine', seen.cleanTime, d))
  BY <1>0, <1>6, <1>7, <1>8, CleanGoesOn DEF FInv
<1>10. /\ seen'.clean = CleanAfter(engine', seen.clean, 0)
       /\ seen'.cleanTime = TimeAfter(engine, engine', seen.cleanTime, d)
  BY <1>1, SeenFaithful
<1> QED BY <1>5, <1>7, <1>9, <1>10 DEF Faithful

LEMMA FaultWordsFaithful == ASSUME FInv, NEW d \in Nat, FaultWords(d) PROVE Faithful(d)
<1>0. /\ engine \in Engine
      /\ seen.clean \in 0 .. FaultRecoveryRounds /\ seen.cleanTime \in 0 .. FaultRecoveryTime
  BY DEF FInv, IInv, TypeOK, Observed
<1>1. PICK fresh \in SUBSET Bank \ {{}}, raw \in SUBSET Incident :
        /\ engine' = ObserveFaultWords(engine, d, fresh, raw)
        /\ See(d, seen.stops, IF fresh = Bank THEN 1 ELSE 0, seen.rounds)
  BY DEF FaultWords
<1> DEFINE one == IF fresh = Bank THEN 1 ELSE 0
<1>2. one \in {0, 1} OBVIOUS
<1>3. /\ CleanBacked(engine', CleanAfter(engine', seen.clean, one),
                              TimeAfter(engine, engine', seen.cleanTime, d))
      /\ SameLink(engine, engine') /\ ~Starts(engine, engine')
      /\ ~Forgets(engine, engine') /\ ~LetsGo(engine, engine')
  BY <1>0, <1>1, <1>2, ObserveFaultWordsBacked DEF FInv
<1>4. /\ seen'.clean = CleanAfter(engine', seen.clean, one)
      /\ seen'.cleanTime = TimeAfter(engine, engine', seen.cleanTime, d)
      /\ LinkBacked(engine', seen'.rounds)
  BY <1>1, <1>2, <1>3, SeenFaithful
<1> HIDE DEF one
<1> QED BY <1>3, <1>4 DEF Faithful, LetsGo

LEMMA RunSampleFaithful == ASSUME FInv, NEW d \in Nat, RunSample(d) PROVE Faithful(d)
<1> DEFINE t == AdvanceTime(engine, d)
<1>0. engine \in Engine BY DEF FInv, IInv, TypeOK
<1>1. PICK fresh \in BOOLEAN :
        \E m, stop, active \in Says(fresh) :
          /\ engine' = ObserveRun(engine, d, fresh, m, stop, active)
          /\ See(d, StopsAfter(t, seen.stops, Consumed(t, fresh), stop, active), 0, seen.rounds)
  BY DEF RunSample, StopsAfter
<1>2. Says(fresh) \subseteq BOOLEAN BY DEF Says
<1>3. PICK m \in BOOLEAN, stop \in BOOLEAN, active \in BOOLEAN :
        /\ engine' = ObserveRun(engine, d, fresh, m, stop, active)
        /\ See(d, StopsAfter(t, seen.stops, Consumed(t, fresh), stop, active), 0, seen.rounds)
  BY <1>1, <1>2
<1>4. t \in Engine /\ Later(engine, t, d) BY <1>0, TimePasses
<1>5. engine' = Sampled(t, m, stop, active) \/ engine' = t BY <1>3 DEF ObserveRun
<1>6. engine' \in Engine BY <1>0, <1>3, ObserveRunType
<1> HIDE DEF t
<1>7. /\ SameLink(t, engine') /\ SameFaults(t, engine') /\ SameStart(t, engine')
      /\ engine'.run = t.run \/ engine'.run # "START_REQUESTED"
  BY <1>4, <1>5, SampledLeaves DEF SameLink, SameFaults, SameRecovery, SameStart
<1>8. ~Starts(engine, engine') /\ ~Forgets(engine, engine')
  BY <1>4, <1>7 DEF Later, SameStart, Starts, Forgets
<1> QED BY <1>3, <1>4, <1>6, <1>7, <1>8, RunCallFaithful

LEMMA StartFaithful == ASSUME FInv, NEW d \in Nat, Start(d) PROVE Faithful(d)
<1> DEFINE t == AdvanceTime(engine, d)
<1>0. engine \in Engine BY DEF FInv, IInv, TypeOK
<1>1. engine' = RequestStart(engine, d) /\ See(d, seen.stops, 0, seen.rounds) BY DEF Start, Unseen
<1>2. t \in Engine /\ Later(engine, t, d) BY <1>0, TimePasses
<1>3. (engine' = StartAccepted(t) /\ Available(t)) \/ engine' = t BY <1>1 DEF RequestStart
<1>4. engine' \in Engine BY <1>0, <1>1, RequestStartType
<1>5. SameLink(t, engine') /\ SameFaults(t, engine')
  BY <1>2, <1>3, StartAcceptedLeaves DEF SameLink, SameFaults, SameRecovery
<1>6. engine' = t => ~Starts(engine, engine') /\ ~Forgets(engine, engine')
  BY <1>2 DEF Later, Starts, Forgets
<1>7. Available(t) => ~Forgets(engine, engine') BY <1>2 DEF Available, Later, Forgets
<1> QED BY <1>1, <1>2, <1>3, <1>4, <1>5, <1>6, <1>7, RunCallFaithful

LEMMA StopFaithful == ASSUME FInv, NEW d \in Nat, Stop(d) PROVE Faithful(d)
<1> DEFINE t == AdvanceTime(engine, d)
<1>0. engine \in Engine BY DEF FInv, IInv, TypeOK
<1>1. engine' = StopAccepted(t) /\ See(d, seen.stops, 0, seen.rounds)
  BY DEF Stop, Unseen, RequestStop
<1>2. t \in Engine /\ Later(engine, t, d) BY <1>0, TimePasses
<1>3. engine' \in Engine BY <1>1, <1>2, StopAcceptedType
<1> HIDE DEF t
<1>4. SameLink(t, engine') /\ SameFaults(t, engine') /\ SameStart(t, engine') /\ RunOrStop(t, engine')
  BY <1>1, <1>2, StopAcceptedLeaves
<1>5. ~Starts(engine, engine') /\ ~Forgets(engine, engine')
  BY <1>2, <1>4 DEF Later, SameStart, RunOrStop, Starts, Forgets
<1> QED BY <1>1, <1>2, <1>3, <1>4, <1>5, RunCallFaithful

LEMMA TickFaithful == ASSUME FInv, NEW d \in Nat, Tick(d) PROVE Faithful(d)
<1> DEFINE t == AdvanceTime(engine, d)
<1>0. engine \in Engine BY DEF FInv, IInv, TypeOK
<1>1. engine' = t /\ See(d, seen.stops, 0, seen.rounds) BY DEF Tick, Unseen
<1>2. t \in Engine /\ Later(engine, t, d) BY <1>0, TimePasses
<1> HIDE DEF t
<1>3. SameLink(t, engine') /\ SameFaults(t, engine')
  BY <1>1 DEF SameLink, SameFaults, SameRecovery
<1>4. ~Starts(engine, engine') /\ ~Forgets(engine, engine')
  BY <1>1, <1>2 DEF Later, Starts, Forgets
<1> QED BY <1>1, <1>2, <1>3, <1>4, RunCallFaithful

LEMMA RetryFaithful == ASSUME FInv, NEW d \in Nat, Retry(d) PROVE Faithful(d)
<1> DEFINE t == AdvanceTime(engine, d)
<1>0. engine \in Engine BY DEF FInv, IInv, TypeOK
<1>1. engine' = ClearStartFailure(engine, d) /\ See(d, seen.stops, 0, seen.rounds)
  BY DEF Retry, Unseen
<1>2. t \in Engine /\ Later(engine, t, d) BY <1>0, TimePasses
<1>3. (engine' = RetryAccepted(t) /\ RetryReady(t)) \/ engine' = t BY <1>1 DEF ClearStartFailure
<1>4. engine' \in Engine BY <1>0, <1>1, ClearStartFailureType
<1>5. SameLink(t, engine') /\ SameFaults(t, engine') /\ engine'.run = t.run
  BY <1>2, <1>3, RetryAcceptedLeaves DEF SameLink, SameFaults, SameRecovery
<1>6. ~Starts(engine, engine') BY <1>2, <1>5 DEF Later, Starts
<1>7. engine' = t => ~Forgets(engine, engine') BY <1>2 DEF Later, Forgets
<1> QED BY <1>1, <1>2, <1>3, <1>4, <1>5, <1>6, <1>7, RunCallFaithful

LEMMA ConfirmFaithful == ASSUME FInv, NEW d \in Nat, Confirm(d) PROVE Faithful(d)
<1>0. /\ engine \in Engine
      /\ seen.clean \in 0 .. FaultRecoveryRounds /\ seen.cleanTime \in 0 .. FaultRecoveryTime
  BY DEF FInv, IInv, TypeOK, Observed
<1>1. engine' = ConfirmPowerCycle(engine, d) /\ See(d, seen.stops, 0, seen.rounds)
  BY DEF Confirm, Unseen
<1>2. /\ CleanBacked(engine', CleanAfter(engine', seen.clean, 0),
                              TimeAfter(engine, engine', seen.cleanTime, d))
      /\ SameLink(engine, engine') /\ ~Starts(engine, engine') /\ ~Forgets(engine, engine')
      /\ \A i \in Incident : engine.inc[i].latched /\ ~engine'.inc[i].latched => Releasable(engine, i)
  BY <1>0, <1>1, ConfirmPowerCycleBacked DEF FInv
<1> QED BY <1>1, <1>2, SeenFaithful DEF Faithful

(* The calls that take no time: they leave every duration as it was.       *)
LEMMA AtOnce ==
  ASSUME FInv, engine' \in Engine, Unseen(0), SameLink(engine, engine'), SameStart(engine, engine'),
         engine'.run = engine.run, SameRecovery(engine, engine'),
         Tripped(engine') <=> Tripped(engine),
         Locked(engine) => Locked(engine'),
         \A i \in Incident : Kind[i] = "locked" /\ engine.inc[i].latched => engine'.inc[i].latched
  PROVE  Faithful(0)
<1>0. /\ engine \in Engine
      /\ seen.clean \in 0 .. FaultRecoveryRounds /\ seen.cleanTime \in 0 .. FaultRecoveryTime
      /\ 0 \in Nat /\ engine.cleanAge \in 0 .. FaultRecoveryTime /\ CleanBacked(engine, seen.clean, seen.cleanTime)
  BY EngineParts DEF FInv, IInv, TypeOK, Observed, FaultsOK
<1> DEFINE k == CleanAfter(engine', seen.clean, 0)
           z == TimeAfter(engine, engine', seen.cleanTime, 0)
<1>1. CleanBacked(engine', k, z)
  <2>1. CASE Locked(engine')
    <3>1. HardFault(engine') BY <2>1, HardFaultCauses
    <3>2. k = 0 BY <3>1 DEF CleanAfter
    <3> HIDE DEF k, z
    <3> QED BY <1>0, <2>1, <3>1, <3>2 DEF CleanBacked, SameRecovery
  <2>2. CASE ~Locked(engine')
    <3>1. Locked(engine') <=> Locked(engine) BY <2>2
    <3>2. engine'.cleanAge = AtMost(FaultRecoveryTime, engine.cleanAge + 0)
      BY <1>0, Consts DEF SameRecovery, AtMost
    <3> QED BY <1>0, <3>1, <3>2, CleanGoesOn DEF SameRecovery
  <2> QED BY <2>1, <2>2
<1>2. ~Starts(engine, engine') /\ ~Forgets(engine, engine')
  BY DEF Starts, Forgets, SameStart
<1>3. See(0, seen.stops, 0, seen.rounds) BY DEF Unseen
<1>4. seen'.clean = k /\ seen'.cleanTime = z /\ LinkBacked(engine', seen'.rounds)
  BY <1>0, <1>3, SeenFaithful
<1> HIDE DEF k, z
<1> QED BY <1>1, <1>2, <1>4 DEF Faithful

LEMMA AckFaithful == ASSUME FInv, Ack PROVE Faithful(0)
<1>1. PICK i \in Incident : engine' = Acknowledge(engine, i) /\ Unseen(0) BY DEF Ack
<1>2. engine \in Engine /\ engine' \in Engine
  BY <1>1, AcknowledgeType DEF FInv, IInv, TypeOK
<1>3. /\ SameLink(engine, engine') /\ SameRecovery(engine, engine') /\ SameStart(engine, engine')
      /\ engine'.run = engine.run /\ (Tripped(engine') <=> Tripped(engine))
      /\ \A j \in Incident : Kind[j] = "locked" => engine'.inc[j] = engine.inc[j]
  BY <1>1, <1>2, AcknowledgeLeaves
<1>4. Locked(engine') <=> Locked(engine) BY <1>3 DEF Locked
<1> QED BY <1>1, <1>2, <1>3, <1>4, AtOnce

LEMMA RestoreFaithful == ASSUME FInv, Restore PROVE Faithful(0)
<1>1. PICK i \in Incident : engine' = RestoreLatch(engine, i) /\ Unseen(0) BY DEF Restore
<1>2. engine \in Engine /\ engine' \in Engine
  BY <1>1, RestoreLatchType DEF FInv, IInv, TypeOK
<1>3. /\ SameLink(engine, engine') /\ SameRecovery(engine, engine') /\ SameStart(engine, engine')
      /\ engine'.run = engine.run /\ (Tripped(engine') <=> Tripped(engine))
      /\ \A j \in Incident : engine.inc[j].latched => engine'.inc[j].latched
  BY <1>1, <1>2, RestoreLatchLeaves
<1>4. Locked(engine) => Locked(engine') BY <1>3 DEF Locked
<1> QED BY <1>1, <1>2, <1>3, <1>4, AtOnce

(* What any step has done, a call or a stutter.                            *)
LEMMA NextFaithful ==
  ASSUME FInv, [Next]_vars
  PROVE  (\E d \in 0 .. MaxStep : Faithful(d)) \/ UNCHANGED vars
<1>0. 0 \in 0 .. MaxStep BY Consts
<1>1. ASSUME NEW d \in 0 .. MaxStep, Step(d) PROVE Faithful(d)
  <2>1. d \in Nat BY NatStep
  <2> QED BY <1>1, <2>1, LinkRoundFaithful, FaultWordsFaithful, RunSampleFaithful, StartFaithful,
             StopFaithful, TickFaithful, RetryFaithful, ConfirmFaithful DEF Step
<1> QED BY <1>0, <1>1, AckFaithful, RestoreFaithful DEF Next

LEMMA FInvariance == Spec => []FInv
<1>1. Init => FInv
  <2> SUFFICES ASSUME Init
               PROVE  LinkBacked(engine, seen.rounds) /\ CleanBacked(engine, seen.clean, seen.cleanTime)
    BY InitInv DEF FInv
  <2>1. engine = InitEngine BY DEF Init
  <2>2. engine.link = "BOOTSTRAP" /\ ~engine.faultSeen /\ ~engine.recovering
    BY <2>1 DEF InitEngine
  <2>3. \A i \in Incident : ~engine.inc[i].confirmed /\ ~engine.inc[i].latched
    BY <2>1 DEF InitEngine, Quiet
  <2>4. ~Tripped(engine) /\ ~Locked(engine) /\ ~HardFault(engine)
    BY <2>3, HardFaultCauses DEF Tripped, Locked
  <2>5. /\ seen.clean = FaultRecoveryRounds /\ seen.cleanTime = FaultRecoveryTime
        /\ seen.rounds = LinkRecoveryRounds
    BY DEF Init
  <2> QED BY <2>2, <2>4, <2>5, Consts DEF LinkBacked, CleanBacked
<1>2. FInv /\ [Next]_vars => FInv'
  <2> SUFFICES ASSUME FInv, [Next]_vars PROVE FInv' OBVIOUS
  <2>1. IInv' BY NextInv DEF FInv
  <2>2. CASE \E d \in 0 .. MaxStep : Faithful(d)
    BY <2>1, <2>2 DEF Faithful, FInv
  <2>3. CASE UNCHANGED vars
    BY <2>1, <2>3 DEF vars, FInv
  <2> QED BY <2>2, <2>3, NextFaithful
<1> QED BY <1>1, <1>2, PTL DEF Spec

(* After a confirmed loss the link is healthy again only with enough       *)
(* complete rounds in a row, through suspicion and renewed losses.         *)
THEOREM LossRecoveredInFull == Spec => LossNeedsFullRecovery
<1>1. ASSUME FInv, FInv', engine'.link = "HEALTHY"
      PROVE  seen'.rounds >= LinkRecoveryRounds
  <2>1. seen'.rounds = LinkRecoveryRounds BY <1>1 DEF FInv, LinkBacked
  <2> QED BY <2>1, Consts
<1>2. FInv /\ FInv' =>
        [engine'.link = "HEALTHY" /\ engine.link # "HEALTHY"
           => seen'.rounds >= LinkRecoveryRounds]_vars
  BY <1>1
<1> QED BY <1>2, FInvariance, PTL DEF LossNeedsFullRecovery

(* After a hard fault a start waits for enough complete clean snapshots    *)
(* over enough time, whatever came in between: partial reads, restored     *)
(* locks, a confirmed power cycle, a fault that comes back.                *)
THEOREM FaultRecoveredInFull == Spec => StartAfterFaultRecovery
<1>1. ASSUME FInv, [Next]_vars, Starts(engine, engine')
      PROVE  seen.clean >= FaultRecoveryRounds /\ seen'.cleanTime >= FaultRecoveryTime
  <2>1. PICK d \in 0 .. MaxStep : Faithful(d)
    BY <1>1, NextFaithful DEF Starts, vars
  <2>2. d \in Nat /\ engine \in Engine /\ Start(d) /\ Available(AdvanceTime(engine, d))
    BY <1>1, <2>1, NatStep DEF Faithful, FInv, IInv, TypeOK
  <2> DEFINE t == AdvanceTime(engine, d)
  <2>3. Later(engine, t, d) /\ t \in Engine /\ Available(t) BY <2>2, TimePasses
  <2>4. engine' = StartAccepted(t)
    BY <1>1, <2>2, <2>3 DEF Start, RequestStart, Later, Starts
  <2> HIDE DEF t
  <2>5. ~HardFault(engine) /\ ~engine.recovering
    <3>1. HardFault(t) <=> HardFault(engine) BY <2>3, SteadyHardFault DEF Later
    <3> QED BY <2>3, <3>1 DEF Available, Later
  <2>6. seen.clean >= FaultRecoveryRounds /\ seen.cleanTime >= FaultRecoveryTime
    BY <1>1, <2>5 DEF FInv, CleanBacked
  <2>7. engine'.inc = engine.inc BY <2>3, <2>4, StartAcceptedLeaves DEF SameFaults, Later
  <2>8. ~Faulty(engine') /\ ~Faulty(engine) BY <2>5, <2>7, SteadyHardFault DEF Faulty
  <2>9. seen'.cleanTime = AtMost(FaultRecoveryTime, seen.cleanTime + d)
    BY <2>2, <2>8 DEF Start, Unseen, See
  <2>10. seen.cleanTime \in Nat BY <1>1, Consts DEF FInv, IInv, TypeOK, Observed
  <2> QED BY <2>2, <2>6, <2>9, <2>10, Consts DEF AtMost
<1>2. FInv /\ [Next]_vars =>
        [engine'.run = "START_REQUESTED" /\ engine.run # "START_REQUESTED"
           => /\ seen.clean >= FaultRecoveryRounds
              /\ seen'.cleanTime >= FaultRecoveryTime]_vars
  BY <1>1 DEF Starts
<1> QED BY <1>2, FInvariance, PTL DEF Spec, StartAfterFaultRecovery

(* A lock is let go by the confirmed power cycle only, and only once its   *)
(* bit is clear: no read, acknowledgement, retry or restore releases it.   *)
THEOREM LocksAreHeld == Spec => LockHeld
<1>1. ASSUME FInv, [Next]_vars, NEW i \in Incident, Kind[i] = "locked",
             engine.inc[i].latched, ~engine'.inc[i].latched
      PROVE  Releasable(engine, i) /\ \E d \in 0 .. MaxStep : Confirm(d)
  <2>1. PICK d \in 0 .. MaxStep : Faithful(d)
    BY <1>1, NextFaithful DEF vars
  <2> QED BY <1>1, <2>1 DEF Faithful
<1>2. FInv /\ [Next]_vars =>
        [\A i \in Incident :
           Kind[i] = "locked" /\ engine.inc[i].latched /\ ~engine'.inc[i].latched
           => Releasable(engine, i) /\ \E d \in 0 .. MaxStep : Confirm(d)]_vars
  BY <1>1
<1> QED BY <1>2, FInvariance, PTL DEF Spec, LockHeld

(* A failed start stays a reason to stop until it is retried explicitly,   *)
(* on a unit whose stop was confirmed by enough samples.                   *)
THEOREM StartFailureStays == Spec => StartFailureLatched
<1>1. ASSUME FInv, [Next]_vars, Forgets(engine, engine')
      PROVE  /\ \E d \in 0 .. MaxStep : Retry(d)
             /\ engine.run = "STOPPED" /\ seen.stops >= StopReads
  <2>1. PICK d \in 0 .. MaxStep : Faithful(d)
    BY <1>1, NextFaithful DEF Forgets, vars
  <2>2. Retry(d) /\ RetryReady(AdvanceTime(engine, d)) BY <1>1, <2>1 DEF Faithful
  <2>3. d \in Nat /\ engine \in Engine BY <1>1, NatStep DEF FInv, IInv, TypeOK
  <2>4. engine.run = "STOPPED" BY <2>2, <2>3, TimePasses DEF RetryReady, Later
  <2> QED BY <1>1, <2>2, <2>4 DEF FInv, IInv, Backed
<1>2. FInv /\ [Next]_vars =>
        [engine.startTimedOut /\ ~engine'.startTimedOut
           => /\ \E d \in 0 .. MaxStep : Retry(d)
              /\ engine.run = "STOPPED" /\ seen.stops >= StopReads]_vars
  BY <1>1 DEF Forgets
<1> QED BY <1>2, FInvariance, PTL DEF Spec, StartFailureLatched
=============================================================================
