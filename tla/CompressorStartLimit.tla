------------------------ MODULE CompressorStartLimit ------------------------
(***************************************************************************)
(* The start limit of one compressor and the tick of the thermal actuator  *)
(* that consults it (control/oq_compressor_start_limit.h, and its calls in *)
(* control/oq_thermal_actuator_runtime.h): a ring of time stamps taken     *)
(* from a millisecond counter that wraps.                                  *)
(***************************************************************************)
EXTENDS Integers, FiniteSets

CONSTANTS
  MaxStarts,  \* MAX_STARTS, the length of the ring
  Window,     \* WINDOW_MS
  Wrap,       \* 2^32, where millis() starts again at zero
  MaxGap,     \* bound: longest time between two ticks of the actuator
  Levels      \* compressor levels above zero

(* The comment of the class: expire on every tick, so that old time stamps *)
(* cannot reappear after a wrap.  It is enough that the gap between ticks  *)
(* leaves them short of a whole turn.                                      *)
ASSUME LimitAssumption ==
  /\ MaxStarts \in Nat \ {0} /\ Window \in Nat \ {0} /\ MaxGap \in Nat \ {0}
  /\ Wrap \in Nat /\ Window + MaxGap <= Wrap
  /\ Levels \subseteq Nat \ {0}

VARIABLES
  millis,     \* millis() of the last tick
  limit,      \* start_limits_[hp]
  level,      \* hpN_last_applied_level
  acquiring,  \* boot_resume_pending: a running compressor may be adopted
  remaining   \* start_limit_remaining_ms of the last tick

limitVars == <<millis, limit, level, acquiring, remaining>>

Millis == 0 .. Wrap - 1
Limit == [ starts : [0 .. MaxStarts - 1 -> Millis],
           oldest : 0 .. MaxStarts - 1, count : 0 .. MaxStarts ]
NoStarts == [ starts |-> [k \in 0 .. MaxStarts - 1 |-> 0], oldest |-> 0, count |-> 0 ]

LimitTypeOK ==
  /\ millis \in Millis /\ limit \in Limit
  /\ level \in Levels \cup {0} /\ acquiring \in BOOLEAN /\ remaining \in 0 .. Window

LimitInit ==
  /\ millis \in Millis /\ limit = NoStarts
  /\ level = 0 /\ acquiring \in BOOLEAN /\ remaining = 0
-----------------------------------------------------------------------------
(* Arithmetic of the counter and of the ring.                              *)
Since(t, s) == IF s <= t THEN t - s ELSE t - s + Wrap
Later(d)    == IF millis + d < Wrap THEN millis + d ELSE millis + d - Wrap
Index(o, k) == IF o + k < MaxStarts THEN o + k ELSE o + k - MaxStarts

Age(q, k, t) == Since(t, q.starts[Index(q.oldest, k)])

(* expire(): the oldest starts that have left the window are dropped.      *)
Gone(q, n, t) == /\ \A k \in 0 .. n - 1 : Age(q, k, t) >= Window
                 /\ n = q.count \/ Age(q, n, t) < Window

Drop(q, n) == [q EXCEPT !.oldest = Index(q.oldest, n), !.count = q.count - n]

\* mutant: a start is kept for one millisecond too long
Expired_Late(q, t) ==
  Drop(q, CHOOSE n \in 0 .. q.count : /\ \A k \in 0 .. n - 1 : Age(q, k, t) > Window
                                      /\ n = q.count \/ Age(q, n, t) <= Window)

Expired(q, t) == Drop(q, CHOOSE n \in 0 .. q.count : Gone(q, n, t))

RemainingMs(q, t) == IF q.count = MaxStarts THEN Window - Age(q, 0, t) ELSE 0

(* record_transition(): an applied start takes a slot, over the oldest one *)
(* if the ring should be full.                                             *)
Pushed(q, t) == [q EXCEPT !.starts[Index(q.oldest, q.count)] = t, !.count = q.count + 1]

Recorded(q, previous, applied, t) ==
  IF previous # 0 \/ applied = 0 THEN q
  ELSE Pushed(IF q.count = MaxStarts THEN Drop(q, 1) ELSE q, t)
-----------------------------------------------------------------------------
(* One tick of the actuator, `d` after the last one.  While the boot       *)
(* resume is acquiring, the level stays zero; it may adopt the compressor, *)
(* once, or give up.  Otherwise the preflight refuses a start while the    *)
(* limit counts down, and everything later in apply_level_() may still     *)
(* turn it into zero; the final level is what gets recorded.               *)
Adoptions == IF acquiring THEN Levels \cup {0} ELSE {0}

Applied(previous, wait) ==
  IF acquiring' \/ (previous = 0 /\ wait > 0) THEN {0} ELSE Levels \cup {0}

\* mutant: expire() is only called when a start is wanted
Tick_IdleKeepsAll(d) ==
  LET t == Later(d)
  IN \E adopted \in Adoptions :
       LET previous == IF adopted # 0 THEN adopted ELSE level
       IN /\ acquiring' \in IF adopted # 0 THEN {FALSE} ELSE {acquiring, FALSE}
          /\ millis' = t
          /\ \E applied \in Levels \cup {0} :
               LET q == IF previous = 0 /\ applied # 0 THEN Expired(limit, t) ELSE limit
               IN /\ remaining' = RemainingMs(q, t)
                  /\ applied \in Applied(previous, remaining')
                  /\ limit' = Recorded(q, previous, applied, t)
                  /\ level' = applied

Tick(d) ==
  LET t == Later(d)
      q == Expired(limit, t)
  IN \E adopted \in Adoptions :
       LET previous == IF adopted # 0 THEN adopted ELSE level
       IN /\ acquiring' \in IF adopted # 0 THEN {FALSE} ELSE {acquiring, FALSE}
          /\ millis' = t
          /\ remaining' = RemainingMs(q, t)
          /\ \E applied \in Applied(previous, remaining') :
               /\ limit' = Recorded(q, previous, applied, t)
               /\ level' = applied

(* A reboot: the counter and the history start again.                      *)
LimitReboot ==
  /\ millis' \in Millis /\ limit' = NoStarts
  /\ level' = 0 /\ acquiring' \in BOOLEAN /\ remaining' = 0

LimitNext == LimitReboot \/ \E d \in 1 .. MaxGap : Tick(d)

LimitSpec == LimitInit /\ [][LimitNext]_limitVars
FairLimitSpec == LimitSpec /\ WF_limitVars(\E d \in 1 .. MaxGap : Tick(d))
-----------------------------------------------------------------------------
(* The starts the ring remembers, by their age.                            *)
Recent == {Age(limit, k, millis) : k \in 0 .. limit.count - 1}

Quota == INSTANCE StartQuota WITH recent <- Recent

(* Refinement: over ring positions and a wrapping counter, the limiter     *)
(* counts exactly the starts of the last window, blocks exactly while they *)
(* are MaxStarts, and counts down to the right moment.                     *)
ImplementsQuota == Quota!Spec

(* Liveness: a compressor that is held back is released.                   *)
ReleaseComes == remaining > 0 ~> remaining = 0
=============================================================================
