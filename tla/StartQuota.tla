----------------------------- MODULE StartQuota -----------------------------
(***************************************************************************)
(* What the start limit of a compressor promises: at most MaxStarts starts *)
(* in any Window, a start refused only when that many have been made, and  *)
(* a countdown to the exact moment at which the oldest one leaves the      *)
(* window.  Time is real: a start is the age it has.                       *)
(***************************************************************************)
EXTENDS Integers, FiniteSets

CONSTANTS
  MaxStarts,  \* CompressorStartLimit::MAX_STARTS
  Window,     \* CompressorStartLimit::WINDOW_MS
  MaxGap,     \* longest time between two ticks of the actuator
  Levels      \* compressor levels above zero

VARIABLES
  recent,     \* ages of the starts of the last Window
  level,      \* hpN_last_applied_level
  acquiring,  \* a compressor that ran before a restart may still be adopted
  remaining   \* what the last tick answered: time until a start is allowed

qvars == <<recent, level, acquiring, remaining>>

Aged(d) == {a \in 0 .. Window - 1 : a - d \in recent}

Oldest(ages) == CHOOSE a \in ages : \A b \in ages : b <= a

Wait(ages) == IF Cardinality(ages) = MaxStarts THEN Window - Oldest(ages) ELSE 0

Init == recent = {} /\ level = 0 /\ acquiring \in BOOLEAN /\ remaining = 0

(* A tick that starts the compressor: only below the quota.                *)
StartTick(d) ==
  /\ level = 0 /\ level' \in Levels
  /\ Cardinality(Aged(d)) < MaxStarts
  /\ recent' = Aged(d) \cup {0}
  /\ acquiring' = FALSE
  /\ remaining' = 0

(* A tick that starts nothing; a compressor is on only if it was, or if it *)
(* is the one that may be adopted.                                         *)
OtherTick(d) ==
  /\ level' \in Levels \cup {0}
  /\ level' # 0 => level # 0 \/ (acquiring /\ ~acquiring')
  /\ acquiring' \in {acquiring, FALSE}
  /\ recent' = Aged(d)
  /\ remaining' = Wait(Aged(d))

(* The history is deliberately not persisted.                              *)
Forget == recent' = {} /\ level' = 0 /\ acquiring' \in BOOLEAN /\ remaining' = 0

Next == Forget \/ \E d \in 1 .. MaxGap : StartTick(d) \/ OtherTick(d)

Spec == Init /\ [][Next]_qvars
=============================================================================
