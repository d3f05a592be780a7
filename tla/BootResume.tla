----------------------------- MODULE BootResume -----------------------------
(* A heat pump that keeps heating while its controller reboots.              *)
(*                                                                           *)
(* After a planned restart (module RestartHandoff decides that) the outdoor  *)
(* unit may still be heating on the last command of the previous boot.  The  *)
(* controller then writes nothing to it while oq_boot_resume::Policy reads   *)
(* four registers back; it adopts the running cycle, or demands a stop.      *)
(* This module composes the policy, the manager's and the actuator's use of  *)
(* it, the outdoor unit's registers and the millisecond counter.             *)
EXTENDS Naturals

CONSTANTS
  MaxLevel,        \* compressor levels 1 .. MaxLevel of the unit
  SafetyTime,      \* SAFETY_ACQUISITION_MS, in ticks of the model's clock
  InputTime,       \* INPUT_ACQUISITION_MS
  TelemetryFresh,  \* TELEMETRY_FRESH_MS
  CommandFresh,    \* COMMAND_FRESH_MS
  HoldTime,        \* PROTECTION_HOLD_MS
  Wrap,            \* the clock counts modulo Wrap: 2^32 ms
  Horizon,         \* bound: ticks of the clock between two reboots
  Beats            \* the actuator's ticks are counted modulo Beats: 2 for
                   \* fairness, 1 where nothing depends on it

ASSUME ResumeAssumption ==
  /\ MaxLevel \in Nat \ {0} /\ Wrap \in Nat \ {0} /\ Beats \in Nat \ {0}
  /\ Horizon \in Nat
  /\ SafetyTime \in Nat /\ InputTime \in Nat /\ HoldTime \in Nat
  /\ TelemetryFresh \in Nat /\ CommandFresh \in Nat

\* The registers that are read back: the requested mode (3999) and level
\* (1999), and the actual mode (2099) with the compressor frequency (2103),
\* which the policy treats alike, as one.
Reg == {"setMode", "setLevel", "run"}

\* What a register says: a level for setLevel, 1 for "heating" in setMode and
\* for "heating and turning" in run, and 0 for everything the policy does not
\* accept (another mode, no level, at most 0.5 Hz, not a number).
Value == 0 .. MaxLevel
Says(r) == IF r = "setLevel" THEN Value ELSE {0, 1}
Registers == {o \in [Reg -> Value] : \A r \in Reg : o[r] \in Says(r)}

VARIABLES
  now,       \* millis(); setup() runs at 0
  uptime,    \* ticks since the boot, for the bound and the properties
  resume,    \* oq_boot_resume::Policy without its samples
  sample,    \* its samples, by age; one that is too old is forgotten
  released,  \* UnitState::startup_released
  beat,      \* counts the actuator's ticks, so that an idle one is a step too
  applied,   \* hp_last_applied_level of the actuator
  odu,       \* the registers of the outdoor unit
  idle,      \* ticks since its compressor last turned, at most TelemetryFresh + 1
  cut,       \* ticks since it lost its power, likewise; TelemetryFresh + 1: never
  spoiled    \* since the boot: a reading or an update spoke against adoption

resumeVars == <<now, uptime, resume, sample, released, beat, applied, odu, idle, cut, spoiled>>

Clock == 0 .. Wrap - 1
LongAgo == TelemetryFresh + 1
Phase == {"DISABLED", "ACQUIRING", "RESUMED", "STOP_REQUIRED"}
ResumePolicy == [phase : Phase, safetySeen : BOOLEAN, resumed : Clock]

MaxAge(r) == IF r = "setLevel" THEN CommandFresh ELSE TelemetryFresh
Stale == [fresh |-> FALSE, age |-> 0, value |-> 0]
Sample(r) == [fresh : {TRUE}, age : 0 .. MaxAge(r), value : Says(r)] \cup {Stale}
Samples == {s \in [Reg -> UNION {Sample(r) : r \in Reg}] : \A r \in Reg : s[r] \in Sample(r)}

ResumeTypeOK ==
  /\ now \in Clock /\ uptime \in 0 .. Horizon
  /\ resume \in ResumePolicy
  /\ sample \in Samples
  /\ released \in BOOLEAN /\ beat \in 0 .. Beats - 1 /\ applied \in Value
  /\ odu \in Registers
  /\ idle \in 0 .. LongAgo /\ cut \in 0 .. LongAgo /\ spoiled \in BOOLEAN

(* ------------------------------ the policy ------------------------------ *)
Elapsed(t) == IF t <= now THEN now - t ELSE now - t + Wrap
SinceBoot == now  \* now - started_ms_

Cancelled(p) == IF p.phase = "ACQUIRING" THEN [p EXCEPT !.phase = "STOP_REQUIRED"] ELSE p
Pending(p) == p.phase = "ACQUIRING" /\ SinceBoot < InputTime
\* Mutant: only a cancelled attempt asks for a stop.
StopRequired_Cancelled(p) == p.phase = "STOP_REQUIRED"
StopRequired(p) == \/ p.phase = "STOP_REQUIRED"
                   \/ p.phase = "ACQUIRING" /\ ~Pending(p)
ProtectionHold(p) == p.phase = "RESUMED" /\ Elapsed(p.resumed) < HoldTime

Reads(r) == sample[r].fresh /\ sample[r].value > 0
ReadbackReady == \A r \in Reg : Reads(r)
Level == sample["setLevel"].value

\* Policy::update: what an update makes of an attempt that is still open.
\* Mutant: safety that was seen and is lost again does not end the attempt.
Ended_Forgiving(p, abort, safe) == abort \/ (~safe /\ SinceBoot >= SafetyTime)
Ended(p, abort, safe) ==
  \/ abort
  \/ p.safetySeen /\ ~safe
  \/ ~safe /\ SinceBoot >= SafetyTime

Updated(p, abort, sources, allow) ==
  LET safe == sources /\ ReadbackReady IN
  IF ~Pending(p) THEN p
  ELSE IF Ended(p, abort, safe) THEN Cancelled(p)
  ELSE IF safe /\ allow
  THEN [p EXCEPT !.safetySeen = TRUE, !.phase = "RESUMED", !.resumed = now]
  ELSE [p EXCEPT !.safetySeen = @ \/ safe]

(* ----------------------------- the controller --------------------------- *)
\* setup(): a unit is eligible when the record of the restart names it.
ResumeInit ==
  /\ now = 0 /\ uptime = 0
  /\ \E eligible \in BOOLEAN :
       resume = [phase |-> IF eligible THEN "ACQUIRING" ELSE "DISABLED",
                 safetySeen |-> FALSE, resumed |-> 0]
  /\ sample = [r \in Reg |-> Stale]
  /\ released = FALSE /\ beat = 0 /\ applied = 0
  /\ odu \in Registers
  /\ idle = (IF odu["run"] > 0 THEN 0 ELSE LongAgo)
  /\ cut = LongAgo /\ spoiled = FALSE

\* observe: one register is read; the value is the register's, or no number.
ReadRegister(r, value) ==
  /\ value \in {odu[r], 0}
  /\ sample' = [sample EXCEPT ![r] = [fresh |-> TRUE, age |-> 0, value |-> value]]
  /\ resume' = IF value > 0 THEN resume ELSE Cancelled(resume)
  /\ spoiled' = (spoiled \/ value = 0)
  /\ UNCHANGED <<now, uptime, released, beat, applied, odu, idle, cut>>

\* Did this update meet an abort, or safety that was seen and is lost?
Against(abort, sources) ==
  Pending(resume) /\ (abort \/ (resume.safetySeen /\ ~(sources /\ ReadbackReady)))

\* A guarded write, to this unit or to the pump it shares: it first updates
\* the policy and is refused while the attempt is open.  The ordinary writes
\* that come after it are the actuator's.
GuardedWrite == \E abort, sources \in BOOLEAN :
  /\ resume' = Updated(resume, abort, sources, FALSE)
  /\ spoiled' = (spoiled \/ Against(abort, sources))
  /\ UNCHANGED <<now, uptime, sample, released, beat, applied, odu, idle, cut>>

\* Every start waits for evidence that the compressor rests (module
\* RestartGuard), which takes at least a fresh reading that it does not run.
Rested == sample["run"].fresh /\ sample["run"].value = 0

\* loop(): the first proof of rest releases the unit.
Release ==
  /\ ~released /\ Rested
  /\ released' = TRUE
  /\ UNCHANGED <<now, uptime, resume, sample, beat, applied, odu, idle, cut, spoiled>>

Command == {"setMode", "setLevel"}

\* The registers after a command of which the frames in arrived got through.
Commanded(level, arrived) ==
  [r \in Reg |-> IF r \notin arrived THEN odu[r]
                 ELSE IF r = "setLevel" THEN level
                 ELSE IF level > 0 THEN 1 ELSE 0]

Adopted(p) == resume.phase = "ACQUIRING" /\ p.phase = "RESUMED"

\* tick(): resume_boot_cycle_ and then apply_level_, for one unit.  From the
\* world come an incident that stops the unit, a ground to abort, or sources
\* that are not all live; allow is valid strategy output with a released
\* start.  The unit keeps its command during a defrost of its own, and in the
\* hold after an adoption as long as the frequency policy allows the level;
\* else one of arrivals, sets of frames, reaches it.
World == {"fault", "abort", "unsafe", "safe"}

Tick(world, allow, defrost, levelAllowed, arrivals) ==
  LET abort == world \in {"fault", "abort"}
      p == Updated(resume, abort, world = "safe", allow)
      free == released \/ Adopted(p)
      previous == IF Adopted(p) THEN Level ELSE applied
      hold == ProtectionHold(p) /\ ~defrost
      safetyStop == \/ world = "fault"
                    \/ StopRequired(p) /\ ~free
                    \/ hold /\ ~(world = "safe" /\ Reads("run"))
      kept == \/ Pending(p)
              \/ ~safetyStop /\ (defrost \/ (hold /\ previous > 0 /\ levelAllowed))
      levels == IF safetyStop \/ ~free \/ (previous = 0 /\ ~Rested) THEN {0} ELSE Value
  IN  /\ resume' = p
      /\ released' = free
      /\ beat' = IF beat + 1 = Beats THEN 0 ELSE beat + 1
      /\ spoiled' = (spoiled \/ Against(abort, world = "safe"))
      /\ \/ kept /\ applied' = previous /\ UNCHANGED odu
         \/ /\ ~kept /\ applied' \in levels
            /\ \E arrived \in arrivals : odu' = Commanded(applied', arrived)
      /\ UNCHANGED <<now, uptime, sample, idle, cut>>

Ticks(arrivals) == \E world \in World, allow, defrost, levelAllowed \in BOOLEAN :
                   Tick(world, allow, defrost, levelAllowed, arrivals)

(* ---------------------------- the outdoor unit -------------------------- *)
\* The unit runs its own cycles while it is asked to heat.  External: nothing
\* under src/ decides when it stops or starts its compressor.
UnitStops ==
  /\ odu["run"] > 0
  /\ odu' = [odu EXCEPT !["run"] = 0]
  /\ UNCHANGED <<now, uptime, resume, sample, released, beat, applied, idle, cut, spoiled>>

UnitRuns ==
  /\ odu["setMode"] > 0 /\ odu["setLevel"] > 0
  /\ odu' = [odu EXCEPT !["run"] = 1] /\ idle' = 0
  /\ UNCHANGED <<now, uptime, resume, sample, released, beat, applied, cut, spoiled>>

\* Its power fails: every register is back at zero.
PowerCut ==
  /\ odu' = [r \in Reg |-> 0]
  /\ cut' = 0
  /\ UNCHANGED <<now, uptime, resume, sample, released, beat, applied, idle, spoiled>>

(* -------------------------------- the time ------------------------------ *)
Older(n) == IF n < LongAgo THEN n + 1 ELSE n
\* Mutants: a sample never gets too old.
AgedSample_Forever(r) == IF sample[r].fresh /\ sample[r].age < MaxAge(r)
                         THEN [sample[r] EXCEPT !.age = @ + 1] ELSE sample[r]
AgedSample(r) == IF sample[r].fresh /\ sample[r].age < MaxAge(r)
                 THEN [sample[r] EXCEPT !.age = @ + 1] ELSE Stale

Pass ==
  /\ uptime < Horizon
  /\ uptime' = uptime + 1
  /\ now' = IF now + 1 = Wrap THEN 0 ELSE now + 1
  /\ idle' = IF odu["run"] > 0 THEN 0 ELSE Older(idle)
  /\ cut' = Older(cut)
  /\ sample' = [r \in Reg |-> AgedSample(r)]
  /\ UNCHANGED <<resume, released, beat, applied, odu, spoiled>>

Reboot ==
  /\ now' = 0 /\ uptime' = 0
  /\ \E eligible \in BOOLEAN :
       resume' = [phase |-> IF eligible THEN "ACQUIRING" ELSE "DISABLED",
                  safetySeen |-> FALSE, resumed |-> 0]
  /\ sample' = [r \in Reg |-> Stale]
  /\ released' = FALSE /\ beat' = 0 /\ applied' = 0
  /\ cut' = LongAgo /\ spoiled' = FALSE
  /\ UNCHANGED <<odu, idle>>

ResumeNext ==
  \/ \E r \in Reg, value \in Value : ReadRegister(r, value)
  \/ GuardedWrite
  \/ Release
  \/ Ticks(SUBSET Command)
  \/ UnitStops \/ UnitRuns \/ PowerCut
  \/ Pass \/ Reboot

ResumeSpec == ResumeInit /\ [][ResumeNext]_resumeVars

(* ------------------------------- properties ----------------------------- *)
Adopts == Adopted(resume')

\* What is adopted is what runs: at an adoption the unit's compressor turned at
\* most TelemetryFresh ago and its command registers still hold the adopted
\* level and heating, unless it lost its power just as recently.  That takes
\* three readings of different age, a cancellation by the first bad one, and a
\* controller that wrote nothing before (readback_ready, observe, guarded_write).
AdoptsWhatRuns ==
  [][Adopts => /\ idle <= TelemetryFresh
               /\ \/ cut <= TelemetryFresh
                  \/ odu["setLevel"] = Level /\ odu["setMode"] = 1]_resumeVars

\* No second chance: once a reading was bad, or an update met an abort or lost
\* the safety it had, no later good news leads to an adoption in this boot
\* (Policy::observe, Policy::cancel, safety_seen_).
NoSecondChance == [][Adopts => ~spoiled]_resumeVars

\* Fairness: time passes, the registers keep being polled, the loop and
\* the actuator's 5 s tick run, some stop commands arrive whole, and a unit
\* whose mode register is at standby does stop.  Of the ticks nothing is
\* assumed but that they run: what the world tells them is arbitrary.
UnitObeys == odu["setMode"] = 0 /\ UnitStops

FairResumeSpec == /\ ResumeSpec
                  /\ WF_resumeVars(Pass) /\ WF_resumeVars(Release)
                  /\ \A r \in Reg : WF_resumeVars(ReadRegister(r, odu[r]))
                  /\ WF_resumeVars(Ticks({Command})) /\ WF_resumeVars(UnitObeys)

\* Every attempt is settled: a unit that was to be resumed is adopted, or it is
\* stopped, seen at rest and released for ordinary starts, unless the next
\* reboot comes first (Policy::stop_required, outputs_for_slot_).
AttemptSettles ==
  (uptime > 0 /\ resume.phase # "DISABLED" /\ ~released) ~> (released \/ uptime = 0)

\* The three-minute hold after an adoption ends for good: "Unknown
\* defrost/oil-return tails are reconstructed as a conservative three-minute
\* hold" (apply_level_).  The code compares millis() with the adoption for as
\* long as the boot lasts, so that the counter's wrap brings the hold back.
HoldEndsForGood ==
  [][resume.phase = "RESUMED" /\ ~ProtectionHold(resume) => ~ProtectionHold(resume)']_resumeVars
=============================================================================
