-------------------------- MODULE WebPanels_proofs --------------------------
(***************************************************************************)
(* Proofs about the panels of the web app (WebPanels), for every number of *)
(* edits, clears, runs, choices and resets: what the MQTT storage of the   *)
(* device answers holds, the recorder, log, MQTT and login dialogs keep    *)
(* faith with what they show, the mock device ends what it begins, and the *)
(* energy history is true (WebHistory_proofs has the lemmas about it).     *)
(*                                                                         *)
(* Every area has an invariant of its own and shares no variable with the  *)
(* others, so a step of the whole is, for each area, a step of that area   *)
(* or none.  An invariant is a conjunction of named parts: a shape (the    *)
(* types), and what ties the page's half of the state to the device's.     *)
(***************************************************************************)
EXTENDS WebHistory_proofs, Integers, Sequences, TLAPS

-----------------------------------------------------------------------------
(***************************************************************************)
(* Part 1: the MQTT storage of the device                                  *)
(***************************************************************************)
Values  == 0 .. 4
Results == Good \cup Refused \cup {"RECOVERY_FAILED"}
Phases  == {"IDLE", "QUEUED", "PROCESSING", "WRITING", "CANCELLED", "COMMITTING", "COMPLETED"}
JobAts  == {"idle", "claimed", "retry", "claim", "write", "judge", "commit", "apply", "finish",
            "signal"}
CallAts == {"idle", "drain", "queue", "wait", "late", "cancel", "grace", "last", "phase", "write"}

Prefs == [ flash : Values, queued : Values ]
Deals == [ desired : Values, committed : Values, gen : Nat \ {0}, waiter : BOOLEAN, done : Nat,
           result : Results \cup {"UNAVAILABLE"}, pending : BOOLEAN, writing : BOOLEAN,
           phase : Phases, signal : BOOLEAN, failed : BOOLEAN ]
Jobs  == [ at : JobAts, want : Values, old : Values, gen : Nat, tries : Nat, saved : BOOLEAN,
           durable : BOOLEAN, result : Results ]
Calls == [ at : CallAts, want : Values, gen : Nat, held : Values, won : BOOLEAN,
           result : {"TIMEOUT"} ]
Unsettled == {"none", "UNAVAILABLE", "PERSISTENCE_PENDING", "RECOVERY_PENDING"}
Answers == [ result : Results \cup Unsettled, want : Values, held : Values ]

Shape ==
  /\ prefs \in Prefs /\ deal \in Deals /\ job \in Jobs /\ call \in Calls
  /\ live \in Values /\ answer \in Answers /\ botched \in BOOLEAN

(* v is the configuration from before; a flash that never held any is as   *)
(* good as the blank one.                                                  *)
Before(v, committed) == v = committed \/ (v = None /\ committed = Blank)
AsBefore(v) == Before(v, deal.committed)
Undone == AsBefore(prefs.flash) /\ prefs.queued = None

Working == job.at \notin {"idle", "signal"}
Waiting == call.at \in {"wait", "late", "cancel", "grace", "last", "phase", "write"}

(* The main loop works on the transaction that is pending, no other.       *)
JobOK ==
  /\ Working => /\ deal.pending
                /\ job.want = deal.desired /\ job.old = deal.committed /\ job.gen = deal.gen
  /\ deal.pending => /\ deal.done = 0
                     /\ deal.phase \notin {"IDLE", "COMPLETED"}
                     /\ deal.failed => job.at = "finish"
  /\ deal.pending /\ ~Working => deal.phase \in {"QUEUED", "CANCELLED"} /\ ~deal.writing
  /\ ~deal.pending => ~deal.writing /\ deal.phase \in {"IDLE", "COMPLETED"}

(* How far the main loop is, and what can have been called off by then.    *)
Stage ==
  /\ job.durable => job.saved
  /\ Working /\ job.saved => deal.writing
  /\ job.tries > 0 /\ job.at # "finish" => job.result \notin Good
  /\ job.at = "claimed" =>
       ~job.saved /\ job.tries = 0 /\ ~deal.writing /\ deal.phase \in {"PROCESSING", "CANCELLED"}
  /\ job.at = "retry" /\ ~deal.writing =>
       job.tries = 0 /\ deal.phase \in {"PROCESSING", "CANCELLED"}
  /\ job.at = "retry" /\ deal.writing => job.durable \/ job.tries > 0
  /\ job.at = "claim" =>
       ~job.saved /\ job.tries = 0 /\ deal.writing /\ deal.phase \in {"PROCESSING", "CANCELLED"}
  /\ job.at = "write" => deal.writing /\ ~job.durable
  /\ job.at \in {"write", "judge", "commit"} \/ (job.at = "retry" /\ deal.writing)
      => deal.phase \in {"WRITING", "CANCELLED"}
  /\ job.at = "judge" => job.durable \/ job.tries > 0 \/ deal.phase = "CANCELLED"
  /\ job.at = "commit" => job.durable
  /\ job.at = "apply" => job.durable /\ deal.phase = "COMMITTING"

(* Flash is as before until something is saved, and holds what is wanted   *)
(* once it is durable; an end without success leaves everything as before. *)
Kept ==
  /\ deal.pending /\ ~Working => Undone
  /\ Working /\ job.at # "finish" =>
       /\ ~job.saved => Undone
       /\ job.durable => prefs = Synced(job.want)
  /\ deal.pending /\ job.at # "finish" => AsBefore(live)
  /\ job.at = "finish" /\ job.result \in Good =>
       prefs = Synced(job.want) /\ live = job.want /\ ~deal.failed /\ deal.phase = "COMMITTING"
  /\ job.at = "finish" /\ job.result \notin Good =>
       /\ ~deal.failed \/ ~botched => Undone
       /\ ~deal.failed => AsBefore(live)
  /\ ~deal.pending =>
       /\ ~deal.failed \/ ~botched => Undone
       /\ ~deal.failed => AsBefore(live)

HeldBefore == Before(call.held, deal.committed)

(* The HTTP task waits for its own transaction; one that it called off     *)
(* ends called off, or had already ended without success.                  *)
CallOK ==
  /\ call.at # "idle" => call.want \in Posts /\ answer.result = "none"
  /\ call.at \in {"drain", "queue"} => ~deal.pending /\ ~deal.failed /\ HeldBefore
  /\ Waiting => /\ call.gen = deal.gen
                /\ deal.pending => deal.desired = call.want /\ HeldBefore
                /\ ~deal.pending =>
                     /\ deal.done = deal.gen
                     /\ deal.phase = "COMPLETED"
                     /\ deal.result \in Good => deal.committed = call.want /\ ~deal.failed
                     /\ deal.result \notin Good => HeldBefore
  /\ call.at = "write" => ~call.won
  /\ call.at \in {"grace", "last", "phase", "write"} /\ ~call.won =>
       deal.phase \in {"CANCELLED", "COMPLETED"}
  /\ call.at \in {"phase", "write"} /\ ~call.won /\ deal.phase = "COMPLETED" =>
       deal.result \notin Good

(* What was accepted is in flash, and nothing is under way.                *)
Accepted ==
  answer.result \in Good =>
    /\ answer.want \in Posts /\ prefs.flash = answer.want
    /\ ~deal.pending /\ ~deal.failed

(* What was denied is nowhere, and no transaction can bring it back.       *)
Denied ==
  answer.result \in Refused /\ ~botched /\ answer.held # answer.want =>
    /\ answer.want \in Posts /\ answer.want \notin {prefs.flash, prefs.queued, deal.committed}
    /\ ~deal.failed => answer.want # live
    /\ deal.pending => \/ deal.phase = "CANCELLED" /\ ~deal.writing
                       \/ deal.desired # answer.want

StoreInv == Shape /\ JobOK /\ Stage /\ Kept /\ CallOK /\ Accepted /\ Denied

(* Names for the values, so that no proof opens the sets above.            *)
LEMMA Members ==
  /\ \A a \in {"idle", "claimed", "retry", "claim", "write", "judge", "commit", "apply", "finish",
               "signal"} : a \in JobAts
  /\ \A a \in {"idle", "drain", "queue", "wait", "late", "cancel", "grace", "last", "phase",
               "write"} : a \in CallAts
  /\ \A r \in {"OK", "RUNTIME_PENDING", "TIMEOUT", "SAVE_FAILED", "SYNC_FAILED", "APPLY_FAILED",
               "RECOVERY_FAILED"} : r \in Results
  /\ \A p \in {"IDLE", "QUEUED", "PROCESSING", "WRITING", "CANCELLED", "COMMITTING",
               "COMPLETED"} : p \in Phases
  /\ \A r \in {"none", "UNAVAILABLE", "PERSISTENCE_PENDING", "RECOVERY_PENDING"} : r \in Unsettled
  /\ Good \subseteq Results
  /\ None \in Values /\ Blank \in Values /\ Default \in Values /\ \A v \in Posts : v \in Values
  BY DEF JobAts, CallAts, Results, Phases, Unsettled, Good, Refused, None, Blank, Default, Posts,
         Values

(* What a job carries through one step.                                    *)
SameWork == /\ job'.want = job.want /\ job'.old = job.old /\ job'.gen = job.gen
            /\ job'.tries = job.tries /\ job'.saved = job.saved /\ job'.durable = job.durable

LEMMA JobMoves ==
  ASSUME job \in Jobs, NEW a \in JobAts, job' = [job EXCEPT !.at = a]
  PROVE  job' \in Jobs /\ SameWork /\ job'.at = a /\ job'.result = job.result
  BY DEF Jobs, SameWork

LEMMA JobEnds ==
  ASSUME job \in Jobs, NEW r \in Results, FinishWith(r)
  PROVE  job' \in Jobs /\ SameWork /\ job'.at = "finish" /\ job'.result = r
  BY Members DEF Jobs, SameWork, FinishWith

LEMMA JobRollsBack ==
  ASSUME job \in Jobs, prefs \in Prefs, deal \in Deals, botched \in BOOLEAN, NEW r \in Results, RollBack(r)
  PROVE  /\ job' \in Jobs /\ SameWork /\ job'.at = "finish"
         /\ prefs' \in Prefs /\ botched' \in BOOLEAN
         /\ \/ /\ prefs' = Synced(job.old) /\ job'.result = r
               /\ deal' = deal /\ botched' = botched
            \/ /\ job'.result = "RECOVERY_FAILED"
               /\ deal' = [deal EXCEPT !.failed = TRUE] /\ botched'
  <1>1. job.old \in Values
    BY DEF Jobs
  <1>2. CASE prefs' = Synced(job.old) /\ FinishWith(r) /\ UNCHANGED <<deal, botched>>
    <2>1. prefs' \in Prefs
      BY <1>1, <1>2, Members DEF Prefs, Synced
    <2> QED BY <1>2, <2>1, JobEnds
  <1>3. CASE /\ prefs' \in Unsynced(job.old) \cup {prefs}
             /\ FinishWith("RECOVERY_FAILED")
             /\ deal' = [deal EXCEPT !.failed = TRUE] /\ botched' = TRUE
    <2>1. prefs' \in Prefs
      BY <1>1, <1>3 DEF Prefs, Unsynced
    <2>2. "RECOVERY_FAILED" \in Results
      BY Members
    <2> QED BY <1>3, <2>1, <2>2, JobEnds
  <1> QED BY <1>2, <1>3 DEF RollBack

LEMMA NoCallTyped == NoCall \in Calls
  BY Members DEF Calls, NoCall

LEMMA CallAnswers ==
  ASSUME call \in Calls, NEW r \in Results \cup {"UNAVAILABLE", "PERSISTENCE_PENDING", "RECOVERY_PENDING"},
         Answer(r, call)
  PROVE  /\ answer' \in Answers /\ answer'.result = r
         /\ answer'.want = call.want /\ answer'.held = call.held
         /\ call' \in Calls /\ call'.at = "idle"
  BY NoCallTyped, Members DEF Calls, Answers, Answer, NoCall

LEMMA ClaimKeeps == StoreInv /\ Claim => StoreInv'
  <1> SUFFICES ASSUME StoreInv, Claim PROVE StoreInv'
    OBVIOUS
  <1> USE Members DEF Claim, NoJob, Untouched
  <1>1. Shape'
    <2>1. prefs' \in Prefs
      BY DEF StoreInv, Shape, Prefs, Jobs
    <2>2. deal' \in Deals
      BY DEF StoreInv, Shape, Deals, Jobs, Calls
    <2>3. job' \in Jobs
      BY DEF StoreInv, Shape, Jobs, Deals
    <2>4. call' \in Calls
      BY DEF StoreInv, Shape, Calls, Deals, Prefs
    <2>5. answer' \in Answers
      BY DEF StoreInv, Shape, Calls, Deals, Answers
    <2>6. live' \in Values /\ botched' \in BOOLEAN
      BY DEF StoreInv, Shape, Jobs
    <2> QED BY <2>1, <2>2, <2>3, <2>4, <2>5, <2>6 DEF Shape
  <1> USE DEF StoreInv, Shape, Prefs, Deals, Jobs, Calls, Answers, Good, Refused, None, Blank,
       Default, Posts
  <1>2. JobOK'
    BY DEF JobOK, CallOK, Stage, Working
  <1>3. Stage'
    BY DEF JobOK, CallOK, Stage, Working
  <1>4. Kept'
    BY DEF JobOK, CallOK, Stage, Kept, Working, Undone, AsBefore, Before
  <1>5. CallOK'
    BY DEF JobOK, Stage, CallOK, Kept, Working, Waiting, HeldBefore, Undone, AsBefore, Before
  <1>6. Accepted'
    BY DEF JobOK, Stage, CallOK, Kept, Accepted, Working, Waiting, Undone, AsBefore, Before
  <1>7. Denied'
    BY DEF JobOK, Stage, CallOK, Kept, Denied, Working, Waiting, Undone, AsBefore, Before,
         HeldBefore
  <1> QED BY <1>1, <1>2, <1>3, <1>4, <1>5, <1>6, <1>7 DEF StoreInv

LEMMA PreflightKeeps == StoreInv /\ Preflight => StoreInv'
  <1> SUFFICES ASSUME StoreInv, Preflight PROVE StoreInv'
    OBVIOUS
  <1>0. /\ job.at = "claimed" /\ UNCHANGED <<prefs, deal, live, call, answer, powers, botched>>
        /\ job' \in Jobs /\ SameWork
        /\ \/ job'.at = "retry"
           \/ job'.at = "finish" /\ job'.result \in {"TIMEOUT", "APPLY_FAILED"}
    <2>1. job.at = "claimed" /\ UNCHANGED <<prefs, deal, live, call, answer, powers, botched>> /\ job \in Jobs
      BY DEF Preflight, Untouched, StoreInv, Shape
    <2>2. FinishWith("TIMEOUT") \/ FinishWith("APPLY_FAILED") \/ job' = [job EXCEPT !.at = "retry"]
      BY DEF Preflight
    <2> QED BY <2>1, <2>2, JobEnds, JobMoves, Members
  <1>1. Shape'
    BY <1>0, Members DEF StoreInv, Shape, Jobs, Prefs
  <1> USE <1>0, Members DEF StoreInv, Shape, Prefs, Deals, Jobs, Calls, Answers, Good,
       Refused, None, Blank, Default, Posts, SameWork, Synced
  <1>2. JobOK'
    BY DEF JobOK, CallOK, Stage, Working
  <1>3. Stage'
    BY DEF JobOK, CallOK, Stage, Working
  <1>4. Kept'
    BY DEF JobOK, CallOK, Stage, Kept, Working, Undone, AsBefore, Before
  <1>5. CallOK'
    BY DEF JobOK, Stage, CallOK, Kept, Working, Waiting, HeldBefore, Undone, AsBefore, Before
  <1>6. Accepted'
    BY DEF JobOK, Stage, CallOK, Kept, Accepted, Working, Waiting, Undone, AsBefore, Before
  <1>7. Denied'
    BY DEF JobOK, Stage, CallOK, Kept, Denied, Working, Waiting, Undone, AsBefore, Before,
         HeldBefore
  <1> QED BY <1>1, <1>2, <1>3, <1>4, <1>5, <1>6, <1>7 DEF StoreInv

LEMMA RetryKeeps == StoreInv /\ Retry => StoreInv'
  <1> SUFFICES ASSUME StoreInv, Retry PROVE StoreInv'
    OBVIOUS
  <1>0. /\ job.at = "retry" /\ UNCHANGED <<prefs, live, call, answer, powers, botched>>
        /\ job' \in Jobs /\ SameWork /\ job'.result = job.result
        /\ deal' \in Deals
        /\ \/ /\ job'.at = "judge" /\ deal' = deal
              /\ deal.phase = "CANCELLED" \/ job.durable \/ job.tries > 0
           \/ /\ job'.at = "write" /\ deal' = deal
              /\ job.tries > 0 /\ ~job.durable
           \/ /\ job'.at = "claim" /\ deal' = [deal EXCEPT !.writing = TRUE]
              /\ job.tries = 0 /\ ~job.durable /\ deal.phase # "CANCELLED"
    <2>1. job.at = "retry" /\ UNCHANGED <<prefs, live, call, answer, powers, botched>> /\ job \in Jobs
          /\ deal \in Deals
      BY DEF Retry, Untouched, StoreInv, Shape
    <2>2. job.tries \in Nat
      BY <2>1 DEF Jobs
    <2>3. CASE deal.phase = "CANCELLED" \/ job.durable \/ job.tries = MaxAttempts
      <3>1. job' = [job EXCEPT !.at = "judge"] /\ deal' = deal
        BY <2>3 DEF Retry
      <3> QED BY <2>1, <2>2, <2>3, <3>1, JobMoves, Members, AttemptsAssumption
    <2>4. CASE ~(deal.phase = "CANCELLED" \/ job.durable \/ job.tries = MaxAttempts) /\ job.tries > 0
      <3>1. job' = [job EXCEPT !.at = "write"] /\ deal' = deal
        BY <2>4 DEF Retry
      <3> QED BY <2>1, <2>4, <3>1, JobMoves, Members
    <2>5. CASE ~(deal.phase = "CANCELLED" \/ job.durable \/ job.tries = MaxAttempts) /\ ~(job.tries > 0)
      <3>1. job' = [job EXCEPT !.at = "claim"] /\ deal' = [deal EXCEPT !.writing = TRUE]
        BY <2>5 DEF Retry
      <3>2. deal' \in Deals
        BY <2>1, <3>1 DEF Deals
      <3> QED BY <2>1, <2>2, <2>5, <3>1, <3>2, JobMoves, Members
    <2> QED BY <2>3, <2>4, <2>5
  <1>1. Shape'
    BY <1>0, Members DEF StoreInv, Shape, Jobs, Prefs
  <1> USE <1>0, Members DEF StoreInv, Shape, Prefs, Deals, Jobs, Calls, Answers, Good,
       Refused, None, Blank, Default, Posts, SameWork, Synced
  <1>2. JobOK'
    BY DEF JobOK, CallOK, Stage, Working
  <1>3. Stage'
    BY DEF JobOK, CallOK, Stage, Working
  <1>4. Kept'
    BY DEF JobOK, CallOK, Stage, Kept, Working, Undone, AsBefore, Before
  <1>5. CallOK'
    BY DEF JobOK, Stage, CallOK, Kept, Working, Waiting, HeldBefore, Undone, AsBefore, Before
  <1>6. Accepted'
    BY DEF JobOK, Stage, CallOK, Kept, Accepted, Working, Waiting, Undone, AsBefore, Before
  <1>7. Denied'
    BY DEF JobOK, Stage, CallOK, Kept, Denied, Working, Waiting, Undone, AsBefore, Before,
         HeldBefore
  <1> QED BY <1>1, <1>2, <1>3, <1>4, <1>5, <1>6, <1>7 DEF StoreInv

LEMMA ClaimWriteKeeps == StoreInv /\ ClaimWrite => StoreInv'
  <1> SUFFICES ASSUME StoreInv, ClaimWrite PROVE StoreInv'
    OBVIOUS
  <1>0. /\ job.at = "claim" /\ UNCHANGED <<prefs, live, call, answer, powers, botched>>
        /\ job' \in Jobs /\ SameWork /\ job'.result = job.result
        /\ deal' \in Deals
        /\ \/ job'.at = "write" /\ deal' = [deal EXCEPT !.phase = "WRITING"] /\ deal.phase = "PROCESSING"
           \/ job'.at = "judge" /\ deal' = [deal EXCEPT !.writing = FALSE] /\ deal.phase # "PROCESSING"
    <2>1. job.at = "claim" /\ UNCHANGED <<prefs, live, call, answer, powers, botched>> /\ job \in Jobs
          /\ deal \in Deals
      BY DEF ClaimWrite, Untouched, StoreInv, Shape
    <2>2. CASE deal.phase = "PROCESSING"
      <3>1. job' = [job EXCEPT !.at = "write"] /\ deal' = [deal EXCEPT !.phase = "WRITING"]
        BY <2>2 DEF ClaimWrite
      <3>2. deal' \in Deals
        BY <2>1, <3>1, Members DEF Deals
      <3> QED BY <2>1, <2>2, <3>1, <3>2, JobMoves, Members
    <2>3. CASE deal.phase # "PROCESSING"
      <3>1. job' = [job EXCEPT !.at = "judge"] /\ deal' = [deal EXCEPT !.writing = FALSE]
        BY <2>3 DEF ClaimWrite
      <3>2. deal' \in Deals
        BY <2>1, <3>1, Members DEF Deals
      <3> QED BY <2>1, <2>3, <3>1, <3>2, JobMoves, Members
    <2> QED BY <2>2, <2>3
  <1>1. Shape'
    BY <1>0, Members DEF StoreInv, Shape, Jobs, Prefs
  <1> USE <1>0, Members DEF StoreInv, Shape, Prefs, Deals, Jobs, Calls, Answers, Good,
       Refused, None, Blank, Default, Posts, SameWork, Synced
  <1>2. JobOK'
    BY DEF JobOK, CallOK, Stage, Working
  <1>3. Stage'
    BY DEF JobOK, CallOK, Stage, Working
  <1>4. Kept'
    BY DEF JobOK, CallOK, Stage, Kept, Working, Undone, AsBefore, Before
  <1>5. CallOK'
    BY DEF JobOK, Stage, CallOK, Kept, Working, Waiting, HeldBefore, Undone, AsBefore, Before
  <1>6. Accepted'
    BY DEF JobOK, Stage, CallOK, Kept, Accepted, Working, Waiting, Undone, AsBefore, Before
  <1>7. Denied'
    BY DEF JobOK, Stage, CallOK, Kept, Denied, Working, Waiting, Undone, AsBefore, Before,
         HeldBefore
  <1> QED BY <1>1, <1>2, <1>3, <1>4, <1>5, <1>6, <1>7 DEF StoreInv

LEMMA WriteKeeps == StoreInv /\ Write => StoreInv'
  <1> SUFFICES ASSUME StoreInv, Write PROVE StoreInv'
    OBVIOUS
  <1>0. /\ job.at = "write" /\ UNCHANGED <<deal, live, call, answer, powers, botched>>
        /\ job' \in Jobs /\ prefs' \in Prefs
        /\ job'.at = "retry" /\ job'.want = job.want /\ job'.old = job.old /\ job'.gen = job.gen
        /\ \/ /\ prefs' = prefs /\ job'.saved = job.saved /\ ~job'.durable
              /\ job'.tries > 0 /\ job'.result \notin Good
           \/ /\ prefs'.flash \in {prefs.flash, job.want} /\ prefs'.queued = job.want
              /\ job'.saved /\ ~job'.durable /\ job'.tries > 0 /\ job'.result \notin Good
           \/ /\ prefs' = Synced(job.want) /\ job'.saved /\ job'.durable
              /\ job'.tries = job.tries /\ job'.result = job.result
    <2>1. job.at = "write" /\ UNCHANGED <<deal, live, call, answer, powers, botched>>
      BY DEF Write, Untouched
    <2>2. /\ job \in Jobs /\ prefs \in Prefs /\ job.want \in Values /\ job.tries \in Nat
          /\ ~job.durable
      BY <2>1 DEF StoreInv, Shape, Jobs, Stage
    <2>3. CASE job' = [job EXCEPT !.at = "retry", !.tries = @ + 1, !.result = "SAVE_FAILED"] /\ UNCHANGED prefs
      <3>1. job.tries + 1 \in Nat /\ job.tries + 1 > 0
        BY <2>2
      <3>2. job' \in Jobs
        BY <2>2, <2>3, <3>1, Members DEF Jobs
      <3> QED BY <2>1, <2>2, <2>3, <3>1, <3>2 DEF Jobs, Good
    <2>4. CASE /\ job' = [job EXCEPT !.at = "retry", !.tries = @ + 1, !.result = "SYNC_FAILED", !.saved = TRUE]
               /\ prefs' \in Unsynced(job.want)
      <3>1. job.tries + 1 \in Nat /\ job.tries + 1 > 0
        BY <2>2
      <3>2. job' \in Jobs
        BY <2>2, <2>4, <3>1, Members DEF Jobs
      <3>3. prefs' \in Prefs /\ prefs'.flash \in {prefs.flash, job.want} /\ prefs'.queued = job.want
        BY <2>2, <2>4 DEF Prefs, Unsynced
      <3> QED BY <2>1, <2>2, <2>4, <3>1, <3>2, <3>3 DEF Jobs, Good
    <2>5. CASE /\ job' = [job EXCEPT !.at = "retry", !.saved = TRUE, !.durable = TRUE]
               /\ prefs' = Synced(job.want)
      <3>1. job' \in Jobs
        BY <2>2, <2>5, Members DEF Jobs
      <3>2. prefs' \in Prefs
        BY <2>2, <2>5, Members DEF Prefs, Synced
      <3> QED BY <2>1, <2>2, <2>5, <3>1, <3>2 DEF Jobs
    <2> QED BY <2>3, <2>4, <2>5 DEF Write
  <1>1. Shape'
    BY <1>0, Members DEF StoreInv, Shape, Jobs, Prefs
  <1> USE <1>0, Members DEF StoreInv, Shape, Prefs, Deals, Jobs, Calls, Answers, Good,
       Refused, None, Blank, Default, Posts, SameWork, Synced
  <1>2. JobOK'
    BY DEF JobOK, CallOK, Stage, Working
  <1>3. Stage'
    BY DEF JobOK, CallOK, Stage, Working
  <1>4. Kept'
    BY DEF JobOK, CallOK, Stage, Kept, Working, Undone, AsBefore, Before
  <1>5. CallOK'
    BY DEF JobOK, Stage, CallOK, Kept, Working, Waiting, HeldBefore, Undone, AsBefore, Before
  <1>6. Accepted'
    BY DEF JobOK, Stage, CallOK, Kept, Accepted, Working, Waiting, Undone, AsBefore, Before
  <1>7. Denied'
    BY DEF JobOK, Stage, CallOK, Kept, Denied, Working, Waiting, Undone, AsBefore, Before,
         HeldBefore
  <1> QED BY <1>1, <1>2, <1>3, <1>4, <1>5, <1>6, <1>7 DEF StoreInv

LEMMA JudgeKeeps == StoreInv /\ Judge => StoreInv'
  <1> SUFFICES ASSUME StoreInv, Judge PROVE StoreInv'
    OBVIOUS
  <1>0. /\ job.at = "judge" /\ UNCHANGED <<live, call, answer, powers>>
        /\ job' \in Jobs /\ SameWork /\ prefs' \in Prefs /\ deal' \in Deals /\ botched' \in BOOLEAN
        /\ \/ /\ job'.at = "commit" /\ job'.result = job.result /\ job.durable /\ deal.phase # "CANCELLED"
              /\ UNCHANGED <<prefs, deal, botched>>
           \/ /\ job'.at = "finish" /\ job'.result \notin Good
              /\ \/ ~job.saved /\ UNCHANGED <<prefs, deal, botched>>
                 \/ prefs' = Synced(job.old) /\ UNCHANGED <<deal, botched>>
                 \/ deal' = [deal EXCEPT !.failed = TRUE] /\ botched'
    <2>1. job.at = "judge" /\ UNCHANGED <<live, call, answer, powers>>
      BY DEF Judge, Untouched
    <2>2. job \in Jobs /\ prefs \in Prefs /\ deal \in Deals /\ botched \in BOOLEAN /\ job.result \in Results
      BY DEF StoreInv, Shape, Jobs
    <2>3. CASE job.durable /\ ~Cancelled
      <3>1. job' = [job EXCEPT !.at = "commit"] /\ UNCHANGED <<prefs, deal, botched>>
        BY <2>3 DEF Judge
      <3> QED BY <2>1, <2>2, <2>3, <3>1, JobMoves, Members DEF Cancelled
    <2>4. CASE ~(job.durable /\ ~Cancelled)
      <3> DEFINE result == IF Cancelled THEN "TIMEOUT" ELSE job.result
      <3>1. result \in Results /\ result \notin Good
        <4>1. Cancelled \/ job.tries > 0
          BY <2>1, <2>4 DEF StoreInv, Stage, Cancelled
        <4>2. ~Cancelled => job.result \notin Good
          BY <2>1, <4>1 DEF StoreInv, Stage
        <4> QED BY <2>2, <4>2, Members DEF Good
      <3>2. IF job.saved THEN RollBack(result) ELSE FinishWith(result) /\ UNCHANGED <<prefs, deal, botched>>
        BY <2>4 DEF Judge
      <3> HIDE DEF result
      <3>3. CASE job.saved
        <4>1. RollBack(result)
          BY <3>2, <3>3
        <4>2. deal' \in Deals
          BY <2>2, <3>1, <4>1, JobRollsBack DEF Deals
        <4> QED BY <2>1, <2>2, <3>1, <4>1, <4>2, JobRollsBack DEF Good
      <3>4. CASE ~job.saved
        BY <2>1, <2>2, <3>1, <3>2, <3>4, JobEnds
      <3> QED BY <3>3, <3>4
    <2> QED BY <2>3, <2>4
  <1>1. Shape'
    BY <1>0, Members DEF StoreInv, Shape, Jobs, Prefs
  <1>3. Stage'
    <2>1. CASE job'.at = "finish"
      <3>1. deal'.writing = deal.writing
        BY <1>0, <2>1 DEF StoreInv, Shape, Deals
      <3> QED BY <1>0, <2>1, <3>1 DEF SameWork, StoreInv, Stage, Working
    <2>2. CASE job'.at = "commit"
      BY <1>0, <2>2, Members DEF SameWork, StoreInv, Shape, Prefs, Deals, Jobs, Calls,
           Answers, JobOK, Stage, Working
    <2> QED BY <1>0, <2>1, <2>2
  <1> USE <1>0, Members DEF StoreInv, Shape, Prefs, Deals, Jobs, Calls, Answers, Good,
       Refused, None, Blank, Default, Posts, SameWork, Synced
  <1>2. JobOK'
    BY DEF JobOK, CallOK, Stage, Working
  <1>4. Kept'
    BY DEF JobOK, CallOK, Stage, Kept, Working, Undone, AsBefore, Before
  <1>5. CallOK'
    BY DEF JobOK, Stage, CallOK, Kept, Working, Waiting, HeldBefore, Undone, AsBefore, Before
  <1>6. Accepted'
    BY DEF JobOK, Stage, CallOK, Kept, Accepted, Working, Waiting, Undone, AsBefore, Before
  <1>7. Denied'
    BY DEF JobOK, Stage, CallOK, Kept, Denied, Working, Waiting, Undone, AsBefore, Before,
         HeldBefore
  <1> QED BY <1>1, <1>2, <1>3, <1>4, <1>5, <1>6, <1>7 DEF StoreInv

LEMMA CommitKeeps == StoreInv /\ Commit => StoreInv'
  <1> SUFFICES ASSUME StoreInv, Commit PROVE StoreInv'
    OBVIOUS
  <1>0. /\ job.at = "commit" /\ UNCHANGED <<live, call, answer, powers>>
        /\ job' \in Jobs /\ SameWork /\ prefs' \in Prefs /\ deal' \in Deals /\ botched' \in BOOLEAN
        /\ \/ /\ job'.at = "apply" /\ job'.result = job.result /\ deal.phase = "WRITING"
              /\ deal' = [deal EXCEPT !.phase = "COMMITTING"] /\ UNCHANGED <<prefs, botched>>
           \/ /\ job'.at = "finish" /\ job'.result \notin Good
              /\ \/ prefs' = Synced(job.old) /\ UNCHANGED <<deal, botched>>
                 \/ deal' = [deal EXCEPT !.failed = TRUE] /\ botched'
    <2>1. job.at = "commit" /\ UNCHANGED <<live, call, answer, powers>>
      BY DEF Commit, Untouched
    <2>2. job \in Jobs /\ prefs \in Prefs /\ deal \in Deals /\ botched \in BOOLEAN
      BY DEF StoreInv, Shape
    <2>3. CASE MayCommit
      <3>1. /\ job' = [job EXCEPT !.at = "apply"] /\ deal' = [deal EXCEPT !.phase = "COMMITTING"]
            /\ UNCHANGED <<prefs, botched>>
        BY <2>3 DEF Commit
      <3>2. deal' \in Deals
        BY <2>2, <3>1, Members DEF Deals
      <3> QED BY <2>1, <2>2, <2>3, <3>1, <3>2, JobMoves, Members DEF MayCommit
    <2>4. CASE ~MayCommit
      <3>1. RollBack("TIMEOUT") /\ "TIMEOUT" \in Results
        BY <2>4, Members DEF Commit
      <3>2. deal' \in Deals
        BY <2>2, <3>1, JobRollsBack DEF Deals
      <3> QED BY <2>1, <2>2, <3>1, <3>2, JobRollsBack DEF Good
    <2> QED BY <2>3, <2>4
  <1>1. Shape'
    BY <1>0, Members DEF StoreInv, Shape, Jobs, Prefs
  <1>3. Stage'
    <2>1. CASE job'.at = "finish"
      <3>1. deal'.writing = deal.writing
        BY <1>0, <2>1 DEF StoreInv, Shape, Deals
      <3> QED BY <1>0, <2>1, <3>1 DEF SameWork, StoreInv, Stage, Working
    <2>2. CASE job'.at = "apply"
      BY <1>0, <2>2, Members DEF SameWork, StoreInv, Shape, Prefs, Deals, Jobs, Calls,
           Answers, JobOK, Stage, Working
    <2> QED BY <1>0, <2>1, <2>2
  <1> USE <1>0, Members DEF StoreInv, Shape, Prefs, Deals, Jobs, Calls, Answers, Good,
       Refused, None, Blank, Default, Posts, SameWork, Synced
  <1>2. JobOK'
    BY DEF JobOK, CallOK, Stage, Working
  <1>4. Kept'
    BY DEF JobOK, CallOK, Stage, Kept, Working, Undone, AsBefore, Before
  <1>5. CallOK'
    BY DEF JobOK, Stage, CallOK, Kept, Working, Waiting, HeldBefore, Undone, AsBefore, Before
  <1>6. Accepted'
    BY DEF JobOK, Stage, CallOK, Kept, Accepted, Working, Waiting, Undone, AsBefore, Before
  <1>7. Denied'
    BY DEF JobOK, Stage, CallOK, Kept, Denied, Working, Waiting, Undone, AsBefore, Before,
         HeldBefore
  <1> QED BY <1>1, <1>2, <1>3, <1>4, <1>5, <1>6, <1>7 DEF StoreInv

LEMMA ApplyKeeps == StoreInv /\ Apply => StoreInv'
  <1> SUFFICES ASSUME StoreInv, Apply PROVE StoreInv'
    OBVIOUS
  <1>0. /\ job.at = "apply" /\ UNCHANGED <<call, answer, powers>> /\ live' = job.want
        /\ job' \in Jobs /\ SameWork /\ job'.at = "finish"
        /\ prefs' \in Prefs /\ deal' \in Deals /\ botched' \in BOOLEAN
        /\ \/ job'.result \in Good /\ UNCHANGED <<prefs, deal, botched>>
           \/ /\ job'.result \notin Good /\ deal' = [deal EXCEPT !.failed = TRUE]
              /\ (prefs' = Synced(job.old) /\ botched' = botched) \/ botched'
    <2>1. job.at = "apply" /\ UNCHANGED <<call, answer, powers>> /\ live' = job.want
      BY DEF Apply, Untouched
    <2>2. /\ job \in Jobs /\ prefs \in Prefs /\ deal \in Deals /\ botched \in BOOLEAN
          /\ job.old \in Values
      BY DEF StoreInv, Shape, Jobs
    <2>3. CASE (\E r \in Good : FinishWith(r)) /\ UNCHANGED <<prefs, deal, botched>>
      BY <2>1, <2>2, <2>3, JobEnds, Members
    <2>4. CASE /\ prefs' = Synced(job.old) /\ FinishWith("APPLY_FAILED") /\ UNCHANGED botched
               /\ deal' = [deal EXCEPT !.failed = TRUE]
      <3>1. prefs' \in Prefs /\ deal' \in Deals
        BY <2>2, <2>4, Members DEF Prefs, Deals, Synced
      <3> QED BY <2>1, <2>2, <2>4, <3>1, JobEnds, Members DEF Good
    <2>5. CASE /\ prefs' \in Unsynced(job.old) \cup {prefs}
               /\ FinishWith("RECOVERY_FAILED") /\ botched' = TRUE
               /\ deal' = [deal EXCEPT !.failed = TRUE]
      <3>1. prefs' \in Prefs
        BY <2>2, <2>5 DEF Prefs, Unsynced
      <3>2. deal' \in Deals
        BY <2>2, <2>5 DEF Deals
      <3> QED BY <2>1, <2>2, <2>5, <3>1, <3>2, JobEnds, Members DEF Good
    <2> QED BY <2>3, <2>4, <2>5 DEF Apply
  <1>1. Shape'
    BY <1>0, Members DEF StoreInv, Shape, Jobs, Prefs
  <1>7. Denied'
    <2>1. SUFFICES ASSUME answer'.result \in Refused, ~botched', answer'.held # answer'.want
                   PROVE  Denied'
      BY DEF Denied
    <2>2. /\ job.want = deal.desired /\ job.old = deal.committed
          /\ deal.phase = "COMMITTING" /\ deal.pending /\ ~deal.failed
          /\ prefs = Synced(job.want)
      BY <1>0 DEF StoreInv, JobOK, Stage, Kept, Working
    <2>3. deal' = [deal EXCEPT !.failed = TRUE] \/ deal' = deal
      BY <1>0
    <2>4. /\ deal'.committed = deal.committed /\ deal'.desired = deal.desired /\ deal'.phase = deal.phase
          /\ deal'.pending = deal.pending /\ deal'.writing = deal.writing
      BY <2>3 DEF StoreInv, Shape, Deals
    <2>5. ~botched
      BY <1>0, <2>1 DEF StoreInv, Shape
    <2>6. /\ answer.want \in Posts /\ answer.want # deal.committed /\ deal.desired # answer.want
      BY <1>0, <2>1, <2>2, <2>5 DEF StoreInv, Denied
    <2>7. prefs' = Synced(job.old) \/ prefs' = Synced(job.want)
      BY <1>0, <2>1, <2>2
    <2> QED BY <1>0, <2>2, <2>4, <2>6, <2>7, Members DEF Denied, Synced, Posts, None
  <1> USE <1>0, Members DEF StoreInv, Shape, Prefs, Deals, Jobs, Calls, Answers, Good,
       Refused, None, Blank, Default, Posts, SameWork, Synced
  <1>2. JobOK'
    BY DEF JobOK, CallOK, Stage, Working
  <1>3. Stage'
    BY DEF JobOK, CallOK, Stage, Working
  <1>4. Kept'
    BY DEF JobOK, CallOK, Stage, Kept, Working, Undone, AsBefore, Before
  <1>5. CallOK'
    BY DEF JobOK, Stage, CallOK, Kept, Working, Waiting, HeldBefore, Undone, AsBefore, Before
  <1>6. Accepted'
    BY DEF JobOK, Stage, CallOK, Kept, Accepted, Working, Waiting, Undone, AsBefore, Before
  <1> QED BY <1>1, <1>2, <1>3, <1>4, <1>5, <1>6, <1>7 DEF StoreInv

LEMMA FinishKeeps == StoreInv /\ Finish => StoreInv'
  <1> SUFFICES ASSUME StoreInv, Finish PROVE StoreInv'
    OBVIOUS
  <1> USE Members DEF Finish, NoJob, Synced, Untouched
  <1>1. Shape'
    <2>1. prefs' \in Prefs
      BY DEF StoreInv, Shape, Prefs, Jobs
    <2>2. deal' \in Deals
      BY DEF StoreInv, Shape, Deals, Jobs, Calls
    <2>3. job' \in Jobs
      BY DEF StoreInv, Shape, Jobs, Deals
    <2>4. call' \in Calls
      BY DEF StoreInv, Shape, Calls, Deals, Prefs
    <2>5. answer' \in Answers
      BY DEF StoreInv, Shape, Calls, Deals, Answers
    <2>6. live' \in Values /\ botched' \in BOOLEAN
      BY DEF StoreInv, Shape, Jobs
    <2> QED BY <2>1, <2>2, <2>3, <2>4, <2>5, <2>6 DEF Shape
  <1> USE DEF StoreInv, Shape, Prefs, Deals, Jobs, Calls, Answers, Good, Refused, None, Blank,
       Default, Posts
  <1>2. JobOK'
    BY DEF JobOK, CallOK, Stage, Working
  <1>3. Stage'
    BY DEF JobOK, CallOK, Stage, Working
  <1>4. Kept'
    BY DEF JobOK, CallOK, Stage, Kept, Working, Undone, AsBefore, Before
  <1>5. CallOK'
    BY DEF JobOK, Stage, CallOK, Kept, Working, Waiting, HeldBefore, Undone, AsBefore, Before
  <1>6. Accepted'
    BY DEF JobOK, Stage, CallOK, Kept, Accepted, Working, Waiting, Undone, AsBefore, Before
  <1>7. Denied'
    BY DEF JobOK, Stage, CallOK, Kept, Denied, Working, Waiting, Undone, AsBefore, Before,
         HeldBefore
  <1> QED BY <1>1, <1>2, <1>3, <1>4, <1>5, <1>6, <1>7 DEF StoreInv

LEMMA SignalKeeps == StoreInv /\ Signal => StoreInv'
  <1> SUFFICES ASSUME StoreInv, Signal PROVE StoreInv'
    OBVIOUS
  <1> USE Members DEF Signal, NoJob, Untouched
  <1>1. Shape'
    <2>1. prefs' \in Prefs
      BY DEF StoreInv, Shape, Prefs, Jobs
    <2>2. deal' \in Deals
      BY DEF StoreInv, Shape, Deals, Jobs, Calls
    <2>3. job' \in Jobs
      BY DEF StoreInv, Shape, Jobs, Deals
    <2>4. call' \in Calls
      BY DEF StoreInv, Shape, Calls, Deals, Prefs
    <2>5. answer' \in Answers
      BY DEF StoreInv, Shape, Calls, Deals, Answers
    <2>6. live' \in Values /\ botched' \in BOOLEAN
      BY DEF StoreInv, Shape, Jobs
    <2> QED BY <2>1, <2>2, <2>3, <2>4, <2>5, <2>6 DEF Shape
  <1> USE DEF StoreInv, Shape, Prefs, Deals, Jobs, Calls, Answers, Good, Refused, None, Blank,
       Default, Posts
  <1>2. JobOK'
    BY DEF JobOK, CallOK, Stage, Working
  <1>3. Stage'
    BY DEF JobOK, CallOK, Stage, Working
  <1>4. Kept'
    BY DEF JobOK, CallOK, Stage, Kept, Working, Undone, AsBefore, Before
  <1>5. CallOK'
    BY DEF JobOK, Stage, CallOK, Kept, Working, Waiting, HeldBefore, Undone, AsBefore, Before
  <1>6. Accepted'
    BY DEF JobOK, Stage, CallOK, Kept, Accepted, Working, Waiting, Undone, AsBefore, Before
  <1>7. Denied'
    BY DEF JobOK, Stage, CallOK, Kept, Denied, Working, Waiting, Undone, AsBefore, Before,
         HeldBefore
  <1> QED BY <1>1, <1>2, <1>3, <1>4, <1>5, <1>6, <1>7 DEF StoreInv

LEMMA IntervalSyncKeeps == StoreInv /\ IntervalSync => StoreInv'
  <1> SUFFICES ASSUME StoreInv, IntervalSync PROVE StoreInv'
    OBVIOUS
  <1> USE Members DEF IntervalSync, Synced, Untouched
  <1>1. Shape'
    <2>1. prefs' \in Prefs
      BY DEF StoreInv, Shape, Prefs, Jobs
    <2>2. deal' \in Deals
      BY DEF StoreInv, Shape, Deals, Jobs, Calls
    <2>3. job' \in Jobs
      BY DEF StoreInv, Shape, Jobs, Deals
    <2>4. call' \in Calls
      BY DEF StoreInv, Shape, Calls, Deals, Prefs
    <2>5. answer' \in Answers
      BY DEF StoreInv, Shape, Calls, Deals, Answers
    <2>6. live' \in Values /\ botched' \in BOOLEAN
      BY DEF StoreInv, Shape, Jobs
    <2> QED BY <2>1, <2>2, <2>3, <2>4, <2>5, <2>6 DEF Shape
  <1> USE DEF StoreInv, Shape, Prefs, Deals, Jobs, Calls, Answers, Good, Refused, None, Blank,
       Default, Posts
  <1>2. JobOK'
    BY DEF JobOK, CallOK, Stage, Working
  <1>3. Stage'
    BY DEF JobOK, CallOK, Stage, Working
  <1>4. Kept'
    BY DEF JobOK, CallOK, Stage, Kept, Working, Undone, AsBefore, Before
  <1>5. CallOK'
    BY DEF JobOK, Stage, CallOK, Kept, Working, Waiting, HeldBefore, Undone, AsBefore, Before
  <1>6. Accepted'
    BY DEF JobOK, Stage, CallOK, Kept, Accepted, Working, Waiting, Undone, AsBefore, Before
  <1>7. Denied'
    BY DEF JobOK, Stage, CallOK, Kept, Denied, Working, Waiting, Undone, AsBefore, Before,
         HeldBefore
  <1> QED BY <1>1, <1>2, <1>3, <1>4, <1>5, <1>6, <1>7 DEF StoreInv

LEMMA BeginKeeps == StoreInv /\ Begin => StoreInv'
  <1> SUFFICES ASSUME StoreInv, Begin PROVE StoreInv'
    OBVIOUS
  <1>0. /\ call.at = "idle" /\ ~deal.pending /\ ~deal.failed
        /\ UNCHANGED <<prefs, deal, job, live, powers>> /\ ~botched' /\ botched' \in BOOLEAN
        /\ call' \in Calls /\ call'.at = "drain" /\ call'.want \in Posts /\ call'.held = prefs.flash
        /\ answer' \in Answers /\ answer'.result = "none"
    <2>1. PICK v \in Posts : call' = [NoCall EXCEPT !.at = "drain", !.want = v, !.held = prefs.flash]
      BY DEF Begin
    <2>2. v \in Values /\ prefs.flash \in Values
      BY Members DEF StoreInv, Shape, Prefs
    <2>3. call' \in Calls /\ call'.at = "drain" /\ call'.want = v /\ call'.held = prefs.flash
      BY <2>1, <2>2, NoCallTyped, Members DEF Calls
    <2>4. answer' \in Answers /\ answer'.result = "none"
      BY Members DEF Begin, NoAnswer, Answers
    <2> QED BY <2>3, <2>4 DEF Begin
  <1>1. Shape'
    BY <1>0, Members DEF StoreInv, Shape, Jobs, Prefs
  <1> USE <1>0, Members DEF StoreInv, Shape, Prefs, Deals, Jobs, Calls, Answers, Good,
       Refused, None, Blank, Default, Posts
  <1>2. JobOK'
    BY DEF JobOK, CallOK, Stage, Working
  <1>3. Stage'
    BY DEF JobOK, CallOK, Stage, Working
  <1>4. Kept'
    BY DEF JobOK, CallOK, Stage, Kept, Working, Undone, AsBefore, Before
  <1>5. CallOK'
    BY DEF JobOK, Stage, CallOK, Kept, Working, Waiting, HeldBefore, Undone, AsBefore, Before
  <1>6. Accepted'
    BY DEF JobOK, Stage, CallOK, Kept, Accepted, Working, Waiting, Undone, AsBefore, Before
  <1>7. Denied'
    BY DEF JobOK, Stage, CallOK, Kept, Denied, Working, Waiting, Undone, AsBefore, Before,
         HeldBefore
  <1> QED BY <1>1, <1>2, <1>3, <1>4, <1>5, <1>6, <1>7 DEF StoreInv

LEMMA DrainKeeps == StoreInv /\ Drain => StoreInv'
  <1> SUFFICES ASSUME StoreInv, Drain PROVE StoreInv'
    OBVIOUS
  <1> USE Members DEF Drain, Here, Still
  <1>1. Shape'
    <2>1. prefs' \in Prefs
      BY DEF StoreInv, Shape, Prefs, Jobs
    <2>2. deal' \in Deals
      BY DEF StoreInv, Shape, Deals, Jobs, Calls
    <2>3. job' \in Jobs
      BY DEF StoreInv, Shape, Jobs, Deals
    <2>4. call' \in Calls
      BY DEF StoreInv, Shape, Calls, Deals, Prefs
    <2>5. answer' \in Answers
      BY DEF StoreInv, Shape, Calls, Deals, Answers
    <2>6. live' \in Values /\ botched' \in BOOLEAN
      BY DEF StoreInv, Shape, Jobs
    <2> QED BY <2>1, <2>2, <2>3, <2>4, <2>5, <2>6 DEF Shape
  <1> USE DEF StoreInv, Shape, Prefs, Deals, Jobs, Calls, Answers, Good, Refused, None, Blank,
       Default, Posts
  <1>2. JobOK'
    BY DEF JobOK, CallOK, Stage, Working
  <1>3. Stage'
    BY DEF JobOK, CallOK, Stage, Working
  <1>4. Kept'
    BY DEF JobOK, CallOK, Stage, Kept, Working, Undone, AsBefore, Before
  <1>5. CallOK'
    BY DEF JobOK, Stage, CallOK, Kept, Working, Waiting, HeldBefore, Undone, AsBefore, Before
  <1>6. Accepted'
    BY DEF JobOK, Stage, CallOK, Kept, Accepted, Working, Waiting, Undone, AsBefore, Before
  <1>7. Denied'
    BY DEF JobOK, Stage, CallOK, Kept, Denied, Working, Waiting, Undone, AsBefore, Before,
         HeldBefore
  <1> QED BY <1>1, <1>2, <1>3, <1>4, <1>5, <1>6, <1>7 DEF StoreInv

LEMMA QueueKeeps == StoreInv /\ Queue => StoreInv'
  <1> SUFFICES ASSUME StoreInv, Queue PROVE StoreInv'
    OBVIOUS
  <1>0. /\ call.at = "queue" /\ UNCHANGED <<prefs, job, live, answer, botched, powers>>
        /\ call' \in Calls /\ call'.at = "wait" /\ call'.gen = deal'.gen
        /\ call'.want = call.want /\ call'.held = call.held
        /\ deal' \in Deals /\ deal'.desired = call.want /\ deal'.committed = deal.committed
        /\ deal'.done = 0 /\ deal'.pending /\ deal'.phase = "QUEUED"
        /\ deal'.writing = deal.writing /\ deal'.failed = deal.failed
    <2>1. call.at = "queue" /\ UNCHANGED <<prefs, job, live, answer, botched, powers>>
      BY DEF Queue, Still
    <2>2. call \in Calls /\ deal \in Deals /\ call.want \in Values /\ deal.gen \in Nat /\ deal.gen + 1 \in Nat \ {0}
      BY DEF StoreInv, Shape, Calls, Deals
    <2>3. call' = [call EXCEPT !.at = "wait", !.gen = deal.gen + 1]
      BY DEF Queue
    <2>4. /\ call' \in Calls /\ call'.at = "wait" /\ call'.gen = deal.gen + 1
          /\ call'.want = call.want /\ call'.held = call.held
      BY <2>2, <2>3, Members DEF Calls
    <2>5. deal' = [deal EXCEPT !.desired = call.want, !.gen = @ + 1, !.done = 0, !.result = "UNAVAILABLE",
                               !.pending = TRUE, !.waiter = TRUE, !.phase = "QUEUED"]
      BY DEF Queue
    <2>6. deal' \in Deals
      BY <2>2, <2>5, Members DEF Deals
    <2>7. /\ deal'.desired = call.want /\ deal'.committed = deal.committed /\ deal'.gen = deal.gen + 1
          /\ deal'.done = 0 /\ deal'.pending /\ deal'.phase = "QUEUED"
          /\ deal'.writing = deal.writing /\ deal'.failed = deal.failed
      BY <2>2, <2>5 DEF Deals
    <2> QED BY <2>1, <2>4, <2>6, <2>7
  <1>1. Shape'
    BY <1>0, Members DEF StoreInv, Shape, Jobs, Prefs
  <1> USE <1>0, Members DEF StoreInv, Shape, Prefs, Deals, Jobs, Calls, Answers, Good,
       Refused, None, Blank, Default, Posts
  <1>2. JobOK'
    BY DEF JobOK, CallOK, Stage, Working
  <1>3. Stage'
    BY DEF JobOK, CallOK, Stage, Working
  <1>4. Kept'
    BY DEF JobOK, CallOK, Stage, Kept, Working, Undone, AsBefore, Before
  <1>5. CallOK'
    BY DEF JobOK, Stage, CallOK, Kept, Working, Waiting, HeldBefore, Undone, AsBefore, Before
  <1>6. Accepted'
    BY DEF JobOK, Stage, CallOK, Kept, Accepted, Working, Waiting, Undone, AsBefore, Before
  <1>7. Denied'
    BY DEF JobOK, Stage, CallOK, Kept, Denied, Working, Waiting, Undone, AsBefore, Before,
         HeldBefore
  <1> QED BY <1>1, <1>2, <1>3, <1>4, <1>5, <1>6, <1>7 DEF StoreInv

LEMMA WakeKeeps == StoreInv /\ (\E at \in {"wait", "grace"} : Wake(at)) => StoreInv'
  <1> SUFFICES ASSUME StoreInv, (\E at \in {"wait", "grace"} : Wake(at)) PROVE StoreInv'
    OBVIOUS
  <1>0. /\ call.at \in {"wait", "grace"} /\ UNCHANGED <<prefs, job, live, botched, powers>>
        /\ deal' \in Deals /\ call' \in Calls /\ answer' \in Answers
        /\ deal' = [deal EXCEPT !.signal = FALSE]
        /\ \/ /\ Exact /\ call'.at = "idle" /\ answer'.result = deal.result
              /\ answer'.want = call.want /\ answer'.held = call.held
           \/ UNCHANGED <<call, answer>>
    <2>1. PICK at \in {"wait", "grace"} : Wake(at)
      OBVIOUS
    <2>2. /\ call.at \in {"wait", "grace"} /\ UNCHANGED <<prefs, job, live, botched, powers>>
          /\ call \in Calls /\ answer \in Answers /\ deal.result \in Results \cup {"UNAVAILABLE"}
          /\ deal \in Deals /\ deal' = [deal EXCEPT !.signal = FALSE]
      BY <2>1 DEF Wake, Still, StoreInv, Shape, Deals
    <2>3. deal' \in Deals
      BY <2>2 DEF Deals
    <2> QED BY <2>1, <2>2, <2>3, CallAnswers DEF Wake
  <1>1. Shape'
    BY <1>0, Members DEF StoreInv, Shape, Jobs, Prefs
  <1> USE <1>0, Members DEF StoreInv, Shape, Prefs, Deals, Jobs, Calls, Answers, Good,
       Refused, None, Blank, Default, Posts, Exact
  <1>2. JobOK'
    BY DEF JobOK, CallOK, Stage, Working
  <1>3. Stage'
    BY DEF JobOK, CallOK, Stage, Working
  <1>4. Kept'
    BY DEF JobOK, CallOK, Stage, Kept, Working, Undone, AsBefore, Before
  <1>5. CallOK'
    BY DEF JobOK, Stage, CallOK, Kept, Working, Waiting, HeldBefore, Undone, AsBefore, Before
  <1>6. Accepted'
    BY DEF JobOK, Stage, CallOK, Kept, Accepted, Working, Waiting, Undone, AsBefore, Before
  <1>7. Denied'
    BY DEF JobOK, Stage, CallOK, Kept, Denied, Working, Waiting, Undone, AsBefore, Before,
         HeldBefore
  <1> QED BY <1>1, <1>2, <1>3, <1>4, <1>5, <1>6, <1>7 DEF StoreInv

LEMMA WaitEndsKeeps == StoreInv /\ WaitEnds => StoreInv'
  <1> SUFFICES ASSUME StoreInv, WaitEnds PROVE StoreInv'
    OBVIOUS
  <1> USE Members DEF WaitEnds, Here, Still
  <1>1. Shape'
    <2>1. prefs' \in Prefs
      BY DEF StoreInv, Shape, Prefs, Jobs
    <2>2. deal' \in Deals
      BY DEF StoreInv, Shape, Deals, Jobs, Calls
    <2>3. job' \in Jobs
      BY DEF StoreInv, Shape, Jobs, Deals
    <2>4. call' \in Calls
      BY DEF StoreInv, Shape, Calls, Deals, Prefs
    <2>5. answer' \in Answers
      BY DEF StoreInv, Shape, Calls, Deals, Answers
    <2>6. live' \in Values /\ botched' \in BOOLEAN
      BY DEF StoreInv, Shape, Jobs
    <2> QED BY <2>1, <2>2, <2>3, <2>4, <2>5, <2>6 DEF Shape
  <1> USE DEF StoreInv, Shape, Prefs, Deals, Jobs, Calls, Answers, Good, Refused, None, Blank,
       Default, Posts
  <1>2. JobOK'
    BY DEF JobOK, CallOK, Stage, Working
  <1>3. Stage'
    BY DEF JobOK, CallOK, Stage, Working
  <1>4. Kept'
    BY DEF JobOK, CallOK, Stage, Kept, Working, Undone, AsBefore, Before
  <1>5. CallOK'
    BY DEF JobOK, Stage, CallOK, Kept, Working, Waiting, HeldBefore, Undone, AsBefore, Before
  <1>6. Accepted'
    BY DEF JobOK, Stage, CallOK, Kept, Accepted, Working, Waiting, Undone, AsBefore, Before
  <1>7. Denied'
    BY DEF JobOK, Stage, CallOK, Kept, Denied, Working, Waiting, Undone, AsBefore, Before,
         HeldBefore
  <1> QED BY <1>1, <1>2, <1>3, <1>4, <1>5, <1>6, <1>7 DEF StoreInv

LEMMA LateKeeps == StoreInv /\ Late => StoreInv'
  <1> SUFFICES ASSUME StoreInv, Late PROVE StoreInv'
    OBVIOUS
  <1>0. /\ call.at = "late" /\ UNCHANGED <<prefs, deal, job, live, botched, powers>>
        /\ call' \in Calls /\ answer' \in Answers
        /\ \/ /\ Exact /\ call'.at = "idle" /\ answer'.result = deal.result
              /\ answer'.want = call.want /\ answer'.held = call.held
           \/ /\ ~Exact /\ call'.at = "cancel" /\ answer' = answer
              /\ call' = [call EXCEPT !.at = "cancel"]
    <2>1. /\ call.at = "late" /\ UNCHANGED <<prefs, deal, job, live, botched, powers>>
          /\ call \in Calls /\ answer \in Answers /\ deal.result \in Results \cup {"UNAVAILABLE"}
      BY DEF Late, Still, StoreInv, Shape, Deals
    <2>2. CASE Exact
      BY <2>1, <2>2, CallAnswers DEF Late
    <2>3. CASE ~Exact
      <3>1. call' = [call EXCEPT !.at = "cancel"] /\ answer' = answer
        BY <2>3 DEF Late
      <3>2. call' \in Calls /\ call'.at = "cancel"
        BY <2>1, <3>1, Members DEF Calls
      <3> QED BY <2>1, <2>3, <3>1, <3>2
    <2> QED BY <2>2, <2>3
  <1>1. Shape'
    BY <1>0, Members DEF StoreInv, Shape, Jobs, Prefs
  <1> USE <1>0, Members DEF StoreInv, Shape, Prefs, Deals, Jobs, Calls, Answers, Good,
       Refused, None, Blank, Default, Posts, Exact
  <1>2. JobOK'
    BY DEF JobOK, CallOK, Stage, Working
  <1>3. Stage'
    BY DEF JobOK, CallOK, Stage, Working
  <1>4. Kept'
    BY DEF JobOK, CallOK, Stage, Kept, Working, Undone, AsBefore, Before
  <1>5. CallOK'
    BY DEF JobOK, Stage, CallOK, Kept, Working, Waiting, HeldBefore, Undone, AsBefore, Before
  <1>6. Accepted'
    BY DEF JobOK, Stage, CallOK, Kept, Accepted, Working, Waiting, Undone, AsBefore, Before
  <1>7. Denied'
    BY DEF JobOK, Stage, CallOK, Kept, Denied, Working, Waiting, Undone, AsBefore, Before,
         HeldBefore
  <1> QED BY <1>1, <1>2, <1>3, <1>4, <1>5, <1>6, <1>7 DEF StoreInv

LEMMA CallOffKeeps == StoreInv /\ CallOff => StoreInv'
  <1> SUFFICES ASSUME StoreInv, CallOff PROVE StoreInv'
    OBVIOUS
  <1>0. /\ call.at = "cancel" /\ UNCHANGED <<prefs, job, live, answer, botched, powers>>
        /\ call' \in Calls /\ call'.at = "grace" /\ call'.won = (deal.phase = "COMMITTING")
        /\ call'.gen = call.gen /\ call'.want = call.want /\ call'.held = call.held
        /\ deal' \in Deals
        /\ \/ /\ deal.phase \in {"QUEUED", "PROCESSING", "WRITING"}
              /\ deal' = [deal EXCEPT !.phase = "CANCELLED"]
           \/ /\ deal.phase \notin {"QUEUED", "PROCESSING", "WRITING"}
              /\ deal' = deal
    <2>1. /\ call.at = "cancel" /\ UNCHANGED <<prefs, job, live, answer, botched, powers>>
          /\ call \in Calls /\ deal \in Deals
      BY DEF CallOff, Still, StoreInv, Shape
    <2>2. call' = [call EXCEPT !.at = "grace", !.won = (deal.phase = "COMMITTING")]
      BY DEF CallOff
    <2>3. /\ call' \in Calls /\ call'.at = "grace" /\ call'.won = (deal.phase = "COMMITTING")
          /\ call'.gen = call.gen /\ call'.want = call.want /\ call'.held = call.held
      BY <2>1, <2>2, Members DEF Calls
    <2> DEFINE to == IF deal.phase \in {"QUEUED", "PROCESSING", "WRITING"} THEN "CANCELLED" ELSE deal.phase
    <2>4. to \in Phases /\ deal' = [deal EXCEPT !.phase = to]
      BY <2>1, Members DEF CallOff, Deals
    <2>5. deal' \in Deals
      BY <2>1, <2>4 DEF Deals
    <2>6. to = deal.phase => deal' = deal
      BY <2>1, <2>4 DEF Deals
    <2> QED BY <2>1, <2>3, <2>4, <2>5, <2>6
  <1>1. Shape'
    BY <1>0, Members DEF StoreInv, Shape, Jobs, Prefs
  <1>5. CallOK'
    <2>1. /\ deal'.gen = deal.gen /\ deal'.desired = deal.desired /\ deal'.committed = deal.committed
          /\ deal'.done = deal.done /\ deal'.result = deal.result /\ deal'.pending = deal.pending
          /\ deal'.failed = deal.failed
      BY <1>0 DEF StoreInv, Shape, Deals
    <2>2. Waiting /\ (~deal.pending => deal' = deal)
      BY <1>0 DEF Waiting, StoreInv, JobOK
    <2>3. ~call'.won => deal'.phase \in {"CANCELLED", "COMPLETED"}
      <3>1. deal.phase # "IDLE"
        BY <2>2 DEF StoreInv, CallOK, JobOK
      <3>2. deal.phase \in Phases
        BY DEF StoreInv, Shape, Deals
      <3>3. CASE deal.phase \in {"QUEUED", "PROCESSING", "WRITING"}
        BY <1>0, <3>3 DEF StoreInv, Shape, Deals
      <3>4. CASE deal.phase \notin {"QUEUED", "PROCESSING", "WRITING"}
        BY <1>0, <3>1, <3>2, <3>4 DEF Phases
      <3> QED BY <3>3, <3>4
    <2> QED BY <1>0, <2>1, <2>2, <2>3 DEF StoreInv, CallOK, Waiting, HeldBefore
  <1> USE <1>0, Members DEF StoreInv, Shape, Prefs, Deals, Jobs, Calls, Answers, Good,
       Refused, None, Blank, Default, Posts
  <1>2. JobOK'
    BY DEF JobOK, CallOK, Stage, Working
  <1>3. Stage'
    BY DEF JobOK, CallOK, Stage, Working
  <1>4. Kept'
    BY DEF JobOK, CallOK, Stage, Kept, Working, Undone, AsBefore, Before
  <1>6. Accepted'
    BY DEF JobOK, Stage, CallOK, Kept, Accepted, Working, Waiting, Undone, AsBefore, Before
  <1>7. Denied'
    BY DEF JobOK, Stage, CallOK, Kept, Denied, Working, Waiting, Undone, AsBefore, Before,
         HeldBefore
  <1> QED BY <1>1, <1>2, <1>3, <1>4, <1>5, <1>6, <1>7 DEF StoreInv

LEMMA GraceEndsKeeps == StoreInv /\ GraceEnds => StoreInv'
  <1> SUFFICES ASSUME StoreInv, GraceEnds PROVE StoreInv'
    OBVIOUS
  <1> USE Members DEF GraceEnds, Here, Still
  <1>1. Shape'
    <2>1. prefs' \in Prefs
      BY DEF StoreInv, Shape, Prefs, Jobs
    <2>2. deal' \in Deals
      BY DEF StoreInv, Shape, Deals, Jobs, Calls
    <2>3. job' \in Jobs
      BY DEF StoreInv, Shape, Jobs, Deals
    <2>4. call' \in Calls
      BY DEF StoreInv, Shape, Calls, Deals, Prefs
    <2>5. answer' \in Answers
      BY DEF StoreInv, Shape, Calls, Deals, Answers
    <2>6. live' \in Values /\ botched' \in BOOLEAN
      BY DEF StoreInv, Shape, Jobs
    <2> QED BY <2>1, <2>2, <2>3, <2>4, <2>5, <2>6 DEF Shape
  <1> USE DEF StoreInv, Shape, Prefs, Deals, Jobs, Calls, Answers, Good, Refused, None, Blank,
       Default, Posts
  <1>2. JobOK'
    BY DEF JobOK, CallOK, Stage, Working
  <1>3. Stage'
    BY DEF JobOK, CallOK, Stage, Working
  <1>4. Kept'
    BY DEF JobOK, CallOK, Stage, Kept, Working, Undone, AsBefore, Before
  <1>5. CallOK'
    BY DEF JobOK, Stage, CallOK, Kept, Working, Waiting, HeldBefore, Undone, AsBefore, Before
  <1>6. Accepted'
    BY DEF JobOK, Stage, CallOK, Kept, Accepted, Working, Waiting, Undone, AsBefore, Before
  <1>7. Denied'
    BY DEF JobOK, Stage, CallOK, Kept, Denied, Working, Waiting, Undone, AsBefore, Before,
         HeldBefore
  <1> QED BY <1>1, <1>2, <1>3, <1>4, <1>5, <1>6, <1>7 DEF StoreInv

LEMMA LastLookKeeps == StoreInv /\ LastLook => StoreInv'
  <1> SUFFICES ASSUME StoreInv, LastLook PROVE StoreInv'
    OBVIOUS
  <1>0. /\ call.at = "last" /\ UNCHANGED <<prefs, deal, job, live, botched, powers>>
        /\ call' \in Calls /\ answer' \in Answers
        /\ \/ /\ Exact /\ call'.at = "idle" /\ answer'.result = deal.result
              /\ answer'.want = call.want /\ answer'.held = call.held
           \/ /\ ~Exact /\ call'.at = "phase" /\ answer' = answer
              /\ call' = [call EXCEPT !.at = "phase"]
    <2>1. /\ call.at = "last" /\ UNCHANGED <<prefs, deal, job, live, botched, powers>>
          /\ call \in Calls /\ answer \in Answers /\ deal.result \in Results \cup {"UNAVAILABLE"}
      BY DEF LastLook, Still, StoreInv, Shape, Deals
    <2>2. CASE Exact
      BY <2>1, <2>2, CallAnswers DEF LastLook
    <2>3. CASE ~Exact
      <3>1. call' = [call EXCEPT !.at = "phase"] /\ answer' = answer
        BY <2>3 DEF LastLook
      <3>2. call' \in Calls /\ call'.at = "phase"
        BY <2>1, <3>1, Members DEF Calls
      <3> QED BY <2>1, <2>3, <3>1, <3>2
    <2> QED BY <2>2, <2>3
  <1>1. Shape'
    BY <1>0, Members DEF StoreInv, Shape, Jobs, Prefs
  <1> USE <1>0, Members DEF StoreInv, Shape, Prefs, Deals, Jobs, Calls, Answers, Good,
       Refused, None, Blank, Default, Posts, Exact
  <1>2. JobOK'
    BY DEF JobOK, CallOK, Stage, Working
  <1>3. Stage'
    BY DEF JobOK, CallOK, Stage, Working
  <1>4. Kept'
    BY DEF JobOK, CallOK, Stage, Kept, Working, Undone, AsBefore, Before
  <1>5. CallOK'
    BY DEF JobOK, Stage, CallOK, Kept, Working, Waiting, HeldBefore, Undone, AsBefore, Before
  <1>6. Accepted'
    BY DEF JobOK, Stage, CallOK, Kept, Accepted, Working, Waiting, Undone, AsBefore, Before
  <1>7. Denied'
    BY DEF JobOK, Stage, CallOK, Kept, Denied, Working, Waiting, Undone, AsBefore, Before,
         HeldBefore
  <1> QED BY <1>1, <1>2, <1>3, <1>4, <1>5, <1>6, <1>7 DEF StoreInv

LEMMA PhaseLookKeeps == StoreInv /\ PhaseLook => StoreInv'
  <1> SUFFICES ASSUME StoreInv, PhaseLook PROVE StoreInv'
    OBVIOUS
  <1>0. /\ call.at = "phase" /\ UNCHANGED <<prefs, deal, job, live, botched, powers>>
        /\ call' \in Calls /\ answer' \in Answers
        /\ \/ call'.at = "idle" /\ answer'.result = "PERSISTENCE_PENDING"
           \/ /\ ~call.won /\ call'.at = "write" /\ answer' = answer
              /\ call' = [call EXCEPT !.at = "write"]
    <2>1. /\ call.at = "phase" /\ UNCHANGED <<prefs, deal, job, live, botched, powers>>
          /\ call \in Calls /\ answer \in Answers
      BY DEF PhaseLook, Still, StoreInv, Shape
    <2>2. CASE call.won \/ deal.phase = "COMMITTING"
      <3>1. Answer("PERSISTENCE_PENDING", call)
        BY <2>2 DEF PhaseLook
      <3> QED BY <2>1, <3>1, CallAnswers
    <2>3. CASE ~(call.won \/ deal.phase = "COMMITTING")
      <3>1. call' = [call EXCEPT !.at = "write"] /\ answer' = answer
        BY <2>3 DEF PhaseLook
      <3>2. call' \in Calls /\ call'.at = "write"
        BY <2>1, <3>1, Members DEF Calls
      <3> QED BY <2>1, <2>3, <3>1, <3>2
    <2> QED BY <2>2, <2>3
  <1>1. Shape'
    BY <1>0, Members DEF StoreInv, Shape, Jobs, Prefs
  <1> USE <1>0, Members DEF StoreInv, Shape, Prefs, Deals, Jobs, Calls, Answers, Good,
       Refused, None, Blank, Default, Posts
  <1>2. JobOK'
    BY DEF JobOK, CallOK, Stage, Working
  <1>3. Stage'
    BY DEF JobOK, CallOK, Stage, Working
  <1>4. Kept'
    BY DEF JobOK, CallOK, Stage, Kept, Working, Undone, AsBefore, Before
  <1>5. CallOK'
    BY DEF JobOK, Stage, CallOK, Kept, Working, Waiting, HeldBefore, Undone, AsBefore, Before
  <1>6. Accepted'
    BY DEF JobOK, Stage, CallOK, Kept, Accepted, Working, Waiting, Undone, AsBefore, Before
  <1>7. Denied'
    BY DEF JobOK, Stage, CallOK, Kept, Denied, Working, Waiting, Undone, AsBefore, Before,
         HeldBefore
  <1> QED BY <1>1, <1>2, <1>3, <1>4, <1>5, <1>6, <1>7 DEF StoreInv

LEMMA WriteLookKeeps == StoreInv /\ WriteLook => StoreInv'
  <1> SUFFICES ASSUME StoreInv, WriteLook PROVE StoreInv'
    OBVIOUS
  <1>0. /\ call.at = "write" /\ UNCHANGED <<prefs, deal, job, live, botched, powers>>
        /\ call' \in Calls /\ answer' \in Answers /\ call'.at = "idle"
        /\ answer'.want = call.want /\ answer'.held = call.held
        /\ answer'.result \notin Good
        /\ answer'.result \in Refused => ~deal.writing
    <2>1. /\ call.at = "write" /\ UNCHANGED <<prefs, deal, job, live, botched, powers>> /\ call \in Calls
          /\ deal.writing \in BOOLEAN
      BY DEF WriteLook, Still, StoreInv, Shape, Deals
    <2>2. CASE deal.writing
      <3>1. Answer("RECOVERY_PENDING", call)
        BY <2>2 DEF WriteLook
      <3> QED BY <2>1, <3>1, CallAnswers DEF Good, Refused
    <2>3. CASE ~deal.writing
      <3>1. Answer("TIMEOUT", call)
        BY <2>3 DEF WriteLook
      <3> QED BY <2>1, <2>3, <3>1, CallAnswers, Members DEF Good
    <2> QED BY <2>2, <2>3
  <1>1. Shape'
    BY <1>0, Members DEF StoreInv, Shape, Jobs, Prefs
  <1>7. Denied'
    <2>1. SUFFICES ASSUME answer'.result \in Refused, ~botched', answer'.held # answer'.want
                   PROVE  Denied'
      BY DEF Denied
    <2>2. /\ Waiting /\ ~deal.writing /\ ~botched /\ call.held # call.want /\ call.want \in Posts
      BY <1>0, <2>1 DEF StoreInv, CallOK, Waiting
    <2>3. deal.phase \in {"CANCELLED", "COMPLETED"} /\ (deal.phase = "COMPLETED" => deal.result \notin Good)
      BY <1>0, <2>1, <2>2 DEF StoreInv, CallOK
    <2>4. HeldBefore /\ (deal.pending => deal.phase = "CANCELLED")
      BY <2>2, <2>3 DEF StoreInv, CallOK, JobOK
    <2>5. call.want # deal.committed
      BY <2>2, <2>4 DEF HeldBefore, Before, Blank, Posts
    <2>6. Undone
      <3>1. CASE deal.pending /\ Working /\ job.at # "finish"
        BY <2>2, <3>1 DEF StoreInv, Stage, Kept
      <3>2. CASE deal.pending /\ job.at = "finish"
        BY <2>2, <2>3, <2>4, <3>2 DEF StoreInv, Kept
      <3> QED BY <2>2, <3>1, <3>2 DEF StoreInv, Kept, Working
    <2>7. ~deal.failed => AsBefore(live)
      <3>1. CASE deal.pending /\ job.at = "finish"
        BY <2>2, <2>3, <2>4, <3>1 DEF StoreInv, Kept
      <3> QED BY <3>1 DEF StoreInv, Kept
    <2> QED BY <1>0, <2>2, <2>4, <2>5, <2>6, <2>7 DEF Denied, Undone, AsBefore, Before, None, Posts
  <1> USE <1>0, Members DEF StoreInv, Shape, Prefs, Deals, Jobs, Calls, Answers, Good,
       Refused, None, Blank, Default, Posts
  <1>2. JobOK'
    BY DEF JobOK, CallOK, Stage, Working
  <1>3. Stage'
    BY DEF JobOK, CallOK, Stage, Working
  <1>4. Kept'
    BY DEF JobOK, CallOK, Stage, Kept, Working, Undone, AsBefore, Before
  <1>5. CallOK'
    BY DEF JobOK, Stage, CallOK, Kept, Working, Waiting, HeldBefore, Undone, AsBefore, Before
  <1>6. Accepted'
    BY DEF JobOK, Stage, CallOK, Kept, Accepted, Working, Waiting, Undone, AsBefore, Before
  <1> QED BY <1>1, <1>2, <1>3, <1>4, <1>5, <1>6, <1>7 DEF StoreInv

LEMMA PowerCutKeeps == StoreInv /\ PowerCut => StoreInv'
  <1> SUFFICES ASSUME StoreInv, PowerCut PROVE StoreInv'
    OBVIOUS
  <1>0. /\ prefs' = Synced(prefs.flash) /\ prefs' \in Prefs /\ live' = prefs.flash
        /\ job' = NoJob /\ job' \in Jobs /\ call' = NoCall /\ call' \in Calls
        /\ UNCHANGED <<answer, botched>>
        /\ \/ prefs.flash = None /\ deal' = Transaction(Default, Blank, TRUE)
           \/ prefs.flash # None /\ deal' = Transaction(prefs.flash, prefs.flash, FALSE)
        /\ deal' \in Deals
    <2>1. prefs.flash \in Values
      BY DEF StoreInv, Shape, Prefs
    <2>2. \A d, c \in Values, p \in BOOLEAN : Transaction(d, c, p) \in Deals
      BY Members DEF Transaction, Deals
    <2>3. NoJob \in Jobs /\ Synced(prefs.flash) \in Prefs
      BY <2>1, Members DEF NoJob, Jobs, Synced, Prefs
    <2> QED BY <2>1, <2>2, <2>3, NoCallTyped, Members DEF PowerCut, Booted
  <1>1. Shape'
    BY <1>0, Members DEF StoreInv, Shape, Jobs, Prefs
  <1> USE <1>0, Members DEF StoreInv, Shape, Prefs, Deals, Jobs, Calls, Answers, Good,
       Refused, None, Blank, Default, Posts, Synced, NoJob, NoCall, Transaction
  <1>2. JobOK'
    BY DEF JobOK, CallOK, Stage, Working
  <1>3. Stage'
    BY DEF JobOK, CallOK, Stage, Working
  <1>4. Kept'
    BY DEF JobOK, CallOK, Stage, Kept, Working, Undone, AsBefore, Before
  <1>5. CallOK'
    BY DEF JobOK, Stage, CallOK, Kept, Working, Waiting, HeldBefore, Undone, AsBefore, Before
  <1>6. Accepted'
    BY DEF JobOK, Stage, CallOK, Kept, Accepted, Working, Waiting, Undone, AsBefore, Before
  <1>7. Denied'
    BY DEF JobOK, Stage, CallOK, Kept, Denied, Working, Waiting, Undone, AsBefore, Before,
         HeldBefore
  <1> QED BY <1>1, <1>2, <1>3, <1>4, <1>5, <1>6, <1>7 DEF StoreInv

LEMMA InitStore == Init => StoreInv
  <1> SUFFICES ASSUME Init PROVE StoreInv
    OBVIOUS
  <1>1. PICK held \in {None, Default} :
          /\ prefs = Synced(held) /\ live = held
          /\ deal = IF held = None THEN Transaction(Default, Blank, TRUE)
                    ELSE Transaction(held, held, FALSE)
    BY DEF Init
  <1>2. job = NoJob /\ call = NoCall /\ answer = NoAnswer /\ ~botched /\ botched \in BOOLEAN
    BY DEF Init
  <1>3. Shape
    <2>1. prefs \in Prefs /\ live \in Values
      BY <1>1, Members DEF Synced, Prefs
    <2>2. \A d, c \in Values, p \in BOOLEAN : Transaction(d, c, p) \in Deals
      BY Members DEF Transaction, Deals
    <2>3. NoJob \in Jobs /\ NoAnswer \in Answers
      BY Members DEF NoJob, Jobs, NoAnswer, Answers
    <2> QED BY <1>1, <1>2, <2>1, <2>2, <2>3, NoCallTyped, Members DEF Shape
  <1> USE <1>1, <1>2 DEF Transaction, NoJob, NoCall, NoAnswer, Synced, Good, Refused, None, Blank,
           Default, Posts, Working, Waiting
  <1>4. JobOK /\ Stage
    BY DEF JobOK, Stage
  <1>5. Kept
    BY DEF Kept, Undone, AsBefore, Before
  <1>6. CallOK /\ Accepted /\ Denied
    BY DEF CallOK, Accepted, Denied
  <1> QED BY <1>3, <1>4, <1>5, <1>6 DEF StoreInv

LEMMA StoreNext == StoreInv /\ [Next]_vars => StoreInv'
  <1> SUFFICES ASSUME StoreInv, [Next]_vars PROVE StoreInv'
    OBVIOUS
  <1>1. CASE LoopStep
    BY <1>1, ClaimKeeps, PreflightKeeps, RetryKeeps, ClaimWriteKeeps, WriteKeeps,
         JudgeKeeps, CommitKeeps, ApplyKeeps, FinishKeeps, SignalKeeps, IntervalSyncKeeps
         DEF LoopStep
  <1>2. CASE HttpStep
    BY <1>2, BeginKeeps, DrainKeeps, QueueKeeps, WaitEndsKeeps, LateKeeps, CallOffKeeps,
         GraceEndsKeeps, LastLookKeeps, PhaseLookKeeps, WriteLookKeeps, WakeKeeps DEF
         HttpStep
  <1>3. CASE PowerCut
    BY <1>3, PowerCutKeeps
  <1>4. CASE UNCHANGED vars
    BY <1>4 DEF vars, StoreInv, Shape, JobOK, Stage, Kept, CallOK, Accepted, Denied,
         Working, Waiting, Undone, AsBefore, HeldBefore
  <1> QED BY <1>1, <1>2, <1>3, <1>4 DEF Next

LEMMA StoreAnswers == StoreInv => StoredAsAnswered
  BY DEF StoreInv, Accepted, Denied, StoredAsAnswered

-----------------------------------------------------------------------------
(***************************************************************************)
(* Part 2: the login                                                       *)
(***************************************************************************)
Acts   == {"none", "changed", "off"}
Wiping == {"none", "api", "wifi"}
Stages == {"free", "sent", "accepted", "requested", "unknown"}
Typed  == {"", "right", "wrong"}

Seen   == [ boot : Nat, on : BOOLEAN ]
Filled == [ current : Typed, fresh : BOOLEAN ]
Doors  == [ boot : Nat, on : BOOLEAN, did : Acts, job : Wiping, error : BOOLEAN, wiped : Nat ]
Sheets == [ open : BOOLEAN, status : Seen, form : Filled, busy : BOOLEAN, doing : Acts, said : Acts,
            timer : BOOLEAN ]
Knocks == [ act : Acts, boot : Nat, current : Typed ]
Wipes  == [ act : Wiping, stage : Stages, boot : Nat ]
Peeked == [ open : BOOLEAN, status : Seen ]
Peeks  == [ Login!Lookers -> Peeked ]

LoginShape ==
  door \in Doors /\ sheet \in Sheets /\ knock \in Knocks /\ wipe \in Wipes /\ peeks \in Peeks

(* A reset that the device may have begun keeps the buttons blocked.       *)
Taken == wipe.stage \in {"accepted", "requested", "unknown"}

(* The device wipes once: while it is at it and after, no second reset can *)
(* be asked for.                                                           *)
WipedOnce ==
  /\ door.wiped \in {0, 1}
  /\ door.wiped = 1 => door.job = "none" /\ ~door.error /\ Taken
  /\ door.job # "none" => door.wiped = 0 /\ ~door.error /\ Taken

(* A change is under way as a post or as the look that follows it, and the *)
(* page is busy with it; what it said is what the device did.              *)
SaidAsDone ==
  /\ sheet.said # "none" => sheet.said = door.did /\ knock = Login!NoKnock
  /\ knock # Login!NoKnock => sheet.busy /\ sheet.doing = knock.act /\ ~peeks["settling"].open
  /\ peeks["settling"].open => sheet.busy /\ sheet.doing = door.did /\ knock = Login!NoKnock

LoginInv == LoginShape /\ WipedOnce /\ SaidAsDone

LEMMA LoginMembers ==
  /\ \A a \in {"none", "changed", "off"} : a \in Acts
  /\ \A w \in {"none", "api", "wifi"} : w \in Wiping
  /\ \A s \in {"free", "sent", "accepted", "requested", "unknown"} : s \in Stages
  /\ \A t \in {"", "right", "wrong"} : t \in Typed
  /\ Login!Empty \in Filled /\ Login!NoKnock \in Knocks /\ Login!NoWipe \in Wipes
  /\ Login!NoPeek \in Peeked /\ Login!Unseen \in Seen
  BY DEF Acts, Wiping, Stages, Typed, Login!Empty, Login!NoKnock, Login!NoWipe, Login!NoPeek,
       Login!Unseen,
         Filled, Knocks, Wipes, Peeked, Seen

LEMMA LoginTimerFires == LoginInv /\ Login!TimerFires => LoginInv'
  <1> SUFFICES ASSUME LoginInv, Login!TimerFires PROVE LoginInv'
    OBVIOUS
  <1> USE LoginMembers DEF LoginInv, LoginShape, Login!TimerFires, Login!Look, Login!Status
  <1>1. LoginShape'
    <2>1. door' \in Doors
      BY DEF Doors, Knocks, Wipes
    <2>2. sheet' \in Sheets
      BY DEF Sheets, Seen, Peeks, Peeked, Doors
    <2>3. knock' \in Knocks
      BY DEF Knocks, Sheets, Seen, Filled
    <2>4. wipe' \in Wipes
      BY DEF Wipes, Sheets, Seen
    <2>5. peeks' \in Peeks
      BY DEF Peeks, Peeked, Seen, Doors
    <2> QED BY <2>1, <2>2, <2>3, <2>4, <2>5
  <1>2. WipedOnce'
    BY DEF Doors, Sheets, Wipes, WipedOnce, Taken
  <1>3. SaidAsDone'
    BY DEF Doors, Sheets, Knocks, Peeks, Peeked, SaidAsDone, Login!Lookers
  <1> QED BY <1>1, <1>2, <1>3

LEMMA LoginOpen == LoginInv /\ Login!Open => LoginInv'
  <1> SUFFICES ASSUME LoginInv, Login!Open PROVE LoginInv'
    OBVIOUS
  <1> USE LoginMembers DEF LoginInv, LoginShape, Login!Open, Login!Look, Login!Status, Login!Empty
  <1>1. LoginShape'
    <2>1. door' \in Doors
      BY DEF Doors, Knocks, Wipes
    <2>2. sheet' \in Sheets
      BY DEF Sheets, Seen, Peeks, Peeked, Doors
    <2>3. knock' \in Knocks
      BY DEF Knocks, Sheets, Seen, Filled
    <2>4. wipe' \in Wipes
      BY DEF Wipes, Sheets, Seen
    <2>5. peeks' \in Peeks
      BY DEF Peeks, Peeked, Seen, Doors
    <2> QED BY <2>1, <2>2, <2>3, <2>4, <2>5
  <1>2. WipedOnce'
    BY DEF Doors, Sheets, Wipes, WipedOnce, Taken
  <1>3. SaidAsDone'
    BY DEF Doors, Sheets, Knocks, Peeks, Peeked, SaidAsDone, Login!Lookers
  <1> QED BY <1>1, <1>2, <1>3

LEMMA LoginClose == LoginInv /\ Login!Close => LoginInv'
  <1> SUFFICES ASSUME LoginInv, Login!Close PROVE LoginInv'
    OBVIOUS
  <1> USE LoginMembers DEF LoginInv, LoginShape, Login!Close, Login!Empty
  <1>1. LoginShape'
    <2>1. door' \in Doors
      BY DEF Doors, Knocks, Wipes
    <2>2. sheet' \in Sheets
      BY DEF Sheets, Seen, Peeks, Peeked, Doors
    <2>3. knock' \in Knocks
      BY DEF Knocks, Sheets, Seen, Filled
    <2>4. wipe' \in Wipes
      BY DEF Wipes, Sheets, Seen
    <2>5. peeks' \in Peeks
      BY DEF Peeks, Peeked, Seen, Doors
    <2> QED BY <2>1, <2>2, <2>3, <2>4, <2>5
  <1>2. WipedOnce'
    BY DEF Doors, Sheets, Wipes, WipedOnce, Taken
  <1>3. SaidAsDone'
    BY DEF Doors, Sheets, Knocks, Peeks, Peeked, SaidAsDone, Login!Lookers
  <1> QED BY <1>1, <1>2, <1>3

LEMMA LoginFill == LoginInv /\ Login!Fill => LoginInv'
  <1> SUFFICES ASSUME LoginInv, Login!Fill PROVE LoginInv'
    OBVIOUS
  <1>1. PICK c \in {"right", "wrong"}, n \in BOOLEAN :
          sheet' = [sheet EXCEPT !.form = [ current |-> c, fresh |-> n ]]
    BY DEF Login!Fill
  <1>2. [ current |-> c, fresh |-> n ] \in Filled
    BY LoginMembers DEF Filled
  <1>3. sheet' \in Sheets
    BY <1>1, <1>2 DEF LoginInv, LoginShape, Sheets
  <1>4. /\ UNCHANGED <<door, peeks, knock, wipe>>
        /\ sheet'.said = sheet.said /\ sheet'.busy = sheet.busy /\ sheet'.doing = sheet.doing
    BY <1>1 DEF Login!Fill, LoginInv, LoginShape, Sheets
  <1> QED BY <1>3, <1>4 DEF LoginInv, LoginShape, WipedOnce, SaidAsDone, Taken

LEMMA LoginPostEnds == LoginInv /\ Login!PostEnds => LoginInv'
  <1> SUFFICES ASSUME LoginInv, Login!PostEnds PROVE LoginInv'
    OBVIOUS
  <1>1. PICK taken \in BOOLEAN, ok \in BOOLEAN :
          /\ ok => taken
          /\ door' = IF taken THEN [door EXCEPT !.on = (knock.act = "changed"), !.did = knock.act]
                     ELSE [door EXCEPT !.did = "none"]
          /\ IF ok THEN Login!Look("settling", door') /\ UNCHANGED sheet
             ELSE sheet' = [sheet EXCEPT !.busy = FALSE, !.doing = "none"] /\ UNCHANGED peeks
    BY DEF Login!PostEnds, Login!Done
  <1>2. /\ knock # Login!NoKnock /\ knock' = Login!NoKnock /\ wipe' = wipe
        /\ sheet.said = "none" /\ sheet.busy /\ sheet.doing = knock.act /\ ~peeks["settling"].open
    BY DEF Login!PostEnds, LoginInv, SaidAsDone
  <1>3. /\ door' \in Doors /\ door'.wiped = door.wiped /\ door'.job = door.job
        /\ door'.error = door.error /\ (taken => door'.did = knock.act)
    <2>1. knock.act \in Acts /\ (knock.act = "changed") \in BOOLEAN /\ door \in Doors
      BY DEF LoginInv, LoginShape, Knocks
    <2>2. CASE taken
      <3>1. door' = [door EXCEPT !.on = (knock.act = "changed"), !.did = knock.act]
        BY <1>1, <2>2
      <3> QED BY <2>1, <3>1 DEF Doors
    <2>3. CASE ~taken
      <3>1. door' = [door EXCEPT !.did = "none"]
        BY <1>1, <2>3
      <3> QED BY <2>1, <2>3, <3>1, LoginMembers DEF Doors
    <2> QED BY <2>2, <2>3
  <1>4. WipedOnce'
    BY <1>2, <1>3 DEF LoginInv, WipedOnce, Taken
  <1>5. CASE ok
    <2>1. peeks' = [peeks EXCEPT !["settling"] = [ open |-> TRUE, status |-> Login!Status(door') ]]
      BY <1>1, <1>5 DEF Login!Look
    <2>2. Login!Status(door') \in Seen
      BY <1>3 DEF Login!Status, Seen, Doors
    <2>3. peeks' \in Peeks
      BY <2>1, <2>2 DEF LoginInv, LoginShape, Peeks, Peeked, Login!Lookers
    <2> QED BY <1>1, <1>2, <1>3, <1>4, <1>5, <2>3, LoginMembers DEF LoginInv, LoginShape, SaidAsDone
  <1>6. CASE ~ok
    <2>1. sheet' = [sheet EXCEPT !.busy = FALSE, !.doing = "none"] /\ peeks' = peeks
      BY <1>1, <1>6
    <2>2. sheet' \in Sheets /\ sheet'.said = "none"
      BY <1>2, <2>1, LoginMembers DEF LoginInv, LoginShape, Sheets
    <2> QED BY <1>2, <1>3, <1>4, <2>1, <2>2, LoginMembers DEF LoginInv, LoginShape, SaidAsDone
  <1> QED BY <1>5, <1>6

LEMMA LoginAskReset == LoginInv /\ Login!AskReset => LoginInv'
  <1> SUFFICES ASSUME LoginInv, Login!AskReset PROVE LoginInv'
    OBVIOUS
  <1>1. PICK r \in {"api", "wifi"} : wipe' = [ act |-> r, stage |-> "sent", boot |-> sheet.status.boot ]
    BY DEF Login!AskReset, Login!Resets
  <1>2. wipe' \in Wipes
    BY <1>1, LoginMembers DEF LoginInv, LoginShape, Wipes, Sheets, Seen
  <1>3. UNCHANGED <<door, sheet, peeks, knock>> /\ wipe.stage = "free"
    BY DEF Login!AskReset
  <1> QED BY <1>2, <1>3 DEF LoginInv, LoginShape, WipedOnce, SaidAsDone, Taken

LEMMA LoginResetAnswered == LoginInv /\ Login!ResetAnswered => LoginInv'
  <1> SUFFICES ASSUME LoginInv, Login!ResetAnswered PROVE LoginInv'
    OBVIOUS
  <1> USE LoginMembers DEF LoginInv, LoginShape, Login!ResetAnswered, Login!Unknown, Login!NoWipe
  <1>1. LoginShape'
    <2>1. door' \in Doors
      BY DEF Doors, Knocks, Wipes
    <2>2. sheet' \in Sheets
      BY DEF Sheets, Seen, Peeks, Peeked, Doors
    <2>3. knock' \in Knocks
      BY DEF Knocks, Sheets, Seen, Filled
    <2>4. wipe' \in Wipes
      BY DEF Wipes, Sheets, Seen
    <2>5. peeks' \in Peeks
      BY DEF Peeks, Peeked, Seen, Doors
    <2> QED BY <2>1, <2>2, <2>3, <2>4, <2>5
  <1>2. WipedOnce'
    BY DEF Doors, Sheets, Wipes, WipedOnce, Taken
  <1>3. SaidAsDone'
    BY DEF Doors, Sheets, Knocks, Peeks, Peeked, SaidAsDone, Login!Lookers
  <1> QED BY <1>1, <1>2, <1>3

LEMMA LoginLookBack == LoginInv /\ Login!LookBack => LoginInv'
  <1> SUFFICES ASSUME LoginInv, Login!LookBack PROVE LoginInv'
    OBVIOUS
  <1> USE LoginMembers DEF LoginInv, LoginShape, Login!LookBack, Login!Unknown, Login!NoWipe
  <1>1. LoginShape'
    <2>1. door' \in Doors
      BY DEF Doors, Knocks, Wipes
    <2>2. sheet' \in Sheets
      BY DEF Sheets, Seen, Peeks, Peeked, Doors
    <2>3. knock' \in Knocks
      BY DEF Knocks, Sheets, Seen, Filled
    <2>4. wipe' \in Wipes
      BY DEF Wipes, Sheets, Seen
    <2>5. peeks' \in Peeks
      BY DEF Peeks, Peeked, Seen, Doors
    <2> QED BY <2>1, <2>2, <2>3, <2>4, <2>5
  <1>2. WipedOnce'
    BY DEF Doors, Sheets, Wipes, WipedOnce, Taken
  <1>3. SaidAsDone'
    BY DEF Doors, Sheets, Knocks, Peeks, Peeked, SaidAsDone, Login!Lookers
  <1> QED BY <1>1, <1>2, <1>3

LEMMA LoginCarryOut == LoginInv /\ Login!CarryOut => LoginInv'
  <1> SUFFICES ASSUME LoginInv, Login!CarryOut PROVE LoginInv'
    OBVIOUS
  <1>1. /\ UNCHANGED <<sheet, peeks, knock, wipe>> /\ door \in Doors
        /\ door.wiped = 0 /\ ~door.error /\ Taken
    BY DEF Login!CarryOut, LoginInv, LoginShape, WipedOnce
  <1>2. /\ door' \in Doors /\ door'.did = door.did /\ door'.job = "none"
        /\ door'.wiped \in {0, 1} /\ (door'.wiped = 1 => ~door'.error)
    <2>1. CASE door' = [door EXCEPT !.job = "none", !.wiped = @ + 1, !.boot = @ + 1]
      <3>1. door.wiped + 1 = 1 /\ door.wiped + 1 \in Nat /\ door.boot + 1 \in Nat
        BY <1>1 DEF Doors
      <3>2. door' \in Doors
        BY <1>1, <2>1, <3>1, LoginMembers DEF Doors
      <3>3. door'.did = door.did /\ door'.job = "none" /\ door'.wiped = 1 /\ door'.error = door.error
        BY <1>1, <2>1, <3>1 DEF Doors
      <3> QED BY <1>1, <3>2, <3>3
    <2>2. CASE door' = [door EXCEPT !.job = "none", !.error = TRUE]
      <3>1. door' \in Doors
        BY <1>1, <2>2, LoginMembers DEF Doors
      <3>2. door'.did = door.did /\ door'.job = "none" /\ door'.wiped = 0
        BY <1>1, <2>2 DEF Doors
      <3> QED BY <3>1, <3>2
    <2> QED BY <2>1, <2>2 DEF Login!CarryOut
  <1> QED BY <1>1, <1>2 DEF LoginInv, LoginShape, WipedOnce, SaidAsDone, Taken

LEMMA LoginOutside == LoginInv /\ Login!Outside => LoginInv'
  <1> SUFFICES ASSUME LoginInv, Login!Outside PROVE LoginInv'
    OBVIOUS
  <1>1. UNCHANGED <<sheet, peeks, knock, wipe>> /\ door \in Doors
    BY DEF Login!Outside, LoginInv, LoginShape
  <1>2. /\ door' \in Doors /\ door'.did = door.did /\ door'.wiped = door.wiped
        /\ \/ door'.job = "none" /\ ~door'.error
           \/ door'.job = door.job /\ door'.error = door.error
    <2>1. CASE door' = [door EXCEPT !.boot = @ + 1, !.job = "none", !.error = FALSE]
      <3>1. door.boot + 1 \in Nat
        BY <1>1 DEF Doors
      <3> QED BY <1>1, <2>1, <3>1, LoginMembers DEF Doors
    <2>2. CASE door' = [door EXCEPT !.on = ~@]
      BY <1>1, <2>2 DEF Doors
    <2> QED BY <2>1, <2>2 DEF Login!Outside
  <1> QED BY <1>1, <1>2 DEF LoginInv, LoginShape, WipedOnce, SaidAsDone, Taken

LEMMA LoginPeekEnds == LoginInv /\ (\E r \in Login!Lookers : Login!PeekEnds(r)) => LoginInv'
  <1> SUFFICES ASSUME LoginInv, (\E r \in Login!Lookers : Login!PeekEnds(r)) PROVE LoginInv'
    OBVIOUS
  <1>1. PICK r \in Login!Lookers : Login!PeekEnds(r)
    OBVIOUS
  <1>2. PICK s \in {sheet, Login!Refreshed(sheet, peeks[r].status)} :
          sheet' = IF r = "settling" THEN Login!Settled(s) ELSE [s EXCEPT !.timer = s.open]
    BY <1>1 DEF Login!PeekEnds
  <1>3. /\ peeks[r].open /\ UNCHANGED <<door, knock, wipe>>
        /\ peeks' = [peeks EXCEPT ![r] = Login!NoPeek]
    BY <1>1 DEF Login!PeekEnds
  <1>4. /\ s \in Sheets /\ s.said = sheet.said /\ s.busy = sheet.busy /\ s.doing = sheet.doing
    <2>1. sheet \in Sheets /\ peeks[r].status \in Seen
      BY DEF LoginInv, LoginShape, Peeks, Peeked
    <2>2. CASE s = sheet
      BY <2>1, <2>2
    <2>3. CASE s = [sheet EXCEPT !.status = peeks[r].status, !.form = Login!Empty]
      BY <2>1, <2>3, LoginMembers DEF Sheets
    <2> QED BY <1>2, <2>2, <2>3 DEF Login!Refreshed
  <1>5. /\ peeks' \in Peeks /\ ~peeks'[r].open
        /\ \A q \in Login!Lookers : q # r => peeks'[q] = peeks[q]
    BY <1>3, LoginMembers DEF LoginInv, LoginShape, Peeks, Login!NoPeek
  <1>6. WipedOnce'
    BY <1>3 DEF LoginInv, WipedOnce, Taken
  <1>7. CASE r = "settling"
    <2>1. sheet' = [s EXCEPT !.form = Login!Empty, !.said = s.doing, !.doing = "none", !.busy = FALSE]
      BY <1>2, <1>7 DEF Login!Settled
    <2>2. s.doing \in Acts
      BY <1>4 DEF Sheets
    <2>3. sheet' \in Sheets /\ sheet'.said = sheet.doing
      BY <1>4, <2>1, <2>2, LoginMembers DEF Sheets
    <2> QED BY <1>3, <1>5, <1>6, <1>7, <2>3 DEF LoginInv, LoginShape, SaidAsDone
  <1>8. CASE r # "settling"
    <2>1. sheet' = [s EXCEPT !.timer = s.open]
      BY <1>2, <1>8
    <2>2. s.open \in BOOLEAN
      BY <1>4 DEF Sheets
    <2>3. /\ sheet' \in Sheets
          /\ sheet'.said = sheet.said /\ sheet'.busy = sheet.busy /\ sheet'.doing = sheet.doing
      BY <1>4, <2>1, <2>2 DEF Sheets
    <2>4. peeks'["settling"] = peeks["settling"]
      BY <1>5, <1>8 DEF Login!Lookers
    <2> QED BY <1>3, <1>5, <1>6, <2>3, <2>4 DEF LoginInv, LoginShape, SaidAsDone
  <1> QED BY <1>7, <1>8

LEMMA LoginPosts == LoginInv /\ (\E act \in {"changed", "off"} : Login!Post(act)) => LoginInv'
  <1> SUFFICES ASSUME LoginInv, (\E act \in {"changed", "off"} : Login!Post(act)) PROVE LoginInv'
    OBVIOUS
  <1>1. PICK act \in {"changed", "off"} : Login!Post(act)
    OBVIOUS
  <1>2. /\ ~sheet.busy /\ UNCHANGED <<door, peeks, wipe>>
        /\ sheet' = [sheet EXCEPT !.busy = TRUE, !.doing = act, !.said = "none"]
        /\ knock' = [ act |-> act, boot |-> sheet.status.boot, current |-> sheet.form.current ]
    BY <1>1 DEF Login!Post
  <1>3. /\ sheet' \in Sheets /\ sheet'.busy /\ sheet'.doing = act /\ sheet'.said = "none"
    BY <1>2, LoginMembers DEF LoginInv, LoginShape, Sheets
  <1>4. sheet.status.boot \in Nat /\ sheet.form.current \in Typed
    BY DEF LoginInv, LoginShape, Sheets, Seen, Filled
  <1>5. knock' \in Knocks /\ knock'.act = act
    BY <1>2, <1>4, LoginMembers DEF Knocks
  <1>6. ~peeks["settling"].open
    BY <1>2 DEF LoginInv, SaidAsDone
  <1> QED BY <1>2, <1>3, <1>5, <1>6 DEF LoginInv, LoginShape, WipedOnce, SaidAsDone, Taken

LEMMA LoginStarts == Login!Init => LoginInv
  <1> SUFFICES ASSUME Login!Init PROVE LoginInv
    OBVIOUS
  <1>1. door \in Doors /\ door.wiped = 0 /\ door.job = "none"
    BY LoginMembers DEF Login!Init, Doors
  <1>2. sheet \in Sheets /\ sheet.said = "none"
    BY LoginMembers DEF Login!Init, Sheets
  <1>3. peeks \in Peeks /\ ~peeks["settling"].open
    BY LoginMembers DEF Login!Init, Peeks, Login!Lookers, Login!NoPeek
  <1>4. knock = Login!NoKnock /\ wipe = Login!NoWipe
    BY DEF Login!Init
  <1>5. LoginShape
    BY <1>1, <1>2, <1>3, <1>4, LoginMembers DEF LoginShape
  <1> QED BY <1>1, <1>2, <1>3, <1>4, <1>5 DEF LoginInv, WipedOnce, SaidAsDone

LEMMA LoginNext == LoginInv /\ [Login!Next]_loginVars => LoginInv'
  <1> SUFFICES ASSUME LoginInv, [Login!Next]_loginVars PROVE LoginInv'
    OBVIOUS
  <1>1. CASE Login!Next
    BY <1>1, LoginTimerFires, LoginOpen, LoginClose, LoginFill, LoginPostEnds,
         LoginAskReset, LoginResetAnswered, LoginLookBack, LoginCarryOut, LoginOutside,
         LoginPeekEnds, LoginPosts DEF Login!Next
  <1>2. CASE UNCHANGED loginVars
    BY <1>2 DEF loginVars, LoginInv, LoginShape, WipedOnce, SaidAsDone, Taken
  <1> QED BY <1>1, <1>2

LEMMA LoginFaith == LoginInv => Login!AccessAsAsked
  BY DEF LoginInv, WipedOnce, SaidAsDone, Login!AccessAsAsked

-----------------------------------------------------------------------------
(***************************************************************************)
(* Part 3: the MQTT dialogs                                                *)
(***************************************************************************)
Names    == {"", "mine", "other"}
Keys     == {"", "old", "new"}
Dialogs  == {"none", "settings", "sensors"}

Drafts   == [ on : BOOLEAN, name : Names, secret : Keys, clear : BOOLEAN ]
Reports  == [ boot : Nat, on : BOOLEAN, name : Names, secret : BOOLEAN, input : BOOLEAN ]
Devices  == [ boot : Nat, on : BOOLEAN, name : Names, secret : Keys, input : BOOLEAN ]
Forms    == [ dialog : Dialogs, status : Reports, draft : Drafts, dirty : BOOLEAN, busy : BOOLEAN,
              setting : BOOLEAN, saved : BOOLEAN ]
Question == [ open : BOOLEAN, status : Reports ]
Asks     == [ Mqtt!Readers -> Question ]
Savings  == [ boot : Nat, draft : Drafts ]
Flips    == [ open : BOOLEAN, boot : Nat, want : BOOLEAN ]
Intents  == [ typed : Drafts, asked : BOOLEAN, stored : BOOLEAN, lie : BOOLEAN, lost : BOOLEAN ]

MqttShape ==
  /\ broker \in Devices /\ flip \in Flips /\ form \in Forms /\ asks \in Asks /\ saving \in Savings
  /\ intent \in Intents /\ pane \in {"settings", "sensors"}

(* What the user typed is in the draft, and marked so that no status       *)
(* answer overwrites it.                                                   *)
Unsaved ==
  form.dialog = "settings" /\ intent.typed # Mqtt!NoDraft => form.dirty /\ form.draft = intent.typed

(* A save posts first and reads the status after, once it is stored; the   *)
(* dialog is busy all the while.                                           *)
InOrder ==
  /\ saving # Mqtt!NoPost => form.busy /\ ~asks["saving"].open
  /\ asks["saving"].open => /\ form.busy /\ saving = Mqtt!NoPost
                            /\ intent.stored /\ intent.typed = Mqtt!NoDraft

(* A password is only removed when the user asked for it.                  *)
ClearAsked ==
  /\ form.draft.clear => intent.asked
  /\ saving # Mqtt!NoPost /\ saving.draft.clear => intent.asked
  /\ pane = "sensors" => ~form.draft.clear /\ form.dialog # "settings"

MqttInv == MqttShape /\ Unsaved /\ InOrder /\ ClearAsked /\ ~intent.lie /\ ~intent.lost

LEMMA MqttMembers ==
  /\ \A n \in {"", "mine", "other"} : n \in Names
  /\ \A k \in {"", "old", "new"} : k \in Keys
  /\ \A d \in {"none", "settings", "sensors"} : d \in Dialogs
  /\ Mqtt!Unread \in Reports /\ Mqtt!NoDraft \in Drafts /\ Mqtt!NoGet \in Question
  /\ Mqtt!NoPost \in Savings /\ Mqtt!NoSwitch \in Flips
  /\ ~Mqtt!NoDraft.clear
  BY DEF Names, Keys, Dialogs, Mqtt!Unread, Mqtt!NoDraft, Mqtt!NoGet, Mqtt!NoPost, Mqtt!NoSwitch,
         Reports, Drafts, Question, Savings, Flips

LEMMA DraftOfReport ==
  ASSUME NEW s \in Reports
  PROVE  Mqtt!DraftOf(s) \in Drafts /\ ~Mqtt!DraftOf(s).clear
  BY MqttMembers DEF Reports, Drafts, Mqtt!DraftOf

(* A request has its answer from the device as it is.                      *)
LEMMA AskTyped ==
  ASSUME asks \in Asks, NEW r \in Mqtt!Readers, NEW b \in Devices, Mqtt!Ask(r, b)
  PROVE  /\ asks' \in Asks /\ asks'[r].open
         /\ \A q \in Mqtt!Readers : q # r => asks'[q] = asks[q]
  <1>1. (b.secret # "") \in BOOLEAN
    OBVIOUS
  <1>2. Mqtt!Status(b) \in Reports
    BY <1>1 DEF Mqtt!Status, Devices, Reports
  <1> QED BY <1>2 DEF Mqtt!Ask, Asks, Question

LEMMA RefreshTyped ==
  ASSUME form \in Forms, NEW s \in Reports
  PROVE  LET f == Mqtt!Refreshed(form, s)
         IN /\ f \in Forms /\ f.dialog = form.dialog /\ f.busy = form.busy
            /\ \/ f.draft = form.draft /\ f.dirty = form.dirty
               \/ ~(form.dialog = "settings" /\ form.dirty) /\ ~f.draft.clear
  <1>1. CASE s = form.status
    BY <1>1 DEF Mqtt!Refreshed, Forms
  <1>2. CASE s # form.status /\ Mqtt!Protected(form)
    BY <1>2 DEF Mqtt!Refreshed, Forms
  <1>3. CASE s # form.status /\ ~Mqtt!Protected(form)
    <2>1. Mqtt!Refreshed(form, s)
            = [form EXCEPT !.status = s, !.saved = FALSE, !.draft = Mqtt!DraftOf(s), !.dirty = FALSE]
      BY <1>3 DEF Mqtt!Refreshed, Forms
    <2> QED BY <1>3, <2>1, DraftOfReport DEF Forms, Mqtt!Protected
  <1> QED BY <1>1, <1>2, <1>3

LEMMA MqttOpens == MqttInv /\ Mqtt!Open /\ UNCHANGED pane => MqttInv'
  <1> SUFFICES ASSUME MqttInv, Mqtt!Open /\ UNCHANGED pane PROVE MqttInv'
    OBVIOUS
  <1> USE DEF MqttInv, MqttShape
  <1>1. /\ UNCHANGED <<broker, saving, flip, pane>> /\ form.dialog = "none"
        /\ asks' \in Asks /\ asks'["saving"] = asks["saving"]
    BY AskTyped DEF Mqtt!Open, Mqtt!Readers
  <1>2. /\ intent' \in Intents /\ intent'.typed = Mqtt!NoDraft /\ intent'.stored = intent.stored
        /\ intent'.lie = intent.lie /\ intent'.lost = intent.lost
        /\ intent'.asked = (intent.asked /\ saving # Mqtt!NoPost)
    BY MqttMembers DEF Mqtt!Open, Intents
  <1>3. /\ form' \in Forms /\ form'.busy = form.busy /\ form'.dialog = pane
        /\ ~form'.draft.clear
    <2>1. form \in Forms /\ form.status \in Reports
      BY DEF Forms
    <2>2. CASE pane = "settings"
      <3>1. form' = [form EXCEPT !.dialog = pane, !.draft = Mqtt!DraftOf(form.status), !.dirty = FALSE,
                                 !.saved = FALSE]
        BY <2>2 DEF Mqtt!Open
      <3> QED BY <2>1, <2>2, <3>1, DraftOfReport, MqttMembers DEF Forms
    <2>3. CASE pane # "settings"
      <3>1. form' = [form EXCEPT !.dialog = pane, !.saved = FALSE, !.setting = FALSE]
        BY <2>3 DEF Mqtt!Open
      <3>2. pane = "sensors" /\ ~form.draft.clear
        BY <2>3 DEF ClearAsked
      <3> QED BY <2>1, <3>1, <3>2, MqttMembers DEF Forms
    <2> QED BY <2>2, <2>3
  <1>4. Unsaved' /\ InOrder'
    BY <1>1, <1>2, <1>3 DEF Unsaved, InOrder
  <1>5. ClearAsked'
    BY <1>1, <1>2, <1>3 DEF ClearAsked
  <1> QED BY <1>1, <1>2, <1>3, <1>4, <1>5

LEMMA MqttPolls == MqttInv /\ Mqtt!Poll /\ UNCHANGED pane => MqttInv'
  <1> SUFFICES ASSUME MqttInv, Mqtt!Poll /\ UNCHANGED pane PROVE MqttInv'
    OBVIOUS
  <1> USE DEF MqttInv, MqttShape
  <1>1. /\ UNCHANGED <<broker, form, saving, flip, intent, pane>>
        /\ asks' \in Asks /\ asks'["saving"] = asks["saving"]
    BY AskTyped DEF Mqtt!Poll, Mqtt!Readers
  <1> QED BY <1>1 DEF Unsaved, InOrder, ClearAsked

LEMMA MqttCloses == MqttInv /\ Mqtt!Close /\ UNCHANGED pane => MqttInv'
  <1> SUFFICES ASSUME MqttInv, Mqtt!Close /\ UNCHANGED pane PROVE MqttInv'
    OBVIOUS
  <1> USE DEF MqttInv, MqttShape
  <1>1. /\ UNCHANGED <<broker, asks, saving, flip, intent, pane>>
        /\ form' = [form EXCEPT !.dialog = "none"]
    BY DEF Mqtt!Close
  <1>2. /\ form' \in Forms /\ form'.dialog = "none" /\ form'.busy = form.busy
        /\ form'.draft = form.draft
    BY <1>1, MqttMembers DEF Forms
  <1> QED BY <1>1, <1>2 DEF Unsaved, InOrder, ClearAsked

LEMMA MqttEdits == MqttInv /\ Mqtt!Edit /\ UNCHANGED pane => MqttInv'
  <1> SUFFICES ASSUME MqttInv, Mqtt!Edit /\ UNCHANGED pane PROVE MqttInv'
    OBVIOUS
  <1> USE DEF MqttInv, MqttShape
  <1>1. PICK d \in Mqtt!Edits(form.draft) :
          /\ form' = [form EXCEPT !.draft = d, !.dirty = TRUE, !.saved = FALSE]
          /\ intent' = [intent EXCEPT !.typed = d, !.asked = d.clear]
    BY DEF Mqtt!Edit
  <1>2. UNCHANGED <<broker, asks, saving, flip, pane>> /\ form.dialog = "settings" /\ ~form.busy
    BY DEF Mqtt!Edit
  <1>3. d \in Drafts
    <2>1. form.draft \in Drafts
      BY DEF Forms
    <2>2. CASE d = [form.draft EXCEPT !.on = ~@]
      BY <2>1, <2>2 DEF Drafts
    <2>3. CASE d = [form.draft EXCEPT !.clear = ~@, !.secret = ""]
      BY <2>1, <2>3, MqttMembers DEF Drafts
    <2>4. CASE \E b \in Mqtt!Brokers : d = [form.draft EXCEPT !.name = b]
      <3>1. PICK b \in Mqtt!Brokers : d = [form.draft EXCEPT !.name = b]
        BY <2>4
      <3>2. b \in Names
        BY MqttMembers DEF Mqtt!Brokers
      <3> QED BY <2>1, <3>1, <3>2 DEF Drafts
    <2>5. CASE \E k \in {"", "new"} : d = [form.draft EXCEPT !.secret = k]
      BY <2>1, <2>5, MqttMembers DEF Drafts
    <2> QED BY <1>1, <2>2, <2>3, <2>4, <2>5 DEF Mqtt!Edits
  <1>4. d.clear \in BOOLEAN
    BY <1>3 DEF Drafts
  <1>5. /\ form' \in Forms /\ form'.draft = d /\ form'.dirty /\ form'.dialog = "settings" /\ ~form'.busy
    BY <1>1, <1>2, <1>3 DEF Forms
  <1>6. /\ intent' \in Intents /\ intent'.typed = d /\ intent'.asked = d.clear
        /\ intent'.stored = intent.stored /\ intent'.lie = intent.lie /\ intent'.lost = intent.lost
    BY <1>1, <1>3, <1>4 DEF Intents
  <1> QED BY <1>2, <1>5, <1>6 DEF Unsaved, InOrder, ClearAsked

LEMMA MqttSaves == MqttInv /\ Mqtt!Save /\ UNCHANGED pane => MqttInv'
  <1> SUFFICES ASSUME MqttInv, Mqtt!Save /\ UNCHANGED pane PROVE MqttInv'
    OBVIOUS
  <1> USE DEF MqttInv, MqttShape
  <1>1. /\ UNCHANGED <<broker, asks, flip, pane>> /\ ~form.busy
        /\ form' = [form EXCEPT !.busy = TRUE, !.saved = FALSE]
        /\ saving' = [ boot |-> form.status.boot, draft |-> form.draft ]
        /\ intent' = [intent EXCEPT !.stored = FALSE]
    BY DEF Mqtt!Save
  <1>2. /\ form' \in Forms /\ form'.busy /\ form'.draft = form.draft /\ form'.dialog = form.dialog
        /\ form'.dirty = form.dirty
    BY <1>1 DEF Forms
  <1>3. saving' \in Savings /\ saving'.draft = form.draft
    BY <1>1 DEF Forms, Savings, Reports
  <1>4. /\ intent' \in Intents /\ intent'.typed = intent.typed /\ intent'.asked = intent.asked
        /\ intent'.lie = intent.lie /\ intent'.lost = intent.lost
    BY <1>1 DEF Intents
  <1>5. ~asks["saving"].open
    BY <1>1 DEF InOrder
  <1> QED BY <1>1, <1>2, <1>3, <1>4, <1>5 DEF Unsaved, InOrder, ClearAsked

LEMMA MqttSaveEnds == MqttInv /\ Mqtt!SaveEnds /\ UNCHANGED pane => MqttInv'
  <1> SUFFICES ASSUME MqttInv, Mqtt!SaveEnds /\ UNCHANGED pane PROVE MqttInv'
    OBVIOUS
  <1> USE DEF MqttInv, MqttShape
  <1>1. PICK taken \in BOOLEAN, ok \in BOOLEAN :
          /\ ok => taken
          /\ broker' = IF ~taken THEN broker
                       ELSE [broker EXCEPT !.on = saving.draft.on, !.name = saving.draft.name,
                                           !.secret = Mqtt!SecretAfter(saving.draft)]
          /\ IF ok THEN form' = [form EXCEPT !.dirty = FALSE] /\ Mqtt!Ask("saving", broker')
             ELSE form' = [form EXCEPT !.busy = FALSE] /\ UNCHANGED asks
          /\ intent' = [intent EXCEPT !.stored = taken,
                           !.typed = IF ok THEN Mqtt!NoDraft ELSE @,
                           !.lost = @ \/ (/\ broker.secret # "" /\ broker'.secret = ""
                                          /\ ~intent.asked /\ ~Mqtt!Removal(saving.draft))]
    BY DEF Mqtt!SaveEnds, Mqtt!Accepted
  <1>2. /\ saving # Mqtt!NoPost /\ saving' = Mqtt!NoPost /\ UNCHANGED <<flip, pane>>
        /\ form.busy /\ ~asks["saving"].open /\ (saving.draft.clear => intent.asked)
    BY DEF Mqtt!SaveEnds, InOrder, ClearAsked
  <1>3. saving.draft \in Drafts
    BY DEF Savings
  <1>4. /\ broker' \in Devices
        /\ ~(broker.secret # "" /\ broker'.secret = "" /\ ~intent.asked /\ ~Mqtt!Removal(saving.draft))
    <2> DEFINE kept == Mqtt!SecretAfter(saving.draft)
    <2>1. kept \in Keys /\ (broker.secret # "" /\ kept = "" => Mqtt!Removal(saving.draft) \/ saving.draft.clear)
      BY <1>3, MqttMembers DEF Mqtt!SecretAfter, Devices, Drafts
    <2> HIDE DEF kept
    <2>2. CASE ~taken
      BY <1>1, <2>2
    <2>3. CASE taken
      <3>1. broker' = [broker EXCEPT !.on = saving.draft.on, !.name = saving.draft.name, !.secret = kept]
        BY <1>1, <2>3 DEF kept
      <3>2. broker' \in Devices /\ broker'.secret = kept
        BY <1>3, <2>1, <3>1 DEF Devices, Drafts
      <3> QED BY <1>2, <2>1, <3>2
    <2> QED BY <2>2, <2>3
  <1>5. /\ intent' \in Intents /\ intent'.stored = taken /\ intent'.asked = intent.asked
        /\ intent'.lie = intent.lie /\ ~intent'.lost
        /\ intent'.typed = IF ok THEN Mqtt!NoDraft ELSE intent.typed
    <2> DEFINE typed == IF ok THEN Mqtt!NoDraft ELSE intent.typed
               lost  == intent.lost \/ (/\ broker.secret # "" /\ broker'.secret = ""
                                        /\ ~intent.asked /\ ~Mqtt!Removal(saving.draft))
    <2>1. typed \in Drafts
      BY MqttMembers DEF Intents
    <2>2. lost = FALSE
      BY <1>4
    <2>3. intent' = [intent EXCEPT !.stored = taken, !.typed = typed, !.lost = lost]
      BY <1>1
    <2> HIDE DEF typed, lost
    <2>4. /\ intent' \in Intents /\ intent'.stored = taken /\ intent'.asked = intent.asked
          /\ intent'.lie = intent.lie /\ ~intent'.lost /\ intent'.typed = typed
      BY <2>1, <2>2, <2>3 DEF Intents
    <2> QED BY <2>4 DEF typed
  <1>6. CASE ok
    <2>1. /\ form' \in Forms /\ form'.busy = form.busy /\ form'.draft = form.draft
          /\ form'.dialog = form.dialog
      BY <1>1, <1>6 DEF Forms
    <2>2. asks' \in Asks /\ asks'["saving"].open
      BY <1>1, <1>4, <1>6, AskTyped DEF Mqtt!Readers
    <2> QED BY <1>1, <1>2, <1>4, <1>5, <1>6, <2>1, <2>2, MqttMembers DEF Unsaved, InOrder,
         ClearAsked
  <1>7. CASE ~ok
    <2>1. /\ form' \in Forms /\ form'.draft = form.draft /\ form'.dialog = form.dialog
          /\ form'.dirty = form.dirty /\ asks' = asks
      BY <1>1, <1>7 DEF Forms
    <2> QED BY <1>2, <1>4, <1>5, <1>7, <2>1, MqttMembers DEF Unsaved, InOrder, ClearAsked
  <1> QED BY <1>6, <1>7

LEMMA MqttFlips == MqttInv /\ Mqtt!Flip /\ UNCHANGED pane => MqttInv'
  <1> SUFFICES ASSUME MqttInv, Mqtt!Flip /\ UNCHANGED pane PROVE MqttInv'
    OBVIOUS
  <1> USE DEF MqttInv, MqttShape
  <1>1. /\ UNCHANGED <<broker, asks, saving, intent, pane>>
        /\ flip' = [ open |-> TRUE, boot |-> form.status.boot, want |-> ~form.status.input ]
        /\ form' = [form EXCEPT !.setting = TRUE, !.saved = FALSE]
    BY DEF Mqtt!Flip
  <1>2. flip' \in Flips
    BY <1>1 DEF Flips, Forms, Reports
  <1>3. /\ form' \in Forms /\ form'.busy = form.busy /\ form'.draft = form.draft
        /\ form'.dialog = form.dialog /\ form'.dirty = form.dirty
    BY <1>1 DEF Forms
  <1> QED BY <1>1, <1>2, <1>3 DEF Unsaved, InOrder, ClearAsked

LEMMA MqttFlipEnds == MqttInv /\ Mqtt!FlipHandled /\ UNCHANGED pane => MqttInv'
  <1> SUFFICES ASSUME MqttInv, Mqtt!FlipHandled /\ UNCHANGED pane PROVE MqttInv'
    OBVIOUS
  <1> USE DEF MqttInv, MqttShape
  <1>1. UNCHANGED <<saving, intent, pane>> /\ flip' \in Flips
    BY MqttMembers DEF Mqtt!FlipHandled
  <1>2. CASE broker' = [broker EXCEPT !.input = flip.want] /\ Mqtt!Ask("switching", broker') /\ UNCHANGED form
    <2>1. broker' \in Devices
      BY <1>2 DEF Devices, Flips
    <2>2. asks' \in Asks /\ asks'["saving"] = asks["saving"]
      BY <1>2, <2>1, AskTyped DEF Mqtt!Readers
    <2> QED BY <1>1, <1>2, <2>1, <2>2 DEF Unsaved, InOrder, ClearAsked
  <1>3. CASE form' = [form EXCEPT !.setting = FALSE] /\ UNCHANGED <<broker, asks>>
    <2>1. /\ form' \in Forms /\ form'.busy = form.busy /\ form'.draft = form.draft
          /\ form'.dialog = form.dialog /\ form'.dirty = form.dirty
      BY <1>3 DEF Forms
    <2> QED BY <1>1, <1>3, <2>1 DEF Unsaved, InOrder, ClearAsked
  <1> QED BY <1>2, <1>3 DEF Mqtt!FlipHandled

LEMMA MqttNews == MqttInv /\ Mqtt!News /\ UNCHANGED pane => MqttInv'
  <1> SUFFICES ASSUME MqttInv, Mqtt!News /\ UNCHANGED pane PROVE MqttInv'
    OBVIOUS
  <1> USE DEF MqttInv, MqttShape
  <1>1. UNCHANGED <<form, asks, saving, flip, intent, pane>>
    BY DEF Mqtt!News
  <1>2. broker' \in Devices
    <2>1. CASE broker' = [broker EXCEPT !.boot = @ + 1]
      BY <2>1 DEF Devices
    <2>2. CASE broker' = [broker EXCEPT !.on = TRUE, !.name = "other", !.secret = "old"]
      BY <2>2, MqttMembers DEF Devices
    <2> QED BY <2>1, <2>2 DEF Mqtt!News
  <1> QED BY <1>1, <1>2 DEF Unsaved, InOrder, ClearAsked

LEMMA MqttGetEnds == MqttInv /\ (\E r \in Mqtt!Readers : Mqtt!GetEnds(r)) /\ UNCHANGED pane => MqttInv'
  <1> SUFFICES ASSUME MqttInv, (\E r \in Mqtt!Readers : Mqtt!GetEnds(r)) /\ UNCHANGED pane PROVE MqttInv'
    OBVIOUS
  <1> USE DEF MqttInv, MqttShape
  <1>1. PICK r \in Mqtt!Readers : Mqtt!GetEnds(r)
    OBVIOUS
  <1>2. PICK f \in {form, Mqtt!Refreshed(form, asks[r].status)} :
          form' = CASE r = "saving"    -> Mqtt!AfterSave(f)
                    [] r = "switching" -> [f EXCEPT !.setting = FALSE]
                    [] OTHER           -> f
    BY <1>1 DEF Mqtt!GetEnds
  <1>3. /\ asks[r].open /\ UNCHANGED <<broker, saving, flip, pane>>
        /\ asks' = [asks EXCEPT ![r] = Mqtt!NoGet]
        /\ intent' = [intent EXCEPT !.lie = @ \/ (r = "saving" /\ ~intent.stored),
                                    !.asked = @ /\ r # "saving"]
    BY <1>1 DEF Mqtt!GetEnds
  <1>4. asks' \in Asks /\ ~asks'[r].open /\ \A q \in Mqtt!Readers : q # r => asks'[q] = asks[q]
    BY <1>3, MqttMembers DEF Asks, Mqtt!NoGet
  <1>5. /\ f \in Forms /\ f.dialog = form.dialog /\ f.busy = form.busy
        /\ \/ f.draft = form.draft /\ f.dirty = form.dirty
           \/ ~(form.dialog = "settings" /\ form.dirty) /\ ~f.draft.clear
    <2>1. asks[r].status \in Reports
      BY DEF Asks, Question
    <2>2. CASE f = form
      BY <2>2
    <2>3. CASE f = Mqtt!Refreshed(form, asks[r].status)
      BY <2>1, <2>3, RefreshTyped
    <2> QED BY <1>2, <2>2, <2>3
  <1>6. /\ intent' \in Intents /\ intent'.typed = intent.typed /\ intent'.stored = intent.stored
        /\ intent'.lost = intent.lost
        /\ intent'.lie = (intent.lie \/ (r = "saving" /\ ~intent.stored))
        /\ intent'.asked = (intent.asked /\ r # "saving")
    BY <1>3 DEF Intents
  <1>7. CASE r = "saving"
    <2>1. form' = [f EXCEPT !.draft = [f.draft EXCEPT !.secret = "", !.clear = FALSE], !.saved = TRUE, !.busy = FALSE]
      BY <1>2, <1>7 DEF Mqtt!AfterSave, Forms
    <2>2. f.draft \in Drafts
      BY <1>5 DEF Forms
    <2> DEFINE blanked == [f.draft EXCEPT !.secret = "", !.clear = FALSE]
    <2>3. blanked \in Drafts /\ ~blanked.clear
      BY <2>2, MqttMembers DEF Drafts
    <2> HIDE DEF blanked
    <2>4. form' \in Forms /\ form'.draft = blanked /\ form'.dialog = form.dialog
      BY <1>5, <2>1, <2>3 DEF Forms, blanked
    <2>5. saving = Mqtt!NoPost /\ intent.stored /\ intent.typed = Mqtt!NoDraft
      BY <1>3, <1>7 DEF InOrder
    <2> QED BY <1>3, <1>4, <1>6, <1>7, <2>3, <2>4, <2>5 DEF Unsaved, InOrder, ClearAsked
  <1>8. CASE r # "saving"
    <2>1. form' = f \/ form' = [f EXCEPT !.setting = FALSE]
      BY <1>2, <1>8
    <2>2. /\ form' \in Forms /\ form'.dialog = f.dialog /\ form'.busy = f.busy
          /\ form'.draft = f.draft /\ form'.dirty = f.dirty
      BY <1>5, <2>1 DEF Forms
    <2>3. asks'["saving"] = asks["saving"]
      BY <1>4, <1>8 DEF Mqtt!Readers
    <2>4. intent'.lie = intent.lie /\ intent'.asked = intent.asked
      BY <1>6, <1>8 DEF Intents
    <2> QED BY <1>3, <1>4, <1>5, <1>6, <2>2, <2>3, <2>4 DEF Unsaved, InOrder, ClearAsked
  <1> QED BY <1>7, <1>8

LEMMA MqttStarts == Mqtt!Init => MqttInv
  <1> SUFFICES ASSUME Mqtt!Init PROVE MqttInv
    OBVIOUS
  <1>1. broker \in Devices /\ pane \in {"settings", "sensors"}
    BY MqttMembers DEF Mqtt!Init, Devices
  <1>2. form \in Forms /\ form.dialog = "none" /\ form.draft = Mqtt!NoDraft
    BY MqttMembers DEF Mqtt!Init, Forms
  <1>3. asks \in Asks /\ ~asks["saving"].open
    BY MqttMembers DEF Mqtt!Init, Asks, Mqtt!Readers, Mqtt!NoGet
  <1>4. intent \in Intents /\ ~intent.lie /\ ~intent.lost
    BY MqttMembers DEF Mqtt!Init, Intents
  <1>5. saving = Mqtt!NoPost /\ flip = Mqtt!NoSwitch
    BY DEF Mqtt!Init
  <1>6. MqttShape
    BY <1>1, <1>2, <1>3, <1>4, <1>5, MqttMembers DEF MqttShape
  <1> QED BY <1>1, <1>2, <1>3, <1>4, <1>5, <1>6, MqttMembers DEF MqttInv, Unsaved, InOrder,
       ClearAsked

LEMMA MqttNext == MqttInv /\ [Mqtt!Next]_mqttVars => MqttInv'
  <1> SUFFICES ASSUME MqttInv, [Mqtt!Next]_mqttVars PROVE MqttInv'
    OBVIOUS
  <1>1. CASE Mqtt!Next
    BY <1>1, MqttOpens, MqttPolls, MqttCloses, MqttEdits, MqttSaves, MqttSaveEnds,
         MqttFlips, MqttFlipEnds, MqttNews, MqttGetEnds DEF Mqtt!Next
  <1>2. CASE UNCHANGED mqttVars
    BY <1>2 DEF mqttVars, MqttInv, MqttShape, Unsaved, InOrder, ClearAsked
  <1> QED BY <1>1, <1>2

LEMMA MqttFaith == MqttInv => Mqtt!SettingsAsTyped
  BY DEF MqttInv, Unsaved, Mqtt!SettingsAsTyped

-----------------------------------------------------------------------------
(***************************************************************************)
(* Part 4: the log viewer                                                  *)
(***************************************************************************)
Timers   == {"off", "set", "reading"}
Sends    == {"idle", "sent"}
Clears   == {"idle", "post", "token", "again"}

LogLines == [ boot : Nat, from : Nat, upto : Nat ]
OneGet   == [ stage : Sends, old : BOOLEAN, lines : LogLines ]
Gets     == [ Logs!Askers -> OneGet ]
Viewers  == [ open : BOOLEAN, lines : LogLines, csrf : Nat, loading : BOOLEAN, timer : Timers ]
Cleared  == [ boot : Nat, upto : Nat ]

LogShape == /\ journal \in LogLines /\ gets \in Gets /\ viewer \in Viewers
            /\ cleared \in Cleared /\ clear \in Clears

(* No line of these is one that the last clear removed.                    *)
Clean(lines, c) == lines.boot = c.boot => lines.from >= c.upto

(* The device's journal, the viewer and every answer that still counts     *)
(* hold only lines that no clear removed.                                  *)
CleanLog ==
  /\ journal.boot >= 1 /\ journal.boot >= cleared.boot /\ journal.from <= journal.upto
  /\ cleared.boot = 0 => cleared.upto = 0
  /\ Clean(journal, cleared) /\ Clean(viewer.lines, cleared)
  /\ \A a \in Logs!Askers : ~gets[a].old => Clean(gets[a].lines, cleared)

Polls == viewer.open /\ ~Logs!Clearing => viewer.timer # "off"

LogInv == LogShape /\ CleanLog /\ Polls

LEMMA LogMembers ==
  /\ \A t \in {"off", "set", "reading"} : t \in Timers
  /\ \A s \in {"idle", "sent"} : s \in Sends
  /\ \A c \in {"idle", "post", "token", "again"} : c \in Clears
  /\ Logs!NoLines \in LogLines /\ Logs!NoGet \in OneGet /\ Logs!NoGet.lines = Logs!NoLines
  BY DEF Timers, Sends, Clears, Logs!NoLines, Logs!NoGet, LogLines, OneGet

(* A closed viewer has no timer; a synced one polls unless a clear runs.   *)
LEMMA ClosedTyped ==
  ASSUME NEW v \in Viewers
  PROVE  Logs!Closed(v) \in Viewers /\ Logs!Closed(v).lines = v.lines /\ Logs!Closed(v).open = v.open
  BY LogMembers DEF Logs!Closed, Viewers

LEMMA SyncedTyped ==
  ASSUME NEW v \in Viewers, NEW busy \in BOOLEAN
  PROVE  LET s == Logs!Synced(v, busy)
         IN /\ s \in Viewers /\ s.lines = v.lines /\ s.open = v.open
            /\ v.open /\ ~busy => s.timer # "off"
  <1>1. CASE v.open /\ ~busy /\ v.timer = "off"
    <2>1. Logs!Synced(v, busy) = [v EXCEPT !.timer = "set"]
      BY <1>1 DEF Logs!Synced
    <2> QED BY <2>1, LogMembers DEF Viewers
  <1>2. CASE v.open /\ ~busy /\ v.timer # "off"
    <2>1. Logs!Synced(v, busy) = [v EXCEPT !.timer = v.timer]
      BY <1>2 DEF Logs!Synced
    <2> QED BY <1>2, <2>1 DEF Viewers
  <1>3. CASE ~(v.open /\ ~busy)
    BY <1>3, ClosedTyped DEF Logs!Synced
  <1> QED BY <1>1, <1>2, <1>3

(* Of what was superseded only an answer with no lines at all counts.      *)
LEMMA SupersededTyped ==
  ASSUME gets \in Gets
  PROVE  /\ Logs!Superseded \in Gets
         /\ \A a \in Logs!Askers :
              ~Logs!Superseded[a].old => Logs!Superseded[a].lines = Logs!NoLines
  <1>1. ASSUME NEW a \in Logs!Askers
        PROVE  LET g == IF gets[a] = Logs!NoGet THEN Logs!NoGet ELSE [gets[a] EXCEPT !.old = TRUE]
               IN g \in OneGet /\ (~g.old => g.lines = Logs!NoLines)
    BY LogMembers DEF Gets, OneGet
  <1> QED BY <1>1 DEF Logs!Superseded, Gets

LEMMA GetTyped ==
  ASSUME journal \in LogLines
  PROVE  /\ Logs!Get \in OneGet
         /\ Logs!Get.lines.boot = journal.boot /\ Logs!Get.lines.from = journal.from
  BY LogMembers DEF Logs!Get, Logs!Lines, LogLines, OneGet

LEMMA NoLinesClean ==
  ASSUME NEW c \in Cleared, c.boot = 0 => c.upto = 0
  PROVE  Clean(Logs!NoLines, c)
  BY DEF Clean, Logs!NoLines, Cleared

(* The end of a clear.                                                     *)
LEMMA ClearOver ==
  ASSUME NEW v \in Viewers, NEW g \in Gets, journal' \in LogLines, Logs!After(v, g)
  PROVE  /\ viewer' \in Viewers /\ viewer'.lines = v.lines /\ viewer'.open = v.open
         /\ viewer'.open => viewer'.timer # "off"
         /\ clear' = "idle" /\ gets' \in Gets
         /\ \A a \in Logs!Askers :
              \/ gets'[a] = g[a]
              \/ gets'[a].lines.boot = journal'.boot /\ gets'[a].lines.from = journal'.from
  <1>1. CASE v.open
    <2> DEFINE w == [v EXCEPT !.loading = TRUE]
    <2>1. w \in Viewers /\ w.lines = v.lines /\ w.open
      BY <1>1 DEF Viewers
    <2>2. viewer' = Logs!Synced(w, FALSE) /\ gets' = [g EXCEPT !["dialog"] = Logs!Get'] /\ clear' = "idle"
      BY <1>1 DEF Logs!After
    <2>3. Logs!Get' \in OneGet /\ Logs!Get'.lines.boot = journal'.boot /\ Logs!Get'.lines.from = journal'.from
      BY LogMembers DEF Logs!Get, Logs!Lines, LogLines, OneGet
    <2> HIDE DEF w
    <2>4. viewer' \in Viewers /\ viewer'.lines = v.lines /\ viewer'.open /\ viewer'.timer # "off"
      BY <2>1, <2>2, SyncedTyped
    <2> QED BY <1>1, <2>2, <2>3, <2>4 DEF Gets
  <1>2. CASE ~v.open
    BY <1>2 DEF Logs!After
  <1> QED BY <1>1, <1>2

(* What is shown after an answer.                                          *)
LEMMA AnswerRead ==
  ASSUME LogShape, CleanLog, NEW a \in Logs!Askers, NEW ok \in BOOLEAN
  PROVE  LET v == Logs!Loaded(IF ok /\ Logs!Counts(gets[a]) THEN Logs!Read(gets[a]) ELSE viewer, a)
         IN v \in Viewers /\ Clean(v.lines, cleared)
  <1> DEFINE u == IF ok /\ Logs!Counts(gets[a]) THEN Logs!Read(gets[a]) ELSE viewer
  <1>1. gets[a] \in OneGet /\ viewer \in Viewers
    BY DEF LogShape, Gets
  <1>2. u \in Viewers /\ Clean(u.lines, cleared)
    <2>1. CASE ok /\ Logs!Counts(gets[a])
      <3>1. u = [viewer EXCEPT !.lines = gets[a].lines, !.csrf = gets[a].lines.boot] /\ ~gets[a].old
        BY <2>1 DEF Logs!Read, Logs!Counts
      <3>2. gets[a].lines \in LogLines /\ gets[a].lines.boot \in Nat
        BY <1>1 DEF OneGet, LogLines
      <3>3. u \in Viewers /\ u.lines = gets[a].lines
        BY <1>1, <3>1, <3>2 DEF Viewers
      <3> QED BY <3>1, <3>3 DEF CleanLog
    <2>2. CASE ~(ok /\ Logs!Counts(gets[a]))
      BY <1>1, <2>2 DEF CleanLog
    <2> QED BY <2>1, <2>2
  <1> DEFINE l == u.loading /\ (a = "timer" \/ gets[a].old)
             t == IF a = "timer" /\ u.timer = "reading" THEN "off" ELSE u.timer
  <1>3. Logs!Loaded(u, a) = [u EXCEPT !.loading = l, !.timer = t]
    BY DEF Logs!Loaded
  <1>4. l \in BOOLEAN /\ t \in Timers
    BY <1>2, LogMembers DEF Viewers
  <1> HIDE DEF u, l, t
  <1>5. Logs!Loaded(u, a) \in Viewers /\ Logs!Loaded(u, a).lines = u.lines
    BY <1>2, <1>3, <1>4 DEF Viewers
  <1> QED BY <1>2, <1>5 DEF u

LEMMA LogOpens == LogInv /\ Logs!OpenLogs => LogInv'
  <1> SUFFICES ASSUME LogInv, Logs!OpenLogs PROVE LogInv'
    OBVIOUS
  <1> USE DEF LogInv, LogShape
  <1> DEFINE v == [Logs!Closed(viewer) EXCEPT !.open = TRUE, !.loading = TRUE]
  <1>1. /\ UNCHANGED <<journal, clear, cleared>>
        /\ viewer' = Logs!Synced(v, Logs!Clearing) /\ gets' = [Logs!Superseded EXCEPT !["dialog"] = Logs!Get]
    BY DEF Logs!OpenLogs
  <1>2. v \in Viewers /\ v.lines = viewer.lines
    BY ClosedTyped DEF Viewers
  <1> HIDE DEF v
  <1>3. viewer' \in Viewers /\ viewer'.lines = viewer.lines /\ (viewer'.open /\ ~Logs!Clearing => viewer'.timer # "off")
    BY <1>1, <1>2, SyncedTyped DEF Logs!Clearing
  <1>4. gets' \in Gets /\ \A a \in Logs!Askers : ~gets'[a].old => Clean(gets'[a].lines, cleared)
    BY <1>1, SupersededTyped, GetTyped, NoLinesClean DEF Gets, CleanLog, Clean
  <1> QED BY <1>1, <1>3, <1>4 DEF CleanLog, Polls, Logs!Clearing

LEMMA LogCloses == LogInv /\ Logs!CloseLogs => LogInv'
  <1> SUFFICES ASSUME LogInv, Logs!CloseLogs PROVE LogInv'
    OBVIOUS
  <1> USE DEF LogInv, LogShape
  <1> DEFINE v == [viewer EXCEPT !.open = FALSE]
  <1>1. UNCHANGED <<journal, clear, cleared>> /\ viewer' = Logs!Closed(v) /\ gets' = Logs!Superseded
    BY DEF Logs!CloseLogs
  <1>2. v \in Viewers /\ v.lines = viewer.lines /\ ~v.open
    BY DEF Viewers
  <1> HIDE DEF v
  <1>3. viewer' \in Viewers /\ viewer'.lines = viewer.lines /\ ~viewer'.open
    BY <1>1, <1>2, ClosedTyped
  <1>4. gets' \in Gets /\ \A a \in Logs!Askers : ~gets'[a].old => Clean(gets'[a].lines, cleared)
    BY <1>1, SupersededTyped, NoLinesClean DEF CleanLog
  <1> QED BY <1>1, <1>3, <1>4 DEF CleanLog, Polls

LEMMA LogPollFires == LogInv /\ Logs!PollFires => LogInv'
  <1> SUFFICES ASSUME LogInv, Logs!PollFires PROVE LogInv'
    OBVIOUS
  <1> USE DEF LogInv, LogShape
  <1>1. /\ UNCHANGED <<journal, clear, cleared>> /\ viewer' = [viewer EXCEPT !.timer = "reading"]
        /\ gets' = [Logs!Superseded EXCEPT !["timer"] = Logs!Get]
    BY DEF Logs!PollFires
  <1>2. viewer' \in Viewers /\ viewer'.lines = viewer.lines /\ viewer'.timer # "off"
    BY <1>1, LogMembers DEF Viewers
  <1>3. gets' \in Gets /\ \A a \in Logs!Askers : ~gets'[a].old => Clean(gets'[a].lines, cleared)
    BY <1>1, SupersededTyped, GetTyped, NoLinesClean DEF Gets, CleanLog, Clean
  <1> QED BY <1>1, <1>2, <1>3 DEF CleanLog, Polls

LEMMA LogGetEnds == LogInv /\ (\E a \in Logs!Askers : Logs!GetEnds(a)) => LogInv'
  <1> SUFFICES ASSUME LogInv, (\E a \in Logs!Askers : Logs!GetEnds(a)) PROVE LogInv'
    OBVIOUS
  <1> USE DEF LogInv, LogShape
  <1>1. PICK a \in Logs!Askers, ok \in BOOLEAN :
          /\ viewer' = Logs!Synced(Logs!Loaded(IF ok /\ Logs!Counts(gets[a]) THEN Logs!Read(gets[a]) ELSE viewer, a),
                                   Logs!Clearing)
          /\ gets' = [gets EXCEPT ![a] = Logs!NoGet] /\ UNCHANGED <<journal, clear, cleared>>
    BY DEF Logs!GetEnds
  <1> DEFINE v == Logs!Loaded(IF ok /\ Logs!Counts(gets[a]) THEN Logs!Read(gets[a]) ELSE viewer, a)
  <1>2. v \in Viewers /\ Clean(v.lines, cleared)
    BY AnswerRead DEF CleanLog
  <1> HIDE DEF v
  <1>3. /\ viewer' \in Viewers /\ viewer'.lines = v.lines
        /\ viewer'.open /\ ~Logs!Clearing => viewer'.timer # "off"
    BY <1>1, <1>2, SyncedTyped DEF Logs!Clearing, v
  <1>4. gets' \in Gets /\ \A b \in Logs!Askers : gets'[b] = gets[b] \/ gets'[b] = Logs!NoGet
    BY <1>1, LogMembers DEF Gets
  <1>5. Clean(Logs!NoGet.lines, cleared)
    BY LogMembers, NoLinesClean DEF CleanLog
  <1> QED BY <1>1, <1>2, <1>3, <1>4, <1>5 DEF CleanLog, Polls, Logs!Clearing

LEMMA LogStartsClear == LogInv /\ Logs!StartClear => LogInv'
  <1> SUFFICES ASSUME LogInv, Logs!StartClear PROVE LogInv'
    OBVIOUS
  <1> USE DEF LogInv, LogShape
  <1>1. /\ UNCHANGED <<journal, cleared>> /\ clear' = "post" /\ viewer' = Logs!Closed(viewer)
        /\ gets' = Logs!Superseded
    BY DEF Logs!StartClear
  <1>2. viewer' \in Viewers /\ viewer'.lines = viewer.lines /\ Logs!Clearing'
    BY <1>1, ClosedTyped DEF Logs!Clearing
  <1>3. gets' \in Gets /\ \A a \in Logs!Askers : ~gets'[a].old => Clean(gets'[a].lines, cleared)
    BY <1>1, SupersededTyped, NoLinesClean DEF CleanLog
  <1> QED BY <1>1, <1>2, <1>3, LogMembers DEF CleanLog, Polls

LEMMA LogClearAnswered == LogInv /\ Logs!ClearAnswered => LogInv'
  <1> SUFFICES ASSUME LogInv, Logs!ClearAnswered PROVE LogInv'
    OBVIOUS
  <1> USE DEF LogInv, LogShape
  <1>1. journal' = [journal EXCEPT !.from = journal.upto]
    BY DEF Logs!ClearAnswered
  <1>2. /\ journal' \in LogLines /\ journal'.boot = journal.boot /\ journal'.upto = journal.upto
        /\ journal'.from = journal.upto
    BY <1>1 DEF LogLines
  <1>3. journal.boot \in Nat /\ journal.from \in Nat /\ journal.upto \in Nat
    BY DEF LogLines
  <1>4. CASE /\ Logs!After([viewer EXCEPT !.lines = Logs!NoLines, !.loading = FALSE], Logs!Superseded)
             /\ cleared' = [ boot |-> journal.boot, upto |-> journal.upto ]
    <2> DEFINE v == [viewer EXCEPT !.lines = Logs!NoLines, !.loading = FALSE]
    <2>1. v \in Viewers /\ v.lines = Logs!NoLines
      BY LogMembers DEF Viewers
    <2>2. Logs!After(v, Logs!Superseded)
      BY <1>4
    <2>3. cleared' \in Cleared /\ cleared'.boot = journal.boot /\ cleared'.upto = journal.upto
      BY <1>3, <1>4 DEF Cleared
    <2>4. journal.boot # 0
      BY <1>3 DEF CleanLog
    <2> HIDE DEF v
    <2>5. /\ viewer' \in Viewers /\ viewer'.lines = Logs!NoLines /\ (viewer'.open => viewer'.timer # "off")
          /\ clear' = "idle" /\ gets' \in Gets
          /\ \A a \in Logs!Askers :
               \/ gets'[a] = Logs!Superseded[a]
               \/ gets'[a].lines.boot = journal'.boot /\ gets'[a].lines.from = journal'.from
      BY <1>2, <2>1, <2>2, ClearOver, SupersededTyped
    <2>6. Clean(Logs!NoLines, cleared') /\ Clean(journal', cleared')
      BY <1>2, <1>3, <2>3, <2>4, NoLinesClean DEF Clean
    <2>7. \A a \in Logs!Askers : ~gets'[a].old => Clean(gets'[a].lines, cleared')
      BY <2>5, <2>6, SupersededTyped DEF Clean
    <2> QED BY <1>2, <1>3, <2>3, <2>4, <2>5, <2>6, <2>7, LogMembers DEF CleanLog, Polls
  <1>5. CASE Logs!After(viewer, Logs!Superseded) /\ UNCHANGED cleared
    <2>1. /\ viewer' \in Viewers /\ viewer'.lines = viewer.lines /\ (viewer'.open => viewer'.timer # "off")
          /\ clear' = "idle" /\ gets' \in Gets
          /\ \A a \in Logs!Askers :
               \/ gets'[a] = Logs!Superseded[a]
               \/ gets'[a].lines.boot = journal'.boot /\ gets'[a].lines.from = journal'.from
      BY <1>2, <1>5, ClearOver, SupersededTyped
    <2>2. Clean(Logs!NoLines, cleared)
      BY NoLinesClean DEF CleanLog
    <2>3. Clean(journal', cleared)
      BY <1>2, <1>3 DEF Clean, CleanLog, Cleared
    <2>4. \A a \in Logs!Askers : ~gets'[a].old => Clean(gets'[a].lines, cleared)
      BY <2>1, <2>2, <2>3, SupersededTyped DEF Clean
    <2> QED BY <1>2, <1>3, <1>5, <2>1, <2>3, <2>4, LogMembers DEF CleanLog, Polls
  <1> QED BY <1>4, <1>5 DEF Logs!ClearAnswered

LEMMA LogClearForbidden == LogInv /\ Logs!ClearForbidden => LogInv'
  <1> SUFFICES ASSUME LogInv, Logs!ClearForbidden PROVE LogInv'
    OBVIOUS
  <1> USE DEF LogInv, LogShape
  <1>1. /\ UNCHANGED <<journal, cleared>> /\ clear' = "token"
        /\ viewer' = [viewer EXCEPT !.csrf = 0, !.loading = TRUE]
        /\ gets' = [Logs!Superseded EXCEPT !["clear"] = Logs!Get]
    BY DEF Logs!ClearForbidden
  <1>2. viewer' \in Viewers /\ viewer'.lines = viewer.lines /\ Logs!Clearing'
    BY <1>1 DEF Viewers, Logs!Clearing
  <1>3. gets' \in Gets /\ \A a \in Logs!Askers : ~gets'[a].old => Clean(gets'[a].lines, cleared)
    BY <1>1, SupersededTyped, GetTyped, NoLinesClean DEF Gets, CleanLog, Clean
  <1> QED BY <1>1, <1>2, <1>3, LogMembers DEF CleanLog, Polls

LEMMA LogTokenRead == LogInv /\ Logs!TokenRead => LogInv'
  <1> SUFFICES ASSUME LogInv, Logs!TokenRead PROVE LogInv'
    OBVIOUS
  <1> USE DEF LogInv, LogShape
  <1> DEFINE h == [gets EXCEPT !["clear"] = Logs!NoGet]
  <1>1. PICK ok \in BOOLEAN :
          LET v == Logs!Loaded(IF ok /\ Logs!Counts(gets["clear"]) THEN Logs!Read(gets["clear"]) ELSE viewer, "clear")
          IN IF v.csrf # 0 THEN clear' = "again" /\ viewer' = v /\ gets' = h ELSE Logs!After(v, h)
    BY DEF Logs!TokenRead
  <1> DEFINE v == Logs!Loaded(IF ok /\ Logs!Counts(gets["clear"]) THEN Logs!Read(gets["clear"]) ELSE viewer, "clear")
  <1>2. UNCHANGED <<journal, cleared>>
    BY DEF Logs!TokenRead
  <1>3. v \in Viewers /\ Clean(v.lines, cleared)
    BY AnswerRead DEF Logs!Askers
  <1>4. h \in Gets /\ \A a \in Logs!Askers : h[a] = gets[a] \/ h[a] = Logs!NoGet
    BY LogMembers DEF Gets
  <1>5. IF v.csrf # 0 THEN clear' = "again" /\ viewer' = v /\ gets' = h ELSE Logs!After(v, h)
    BY <1>1
  <1> HIDE DEF v, h
  <1>6. Clean(Logs!NoGet.lines, cleared)
    BY LogMembers, NoLinesClean DEF CleanLog
  <1>7. \A a \in Logs!Askers : ~h[a].old => Clean(h[a].lines, cleared)
    BY <1>4, <1>6 DEF CleanLog
  <1>8. CASE v.csrf # 0
    BY <1>2, <1>3, <1>4, <1>5, <1>7, <1>8, LogMembers DEF CleanLog, Polls, Logs!Clearing
  <1>9. CASE v.csrf = 0
    <2>1. /\ viewer' \in Viewers /\ viewer'.lines = v.lines /\ (viewer'.open => viewer'.timer # "off")
          /\ clear' = "idle" /\ gets' \in Gets
          /\ \A a \in Logs!Askers :
               \/ gets'[a] = h[a]
               \/ gets'[a].lines.boot = journal'.boot /\ gets'[a].lines.from = journal'.from
      BY <1>2, <1>3, <1>4, <1>5, <1>9, ClearOver
    <2>2. \A a \in Logs!Askers : ~gets'[a].old => Clean(gets'[a].lines, cleared)
      BY <1>2, <1>7, <2>1 DEF CleanLog, Clean
    <2> QED BY <1>2, <1>3, <2>1, <2>2, LogMembers DEF CleanLog, Polls
  <1> QED BY <1>8, <1>9

LEMMA LogClearFails == LogInv /\ Logs!ClearFails => LogInv'
  <1> SUFFICES ASSUME LogInv, Logs!ClearFails PROVE LogInv'
    OBVIOUS
  <1> USE DEF LogInv, LogShape
  <1>1. UNCHANGED <<journal, cleared>> /\ Logs!After(viewer, Logs!Superseded)
    BY DEF Logs!ClearFails
  <1>2. /\ viewer' \in Viewers /\ viewer'.lines = viewer.lines /\ (viewer'.open => viewer'.timer # "off")
        /\ clear' = "idle" /\ gets' \in Gets
        /\ \A a \in Logs!Askers :
             \/ gets'[a] = Logs!Superseded[a]
             \/ gets'[a].lines.boot = journal'.boot /\ gets'[a].lines.from = journal'.from
    BY <1>1, ClearOver, SupersededTyped
  <1>3. Clean(Logs!NoLines, cleared)
    BY NoLinesClean DEF CleanLog
  <1>4. \A a \in Logs!Askers : ~gets'[a].old => Clean(gets'[a].lines, cleared)
    BY <1>1, <1>2, <1>3, SupersededTyped DEF Clean, CleanLog
  <1> QED BY <1>1, <1>2, <1>4, LogMembers DEF CleanLog, Polls

LEMMA LogLogs == LogInv /\ Logs!Log => LogInv'
  <1> SUFFICES ASSUME LogInv, Logs!Log PROVE LogInv'
    OBVIOUS
  <1> USE DEF LogInv, LogShape
  <1>1. journal' = [journal EXCEPT !.upto = @ + 1] /\ UNCHANGED <<viewer, gets, clear, cleared>>
    BY DEF Logs!Log
  <1>2. /\ journal' \in LogLines /\ journal'.boot = journal.boot /\ journal'.from = journal.from
        /\ journal'.upto = journal.upto + 1
    BY <1>1 DEF LogLines
  <1>3. journal'.from <= journal'.upto
    BY <1>2 DEF CleanLog, LogLines
  <1> QED BY <1>1, <1>2, <1>3 DEF CleanLog, Clean, Polls, Logs!Clearing

LEMMA LogRestarts == LogInv /\ Logs!Restart => LogInv'
  <1> SUFFICES ASSUME LogInv, Logs!Restart PROVE LogInv'
    OBVIOUS
  <1> USE DEF LogInv, LogShape
  <1>1. /\ journal' = [ boot |-> journal.boot + 1, from |-> 0, upto |-> 0 ]
        /\ UNCHANGED <<viewer, gets, clear, cleared>>
    BY DEF Logs!Restart
  <1>2. journal.boot \in Nat /\ cleared.boot \in Nat
    BY DEF LogLines, Cleared
  <1>3. /\ journal' \in LogLines /\ journal'.boot >= 1 /\ journal'.boot >= cleared.boot
        /\ journal'.from <= journal'.upto /\ Clean(journal', cleared)
    BY <1>1, <1>2 DEF LogLines, Clean, CleanLog
  <1> QED BY <1>1, <1>3 DEF CleanLog, Polls, Logs!Clearing

LEMMA LogRecovers == LogInv /\ Logs!Recovered => LogInv'
  <1> SUFFICES ASSUME LogInv, Logs!Recovered PROVE LogInv'
    OBVIOUS
  <1> USE DEF LogInv, LogShape
  <1> DEFINE v == [Logs!Closed(viewer) EXCEPT !.lines = Logs!NoLines, !.csrf = 0, !.loading = viewer.open]
  <1>1. /\ UNCHANGED <<journal, clear, cleared>> /\ viewer' = Logs!Synced(v, FALSE)
        /\ gets' = IF viewer.open THEN [Logs!Superseded EXCEPT !["dialog"] = Logs!Get] ELSE Logs!Superseded
    BY DEF Logs!Recovered
  <1>2. viewer.open \in BOOLEAN /\ Logs!Closed(viewer) \in Viewers
    BY ClosedTyped DEF Viewers
  <1>3. v \in Viewers /\ v.lines = Logs!NoLines
    BY <1>2, LogMembers DEF Viewers
  <1> HIDE DEF v
  <1>4. viewer' \in Viewers /\ viewer'.lines = Logs!NoLines /\ (viewer'.open => viewer'.timer # "off")
    BY <1>1, <1>3, SyncedTyped
  <1>5. gets' \in Gets /\ \A a \in Logs!Askers : ~gets'[a].old => Clean(gets'[a].lines, cleared)
    BY <1>1, SupersededTyped, GetTyped, NoLinesClean DEF Gets, CleanLog, Clean
  <1>6. Clean(Logs!NoLines, cleared)
    BY NoLinesClean DEF CleanLog
  <1> QED BY <1>1, <1>4, <1>5, <1>6 DEF CleanLog, Polls

LEMMA LogStarts == Logs!Init => LogInv
  <1> SUFFICES ASSUME Logs!Init PROVE LogInv
    OBVIOUS
  <1>1. journal \in LogLines /\ journal.boot = 1 /\ journal.from = 0 /\ journal.upto = 0
    BY DEF Logs!Init, LogLines
  <1>2. viewer \in Viewers /\ viewer.lines = Logs!NoLines /\ ~viewer.open
    BY LogMembers DEF Logs!Init, Viewers
  <1>3. cleared \in Cleared /\ cleared.boot = 0 /\ cleared.upto = 0
    BY DEF Logs!Init, Cleared
  <1>4. gets \in Gets /\ \A a \in Logs!Askers : gets[a].lines = Logs!NoLines
    BY LogMembers DEF Logs!Init, Gets
  <1>5. Clean(Logs!NoLines, cleared) /\ Clean(journal, cleared)
    BY <1>1, <1>3, NoLinesClean DEF Clean
  <1>6. clear \in Clears
    BY LogMembers DEF Logs!Init
  <1> QED BY <1>1, <1>2, <1>3, <1>4, <1>5, <1>6 DEF LogInv, LogShape, CleanLog, Polls

LEMMA LogNext == LogInv /\ [Logs!Next]_logsVars => LogInv'
  <1> SUFFICES ASSUME LogInv, [Logs!Next]_logsVars PROVE LogInv'
    OBVIOUS
  <1>1. CASE Logs!Next
    BY <1>1, LogOpens, LogCloses, LogPollFires, LogGetEnds, LogStartsClear,
         LogClearAnswered, LogClearForbidden, LogTokenRead, LogClearFails, LogLogs,
         LogRestarts, LogRecovers DEF Logs!Next
  <1>2. CASE UNCHANGED logsVars
    BY <1>2 DEF logsVars, LogInv, LogShape, CleanLog, Clean, Polls, Logs!Clearing
  <1> QED BY <1>1, <1>2

LEMMA LogFaith == LogInv => Logs!LogsStayCleared
  BY DEF LogInv, CleanLog, Clean, Polls, Logs!LogsStayCleared

-----------------------------------------------------------------------------
(***************************************************************************)
(* Part 5: the recorder                                                    *)
(***************************************************************************)
Recorders == [ on : BOOLEAN, flash : BOOLEAN, dirty : BOOLEAN, rec : Nat, boot : Nat ]
Known     == [ on : BOOLEAN, rec : Nat, boot : Nat ]
Choices   == {"none"} \cup Recorder!Kinds
Panels    == [ open : BOOLEAN, busy : BOOLEAN, asks : BOOLEAN, timer : BOOLEAN, pending : Choices,
               status : Known ]
Sent      == {"idle", "sent"}
OneRead   == [ stage : Sent, old : BOOLEAN, on : BOOLEAN, rec : Nat, boot : Nat ]
Reads     == [ Recorder!Readers -> OneRead ]
Turns     == {"idle", "post"}
Settings  == [ stage : Turns, kind : Choices, was : Nat ]
Copying   == {"none", "loading", "ready", "failed"}
Copies    == [ stage : Copying, text : Nat ]
Notices   == [ kind : Choices, jolted : BOOLEAN ]

RecShape == /\ recorder \in Recorders /\ panel \in Panels /\ reads \in Reads
            /\ setting \in Settings /\ copy \in Copies /\ said \in Notices

(* A change begins without a notice; one that says "enabled" or "disabled" *)
(* finds the choice in flash, unless another client came after it.         *)
InFlash ==
  /\ Recorder!Changing => said.kind = "none" /\ setting.stage = "post" /\ setting.kind \in Recorder!Kinds
  /\ said.kind \in {"enable", "disable"} /\ ~said.jolted => recorder.flash = Recorder!Wants(said.kind)

(* No answer and no page knows a recording that the device does not have,  *)
(* and a copy is at least as new as the recording shown.                   *)
CopyIsNew ==
  /\ panel.status.rec <= recorder.rec
  /\ \A r \in Recorder!Readers : reads[r].rec <= recorder.rec
  /\ copy.stage = "ready" => copy.text >= panel.status.rec
  /\ misled = FALSE

Looking == panel.open /\ ~Recorder!Changing =>
             panel.timer \/ \E r \in Recorder!Readers : reads[r] # Recorder!NoRead /\ ~reads[r].old

RecorderInv == RecShape /\ InFlash /\ CopyIsNew /\ Looking

LEMMA RecMembers ==
  /\ \A c \in {"none", "enable", "disable", "restart"} : c \in Choices
  /\ \A s \in {"idle", "sent"} : s \in Sent
  /\ \A t \in {"idle", "post"} : t \in Turns
  /\ \A c \in {"none", "loading", "ready", "failed"} : c \in Copying
  /\ Recorder!NoRead \in OneRead /\ Recorder!NoRead.rec = 0
  /\ Recorder!NoSetting \in Settings
  /\ Recorder!NoCopy \in Copies /\ Recorder!NoCopy.stage = "none"
  /\ Recorder!NoNotice \in Notices /\ Recorder!NoNotice.kind = "none"
  /\ \A k \in Recorder!Kinds : Recorder!Wants(k) \in BOOLEAN /\ k \in Choices
  BY DEF Choices, Sent, Turns, Copying, Recorder!NoRead, Recorder!NoSetting, Recorder!NoCopy,
         Recorder!NoNotice, Recorder!Kinds, Recorder!Wants, OneRead, Settings, Copies, Notices

LEMMA StatusTyped ==
  ASSUME recorder \in Recorders
  PROVE  Recorder!Status \in Known /\ Recorder!Status.rec = recorder.rec
  BY DEF Recorder!Status, Recorders, Known

(* An open panel is left with its timer set.                               *)
LEMMA ScheduledTyped ==
  ASSUME NEW p \in Panels
  PROVE  LET s == Recorder!Scheduled(p)
         IN /\ s \in Panels /\ s.open = p.open /\ s.status = p.status
            /\ p.open => s.timer
  <1>1. p.status \in Known /\ p.open \in BOOLEAN
    BY DEF Panels
  <1>2. p.status.on \in BOOLEAN
    BY <1>1 DEF Known
  <1> QED BY <1>1, <1>2 DEF Recorder!Scheduled, Panels

(* A copy that survives a new status is one of the recording it is of.     *)
LEMMA CopyTyped ==
  ASSUME copy \in Copies, panel \in Panels, NEW s \in Known,
         copy.stage = "ready" => copy.text >= panel.status.rec
  PROVE  LET c == Recorder!CopyAfter(s)
         IN c \in Copies /\ (c.stage = "ready" => c.text >= s.rec)
  BY RecMembers DEF Recorder!CopyAfter

LEMMA PreparedTyped ==
  ASSUME NEW c \in Copies, NEW open \in BOOLEAN
  PROVE  LET p == Recorder!Prepared(c, open)
         IN p \in Copies /\ (p.stage = "ready" => p = c)
  <1>1. CASE ~open
    BY <1>1, RecMembers DEF Recorder!Prepared
  <1>2. CASE open /\ c = Recorder!NoCopy
    BY <1>2, RecMembers DEF Recorder!Prepared, Copies
  <1>3. CASE open /\ c # Recorder!NoCopy
    BY <1>3 DEF Recorder!Prepared
  <1> QED BY <1>1, <1>2, <1>3

LEMMA AskedTyped ==
  ASSUME recorder \in Recorders
  PROVE  /\ Recorder!Asked \in OneRead /\ Recorder!Asked.rec = recorder.rec
         /\ ~Recorder!Asked.old /\ Recorder!Asked # Recorder!NoRead
  <1>1. Recorder!Asked.stage = "sent" /\ Recorder!NoRead.stage = "idle"
    BY DEF Recorder!Asked, Recorder!NoRead
  <1>2. Recorder!Asked \in OneRead /\ Recorder!Asked.rec = recorder.rec /\ ~Recorder!Asked.old
    BY RecMembers DEF Recorder!Asked, Recorders, OneRead
  <1> QED BY <1>1, <1>2

(* What the device makes of a change: recordings only get newer.           *)
LEMMA HandledTyped ==
  ASSUME recorder \in Recorders, NEW k \in Recorder!Kinds, Recorder!Handles(k)
  PROVE  /\ recorder' \in Recorders /\ recorder'.rec >= recorder.rec
         /\ k # "restart" => recorder'.flash = Recorder!Wants(k)
  <1>1. recorder.rec \in Nat /\ recorder.rec + 1 \in Nat
    BY DEF Recorders
  <1>2. CASE k = "restart"
    <2>1. recorder' = [recorder EXCEPT !.rec = @ + 1]
      BY <1>2 DEF Recorder!Handles, Recorder!Fresh
    <2> QED BY <1>1, <1>2, <2>1 DEF Recorders
  <1>3. CASE k # "restart"
    <2> DEFINE v == Recorder!Wants(k)
               d == [recorder EXCEPT !.on = v, !.flash = v, !.dirty = FALSE]
    <2>1. d \in Recorders /\ d.flash = v /\ d.rec = recorder.rec
      BY RecMembers DEF Recorders
    <2>2. recorder' = d \/ recorder' = [d EXCEPT !.rec = d.rec + 1]
      BY <1>3 DEF Recorder!Handles, Recorder!Fresh
    <2> HIDE DEF d, v
    <2>3. CASE recorder' = d
      BY <1>1, <2>1, <2>3 DEF v
    <2>4. CASE recorder' = [d EXCEPT !.rec = d.rec + 1]
      BY <1>1, <2>1, <2>4 DEF Recorders, v
    <2> QED BY <2>2, <2>3, <2>4
  <1> QED BY <1>2, <1>3

LEMMA SpoiledTyped ==
  ASSUME recorder \in Recorders, NEW k \in Recorder!Kinds, Recorder!Spoils(k)
  PROVE  recorder' \in Recorders /\ recorder'.rec = recorder.rec
  <1>1. PICK f \in {Recorder!Wants(k), recorder.flash} : recorder' = [recorder EXCEPT !.flash = f, !.dirty = TRUE]
    BY DEF Recorder!Spoils
  <1>2. f \in BOOLEAN
    BY RecMembers DEF Recorders
  <1> QED BY <1>1, <1>2 DEF Recorders

LEMMA RecorderOpens == RecorderInv /\ Recorder!Open => RecorderInv'
  <1> SUFFICES ASSUME RecorderInv, Recorder!Open PROVE RecorderInv'
    OBVIOUS
  <1> USE DEF RecorderInv, RecShape
  <1>1. /\ UNCHANGED <<recorder, setting, misled>>
        /\ panel' = [panel EXCEPT !.open = TRUE, !.asks = FALSE, !.busy = @ \/ ~Recorder!Changing]
        /\ reads' = IF Recorder!Changing THEN reads ELSE [reads EXCEPT !["dialog"] = Recorder!Asked]
        /\ copy' = Recorder!NoCopy /\ said' = Recorder!NoNotice
    BY DEF Recorder!Open
  <1>2. panel' \in Panels /\ panel'.status = panel.status /\ panel'.timer = panel.timer
    BY <1>1 DEF Panels
  <1>3. reads' \in Reads /\ \A r \in Recorder!Readers : reads'[r].rec <= recorder.rec
    <2>1. recorder.rec \in Nat /\ recorder.rec <= recorder.rec
      BY DEF Recorders
    <2>2. CASE Recorder!Changing
      BY <1>1, <2>2 DEF CopyIsNew
    <2>3. CASE ~Recorder!Changing
      <3>1. reads' = [reads EXCEPT !["dialog"] = Recorder!Asked]
        BY <1>1, <2>3
      <3>2. reads' \in Reads
        BY <3>1, AskedTyped DEF Reads
      <3>3. ASSUME NEW r \in Recorder!Readers PROVE reads'[r].rec <= recorder.rec
        <4>1. reads'[r] = Recorder!Asked \/ reads'[r] = reads[r]
          BY <3>1 DEF Reads
        <4> QED BY <2>1, <4>1, AskedTyped DEF CopyIsNew
      <3> QED BY <3>2, <3>3
    <2> QED BY <2>2, <2>3
  <1>4. ~Recorder!Changing => reads'["dialog"] = Recorder!Asked
    BY <1>1 DEF Reads, Recorder!Readers
  <1>5. Looking'
    BY <1>1, <1>4, AskedTyped DEF Looking, Recorder!Changing, Recorder!Readers
  <1> QED BY <1>1, <1>2, <1>3, <1>5, RecMembers DEF InFlash, CopyIsNew, Recorder!Changing

LEMMA RecorderCloses == RecorderInv /\ Recorder!Close => RecorderInv'
  <1> SUFFICES ASSUME RecorderInv, Recorder!Close PROVE RecorderInv'
    OBVIOUS
  <1> USE DEF RecorderInv, RecShape
  <1> DEFINE p == [panel EXCEPT !.open = FALSE, !.timer = FALSE]
  <1>1. UNCHANGED <<recorder, reads, setting, said, misled>> /\ panel' = Recorder!Scheduled(p) /\ copy' = Recorder!NoCopy
    BY DEF Recorder!Close
  <1>2. p \in Panels /\ ~p.open /\ p.status = panel.status
    BY DEF Panels
  <1> HIDE DEF p
  <1>3. panel' \in Panels /\ ~panel'.open /\ panel'.status = panel.status
    BY <1>1, <1>2, ScheduledTyped
  <1> QED BY <1>1, <1>3, RecMembers DEF InFlash, CopyIsNew, Looking, Recorder!Changing

LEMMA RecorderTimerFires == RecorderInv /\ Recorder!TimerFires => RecorderInv'
  <1> SUFFICES ASSUME RecorderInv, Recorder!TimerFires PROVE RecorderInv'
    OBVIOUS
  <1> USE DEF RecorderInv, RecShape
  <1>1. /\ UNCHANGED <<recorder, setting, copy, said, misled>> /\ panel' = [panel EXCEPT !.timer = FALSE]
        /\ reads' = IF Recorder!Changing THEN reads ELSE [reads EXCEPT !["timer"] = Recorder!Asked]
    BY DEF Recorder!TimerFires
  <1>2. panel' \in Panels /\ panel'.status = panel.status
    BY <1>1 DEF Panels
  <1>3. reads' \in Reads /\ \A r \in Recorder!Readers : reads'[r].rec <= recorder.rec
    <2>1. recorder.rec \in Nat /\ recorder.rec <= recorder.rec
      BY DEF Recorders
    <2>2. CASE Recorder!Changing
      BY <1>1, <2>2 DEF CopyIsNew
    <2>3. CASE ~Recorder!Changing
      <3>1. reads' = [reads EXCEPT !["timer"] = Recorder!Asked]
        BY <1>1, <2>3
      <3>2. reads' \in Reads
        BY <3>1, AskedTyped DEF Reads
      <3>3. ASSUME NEW r \in Recorder!Readers PROVE reads'[r].rec <= recorder.rec
        <4>1. reads'[r] = Recorder!Asked \/ reads'[r] = reads[r]
          BY <3>1 DEF Reads
        <4> QED BY <2>1, <4>1, AskedTyped DEF CopyIsNew
      <3> QED BY <3>2, <3>3
    <2> QED BY <2>2, <2>3
  <1>4. ~Recorder!Changing => reads'["timer"] = Recorder!Asked
    BY <1>1 DEF Reads, Recorder!Readers
  <1>5. Looking'
    BY <1>1, <1>4, AskedTyped DEF Looking, Recorder!Changing, Recorder!Readers
  <1> QED BY <1>1, <1>2, <1>3, <1>5 DEF InFlash, CopyIsNew, Recorder!Changing

LEMMA RecorderReadEnds == RecorderInv /\ (\E r \in Recorder!Readers : Recorder!ReadEnds(r)) => RecorderInv'
  <1> SUFFICES ASSUME RecorderInv, (\E r \in Recorder!Readers : Recorder!ReadEnds(r)) PROVE RecorderInv'
    OBVIOUS
  <1> USE DEF RecorderInv, RecShape
  <1>1. PICK r \in Recorder!Readers : Recorder!ReadEnds(r)
    OBVIOUS
  <1> DEFINE s    == [ on |-> reads[r].on, rec |-> reads[r].rec, boot |-> reads[r].boot ]
             free == [panel EXCEPT !.busy = @ /\ r # "dialog"]
  <1>2. /\ UNCHANGED <<recorder, setting, said, misled>>
        /\ reads' = [reads EXCEPT ![r] = Recorder!NoRead]
        /\ \/ reads[r].old /\ UNCHANGED <<panel, copy>>
           \/ /\ panel' = Recorder!Scheduled([free EXCEPT !.status = s])
              /\ copy' = Recorder!Prepared(Recorder!CopyAfter(s), panel.open)
           \/ panel' = Recorder!Scheduled(free) /\ UNCHANGED copy
    BY <1>1 DEF Recorder!ReadEnds
  <1>3. s \in Known /\ s.rec = reads[r].rec
    BY DEF Reads, OneRead, Known
  <1>4. free \in Panels /\ free.open = panel.open /\ free.status = panel.status
    BY DEF Panels
  <1>5. /\ reads' \in Reads /\ \A q \in Recorder!Readers : q # r => reads'[q] = reads[q]
        /\ reads'[r].rec = 0
    BY <1>2, RecMembers DEF Reads
  <1>6. \A q \in Recorder!Readers : reads'[q].rec <= recorder.rec
    BY <1>5 DEF CopyIsNew, Recorders
  <1> HIDE DEF s, free
  <1>7. CASE reads[r].old /\ UNCHANGED <<panel, copy>>
    <2>1. Looking'
      BY <1>2, <1>5, <1>7 DEF Looking, Recorder!Changing
    <2> QED BY <1>2, <1>5, <1>6, <1>7, <2>1 DEF InFlash, CopyIsNew, Recorder!Changing
  <1>8. CASE /\ panel' = Recorder!Scheduled([free EXCEPT !.status = s])
             /\ copy' = Recorder!Prepared(Recorder!CopyAfter(s), panel.open)
    <2>1. [free EXCEPT !.status = s] \in Panels /\ [free EXCEPT !.status = s].status = s
          /\ panel.open \in BOOLEAN
      BY <1>3, <1>4 DEF Panels
    <2>2. panel' \in Panels /\ panel'.status = s /\ (panel'.open => panel'.timer)
      BY <1>8, <2>1, ScheduledTyped
    <2>3. copy' \in Copies /\ (copy'.stage = "ready" => copy'.text >= s.rec)
      BY <1>3, <1>8, <2>1, CopyTyped, PreparedTyped DEF CopyIsNew
    <2> QED BY <1>2, <1>3, <1>5, <1>6, <2>2, <2>3 DEF InFlash, CopyIsNew, Looking, Recorder!Changing
  <1>9. CASE panel' = Recorder!Scheduled(free) /\ UNCHANGED copy
    <2>1. panel' \in Panels /\ panel'.status = panel.status /\ (panel'.open => panel'.timer)
      BY <1>4, <1>9, ScheduledTyped
    <2> QED BY <1>2, <1>5, <1>6, <1>9, <2>1 DEF InFlash, CopyIsNew, Looking, Recorder!Changing
  <1> QED BY <1>2, <1>7, <1>8, <1>9

LEMMA RecorderRequests == RecorderInv /\ Recorder!Request => RecorderInv'
  <1> SUFFICES ASSUME RecorderInv, Recorder!Request PROVE RecorderInv'
    OBVIOUS
  <1> USE DEF RecorderInv, RecShape
  <1>1. /\ UNCHANGED <<recorder, reads, setting, copy, misled>> /\ said' = Recorder!NoNotice
        /\ panel' = [panel EXCEPT !.asks = TRUE]
    BY DEF Recorder!Request
  <1>2. /\ panel' \in Panels /\ panel'.status = panel.status /\ panel'.open = panel.open
        /\ panel'.timer = panel.timer
    BY <1>1 DEF Panels
  <1> QED BY <1>1, <1>2, RecMembers DEF InFlash, CopyIsNew, Looking, Recorder!Changing

LEMMA RecorderStartsChange == RecorderInv /\ (\E k \in Recorder!Kinds : Recorder!StartChange(k)) => RecorderInv'
  <1> SUFFICES ASSUME RecorderInv, (\E k \in Recorder!Kinds : Recorder!StartChange(k)) PROVE RecorderInv'
    OBVIOUS
  <1> USE DEF RecorderInv, RecShape
  <1>1. PICK k \in Recorder!Kinds : Recorder!StartChange(k)
    OBVIOUS
  <1>2. /\ UNCHANGED <<recorder, misled>> /\ copy' = Recorder!NoCopy /\ said' = Recorder!NoNotice
        /\ setting' = [ stage |-> "post", kind |-> k, was |-> panel.status.rec ]
        /\ panel' = [panel EXCEPT !.busy = TRUE, !.asks = FALSE, !.timer = FALSE,
                       !.pending = IF k = "restart" THEN @ ELSE k]
        /\ reads' = [r \in Recorder!Readers |->
                       IF reads[r] = Recorder!NoRead THEN Recorder!NoRead ELSE [reads[r] EXCEPT !.old = TRUE]]
    BY <1>1 DEF Recorder!StartChange
  <1>3. setting' \in Settings /\ setting'.stage = "post" /\ setting'.kind = k
    BY <1>2, RecMembers DEF Settings, Panels, Known
  <1> DEFINE chosen == IF k = "restart" THEN panel.pending ELSE k
  <1>4. chosen \in Choices /\ panel' = [panel EXCEPT !.busy = TRUE, !.asks = FALSE, !.timer = FALSE, !.pending = chosen]
    BY <1>2, RecMembers DEF Panels
  <1> HIDE DEF chosen
  <1>5. panel' \in Panels /\ panel'.status = panel.status
    BY <1>4 DEF Panels
  <1>6. ASSUME NEW r \in Recorder!Readers
        PROVE  reads'[r] \in OneRead /\ reads'[r].rec <= recorder.rec
    <2>1. reads[r] \in OneRead /\ reads[r].rec <= recorder.rec /\ recorder.rec \in Nat
      BY DEF Reads, CopyIsNew, Recorders
    <2>2. CASE reads[r] = Recorder!NoRead
      BY <1>2, <2>1, <2>2, RecMembers
    <2>3. CASE reads[r] # Recorder!NoRead
      <3>1. reads'[r] = [reads[r] EXCEPT !.old = TRUE]
        BY <1>2, <2>3
      <3> QED BY <2>1, <3>1 DEF OneRead
    <2> QED BY <2>2, <2>3
  <1>7. reads' \in Reads
    BY <1>2, <1>6 DEF Reads
  <1>8. Recorder!Changing'
    BY <1>3 DEF Recorder!Changing, Recorder!NoSetting
  <1> QED BY <1>2, <1>3, <1>5, <1>6, <1>7, <1>8, RecMembers DEF InFlash, CopyIsNew, Looking

LEMMA RecorderNewToken == RecorderInv /\ Recorder!NewToken => RecorderInv'
  <1> SUFFICES ASSUME RecorderInv, Recorder!NewToken PROVE RecorderInv'
    OBVIOUS
  <1> USE DEF RecorderInv, RecShape
  <1>1. /\ UNCHANGED <<recorder, reads, setting, said, misled>> /\ setting.stage = "post"
        /\ panel' = [panel EXCEPT !.status = Recorder!Status] /\ copy' = Recorder!CopyAfter(Recorder!Status)
    BY DEF Recorder!NewToken
  <1>2. panel' \in Panels /\ panel'.status = Recorder!Status
    BY <1>1, StatusTyped DEF Panels
  <1>3. copy' \in Copies /\ (copy'.stage = "ready" => copy'.text >= recorder.rec)
    BY <1>1, StatusTyped, CopyTyped DEF CopyIsNew
  <1>4. Recorder!Changing'
    BY <1>1 DEF Recorder!Changing, Recorder!NoSetting
  <1>5. recorder.rec <= recorder.rec
    BY DEF Recorders
  <1> QED BY <1>1, <1>2, <1>3, <1>4, <1>5, StatusTyped DEF InFlash, CopyIsNew, Looking,
       Recorder!Changing

LEMMA RecorderPostAnswered == RecorderInv /\ Recorder!PostAnswered => RecorderInv'
  <1> SUFFICES ASSUME RecorderInv, Recorder!PostAnswered PROVE RecorderInv'
    OBVIOUS
  <1> USE DEF RecorderInv, RecShape
  <1> DEFINE k == setting.kind
             chosen == IF k = "restart" THEN panel.pending ELSE "none"
             p == [panel EXCEPT !.status = Recorder!Status', !.pending = chosen, !.busy = FALSE]
  <1>1. /\ UNCHANGED <<reads, misled>> /\ Recorder!Handles(k) /\ setting' = Recorder!NoSetting
        /\ said' = [ kind |-> k, jolted |-> FALSE ] /\ copy' = Recorder!CopyAfter(Recorder!Status')
        /\ setting.stage = "post"
    BY DEF Recorder!PostAnswered
  <1>2. k \in Recorder!Kinds
    BY <1>1 DEF InFlash, Recorder!Changing, Recorder!NoSetting
  <1>3. /\ recorder' \in Recorders /\ recorder'.rec >= recorder.rec
        /\ k # "restart" => recorder'.flash = Recorder!Wants(k)
    BY <1>1, <1>2, HandledTyped
  <1>4. Recorder!Status' \in Known /\ Recorder!Status'.rec = recorder'.rec
    BY <1>3 DEF Recorder!Status, Recorders, Known
  <1>5. chosen \in Choices
    BY RecMembers DEF Panels
  <1>6. panel' = Recorder!Scheduled(p)
    BY DEF Recorder!PostAnswered, Recorder!Ended, Panels
  <1> HIDE DEF chosen
  <1>7. p \in Panels /\ p.status = Recorder!Status'
    BY <1>4, <1>5 DEF Panels
  <1> HIDE DEF p
  <1>8. panel' \in Panels /\ panel'.status = Recorder!Status' /\ (panel'.open => panel'.timer)
    BY <1>6, <1>7, ScheduledTyped
  <1>9. copy' \in Copies /\ (copy'.stage = "ready" => copy'.text >= recorder'.rec)
    BY <1>1, <1>4, CopyTyped DEF CopyIsNew
  <1>10. said' \in Notices /\ said'.kind = k /\ setting' \in Settings /\ ~Recorder!Changing'
    BY <1>1, <1>2, RecMembers DEF Notices, Recorder!Changing
  <1>11. recorder.rec \in Nat /\ recorder'.rec \in Nat /\ \A r \in Recorder!Readers : reads[r].rec \in Nat
    BY <1>3 DEF Recorders, Reads, OneRead
  <1>12. CopyIsNew'
    BY <1>1, <1>3, <1>4, <1>8, <1>9, <1>11 DEF CopyIsNew
  <1>13. InFlash'
    BY <1>3, <1>10 DEF InFlash
  <1> QED BY <1>1, <1>3, <1>8, <1>9, <1>10, <1>12, <1>13 DEF Looking

LEMMA RecorderPostFails == RecorderInv /\ Recorder!PostFails => RecorderInv'
  <1> SUFFICES ASSUME RecorderInv, Recorder!PostFails PROVE RecorderInv'
    OBVIOUS
  <1> USE DEF RecorderInv, RecShape
  <1> DEFINE k == setting.kind
  <1>1. /\ UNCHANGED <<reads, misled>> /\ setting' = Recorder!NoSetting /\ copy' = Recorder!CopyAfter(panel'.status)
        /\ UNCHANGED recorder \/ Recorder!Handles(k) \/ Recorder!Spoils(k)
        /\ setting.stage = "post"
    BY DEF Recorder!PostFails
  <1>2. k \in Recorder!Kinds /\ said.kind = "none"
    BY <1>1 DEF InFlash, Recorder!Changing, Recorder!NoSetting
  <1>3. recorder.rec \in Nat
    BY DEF Recorders
  <1>4. recorder' \in Recorders /\ recorder'.rec >= recorder.rec
    BY <1>1, <1>2, <1>3, HandledTyped, SpoiledTyped
  <1>5. Recorder!Status' \in Known /\ Recorder!Status'.rec = recorder'.rec
    BY <1>4 DEF Recorder!Status, Recorders, Known
  <1>6. recorder'.rec \in Nat /\ panel.status \in Known /\ panel.status.rec \in Nat
    BY <1>4 DEF Recorders, Panels, Known
  <1>7. /\ panel' \in Panels /\ (panel'.open => panel'.timer) /\ panel'.status.rec <= recorder'.rec
        /\ said' \in Notices /\ said'.kind \notin {"enable", "disable"}
    <2>1. CASE panel' = Recorder!Ended(panel) /\ UNCHANGED said
      <3>1. [panel EXCEPT !.busy = FALSE] \in Panels /\ [panel EXCEPT !.busy = FALSE].status = panel.status
        BY DEF Panels
      <3>2. panel' \in Panels /\ (panel'.open => panel'.timer) /\ panel'.status = panel.status
        BY <2>1, <3>1, ScheduledTyped DEF Recorder!Ended
      <3> QED BY <1>2, <1>3, <1>4, <1>6, <2>1, <3>2 DEF CopyIsNew
    <2>2. CASE /\ panel' = Recorder!Ended([panel EXCEPT !.status = Recorder!Status'])
               /\ said' = IF Recorder!Status'.on /\ Recorder!Status'.rec # setting.was
                          THEN [ kind |-> "restart", jolted |-> FALSE ] ELSE said
      <3> DEFINE p == [panel EXCEPT !.status = Recorder!Status', !.busy = FALSE]
      <3>1. p \in Panels /\ p.status = Recorder!Status'
        BY <1>5 DEF Panels
      <3>2. panel' = Recorder!Scheduled(p)
        BY <2>2 DEF Recorder!Ended, Panels
      <3> HIDE DEF p
      <3>3. panel' \in Panels /\ (panel'.open => panel'.timer) /\ panel'.status = Recorder!Status'
        BY <3>1, <3>2, ScheduledTyped
      <3>4. [ kind |-> "restart", jolted |-> FALSE ] \in Notices
        BY RecMembers DEF Notices
      <3> QED BY <1>2, <1>5, <1>6, <2>2, <3>3, <3>4
    <2> QED BY <2>1, <2>2 DEF Recorder!PostFails, Recorder!AfterFailure
  <1>8. panel'.status \in Known
    BY <1>7 DEF Panels
  <1>9. copy' \in Copies /\ (copy'.stage = "ready" => copy'.text >= panel'.status.rec)
    BY <1>1, <1>8, CopyTyped DEF CopyIsNew
  <1>10. setting' \in Settings /\ ~Recorder!Changing'
    BY <1>1, RecMembers DEF Recorder!Changing
  <1>11. \A r \in Recorder!Readers : reads[r].rec \in Nat
    BY DEF Reads, OneRead
  <1>12. CopyIsNew'
    BY <1>1, <1>3, <1>4, <1>6, <1>7, <1>9, <1>11 DEF CopyIsNew
  <1> QED BY <1>1, <1>4, <1>7, <1>9, <1>10, <1>12 DEF InFlash, Looking

LEMMA RecorderCopyArrives == RecorderInv /\ Recorder!CopyArrives => RecorderInv'
  <1> SUFFICES ASSUME RecorderInv, Recorder!CopyArrives PROVE RecorderInv'
    OBVIOUS
  <1> USE DEF RecorderInv, RecShape
  <1>1. PICK ok \in BOOLEAN : copy' = IF ok THEN [ stage |-> "ready", text |-> recorder.rec ]
                                      ELSE [copy EXCEPT !.stage = "failed"]
    BY DEF Recorder!CopyArrives
  <1>2. UNCHANGED <<recorder, panel, reads, setting, said, misled>>
    BY DEF Recorder!CopyArrives
  <1>3. recorder.rec \in Nat /\ panel.status.rec \in Nat
    BY DEF Recorders, Panels, Known
  <1>4. copy' \in Copies /\ (copy'.stage = "ready" => copy'.text = recorder.rec)
    <2>1. CASE ok
      BY <1>1, <1>3, <2>1, RecMembers DEF Copies
    <2>2. CASE ~ok
      BY <1>1, <2>2, RecMembers DEF Copies
    <2> QED BY <2>1, <2>2
  <1> QED BY <1>2, <1>3, <1>4 DEF InFlash, CopyIsNew, Looking, Recorder!Changing

LEMMA RecorderSelectsRange == RecorderInv /\ Recorder!SelectRange => RecorderInv'
  <1> SUFFICES ASSUME RecorderInv, Recorder!SelectRange PROVE RecorderInv'
    OBVIOUS
  <1> USE DEF RecorderInv, RecShape
  <1>1. /\ UNCHANGED <<recorder, panel, reads, setting, misled>> /\ said' = Recorder!NoNotice
        /\ copy' = Recorder!Prepared(Recorder!NoCopy, ~Recorder!Changing)
    BY DEF Recorder!SelectRange
  <1>2. copy' \in Copies /\ copy'.stage # "ready"
    BY <1>1, PreparedTyped, RecMembers DEF Recorder!Changing
  <1> QED BY <1>1, <1>2, RecMembers DEF InFlash, CopyIsNew, Looking, Recorder!Changing

LEMMA RecorderCopies == RecorderInv /\ Recorder!Copy => RecorderInv'
  <1> SUFFICES ASSUME RecorderInv, Recorder!Copy PROVE RecorderInv'
    OBVIOUS
  <1> USE DEF RecorderInv, RecShape
  <1>1. /\ UNCHANGED <<recorder, panel, reads, setting, copy>> /\ said' = Recorder!NoNotice
        /\ misled' = (misled \/ copy.text < panel.status.rec) /\ copy.stage = "ready"
    BY DEF Recorder!Copy
  <1>2. ~(copy.text < panel.status.rec)
    BY <1>1 DEF CopyIsNew, Copies, Panels, Known
  <1>3. misled' = FALSE
    BY <1>1, <1>2 DEF CopyIsNew
  <1> QED BY <1>1, <1>3, RecMembers DEF InFlash, CopyIsNew, Looking, Recorder!Changing

LEMMA RecorderJolts == RecorderInv /\ Recorder!Jolt => RecorderInv'
  <1> SUFFICES ASSUME RecorderInv, Recorder!Jolt PROVE RecorderInv'
    OBVIOUS
  <1> USE DEF RecorderInv, RecShape
  <1>1. UNCHANGED <<panel, reads, setting, copy, misled>>
    BY DEF Recorder!Jolt
  <1>2. /\ recorder' \in Recorders /\ recorder'.rec >= recorder.rec /\ said' \in Notices
        /\ said'.kind = said.kind
        /\ \/ recorder'.flash = recorder.flash /\ said' = said
           \/ said'.jolted
    <2>1. CASE (\E ok \in BOOLEAN :
                  recorder' = Recorder!Fresh([recorder EXCEPT !.boot = @ + 1, !.dirty = ~ok,
                                                              !.on = IF ok THEN recorder.flash ELSE TRUE]))
               /\ UNCHANGED said
      <3>1. PICK ok \in BOOLEAN :
              recorder' = Recorder!Fresh([recorder EXCEPT !.boot = @ + 1, !.dirty = ~ok,
                                                          !.on = IF ok THEN recorder.flash ELSE TRUE])
        BY <2>1
      <3> DEFINE on == IF ok THEN recorder.flash ELSE TRUE
                 d  == [recorder EXCEPT !.boot = @ + 1, !.dirty = ~ok, !.on = on]
      <3>0. recorder.flash \in BOOLEAN /\ recorder.boot \in Nat /\ recorder.rec \in Nat
        BY DEF Recorders
      <3>2. on \in BOOLEAN /\ recorder.boot + 1 \in Nat /\ recorder.rec \in Nat
        <4>1. CASE ok
          BY <3>0, <4>1
        <4>2. CASE ~ok
          BY <3>0, <4>2
        <4> QED BY <4>1, <4>2
      <3> HIDE DEF on
      <3>3. d \in Recorders /\ d.flash = recorder.flash /\ d.rec = recorder.rec
        BY <3>2 DEF Recorders
      <3>4. recorder' = [d EXCEPT !.rec = d.rec + 1]
        BY <3>1 DEF Recorder!Fresh, on
      <3> HIDE DEF d
      <3> QED BY <2>1, <3>2, <3>3, <3>4 DEF Recorders
    <2>2. CASE (\E k \in Recorder!Kinds : Recorder!Handles(k)) /\ said' = [said EXCEPT !.jolted = TRUE]
      BY <2>2, HandledTyped DEF Notices
    <2> QED BY <2>1, <2>2 DEF Recorder!Jolt
  <1>3. /\ recorder.rec \in Nat /\ recorder'.rec \in Nat /\ panel.status.rec \in Nat
        /\ \A r \in Recorder!Readers : reads[r].rec \in Nat
    BY <1>2 DEF Recorders, Panels, Known, Reads, OneRead
  <1>4. CopyIsNew'
    BY <1>1, <1>2, <1>3 DEF CopyIsNew
  <1>5. InFlash'
    BY <1>1, <1>2 DEF InFlash, Recorder!Changing
  <1> QED BY <1>1, <1>2, <1>4, <1>5 DEF Looking, Recorder!Changing

LEMMA RecorderStarts == Recorder!Init => RecorderInv
  <1> SUFFICES ASSUME Recorder!Init PROVE RecorderInv
    OBVIOUS
  <1>1. recorder \in Recorders /\ recorder.rec = 1
    BY DEF Recorder!Init, Recorders
  <1>2. panel \in Panels /\ panel.status = Recorder!Status /\ ~panel.open
    BY <1>1, StatusTyped, RecMembers DEF Recorder!Init, Panels
  <1>3. reads \in Reads /\ \A r \in Recorder!Readers : reads[r].rec = 0
    BY RecMembers DEF Recorder!Init, Reads
  <1>4. /\ setting = Recorder!NoSetting /\ copy = Recorder!NoCopy /\ said = Recorder!NoNotice
        /\ misled = FALSE
    BY DEF Recorder!Init
  <1>5. CopyIsNew
    <2>1. panel.status.rec = 1
      BY <1>1, <1>2, StatusTyped
    <2>2. copy.stage # "ready"
      BY <1>4, RecMembers
    <2> QED BY <1>1, <1>3, <1>4, <2>1, <2>2 DEF CopyIsNew
  <1> QED BY <1>1, <1>2, <1>3, <1>4, <1>5, RecMembers DEF RecorderInv, RecShape, InFlash,
       Looking, Recorder!Changing

LEMMA RecorderNext == RecorderInv /\ [Recorder!Next]_recorderVars => RecorderInv'
  <1> SUFFICES ASSUME RecorderInv, [Recorder!Next]_recorderVars PROVE RecorderInv'
    OBVIOUS
  <1>1. CASE Recorder!Next
    BY <1>1, RecorderOpens, RecorderCloses, RecorderTimerFires, RecorderReadEnds,
         RecorderRequests, RecorderStartsChange, RecorderNewToken, RecorderPostAnswered,
         RecorderPostFails, RecorderCopyArrives, RecorderSelectsRange, RecorderCopies,
         RecorderJolts DEF Recorder!Next
  <1>2. CASE UNCHANGED recorderVars
    BY <1>2 DEF recorderVars, RecorderInv, RecShape, InFlash, CopyIsNew, Looking, Recorder!Changing
  <1> QED BY <1>1, <1>2

LEMMA RecorderFaith == RecorderInv => Recorder!RecorderTold
  BY DEF RecorderInv, InFlash, CopyIsNew, Looking, Recorder!RecorderTold

-----------------------------------------------------------------------------
(***************************************************************************)
(* Part 6: the tasks of the mock device                                    *)
(***************************************************************************)
Tasks    == {"none", "boiler", "autotune", "purge", "calibration", "flow", "hp"}
Progress == {"idle", "busy", "measuring", "done", "active", "aborted", "applied"}
Lamps    == {"cm", "burner"} \cup Tasks
HpModes  == {"Standby", "Heating", "Cooling"}
Reported == {"Idle", "Starting", "Uploading", "Rebooting"}

Asked   == [ alternate : BOOLEAN, single : BOOLEAN ]
Benches == [ cm : BOOLEAN, task : Tasks, phase : Progress, lit : SUBSET Lamps, flow : BOOLEAN ]
Timed   == [ task : Tasks, next : Nat ]
Otas    == [ status : Reported, done : Nat, timers : BOOLEAN, asked : Bench!Targets,
             channel : Bench!Channels ]
Builds  == [ alternate : BOOLEAN, single : BOOLEAN, channel : Bench!Channels,
             target : Bench!Targets, asked : Asked ]

(* A task that is pending has its next step still to come.                 *)
Due(d) == d = Bench!NoSteps \/ (d.task \in Bench!TimedTask /\ d.next \in 1 .. Len(Bench!Chain[d.task]))

BenchShape ==
  /\ bench \in Benches /\ timed \in Timed /\ Due(timed) /\ quick \in BOOLEAN
  /\ modes \in [Bench!Hps -> HpModes]
  /\ ota \in Otas /\ build \in Builds

(* Whoever leaves CM100 ends the boiler test and the quick test with it:   *)
(* the quick test's own end leaves the timers of the other tasks alone, so *)
(* the boiler test and a quick test are never pending together.            *)
EndedWithCm100 ==
  /\ timed.task = "boiler" \/ quick => bench.cm
  /\ quick => timed.task # "boiler"
  /\ "cm" \in bench.lit => bench.cm

NeverOpposite ==
  \A g, h \in Bench!Hps : modes[g] # "Standby" /\ modes[h] # "Standby" => modes[g] = modes[h]

(* An update that runs has its next step still to come.                    *)
UnderWay ==
  /\ (ota.status = "Idle") = ~ota.timers
  /\ ota.timers => ota.channel = build.channel /\ ota.done < Bench!OtaSteps

BenchInv == BenchShape /\ EndedWithCm100 /\ NeverOpposite /\ UnderWay

(* Names for the values, so that no proof opens the sets above.            *)
LEMMA BenchMembers ==
  /\ "none" \in Tasks /\ "flow" \in Tasks /\ \A p \in {"idle", "busy", "measuring", "done", "active", "aborted",
                               "applied"} : p \in Progress
  /\ \A t \in Tasks : t \in Lamps /\ t # "cm"
  /\ "cm" \in Lamps /\ "burner" \in Lamps
  /\ "Idle" \in Reported /\ "Starting" \in Reported
  BY DEF Tasks, Progress, Lamps, Reported

(* applyScenario changes what is shown, not whether CM100 is on.           *)
LEMMA AppliedShape ==
  ASSUME NEW b \in Benches, NEW c \in Bench!Applied(b), "cm" \in b.lit => b.cm
  PROVE  /\ c \in Benches /\ c.cm = b.cm
         /\ "cm" \in c.lit => c.cm
  <1>1. CASE ~b.cm
    <2>1. Bench!Shown(b) = b
      BY <1>1 DEF Bench!Shown
    <2>2. c = b \/ \E f \in BOOLEAN : c = [b EXCEPT !.flow = f]
      BY <2>1 DEF Bench!Applied
    <2> QED BY <1>1, <2>2 DEF Benches
  <1>2. CASE b.cm
    <2> DEFINE lamps == {"cm"} \cup (IF Bench!Active(b) /\ b.task # "autotune" THEN {b.task} ELSE {})
                          \cup {f \in {"burner"} : b.task = "boiler" /\ b.phase = "measuring"}
    <2>1. lamps \in SUBSET Lamps
      <3>1. b.task \in Tasks
        BY DEF Benches
      <3>3. b.task \in Lamps
        BY <3>1 DEF Lamps
      <3>2. \A l \in lamps : l = "cm" \/ l = b.task \/ l = "burner"
        OBVIOUS
      <3> HIDE DEF lamps
      <3> QED BY <3>2, <3>3, BenchMembers
    <2>2. Bench!Active(b) \in BOOLEAN
      BY DEF Bench!Active
    <2>3. c = [b EXCEPT !.lit = lamps, !.flow = Bench!Active(b)]
      BY <1>2 DEF Bench!Applied, Bench!Shown
    <2> HIDE DEF lamps
    <2> QED BY <1>2, <2>1, <2>2, <2>3 DEF Benches
  <1> QED BY <1>1, <1>2 DEF Benches

LEMMA ChainSteps ==
  \A t \in Bench!TimedTask : /\ t \in Tasks \ {"none"}
                            /\ 1 \in 1 .. Len(Bench!Chain[t])
                            /\ \A i \in 1 .. Len(Bench!Chain[t]) : Bench!Chain[t][i] \in Progress
  <1>1. Bench!TimedTask = {"boiler", "autotune", "purge", "calibration"}
    BY DEF Bench!TimedTask, Bench!Chain
  <1>2. /\ Bench!Chain["boiler"] = <<"busy", "busy", "measuring", "done">>
        /\ Bench!Chain["autotune"] = <<"busy", "busy", "measuring", "done">>
        /\ Bench!Chain["purge"] = <<"busy", "busy", "busy", "done">>
        /\ Bench!Chain["calibration"] = <<"busy", "measuring", "done">>
    BY DEF Bench!Chain, Bench!BoilerSteps, Bench!AutotuneSteps, Bench!PurgeSteps,
           Bench!CalibrationSteps
  <1>3. "busy" \in Progress /\ "measuring" \in Progress /\ "done" \in Progress
    BY BenchMembers
  <1>4. \A s \in {<<"busy", "busy", "measuring", "done">>, <<"busy", "busy", "busy", "done">>,
                  <<"busy", "measuring", "done">>} :
          1 \in 1 .. Len(s) /\ \A i \in 1 .. Len(s) : s[i] \in Progress
    BY <1>3
  <1> QED BY <1>1, <1>2, <1>4 DEF Tasks

LEMMA NothingDue == Bench!NoSteps \in Timed /\ Due(Bench!NoSteps) /\ Bench!NoSteps.task = "none"
  BY BenchMembers DEF Bench!NoSteps, Timed, Due

(* Whatever is started, it is shown with its lamp and enough flow.         *)
LEMMA StartedShape ==
  ASSUME NEW b \in Benches, NEW t \in Tasks, NEW p \in Progress, NEW l \in SUBSET Lamps,
         NEW c, c = [b EXCEPT !.task = t, !.phase = p, !.flow = TRUE, !.lit = @ \cup l]
  PROVE  c \in Benches /\ c.cm = b.cm
  BY DEF Benches

LEMMA NoUpdateTyped ==
  Bench!NoUpdate \in Otas /\ Bench!NoUpdate.status = "Idle" /\ Bench!NoUpdate.timers = FALSE
  BY BenchMembers DEF Bench!NoUpdate, Otas, Bench!Targets, Bench!Channels

LEMMA RestingModes ==
  /\ Bench!Resting \in [Bench!Hps -> HpModes]
  /\ \A h \in Bench!Hps : Bench!Resting[h] = "Standby"
  BY DEF Bench!Resting, Bench!Hps, HpModes

(* A press of a button of CM100 leaves the update alone.                   *)
BenchHolds == bench \in Benches /\ timed \in Timed /\ Due(timed) /\ quick \in BOOLEAN
              /\ modes \in [Bench!Hps -> HpModes] /\ EndedWithCm100 /\ NeverOpposite

LEMMA BenchTicks == BenchInv /\ Bench!Tick => BenchInv'
  <1> SUFFICES ASSUME BenchInv, Bench!Tick PROVE BenchInv'
    OBVIOUS
  <1>1. bench' \in Benches /\ bench'.cm = bench.cm /\ ("cm" \in bench'.lit => bench'.cm)
    BY AppliedShape DEF BenchInv, BenchShape, EndedWithCm100, Bench!Tick
  <1>2. UNCHANGED <<timed, quick, modes, ota, build>>
    BY DEF Bench!Tick, Bench!otaVars
  <1> QED BY <1>1, <1>2 DEF BenchInv, BenchShape, EndedWithCm100, NeverOpposite, UnderWay

LEMMA BenchSwitches ==
  ASSUME BenchInv, NEW on \in BOOLEAN, Bench!Cm100(on)
  PROVE  BenchHolds'
  <1>1. timed' = Bench!NoSteps /\ quick' = FALSE /\ modes' = Bench!Resting
    BY DEF Bench!Cm100
  <1>2. bench' \in Benches /\ bench'.cm = on /\ ("cm" \in bench'.lit => on)
    BY BenchMembers DEF Bench!Cm100, Bench!Idle, BenchInv, BenchShape, Benches
  <1>3. timed' \in Timed /\ Due(timed') /\ timed'.task = "none"
    BY <1>1, NothingDue
  <1> QED BY <1>1, <1>2, <1>3, RestingModes DEF BenchHolds, EndedWithCm100, NeverOpposite

LEMMA BenchStartsTimed ==
  ASSUME BenchInv, NEW t \in Bench!TimedTask, Bench!StartTimed(t)
  PROVE  BenchHolds'
  <1>0. t \in Tasks \ {"none"}
    BY ChainSteps
  <1>1. CASE ~bench.cm
    BY <1>1 DEF Bench!StartTimed, BenchHolds, BenchInv, BenchShape, EndedWithCm100, NeverOpposite
  <1>2. CASE bench.cm
    <2>1. bench' \in Benches /\ bench'.cm = TRUE
      <3>1. t \in Tasks /\ "busy" \in Progress /\ {t} \ {"autotune"} \in SUBSET Lamps /\ bench \in Benches
        BY <1>0, BenchMembers DEF BenchInv, BenchShape
      <3>2. bench' = [bench EXCEPT !.task = t, !.phase = "busy", !.flow = TRUE,
                                   !.lit = @ \cup ({t} \ {"autotune"})]
        BY <1>2 DEF Bench!StartTimed
      <3> QED BY <1>2, <3>1, <3>2, StartedShape DEF BenchInv, BenchShape, Benches
    <2>2. timed' \in Timed /\ Due(timed') /\ timed'.task = t
      <3>1. timed' = [ task |-> t, next |-> 1 ]
        BY <1>2 DEF Bench!StartTimed
      <3> QED BY <1>0, <3>1, ChainSteps DEF Timed, Due
    <2>3. quick' = (quick /\ ~Bench!StopsQuick(t)) /\ UNCHANGED modes
      BY <1>2 DEF Bench!StartTimed
    <2> QED BY <2>1, <2>2, <2>3 DEF BenchHolds, BenchInv, BenchShape, EndedWithCm100,
         NeverOpposite, Bench!StopsQuick
  <1> QED BY <1>1, <1>2

LEMMA BenchAbortsTimed ==
  ASSUME BenchInv, NEW t \in Bench!TimedTask, Bench!AbortTimed(t)
  PROVE  BenchHolds'
  <1>0. t \in Tasks
    BY ChainSteps
  <1>1. timed' = Bench!NoSteps /\ UNCHANGED <<quick, modes>>
    BY DEF Bench!AbortTimed
  <1>2. bench' \in Benches /\ bench'.cm = bench.cm /\ bench'.lit \subseteq bench.lit
    BY <1>0, BenchMembers DEF Bench!AbortTimed, BenchInv, BenchShape, Benches
  <1>3. timed' \in Timed /\ Due(timed') /\ timed'.task = "none"
    BY <1>1, NothingDue
  <1> QED BY <1>1, <1>2, <1>3 DEF BenchHolds, BenchInv, BenchShape, EndedWithCm100, NeverOpposite

LEMMA BenchAppliesTimed ==
  ASSUME BenchInv, NEW t \in Bench!TimedTask, Bench!ApplyTimed(t)
  PROVE  BenchHolds'
  <1>0. t \in Tasks
    BY ChainSteps
  <1>1. UNCHANGED <<timed, quick, modes>>
    BY DEF Bench!ApplyTimed
  <1>2. bench' \in Benches /\ bench'.cm = bench.cm /\ bench'.lit = bench.lit
    BY <1>0, BenchMembers DEF Bench!ApplyTimed, BenchInv, BenchShape, Benches
  <1> QED BY <1>1, <1>2 DEF BenchHolds, BenchInv, BenchShape, EndedWithCm100, NeverOpposite

LEMMA BenchStartsManual ==
  ASSUME BenchInv, NEW k \in Bench!Manual, Bench!StartManual(k)
  PROVE  BenchHolds'
  <1>0. k \in Tasks
    BY DEF Bench!Manual, Tasks
  <1>1. modes' \in {modes, Bench!Resting} /\ UNCHANGED <<timed, quick>>
    BY DEF Bench!StartManual
  <1>2. bench' \in Benches /\ bench'.cm = bench.cm /\ ("cm" \in bench'.lit => bench'.cm)
    <2>1. CASE ~bench.cm
      BY <2>1 DEF Bench!StartManual, BenchInv, BenchShape, EndedWithCm100
    <2>2. CASE bench.cm
      <3>1. k \in Tasks /\ "active" \in Progress /\ {k} \in SUBSET Lamps /\ bench \in Benches
        BY <1>0, BenchMembers DEF BenchInv, BenchShape
      <3>2. bench' = [bench EXCEPT !.task = k, !.phase = "active", !.flow = TRUE, !.lit = @ \cup {k}]
        BY <2>2 DEF Bench!StartManual
      <3> QED BY <2>2, <3>1, <3>2, StartedShape
    <2> QED BY <2>1, <2>2 DEF BenchInv, BenchShape, Benches
  <1> QED BY <1>1, <1>2, RestingModes DEF BenchHolds, BenchInv, BenchShape, EndedWithCm100,
       NeverOpposite

LEMMA BenchAbortsManual ==
  ASSUME BenchInv, NEW k \in Bench!Manual, Bench!AbortManual(k)
  PROVE  BenchHolds'
  <1>0. k \in Tasks
    BY DEF Bench!Manual, Tasks
  <1>1. modes' \in {modes, Bench!Resting} /\ UNCHANGED <<timed, quick>>
    BY DEF Bench!AbortManual
  <1>2. bench' \in Benches /\ bench'.cm = bench.cm /\ bench'.lit \subseteq bench.lit
    BY <1>0, BenchMembers DEF Bench!AbortManual, BenchInv, BenchShape, Benches
  <1> QED BY <1>1, <1>2, RestingModes DEF BenchHolds, BenchInv, BenchShape, EndedWithCm100,
       NeverOpposite

LEMMA BenchStartsQuick ==
  ASSUME BenchInv, Bench!StartQuick
  PROVE  BenchHolds'
  <1>1. CASE ~bench.cm
    BY <1>1 DEF Bench!StartQuick, BenchHolds, BenchInv, BenchShape, EndedWithCm100, NeverOpposite
  <1>2. CASE bench.cm
    <2>1. bench' \in Benches /\ bench'.cm = TRUE
      <3>1. "flow" \in Tasks /\ "active" \in Progress /\ {"flow"} \in SUBSET Lamps /\ bench \in Benches
        BY BenchMembers DEF BenchInv, BenchShape
      <3>2. bench' = [bench EXCEPT !.task = "flow", !.phase = "active", !.flow = TRUE,
                                   !.lit = @ \cup {"flow"}]
        BY <1>2 DEF Bench!StartQuick
      <3> QED BY <1>2, <3>1, <3>2, StartedShape DEF BenchInv, BenchShape, Benches
    <2>2. timed' \in Timed /\ Due(timed') /\ timed'.task = "none" /\ quick' = TRUE /\ UNCHANGED modes
      BY <1>2, NothingDue DEF Bench!StartQuick
    <2> QED BY <2>1, <2>2 DEF BenchHolds, BenchInv, BenchShape, EndedWithCm100, NeverOpposite
  <1> QED BY <1>1, <1>2

LEMMA BenchAbortsQuick ==
  ASSUME BenchInv, Bench!AbortQuick
  PROVE  BenchHolds'
  <1>1. bench' \in Benches /\ "cm" \notin bench'.lit
    BY BenchMembers DEF Bench!AbortQuick, Bench!Idle, BenchInv, BenchShape, Benches
  <1>2. timed' \in Timed /\ Due(timed') /\ timed'.task = "none" /\ quick' = FALSE /\ UNCHANGED modes
    BY NothingDue DEF Bench!AbortQuick
  <1> QED BY <1>1, <1>2 DEF BenchHolds, BenchInv, BenchShape, EndedWithCm100, NeverOpposite

(* A mode is only taken next to one that does not oppose it.               *)
LEMMA BenchSelectsMode ==
  ASSUME BenchInv, NEW h \in Bench!Hps, NEW m \in {"Standby", "Heating", "Cooling"},
         Bench!SelectMode(h, m)
  PROVE  BenchHolds'
  <1>1. UNCHANGED <<timed, quick>>
    BY DEF Bench!SelectMode
  <1>2. bench' \in Bench!Applied(bench)
    BY DEF Bench!SelectMode, Bench!Applied
  <1>3. bench' \in Benches /\ bench'.cm = bench.cm /\ ("cm" \in bench'.lit => bench'.cm)
    BY <1>2, AppliedShape DEF BenchInv, BenchShape, EndedWithCm100
  <1>4. modes' \in [Bench!Hps -> HpModes] /\ NeverOpposite'
    <2>1. CASE UNCHANGED modes
      BY <2>1 DEF BenchInv, BenchShape, NeverOpposite
    <2>2. CASE modes' = [modes EXCEPT ![h] = m] /\ (m = "Standby" \/ Bench!Agree(h, m))
      BY <2>2 DEF BenchInv, BenchShape, NeverOpposite, HpModes, Bench!Agree
    <2> QED BY <2>1, <2>2 DEF Bench!SelectMode
  <1> QED BY <1>1, <1>3, <1>4 DEF BenchHolds, BenchInv, BenchShape, EndedWithCm100

LEMMA BenchPressed == BenchInv /\ Bench!Button => BenchInv'
  <1> SUFFICES ASSUME BenchInv, Bench!Button PROVE BenchInv'
    OBVIOUS
  <1>1. BenchHolds'
    BY BenchSwitches, BenchStartsTimed, BenchAbortsTimed, BenchAppliesTimed, BenchStartsManual,
       BenchAbortsManual, BenchStartsQuick, BenchAbortsQuick, BenchSelectsMode, BenchMembers DEF Bench!Button
  <1>2. UNCHANGED <<ota, build>>
    BY DEF Bench!Button, Bench!otaVars
  <1> QED BY <1>1, <1>2 DEF BenchHolds, BenchInv, BenchShape, UnderWay

(* A step changes CM100 only at the end of a purge.                        *)
LEMMA BenchStepFires == BenchInv /\ Bench!StepFires => BenchInv'
  <1> SUFFICES ASSUME BenchInv, Bench!StepFires PROVE BenchInv'
    OBVIOUS
  <1> DEFINE t == timed.task
             done == timed.next = Len(Bench!Chain[t])
             After(leave) == [bench EXCEPT
               !.task = t, !.cm = @ /\ ~leave,
               !.phase = Bench!Chain[t][timed.next],
               !.lit = @ \ ((IF done THEN {t} ELSE {}) \cup (IF leave THEN {"cm"} ELSE {}))]
  <1>1. /\ timed # Bench!NoSteps /\ (done => ~quick)
        /\ UNCHANGED <<quick, modes, ota, build>>
        /\ timed' = IF done THEN Bench!NoSteps ELSE [timed EXCEPT !.next = @ + 1]
    BY DEF Bench!StepFires, Bench!otaVars
  <1>2. PICK leave \in BOOLEAN : (leave => done /\ t = "purge") /\ bench' \in Bench!Applied(After(leave))
    BY DEF Bench!StepFires
  <1>3. /\ t \in Bench!TimedTask /\ t \in Tasks \ {"none"}
        /\ Bench!Chain[t][timed.next] \in Progress
    BY <1>1, ChainSteps DEF BenchInv, BenchShape, Due
  <1>4. /\ After(leave) \in Benches /\ After(leave).cm = (bench.cm /\ ~leave)
        /\ "cm" \in After(leave).lit => After(leave).cm
    BY <1>3, BenchMembers DEF BenchInv, BenchShape, EndedWithCm100, Benches
  <1>5. bench' \in Benches /\ bench'.cm = (bench.cm /\ ~leave) /\ ("cm" \in bench'.lit => bench'.cm)
    <2> HIDE DEF After
    <2> QED BY <1>2, <1>4, AppliedShape
  <1>6. timed' \in Timed /\ Due(timed') /\ timed'.task \in {t, "none"} /\ (done => timed'.task = "none")
    <2>1. CASE done
      BY <1>1, <2>1, NothingDue
    <2>2. CASE ~done
      BY <1>1, <1>3, <2>2, ChainSteps, BenchMembers DEF BenchInv, BenchShape, Timed, Due
    <2> QED BY <2>1, <2>2
  <1>7. EndedWithCm100'
    BY <1>1, <1>2, <1>5, <1>6 DEF BenchInv, EndedWithCm100
  <1> QED BY <1>1, <1>5, <1>6, <1>7 DEF BenchInv, BenchShape, NeverOpposite, UnderWay

(* The end of the quick test leaves CM100, with no boiler test pending.    *)
LEMMA BenchQuickEnds == BenchInv /\ Bench!QuickEnds => BenchInv'
  <1> SUFFICES ASSUME BenchInv, Bench!QuickEnds PROVE BenchInv'
    OBVIOUS
  <1> DEFINE left == [Bench!Idle(FALSE, bench) EXCEPT !.flow = FALSE, !.lit = @ \ {"cm", "flow"}]
  <1>1. quick = TRUE /\ quick' = FALSE /\ UNCHANGED <<timed, modes, ota, build>>
    BY DEF Bench!QuickEnds, Bench!otaVars, BenchInv, BenchShape
  <1>2. left \in Benches /\ left.cm = FALSE /\ "cm" \notin left.lit
    BY BenchMembers DEF Bench!Idle, BenchInv, BenchShape, Benches
  <1>3. bench' \in Bench!Applied(left)
    BY DEF Bench!QuickEnds
  <1> HIDE DEF left
  <1>4. bench' \in Benches /\ ("cm" \in bench'.lit => bench'.cm)
    BY <1>2, <1>3, AppliedShape
  <1> QED BY <1>1, <1>4 DEF BenchInv, BenchShape, EndedWithCm100, NeverOpposite, UnderWay

LEMMA BenchUpdateUsed == BenchInv /\ Bench!UpdateUsed => BenchInv'
  <1> SUFFICES ASSUME BenchInv, Bench!UpdateUsed PROVE BenchInv'
    OBVIOUS
  <1>1. UNCHANGED <<bench, timed, quick, modes>>
    BY DEF Bench!UpdateUsed, Bench!taskVars
  <1>2. ota' \in Otas /\ build' \in Builds /\ UnderWay'
    <2>1. CASE Bench!Install
      <3>1. ota' = [ status |-> "Starting", done |-> 0, timers |-> TRUE, asked |-> build.target,
                     channel |-> build.channel ]
        BY <2>1 DEF Bench!Install
      <3>2. build.target \in Bench!Targets /\ build.channel \in Bench!Channels /\ "Starting" \in Reported
        BY BenchMembers DEF BenchInv, BenchShape, Builds
      <3>3. ota' \in Otas
        BY <3>1, <3>2 DEF Otas
      <3>4. PICK a \in Asked : build' = [build EXCEPT !.asked = a]
        <4> DEFINE s == [ alternate |-> Bench!Changes(build.target, "connection") # build.alternate,
                          single |-> Bench!Changes(build.target, "topology") # build.single ]
        <4>1. s \in Asked
          BY DEF Asked
        <4>2. build' = [build EXCEPT !.asked = s]
          BY <2>1 DEF Bench!Install
        <4> QED BY <4>1, <4>2
      <3>5. build' \in Builds /\ build'.channel = build.channel
        BY <3>4 DEF BenchInv, BenchShape, Builds
      <3> QED BY <3>1, <3>3, <3>5 DEF UnderWay, Bench!OtaSteps
    <2>2. CASE Bench!Choose
      BY <2>2, BenchMembers DEF Bench!Choose, BenchInv, BenchShape, Otas, Builds,
           UnderWay, Bench!NoUpdate,
           Bench!Channels, Bench!Targets
    <2>3. CASE Bench!Reconfigure
      <3>1. "current" \in Bench!Targets
        BY DEF Bench!Targets
      <3>2. build' \in Builds /\ build'.channel = build.channel
        BY <2>3, <3>1 DEF Bench!Reconfigure, BenchInv, BenchShape, Builds
      <3> QED BY <2>3, <3>2 DEF Bench!Reconfigure, BenchInv, BenchShape, UnderWay
    <2> QED BY <2>1, <2>2, <2>3 DEF Bench!UpdateUsed
  <1> QED BY <1>1, <1>2 DEF BenchInv, BenchShape, EndedWithCm100, NeverOpposite

LEMMA BenchUpdateStep == BenchInv /\ Bench!UpdateStep => BenchInv'
  <1> SUFFICES ASSUME BenchInv, Bench!UpdateStep PROVE BenchInv'
    OBVIOUS
  <1>1. UNCHANGED <<bench, timed, quick, modes>> /\ ota.timers
    BY DEF Bench!UpdateStep, Bench!taskVars
  <1>2. ota' \in Otas /\ build' \in Builds /\ UnderWay'
    <2>1. CASE ota.done = Bench!OtaSteps - 1
      <3>1. ota' \in Otas /\ ota'.status = "Idle" /\ ota'.timers = FALSE
        BY <1>1, <2>1, NoUpdateTyped DEF Bench!UpdateStep
      <3>2. build' = [build EXCEPT !.alternate = build.asked.alternate, !.single = build.asked.single,
                                   !.target = "current"]
        BY <2>1 DEF Bench!UpdateStep
      <3>3. "current" \in Bench!Targets
        BY DEF Bench!Targets
      <3>4. build' \in Builds
        BY <3>2, <3>3 DEF BenchInv, BenchShape, Builds, Asked
      <3> QED BY <3>1, <3>4 DEF UnderWay
    <2>2. CASE ota.done # Bench!OtaSteps - 1
      <3>1. /\ ota' = [ota EXCEPT !.done = @ + 1, !.status = Bench!Statuses[ota.done + 1]]
            /\ UNCHANGED build
        BY <2>2 DEF Bench!UpdateStep
      <3>2. ota.done \in 0 .. 3
        BY <1>1, <2>2, BenchMembers DEF BenchInv, BenchShape, UnderWay, Otas, Bench!OtaSteps
      <3>3. Bench!Statuses[ota.done + 1] \in Reported \ {"Idle"}
        <4>1. Bench!Statuses[ota.done + 1] \in {"Uploading", "Rebooting"}
          BY <3>2 DEF Bench!Statuses
        <4> QED BY <4>1 DEF Reported
      <3>4. ota' \in Otas /\ ota'.done = ota.done + 1 /\ ota'.done < Bench!OtaSteps
            /\ ota'.status # "Idle" /\ ota'.timers = ota.timers /\ ota'.channel = ota.channel
        <4> DEFINE s == Bench!Statuses[ota.done + 1]
        <4>1. ota \in Otas /\ ota.done + 1 \in Nat /\ ota.done + 1 < Bench!OtaSteps
          BY <3>2 DEF BenchInv, BenchShape, Bench!OtaSteps
        <4>2. s \in Reported /\ s # "Idle" /\ ota' = [ota EXCEPT !.done = @ + 1, !.status = s]
          BY <3>1, <3>3
        <4> HIDE DEF s
        <4> QED BY <4>1, <4>2 DEF Otas
      <3> QED BY <1>1, <3>1, <3>4 DEF BenchInv, BenchShape, UnderWay, Otas
    <2> QED BY <2>1, <2>2
  <1> QED BY <1>1, <1>2 DEF BenchInv, BenchShape, EndedWithCm100, NeverOpposite

LEMMA BenchStarts == Bench!Init => BenchInv
  <1> SUFFICES ASSUME Bench!Init PROVE BenchInv
    OBVIOUS
  <1>1. bench \in Benches /\ bench.cm = FALSE /\ bench.lit = {}
    BY BenchMembers DEF Bench!Init, Benches
  <1>2. timed = Bench!NoSteps /\ quick = FALSE /\ modes = Bench!Resting /\ ota = Bench!NoUpdate
    BY DEF Bench!Init
  <1>3. build \in Builds
    BY DEF Bench!Init, Builds, Asked, Bench!Channels, Bench!Targets
  <1> QED BY <1>1, <1>2, <1>3, NothingDue, RestingModes, NoUpdateTyped
       DEF BenchInv, BenchShape, EndedWithCm100, NeverOpposite, UnderWay

LEMMA BenchNext == BenchInv /\ [Bench!Next]_benchVars => BenchInv'
  <1> SUFFICES ASSUME BenchInv, [Bench!Next]_benchVars PROVE BenchInv'
    OBVIOUS
  <1>1. CASE Bench!Next
    BY <1>1, BenchTicks, BenchPressed, BenchStepFires, BenchQuickEnds, BenchUpdateUsed,
       BenchUpdateStep DEF Bench!Next
  <1>2. CASE UNCHANGED benchVars
    BY <1>2 DEF benchVars, BenchInv, BenchShape, EndedWithCm100, NeverOpposite, UnderWay
  <1> QED BY <1>1, <1>2

LEMMA BenchEnds == BenchInv => Bench!TasksEnd
  BY DEF BenchInv, EndedWithCm100, NeverOpposite, UnderWay, Bench!TasksEnd

-----------------------------------------------------------------------------
(***************************************************************************)
(* Part 7: the services of the mock device                                 *)
(***************************************************************************)
Moments == {"idle", "loading", "loaded", "checking", "saving", "saved", "running", "triggering",
            "written", "blocked", "sync", "active", "waiting"}
Ends    == {"load", "write", "refuse"}

Outdoors  == [ running : BOOLEAN, defrosting : BOOLEAN ]
Service   == [ busy : BOOLEAN, loaded : BOOLEAN, armed : BOOLEAN, state : Moments ]
Countdown == [ Ends -> Nat ]
Profiles  == [ desired : Services!Modes, actual : Services!Modes, defrost : Services!Modes,
               asked : Services!Modes ]
Tapes     == [ enabled : BOOLEAN, active : BOOLEAN, fields : BOOLEAN, id : Nat,
               configuring : BOOLEAN, chosen : BOOLEAN ]
Drilled   == [ id : Nat, hp : Services!Hps, reads : Nat ]
Drills    == [ phase : Services!Phases, next : Nat, act : Drilled, results : [ Services!Hps -> Nat ],
               token : Int, refused : BOOLEAN ]

UnitShape ==
  /\ unit \in Outdoors /\ profile \in Profiles
  /\ serv \in [ Services!Services -> Service ]
  /\ pending \in [ Services!Services -> Countdown ]

(* A service v with timers p is freed by one of them.  Those of settings   *)
(* outlive a change of the unit, so a later request may be freed by an     *)
(* earlier one's and leave its own behind; the request of a table or a     *)
(* defrost has exactly one, and without a request there is none.           *)
OneTimer(p) == \E k \in Ends : p[k] = 1 /\ \A j \in Ends \ {k} : p[j] = 0
NoTimer(p)  == \A k \in Ends : p[k] = 0

Freed(s, v, p) ==
  IF s = "settings" THEN v.busy => \E k \in Ends : p[k] > 0
  ELSE (v.busy => OneTimer(p)) /\ (~v.busy => NoTimer(p))

ArmedOnRead == serv["table"].armed => serv["table"].loaded
SyncIsSo    == serv["settings"].state = "sync" => profile.actual = profile.desired

UnitInv ==
  UnitShape /\ (\A s \in Services!Services : Freed(s, serv[s], pending[s])) /\ ArmedOnRead /\ SyncIsSo

(* There is always something to record.                                    *)
TapeInv == tape \in Tapes /\ tape.fields = TRUE /\ (tape.active => tape.enabled)

(* Numbers are given out in order: a result is below the next, and below   *)
(* the one that is pending.                                                *)
DrillInv ==
  /\ drill \in Drills /\ drill.next > 0
  /\ \A h \in Services!Hps : drill.results[h] < drill.next
  /\ drill.act # Services!NoAct =>
       drill.act.id < drill.next /\ \A h \in Services!Hps : drill.results[h] < drill.act.id

ServicesInv == UnitInv /\ TapeInv /\ DrillInv /\ requests \in Nat

LEMMA ServiceMembers ==
  /\ \A m \in {"idle", "loading", "loaded", "checking", "saving", "saved", "running", "triggering",
               "written", "blocked", "sync", "active", "waiting"} : m \in Moments
  /\ \A k \in {"load", "write", "refuse"} : k \in Ends
  /\ \A s \in {"table", "settings", "defrost"} : s \in Services!Services
  /\ Services!Quiet \in Countdown /\ NoTimer(Services!Quiet) /\ DOMAIN Services!Quiet = Ends
  BY DEF Moments, Ends, Services!Services, Services!Quiet, Countdown, NoTimer

LEMMA FreshService ==
  /\ Services!Fresh \in Service
  /\ ~Services!Fresh.busy /\ ~Services!Fresh.armed /\ Services!Fresh.state = "idle"
  BY ServiceMembers DEF Services!Fresh, Service

(* A request begins on a free service, with a timer of its own.            *)
LEMMA StartFreed ==
  ASSUME NEW s, NEW v, NEW r, NEW p \in Countdown, NEW k \in Ends, NEW q,
         Freed(s, v, p), ~v.busy, r.busy, q = [p EXCEPT ![k] = @ + 1]
  PROVE  q \in Countdown /\ Freed(s, r, q)
  <1>1. q \in Countdown /\ q[k] = p[k] + 1 /\ p[k] \in Nat /\ \A j \in Ends \ {k} : q[j] = p[j]
    BY DEF Countdown
  <1>2. CASE s = "settings"
    BY <1>1, <1>2 DEF Freed
  <1>3. CASE s # "settings"
    <2>1. NoTimer(p)
      BY <1>3 DEF Freed
    <2>2. OneTimer(q)
      BY <1>1, <2>1 DEF NoTimer, OneTimer
    <2> QED BY <1>1, <1>3, <2>2 DEF Freed
  <1> QED BY <1>2, <1>3

(* A timer that fires ends the request it was set for.                     *)
LEMMA EndFreed ==
  ASSUME NEW s, NEW v, NEW r, NEW p \in Countdown, NEW k \in Ends, NEW q,
         Freed(s, v, p), v.busy \in BOOLEAN, ~r.busy, p[k] > 0, q = [p EXCEPT ![k] = @ - 1]
  PROVE  q \in Countdown /\ Freed(s, r, q)
  <1>1. q \in Countdown /\ q[k] = p[k] - 1 /\ p[k] \in Nat /\ \A j \in Ends \ {k} : q[j] = p[j]
    BY DEF Countdown
  <1>2. CASE s = "settings"
    BY <1>1, <1>2 DEF Freed
  <1>3. CASE s # "settings"
    <2>1. OneTimer(p)
      BY <1>1, <1>3 DEF Freed, NoTimer
    <2>2. PICK i \in Ends : p[i] = 1 /\ \A j \in Ends \ {i} : p[j] = 0
      BY <2>1 DEF OneTimer
    <2>3. i = k
      BY <2>2
    <2>4. NoTimer(q)
      BY <1>1, <2>2, <2>3 DEF NoTimer
    <2> QED BY <1>1, <1>3, <2>4 DEF Freed
  <1> QED BY <1>2, <1>3

(* What the rest of the unit keeps when one service moves on.              *)
MovesOn(s, r, q) ==
  /\ serv' = [serv EXCEPT ![s] = r] /\ pending' = [pending EXCEPT ![s] = q]
  /\ s = "table" => (r.armed => r.loaded)
  /\ unit' \in Outdoors /\ profile' \in Profiles /\ SyncIsSo'

LEMMA ServiceMoves ==
  ASSUME UnitInv, NEW s \in Services!Services, NEW r \in Service, NEW q \in Countdown,
         Freed(s, r, q), MovesOn(s, r, q)
  PROVE  UnitInv'
  <1>1. serv \in [ Services!Services -> Service ] /\ pending \in [ Services!Services -> Countdown ]
    BY DEF UnitInv, UnitShape
  <1>2. serv' = [serv EXCEPT ![s] = r] /\ pending' = [pending EXCEPT ![s] = q]
    BY DEF MovesOn
  <1>3. serv' \in [ Services!Services -> Service ] /\ pending' \in [ Services!Services -> Countdown ]
    BY <1>1, <1>2
  <1>4. /\ serv'[s] = r /\ pending'[s] = q
        /\ \A t \in Services!Services \ {s} : serv'[t] = serv[t] /\ pending'[t] = pending[t]
    BY <1>1, <1>2
  <1>5. UnitShape'
    BY <1>3 DEF MovesOn, UnitShape
  <1>6. \A t \in Services!Services : Freed(t, serv'[t], pending'[t])
    BY <1>4 DEF UnitInv
  <1>7. ArmedOnRead'
    BY <1>4, ServiceMembers DEF MovesOn, UnitInv, ArmedOnRead
  <1> QED BY <1>5, <1>6, <1>7 DEF UnitInv, MovesOn

LEMMA ServicesTyped ==
  ASSUME UnitInv
  PROVE  /\ \A s \in Services!Services : serv[s] \in Service /\ pending[s] \in Countdown
                                         /\ Freed(s, serv[s], pending[s])
         /\ unit \in Outdoors /\ profile \in Profiles
  BY DEF UnitInv, UnitShape

LEMMA UnitLoads ==
  ASSUME UnitInv, NEW s \in Services!Services, Services!Load(s)
  PROVE  UnitInv'
  <1> DEFINE r == [serv[s] EXCEPT !.busy = TRUE, !.armed = FALSE, !.state = "loading",
                                  !.loaded = @ /\ s # "table"]
             q == [pending[s] EXCEPT !["load"] = @ + 1]
  <1>0. serv[s] \in Service /\ pending[s] \in Countdown /\ Freed(s, serv[s], pending[s])
    BY ServicesTyped
  <1>1. "loading" \in Moments /\ "load" \in Ends
    BY ServiceMembers
  <1>2. r \in Service /\ r.busy /\ ~r.armed /\ r.state = "loading"
    BY <1>0, <1>1 DEF Service
  <1>3. serv' = [serv EXCEPT ![s] = r]
    BY DEF Services!Load, UnitInv, UnitShape
  <1>4. UNCHANGED <<unit, profile>> /\ ~serv[s].busy
    BY DEF Services!Load, Services!Free
  <1>5. pending' = [pending EXCEPT ![s] = q]
    BY DEF Services!Load
  <1>6. SyncIsSo'
    <2>1. s # "settings" => serv'["settings"] = serv["settings"]
      BY <1>3, ServiceMembers DEF UnitInv, UnitShape
    <2>2. s = "settings" => serv'["settings"].state = "loading"
      BY <1>2, <1>3 DEF UnitInv, UnitShape
    <2> QED BY <1>4, <2>1, <2>2 DEF UnitInv, SyncIsSo
  <1>7. q \in Countdown /\ Freed(s, r, q)
    <2> HIDE DEF r
    <2> QED BY <1>0, <1>1, <1>2, <1>3, <1>4, StartFreed
  <1>8. MovesOn(s, r, q)
    <2> HIDE DEF r, q
    <2> QED BY <1>2, <1>3, <1>4, <1>5, <1>6 DEF MovesOn, UnitInv, UnitShape
  <1> HIDE DEF r, q
  <1> QED BY <1>2, <1>7, <1>8, ServiceMoves

(* The settings are in sync as before when another service moves on.       *)
LEMMA SyncStays ==
  ASSUME UnitInv, NEW s \in Services!Services \ {"settings"}, NEW r,
         serv' = [serv EXCEPT ![s] = r],
         profile'.actual = profile.actual, profile'.desired = profile.desired
  PROVE  SyncIsSo'
  <1>1. serv'["settings"] = serv["settings"]
    BY DEF UnitInv, UnitShape
  <1> QED BY <1>1 DEF UnitInv, SyncIsSo

LEMMA UnitArms ==
  ASSUME UnitInv, NEW on \in BOOLEAN, Services!Arm(on)
  PROVE  UnitInv'
  <1> DEFINE r == [serv["table"] EXCEPT !.armed = on]
  <1>0. "table" \in Services!Services \ {"settings"} /\ serv["table"] \in Service
        /\ pending["table"] \in Countdown /\ Freed("table", serv["table"], pending["table"])
    BY ServicesTyped, ServiceMembers
  <1>1. r \in Service /\ r.busy = serv["table"].busy /\ (r.armed => r.loaded)
    BY <1>0 DEF Services!Arm, Service
  <1>2. serv' = [serv EXCEPT !["table"] = r]
    BY <1>0 DEF Services!Arm, UnitInv, UnitShape
  <1>3. UNCHANGED <<unit, pending, profile>>
    BY DEF Services!Arm
  <1>4. pending' = [pending EXCEPT !["table"] = pending["table"]]
    BY <1>0, <1>3 DEF UnitInv, UnitShape
  <1> HIDE DEF r
  <1>5. Freed("table", r, pending["table"])
    BY <1>0, <1>1 DEF Freed
  <1>6. SyncIsSo'
    BY <1>0, <1>2, <1>3, SyncStays
  <1>7. MovesOn("table", r, pending["table"])
    BY <1>1, <1>2, <1>3, <1>4, <1>6 DEF MovesOn, UnitInv, UnitShape
  <1> QED BY <1>0, <1>1, <1>5, <1>7, ServiceMoves

(* A request of a service s that sets a timer k and shows m.               *)
Begins(s, k, m) ==
  /\ ~serv[s].busy
  /\ serv' = [serv EXCEPT ![s].busy = TRUE, ![s].state = m]
  /\ pending' = [pending EXCEPT ![s][k] = @ + 1]

LEMMA ServiceBegins ==
  ASSUME UnitInv, NEW s \in Services!Services, NEW k \in Ends, NEW m \in Moments,
         Begins(s, k, m), UNCHANGED unit, profile' \in Profiles, m # "sync",
         s # "settings" => profile'.actual = profile.actual /\ profile'.desired = profile.desired
  PROVE  UnitInv'
  <1> DEFINE r == [serv[s] EXCEPT !.busy = TRUE, !.state = m]
             q == [pending[s] EXCEPT ![k] = @ + 1]
  <1>0. serv[s] \in Service /\ pending[s] \in Countdown /\ Freed(s, serv[s], pending[s])
    BY ServicesTyped
  <1>1. r \in Service /\ r.busy /\ r.armed = serv[s].armed /\ r.loaded = serv[s].loaded /\ r.state = m
    BY <1>0 DEF Service
  <1>2. serv' = [serv EXCEPT ![s] = r]
    BY DEF Begins, UnitInv, UnitShape
  <1>3. pending' = [pending EXCEPT ![s] = q]
    BY DEF Begins, UnitInv, UnitShape
  <1>4. ~serv[s].busy
    BY DEF Begins
  <1> HIDE DEF r
  <1>5. q \in Countdown /\ Freed(s, r, q)
    BY <1>0, <1>1, <1>4, StartFreed
  <1> HIDE DEF q
  <1>6. SyncIsSo'
    <2>1. CASE s = "settings"
      BY <1>1, <1>2, <2>1 DEF UnitInv, UnitShape, SyncIsSo
    <2>2. CASE s # "settings"
      BY <1>2, <2>2, SyncStays
    <2> QED BY <2>1, <2>2
  <1>7. s = "table" => (r.armed => r.loaded)
    BY <1>1 DEF UnitInv, ArmedOnRead
  <1>8. MovesOn(s, r, q)
    BY <1>2, <1>3, <1>6, <1>7 DEF MovesOn, UnitInv, UnitShape
  <1> QED BY <1>1, <1>5, <1>8, ServiceMoves

LEMMA UnitApplies == UnitInv /\ Services!Apply => UnitInv'
  <1> SUFFICES ASSUME UnitInv, Services!Apply PROVE UnitInv'
    OBVIOUS
  <1>1. Begins("table", "write", "checking") /\ UNCHANGED <<unit, profile>>
    BY DEF Services!Apply, Services!Free, Begins
  <1>2. "table" \in Services!Services /\ "write" \in Ends /\ "checking" \in Moments
    BY ServiceMembers
  <1> QED BY <1>1, <1>2, ServiceBegins DEF UnitInv, UnitShape

LEMMA UnitTriggers == UnitInv /\ Services!Trigger => UnitInv'
  <1> SUFFICES ASSUME UnitInv, Services!Trigger PROVE UnitInv'
    OBVIOUS
  <1>1. Begins("defrost", "refuse", "triggering") /\ UNCHANGED <<unit, profile>>
    BY DEF Services!Trigger, Services!Free, Begins
  <1>2. "defrost" \in Services!Services /\ "refuse" \in Ends /\ "triggering" \in Moments
    BY ServiceMembers
  <1> QED BY <1>1, <1>2, ServiceBegins DEF UnitInv, UnitShape

LEMMA UnitSaves ==
  ASSUME UnitInv, NEW m \in Services!Modes, Services!Save(m)
  PROVE  UnitInv'
  <1>1. Begins("settings", "write", "saving") /\ UNCHANGED unit
        /\ profile' = [profile EXCEPT !.desired = m]
    BY DEF Services!Save, Services!Free, Begins
  <1>2. "settings" \in Services!Services /\ "write" \in Ends /\ "saving" \in Moments
    BY ServiceMembers
  <1>3. profile' \in Profiles
    BY <1>1 DEF UnitInv, UnitShape, Profiles
  <1> QED BY <1>1, <1>2, <1>3, ServiceBegins

LEMMA UnitSavesDefrost ==
  ASSUME UnitInv, NEW m \in Services!Modes, NEW e \in Services!Modes, Services!SaveDefrost(m, e)
  PROVE  UnitInv'
  <1>0. /\ "defrost" \in Services!Services \ {"settings"} /\ serv["defrost"] \in Service
        /\ pending["defrost"] \in Countdown
        /\ Freed("defrost", serv["defrost"], pending["defrost"])
        /\ {"write", "refuse"} \subseteq Ends /\ {"saved", "running", "checking"} \subseteq Moments
    BY ServicesTyped, ServiceMembers
  <1>1. UNCHANGED unit
    BY DEF Services!SaveDefrost
  <1>2. CASE m = profile.defrost
    <2> DEFINE r == [serv["defrost"] EXCEPT !.state = "saved"]
    <2>1. r \in Service /\ r.busy = serv["defrost"].busy
      BY <1>0 DEF Service
    <2>2. serv' = [serv EXCEPT !["defrost"] = r] /\ UNCHANGED <<pending, profile>>
      BY <1>2 DEF Services!SaveDefrost, UnitInv, UnitShape
    <2>3. pending' = [pending EXCEPT !["defrost"] = pending["defrost"]]
      BY <2>2 DEF UnitInv, UnitShape
    <2> HIDE DEF r
    <2>4. Freed("defrost", r, pending["defrost"])
      BY <1>0, <2>1 DEF Freed
    <2>5. SyncIsSo'
      BY <1>0, <2>2, SyncStays
    <2>6. MovesOn("defrost", r, pending["defrost"])
      BY <1>1, <2>2, <2>3, <2>5 DEF MovesOn, UnitInv, UnitShape
    <2> QED BY <1>0, <2>1, <2>4, <2>6, ServiceMoves
  <1>3. CASE m # profile.defrost /\ unit.running
    <2>1. Begins("defrost", "refuse", "running") /\ UNCHANGED profile
      BY <1>3 DEF Services!SaveDefrost, Services!Free, Begins
    <2> QED BY <1>0, <1>1, <2>1, ServiceBegins DEF UnitInv, UnitShape
  <1>4. CASE m # profile.defrost /\ ~unit.running
    <2>1. Begins("defrost", "write", "checking") /\ profile' = [profile EXCEPT !.asked = m]
      BY <1>4 DEF Services!SaveDefrost, Services!Free, Begins
    <2>2. profile' \in Profiles /\ profile'.actual = profile.actual /\ profile'.desired = profile.desired
      BY <2>1 DEF UnitInv, UnitShape, Profiles
    <2> QED BY <1>0, <1>1, <2>1, <2>2, ServiceBegins
  <1> QED BY <1>2, <1>3, <1>4

(* The timer of a request: what the service shows then is in sync only     *)
(* when the settings were written.                                         *)
LEMMA ServiceEnds ==
  ASSUME UnitInv, NEW s \in Services!Services, NEW k \in Ends, NEW m \in Moments,
         Services!Finish(s, k, m), unit' \in Outdoors, profile' \in Profiles,
         s = "settings" /\ m = "sync" => profile'.actual = profile'.desired,
         s # "settings" => profile'.actual = profile.actual /\ profile'.desired = profile.desired
  PROVE  UnitInv'
  <1> DEFINE r == [serv[s] EXCEPT !.busy = FALSE, !.loaded = @ \/ k = "load" \/ s = "settings",
                                  !.armed = @ /\ m # "written", !.state = m]
             q == [pending[s] EXCEPT ![k] = @ - 1]
  <1>0. serv[s] \in Service /\ pending[s] \in Countdown /\ Freed(s, serv[s], pending[s])
    BY ServicesTyped
  <1>1. r \in Service /\ r.busy = FALSE /\ r.state = m
        /\ (serv[s].loaded => r.loaded) /\ (r.armed => serv[s].armed)
    BY <1>0 DEF Service
  <1>2. serv' = [serv EXCEPT ![s] = r]
    BY DEF Services!Finish, UnitInv, UnitShape
  <1>3. pending' = [pending EXCEPT ![s] = q]
    BY DEF Services!Finish, UnitInv, UnitShape
  <1>4. pending[s][k] > 0 /\ serv[s].busy \in BOOLEAN
    BY <1>0 DEF Services!Finish, Service
  <1> HIDE DEF r
  <1>5. q \in Countdown /\ Freed(s, r, q)
    BY <1>0, <1>1, <1>4, EndFreed
  <1> HIDE DEF q
  <1>6. SyncIsSo'
    <2>1. CASE s = "settings"
      BY <1>1, <1>2, <2>1 DEF UnitInv, UnitShape, SyncIsSo
    <2>2. CASE s # "settings"
      BY <1>2, <2>2, SyncStays
    <2> QED BY <2>1, <2>2
  <1>7. s = "table" => (r.armed => r.loaded)
    BY <1>1 DEF UnitInv, ArmedOnRead
  <1>8. MovesOn(s, r, q)
    BY <1>2, <1>3, <1>6, <1>7 DEF MovesOn
  <1> QED BY <1>1, <1>5, <1>8, ServiceMoves

LEMMA UnitFinishing == UnitInv /\ Services!UnitFinishes => UnitInv'
  <1> SUFFICES ASSUME UnitInv, Services!UnitFinishes PROVE UnitInv'
    OBVIOUS
  <1>0. /\ {"table", "settings", "defrost"} \subseteq Services!Services
        /\ {"load", "write", "refuse"} \subseteq Ends
        /\ {"loaded", "written", "blocked", "sync", "saved", "running", "active", "waiting"}
             \subseteq Moments
        /\ unit \in Outdoors /\ profile \in Profiles
    BY ServiceMembers, ServicesTyped
  <1>1. CASE Services!FinishLoad
    <2>1. PICK s \in Services!Services : Services!Finish(s, "load", "loaded")
      BY <1>1 DEF Services!FinishLoad
    <2>2. UNCHANGED <<unit, profile>>
      BY <1>1 DEF Services!FinishLoad
    <2> QED BY <1>0, <2>1, <2>2, ServiceEnds
  <1>2. CASE Services!FinishTable
    <2>1. PICK m \in {"blocked", "written"} : Services!Finish("table", "write", m)
      BY <1>2 DEF Services!FinishTable
    <2>2. UNCHANGED <<unit, profile>>
      BY <1>2 DEF Services!FinishTable
    <2> QED BY <1>0, <2>1, <2>2, ServiceEnds
  <1>3. CASE Services!FinishSettings
    <2>1. Services!Finish("settings", "write", "sync") /\ UNCHANGED unit
          /\ profile' = [profile EXCEPT !.actual = profile.desired]
      BY <1>3 DEF Services!FinishSettings
    <2>2. profile' \in Profiles /\ profile'.actual = profile'.desired
      BY <1>0, <2>1 DEF Profiles
    <2> QED BY <1>0, <2>1, <2>2, ServiceEnds
  <1>4. CASE Services!FinishDefrost
    <2>1. CASE /\ Services!Finish("defrost", "write", "saved")
               /\ profile' = [profile EXCEPT !.defrost = profile.asked]
               /\ UNCHANGED unit
      <3>1. profile' \in Profiles /\ profile'.actual = profile.actual /\ profile'.desired = profile.desired
        BY <1>0, <2>1 DEF Profiles
      <3> QED BY <1>0, <2>1, <3>1, ServiceEnds
    <2>2. CASE Services!Finish("defrost", "refuse", "running") /\ UNCHANGED <<unit, profile>>
      BY <1>0, <2>2, ServiceEnds
    <2>3. CASE /\ Services!Finish("defrost", "refuse", IF Services!CanTrigger THEN "active" ELSE "waiting")
               /\ unit' = [unit EXCEPT !.defrosting = @ \/ Services!CanTrigger]
               /\ UNCHANGED profile
      <3>1. PICK m \in {"active", "waiting"} : Services!Finish("defrost", "refuse", m)
        BY <2>3
      <3>2. unit' \in Outdoors
        BY <1>0, <2>3 DEF Outdoors
      <3> QED BY <1>0, <2>3, <3>1, <3>2, ServiceEnds
    <2> QED BY <1>4, <2>1, <2>2, <2>3 DEF Services!FinishDefrost
  <1> QED BY <1>1, <1>2, <1>3, <1>4 DEF Services!UnitFinishes

(* Another unit: nothing is busy, whichever timers are left.               *)
LEMMA UnitReplaced ==
  ASSUME UnitInv, NEW v \in Services!Modes, Services!OtherUnit(v)
  PROVE  UnitInv'
  <1>1. /\ serv' = [s \in Services!Services |-> Services!Fresh]
        /\ pending' = [pending EXCEPT !["table"] = Services!Quiet, !["defrost"] = Services!Quiet]
        /\ unit' = [unit EXCEPT !.defrosting = FALSE]
        /\ profile' = [profile EXCEPT !.actual = v, !.defrost = 0]
    BY DEF Services!OtherUnit
  <1>2. unit' \in Outdoors /\ profile' \in Profiles
    <2>1. unit' \in Outdoors
      BY <1>1 DEF UnitInv, UnitShape, Outdoors
    <2>2. 0 \in Services!Modes
      BY DEF Services!Modes
    <2>3. profile' \in Profiles
      BY <1>1, <2>2 DEF UnitInv, UnitShape, Profiles
    <2> QED BY <2>1, <2>3
  <1>3. pending' \in [ Services!Services -> Countdown ]
    BY <1>1, ServiceMembers DEF UnitInv, UnitShape
  <1>4. serv' \in [ Services!Services -> Service ]
    BY <1>1, FreshService
  <1>5. ASSUME NEW s \in Services!Services
        PROVE  Freed(s, serv'[s], pending'[s])
    <2>1. serv'[s] = Services!Fresh
      BY <1>1
    <2>2. s = "settings" \/ pending'[s] = Services!Quiet
      BY <1>1 DEF UnitInv, UnitShape, Services!Services
    <2> QED BY <2>1, <2>2, FreshService, ServiceMembers DEF Freed
  <1>6. ArmedOnRead' /\ SyncIsSo'
    BY <1>1, FreshService, ServiceMembers DEF ArmedOnRead, SyncIsSo
  <1> QED BY <1>2, <1>3, <1>4, <1>5, <1>6 DEF UnitInv, UnitShape

LEMMA UnitAsking == UnitInv /\ Services!UnitAsked => UnitInv'
  <1> SUFFICES ASSUME UnitInv, Services!UnitAsked PROVE UnitInv'
    OBVIOUS
  <1>1. CASE unit' = [unit EXCEPT !.running = ~@] /\ UNCHANGED <<serv, pending, profile>>
    <2>1. unit' \in Outdoors
      BY <1>1 DEF UnitInv, UnitShape, Outdoors
    <2> QED BY <1>1, <2>1 DEF UnitInv, UnitShape, ArmedOnRead, SyncIsSo
  <1> QED BY <1>1, UnitLoads, UnitArms, UnitApplies, UnitTriggers, UnitSaves, UnitSavesDefrost,
       UnitReplaced DEF Services!UnitAsked

(* The recorder is started only with something to record.                  *)
LEMMA TapeAsking == TapeInv /\ requests \in Nat /\ Services!TapeAsked => TapeInv'
  <1> SUFFICES ASSUME TapeInv, requests \in Nat, Services!TapeAsked PROVE TapeInv'
    OBVIOUS
  <1> DEFINE begun == [tape EXCEPT !.enabled = TRUE, !.active = TRUE, !.id = requests + 1]
  <1>0. tape \in Tapes /\ tape.fields = TRUE /\ (tape.active => tape.enabled)
    BY DEF TapeInv
  <1>1. begun \in Tapes /\ begun.fields = TRUE /\ begun.enabled = TRUE /\ begun = Services!Started(tape)
    <2> DEFINE n == requests + 1
    <2>1. n \in Nat
      OBVIOUS
    <2>2. begun = [tape EXCEPT !.enabled = TRUE, !.active = TRUE, !.id = n]
      OBVIOUS
    <2>3. begun = Services!Started(tape)
      BY DEF Services!Started
    <2> HIDE DEF n, begun
    <2> QED BY <1>0, <2>1, <2>2, <2>3 DEF Tapes
  <1>2. ASSUME NEW reset \in BOOLEAN, NEW found \in BOOLEAN, Services!Configure(reset, found)
        PROVE  TapeInv'
    BY <1>0, <1>2 DEF Services!Configure, TapeInv, Tapes
  <1>3. CASE Services!Record
    <2>1. tape' = [begun EXCEPT !.fields = TRUE, !.configuring = FALSE, !.chosen = FALSE]
      BY <1>1, <1>3 DEF Services!Record
    <2> HIDE DEF begun
    <2> QED BY <1>1, <2>1 DEF TapeInv, Tapes
  <1>4. CASE Services!Stop
    BY <1>0, <1>4 DEF Services!Stop, TapeInv, Tapes
  <1>5. CASE Services!Restart
    <2>1. tape' = [begun EXCEPT !.configuring = FALSE, !.chosen = FALSE]
      BY <1>1, <1>5 DEF Services!Restart
    <2> HIDE DEF begun
    <2> QED BY <1>1, <2>1 DEF TapeInv, Tapes
  <1>6. ASSUME NEW on \in BOOLEAN, Services!Enable(on)
        PROVE  TapeInv'
    <2>1. \/ tape' = tape
          \/ tape' = begun
          \/ tape' = [tape EXCEPT !.enabled = FALSE, !.active = FALSE]
      BY <1>1, <1>6 DEF Services!Enable
    <2> HIDE DEF begun
    <2>2. CASE tape' = begun
      BY <1>1, <2>2 DEF TapeInv
    <2>3. CASE tape' = [tape EXCEPT !.enabled = FALSE, !.active = FALSE]
      BY <1>0, <2>3 DEF TapeInv, Tapes
    <2> QED BY <1>0, <2>1, <2>2, <2>3 DEF TapeInv
  <1> QED BY <1>2, <1>3, <1>4, <1>5, <1>6 DEF Services!TapeAsked

LEMMA NoActTyped == Services!NoAct \in Drilled
  BY DEF Services!NoAct, Drilled, Services!Hps

(* An action takes the next number, whether or not one is pending.         *)
LEMMA DrillAsking == DrillInv /\ Services!DrillAsked => DrillInv'
  <1> SUFFICES ASSUME DrillInv, Services!DrillAsked PROVE DrillInv'
    OBVIOUS
  <1>0. /\ drill \in Drills /\ drill.next > 0 /\ drill.next \in Nat
        /\ \A h \in Services!Hps : drill.results[h] \in Nat /\ drill.results[h] < drill.next
    BY DEF DrillInv, Drills
  <1>1. ASSUME NEW hp \in Services!Hps, NEW t \in {drill.token, drill.token - 1}, Services!Act(hp, t)
        PROVE  DrillInv'
    <2>1. CASE \E r \in 1 .. 2 : drill' = [drill EXCEPT !.next = @ + 1,
                                             !.act = [ id |-> drill.next, hp |-> hp, reads |-> r ]]
      <3>1. PICK r \in 1 .. 2 : drill' = [drill EXCEPT !.next = @ + 1,
                                             !.act = [ id |-> drill.next, hp |-> hp, reads |-> r ]]
        BY <2>1
      <3> DEFINE a == [ id |-> drill.next, hp |-> hp, reads |-> r ]
      <3>2. a \in Drilled /\ a.id = drill.next
        BY <1>0 DEF Drilled
      <3> DEFINE n == drill.next + 1
      <3>3. drill' = [drill EXCEPT !.next = n, !.act = a] /\ n \in Nat
        BY <1>0, <3>1
      <3>4. n = drill.next + 1
        OBVIOUS
      <3> HIDE DEF a, n
      <3>5. drill' \in Drills /\ drill'.next = n /\ drill'.act = a /\ drill'.results = drill.results
        BY <1>0, <3>2, <3>3 DEF Drills
      <3> QED BY <1>0, <3>2, <3>4, <3>5 DEF DrillInv
    <2>2. CASE drill' = [drill EXCEPT !.refused = TRUE, !.token = @ + 1]
      <3> DEFINE n == drill.token + 1
      <3>1. drill' = [drill EXCEPT !.refused = TRUE, !.token = n]
        BY <2>2
      <3>2. n \in Int
        BY <1>0 DEF Drills
      <3> HIDE DEF n
      <3>3. drill' \in Drills /\ drill'.next = drill.next /\ drill'.act = drill.act
            /\ drill'.results = drill.results
        BY <1>0, <3>1, <3>2 DEF Drills
      <3> QED BY <3>3 DEF DrillInv
    <2> QED BY <1>1, <2>1, <2>2 DEF Services!Act
  <1>2. ASSUME NEW p \in Services!Phases, Services!Stage(p)
        PROVE  DrillInv'
    <2> DEFINE none == [h \in Services!Hps |-> 0]
    <2>1. none \in [ Services!Hps -> Nat ] /\ \A h \in Services!Hps : none[h] = 0
      OBVIOUS
    <2>2. drill' = [drill EXCEPT !.phase = p, !.act = Services!NoAct, !.refused = FALSE, !.results = none]
      BY <1>2 DEF Services!Stage
    <2> HIDE DEF none
    <2>3. drill' \in Drills /\ drill'.next = drill.next /\ drill'.act = Services!NoAct
          /\ drill'.results = none
      BY <1>0, <2>1, <2>2, NoActTyped DEF Drills
    <2> QED BY <1>0, <2>1, <2>3 DEF DrillInv
  <1> QED BY <1>1, <1>2 DEF Services!DrillAsked

LEMMA DrillRead == DrillInv /\ Services!Read => DrillInv'
  <1> SUFFICES ASSUME DrillInv, Services!Read PROVE DrillInv'
    OBVIOUS
  <1>0. /\ drill \in Drills /\ drill.next > 0 /\ drill.next \in Nat
        /\ drill.act \in Drilled /\ drill.act # Services!NoAct
        /\ drill.act.id \in Nat /\ drill.act.id < drill.next /\ drill.act.hp \in Services!Hps
        /\ drill.act.reads \in Nat
        /\ drill.results \in [ Services!Hps -> Nat ]
        /\ \A h \in Services!Hps : drill.results[h] < drill.next /\ drill.results[h] < drill.act.id
    BY DEF DrillInv, Drills, Drilled, Services!Read
  <1>1. CASE drill.act.reads > 1
    <2> DEFINE a == [drill.act EXCEPT !.reads = @ - 1]
    <2>1. a \in Drilled /\ a.id = drill.act.id
      BY <1>0, <1>1 DEF Drilled
    <2>2. drill' = [drill EXCEPT !.act = a]
      BY <1>0, <1>1 DEF Services!Read, Drills
    <2> HIDE DEF a
    <2>3. drill' \in Drills /\ drill'.next = drill.next /\ drill'.act = a
          /\ drill'.results = drill.results
      BY <1>0, <2>1, <2>2 DEF Drills
    <2> QED BY <1>0, <2>1, <2>3 DEF DrillInv
  <1>2. CASE ~(drill.act.reads > 1)
    <2> DEFINE shown == [drill.results EXCEPT ![drill.act.hp] = drill.act.id]
    <2>1. shown \in [ Services!Hps -> Nat ] /\ \A h \in Services!Hps : shown[h] < drill.next
      BY <1>0
    <2>2. PICK p \in Services!Phases :
            drill' = [drill EXCEPT !.act = Services!NoAct, !.phase = p, !.results = shown]
      BY <1>0, <1>2 DEF Services!Read, Drills
    <2> HIDE DEF shown
    <2>3. drill' \in Drills /\ drill'.next = drill.next /\ drill'.act = Services!NoAct
          /\ drill'.results = shown
      BY <1>0, <2>1, <2>2, NoActTyped DEF Drills
    <2> QED BY <1>0, <2>1, <2>3 DEF DrillInv
  <1> QED BY <1>1, <1>2

LEMMA ServicesStart == Services!Init => ServicesInv
  <1> SUFFICES ASSUME Services!Init PROVE ServicesInv
    OBVIOUS
  <1>1. UnitShape /\ \A s \in Services!Services : serv[s] = Services!Fresh /\ pending[s] = Services!Quiet
    <2>1. unit \in Outdoors
      BY DEF Services!Init, Outdoors
    <2>2. profile \in Profiles
      BY DEF Services!Init, Profiles, Services!Modes
    <2> QED BY <2>1, <2>2, FreshService, ServiceMembers DEF Services!Init, UnitShape
  <1>2. \A s \in Services!Services : Freed(s, serv[s], pending[s])
    BY <1>1, FreshService, ServiceMembers DEF Freed
  <1>3. ArmedOnRead /\ SyncIsSo
    BY <1>1, FreshService, ServiceMembers DEF ArmedOnRead, SyncIsSo
  <1>4. TapeInv
    BY DEF Services!Init, TapeInv, Tapes
  <1>5. DrillInv
    <2>1. /\ drill.next = 1 /\ drill.act = Services!NoAct
          /\ \A h \in Services!Hps : drill.results[h] = 0
      BY DEF Services!Init
    <2>2. drill \in Drills
      BY NoActTyped DEF Services!Init, Drills, Services!Phases
    <2> QED BY <2>1, <2>2 DEF DrillInv
  <1> QED BY <1>1, <1>2, <1>3, <1>4, <1>5 DEF ServicesInv, UnitInv, Services!Init

LEMMA ServicesNext == ServicesInv /\ [Services!Next]_servicesVars => ServicesInv'
  <1> SUFFICES ASSUME ServicesInv, [Services!Next]_servicesVars PROVE ServicesInv'
    OBVIOUS
  <1>0. UnitInv /\ TapeInv /\ DrillInv /\ requests \in Nat
    BY DEF ServicesInv
  <1>1. requests' \in Nat
    BY <1>0 DEF Services!Next, Services!Ask, servicesVars
  <1>2. UnitInv'
    <2>1. ASSUME UNCHANGED <<unit, serv, pending, profile>> PROVE UnitInv'
      BY <1>0, <2>1 DEF UnitInv, UnitShape, ArmedOnRead, SyncIsSo
    <2> QED BY <1>0, <2>1, UnitAsking, UnitFinishing DEF Services!Next, Services!unitVars,
         servicesVars
  <1>3. TapeInv'
    <2>1. ASSUME UNCHANGED tape PROVE TapeInv'
      BY <1>0, <2>1 DEF TapeInv
    <2> QED BY <1>0, <2>1, TapeAsking DEF Services!Next, servicesVars
  <1>4. DrillInv'
    <2>1. ASSUME UNCHANGED drill PROVE DrillInv'
      BY <1>0, <2>1 DEF DrillInv
    <2> QED BY <1>0, <2>1, DrillAsking, DrillRead DEF Services!Next, servicesVars
  <1> QED BY <1>1, <1>2, <1>3, <1>4 DEF ServicesInv

LEMMA ServicesKeep == ServicesInv => Services!ServicesHold
  <1> SUFFICES ASSUME ServicesInv PROVE Services!ServicesHold
    OBVIOUS
  <1>1. ASSUME NEW s \in Services!Services
        PROVE  LET waits == \E k \in DOMAIN Services!Quiet : pending[s][k] > 0 IN
               IF s = "settings" THEN serv[s].busy => waits ELSE serv[s].busy = waits
    <2> DEFINE v == serv[s]
               p == pending[s]
    <2>1. v \in Service /\ p \in Countdown /\ Freed(s, v, p)
      BY ServicesTyped DEF ServicesInv
    <2>2. v.busy \in BOOLEAN /\ \A k \in Ends : p[k] \in Nat
      BY <2>1 DEF Service, Countdown
    <2>3. DOMAIN Services!Quiet = Ends
      BY ServiceMembers
    <2>4. OneTimer(p) => \E k \in Ends : p[k] > 0
      BY DEF OneTimer
    <2>5. NoTimer(p) => ~\E k \in Ends : p[k] > 0
      BY DEF NoTimer
    <2> HIDE DEF v, p
    <2>6. IF s = "settings" THEN v.busy => \E k \in Ends : p[k] > 0
          ELSE v.busy = \E k \in Ends : p[k] > 0
      BY <2>1, <2>2, <2>4, <2>5 DEF Freed
    <2> QED BY <2>3, <2>6 DEF v, p
  <1>2. /\ serv["table"].armed => serv["table"].loaded
        /\ serv["settings"].state = "sync" => profile.actual = profile.desired
    BY DEF ServicesInv, UnitInv, ArmedOnRead, SyncIsSo
  <1>3. tape.active => tape.enabled /\ tape.fields
    BY DEF ServicesInv, TapeInv
  <1>4. drill.act # Services!NoAct => \A h \in Services!Hps : drill.results[h] < drill.act.id
    BY DEF ServicesInv, DrillInv
  <1> QED BY <1>1, <1>2, <1>3, <1>4 DEF Services!ServicesHold

-----------------------------------------------------------------------------
(***************************************************************************)
(* Part 8: all of them                                                     *)
(***************************************************************************)
PanelsInv == StoreInv /\ LoginInv /\ MqttInv /\ LogInv /\ RecorderInv /\ BenchInv
             /\ ServicesInv /\ EnergyInv

LEMMA PanelsStart == PanelsInit => PanelsInv
  BY InitStore, LoginStarts, MqttStarts, LogStarts, RecorderStarts, BenchStarts, ServicesStart,
     EnergyStarts
     DEF PanelsInit, PanelsInv

LEMMA PanelsStep == PanelsInv /\ [PanelsNext]_panels => PanelsInv'
  <1> SUFFICES ASSUME PanelsInv, [PanelsNext]_panels PROVE PanelsInv'
    OBVIOUS
  <1>1. /\ [Next]_vars /\ [Login!Next]_loginVars /\ [Mqtt!Next]_mqttVars /\ [Logs!Next]_logsVars
        /\ [Recorder!Next]_recorderVars /\ [Bench!Next]_benchVars /\ [Services!Next]_servicesVars
        /\ [Energy!Next]_energyVars
    BY DEF PanelsNext, panels
  <1> QED BY <1>1, StoreNext, LoginNext, MqttNext, LogNext, RecorderNext, BenchNext, ServicesNext,
            EnergyGoesOn
       DEF PanelsInv

(* What the device answers to a posted MQTT configuration is so: an        *)
(* accepted one is in flash, a refused one is not and cannot come back     *)
(* (Impl::mutate_storage_ and process_storage_transaction_), however many  *)
(* posts, attempts and restarts there are.                                 *)
THEOREM StorageAnswersHold == PanelsSpec => []StoredAsAnswered
  <1>1. PanelsSpec => []PanelsInv
    BY PanelsStart, PanelsStep, PTL DEF PanelsSpec
  <1>2. PanelsInv => StoredAsAnswered
    BY StoreAnswers DEF PanelsInv
  <1> QED BY <1>1, <1>2, PTL

(* The dialogs of the recorder, the log, MQTT and the login keep faith     *)
(* with the user (setSystemRecorderEnabled, clearWebServerLogOutput,       *)
(* commitMqttConfig, resetCredentials), whatever is lost, late or          *)
(* restarted, and however often.                                           *)
THEOREM PanelsFaithful == PanelsSpec => []PanelsKeepFaith
  <1>1. PanelsSpec => []PanelsInv
    BY PanelsStart, PanelsStep, PTL DEF PanelsSpec
  <1>2. PanelsInv => PanelsKeepFaith
    BY LoginFaith, MqttFaith, LogFaith, RecorderFaith DEF PanelsInv, PanelsKeepFaith
  <1> QED BY <1>1, <1>2, PTL

(* What the page shows of the past days is what was measured, whatever was *)
(* saved, cut off, cleared or imported (write_record_,                     *)
(* restore_current_day_hours_, import_history_records), every day can be   *)
(* reached (getEnergyHistoryPeriodBounds), and answers that arrive out of  *)
(* order leave neither old bounds nor a wrong label                        *)
(* (refreshHistoryMetadata, refreshEnergyHistoryData): for every calendar, *)
(* every use and every number of events.                                   *)
THEOREM EnergyHistoryIsTrue == PanelsSpec => [](In("energy") => Energy!EnergyTrue)
  <1>1. PanelsSpec => []PanelsInv
    BY PanelsStart, PanelsStep, PTL DEF PanelsSpec
  <1>2. PanelsInv => (In("energy") => Energy!EnergyTrue)
    BY EnergyHolds DEF PanelsInv
  <1> QED BY <1>1, <1>2, PTL

(* The mock device ends what it begins (scheduleCommissioningStep, the     *)
(* handlers of a unit's services), however many buttons are pressed and    *)
(* requests overlap.                                                       *)
THEOREM MockKeeps == PanelsSpec => []MockHolds
  <1>1. PanelsSpec => []PanelsInv
    BY PanelsStart, PanelsStep, PTL DEF PanelsSpec
  <1>2. PanelsInv => MockHolds
    BY BenchEnds, ServicesKeep DEF PanelsInv, MockHolds
  <1> QED BY <1>1, <1>2, PTL
=============================================================================
