----------------------------- MODULE MqttStorage -----------------------------
(***************************************************************************)
(* How the device stores a changed MQTT configuration                      *)
(* (openquatt_mqtt_config): the HTTP task hands the configuration to the   *)
(* main loop and waits; the loop alone writes flash, in a transaction that *)
(* the HTTP task may call off when the wait takes too long, up to the      *)
(* moment the loop commits.                                                *)
(*                                                                         *)
(* A step is what one task does between two looks at what both share.      *)
(* The lock of the shared record is always had in time.                    *)
(***************************************************************************)
EXTENDS Naturals

CONSTANTS
  MaxMutations,  \* bound: configurations posted
  MaxAttempts,   \* STORAGE_MAX_ATTEMPTS
  MaxPowers      \* bound: boots

(* STORAGE_MAX_ATTEMPTS is a constant of the build, 2.                     *)
ASSUME AttemptsAssumption == MaxAttempts \in Nat \ {0}

None    == 0       \* nothing stored
Blank   == 1       \* no broker, disabled
Default == 2       \* the build's own configuration
Posts   == 3 .. 4  \* what a user posts

Good    == {"OK", "RUNTIME_PENDING"}
Refused == {"TIMEOUT", "SAVE_FAILED", "SYNC_FAILED", "APPLY_FAILED"}

VARIABLES
  prefs,   \* preferences: what flash holds, and what is saved but not yet synced
  deal,    \* the transaction: what the tasks share
  job,     \* the main loop's locals
  call,    \* the HTTP task's locals
  live,    \* the configuration in use
  answer,  \* the last answer sent
  botched, \* the rollback of the last transaction failed
  powers   \* boots so far

vars == <<prefs, deal, job, call, live, answer, botched, powers>>

NoJob    == [ at |-> "idle", want |-> None, old |-> None, gen |-> 0, tries |-> 0,
              saved |-> FALSE, durable |-> FALSE, result |-> "OK" ]
NoCall   == [ at |-> "idle", want |-> None, gen |-> 0, held |-> None, won |-> FALSE,
              result |-> "TIMEOUT" ]
NoAnswer == [ result |-> "none", want |-> None, held |-> None ]

Transaction(desired, committed, pending) ==
  [ desired |-> desired, committed |-> committed, gen |-> 1, waiter |-> FALSE, done |-> 0,
    result |-> "UNAVAILABLE", pending |-> pending, writing |-> FALSE,
    phase |-> IF pending THEN "QUEUED" ELSE "IDLE", signal |-> FALSE, failed |-> FALSE ]

(* setup(): without a stored configuration that of the build is stored.    *)
Booted(held) ==
  /\ deal' = IF held = None THEN Transaction(Default, Blank, TRUE) ELSE Transaction(held, held, FALSE)
  /\ live' = held
  /\ job' = NoJob /\ call' = NoCall

-----------------------------------------------------------------------------
(* The main loop: process_storage_transaction_                             *)

Untouched == UNCHANGED <<call, answer, powers>>

Claim ==
  /\ job.at = "idle" /\ deal.pending /\ ~deal.failed /\ deal.phase \in {"QUEUED", "CANCELLED"}
  /\ deal' = [deal EXCEPT !.phase = IF @ = "QUEUED" THEN "PROCESSING" ELSE @]
  /\ job' = [NoJob EXCEPT !.at = "claimed", !.want = deal.desired, !.old = deal.committed,
                          !.gen = deal.gen]
  /\ UNCHANGED <<prefs, live>> /\ Untouched /\ UNCHANGED botched

FinishWith(result) == job' = [job EXCEPT !.at = "finish", !.result = result]

(* preflight_storage_apply_ fails if no worker for the client can be had.  *)
Preflight ==
  /\ job.at = "claimed"
  /\ IF deal.phase = "CANCELLED" THEN FinishWith("TIMEOUT")
     ELSE FinishWith("APPLY_FAILED") \/ job' = [job EXCEPT !.at = "retry"]
  /\ UNCHANGED <<prefs, deal, live>> /\ Untouched /\ UNCHANGED botched

(* storage_should_retry; the first attempt claims the write.               *)
Retry ==
  /\ job.at = "retry"
  /\ IF deal.phase = "CANCELLED" \/ job.durable \/ job.tries = MaxAttempts
     THEN job' = [job EXCEPT !.at = "judge"] /\ UNCHANGED deal
     ELSE IF job.tries > 0
     THEN job' = [job EXCEPT !.at = "write"] /\ UNCHANGED deal
     ELSE job' = [job EXCEPT !.at = "claim"] /\ deal' = [deal EXCEPT !.writing = TRUE]
  /\ UNCHANGED <<prefs, live>> /\ Untouched /\ UNCHANGED botched

ClaimWrite ==
  /\ job.at = "claim"
  /\ IF deal.phase = "PROCESSING"
     THEN deal' = [deal EXCEPT !.phase = "WRITING"] /\ job' = [job EXCEPT !.at = "write"]
     ELSE deal' = [deal EXCEPT !.writing = FALSE] /\ job' = [job EXCEPT !.at = "judge"]
  /\ UNCHANGED <<prefs, live>> /\ Untouched /\ UNCHANGED botched

(* save() queues; sync() writes what is queued, and when it fails some of  *)
(* it may have been written.                                               *)
Synced(value)   == [ flash |-> value, queued |-> None ]
Unsynced(value) == { [ flash |-> f, queued |-> value ] : f \in {prefs.flash, value} }

Write ==
  /\ job.at = "write"
  /\ \/ /\ job' = [job EXCEPT !.at = "retry", !.tries = @ + 1, !.result = "SAVE_FAILED"]
        /\ UNCHANGED prefs
     \/ /\ job' = [job EXCEPT !.at = "retry", !.tries = @ + 1, !.result = "SYNC_FAILED", !.saved = TRUE]
        /\ prefs' \in Unsynced(job.want)
     \/ /\ job' = [job EXCEPT !.at = "retry", !.saved = TRUE, !.durable = TRUE]
        /\ prefs' = Synced(job.want)
  /\ UNCHANGED <<deal, live>> /\ Untouched /\ UNCHANGED botched

(* restore_committed_storage_, and start_permanent_failure_cleanup_ when   *)
(* that fails.                                                             *)
RollBack(result) ==
  \/ prefs' = Synced(job.old) /\ FinishWith(result) /\ UNCHANGED <<deal, botched>>
  \/ /\ prefs' \in Unsynced(job.old) \cup {prefs}
     /\ FinishWith("RECOVERY_FAILED")
     /\ deal' = [deal EXCEPT !.failed = TRUE] /\ botched' = TRUE

Cancelled == deal.phase = "CANCELLED"

(* storage_generation_may_commit                                           *)
Judge ==
  /\ job.at = "judge"
  /\ IF job.durable /\ ~Cancelled
     THEN job' = [job EXCEPT !.at = "commit"] /\ UNCHANGED <<prefs, deal, botched>>
     ELSE LET result == IF Cancelled THEN "TIMEOUT" ELSE job.result
          IN IF job.saved THEN RollBack(result)
             ELSE FinishWith(result) /\ UNCHANGED <<prefs, deal, botched>>
  /\ UNCHANGED live /\ Untouched

\* mutant: the phase is set without a look at what it was
MayCommit_Unasked == TRUE

MayCommit == deal.phase = "WRITING"

Commit ==
  /\ job.at = "commit"
  /\ IF MayCommit
     THEN /\ deal' = [deal EXCEPT !.phase = "COMMITTING"]
          /\ job' = [job EXCEPT !.at = "apply"]
          /\ UNCHANGED <<prefs, botched>>
     ELSE RollBack("TIMEOUT")
  /\ UNCHANGED live /\ Untouched

(* apply_storage_: only a component that failed for good cannot apply, and *)
(* does not go back to the old configuration either.                       *)
Apply ==
  /\ job.at = "apply"
  /\ live' = job.want
  /\ \/ (\E r \in Good : FinishWith(r)) /\ UNCHANGED <<prefs, deal, botched>>
     \/ /\ \/ prefs' = Synced(job.old) /\ FinishWith("APPLY_FAILED") /\ UNCHANGED botched
           \/ /\ prefs' \in Unsynced(job.old) \cup {prefs}
              /\ FinishWith("RECOVERY_FAILED") /\ botched' = TRUE
        /\ deal' = [deal EXCEPT !.failed = TRUE]
  /\ Untouched

(* finish_storage_transaction_                                             *)
Finish ==
  LET kept == IF job.result \in Good THEN job.want ELSE job.old
  IN /\ job.at = "finish"
     /\ deal' = [deal EXCEPT !.desired = kept, !.committed = kept, !.pending = FALSE,
                             !.done = job.gen, !.result = job.result, !.waiter = FALSE,
                             !.writing = FALSE, !.phase = "COMPLETED"]
     /\ job' = [NoJob EXCEPT !.at = IF deal.waiter THEN "signal" ELSE "idle"]
     /\ UNCHANGED <<prefs, live>> /\ Untouched /\ UNCHANGED botched

Signal ==
  /\ job.at = "signal"
  /\ deal' = [deal EXCEPT !.signal = TRUE]
  /\ job' = NoJob
  /\ UNCHANGED <<prefs, live>> /\ Untouched /\ UNCHANGED botched

(* What is left in the queue is written by the next periodic sync.         *)
IntervalSync ==
  /\ job.at = "idle" /\ prefs.queued # None
  /\ prefs' = Synced(prefs.queued)
  /\ UNCHANGED <<deal, job, live>> /\ Untouched /\ UNCHANGED botched

LoopStep == \/ Claim \/ Preflight \/ Retry \/ ClaimWrite \/ Write \/ Judge \/ Commit \/ Apply
            \/ Finish \/ Signal \/ IntervalSync

-----------------------------------------------------------------------------
(* The HTTP task: set_runtime_config                                       *)

Here(at, next) == call.at = at /\ call' = [call EXCEPT !.at = next]
Still == UNCHANGED <<prefs, job, live, botched, powers>>

Answer(result, c) == /\ answer' = [ result |-> result, want |-> c.want, held |-> c.held ]
                     /\ call' = NoCall

(* begin_storage_mutation_; BUSY and UNAVAILABLE leave all as it is.       *)
Begin ==
  /\ call.at = "idle" /\ deal.gen <= MaxMutations
  /\ ~deal.failed /\ ~deal.pending /\ deal.phase \in {"IDLE", "COMPLETED"}
  /\ \E v \in Posts : call' = [NoCall EXCEPT !.at = "drain", !.want = v, !.held = prefs.flash]
  /\ answer' = NoAnswer /\ botched' = FALSE
  /\ UNCHANGED <<prefs, deal, job, live, powers>>

(* submit_storage_mutation_                                                *)
Drain == /\ Here("drain", "queue")
         /\ deal' = [deal EXCEPT !.signal = FALSE]
         /\ UNCHANGED answer /\ Still

Queue ==
  /\ call.at = "queue"
  /\ call' = [call EXCEPT !.at = "wait", !.gen = deal.gen + 1]
  /\ deal' = [deal EXCEPT !.desired = call.want, !.gen = @ + 1, !.done = 0, !.result = "UNAVAILABLE",
                          !.pending = TRUE, !.waiter = TRUE, !.phase = "QUEUED"]
  /\ UNCHANGED answer /\ Still

Exact == deal.done = call.gen

(* A signal may be one of an earlier transaction.                          *)
Wake(at) ==
  /\ call.at = at /\ deal.signal
  /\ deal' = [deal EXCEPT !.signal = FALSE]
  /\ IF Exact THEN Answer(deal.result, call) ELSE UNCHANGED <<call, answer>>
  /\ Still

WaitEnds == Here("wait", "late") /\ UNCHANGED <<deal, answer>> /\ Still

Late ==
  /\ call.at = "late"
  /\ IF Exact THEN Answer(deal.result, call)
     ELSE call' = [call EXCEPT !.at = "cancel"] /\ UNCHANGED answer
  /\ UNCHANGED deal /\ Still

CallOff ==
  /\ call.at = "cancel"
  /\ call' = [call EXCEPT !.at = "grace", !.won = deal.phase = "COMMITTING"]
  /\ deal' = [deal EXCEPT !.phase = IF @ \in {"QUEUED", "PROCESSING", "WRITING"} THEN "CANCELLED" ELSE @]
  /\ UNCHANGED answer /\ Still

GraceEnds == Here("grace", "last") /\ UNCHANGED <<deal, answer>> /\ Still

LastLook ==
  /\ call.at = "last"
  /\ IF Exact THEN Answer(deal.result, call)
     ELSE call' = [call EXCEPT !.at = "phase"] /\ UNCHANGED answer
  /\ UNCHANGED deal /\ Still

PhaseLook ==
  /\ call.at = "phase"
  /\ IF call.won \/ deal.phase = "COMMITTING" THEN Answer("PERSISTENCE_PENDING", call)
     ELSE call' = [call EXCEPT !.at = "write"] /\ UNCHANGED answer
  /\ UNCHANGED deal /\ Still

WriteLook ==
  /\ call.at = "write"
  /\ Answer(IF deal.writing THEN "RECOVERY_PENDING" ELSE "TIMEOUT", call)
  /\ UNCHANGED deal /\ Still

HttpStep == \/ Begin \/ Drain \/ Queue \/ WaitEnds \/ Late \/ CallOff \/ GraceEnds \/ LastLook
            \/ PhaseLook \/ WriteLook \/ \E at \in {"wait", "grace"} : Wake(at)

-----------------------------------------------------------------------------
(* The power fails: what is not synced is lost.                            *)
PowerCut ==
  /\ powers < MaxPowers
  /\ powers' = powers + 1
  /\ prefs' = Synced(prefs.flash)
  /\ Booted(prefs.flash)
  /\ UNCHANGED <<answer, botched>>

Init ==
  /\ \E held \in {None, Default} :
       /\ prefs = Synced(held)
       /\ deal = IF held = None THEN Transaction(Default, Blank, TRUE)
                 ELSE Transaction(held, held, FALSE)
       /\ live = held
  /\ job = NoJob /\ call = NoCall /\ answer = NoAnswer
  /\ botched = FALSE /\ powers = 1

Next == LoopStep \/ HttpStep \/ PowerCut

Spec == Init /\ [][Next]_vars
-----------------------------------------------------------------------------
TypeOK ==
  /\ prefs \in [ flash : 0 .. 4, queued : 0 .. 4 ]
  /\ deal.phase \in {"IDLE", "QUEUED", "PROCESSING", "WRITING", "CANCELLED", "COMMITTING", "COMPLETED"}
  /\ live \in 0 .. 4

(* Safety: what the answer says of the configuration is so, and stays so,  *)
(* also over a power cut, until the next configuration is posted: accepted *)
(* means stored, refused means that a boot never brings it up after all    *)
(* and that it is not in use, unless the rollback itself failed.           *)
StoredAsAnswered ==
  /\ answer.result \in Good => prefs.flash = answer.want
  /\ answer.result \in Refused /\ ~botched /\ ~deal.failed /\ answer.held # answer.want
       => answer.want \notin {prefs.flash, prefs.queued, live}
=============================================================================
