--------------------------- MODULE IncidentAction ---------------------------
(***************************************************************************)
(* A confirmation the user gives for an incident of a heat pump: retry the *)
(* start, or "the outdoor unit was powered down" (triggerIncidentAction,   *)
(* postIncidentActionRequest, resolveIncidentAction; on the device the     *)
(* deferred actions of OpenQuattIncidentManager.cpp).  The request may be  *)
(* lost, arrive late or twice, the device may restart; a request id tells  *)
(* what was done with which confirmation.                                  *)
(***************************************************************************)
EXTENDS Naturals, Sequences

CONSTANTS
  MaxLooks,   \* looks for the outcome; 3 in the code
  MaxIds,     \* bound: confirmations, of this page and of others
  MaxBoots    \* bound: restarts of the device

Ids == 1 .. MaxIds

VARIABLES
  ask,     \* state.incidentAction, and how far triggerIncidentAction is
  late,    \* requests given up by the page that may still arrive
  rig,     \* the device: boot (its CSRF token), pending action, results
  known,   \* the CSRF token of the page's snapshot, 0 for none
  lookup,  \* the fetch of a snapshot under way
  ran,     \* for each id: in which boots it was executed, and whether twice in one
  ids      \* what the bounds leave

vars == <<ask, late, rig, known, lookup, ran, ids>>

NoAsk    == [ id |-> 0, stage |-> "idle", pending |-> FALSE, ok |-> "open", tries |-> 0,
              joined |-> FALSE, lost |-> FALSE ]
NoLookup == [ stage |-> "idle", boot |-> 0, results |-> <<>> ]

-----------------------------------------------------------------------------
(* The device: handle_action_ and queue_deferred_action_                   *)

Has(results, id) == \E i \in DOMAIN results : results[i].id = id

(* A bug: only the pending action is compared, not the results.            *)
Reply_ForgetsResults(id, token) ==
  CASE token # rig.boot                        -> "forbidden"
    [] token = rig.boot /\ rig.slot = id       -> "duplicate"
    [] token = rig.boot /\ rig.slot = 0        -> "accepted"
    [] OTHER                                   -> "busy"

Reply(id, token) ==
  CASE token # rig.boot                                          -> "forbidden"
    [] token = rig.boot /\ (Has(rig.results, id) \/ rig.slot = id) -> "duplicate"
    [] token = rig.boot /\ ~Has(rig.results, id) /\ rig.slot = 0   -> "accepted"
    [] OTHER                                                     -> "busy"

After(id, token) == IF Reply(id, token) = "accepted" THEN [rig EXCEPT !.slot = id] ELSE rig

(* The main loop runs the deferred action; entering recovery cancels it.   *)
Execute ==
  /\ rig.slot # 0
  /\ \E ok \in BOOLEAN, cancelled \in BOOLEAN :
       /\ cancelled => ~ok
       /\ rig' = [rig EXCEPT !.slot = 0, !.results = Append(@, [ id |-> rig.slot, ok |-> ok ])]
       /\ ran' = IF cancelled THEN ran
                 ELSE [ran EXCEPT ![rig.slot].boots = @ \cup {rig.boot},
                                  ![rig.slot].twice = @ \/ rig.boot \in ran[rig.slot].boots,
                                  ![rig.slot].ok = @ \/ ok]
  /\ UNCHANGED <<ask, late, known, lookup, ids>>

Restart ==
  /\ rig.boot < MaxBoots
  /\ rig' = [ boot |-> rig.boot + 1, slot |-> 0, results |-> <<>> ]
  /\ UNCHANGED <<ask, late, known, lookup, ran, ids>>

(* A request given up by the page, once or, repeated by a browser, more;   *)
(* or one of another client.                                               *)
Arrive ==
  /\ \E p \in late : rig' = After(p.id, p.token)
  /\ UNCHANGED <<ask, late, known, lookup, ran, ids>>

Rival ==
  /\ ids <= MaxIds
  /\ rig' = After(ids, rig.boot)
  /\ ids' = ids + 1
  /\ UNCHANGED <<ask, late, known, lookup, ran>>

-----------------------------------------------------------------------------
(* The page asks                                                           *)

Posting == ask.stage \in {"first", "second", "third"}

(* The button is disabled while an action is pending.                      *)
Start ==
  /\ ask.stage = "idle" /\ ~ask.pending /\ ids <= MaxIds
  /\ ask' = [NoAsk EXCEPT !.id = ids, !.stage = "first", !.pending = TRUE]
  /\ ids' = ids + 1
  /\ UNCHANGED <<late, rig, known, lookup, ran>>

(* Accepted as new or as a duplicate: the outcome is looked up.            *)
ToCheck(a) == [a EXCEPT !.stage = "check", !.pending = TRUE, !.ok = "open", !.tries = 0]
Refused(a) == [a EXCEPT !.stage = "idle", !.pending = FALSE, !.ok = "refused"]

Answered ==
  /\ Posting
  /\ rig' = After(ask.id, known)
  /\ ask' = CASE Reply(ask.id, known) = "forbidden" /\ ask.stage # "third" ->
                   [ask EXCEPT !.stage = "csrf"]
              [] Reply(ask.id, known) \in {"accepted", "duplicate"} -> ToCheck(ask)
              [] OTHER -> Refused(ask)
  /\ UNCHANGED <<late, known, lookup, ran, ids>>

(* A network error: one more attempt, and then the outcome is unknown.     *)
NotAnswered ==
  /\ Posting
  /\ late' \in {late, late \cup {[ id |-> ask.id, token |-> known ]}}
  /\ rig' \in {rig, After(ask.id, known)}
  /\ ask' = IF ask.stage = "first" THEN [ask EXCEPT !.stage = "second", !.lost = TRUE]
                                   ELSE ToCheck([ask EXCEPT !.lost = TRUE])
  /\ UNCHANGED <<known, lookup, ran, ids>>

-----------------------------------------------------------------------------
(* refreshIncidentMonitoringData: a fetch under way, which may be older    *)
(* than the action, is joined.                                             *)

Join ==
  /\ ask.stage \in {"csrf", "check"} /\ ~ask.joined
  /\ ask' = [ask EXCEPT !.joined = TRUE]
  /\ lookup' = IF lookup.stage = "idle" THEN [NoLookup EXCEPT !.stage = "sent"] ELSE lookup
  /\ UNCHANGED <<late, rig, known, ran, ids>>

PollLooks ==
  /\ lookup.stage = "idle"
  /\ lookup' = [NoLookup EXCEPT !.stage = "sent"]
  /\ UNCHANGED <<ask, late, rig, known, ran, ids>>

LookupRead ==
  /\ lookup.stage = "sent"
  /\ lookup' = [ stage |-> "read", boot |-> rig.boot, results |-> rig.results ]
  /\ UNCHANGED <<ask, late, rig, known, ran, ids>>

(* resolveIncidentAction                                                   *)
Resolved(a, results) ==
  IF a.pending /\ Has(results, a.id)
  THEN [a EXCEPT !.pending = FALSE,
          !.ok = IF \E i \in DOMAIN results : results[i] = [ id |-> a.id, ok |-> TRUE ]
                 THEN "done" ELSE "failed"]
  ELSE a

(* What was waiting for the fetch goes on: the request with the new token, *)
(* or the next look.                                                      *)
Onward(a) ==
  CASE ~a.joined -> a
    [] a.joined /\ a.stage = "csrf" -> [a EXCEPT !.joined = FALSE, !.stage = "third"]
    [] a.joined /\ a.stage = "check" ->
         [a EXCEPT !.joined = FALSE, !.tries = IF a.pending /\ @ + 1 < MaxLooks THEN @ + 1 ELSE 0,
                   !.stage = IF a.pending /\ a.tries + 1 < MaxLooks THEN "check" ELSE "idle"]

LookupEnds ==
  /\ lookup.stage = "read"
  /\ known' = lookup.boot
  /\ ask' = Onward(Resolved(ask, lookup.results))
  /\ lookup' = NoLookup
  /\ UNCHANGED <<late, rig, ran, ids>>

LookupFails ==
  /\ lookup.stage # "idle"
  /\ ask' = Onward(ask)
  /\ lookup' = NoLookup
  /\ UNCHANGED <<late, rig, known, ran, ids>>

(* noteEntityRefreshSuccess after a lost connection forgets the action.    *)
Reconnected ==
  /\ ask.stage = "idle" /\ rig.boot # known
  /\ ask' = NoAsk
  /\ known' = 0
  /\ UNCHANGED <<late, rig, lookup, ran, ids>>

Init ==
  /\ ask = NoAsk /\ late = {} /\ lookup = NoLookup
  /\ rig = [ boot |-> 1, slot |-> 0, results |-> <<>> ]
  /\ known = 1
  /\ ran = [i \in Ids |-> [ boots |-> {}, twice |-> FALSE, ok |-> FALSE ]]
  /\ ids = 1

Next == \/ Execute \/ Restart \/ Arrive \/ Rival
        \/ Start \/ Answered \/ NotAnswered
        \/ Join \/ PollLooks \/ LookupRead \/ LookupEnds \/ LookupFails \/ Reconnected

Spec == Init /\ [][Next]_vars

-----------------------------------------------------------------------------
(* However often a request is repeated or delayed, one confirmation is     *)
(* executed at most once in a boot (request_id, queue_deferred_action_).   *)
(* What the page says of the action it shows is what the device did with   *)
(* that very confirmation: done means executed with success, and refused,  *)
(* when no attempt was lost on the way, that it never ran.                 *)
ConfirmedOnce ==
  /\ \A i \in Ids : ~ran[i].twice
  /\ ask.ok = "done" => ran[ask.id].ok
  /\ ask.ok = "refused" /\ ~ask.lost => ran[ask.id].boots = {} /\ rig.slot # ask.id
=============================================================================
