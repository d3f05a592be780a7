--------------------------- MODULE ControlWrites ---------------------------
(***************************************************************************)
(* What the web app writes to the device and what it then says about it    *)
(* (core/entity-write-actions.js, control-actions.js, simple-curve.js,     *)
(* entity-backup.js): single settings, with or without a read-back, the    *)
(* opt-in switches, a pause with its end, and the commands of several      *)
(* writes that take back what they did when one of them fails.             *)
(*                                                                         *)
(* Two settings stand for all; 0 is off, cleared or automatic.  The device *)
(* answers a write before its main loop applies it.  Two commands can      *)
(* overlap: a control is only disabled while busyAction names it.          *)
(***************************************************************************)
EXTENDS Naturals, Sequences

CONSTANTS
  MaxTries,   \* attempts of a confirmation: 5, 8 or 10 in the code
  MaxMoves,   \* bound: commands, and changes made by others
  Overlapping \* bound: the kinds of command begun while another is under way

Settings == {"a", "b"}
Values   == 0 .. 1
Free     == 2                       \* of a setting nothing is said
Nothing  == [x \in Settings |-> Free]
About(x, v) == [Nothing EXCEPT ![x] = v]

AtOnce    == {"switch", "text", "resume"}   \* shown as soon as it is accepted
Plain     == AtOnce \cup {"number", "select"}
Confirmed == {"override", "advice", "source"}
Single    == Plain \cup Confirmed \cup {"telemetry"}
Kinds     == Single \cup {"range", "pause", "strategy", "curve"}
Slots     == {1, 2}

VARIABLES
  unitval,  \* the settings of the device
  inbox,    \* writes it has accepted and not yet applied
  shown,    \* the page's copy, state.entities
  cmd,      \* the commands under way
  busy,     \* state.busyAction
  notice,   \* controlNotice: what it says of the settings, and whose it is
  failure,  \* controlError, the same: "restored" and "unchanged"
  wrote,    \* for each setting who wrote it last, 0 for another client
  moves     \* what the bound leaves

vars == <<unitval, inbox, shown, cmd, busy, notice, failure, wrote, moves>>

NoCmd == [ kind |-> "none", step |-> "idle", want |-> Nothing, prev |-> Nothing,
           tries |-> 0, bad |-> FALSE, id |-> 0 ]
Silent == [ must |-> Nothing, by |-> 0 ]

-----------------------------------------------------------------------------
(* The controls                                                            *)

(* A control is disabled while busyAction is its own; a source is not      *)
(* saved while anything else is.                                           *)
Enabled(kind) == busy # kind /\ (kind = "source" => busy = "")

(* Most ask for something else than the page shows.                        *)
Asks(kind, want) ==
  CASE kind \in Single   -> want["a"] = 1 - shown["a"] /\ want["b"] = Free
    [] kind = "range"    -> want["a"] = 0 /\ want["b"] = 0
    [] kind = "pause"    -> want["a"] = 0 /\ want["b"] \in Values
    [] kind = "strategy" -> want["a"] = 1 - shown["a"] /\ want["b"] \in Values

Start(c, kind, want, step) ==
  /\ cmd[c].step = "idle" /\ moves > 0
  /\ \A d \in Slots : d < c => cmd[d].step # "idle"
  /\ cmd' = [cmd EXCEPT ![c] = [NoCmd EXCEPT !.kind = kind, !.want = want, !.prev = shown,
                                  !.id = moves, !.step = step]]
  /\ moves' = moves - 1
  /\ UNCHANGED <<unitval, inbox, wrote>>

Begin(c) ==
  \E kind \in (IF c = 1 THEN Kinds \ {"curve"} ELSE Overlapping),
     want \in [Settings -> Values \cup {Free}] :
    /\ Enabled(kind) /\ Asks(kind, want)
    /\ Start(c, kind, want, "write")
    /\ busy' = kind
    /\ notice' = Silent /\ failure' = Silent
    /\ shown' = IF kind \in {"select", "strategy"}
                THEN [shown EXCEPT !["a"] = want["a"]] ELSE shown

(* A curve has a flag of its own, simpleCurveApplying.                     *)
BeginCurve(c) ==
  /\ c = 1
  /\ \E want \in [Settings -> Values] : Start(c, "curve", want, "submit")
  /\ UNCHANGED <<shown, busy, notice, failure>>

-----------------------------------------------------------------------------
(* Steps                                                                   *)

At(c, kinds, step) == cmd[c].kind \in kinds /\ cmd[c].step = step

(* A request that fails may have reached the device all the same.          *)
Posts(c, writes, ok) ==
  /\ \/ /\ inbox' = inbox \o writes
        /\ wrote' = [x \in Settings |-> IF \E i \in DOMAIN writes : writes[i][1] = x
                                        THEN cmd[c].id ELSE wrote[x]]
     \/ ~ok /\ UNCHANGED <<inbox, wrote>>
  /\ UNCHANGED <<unitval, moves>>

Post(c, x, v, ok) == Posts(c, << <<x, v>> >>, ok)

(* refreshEntities never throws: when it fails the page keeps its copy.    *)
Refresh == /\ shown' \in {shown, unitval}
           /\ UNCHANGED <<unitval, inbox, wrote, moves>>

Go(c, step) == cmd' = [cmd EXCEPT ![c].step = step, ![c].tries = 0] /\ UNCHANGED busy
End(c)      == cmd' = [cmd EXCEPT ![c] = NoCmd] /\ busy' = ""

(* Another attempt of a confirmation, or `last` when there is none left.   *)
Again(c, last) ==
  IF cmd[c].tries + 1 < MaxTries
  THEN cmd' = [cmd EXCEPT ![c].tries = @ + 1] /\ UNCHANGED busy
  ELSE last

Notify(c, must) == notice' = [ must |-> must, by |-> cmd[c].id ] /\ UNCHANGED failure
Report(c, must) == notice' = Silent /\ failure' = [ must |-> must, by |-> cmd[c].id ]
Quietly         == UNCHANGED <<notice, failure>>

Want(c) == cmd[c].want
Prev(c) == cmd[c].prev
Matches(c, want) == \A x \in Settings : want[x] # Free => shown'[x] = want[x]

-----------------------------------------------------------------------------
(* commitSelect, commitSwitch, commitNumber, commitText, commitDateTime,   *)
(* commitOpenQuattRegulationResumeNow: a switch is not busy any more while *)
(* the page is refreshed.                                                  *)
PlainWrite(c) ==
  /\ At(c, Plain, "write")
  /\ \E ok \in BOOLEAN :
       /\ Post(c, "a", Want(c)["a"], ok)
       /\ IF ok
          THEN /\ shown' = IF cmd[c].kind \in AtOnce THEN [shown EXCEPT !["a"] = Want(c)["a"]] ELSE shown
               /\ Notify(c, Want(c))
               /\ cmd' = [cmd EXCEPT ![c].step = "refresh"]
               /\ busy' = IF cmd[c].kind = "switch" THEN "" ELSE busy
          ELSE /\ shown' = IF cmd[c].kind = "select" THEN [shown EXCEPT !["a"] = Prev(c)["a"]] ELSE shown
               /\ End(c) /\ Quietly

Refreshes(c) ==
  /\ cmd[c].step = "refresh"
  /\ Refresh /\ End(c) /\ Quietly

(* The same with a read-back: of the mode override, of the heating enable  *)
(* the advice sets, and, several times, of a supply source.                *)
ConfirmedWrite(c) ==
  /\ At(c, Confirmed, "write")
  /\ \E ok \in BOOLEAN :
       /\ Post(c, "a", Want(c)["a"], ok)
       /\ IF ok THEN Go(c, "confirm") ELSE End(c)
  /\ Quietly /\ UNCHANGED shown

ReadBack(c, x, ok) ==
  /\ shown' = IF ok THEN [shown EXCEPT ![x] = unitval[x]] ELSE shown
  /\ UNCHANGED <<unitval, inbox, wrote, moves>>

SourceConfirms(c) ==
  /\ At(c, {"source"}, "confirm")
  /\ \E ok \in BOOLEAN :
       /\ ReadBack(c, "a", ok)
       /\ IF ok /\ unitval["a"] = Want(c)["a"]
          THEN Go(c, "refresh") /\ Notify(c, Want(c))
          ELSE Again(c, End(c)) /\ Quietly

(* An override whose read-back failed is shown as not automatic.           *)
OverrideConfirms(c) ==
  /\ At(c, {"override"}, "confirm")
  /\ \/ /\ ReadBack(c, "a", TRUE)
        /\ IF unitval["a"] = Want(c)["a"]
           THEN Go(c, "refresh") /\ Notify(c, Want(c))
           ELSE End(c) /\ Quietly
     \/ /\ shown' = [shown EXCEPT !["a"] = IF Want(c)["a"] = 0 THEN Prev(c)["a"] ELSE Want(c)["a"]]
        /\ End(c) /\ Quietly
        /\ UNCHANGED <<unitval, inbox, wrote, moves>>

AdviceConfirms(c) ==
  /\ At(c, {"advice"}, "confirm")
  /\ \/ /\ unitval["a"] = Want(c)["a"]
        /\ ReadBack(c, "a", TRUE)
        /\ Go(c, "refresh") /\ Notify(c, Want(c))
     \/ End(c) /\ Quietly /\ UNCHANGED <<unitval, inbox, shown, wrote, moves>>

-----------------------------------------------------------------------------
(* commitTelemetrySwitch: without a confirmation sharing is switched off.  *)

OptWrite(c) ==
  /\ At(c, {"telemetry"}, "write")
  /\ \E ok \in BOOLEAN :
       Post(c, "a", Want(c)["a"], ok) /\ Go(c, IF ok THEN "confirm" ELSE "undo")
  /\ Quietly /\ UNCHANGED shown

OptConfirms(c) ==
  /\ At(c, {"telemetry"}, "confirm")
  /\ Refresh
  /\ IF Matches(c, Want(c))
     THEN End(c) /\ Notify(c, Want(c))
     ELSE Again(c, Go(c, "undo")) /\ Quietly

OptOut(c) ==
  /\ At(c, {"telemetry"}, "undo")
  /\ \E ok \in BOOLEAN :
       /\ Post(c, "a", 0, ok)
       /\ IF ok THEN Go(c, "unconfirm") /\ UNCHANGED shown
                ELSE End(c) /\ shown' = [shown EXCEPT !["a"] = Prev(c)["a"]]
  /\ Quietly

OptOutConfirms(c) ==
  /\ At(c, {"telemetry"}, "unconfirm")
  /\ UNCHANGED <<unitval, inbox, wrote, moves>>
  /\ \E read \in {shown, unitval} :
       IF read["a"] = 0
       THEN shown' = read /\ End(c) /\ Notify(c, About("a", 0))
       ELSE /\ Again(c, End(c)) /\ Quietly
            /\ shown' = IF cmd'[c].step = "idle" THEN [read EXCEPT !["a"] = Prev(c)["a"]] ELSE read

-----------------------------------------------------------------------------
(* disableRange: both boundaries are written, whatever becomes of the      *)
(* first, and read back.                                                   *)

RangeWrite(c, step, x, next) ==
  /\ At(c, {"range"}, step)
  /\ \E ok \in BOOLEAN :
       /\ Post(c, x, 0, ok)
       /\ cmd' = [cmd EXCEPT ![c].step = next, ![c].bad = @ \/ ~ok]
       /\ IF ok THEN Notify(c, About(x, 0)) /\ shown' \in {shown, unitval}
                ELSE notice' = Silent /\ UNCHANGED <<shown, failure>>
  /\ busy' = IF next = "confirm" THEN "" ELSE "range"

RangeConfirms(c) ==
  /\ At(c, {"range"}, "confirm")
  /\ Refresh
  /\ cmd' = [cmd EXCEPT ![c] = NoCmd] /\ UNCHANGED busy
  /\ IF ~cmd[c].bad /\ Matches(c, Want(c)) THEN Notify(c, Want(c)) ELSE Report(c, Nothing)

Range(c) == \/ RangeWrite(c, "write", "a", "write2")
            \/ RangeWrite(c, "write2", "b", "confirm")
            \/ RangeConfirms(c)

-----------------------------------------------------------------------------
(* commitOpenQuattRegulationPause: the end of the pause, then the switch,  *)
(* and the end is cleared again when the switch fails.                     *)

PauseEnd(c) ==
  /\ At(c, {"pause"}, "write")
  /\ \E ok \in BOOLEAN :
       /\ Post(c, "b", Want(c)["b"], ok)
       /\ IF ok THEN Go(c, "write2") /\ shown' = [shown EXCEPT !["b"] = Want(c)["b"]]
                ELSE End(c) /\ UNCHANGED shown
  /\ Quietly

PauseSwitch(c) ==
  /\ At(c, {"pause"}, "write2")
  /\ \E ok \in BOOLEAN :
       /\ Post(c, "a", 0, ok)
       /\ IF ok THEN Go(c, "refresh") /\ shown' = [shown EXCEPT !["a"] = 0] /\ Notify(c, Want(c))
          ELSE /\ IF Want(c)["b"] # 0 THEN Go(c, "undo") ELSE End(c)
               /\ Quietly /\ UNCHANGED shown

PauseRollback(c) ==
  /\ At(c, {"pause"}, "undo")
  /\ \E ok \in BOOLEAN :
       /\ Post(c, "b", 0, ok)
       /\ shown' = IF ok THEN [shown EXCEPT !["b"] = 0] ELSE shown
  /\ End(c) /\ Quietly

-----------------------------------------------------------------------------
(* commitQuickStartStrategySelection: the strategy and then the heating    *)
(* enable that goes with it, each written and verified                     *)
(* (commitConfirmedSelection); what was changed is put back the same way.  *)
(* commitSelect is not busy any more while its value is verified.          *)

Commit(c, step, x, v, next, failed) ==
  /\ At(c, {"strategy"}, step)
  /\ \E ok \in BOOLEAN :
       /\ Post(c, x, v, ok)
       /\ IF ok
          THEN /\ shown' \in {[shown EXCEPT ![x] = v], unitval}
               /\ Notify(c, About(x, v))
               /\ cmd' = [cmd EXCEPT ![c].step = next] /\ busy' = ""
          ELSE /\ shown' = IF step = "write" THEN [shown EXCEPT ![x] = Prev(c)[x]] ELSE shown
               /\ failed

Verify(c, step, x, v, good, failed) ==
  /\ At(c, {"strategy"}, step)
  /\ UNCHANGED <<unitval, inbox, shown, wrote, moves>>
  /\ (unitval[x] = v /\ good) \/ failed

(* The next commit clears what was said before it.                         *)
Onward(c, step, bad) ==
  /\ cmd' = [cmd EXCEPT ![c].step = step, ![c].bad = @ \/ bad]
  /\ busy' = "strategy" /\ notice' = Silent /\ failure' = Silent

UndoBoth(c) == Onward(c, IF Prev(c)["b"] = Want(c)["b"] THEN "undo2" ELSE "undo", FALSE)

(* Done when heating enable is as recommended, or the wizard is closed.    *)
StrategyTaken(c) ==
  \/ End(c) /\ Quietly
  \/ shown["b"] # Want(c)["b"] /\ Onward(c, "write2", FALSE)

(* What the error says: all is as before, or it may not be.                *)
GiveUp(c)   == End(c) /\ Report(c, Nothing)
(* A bug: an undo that failed on the way is forgotten.                     *)
Restored_Regardless(c) == End(c) /\ Report(c, Prev(c))

Restored(c) == End(c) /\ Report(c, IF cmd[c].bad THEN Nothing ELSE Prev(c))

Strategy(c) ==
  \/ Commit(c, "write", "a", Want(c)["a"], "verify", Onward(c, "undo2", FALSE))
  \/ Verify(c, "verify", "a", Want(c)["a"], StrategyTaken(c), Onward(c, "undo2", FALSE))
  \/ Commit(c, "write2", "b", Want(c)["b"], "verify2", UndoBoth(c))
  \/ Verify(c, "verify2", "b", Want(c)["b"], End(c) /\ Quietly, UndoBoth(c))
  \/ Commit(c, "undo", "b", Prev(c)["b"], "unverify", Onward(c, "undo2", TRUE))
  \/ Verify(c, "unverify", "b", Prev(c)["b"], Onward(c, "undo2", FALSE), Onward(c, "undo2", TRUE))
  \/ Commit(c, "undo2", "a", Prev(c)["a"], "unverify2", GiveUp(c))
  \/ Verify(c, "unverify2", "a", Prev(c)["a"], Restored(c), GiveUp(c))

-----------------------------------------------------------------------------
(* apply-simple-curve: one request for all points, whose values must then  *)
(* be read back; a device without it gets the points one by one.           *)

Leave(c) == cmd' = [cmd EXCEPT ![c] = NoCmd]

CurveSubmit(c) ==
  /\ At(c, {"curve"}, "submit")
  /\ UNCHANGED <<shown, busy, notice>>
  /\ \/ /\ \E ok \in BOOLEAN : Posts(c, << <<"a", Want(c)["a"]>>, <<"b", Want(c)["b"]>> >>, ok)
        /\ cmd' = [cmd EXCEPT ![c].step = "confirm"]
        /\ UNCHANGED failure
     \/ /\ \/ Leave(c) /\ failure' = Silent
           \/ cmd' = [cmd EXCEPT ![c].step = "write"] /\ UNCHANGED failure
        /\ UNCHANGED <<unitval, inbox, wrote, moves>>

CurveConfirms(c) ==
  /\ At(c, {"curve"}, "confirm")
  /\ Refresh /\ UNCHANGED <<busy, failure>>
  /\ IF Matches(c, Want(c))
     THEN Leave(c) /\ notice' = [ must |-> Want(c), by |-> cmd[c].id ]
     ELSE /\ UNCHANGED notice
          /\ IF cmd[c].tries + 1 < MaxTries THEN cmd' = [cmd EXCEPT ![c].tries = @ + 1] ELSE Leave(c)

(* commitNumber of one point.                                              *)
Point(c, x, v, ok) ==
  /\ Post(c, x, v, ok)
  /\ shown' \in {shown} \cup (IF ok THEN {unitval} ELSE {})
  /\ busy' = ""

(* applySimpleCurvePoints: points that change, until one fails.            *)
CurvePoint(c, step, x, next) ==
  /\ At(c, {"curve"}, step)
  /\ IF Want(c)[x] = Prev(c)[x]
     THEN /\ cmd' = [cmd EXCEPT ![c].step = next]
          /\ Quietly /\ UNCHANGED <<unitval, inbox, wrote, moves, shown, busy>>
     ELSE \E ok \in BOOLEAN :
            /\ Point(c, x, Want(c)[x], ok)
            /\ cmd' = [cmd EXCEPT ![c].step = IF ok THEN next ELSE "undo"]
            /\ notice' = IF ok THEN [ must |-> About(x, Want(c)[x]), by |-> cmd[c].id ] ELSE Silent
            /\ failure' = Silent

CurveCheck(c) ==
  /\ At(c, {"curve"}, "check")
  /\ IF \A x \in Settings : shown[x] = Want(c)[x]
     THEN Leave(c) /\ notice' = [ must |-> Want(c), by |-> cmd[c].id ]
     ELSE cmd' = [cmd EXCEPT ![c].step = "undo"] /\ UNCHANGED notice
  /\ UNCHANGED <<unitval, inbox, wrote, moves, shown, busy, failure>>

CurveUndo(c, step, x, next) ==
  /\ At(c, {"curve"}, step)
  /\ \E ok \in BOOLEAN :
       /\ Point(c, x, Prev(c)[x], ok)
       /\ IF next # "idle"
          THEN /\ cmd' = [cmd EXCEPT ![c].step = next, ![c].bad = ~ok]
               /\ notice' = Silent /\ failure' = Silent
          ELSE /\ Leave(c)
               /\ notice' = IF ok THEN [ must |-> About(x, Prev(c)[x]), by |-> cmd[c].id ] ELSE Silent
               /\ failure' = [ by |-> cmd[c].id,
                               must |-> IF ok /\ ~cmd[c].bad /\ shown' = Prev(c) THEN Prev(c) ELSE Nothing ]

Curve(c) ==
  \/ CurveSubmit(c) \/ CurveConfirms(c)
  \/ CurvePoint(c, "write", "a", "write2") \/ CurvePoint(c, "write2", "b", "check")
  \/ CurveCheck(c)
  \/ CurveUndo(c, "undo", "a", "undo2") \/ CurveUndo(c, "undo2", "b", "idle")

-----------------------------------------------------------------------------
(* A sync merges what the device has, unless a command is busy, and with   *)
(* that the last error goes (noteEntityRefreshSuccess).                    *)
Poll ==
  /\ busy = ""
  /\ shown' = unitval /\ failure' = Silent
  /\ UNCHANGED <<unitval, inbox, cmd, busy, notice, wrote, moves>>

Apply ==
  /\ inbox # <<>>
  /\ unitval' = [unitval EXCEPT ![inbox[1][1]] = inbox[1][2]]
  /\ inbox' = Tail(inbox)
  /\ UNCHANGED <<shown, cmd, busy, notice, failure, wrote, moves>>

(* Another client, or the end of a pause.                                  *)
Meddle ==
  /\ moves > 0
  /\ \E x \in Settings, v \in Values :
       /\ inbox' = Append(inbox, <<x, v>>)
       /\ wrote' = [wrote EXCEPT ![x] = 0]
  /\ moves' = moves - 1
  /\ UNCHANGED <<unitval, shown, cmd, busy, notice, failure>>

Init ==
  /\ \E v \in Values : unitval = [x \in Settings |-> v]
  /\ inbox = <<>>
  /\ shown = unitval
  /\ cmd = [c \in Slots |-> NoCmd]
  /\ busy = ""
  /\ notice = Silent /\ failure = Silent
  /\ wrote = [x \in Settings |-> 0]
  /\ moves = MaxMoves

Step(c) ==
  \/ Begin(c) \/ BeginCurve(c) \/ PlainWrite(c) \/ Refreshes(c)
  \/ ConfirmedWrite(c) \/ SourceConfirms(c) \/ OverrideConfirms(c) \/ AdviceConfirms(c)
  \/ OptWrite(c) \/ OptConfirms(c) \/ OptOut(c) \/ OptOutConfirms(c)
  \/ Range(c) \/ PauseEnd(c) \/ PauseSwitch(c) \/ PauseRollback(c)
  \/ Strategy(c) \/ Curve(c)

Next == Poll \/ Apply \/ Meddle \/ \E c \in Slots : Step(c)

Spec == Init /\ [][Next]_vars

-----------------------------------------------------------------------------
(* That a setting will be v once the accepted writes are applied: the last *)
(* of the writes to it is of v.                                            *)
Settles(x, v) ==
  IF \E i \in DOMAIN inbox : inbox[i][1] = x
  THEN \E i \in DOMAIN inbox : /\ inbox[i] = <<x, v>>
                               /\ \A j \in DOMAIN inbox : j > i => inbox[j][1] # x
  ELSE unitval[x] = v

(* What the page says of a setting, that it was updated, confirmed, or put *)
(* back, is so and stays so until somebody else writes it: whatever was    *)
(* lost, however the commands overlap (commitTelemetrySwitch,              *)
(* commitQuickStartStrategySelection, applySimpleCurvePoints).             *)
True(s) == \A x \in Settings : s.must[x] # Free /\ wrote[x] = s.by => Settles(x, s.must[x])
NoticeIsTrue == True(notice) /\ True(failure)
=============================================================================
