----------------------------- MODULE QuickStart -----------------------------
(***************************************************************************)
(* The Quick Start wizard (features/quickstart-actions.js,                 *)
(* quickstart-ui-actions.js, quickstart.js): its steps, the telemetry      *)
(* choice a step makes by default and the user changes, the flow source    *)
(* and the flow test, on a device whose main loop carries orders out after *)
(* they were answered, over a network that loses them.                     *)
(*                                                                         *)
(* What the wizard reads is what the device has when the answer arrives;   *)
(* older answers are the subject of EntitySync.                            *)
(***************************************************************************)
EXTENDS Naturals, Sequences

CONSTANTS
  MaxTurns,  \* bound: what the user does in the wizard
  MaxLosses, \* bound: requests or answers that are lost
  MaxDue     \* bound: orders the main loop still has to carry out

Telemetry == {"usage", "performance"}
Steps   == {"setup", "source"} \cup Telemetry
Sources == {"qFlowSource", "flowSource"}
Preps   == 1 .. 2                          \* preparations under way: an abandoned one, a new one
User    == 3
Writers == Preps \cup {User}              \* who writes a telemetry choice

VARIABLES
  site,     \* the device: telemetry choices, flow sources that are as wanted, CM100, test
  todo,     \* orders that were answered and wait for the main loop
  wizard,   \* the page: open, step, set-up done, busyAction, controlError, copy of the device
  choosing, \* prepareQuickStartStep and commitTelemetrySwitch, by writer
  trial,    \* the flow test and the flow source: its stage, what it opened, whether a request
            \* was lost, and whether it began while an earlier test was not over
  monitor,  \* monitorQuickStartFlowTest is running
  assured,  \* choices the page last said are confirmed as not sharing
  turns     \* what the bounds leave

vars == <<site, todo, wizard, choosing, trial, monitor, assured, turns>>

NoChoice == [ stage |-> "idle", key |-> "usage", want |-> FALSE, live |-> FALSE ]
NoTrial  == [ stage |-> "idle", opened |-> FALSE, lost |-> FALSE, early |-> FALSE ]

At(s) == trial.stage = s
Told(field, value) == wizard' = [wizard EXCEPT !.busy = "", !.error = value = "error", !.copy = field]

-----------------------------------------------------------------------------
(* A request is accepted and waits for the main loop, or fails; one that   *)
(* fails may have been accepted all the same.                              *)
Order(what, value) == [ what |-> what, value |-> value ]
Accepted(o) == Len(todo) < MaxDue /\ todo' = Append(todo, o) /\ UNCHANGED turns
Loses(n) == turns.losses > 0 /\ turns' = [turns EXCEPT !.losses = @ - 1]
Failed(o) == Loses(1) /\ (UNCHANGED todo \/ (Len(todo) < MaxDue /\ todo' = Append(todo, o)))

(* write_state, set_enabled: a choice that cannot be stored is revoked.    *)
Carried(o) ==
  CASE o.what \in Telemetry /\ o.value  -> {[site EXCEPT !.choice[o.what] = c] : c \in {"on", "none"}}
    [] o.what \in Telemetry /\ ~o.value -> {[site EXCEPT !.choice[o.what] = c] : c \in {"off", "none"}}
    [] o.what \in Sources             -> {[site EXCEPT !.applied = @ \cup {o.what}]}
    [] o.what = "cm100" /\ o.value    -> {[site EXCEPT !.cm100 = IF @ = "on" THEN @ ELSE "asked"], site}
    [] o.what = "cm100" /\ ~o.value   -> {[site EXCEPT !.cm100 = "off", !.test = FALSE]}
    [] o.what = "test" /\ o.value     -> {[site EXCEPT !.test = @ \/ site.cm100 = "on"], site}
    [] OTHER -> {IF site.test THEN [site EXCEPT !.test = FALSE, !.cm100 = "off"] ELSE site}

MainLoop ==
  /\ todo # <<>>
  /\ site' \in Carried(Head(todo)) /\ todo' = Tail(todo)
  /\ assured' = {k \in assured : site'.choice[k] # "none"}
  /\ UNCHANGED <<wizard, choosing, trial, monitor, turns>>

(* CM100 is entered when the control mode allows it; a test ends by itself.*)
Granted ==
  /\ site.cm100 = "asked" /\ site' = [site EXCEPT !.cm100 = "on"]
  /\ UNCHANGED <<todo, wizard, choosing, trial, monitor, assured, turns>>
TestEnds ==
  /\ site.test /\ site' = [site EXCEPT !.test = FALSE, !.cm100 = "off"]
  /\ UNCHANGED <<todo, wizard, choosing, trial, monitor, assured, turns>>

-----------------------------------------------------------------------------
(* The steps                                                               *)

(* isQuickStartStepSelectionAllowed: set-up first.                         *)
Allowed(s) == wizard.ready \/ s = "setup"

Turn == turns.turns > 0 /\ turns' = [turns EXCEPT !.turns = @ - 1]
Bumped == [w \in Writers |-> [choosing[w] EXCEPT !.live = @ /\ w = User]]
IdlePrep(p) == choosing[p].stage = "idle" /\ \A q \in Preps : q < p => choosing[q].stage # "idle"

(* prepareQuickStartStep: a telemetry step is hydrated and gets its        *)
(* default, unless something else is under way.                            *)
Prepare(s) ==
  IF s \in Telemetry
  THEN IF wizard.busy \in {"", "prepare"}
       THEN /\ wizard' = [wizard EXCEPT !.step = s, !.open = TRUE, !.busy = "prepare", !.error = FALSE]
            /\ \E p \in Preps :
                 /\ IdlePrep(p)
                 /\ choosing' = [Bumped EXCEPT ![p] = [ stage |-> "hydrate", key |-> s, want |-> s = "usage", live |-> TRUE ]]
       ELSE wizard' = [wizard EXCEPT !.step = s, !.open = TRUE, !.error = FALSE] /\ choosing' = Bumped
  ELSE /\ choosing' = Bumped
       /\ wizard' = [wizard EXCEPT !.step = s, !.open = TRUE, !.busy = IF @ = "prepare" THEN "" ELSE @]

(* select-step, previous-step, next-step; the last is barred while the     *)
(* step is not settled, but the others lead as far.                        *)
SelectStep ==
  /\ Turn
  /\ \E s \in Steps \ {wizard.step} :
       IF Allowed(s) THEN Prepare(s)
       ELSE wizard' = [wizard EXCEPT !.error = TRUE] /\ UNCHANGED choosing
  /\ UNCHANGED <<site, todo, trial, monitor, assured>>

(* retry-usage-telemetry-choice, retry-performance-telemetry-choice.       *)
Retry ==
  /\ Turn
  /\ wizard.step \in Telemetry /\ wizard.error /\ wizard.busy = ""
  /\ Prepare(wizard.step)
  /\ UNCHANGED <<site, todo, trial, monitor, assured>>

(* close-quickstart-modal; open-quickstart-modal starts at the set-up.     *)
CloseModal ==
  /\ Turn /\ wizard.open
  /\ wizard' = [wizard EXCEPT !.open = FALSE, !.busy = IF @ = "prepare" THEN "" ELSE @]
  /\ choosing' = Bumped
  /\ UNCHANGED <<site, todo, trial, monitor, assured>>
OpenModal ==
  /\ Turn /\ ~wizard.open
  /\ wizard' = [wizard EXCEPT !.open = TRUE, !.step = "setup"]
  /\ UNCHANGED <<site, todo, choosing, trial, monitor, assured>>

(* The firmware of the set-up is installed, or kept: see FirmwareInstall.  *)
SetupDone ==
  /\ ~wizard.ready /\ wizard.step = "setup" /\ wizard.open /\ wizard.busy = ""
  /\ wizard' = [wizard EXCEPT !.ready = TRUE]
  /\ UNCHANGED <<site, todo, choosing, trial, monitor, assured, turns>>

-----------------------------------------------------------------------------
(* The telemetry choice: a writer is "idle", at "hydrate", or has to       *)
(* "post", to "confirm", to "undo" and "unconfirm".                        *)
Key(w) == choosing[w].key
To(w, s) == choosing' = [choosing EXCEPT ![w].stage = s]
Leave(w) == choosing' = [choosing EXCEPT ![w] = NoChoice]
Current(w) == choosing[w].live /\ wizard.step = Key(w)
Reread(k) == [wizard.copy EXCEPT !.choice[k] = site.choice[k]]
Wanted(on) == IF on THEN "on" ELSE "off"

(* isUsageTelemetryChoiceConfirmed: the choice is made, and it is this one.*)
Confirmed(k, on) == site.choice[k] = Wanted(on)

(* refreshQuickStartStepHydration, whose failure is swallowed, and the     *)
(* conditions to make the default choice.                                  *)
Hydrated(p) ==
  /\ choosing[p].stage = "hydrate"
  /\ \E fresh \in BOOLEAN :
       /\ IF fresh THEN UNCHANGED turns ELSE Loses(1)
       /\ LET copy == IF fresh THEN Reread(Key(p)) ELSE wizard.copy
              ends == ~Current(p) \/ copy.choice[Key(p)] # "none"
          IN /\ IF ends THEN Leave(p) ELSE To(p, "post")
             /\ wizard' = [wizard EXCEPT !.copy = copy,
                             !.busy = IF ~ends THEN "choice"
                                      ELSE IF choosing[p].live /\ @ = "prepare" THEN "" ELSE @,
                             !.error = IF ends THEN @ ELSE FALSE]
  /\ UNCHANGED <<site, todo, trial, monitor, assured>>

(* The user switches sharing on or off: commitTelemetrySwitch.             *)
Choose(on) ==
  /\ Turn
  /\ wizard.open /\ wizard.step \in Telemetry /\ wizard.busy = ""
  /\ choosing[User].stage = "idle"
  /\ choosing' = [choosing EXCEPT ![User] = [ stage |-> "post", key |-> wizard.step, want |-> on, live |-> TRUE ]]
  /\ wizard' = [wizard EXCEPT !.busy = "choice", !.error = FALSE]
  /\ assured' = assured \ {wizard.step}
  /\ UNCHANGED <<site, todo, trial, monitor>>

(* Only the default of the performance step has nothing to fall back on.   *)
FallsBack(w) == w = User \/ Key(w) = "usage"
Posts(w) ==
  /\ choosing[w].stage = "post"
  /\ LET o == Order(Key(w), choosing[w].want)
     IN \/ Accepted(o) /\ To(w, "confirm") /\ UNCHANGED wizard
        \/ /\ Failed(o)
           /\ IF FallsBack(w) THEN To(w, "undo") /\ UNCHANGED wizard
                              ELSE Leave(w) /\ Told(wizard.copy, "error")
  /\ UNCHANGED <<site, trial, monitor, assured>>

Confirms(w) ==
  /\ choosing[w].stage = "confirm"
  /\ \/ /\ Confirmed(Key(w), choosing[w].want)
        /\ Leave(w) /\ Told(Reread(Key(w)), "")
        /\ assured' = IF choosing[w].want THEN assured ELSE assured \cup {Key(w)}
     \/ /\ ~Confirmed(Key(w), choosing[w].want)
        /\ UNCHANGED assured
        /\ IF FallsBack(w) THEN To(w, "undo") /\ wizard' = [wizard EXCEPT !.copy = Reread(Key(w))]
                           ELSE Leave(w) /\ Told(Reread(Key(w)), "error")
  /\ UNCHANGED <<site, todo, trial, monitor, turns>>

(* Sharing that could not be confirmed is switched off.                    *)
Undoes(w) ==
  /\ choosing[w].stage = "undo"
  /\ \/ Accepted(Order(Key(w), FALSE)) /\ To(w, "unconfirm") /\ UNCHANGED wizard
     \/ Failed(Order(Key(w), FALSE)) /\ Leave(w) /\ Told(wizard.copy, "error")
  /\ UNCHANGED <<site, trial, monitor, assured>>
Unconfirms(w) ==
  /\ choosing[w].stage = "unconfirm"
  /\ Leave(w)
  /\ \/ Confirmed(Key(w), FALSE) /\ Told(Reread(Key(w)), "") /\ assured' = assured \cup {Key(w)}
     \/ ~Confirmed(Key(w), FALSE) /\ Told(Reread(Key(w)), "error") /\ UNCHANGED assured
  /\ UNCHANGED <<site, todo, trial, monitor, turns>>

-----------------------------------------------------------------------------
(* The flow source and the flow test                                       *)

OnSource == wizard.open /\ wizard.step = "source" /\ wizard.busy = "" /\ At("idle")
Applied  == wizard.copy.applied = Sources
Busy(b)  == wizard' = [wizard EXCEPT !.busy = b, !.error = FALSE]
Stage(s) == trial' = [trial EXCEPT !.stage = s]
Sees(copy) == [wizard EXCEPT !.copy = copy]

StartApply ==
  /\ Turn /\ OnSource /\ ~wizard.copy.test
  /\ Busy("source") /\ Stage("apply")
  /\ UNCHANGED <<site, todo, choosing, monitor, assured>>

(* applyValue: what the copy says is so already is not written.            *)
ApplyNext ==
  /\ At("apply")
  /\ \/ /\ ~Applied
        /\ LET f == IF "qFlowSource" \in wizard.copy.applied THEN "flowSource" ELSE "qFlowSource"
           IN \/ /\ Accepted(Order(f, TRUE)) /\ UNCHANGED trial
                 /\ wizard' = Sees([wizard.copy EXCEPT !.applied = @ \cup {f}])
              \/ Failed(Order(f, TRUE)) /\ Stage("idle") /\ Told(wizard.copy, "error")
     \/ /\ Applied /\ Stage("idle") /\ UNCHANGED todo
        /\ \/ Told([wizard.copy EXCEPT !.applied = site.applied], "") /\ UNCHANGED turns
           \/ Loses(1) /\ Told(wizard.copy, "error")
  /\ UNCHANGED <<site, choosing, monitor, assured>>

(* An earlier test, running or ordered, that the page does not know of.    *)
TestGoesOn == site.test \/ \E i \in DOMAIN todo : todo[i] = Order("test", TRUE)

StartTest ==
  /\ Turn /\ OnSource /\ Applied /\ ~wizard.copy.test
  /\ Busy("test-start")
  /\ trial' = [NoTrial EXCEPT !.stage = "controls", !.early = TestGoesOn]
  /\ UNCHANGED <<site, todo, choosing, monitor, assured>>

(* The end of a start that failed, with the orders that are `due` by then: *)
(* a CM100 it opened is closed again, unless that request is lost too.     *)
Abandon(copy, due) ==
  /\ Told(copy, "error")
  /\ \/ /\ trial.opened /\ ~copy.test
        /\ Len(due) < MaxDue /\ todo' = Append(due, Order("cm100", FALSE)) /\ Stage("idle")
     \/ /\ trial.opened /\ ~copy.test
        /\ turns.losses > 0 /\ todo' = due
        /\ trial' = [trial EXCEPT !.stage = "idle", !.lost = TRUE]
     \/ /\ ~trial.opened \/ copy.test
        /\ todo' = due /\ Stage("idle")

(* refreshQuickStartFlowTestControls, then CM100 Start if it is not on.    *)
OpenCm100 ==
  /\ At("controls")
  /\ \/ /\ wizard.copy.cm100 /\ Stage("wait") /\ UNCHANGED <<todo, turns>>
        /\ wizard' = Sees([wizard.copy EXCEPT !.test = site.test])
     \/ /\ ~wizard.copy.cm100 /\ Accepted(Order("cm100", TRUE))
        /\ wizard' = Sees([wizard.copy EXCEPT !.test = site.test])
        /\ trial' = [trial EXCEPT !.stage = "wait", !.opened = TRUE]
     \/ /\ ~wizard.copy.cm100 /\ Failed(Order("cm100", TRUE))
        /\ Told(wizard.copy, "error") /\ Stage("idle")
  /\ UNCHANGED <<site, choosing, monitor, assured>>

(* Twenty looks, half a second apart, for CM100 READY.                     *)
AwaitCm100 ==
  /\ At("wait")
  /\ LET copy == [wizard.copy EXCEPT !.cm100 = site.cm100 = "on"]
     IN \/ /\ copy.cm100 /\ ~site.test
           /\ wizard' = Sees(copy) /\ Stage("switch") /\ UNCHANGED <<todo, turns>>
        \/ ~(copy.cm100 /\ ~site.test) /\ Abandon(copy, todo) /\ UNCHANGED turns
        \/ Loses(1) /\ Abandon(wizard.copy, todo)
  /\ UNCHANGED <<site, choosing, monitor, assured>>

SwitchOn ==
  /\ At("switch")
  /\ \/ Accepted(Order("test", TRUE)) /\ Stage("check") /\ UNCHANGED wizard
     \/ /\ Loses(1)
        /\ \E due \in {todo, Append(todo, Order("test", TRUE))} :
             Len(due) <= MaxDue /\ Abandon(wizard.copy, due)
  /\ UNCHANGED <<site, choosing, monitor, assured>>

Running(copy) ==
  /\ copy.test /\ Told(copy, "") /\ Stage("idle")
  /\ monitor' = TRUE /\ UNCHANGED <<todo, turns>>
CheckTest ==
  /\ At("check")
  /\ LET copy == [wizard.copy EXCEPT !.test = site.test, !.cm100 = site.cm100 = "on"]
     IN \/ Running(copy)
        \/ ~copy.test /\ Abandon(copy, todo) /\ UNCHANGED <<monitor, turns>>
        \/ Loses(1) /\ Abandon(wizard.copy, todo) /\ UNCHANGED monitor
  /\ UNCHANGED <<site, choosing, assured>>

(* A look each second, until the test is over or a look fails.             *)
Monitors ==
  /\ monitor
  /\ \/ /\ wizard' = Sees([wizard.copy EXCEPT !.test = site.test, !.cm100 = site.cm100 = "on"])
        /\ monitor' = site.test /\ UNCHANGED turns
     \/ Loses(1) /\ monitor' = FALSE /\ UNCHANGED wizard
  /\ UNCHANGED <<site, todo, choosing, trial, assured>>

StartAbort ==
  /\ Turn /\ OnSource /\ wizard.copy.test
  /\ Busy("test-abort") /\ Stage("abort")
  /\ UNCHANGED <<site, todo, choosing, monitor, assured>>
AbortPosted ==
  /\ At("abort")
  /\ \/ Accepted(Order("test", FALSE)) /\ Stage("aborted") /\ UNCHANGED wizard
     \/ Failed(Order("test", FALSE)) /\ Stage("idle") /\ Told(wizard.copy, "error")
  /\ UNCHANGED <<site, choosing, monitor, assured>>
AbortRead ==
  /\ At("aborted") /\ Stage("idle")
  /\ Told([wizard.copy EXCEPT !.test = site.test, !.cm100 = site.cm100 = "on"], "")
  /\ UNCHANGED <<site, todo, choosing, monitor, assured, turns>>

-----------------------------------------------------------------------------
Init ==
  /\ site = [ choice |-> [k \in Telemetry |-> "none"], applied |-> {}, cm100 |-> "off", test |-> FALSE ]
  /\ todo = <<>>
  /\ wizard = [ open |-> TRUE, step |-> "setup", ready |-> FALSE, busy |-> "", error |-> FALSE,
                copy |-> [ choice |-> [k \in Telemetry |-> "none"], applied |-> {}, cm100 |-> FALSE, test |-> FALSE ] ]
  /\ choosing = [w \in Writers |-> NoChoice]
  /\ trial = NoTrial /\ monitor = FALSE /\ assured = {}
  /\ turns = [ turns |-> MaxTurns, losses |-> MaxLosses ]

StepNext == SelectStep \/ Retry \/ CloseModal \/ OpenModal \/ SetupDone
ChoiceNext == (\E on \in BOOLEAN : Choose(on)) \/ (\E p \in Preps : Hydrated(p))
              \/ \E w \in Writers : Posts(w) \/ Confirms(w) \/ Undoes(w) \/ Unconfirms(w)
SourceNext == StartApply \/ ApplyNext \/ StartTest \/ OpenCm100 \/ AwaitCm100 \/ SwitchOn
              \/ CheckTest \/ Monitors \/ StartAbort \/ AbortPosted \/ AbortRead

Next == MainLoop \/ Granted \/ TestEnds \/ StepNext \/ ChoiceNext \/ SourceNext

Spec == Init /\ [][Next]_vars

-----------------------------------------------------------------------------
(* Once the page said that sharing is off, by the user's word or because   *)
(* the default could not be confirmed, it is off when the main loop has    *)
(* caught up, and stays off until the user switches it on, unless the      *)
(* device could not store it; and a CM100 that a failed start of the flow  *)
(* test opened does not stay open, unless a request of that start was lost *)
(* or an earlier test, which the page did not know of, was not over.       *)
Due(what) == \E i \in DOMAIN todo : todo[i].what = what
WizardTold ==
  /\ \A k \in assured : ~Due(k) => site.choice[k] # "on"
  /\ At("idle") /\ trial.opened /\ ~trial.lost /\ ~trial.early /\ ~wizard.copy.test /\ todo = <<>>
     => site.cm100 = "off"
=============================================================================
