----------------------------- MODULE WebControls -----------------------------
(***************************************************************************)
(* The parts of the web app where somebody sets something and is told what *)
(* became of it: the writes of the controls, the tools of an outdoor unit  *)
(* and the Quick Start wizard, each with the state it keeps of its own     *)
(* (openquatt/web/js/src).                                                 *)
(***************************************************************************)
EXTENDS Naturals

CONSTANTS
  MaxTries, MaxMoves, Overlapping,                              \* writes
  MaxOrders, MaxStirs,                                          \* tools
  MaxTurns, MaxLosses, MaxDue                                   \* quick

VARIABLES
  unitval, inbox, shown, cmd, busy, notice, failure, wrote, moves,
  tool, odu, desk, order, look, word, spoilt, chances,
  site, todo, wizard, choosing, trial, monitor, assured, turns

Writes == INSTANCE ControlWrites
Tools  == INSTANCE OduTools
Quick  == INSTANCE QuickStart

ASSUME WritesAssumption == MaxMoves \in Nat /\ Overlapping \subseteq Writes!Kinds

writesVars == <<unitval, inbox, shown, cmd, busy, notice, failure, wrote, moves>>
toolsVars  == <<tool, odu, desk, order, look, word, spoilt, chances>>
quickVars  == <<site, todo, wizard, choosing, trial, monitor, assured, turns>>

controlsVars == <<writesVars, toolsVars, quickVars>>

(* A step of the whole is, for each of them, a step of its own or none.    *)
ControlsInit == Writes!Init /\ Tools!Init /\ Quick!Init
ControlsNext ==
  /\ [Writes!Next]_writesVars
  /\ [Tools!Next]_toolsVars
  /\ [Quick!Next]_quickVars
ControlsSpec == ControlsInit /\ [][ControlsNext]_controlsVars

-----------------------------------------------------------------------------
(* What the page says it did is so: what it wrote or put back, what the    *)
(* tools of an outdoor unit report and what the wizard tells of sharing    *)
(* and of the flow test: see ControlWrites (commitTelemetrySwitch,         *)
(* commitQuickStartStrategySelection), OduTools (runOperation,             *)
(* assertOperationCompleted) and QuickStart (startQuickStartFlowTest).     *)
ToldTrue == Writes!NoticeIsTrue /\ Tools!ToolsTellTrue /\ Quick!WizardTold
=============================================================================
