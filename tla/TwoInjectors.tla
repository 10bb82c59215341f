---------------------------- MODULE TwoInjectors ----------------------------
(***************************************************************************)
(* Two polling controllers on the one coordination file, each with its own *)
(* demo; the demos are run one after the other.  Every script opens the    *)
(* same path, creates it when missing and takes any text but its own       *)
(* command as the order to detach, so a demo of one is an event for both.  *)
(***************************************************************************)
EXTENDS Naturals, Sequences, CoordinationFile

CONSTANTS
  ScriptA, DemoA, ScriptB, DemoB,   \* records of IagoScripts
  Second,                           \* ticks of a second
  PollMax, AttachMax, DetachMax, MaxRuns, MaxFaults

VARIABLES
  file,
  tpcA, waitedA, enteredA, outcomeA, failedA, cpcA, idxA, attachedA, probesA,
  ageA, staleA, calmA, runsA, faultsA,
  tpcB, waitedB, enteredB, outcomeB, failedB, cpcB, idxB, attachedB, probesB,
  ageB, staleB, calmB, runsB, faultsB

sideA == <<tpcA, waitedA, enteredA, outcomeA, failedA, cpcA, idxA, attachedA,
           probesA, ageA, staleA, calmA, runsA, faultsA>>
sideB == <<tpcB, waitedB, enteredB, outcomeB, failedB, cpcB, idxB, attachedB,
           probesB, ageB, staleB, calmB, runsB, faultsB>>
vars == <<file, sideA, sideB>>

(* What a demo with this command leaves in the file for the other side.     *)
Leaves(demo) == {demo.command, Zero, Empty, Torn, Absent}

A == INSTANCE PollInjector WITH
  Command <- DemoA.command, N <- Len(ScriptA.probes), Hooks <- ScriptA.hooks,
  ReturnHooks <- ScriptA.returns, SkipsFailed <- ScriptA.skips,
  OverridesReturn <- ScriptA.overrides, CleanupRaises <- ScriptA.raises,
  ClearsOnError <- DemoA.clears, Others <- Leaves(DemoB),
  Window <- Second * DemoA.sleeps, Period <- Second,
  tpc <- tpcA, waited <- waitedA, entered <- enteredA, outcome <- outcomeA,
  failed <- failedA, cpc <- cpcA, idx <- idxA, attached <- attachedA,
  probes <- probesA, age <- ageA, stale <- staleA, calm <- calmA,
  runs <- runsA, faults <- faultsA

B == INSTANCE PollInjector WITH
  Command <- DemoB.command, N <- Len(ScriptB.probes), Hooks <- ScriptB.hooks,
  ReturnHooks <- ScriptB.returns, SkipsFailed <- ScriptB.skips,
  OverridesReturn <- ScriptB.overrides, CleanupRaises <- ScriptB.raises,
  ClearsOnError <- DemoB.clears, Others <- Leaves(DemoA),
  Window <- Second * DemoB.sleeps, Period <- Second,
  tpc <- tpcB, waited <- waitedB, entered <- enteredB, outcome <- outcomeB,
  failed <- failedB, cpc <- cpcB, idx <- idxB, attached <- attachedB,
  probes <- probesB, age <- ageB, stale <- staleB, calm <- calmB,
  runs <- runsB, faults <- faultsB

(* Each side is given what PollInjector asks for, and the commands differ.  *)
(* Both sides have the same Total, so that the sleep of a demo outlasts the *)
(* detaching of the other script too.                                       *)
ASSUME SideAAssumption ==
  /\ A!CommandAssumption /\ A!ProbeAssumption /\ A!FlagAssumption
  /\ A!TimeAssumption /\ A!BoundAssumption /\ A!WindowAssumption
ASSUME SideBAssumption ==
  /\ B!CommandAssumption /\ B!ProbeAssumption /\ B!FlagAssumption
  /\ B!TimeAssumption /\ B!BoundAssumption /\ B!WindowAssumption

Init == A!Init /\ B!Init

DemoASteps == B!AtRest /\ A!Target /\ UNCHANGED sideB
DemoBSteps == A!AtRest /\ B!Target /\ UNCHANGED sideA
ControllerASteps == A!Controller /\ UNCHANGED sideB
ControllerBSteps == B!Controller /\ UNCHANGED sideA
TimePasses == A!Tick /\ B!Tick

Next ==
  \/ DemoASteps \/ DemoBSteps \/ ControllerASteps \/ ControllerBSteps
  \/ TimePasses

Spec == Init /\ [][Next]_vars
-----------------------------------------------------------------------------
(* What must hold.                                                          *)

(* Each side is the single injector it was specified and proved as: the     *)
(* other demo, the failures of its writes and the restarts of the other     *)
(* controller are no more than the writes of others that PollInjector       *)
(* allows, so every result about it holds with the other side running.      *)
EachIsAnInjector == A!Spec /\ B!Spec

(* A demo whose command stands in the file when its sleep is over makes its *)
(* call with no probe of the other script left in the kernel, unless that   *)
(* script is just being interrupted: the sleep that arms one side disarms   *)
(* the other.                                                               *)
Alone ==
  /\ tpcA = "call" /\ file = DemoA.command => probesB = {} \/ cpcB = "cleanup"
  /\ tpcB = "call" /\ file = DemoB.command => probesA = {} \/ cpcA = "cleanup"
=============================================================================
