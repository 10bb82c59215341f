------------------------- MODULE TwoInjectorsProofs -------------------------
(* Proof that each side of TwoInjectors is the injector of PollInjector,    *)
(* for any two scripts and any timing.                                      *)
EXTENDS TwoInjectors, TLAPS

(* What a step of one side does to the file the other side sees.            *)
LEMMA DemoAWrites ==
  ASSUME A!Target
  PROVE  file' = file \/ file' \in Leaves(DemoA)
BY DEF A!Target, A!ResizeForCommand, A!CommandWriteFails, A!CopyCommand,
       A!EnterCall, A!ReturnCall, A!ExitOnError, A!ResizeForZero,
       A!ZeroWriteFails, A!CopyZero, A!CopyFaults, A!Rerun, A!Resized,
       A!AfterFailedMap, A!Zero, A!Torn, A!Absent, Leaves, Zero, Torn, Absent

LEMMA ControllerAWrites ==
  ASSUME A!Controller
  PROVE  file' = file \/ file' = Empty
BY DEF A!Controller, A!PollCommand, A!PollOther, A!PollMissing, A!AttachNext,
       A!AttachRaises, A!DetachNext, A!Wake, A!Interrupt, A!CleanupNext,
       A!Restart, A!CreateFile, A!Empty, Empty

LEMMA DemoBWrites ==
  ASSUME B!Target
  PROVE  file' = file \/ file' \in Leaves(DemoB)
BY DEF B!Target, B!ResizeForCommand, B!CommandWriteFails, B!CopyCommand,
       B!EnterCall, B!ReturnCall, B!ExitOnError, B!ResizeForZero,
       B!ZeroWriteFails, B!CopyZero, B!CopyFaults, B!Rerun, B!Resized,
       B!AfterFailedMap, B!Zero, B!Torn, B!Absent, Leaves, Zero, Torn, Absent

LEMMA ControllerBWrites ==
  ASSUME B!Controller
  PROVE  file' = file \/ file' = Empty
BY DEF B!Controller, B!PollCommand, B!PollOther, B!PollMissing, B!AttachNext,
       B!AttachRaises, B!DetachNext, B!Wake, B!Interrupt, B!CleanupNext,
       B!Restart, B!CreateFile, B!Empty, Empty

LEMMA StepOfA == [Next]_vars => [A!Next]_(A!vars)
<1> SUFFICES ASSUME [Next]_vars PROVE A!Next \/ UNCHANGED A!vars
  OBVIOUS
<1> USE DEF A!vars, A!target, A!controller
<1>1. CASE UNCHANGED vars BY <1>1 DEF vars, sideA
<1>2. CASE DemoASteps BY <1>2 DEF DemoASteps, A!Next
<1>3. CASE ControllerASteps BY <1>3 DEF ControllerASteps, A!Next
<1>4. CASE TimePasses BY <1>4 DEF TimePasses, A!Next
<1>5. CASE DemoBSteps
  <2>1. file' = file \/ file' \in Leaves(DemoB)
    BY <1>5, DemoBWrites DEF DemoBSteps
  <2>2. QED BY <1>5, <2>1 DEF DemoBSteps, sideA, A!Next, A!OtherWrites
<1>6. CASE ControllerBSteps
  <2>1. file' = file \/ file' = Empty
    BY <1>6, ControllerBWrites DEF ControllerBSteps
  <2>2. QED
    BY <1>6, <2>1
    DEF ControllerBSteps, sideA, A!Next, A!OtherWrites, A!Empty, Empty
<1>7. QED BY <1>1, <1>2, <1>3, <1>4, <1>5, <1>6 DEF Next

LEMMA StepOfB == [Next]_vars => [B!Next]_(B!vars)
<1> SUFFICES ASSUME [Next]_vars PROVE B!Next \/ UNCHANGED B!vars
  OBVIOUS
<1> USE DEF B!vars, B!target, B!controller
<1>1. CASE UNCHANGED vars BY <1>1 DEF vars, sideB
<1>2. CASE DemoBSteps BY <1>2 DEF DemoBSteps, B!Next
<1>3. CASE ControllerBSteps BY <1>3 DEF ControllerBSteps, B!Next
<1>4. CASE TimePasses BY <1>4 DEF TimePasses, B!Next
<1>5. CASE DemoASteps
  <2>1. file' = file \/ file' \in Leaves(DemoA)
    BY <1>5, DemoAWrites DEF DemoASteps
  <2>2. QED BY <1>5, <2>1 DEF DemoASteps, sideB, B!Next, B!OtherWrites
<1>6. CASE ControllerASteps
  <2>1. file' = file \/ file' = Empty
    BY <1>6, ControllerAWrites DEF ControllerASteps
  <2>2. QED
    BY <1>6, <2>1
    DEF ControllerASteps, sideB, B!Next, B!OtherWrites, B!Empty, Empty
<1>7. QED BY <1>1, <1>2, <1>3, <1>4, <1>5, <1>6 DEF Next

(* Two scripts that share the coordination file, with demos run in turn,    *)
(* are each the injector that PollInjectorProofs is about.                  *)
THEOREM Composition == Spec => EachIsAnInjector
<1>1. Init => A!Init /\ B!Init BY DEF Init
<1>2. QED
  BY <1>1, StepOfA, StepOfB, PTL DEF Spec, EachIsAnInjector, A!Spec, B!Spec
-----------------------------------------------------------------------------
(* The theorems of PollInjectorProofs, for each side.                       *)

PA == INSTANCE PollInjectorProofs WITH
  Command <- DemoA.command, N <- Len(ScriptA.probes),
  Hooks <- ScriptA.hooks, ReturnHooks <- ScriptA.returns,
  SkipsFailed <- ScriptA.skips, OverridesReturn <- ScriptA.overrides,
  CleanupRaises <- ScriptA.raises, ClearsOnError <- DemoA.clears,
  Others <- Leaves(DemoB), Window <- Second * DemoA.sleeps,
  Period <- Second, tpc <- tpcA, waited <- waitedA, entered <- enteredA,
  outcome <- outcomeA, failed <- failedA, cpc <- cpcA, idx <- idxA,
  attached <- attachedA, probes <- probesA, age <- ageA,
  stale <- staleA, calm <- calmA, runs <- runsA, faults <- faultsA

PB == INSTANCE PollInjectorProofs WITH
  Command <- DemoB.command, N <- Len(ScriptB.probes),
  Hooks <- ScriptB.hooks, ReturnHooks <- ScriptB.returns,
  SkipsFailed <- ScriptB.skips, OverridesReturn <- ScriptB.overrides,
  CleanupRaises <- ScriptB.raises, ClearsOnError <- DemoB.clears,
  Others <- Leaves(DemoA), Window <- Second * DemoB.sleeps,
  Period <- Second, tpc <- tpcB, waited <- waitedB, entered <- enteredB,
  outcome <- outcomeB, failed <- failedB, cpc <- cpcB, idx <- idxB,
  attached <- attachedB, probes <- probesB, age <- ageB,
  stale <- staleB, calm <- calmB, runs <- runsB, faults <- faultsB

LEMMA SpecOfA == A!Spec => PA!Spec
<1>1. A!Init => PA!Init
  BY DEF A!Init, PA!Init, A!Zero, A!Empty, A!Absent, PA!Zero, PA!Empty,
         PA!Absent
<1>2. A!Next => PA!Next
  BY DEF
      A!Next, A!Target, A!ResizeForCommand, A!CommandWriteFails,
      A!CopyCommand, A!EnterCall, A!ReturnCall, A!ExitOnError,
      A!ResizeForZero, A!ZeroWriteFails, A!CopyZero, A!CopyFaults,
      A!Rerun, A!Controller, A!PollCommand, A!PollOther,
      A!PollMissing, A!AttachNext, A!AttachRaises, A!DetachNext,
      A!Wake, A!Interrupt, A!CleanupNext, A!Restart, A!CreateFile,
      A!OtherWrites, A!AtRest, A!Tick, A!PhaseMax, A!Fault,
      A!StartSleep, A!Up, A!Perturbs, A!SeesError, A!Phase, A!Remove,
      A!Exit, A!Probes, A!Total, A!target, A!controller, A!Resized,
      A!AfterFailedMap, A!BeginsWith, A!Zero, A!Empty, A!Torn,
      A!Absent, PA!Next, PA!Target, PA!ResizeForCommand,
      PA!CommandWriteFails, PA!CopyCommand, PA!EnterCall,
      PA!ReturnCall, PA!ExitOnError, PA!ResizeForZero,
      PA!ZeroWriteFails, PA!CopyZero, PA!CopyFaults, PA!Rerun,
      PA!Controller, PA!PollCommand, PA!PollOther, PA!PollMissing,
      PA!AttachNext, PA!AttachRaises, PA!DetachNext, PA!Wake,
      PA!Interrupt, PA!CleanupNext, PA!Restart, PA!CreateFile,
      PA!OtherWrites, PA!AtRest, PA!Tick, PA!PhaseMax, PA!Fault,
      PA!StartSleep, PA!Up, PA!Perturbs, PA!SeesError, PA!Phase,
      PA!Remove, PA!Exit, PA!Probes, PA!Total, PA!target,
      PA!controller, PA!Resized, PA!AfterFailedMap, PA!BeginsWith,
      PA!Zero, PA!Empty, PA!Torn, PA!Absent
<1>3. UNCHANGED A!vars => UNCHANGED PA!vars
  BY DEF A!vars, PA!vars, A!target, PA!target, A!controller, PA!controller
<1> QED BY <1>1, <1>2, <1>3, PTL DEF A!Spec, PA!Spec

LEMMA SpecOfB == B!Spec => PB!Spec
<1>1. B!Init => PB!Init
  BY DEF B!Init, PB!Init, B!Zero, B!Empty, B!Absent, PB!Zero, PB!Empty,
         PB!Absent
<1>2. B!Next => PB!Next
  BY DEF
      B!Next, B!Target, B!ResizeForCommand, B!CommandWriteFails,
      B!CopyCommand, B!EnterCall, B!ReturnCall, B!ExitOnError,
      B!ResizeForZero, B!ZeroWriteFails, B!CopyZero, B!CopyFaults,
      B!Rerun, B!Controller, B!PollCommand, B!PollOther,
      B!PollMissing, B!AttachNext, B!AttachRaises, B!DetachNext,
      B!Wake, B!Interrupt, B!CleanupNext, B!Restart, B!CreateFile,
      B!OtherWrites, B!AtRest, B!Tick, B!PhaseMax, B!Fault,
      B!StartSleep, B!Up, B!Perturbs, B!SeesError, B!Phase, B!Remove,
      B!Exit, B!Probes, B!Total, B!target, B!controller, B!Resized,
      B!AfterFailedMap, B!BeginsWith, B!Zero, B!Empty, B!Torn,
      B!Absent, PB!Next, PB!Target, PB!ResizeForCommand,
      PB!CommandWriteFails, PB!CopyCommand, PB!EnterCall,
      PB!ReturnCall, PB!ExitOnError, PB!ResizeForZero,
      PB!ZeroWriteFails, PB!CopyZero, PB!CopyFaults, PB!Rerun,
      PB!Controller, PB!PollCommand, PB!PollOther, PB!PollMissing,
      PB!AttachNext, PB!AttachRaises, PB!DetachNext, PB!Wake,
      PB!Interrupt, PB!CleanupNext, PB!Restart, PB!CreateFile,
      PB!OtherWrites, PB!AtRest, PB!Tick, PB!PhaseMax, PB!Fault,
      PB!StartSleep, PB!Up, PB!Perturbs, PB!SeesError, PB!Phase,
      PB!Remove, PB!Exit, PB!Probes, PB!Total, PB!target,
      PB!controller, PB!Resized, PB!AfterFailedMap, PB!BeginsWith,
      PB!Zero, PB!Empty, PB!Torn, PB!Absent
<1>3. UNCHANGED B!vars => UNCHANGED PB!vars
  BY DEF B!vars, PB!vars, B!target, PB!target, B!controller, PB!controller
<1> QED BY <1>1, <1>2, <1>3, PTL DEF B!Spec, PB!Spec

(* The assumptions of PollInjector, as the instances name them.             *)
LEMMA GivenA ==
  /\ PA!CommandAssumption /\ PA!ProbeAssumption /\ PA!FlagAssumption
  /\ PA!TimeAssumption /\ PA!BoundAssumption /\ PA!WindowAssumption
BY SideAAssumption
DEF SideAAssumption, A!CommandAssumption, A!ProbeAssumption,
    A!FlagAssumption, A!TimeAssumption, A!BoundAssumption,
    A!WindowAssumption, PA!CommandAssumption, PA!ProbeAssumption,
    PA!FlagAssumption, PA!TimeAssumption, PA!BoundAssumption,
    PA!WindowAssumption, A!Probes, PA!Probes, A!Total, PA!Total,
    A!Zero, PA!Zero, A!Empty, PA!Empty, A!Torn, PA!Torn, A!Absent,
    PA!Absent

LEMMA InheritedA ==
  A!Spec => [](A!TypeOK /\ A!FlagMatchesProbes /\ A!CalmCallIsHit
                /\ A!DisarmLag)
<1>1. PA!Spec => []PA!TypeOK BY PA!TypeCorrect, GivenA
<1>2. PA!Spec => []PA!FlagMatchesProbes BY PA!FlagIsExact, GivenA
<1>3. PA!Spec => []PA!CalmCallIsHit BY PA!WindowSuffices, GivenA
<1>4. PA!Spec => []PA!DisarmLag BY PA!DisarmIsTimely, GivenA
<1>5. PA!TypeOK => A!TypeOK
  BY DEF A!TypeOK, A!TargetTypes, A!ControllerTypes, A!SharedTypes,
         A!FlagTypes, A!TargetPC, A!CtlPC, A!Probes, A!Total, A!Zero,
         A!Empty, A!Torn, A!Absent,
         PA!TypeOK, PA!TargetTypes, PA!ControllerTypes, PA!SharedTypes,
         PA!FlagTypes, PA!TargetPC, PA!CtlPC, PA!Probes, PA!Total,
         PA!Zero, PA!Empty, PA!Torn, PA!Absent
<1>6. PA!FlagMatchesProbes => A!FlagMatchesProbes
  BY DEF PA!FlagMatchesProbes, A!FlagMatchesProbes, PA!Probes, A!Probes
<1>7. PA!CalmCallIsHit => A!CalmCallIsHit
  BY DEF PA!CalmCallIsHit, A!CalmCallIsHit
<1>8. PA!DisarmLag => A!DisarmLag
  BY DEF PA!DisarmLag, A!DisarmLag, PA!Total, A!Total
<1> QED
  BY <1>1, <1>2, <1>3, <1>4, <1>5, <1>6, <1>7, <1>8, SpecOfA, PTL

LEMMA GivenB ==
  /\ PB!CommandAssumption /\ PB!ProbeAssumption /\ PB!FlagAssumption
  /\ PB!TimeAssumption /\ PB!BoundAssumption /\ PB!WindowAssumption
BY SideBAssumption
DEF SideBAssumption, B!CommandAssumption, B!ProbeAssumption,
    B!FlagAssumption, B!TimeAssumption, B!BoundAssumption,
    B!WindowAssumption, PB!CommandAssumption, PB!ProbeAssumption,
    PB!FlagAssumption, PB!TimeAssumption, PB!BoundAssumption,
    PB!WindowAssumption, B!Probes, PB!Probes, B!Total, PB!Total,
    B!Zero, PB!Zero, B!Empty, PB!Empty, B!Torn, PB!Torn, B!Absent,
    PB!Absent

LEMMA InheritedB ==
  B!Spec => [](B!TypeOK /\ B!FlagMatchesProbes /\ B!CalmCallIsHit
                /\ B!DisarmLag)
<1>1. PB!Spec => []PB!TypeOK BY PB!TypeCorrect, GivenB
<1>2. PB!Spec => []PB!FlagMatchesProbes BY PB!FlagIsExact, GivenB
<1>3. PB!Spec => []PB!CalmCallIsHit BY PB!WindowSuffices, GivenB
<1>4. PB!Spec => []PB!DisarmLag BY PB!DisarmIsTimely, GivenB
<1>5. PB!TypeOK => B!TypeOK
  BY DEF B!TypeOK, B!TargetTypes, B!ControllerTypes, B!SharedTypes,
         B!FlagTypes, B!TargetPC, B!CtlPC, B!Probes, B!Total, B!Zero,
         B!Empty, B!Torn, B!Absent,
         PB!TypeOK, PB!TargetTypes, PB!ControllerTypes, PB!SharedTypes,
         PB!FlagTypes, PB!TargetPC, PB!CtlPC, PB!Probes, PB!Total,
         PB!Zero, PB!Empty, PB!Torn, PB!Absent
<1>6. PB!FlagMatchesProbes => B!FlagMatchesProbes
  BY DEF PB!FlagMatchesProbes, B!FlagMatchesProbes, PB!Probes, B!Probes
<1>7. PB!CalmCallIsHit => B!CalmCallIsHit
  BY DEF PB!CalmCallIsHit, B!CalmCallIsHit
<1>8. PB!DisarmLag => B!DisarmLag
  BY DEF PB!DisarmLag, B!DisarmLag, PB!Total, B!Total
<1> QED
  BY <1>1, <1>2, <1>3, <1>4, <1>5, <1>6, <1>7, <1>8, SpecOfB, PTL
LEMMA InheritedSwitchA == A!Spec => A!ImplementsSwitch
<1>1. PA!Spec => PA!ImplementsSwitch BY PA!Implementation, GivenA
<1> USE DEF A!SwitchPhase, PA!SwitchPhase
<1>2. PA!Switch!SwitchInit => A!Switch!SwitchInit
  BY DEF PA!Switch!SwitchInit, A!Switch!SwitchInit
<1>3. PA!Switch!Step => A!Switch!Step
  BY DEF A!Switch!Step, A!Switch!StartAttach, A!Switch!StartDetach,
         A!Switch!ProcessEnds, A!Switch!AttachProbe, A!Switch!DetachProbe,
         PA!Switch!Step, PA!Switch!StartAttach, PA!Switch!StartDetach,
         PA!Switch!ProcessEnds, PA!Switch!AttachProbe,
         PA!Switch!DetachProbe
<1>4. UNCHANGED PA!Switch!switch => UNCHANGED A!Switch!switch
  BY DEF PA!Switch!switch, A!Switch!switch
<1> QED
  BY <1>1, <1>2, <1>3, <1>4, SpecOfA, PTL
  DEF A!ImplementsSwitch, A!Switch!SwitchSpec,
      PA!ImplementsSwitch, PA!Switch!SwitchSpec

LEMMA InheritedSwitchB == B!Spec => B!ImplementsSwitch
<1>1. PB!Spec => PB!ImplementsSwitch BY PB!Implementation, GivenB
<1> USE DEF B!SwitchPhase, PB!SwitchPhase
<1>2. PB!Switch!SwitchInit => B!Switch!SwitchInit
  BY DEF PB!Switch!SwitchInit, B!Switch!SwitchInit
<1>3. PB!Switch!Step => B!Switch!Step
  BY DEF B!Switch!Step, B!Switch!StartAttach, B!Switch!StartDetach,
         B!Switch!ProcessEnds, B!Switch!AttachProbe, B!Switch!DetachProbe,
         PB!Switch!Step, PB!Switch!StartAttach, PB!Switch!StartDetach,
         PB!Switch!ProcessEnds, PB!Switch!AttachProbe,
         PB!Switch!DetachProbe
<1>4. UNCHANGED PB!Switch!switch => UNCHANGED B!Switch!switch
  BY DEF PB!Switch!switch, B!Switch!switch
<1> QED
  BY <1>1, <1>2, <1>3, <1>4, SpecOfB, PTL
  DEF B!ImplementsSwitch, B!Switch!SwitchSpec,
      PB!ImplementsSwitch, PB!Switch!SwitchSpec

-----------------------------------------------------------------------------
(* While a demo sleeps on its intact command the other controller sees a    *)
(* text that is not its own, so its clock of stale commands runs along with *)
(* the sleep, up to its cap.                                                *)
LockstepA ==
  tpcA \in {"sleep", "call"} /\ file = DemoA.command =>
    waitedA <= staleB \/ B!Total < staleB
LockstepB ==
  tpcB \in {"sleep", "call"} /\ file = DemoB.command =>
    waitedB <= staleA \/ A!Total < staleA

(* A demo that makes its call has slept.                                    *)
SleptA == tpcA = "call" => Second * DemoA.sleeps <= waitedA
SleptB == tpcB = "call" => Second * DemoB.sleeps <= waitedB

ClockTypes ==
  /\ waitedA \in Nat /\ staleA \in Nat
  /\ waitedB \in Nat /\ staleB \in Nat

LEMMA CommandsA ==
  /\ DemoA.command # Empty
  /\ DemoA.command # DemoB.command
  /\ B!Total \in Nat /\ A!Total = B!Total
  /\ A!Total < Second * DemoA.sleeps
  /\ Second * DemoA.sleeps \in Nat
<1>1. DemoA.command # Empty /\ DemoA.command # DemoB.command
  BY SideAAssumption
  DEF SideAAssumption, A!CommandAssumption, A!Empty, Empty, Leaves
<1>2. {Second * DemoA.sleeps, PollMax, AttachMax, DetachMax} \subseteq Nat
  BY SideAAssumption DEF SideAAssumption, A!TimeAssumption
<1>3. A!Total < Second * DemoA.sleeps
  BY SideAAssumption DEF SideAAssumption, A!WindowAssumption
<1>4. B!Total \in Nat /\ A!Total = B!Total
  BY <1>2 DEF A!Total, B!Total
<1> QED BY <1>1, <1>2, <1>3, <1>4

LEMMA CommandsB ==
  /\ DemoB.command # Empty
  /\ DemoB.command # DemoA.command
  /\ A!Total \in Nat /\ B!Total = A!Total
  /\ B!Total < Second * DemoB.sleeps
  /\ Second * DemoB.sleeps \in Nat
<1>1. DemoB.command # Empty /\ DemoB.command # DemoA.command
  BY SideBAssumption
  DEF SideBAssumption, B!CommandAssumption, B!Empty, Empty, Leaves
<1>2. {Second * DemoB.sleeps, PollMax, AttachMax, DetachMax} \subseteq Nat
  BY SideBAssumption DEF SideBAssumption, B!TimeAssumption
<1>3. B!Total < Second * DemoB.sleeps
  BY SideBAssumption DEF SideBAssumption, B!WindowAssumption
<1>4. A!Total \in Nat /\ B!Total = A!Total
  BY <1>2 DEF B!Total, A!Total
<1> QED BY <1>1, <1>2, <1>3, <1>4

(* The demo of A starts its sleep with waitedA at zero and only wakes from it. *)
LEMMA DemoAClock ==
  A!Target =>
    \/ tpcA' = "sleep" /\ waitedA' = 0
    \/ /\ tpcA = "sleep" /\ tpcA' = "call" /\ UNCHANGED <<waitedA, file>>
       /\ Second * DemoA.sleeps <= waitedA
    \/ tpcA' \notin {"sleep", "call"} /\ UNCHANGED waitedA
BY CommandsA
DEF A!Target, A!ResizeForCommand, A!CommandWriteFails, A!CopyCommand,
    A!EnterCall, A!ReturnCall, A!ExitOnError, A!ResizeForZero,
    A!ZeroWriteFails, A!CopyZero, A!CopyFaults, A!Rerun, A!StartSleep

LEMMA ControllerAClock ==
  A!Controller => UNCHANGED <<tpcA, waitedA, staleA>>
BY DEF A!Controller, A!PollCommand, A!PollOther, A!PollMissing,
       A!AttachNext, A!AttachRaises, A!DetachNext, A!Wake, A!Interrupt,
       A!CleanupNext, A!Restart, A!CreateFile, A!target

(* The demo of B starts its sleep with waitedB at zero and only wakes from it. *)
LEMMA DemoBClock ==
  B!Target =>
    \/ tpcB' = "sleep" /\ waitedB' = 0
    \/ /\ tpcB = "sleep" /\ tpcB' = "call" /\ UNCHANGED <<waitedB, file>>
       /\ Second * DemoB.sleeps <= waitedB
    \/ tpcB' \notin {"sleep", "call"} /\ UNCHANGED waitedB
BY CommandsB
DEF B!Target, B!ResizeForCommand, B!CommandWriteFails, B!CopyCommand,
    B!EnterCall, B!ReturnCall, B!ExitOnError, B!ResizeForZero,
    B!ZeroWriteFails, B!CopyZero, B!CopyFaults, B!Rerun, B!StartSleep

LEMMA ControllerBClock ==
  B!Controller => UNCHANGED <<tpcB, waitedB, staleB>>
BY DEF B!Controller, B!PollCommand, B!PollOther, B!PollMissing,
       B!AttachNext, B!AttachRaises, B!DetachNext, B!Wake, B!Interrupt,
       B!CleanupNext, B!Restart, B!CreateFile, B!target

LEMMA LockstepAStep ==
  ClockTypes /\ LockstepA /\ SleptA /\ [Next]_vars => (LockstepA /\ SleptA)'
<1> SUFFICES ASSUME ClockTypes, LockstepA, SleptA, [Next]_vars
             PROVE  (LockstepA /\ SleptA)'
  OBVIOUS
<1> USE CommandsA DEF ClockTypes, LockstepA, SleptA
<1>1. CASE UNCHANGED vars BY <1>1 DEF vars, sideA, sideB, A!Total, B!Total
<1>2. CASE DemoASteps
  <2>1. UNCHANGED staleB BY <1>2 DEF DemoASteps, sideB
  <2> QED BY <1>2, <2>1, DemoAClock DEF DemoASteps, A!Total, B!Total
<1>3. CASE DemoBSteps
  BY <1>3 DEF DemoBSteps, A!AtRest, sideA
<1>4. CASE ControllerASteps
  <2>1. UNCHANGED <<tpcA, waitedA, staleB>>
    BY <1>4, ControllerAClock DEF ControllerASteps, sideB
  <2> QED BY <1>4, <2>1, ControllerAWrites DEF ControllerASteps
<1>5. CASE ControllerBSteps
  <2>1. UNCHANGED <<tpcA, waitedA, staleB>>
    BY <1>5, ControllerBClock DEF ControllerBSteps, sideA
  <2> QED BY <1>5, <2>1, ControllerBWrites DEF ControllerBSteps
<1>6. CASE TimePasses BY <1>6 DEF TimePasses, A!Tick, B!Tick
<1> QED BY <1>1, <1>2, <1>3, <1>4, <1>5, <1>6 DEF Next

LEMMA LockstepBStep ==
  ClockTypes /\ LockstepB /\ SleptB /\ [Next]_vars => (LockstepB /\ SleptB)'
<1> SUFFICES ASSUME ClockTypes, LockstepB, SleptB, [Next]_vars
             PROVE  (LockstepB /\ SleptB)'
  OBVIOUS
<1> USE CommandsB DEF ClockTypes, LockstepB, SleptB
<1>1. CASE UNCHANGED vars BY <1>1 DEF vars, sideB, sideA, B!Total, A!Total
<1>2. CASE DemoBSteps
  <2>1. UNCHANGED staleA BY <1>2 DEF DemoBSteps, sideA
  <2> QED BY <1>2, <2>1, DemoBClock DEF DemoBSteps, B!Total, A!Total
<1>3. CASE DemoASteps
  BY <1>3 DEF DemoASteps, B!AtRest, sideB
<1>4. CASE ControllerBSteps
  <2>1. UNCHANGED <<tpcB, waitedB, staleA>>
    BY <1>4, ControllerBClock DEF ControllerBSteps, sideA
  <2> QED BY <1>4, <2>1, ControllerBWrites DEF ControllerBSteps
<1>5. CASE ControllerASteps
  <2>1. UNCHANGED <<tpcB, waitedB, staleA>>
    BY <1>5, ControllerAClock DEF ControllerASteps, sideB
  <2> QED BY <1>5, <2>1, ControllerAWrites DEF ControllerASteps
<1>6. CASE TimePasses BY <1>6 DEF TimePasses, B!Tick, A!Tick
<1> QED BY <1>1, <1>2, <1>3, <1>4, <1>5, <1>6 DEF Next

(* Everything that is proved of one injector holds of each of the two: its  *)
(* flag is exact, its undisturbed calls are hit and its probes go in time.  *)
THEOREM SidesAreSound ==
  Spec => /\ [](A!TypeOK /\ A!FlagMatchesProbes /\ A!CalmCallIsHit /\ A!DisarmLag)
          /\ [](B!TypeOK /\ B!FlagMatchesProbes /\ B!CalmCallIsHit /\ B!DisarmLag)
BY Composition, InheritedA, InheritedB, PTL DEF EachIsAnInjector

(* Each of the two controllers is the switch of its own probes that         *)
(* ProbeSwitch describes: the other side's writes never mix two phases.     *)
THEOREM SidesAreSwitches == Spec => A!ImplementsSwitch /\ B!ImplementsSwitch
BY Composition, InheritedSwitchA, InheritedSwitchB, PTL DEF EachIsAnInjector

(* A demo whose command stands when its sleep is over makes its call with   *)
(* no probe of the other script in the kernel, unless that script is being  *)
(* interrupted: for any two scripts and any timing in which each demo       *)
(* sleeps longer than a detach, a poll and an attach.                       *)
THEOREM DemosAreAlone == Spec => []Alone
<1>1. A!TypeOK /\ B!TypeOK => ClockTypes
  BY CommandsA, CommandsB
  DEF A!TypeOK, A!TargetTypes, A!SharedTypes, B!TypeOK, B!TargetTypes,
      B!SharedTypes, ClockTypes
<1>2. Init => LockstepA /\ SleptA /\ LockstepB /\ SleptB
  BY DEF Init, A!Init, B!Init, LockstepA, SleptA, LockstepB, SleptB
<1>3. /\ ClockTypes /\ LockstepA /\ SleptA /\ LockstepB /\ SleptB
      /\ A!DisarmLag /\ B!DisarmLag
      => Alone
  BY CommandsA, CommandsB
  DEF ClockTypes, LockstepA, SleptA, LockstepB, SleptB, A!DisarmLag,
      B!DisarmLag, Alone
<1> QED
  BY <1>1, <1>2, <1>3, LockstepAStep, LockstepBStep, SidesAreSound, PTL DEF Spec
=============================================================================
