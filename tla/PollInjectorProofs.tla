------------------------- MODULE PollInjectorProofs -------------------------
(***************************************************************************)
(* Proofs about PollInjector, for any script, any number of probes and any *)
(* timing that satisfies WindowAssumption.                                 *)
(***************************************************************************)
EXTENDS PollInjector, TLAPS

(* What each phase of the controller knows of the kernel and of its clock.  *)
PhaseInv ==
  /\ cpc = "attach" => ~attached /\ probes = 1 .. (idx - 1) /\ age <= AttachMax
  /\ cpc = "detach" => attached /\ probes = idx .. N /\ age <= DetachMax
  /\ FlagMatchesProbes
  /\ cpc = "sleep" => age <= PollMax
  /\ cpc \in {"down", "create"} => probes = {} /\ ~attached
  /\ cpc \in {"cleanup", "down", "create"} => ~calm
  /\ cpc = "cleanup" /\ idx \in probes => probes = idx .. N

(* How old the last command can be while a probe is, or is being, attached. *)
LagInv ==
  /\ file = Command => stale = 0
  /\ cpc = "attach" => stale <= age
  /\ cpc = "sleep" /\ attached => stale <= AttachMax + age
  /\ cpc = "poll" /\ attached => stale <= AttachMax + PollMax
  /\ cpc = "detach" => stale <= AttachMax + PollMax + age

Armed == attached /\ cpc \in {"poll", "sleep"}

(* While the demo sleeps on an intact command, an undisturbed controller is *)
(* armed or has used no more time than a detach, a poll and an attach.      *)
CalmInv ==
  calm /\ file = Command =>
    /\ tpc = "sleep" =>
         /\ cpc = "detach" => waited <= age
         /\ cpc = "sleep" /\ ~attached => waited <= DetachMax + age
         /\ cpc = "poll" /\ ~attached => waited <= DetachMax + PollMax
         /\ cpc = "attach" => waited <= DetachMax + PollMax + age
    /\ tpc = "call" => Armed /\ entered = Probes

IInv == TypeOK /\ PhaseInv /\ LagInv /\ CalmInv /\ CalmCallIsHit
-----------------------------------------------------------------------------
USE DEF target, controller, Resized, AfterFailedMap, TargetPC, CtlPC

LEMMA Constants ==
  /\ N \in Nat \ {0}
  /\ Total \in Nat
  /\ Window \in Nat /\ Period \in Nat /\ Period <= PollMax
  /\ PollMax \in Nat /\ AttachMax \in Nat /\ DetachMax \in Nat
  /\ MaxRuns \in Nat /\ MaxFaults \in Nat
  BY ProbeAssumption, TimeAssumption, BoundAssumption DEF Total

LEMMA NextProbe ==
  /\ 1 \in Probes
  /\ Probes \subseteq Nat
  /\ \A i \in Probes : i # N => i + 1 \in Probes
  BY ProbeAssumption DEF Probes

(* What a step of one side leaves of the other side.                        *)
LEMMA TargetFrame == Target => UNCHANGED controller
  BY DEF Target, ResizeForCommand, CommandWriteFails, CopyCommand, EnterCall,
     ReturnCall, ExitOnError, ResizeForZero, ZeroWriteFails, CopyZero,
     CopyFaults, Rerun

LEMMA ControllerFrame ==
  Controller => UNCHANGED <<target, stale>> /\ calm' \in {calm, FALSE}
                /\ file' \in {file, Empty}
                /\ entered' \subseteq entered
  BY DEF Controller, Phase, Remove, Exit, PollCommand, PollOther, PollMissing,
     AttachNext, AttachRaises, DetachNext, Wake, Interrupt, CleanupNext,
     Restart, CreateFile

LEMMA OtherFrame ==
  OtherWrites =>
    /\ UNCHANGED <<target, entered, controller, stale, calm, faults>>
    /\ file' = Command => file = Command
    /\ AtRest \/ file' = Empty
  BY CommandAssumption DEF OtherWrites

(* Every variable keeps its type, whichever handler runs.                   *)
LEMMA TypeStep == TypeOK /\ [Next]_vars => TypeOK'
<1> SUFFICES ASSUME TypeOK, [Next]_vars PROVE TypeOK'
  OBVIOUS
<1>0. TargetTypes /\ ControllerTypes /\ SharedTypes /\ FlagTypes
  BY DEF TypeOK
<1> USE <1>0, Constants, NextProbe
<1>1. CASE Target
  <2>1. ControllerTypes' BY <1>1, TargetFrame DEF ControllerTypes
  <2>4. FlagTypes'
    BY <1>1 DEF FlagTypes, Target, ResizeForCommand, CommandWriteFails,
       StartSleep, Up, CopyCommand, EnterCall, ReturnCall, ExitOnError,
       ResizeForZero, ZeroWriteFails, CopyZero, CopyFaults, Rerun
  <2>2. TargetTypes'
    <3> USE DEF TargetTypes, ControllerTypes
    <3>1. CASE ResizeForCommand BY <3>1 DEF ResizeForCommand
    <3>2. CASE CommandWriteFails BY <3>2 DEF CommandWriteFails, StartSleep
    <3>3. CASE CopyCommand BY <3>3 DEF CopyCommand, StartSleep
    <3>4. CASE EnterCall BY <3>4 DEF EnterCall
    <3>5. CASE \E ok \in BOOLEAN : ReturnCall(ok) BY <3>5 DEF ReturnCall
    <3>6. CASE ExitOnError BY <3>6 DEF ExitOnError
    <3>7. CASE ResizeForZero BY <3>7 DEF ResizeForZero
    <3>8. CASE ZeroWriteFails BY <3>8 DEF ZeroWriteFails
    <3>9. CASE CopyZero BY <3>9 DEF CopyZero
    <3>10. CASE Rerun BY <3>10 DEF Rerun
    <3>11. CASE CopyFaults BY <3>11 DEF CopyFaults
    <3> QED
      BY <1>1, <3>1, <3>2, <3>3, <3>4, <3>5, <3>6, <3>7, <3>8, <3>9, <3>10,
         <3>11 DEF Target
  <2>3. SharedTypes'
    <3> USE DEF SharedTypes
    <3>1. CASE ResizeForCommand BY <3>1 DEF ResizeForCommand
    <3>2. CASE CommandWriteFails BY <3>2 DEF CommandWriteFails, StartSleep, Fault, Up
    <3>3. CASE CopyCommand BY <3>3 DEF CopyCommand, StartSleep, Up
    <3>4. CASE EnterCall BY <3>4 DEF EnterCall
    <3>5. CASE \E ok \in BOOLEAN : ReturnCall(ok) BY <3>5 DEF ReturnCall
    <3>6. CASE ExitOnError BY <3>6 DEF ExitOnError
    <3>7. CASE ResizeForZero BY <3>7 DEF ResizeForZero
    <3>8. CASE ZeroWriteFails BY <3>8 DEF ZeroWriteFails, Fault
    <3>9. CASE CopyZero BY <3>9 DEF CopyZero
    <3>10. CASE Rerun BY <3>10 DEF Rerun
    <3>11. CASE CopyFaults BY <3>11 DEF CopyFaults
    <3> QED
      BY <1>1, <3>1, <3>2, <3>3, <3>4, <3>5, <3>6, <3>7, <3>8, <3>9, <3>10,
         <3>11 DEF Target
  <2> QED BY <2>1, <2>2, <2>3, <2>4 DEF TypeOK
<1>2. CASE Controller
  <2>1. TargetTypes' BY <1>2, ControllerFrame DEF TargetTypes
  <2>2. ControllerTypes'
    <3> USE DEF ControllerTypes, Phase, Remove, Exit
    <3>1. CASE PollCommand BY <3>1 DEF PollCommand
    <3>2. CASE PollOther BY <3>2 DEF PollOther
    <3>3. CASE PollMissing BY <3>3 DEF PollMissing
    <3>4. CASE AttachNext BY <3>4 DEF AttachNext
    <3>5. CASE AttachRaises BY <3>5 DEF AttachRaises
    <3>6. CASE DetachNext BY <3>6 DEF DetachNext
    <3>7. CASE Wake BY <3>7 DEF Wake
    <3>8. CASE Interrupt
      <4>1. CASE Exit BY <4>1
      <4>2. CASE Phase("cleanup") /\ UNCHANGED <<attached, probes>> BY <4>2
      <4> HIDE DEF Exit, Phase, Remove
      <4> QED BY <3>8, <4>1, <4>2 DEF Interrupt
    <3>9. CASE CleanupNext
      <4>1. CASE Exit BY <4>1
      <4>2. CASE /\ idx # N
                 /\ idx' = idx + 1
                 /\ Remove({idx})
                 /\ UNCHANGED <<cpc, age, attached>>
        BY <4>2
      <4> HIDE DEF Exit, Remove
      <4> QED BY <3>9, <4>1, <4>2 DEF CleanupNext
    <3>10. CASE Restart BY <3>10 DEF Restart
    <3>11. CASE CreateFile BY <3>11 DEF CreateFile
    <3> QED
      BY <1>2, <3>1, <3>2, <3>3, <3>4, <3>5, <3>6, <3>7, <3>8, <3>9, <3>10,
         <3>11 DEF Controller
  <2>3. faults' \in {faults, faults + 1} /\ (faults' # faults => faults < MaxFaults)
    BY <1>2 DEF Controller, Fault, PollCommand, PollOther, PollMissing,
       AttachNext, AttachRaises, DetachNext, Wake, Interrupt, CleanupNext,
       Restart, CreateFile
  <2>4. SharedTypes' BY <1>2, <2>3, ControllerFrame DEF SharedTypes
  <2>5. FlagTypes'
    BY <1>2 DEF FlagTypes, Controller, Phase, Exit, PollCommand, PollOther,
       PollMissing, AttachNext, AttachRaises, DetachNext, Wake, Interrupt,
       CleanupNext, Restart, CreateFile
  <2> QED BY <2>1, <2>2, <2>4, <2>5 DEF TypeOK
<1>3. CASE Tick
  <2>1. TargetTypes' BY <1>3 DEF Tick, TargetTypes
  <2>2. ControllerTypes' BY <1>3 DEF Tick, ControllerTypes
  <2>3. SharedTypes' BY <1>3 DEF Tick, SharedTypes
  <2>4. FlagTypes' BY <1>3 DEF Tick, FlagTypes
  <2> QED BY <2>1, <2>2, <2>3, <2>4 DEF TypeOK
<1>4. CASE UNCHANGED vars
  <2>1. TargetTypes' BY <1>4 DEF vars, TargetTypes
  <2>2. ControllerTypes' BY <1>4 DEF vars, ControllerTypes
  <2>3. SharedTypes' BY <1>4 DEF vars, SharedTypes
  <2>4. FlagTypes' BY <1>4 DEF vars, FlagTypes
  <2> QED BY <2>1, <2>2, <2>3, <2>4 DEF TypeOK
<1>5. CASE OtherWrites
  <2>1. TargetTypes' BY <1>5, OtherFrame DEF TargetTypes
  <2>2. ControllerTypes' BY <1>5, OtherFrame DEF ControllerTypes
  <2>3. SharedTypes' BY <1>5 DEF OtherWrites, SharedTypes
  <2>4. FlagTypes' BY <1>5, OtherFrame DEF FlagTypes
  <2> QED BY <2>1, <2>2, <2>3, <2>4 DEF TypeOK
<1> QED BY <1>1, <1>2, <1>3, <1>4, <1>5 DEF Next

(* A phase knows which of its calls were made, and the flag is exact in     *)
(* between.                                                                 *)
LEMMA PhaseStep == TypeOK /\ PhaseInv /\ [Next]_vars => PhaseInv'
<1> SUFFICES ASSUME TypeOK, PhaseInv, [Next]_vars PROVE PhaseInv'
  OBVIOUS
<1> USE Constants DEF TypeOK, ControllerTypes, PhaseInv, FlagMatchesProbes
<1>1. CASE Target
  <2>1. calm' => calm \/ Up
    BY <1>1 DEF Target, ResizeForCommand, CommandWriteFails, CopyCommand,
       EnterCall, ReturnCall, ExitOnError, ResizeForZero, ZeroWriteFails,
       CopyZero, CopyFaults, Rerun, StartSleep
  <2> QED BY <1>1, <2>1, TargetFrame DEF Up
<1>2. CASE Controller
  <2> USE DEF Phase, Remove, Exit
  <2>1. CASE PollCommand
    <3>1. 1 .. (1 - 1) = {} OBVIOUS
    <3>2. CASE attached BY <2>1, <3>2 DEF PollCommand
    <3>3. CASE ~attached BY <2>1, <3>1, <3>3 DEF PollCommand
    <3> QED BY <3>2, <3>3
  <2>2. CASE PollOther BY <2>2 DEF PollOther, Probes
  <2>3. CASE PollMissing BY <2>3 DEF PollMissing
  <2>4. CASE AttachNext BY <2>4 DEF AttachNext, Probes
  <2>5. CASE AttachRaises BY <2>5 DEF AttachRaises
  <2>6. CASE DetachNext
    <3>1. idx \in Nat /\ probes' = (idx + 1) .. N
      BY <2>6 DEF DetachNext, Probes
    <3>2. CASE idx = N BY <2>6, <3>1, <3>2 DEF DetachNext
    <3>3. CASE idx # N BY <2>6, <3>1, <3>3 DEF DetachNext
    <3> QED BY <3>2, <3>3
  <2>7. CASE Wake BY <2>7 DEF Wake
  <2>8. CASE Interrupt
    <3>1. CASE Exit BY <3>1
    <3>2. CASE Phase("cleanup") /\ attached /\ cpc \notin {"cleanup", "down"}
               /\ calm' = FALSE /\ UNCHANGED <<attached, probes>>
      <4>1. 1 \in probes => probes = 1 .. N
        <5>1. CASE cpc = "detach"
          <6>1. idx \in 1 .. N /\ probes = idx .. N BY <5>1 DEF Probes
          <6>2. 1 \in probes => idx = 1 BY <6>1
          <6> QED BY <6>1, <6>2
        <5>2. CASE cpc \in {"poll", "sleep"} BY <3>2, <5>2 DEF Probes
        <5>3. cpc # "attach" BY <3>2
        <5> QED BY <3>2, <5>1, <5>2, <5>3
      <4> QED BY <3>2, <4>1
    <3> HIDE DEF Phase, Exit
    <3> QED BY <2>8, <3>1, <3>2 DEF Interrupt
  <2>9. CASE CleanupNext
    <3>1. CASE Exit BY <3>1
    <3>2. CASE /\ cpc = "cleanup"
               /\ idx \in probes
               /\ idx' = idx + 1
               /\ Remove({idx})
               /\ UNCHANGED <<cpc, age, attached, calm>>
      <4>1. probes' = (idx + 1) .. N
        BY <3>2 DEF Probes
      <4> QED BY <3>2, <4>1
    <3> HIDE DEF Phase, Exit
    <3> QED BY <2>9, <3>1, <3>2 DEF CleanupNext
  <2>10. CASE Restart BY <2>10 DEF Restart
  <2>11. CASE CreateFile BY <2>11 DEF CreateFile
  <2> HIDE DEF Phase, Exit, Remove
  <2> QED BY <1>2, <2>1, <2>2, <2>3, <2>4, <2>5, <2>6, <2>7, <2>8, <2>9, <2>10,
             <2>11
          DEF Controller
<1>3. CASE Tick BY <1>3 DEF Tick, PhaseMax
<1>4. CASE UNCHANGED vars BY <1>4 DEF vars
<1>5. CASE OtherWrites BY <1>5, OtherFrame
<1> QED BY <1>1, <1>2, <1>3, <1>4, <1>5 DEF Next

(* An intact command is fresh; since it went, no more time has passed than  *)
(* the phases which may run on it take.                                     *)
LEMMA LagStep ==
  TypeOK /\ PhaseInv /\ LagInv /\ [Next]_vars => LagInv'
<1> SUFFICES ASSUME TypeOK, PhaseInv, LagInv, [Next]_vars PROVE LagInv'
  OBVIOUS
<1>0. ControllerTypes /\ stale \in Nat
  BY Constants DEF TypeOK, SharedTypes
<1> USE <1>0, Constants DEF PhaseInv, LagInv
<1>1. CASE Target
  <2>1. file' = Command => stale' = 0
    BY <1>1, CommandAssumption DEF Target, ResizeForCommand,
       CommandWriteFails, StartSleep, CopyCommand, EnterCall, ReturnCall,
       ExitOnError, ResizeForZero, ZeroWriteFails, CopyZero, CopyFaults, Rerun
  <2>2. stale' \in {stale, 0}
    BY <1>1 DEF Target, ResizeForCommand, CommandWriteFails, CopyCommand,
       EnterCall, ReturnCall, ExitOnError, ResizeForZero, ZeroWriteFails,
       CopyZero, CopyFaults, Rerun
  <2> QED BY <1>1, <2>1, <2>2, TargetFrame DEF ControllerTypes
<1>2. CASE Controller
  <2>1. file' = Command => stale' = 0
    BY <1>2, ControllerFrame, CommandAssumption
  <2>2. stale' = stale
    BY <1>2, ControllerFrame
  <2> USE <2>1, <2>2 DEF Phase, Remove, Exit, ControllerTypes
  <2>3. CASE PollCommand BY <2>3 DEF PollCommand
  <2>4. CASE PollOther BY <2>4 DEF PollOther
  <2>5. CASE PollMissing BY <2>5 DEF PollMissing
  <2>6. CASE AttachNext
    <3>1. CASE idx = N BY <2>6, <3>1 DEF AttachNext
    <3>2. CASE idx # N BY <2>6, <3>2 DEF AttachNext
    <3> QED BY <3>1, <3>2
  <2>7. CASE AttachRaises BY <2>7 DEF AttachRaises
  <2>8. CASE DetachNext
    <3>1. CASE idx = N BY <2>8, <3>1 DEF DetachNext
    <3>2. CASE idx # N BY <2>8, <3>2 DEF DetachNext
    <3> QED BY <3>1, <3>2
  <2>9. CASE Wake BY <2>9 DEF Wake
  <2>10. CASE Interrupt BY <2>10 DEF Interrupt
  <2>11. CASE CleanupNext BY <2>11 DEF CleanupNext
  <2>12. CASE Restart BY <2>12 DEF Restart
  <2>13. CASE CreateFile BY <2>13 DEF CreateFile
  <2> QED BY <1>2, <2>3, <2>4, <2>5, <2>6, <2>7, <2>8, <2>9, <2>10, <2>11,
             <2>12, <2>13 DEF Controller
<1>3. CASE Tick
  <2>1. (file' = Command => stale' = 0) /\ stale' <= stale + 1
    BY <1>3 DEF Tick
  <2> QED BY <1>3, <2>1 DEF Tick, ControllerTypes
<1>4. CASE UNCHANGED vars BY <1>4 DEF vars
<1>5. CASE OtherWrites BY <1>5, OtherFrame
<1> QED BY <1>1, <1>2, <1>3, <1>4, <1>5 DEF Next

(* A sleeping demo whose command is intact meets an armed controller at the *)
(* latest when its sleep is over, and an undisturbed one stays armed.       *)
LEMMA CalmStep ==
  TypeOK /\ PhaseInv /\ CalmInv /\ [Next]_vars => CalmInv'
<1> SUFFICES ASSUME TypeOK, PhaseInv, CalmInv, [Next]_vars, calm', file' = Command
             PROVE  /\ (tpc = "sleep" /\
                         (/\ cpc = "detach" => waited <= age
                          /\ cpc = "sleep" /\ ~attached => waited <= DetachMax + age
                          /\ cpc = "poll" /\ ~attached => waited <= DetachMax + PollMax
                          /\ cpc = "attach" => waited <= DetachMax + PollMax + age))'
                       \/ (tpc = "call" /\ Armed /\ entered = Probes)'
                       \/ (tpc \notin {"sleep", "call"})'
  BY DEF CalmInv
<1>0. ControllerTypes /\ waited \in 0 .. Window
  BY DEF TypeOK, TargetTypes
<1> USE <1>0, Constants
<1>1. CASE Target
  <2>1. CASE CommandWriteFails \/ CopyCommand
    <3>1. tpc' = "sleep" /\ waited' = 0 /\ age' = age /\ cpc' = cpc
      BY <1>1, <2>1, TargetFrame
         DEF CommandWriteFails, CopyCommand, StartSleep
    <3> QED BY <3>1 DEF ControllerTypes
  <2>2. CASE EnterCall
    <3>1. calm /\ file = Command /\ cpc \notin {"cleanup", "down", "create"}
      BY <2>2 DEF EnterCall, PhaseInv
    <3>2. waited > DetachMax + PollMax + AttachMax
      BY <2>2, WindowAssumption DEF EnterCall, Total
    <3>3. cpc # "detach" /\ cpc # "attach"
      BY <2>2, <3>1, <3>2 DEF EnterCall, CalmInv, PhaseInv, ControllerTypes
    <3>4. cpc = "sleep" => attached
      BY <2>2, <3>1, <3>2 DEF EnterCall, CalmInv, PhaseInv, ControllerTypes
    <3>5. cpc = "poll" => attached
      BY <2>2, <3>1, <3>2 DEF EnterCall, CalmInv, PhaseInv, ControllerTypes
    <3>6. Armed
      BY <3>1, <3>3, <3>4, <3>5 DEF Armed, ControllerTypes
    <3>7. probes = Probes
      BY <3>6 DEF Armed, PhaseInv, FlagMatchesProbes
    <3> QED BY <2>2, <3>6, <3>7 DEF EnterCall, Armed
  <2>3. CASE ~(CommandWriteFails \/ CopyCommand \/ EnterCall)
    <3>1. tpc' \notin {"sleep", "call"}
      BY <1>1, <2>3 DEF Target, ResizeForCommand, ReturnCall, ExitOnError,
         ResizeForZero, ZeroWriteFails, CopyZero, CopyFaults, Rerun
    <3> QED BY <3>1
  <2> QED BY <2>1, <2>2, <2>3
<1>2. CASE Controller
  <2>1. calm /\ file = Command
    BY <1>2, ControllerFrame, CommandAssumption
  <2>2. UNCHANGED target
    BY <1>2, ControllerFrame
  <2>3. ~(PollMissing \/ AttachRaises \/ Interrupt \/ PollOther)
    BY <2>1, CommandAssumption
       DEF PollMissing, AttachRaises, Interrupt, PollOther, Exit
  <2>4. ~(CleanupNext \/ Restart \/ CreateFile)
    BY <2>1 DEF CleanupNext, Restart, CreateFile, PhaseInv
  <2>5. CASE tpc = "call"
    <3>1. Armed BY <2>1, <2>5 DEF CalmInv
    <3>2. Armed' /\ entered' = entered
      BY <1>2, <2>3, <2>4, <3>1
         DEF Controller, PollCommand, AttachNext, DetachNext, Wake, Armed,
             Phase
    <3> QED BY <2>1, <2>2, <2>5, <3>2 DEF CalmInv
  <2>6. CASE tpc = "sleep"
    <3>1. CASE PollCommand
      BY <2>1, <2>2, <2>6, <3>1 DEF CalmInv, PollCommand, Phase, ControllerTypes
    <3>2. CASE AttachNext
      BY <2>1, <2>2, <2>6, <3>2
         DEF CalmInv, AttachNext, Phase, ControllerTypes
    <3>3. CASE DetachNext
      <4>1. waited <= age /\ age <= DetachMax
        BY <2>1, <2>6, <3>3 DEF CalmInv, PhaseInv, DetachNext
      <4>2. CASE idx = N
        BY <2>2, <2>6, <3>3, <4>1, <4>2 DEF DetachNext, Phase, ControllerTypes
      <4>3. CASE idx # N
        BY <2>2, <2>6, <3>3, <4>1, <4>3 DEF DetachNext, ControllerTypes
      <4> QED BY <4>2, <4>3
    <3>4. CASE Wake
      BY <2>1, <2>2, <2>6, <3>4
         DEF CalmInv, PhaseInv, Wake, Phase, ControllerTypes
    <3> QED BY <1>2, <2>3, <2>4, <3>1, <3>2, <3>3, <3>4 DEF Controller
  <2>7. CASE tpc \notin {"sleep", "call"}
    BY <2>2, <2>7
  <2> QED BY <2>5, <2>6, <2>7
<1>3. CASE Tick
  <2>1. calm /\ UNCHANGED <<file, tpc, cpc, attached, entered>>
    BY <1>3 DEF Tick
  <2>2. cpc \notin {"poll", "down"} /\ age' = age + 1
    BY <1>3, <2>1 DEF Tick, PhaseInv
  <2>3. waited' <= waited + 1
    BY <1>3 DEF Tick
  <2>4. CASE tpc = "sleep"
    BY <2>1, <2>2, <2>3, <2>4, <1>3 DEF CalmInv, ControllerTypes, Tick
  <2>5. CASE tpc = "call"
    BY <2>1, <2>5 DEF CalmInv, Armed
  <2> QED BY <2>1, <2>4, <2>5
<1>4. CASE UNCHANGED vars
  BY <1>4 DEF vars, CalmInv, Armed
<1>5. CASE OtherWrites
  BY <1>5, OtherFrame DEF CalmInv, Armed
<1> QED BY <1>1, <1>2, <1>3, <1>4, <1>5 DEF Next

(* The call of an undisturbed run meets every handler.                      *)
LEMMA HitStep ==
  TypeOK /\ PhaseInv /\ CalmInv /\ CalmCallIsHit /\ [Next]_vars
    => CalmCallIsHit'
<1> SUFFICES ASSUME TypeOK, PhaseInv, CalmInv, CalmCallIsHit, [Next]_vars,
                    tpc' = "returned", calm', file' = Command,
                    SkipsFailed => ~failed'
             PROVE  outcome' = "hit"
  BY DEF CalmCallIsHit
<1>1. CASE Target
  <2>1. PICK ok \in BOOLEAN : ReturnCall(ok)
    BY <1>1 DEF Target, ResizeForCommand, CommandWriteFails, StartSleep,
       CopyCommand, EnterCall, ReturnCall, ExitOnError, ResizeForZero,
       ZeroWriteFails, CopyZero, CopyFaults, Rerun
  <2>2. calm /\ file = Command /\ tpc = "call"
    BY <2>1 DEF ReturnCall
  <2>3. Armed /\ entered = Probes
    BY <2>2 DEF CalmInv
  <2>4. Perturbs(ok)
    BY <2>1, <2>3, ProbeAssumption DEF Perturbs, ReturnCall
  <2> QED BY <2>1, <2>4 DEF ReturnCall
<1>2. CASE Controller
  BY <1>2, ControllerFrame, CommandAssumption DEF CalmCallIsHit
<1>3. CASE Tick BY <1>3 DEF Tick, CalmCallIsHit
<1>4. CASE UNCHANGED vars BY <1>4 DEF vars, CalmCallIsHit
<1>5. CASE OtherWrites BY <1>5, OtherFrame DEF CalmCallIsHit
<1> QED BY <1>1, <1>2, <1>3, <1>4, <1>5 DEF Next

LEMMA InitIInv == Init => IInv
<1> SUFFICES ASSUME Init PROVE IInv
  OBVIOUS
<1> USE Constants, NextProbe DEF Init
<1>1. TypeOK
  <2>1. TargetTypes BY DEF TargetTypes
  <2>2. ControllerTypes BY DEF ControllerTypes
  <2>3. SharedTypes BY DEF SharedTypes
  <2>4. FlagTypes BY DEF FlagTypes
  <2> QED BY <2>1, <2>2, <2>3, <2>4 DEF TypeOK
<1>2. PhaseInv BY DEF PhaseInv, FlagMatchesProbes
<1>3. LagInv BY DEF LagInv
<1>4. CalmInv /\ CalmCallIsHit BY DEF CalmInv, CalmCallIsHit
<1> QED BY <1>1, <1>2, <1>3, <1>4 DEF IInv

THEOREM Invariance == Spec => []IInv
<1>1. IInv /\ [Next]_vars => IInv'
  BY TypeStep, PhaseStep, LagStep, CalmStep, HitStep DEF IInv
<1> QED BY InitIInv, <1>1, PTL DEF Spec

-----------------------------------------------------------------------------
(* The variables of demo and controller keep their types.                   *)
THEOREM TypeCorrect == Spec => []TypeOK
<1>1. IInv => TypeOK BY DEF IInv
<1> QED BY Invariance, <1>1, PTL

(* Between two phases the flag of the script tells which probes are live.   *)
THEOREM FlagIsExact == Spec => []FlagMatchesProbes
<1>1. IInv => FlagMatchesProbes BY DEF IInv, PhaseInv
<1> QED BY Invariance, <1>1, PTL

(* A demo that sleeps longer than a detach, a poll and an attach take in a  *)
(* row has its call perturbed in every run nothing disturbs.                *)
THEOREM WindowSuffices == Spec => []CalmCallIsHit
<1>1. IInv => CalmCallIsHit BY DEF IInv
<1> QED BY Invariance, <1>1, PTL

(* No probe of a running controller outlives the command by more than that. *)
THEOREM DisarmIsTimely == Spec => []DisarmLag
<1>1. IInv => DisarmLag
  <2> SUFFICES ASSUME IInv, probes # {}, cpc # "cleanup" PROVE stale <= Total
    BY DEF DisarmLag
  <2>0. ControllerTypes /\ stale \in Nat
    BY Constants DEF IInv, TypeOK, SharedTypes
  <2>1. PhaseInv /\ LagInv
    BY DEF IInv
  <2>2. age \in Nat /\ cpc \in CtlPC
    BY <2>0 DEF ControllerTypes
  <2> USE <2>0, <2>2, Constants
  <2>3. CASE cpc = "attach"
    BY <2>1, <2>3 DEF PhaseInv, LagInv, Total
  <2>4. CASE cpc = "detach"
    BY <2>1, <2>4 DEF PhaseInv, LagInv, Total
  <2>5. CASE cpc \in {"sleep", "poll"}
    <3>1. attached BY <2>1, <2>5 DEF PhaseInv, FlagMatchesProbes
    <3>2. stale <= AttachMax + PollMax
      BY <2>1, <2>5, <3>1 DEF PhaseInv, LagInv
    <3> QED BY <3>2 DEF Total
  <2>6. cpc \notin {"down", "create"} BY <2>1 DEF PhaseInv
  <2> QED BY <2>3, <2>4, <2>5, <2>6
<1> QED BY Invariance, <1>1, PTL

-----------------------------------------------------------------------------
(* Refinement: each step of the controller is a step of the switch or none. *)

(* The steps of the switch other than the end of the process.               *)
Turns ==
  \/ Switch!StartAttach \/ Switch!StartDetach
  \/ \E i \in 1 .. N : Switch!AttachProbe(i) \/ Switch!DetachProbe(i)

LEMMA ControllerTurns ==
  TypeOK /\ PhaseInv /\ Controller =>
    IF cpc' = "down" THEN Switch!ProcessEnds
    ELSE Turns \/ UNCHANGED <<probes, SwitchPhase>>
<1> DEFINE Mapped == IF cpc' = "down" THEN Switch!ProcessEnds
                     ELSE Turns \/ UNCHANGED <<probes, SwitchPhase>>
<1> SUFFICES ASSUME TypeOK, PhaseInv, Controller PROVE Mapped
  OBVIOUS
<1>0. ControllerTypes /\ attached \in BOOLEAN
  BY DEF TypeOK, FlagTypes
<1> USE <1>0, Constants DEF ControllerTypes, SwitchPhase, Phase
<1>1. ASSUME Exit PROVE Mapped
  <2>1. probes' = {} /\ cpc' = "down"
    BY <1>1 DEF Exit, Remove
  <2> QED BY <2>1 DEF Switch!ProcessEnds
<1>2. CASE PollCommand
  <2>1. CASE attached BY <1>2, <2>1 DEF PollCommand
  <2>2. CASE ~attached
    BY <1>2, <2>2 DEF PollCommand, Turns, Switch!StartAttach
  <2> QED BY <2>1, <2>2
<1>3. CASE PollOther
  <2>1. CASE attached
    BY <1>3, <2>1 DEF PollOther, Turns, Switch!StartDetach
  <2>2. CASE ~attached BY <1>3, <2>2 DEF PollOther
  <2> QED BY <2>1, <2>2
<1>4. CASE PollMissing \/ AttachRaises
  BY <1>1, <1>4 DEF PollMissing, AttachRaises
<1>5. CASE AttachNext
  <2>1. /\ idx \in 1 .. N
        /\ probes = 1 .. (idx - 1)
        /\ probes' = 1 .. idx
    BY <1>5 DEF AttachNext, PhaseInv, Probes
  <2>2. SwitchPhase = "attach"
        /\ SwitchPhase' = IF idx = N THEN "on" ELSE "attach"
    BY <1>5 DEF AttachNext
  <2>3. cpc' # "down" BY <1>5 DEF AttachNext
  <2> QED BY <2>1, <2>2, <2>3 DEF Turns, Switch!AttachProbe
<1>6. ASSUME idx \in probes, Remove({idx}), cpc' # "down",
             SwitchPhase = "detach", probes = idx .. N,
             SwitchPhase' = IF idx = N THEN "off" ELSE "detach"
      PROVE  Mapped
  <2>1. idx \in 1 .. N /\ probes' = (idx + 1) .. N
    BY <1>6 DEF Remove, Probes
  <2> QED BY <1>6, <2>1 DEF Turns, Switch!DetachProbe
<1>7. CASE DetachNext
  <2>1. idx \in probes /\ probes = idx .. N /\ Remove({idx})
    BY <1>7 DEF DetachNext, PhaseInv, Probes
  <2>2. SwitchPhase = "detach" /\ cpc' # "down"
        /\ SwitchPhase' = IF idx = N THEN "off" ELSE "detach"
    BY <1>7 DEF DetachNext
  <2> QED BY <1>6, <2>1, <2>2
<1>8. CASE Wake
  BY <1>8 DEF Wake
<1>9. CASE Interrupt
  <2>1. CASE Exit BY <1>1, <2>1
  <2>2. CASE Phase("cleanup") /\ attached /\ UNCHANGED <<attached, probes>>
             /\ cpc \notin {"cleanup", "down"}
    <3>1. CASE cpc = "detach" BY <2>2, <3>1
    <3>2. CASE cpc \in {"poll", "sleep"}
      BY <2>2, <3>2 DEF Turns, Switch!StartDetach
    <3>3. cpc \notin {"attach", "create"}
      BY <2>2 DEF PhaseInv
    <3> QED BY <2>2, <3>1, <3>2, <3>3
  <2> QED BY <1>9, <2>1, <2>2 DEF Interrupt
<1>10. CASE CleanupNext
  <2>1. CASE Exit BY <1>1, <2>1
  <2>2. CASE /\ cpc = "cleanup"
             /\ idx \in probes
             /\ idx # N
             /\ Remove({idx})
             /\ UNCHANGED cpc
    <3>1. probes = idx .. N
      BY <2>2 DEF PhaseInv
    <3> QED BY <1>6, <2>2, <3>1
  <2> QED BY <1>10, <2>1, <2>2 DEF CleanupNext
<1>11. CASE Restart
  BY <1>11 DEF Restart, PhaseInv
<1>12. CASE CreateFile
  BY <1>12 DEF CreateFile, PhaseInv
<1> QED
  BY <1>2, <1>3, <1>4, <1>5, <1>7, <1>8, <1>9, <1>10, <1>11, <1>12
  DEF Controller

LEMMA SwitchFrame ==
  ASSUME TypeOK, UNCHANGED <<cpc, attached, probes>>
  PROVE  UNCHANGED <<probes, SwitchPhase>>
<1>1. ControllerTypes /\ attached \in BOOLEAN
  BY DEF TypeOK, FlagTypes
<1> QED BY <1>1 DEF ControllerTypes, SwitchPhase

LEMMA SwitchStep ==
  TypeOK /\ PhaseInv /\ [Next]_vars
    => Switch!Step \/ UNCHANGED <<probes, SwitchPhase>>
<1> SUFFICES ASSUME TypeOK, PhaseInv, [Next]_vars
             PROVE  Switch!Step \/ UNCHANGED <<probes, SwitchPhase>>
  OBVIOUS
<1>1. CASE Target BY <1>1, TargetFrame, SwitchFrame
<1>2. CASE Controller BY <1>2, ControllerTurns DEF Turns, Switch!Step
<1>3. CASE Tick BY <1>3, SwitchFrame DEF Tick
<1>4. CASE UNCHANGED vars BY <1>4, SwitchFrame DEF vars
<1>5. CASE OtherWrites BY <1>5, OtherFrame, SwitchFrame
<1> QED BY <1>1, <1>2, <1>3, <1>4, <1>5 DEF Next

(* A controller, whenever its file changes and wherever it is interrupted,  *)
(* behaves as the switch that ProbeSlot is stated over.                     *)
THEOREM Implementation == Spec => ImplementsSwitch
<1>1. Init => Switch!SwitchInit
  BY DEF Init, Switch!SwitchInit, SwitchPhase
<1>2. IInv /\ [Next]_vars => [Switch!Step]_<<probes, SwitchPhase>>
  BY SwitchStep DEF IInv
<1> QED
  BY Invariance, <1>1, <1>2, PTL
     DEF Spec, ImplementsSwitch, Switch!SwitchSpec, Switch!switch
=============================================================================
