------------------------ MODULE SyscallMonitorProofs ------------------------
(* Proofs about SyscallMonitor, for every ring, every number of calls and   *)
(* runs, and every order in which the test and the two threads run.         *)
EXTENDS SyscallMonitor, TLAPS

USE NameAssumption, BoundAssumption

NextAction ==
  \/ OpenForName \/ OpenForNameFails \/ WriteName \/ BeginBody \/ EarlyReturn
  \/ OpenForZero \/ WriteZero \/ EndRun \/ SysEnter
  \/ TakeEvent \/ ReadStart \/ ReadStop \/ ReadSame \/ SetSwitch
  \/ Poll \/ PrintEvent

LEMMA NextIsNextAction == Next <=> NextAction
BY DEF Next, NextAction, Test, Follower, Listener

LEMMA FlagStep ==
  ASSUME TypeOK, [Next]_vars
  PROVE  {pending, is_monitoring, told, sound}' \subseteq BOOLEAN
<1>1. SUFFICES /\ pending' \in BOOLEAN /\ is_monitoring' \in BOOLEAN
               /\ told' \in BOOLEAN /\ sound' \in BOOLEAN
  OBVIOUS
<1>2. /\ pending \in BOOLEAN /\ is_monitoring \in BOOLEAN
      /\ told \in BOOLEAN /\ sound \in BOOLEAN
  BY DEF TypeOK
<1>3. CASE UNCHANGED vars
  BY <1>2, <1>3 DEF vars, follower
<1>4. CASE NextAction
  BY <1>2, <1>4, Zenon
  DEF NextAction, OpenForName, OpenForNameFails, WriteName, BeginBody,
      EarlyReturn, OpenForZero, WriteZero, EndRun, SysEnter, TakeEvent,
      ReadStart, ReadStop, ReadSame, SetSwitch, Poll, PrintEvent, Modify,
      Handled, follower, test, listener
<1>5. QED BY <1>3, <1>4, NextIsNextAction

LEMMA TypeStep ==
  ASSUME TypeOK, [Next]_vars
  PROVE  TypeOK'
<1>1. {pending, is_monitoring, told, sound}' \subseteq BOOLEAN
  BY FlagStep
<1>2. CASE UNCHANGED vars
  BY <1>1, <1>2 DEF TypeOK, vars, follower, test, listener
<1>3. CASE Test
  <2>1. /\ file' \in {Name, Zero, Empty} /\ tpc' \in TestPC
        /\ calls' \in 0 .. MaxCalls /\ runs' \in 0 .. MaxRuns
        /\ faults' \in 0 .. MaxFaults /\ ring' \in 0 .. RingSize
    BY <1>3
    DEF TypeOK, TestPC, Test, OpenForName, OpenForNameFails, WriteName,
        BeginBody, EarlyReturn, OpenForZero, WriteZero, EndRun, SysEnter,
        Modify, Fault
  <2>2. UNCHANGED <<fpc, switch_state, epc, late>>
    BY <1>3
    DEF Test, OpenForName, OpenForNameFails, WriteName, BeginBody,
        EarlyReturn, OpenForZero, WriteZero, EndRun, SysEnter, follower,
        listener
  <2>3. QED BY <1>1, <2>1, <2>2 DEF TypeOK
<1>4. CASE Follower
  BY <1>1, <1>4
  DEF TypeOK, Follower, TakeEvent, ReadStart, ReadStop, ReadSame, SetSwitch,
      test, listener
<1>5. CASE Listener
  BY <1>1, <1>5 DEF TypeOK, Listener, Poll, PrintEvent, test, follower
<1>6. QED BY <1>2, <1>3, <1>4, <1>5 DEF Next

(* The variables keep their types; the ring never holds more than fits.     *)
THEOREM TypeCorrect == Spec => []TypeOK
<1>1. Init => TypeOK
  <2>1. Init => {pending, is_monitoring, told, sound} \subseteq BOOLEAN
    BY Zenon DEF Init
  <2>2. QED BY <2>1 DEF Init, TypeOK, TestPC
<1>2. TypeOK /\ [Next]_vars => TypeOK' BY TypeStep
<1>3. QED BY <1>1, <1>2, PTL DEF Spec

-----------------------------------------------------------------------------
(* A follower that has looked at the file since its last event agrees with  *)
(* it: that holds from the moment it has read, before it sets the switch.   *)
AgreeInv == told /\ ~pending /\ fpc # "read" => is_monitoring = (file # Zero)

LEMMA AgreeStep ==
  ASSUME TypeOK, AgreeInv, [Next]_vars
  PROVE  AgreeInv'
<1>1. is_monitoring \in BOOLEAN BY DEF TypeOK
<1>2. CASE UNCHANGED vars
  BY <1>2 DEF AgreeInv, vars, follower
<1>3. CASE Test
  <2>1. UNCHANGED <<fpc, is_monitoring>>
    BY <1>3
    DEF Test, OpenForName, OpenForNameFails, WriteName, BeginBody,
        EarlyReturn, OpenForZero, WriteZero, EndRun, SysEnter, follower
  <2>2. pending' = TRUE \/ UNCHANGED <<file, pending, told>>
    BY <1>3
    DEF Test, OpenForName, OpenForNameFails, WriteName, BeginBody,
        EarlyReturn, OpenForZero, WriteZero, EndRun, SysEnter, Modify
  <2>3. QED BY <2>1, <2>2 DEF AgreeInv
<1>4. CASE Follower
  BY <1>1, <1>4
  DEF AgreeInv, Follower, TakeEvent, ReadStart, ReadStop, ReadSame, SetSwitch
<1>5. CASE Listener
  BY <1>5 DEF AgreeInv, Listener, Poll, PrintEvent, follower
<1>6. QED BY <1>2, <1>3, <1>4, <1>5 DEF Next

(* However two writes of a test interleave with one read of the follower,   *)
(* a follower at rest has the state that the file asks for.                 *)
THEOREM FollowerAgrees == Spec => []FollowsFile
<1>1. Init => AgreeInv BY DEF Init, AgreeInv
<1>2. TypeOK /\ AgreeInv /\ [Next]_vars => AgreeInv' BY AgreeStep
<1>3. AgreeInv => FollowsFile BY DEF AgreeInv, FollowsFile
<1>4. QED BY <1>1, <1>2, <1>3, TypeCorrect, PTL DEF Spec

-----------------------------------------------------------------------------
(* What a sound run has done so far, at each of its points.                 *)
Settled(text) == Handled /\ told /\ file = text

SoundInv ==
  sound =>
    /\ tpc = "sleepName" => told /\ file = Name
    /\ tpc = "body"      => Settled(Name) /\ is_monitoring
    /\ tpc = "sleepZero" => told /\ file = Zero
    /\ tpc = "idle" /\ file = Zero => Settled(Zero) /\ ~is_monitoring

(* A step of a thread that has nothing to handle changes nothing here.      *)
LEMMA SoundThread ==
  ASSUME TypeOK, SoundInv, Follower \/ Listener
  PROVE  SoundInv'
<1>1. UNCHANGED <<file, tpc, told, sound>>
  BY DEF Follower, TakeEvent, ReadStart, ReadStop, ReadSame, SetSwitch,
         Listener, Poll, PrintEvent, test
<1>2. Handled => UNCHANGED <<fpc, pending, is_monitoring>>
  BY DEF Handled, Follower, TakeEvent, ReadStart, ReadStop, ReadSame,
         SetSwitch, Listener, Poll, PrintEvent, follower
<1>3. QED BY <1>1, <1>2 DEF SoundInv, Settled, Handled

LEMMA SoundStep ==
  ASSUME TypeOK, AgreeInv, SoundInv, [Next]_vars
  PROVE  SoundInv'
<1> USE DEF SoundInv, Settled, Handled
<1>1. /\ pending \in BOOLEAN /\ is_monitoring \in BOOLEAN
      /\ told \in BOOLEAN /\ sound \in BOOLEAN
  BY DEF TypeOK
<1>2. CASE UNCHANGED vars BY <1>2 DEF vars, follower, test
<1>3. CASE OpenForName BY <1>3 DEF OpenForName
<1>4. CASE OpenForNameFails BY <1>4 DEF OpenForNameFails
<1>5. CASE WriteName BY <1>5 DEF WriteName, Modify
<1>6. CASE BeginBody
  <2>1. sound' => sound /\ fpc = "wait" /\ ~pending BY <1>6 DEF BeginBody
  <2>2. /\ tpc = "sleepName" /\ tpc' = "body"
        /\ UNCHANGED <<file, told, pending, fpc, is_monitoring>>
    BY <1>6 DEF BeginBody, follower
  <2>3. sound' => told /\ file = Name BY <2>1, <2>2
  <2>4. sound' => is_monitoring BY <2>1, <2>3 DEF AgreeInv
  <2>5. QED BY <2>1, <2>2, <2>3, <2>4
<1>7. CASE EarlyReturn BY <1>7 DEF EarlyReturn
<1>8. CASE OpenForZero BY <1>8 DEF OpenForZero, Modify
<1>9. CASE WriteZero BY <1>9 DEF WriteZero, Modify
<1>10. CASE EndRun
  <2>1. sound' => sound /\ fpc = "wait" /\ ~pending BY <1>10 DEF EndRun
  <2>2. /\ tpc = "sleepZero" /\ tpc' = "idle"
        /\ UNCHANGED <<file, told, pending, fpc, is_monitoring>>
    BY <1>10 DEF EndRun, follower
  <2>3. sound' => told /\ file = Zero BY <2>1, <2>2
  <2>4. sound' => ~is_monitoring BY <2>1, <2>3 DEF AgreeInv
  <2>5. QED BY <2>1, <2>2, <2>3, <2>4
<1>11. CASE SysEnter BY <1>11 DEF SysEnter, follower
<1>12. CASE Follower \/ Listener BY <1>12, SoundThread
<1>13. QED
  BY <1>2, <1>3, <1>4, <1>5, <1>6, <1>7, <1>8, <1>9, <1>10, <1>11, <1>12
  DEF Next, Test

LEMMA SoundInvariant == Spec => []SoundInv
<1>1. Init => AgreeInv /\ SoundInv BY DEF Init, AgreeInv, SoundInv
<1>2. TypeOK /\ AgreeInv /\ SoundInv /\ [Next]_vars => AgreeInv' /\ SoundInv'
  BY AgreeStep, SoundStep
<1>3. QED BY <1>1, <1>2, TypeCorrect, PTL DEF Spec

(* A run whose writes succeeded and were handled within its sleeps has its  *)
(* whole body under the monitor.                                            *)
THEOREM BodyUnderMonitor == Spec => []BodyIsMonitored
<1>1. SoundInv => BodyIsMonitored BY DEF SoundInv, BodyIsMonitored
<1>2. QED BY <1>1, SoundInvariant, PTL

(* Such a run leaves the monitor off.                                       *)
THEOREM HarnessOutsideMonitor == Spec => []HarnessIsNotMonitored
<1>1. SoundInv => HarnessIsNotMonitored BY DEF SoundInv, HarnessIsNotMonitored
<1>2. QED BY <1>1, SoundInvariant, PTL

-----------------------------------------------------------------------------
(* No event was printed late while one is in hand or monitoring is on.      *)
LateInv == late <= 1 /\ (is_monitoring \/ epc = "print" => late = 0)

LEMMA LateStep ==
  ASSUME TypeOK, LateInv, [Next]_vars
  PROVE  LateInv'
<1>1. CASE UNCHANGED vars
  BY <1>1 DEF LateInv, vars, follower, listener
<1>2. CASE Test
  <2>1. UNCHANGED <<is_monitoring, epc, late>>
    BY <1>2
    DEF Test, OpenForName, OpenForNameFails, WriteName, BeginBody,
        EarlyReturn, OpenForZero, WriteZero, EndRun, SysEnter, follower,
        listener
  <2>2. QED BY <2>1 DEF LateInv
<1>3. CASE Follower
  BY <1>3
  DEF TypeOK, LateInv, Follower, TakeEvent, ReadStart, ReadStop, ReadSame,
      SetSwitch, listener
<1>4. CASE Listener
  BY <1>4 DEF TypeOK, LateInv, Listener, Poll, PrintEvent, follower
<1>5. QED BY <1>1, <1>2, <1>3, <1>4 DEF Next

(* The two threads share is_monitoring without a lock; the race costs one   *)
(* event per stop and no more.                                              *)
THEOREM AtMostOneLatePrint == Spec => []OneLatePrint
<1>1. Init => LateInv BY DEF Init, LateInv
<1>2. TypeOK /\ LateInv /\ [Next]_vars => LateInv' BY LateStep
<1>3. LateInv => OneLatePrint BY DEF LateInv, OneLatePrint
<1>4. QED BY <1>1, <1>2, <1>3, TypeCorrect, PTL DEF Spec
=============================================================================
