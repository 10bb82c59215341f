------------------------- MODULE InjectedDemoProofs -------------------------
(***************************************************************************)
(* Proofs about InjectedDemo, for any script that hooks the demo's call,   *)
(* any threads and any timing: the results of PollInjectorProofs and of    *)
(* ProbeSlotProofs hold of the whole, and together they give the promise   *)
(* of an injection, from the file to the buffer.                           *)
(***************************************************************************)
EXTENDS InjectedDemo, PollInjectorProofs

SlotProofs == INSTANCE ProbeSlotProofs WITH live <- probes, phase <- SwitchPhase

(* Only live return probes follow a call.                                   *)
FollowInv == follows \in [Threads -> SUBSET probes]

(* What the demo's call met, as each of the two parts keeps it.             *)
LinkInv ==
  tpc = "call" =>
    /\ call[Main] = Called /\ buf[Main] = Data
    /\ follows[Main] = entered \cap ReturnHooks
    /\ \A e \in entered : Fn[e] = Called /\ Kind[e] = "entry" => seen[Main]
-----------------------------------------------------------------------------
(* The whole is the injector of PollInjector.                               *)

LEMMA DemoIsTarget == DemoGoesOn \/ DemoEnters \/ DemoReturns => Target
BY DEF DemoGoesOn, DemoEnters, DemoReturns, Target

LEMMA InjectorStep == [JointNext]_jointVars => [Next]_vars
BY DemoIsTarget
DEF JointNext, jointVars, OtherCalls, ControllerSteps, AroundThem, Next

LEMMA IsInjector == JointSpec => Spec
<1>1. JointInit => Init BY DEF JointInit
<1> QED BY <1>1, InjectorStep, PTL DEF JointSpec, Spec

-----------------------------------------------------------------------------
(* The handlers are those of ProbeSlot.                                     *)

LEMMA Given ==
  /\ SlotProofs!NAssumption /\ SlotProofs!SlotAssumption
  /\ SlotProofs!OrderAssumption
BY HandlerAssumption
DEF HandlerAssumption, Slot!NAssumption, Slot!SlotAssumption,
    Slot!OrderAssumption, SlotProofs!NAssumption, SlotProofs!SlotAssumption,
    SlotProofs!OrderAssumption

LEMMA Frame ==
  ASSUME TypeOK, Target \/ OtherWrites \/ Tick \/ UNCHANGED vars
  PROVE  UNCHANGED <<probes, SwitchPhase>>
BY TargetFrame, OtherFrame, SwitchFrame DEF Tick, vars, controller

LEMMA FollowStep ==
  TypeOK /\ FollowInv /\ [JointNext]_jointVars => FollowInv'
<1> SUFFICES ASSUME TypeOK, FollowInv, [JointNext]_jointVars PROVE FollowInv'
  OBVIOUS
<1> USE DEF FollowInv
<1>1. ASSUME UNCHANGED probes,
             NEW t \in Threads, NEW f \in Functions, NEW b \in Buffers,
             Slot!Enter(t, f, b)
      PROVE  FollowInv'
  BY <1>1 DEF Slot!Enter, Slot!BeginCall, Slot!LiveOf
<1>2. ASSUME UNCHANGED probes,
             NEW t \in Threads, NEW ok \in BOOLEAN, Slot!Return(t, ok)
      PROVE  FollowInv'
  BY <1>2 DEF Slot!Return
<1>3. CASE UNCHANGED jointVars
  BY <1>3, Frame DEF jointVars, handlers
<1>4. CASE DemoGoesOn
  BY <1>4, DemoIsTarget, Frame DEF DemoGoesOn, handlers
<1>5. CASE DemoEnters
  BY <1>1, <1>5, DemoIsTarget, Frame, DemoAssumption, HandlerAssumption
  DEF DemoEnters, DemoAssumption, HandlerAssumption, Slot!SlotAssumption
<1>6. CASE DemoReturns
  BY <1>2, <1>6, DemoIsTarget, Frame, DemoAssumption, HandlerAssumption
  DEF DemoReturns, DemoAssumption, HandlerAssumption, Slot!SlotAssumption
<1>7. CASE OtherCalls BY <1>1, <1>2, <1>7, Frame DEF OtherCalls
<1>8. CASE ControllerSteps BY <1>8 DEF ControllerSteps
<1>9. CASE AroundThem BY <1>9, Frame DEF AroundThem, handlers
<1> QED BY <1>3, <1>4, <1>5, <1>6, <1>7, <1>8, <1>9 DEF JointNext

LEMMA HandlerStep ==
  TypeOK /\ PhaseInv /\ FollowInv /\ [JointNext]_jointVars
    => [Slot!Next]_(Slot!vars)
<1> SUFFICES ASSUME TypeOK, PhaseInv, FollowInv, [JointNext]_jointVars
             PROVE  Slot!Next \/ UNCHANGED Slot!vars
  OBVIOUS
<1> USE DEF Slot!vars, Slot!switch, Slot!calls
<1>1. CASE UNCHANGED jointVars
  BY <1>1, Frame DEF jointVars, handlers
<1>2. CASE DemoGoesOn
  BY <1>2, DemoIsTarget, Frame DEF DemoGoesOn, handlers
<1>3. CASE DemoEnters \/ DemoReturns
  <2>1. Main \in Threads /\ Called \in Functions /\ Data \in Buffers
    BY DemoAssumption, HandlerAssumption
    DEF DemoAssumption, HandlerAssumption, Slot!SlotAssumption
  <2> QED BY <1>3, <2>1 DEF DemoEnters, DemoReturns, Slot!Next
<1>4. CASE OtherCalls BY <1>4 DEF OtherCalls, Slot!Next
<1>5. CASE AroundThem BY <1>5, Frame DEF AroundThem, handlers
<1>6. CASE ControllerSteps
  <2> USE DEF ControllerSteps
  <2>1. CASE cpc' = "down"
    <3>1. Switch!ProcessEnds BY <1>6, <2>1, ControllerTurns
    <3>2. probes' = {} /\ SwitchPhase' = "off"
      BY <3>1 DEF Switch!ProcessEnds
    <3>3. follows' = [t \in Threads |-> {}] BY <1>6, <3>2
    <3> QED
      BY <1>6, <2>1, <3>2, <3>3 DEF Slot!Next, Slot!End, Slot!ProcessEnds
  <2>2. CASE cpc' # "down"
    <3>1. ASSUME probes \subseteq probes' PROVE follows' = follows
      BY <1>6, <3>1 DEF FollowInv
    <3>2. CASE UNCHANGED <<probes, SwitchPhase>>
      BY <1>6, <2>2, <3>1, <3>2
    <3>3. CASE Switch!StartAttach
      BY <1>6, <2>2, <3>1, <3>3
      DEF Switch!StartAttach, Slot!Next, Slot!Attach, Slot!StartAttach,
          Slot!KeepCalls
    <3>4. CASE Switch!StartDetach
      BY <1>6, <2>2, <3>4
      DEF Switch!StartDetach, Slot!Next, Slot!Detach, Slot!StartDetach
    <3>5. ASSUME NEW i \in 1 .. N, Switch!AttachProbe(i)
          PROVE  Slot!Next
      <4>1. probes \subseteq probes'
        BY <3>5, Constants DEF Switch!AttachProbe
      <4>2. Slot!AttachProbe(i)
        BY <3>5 DEF Switch!AttachProbe, Slot!AttachProbe
      <4> QED
        BY <1>6, <2>2, <3>1, <4>1, <4>2
        DEF Slot!Next, Slot!Attach, Slot!KeepCalls
    <3>6. ASSUME NEW i \in 1 .. N, Switch!DetachProbe(i)
          PROVE  Slot!Next
      <4>1. Slot!DetachProbe(i)
        BY <3>6 DEF Switch!DetachProbe, Slot!DetachProbe
      <4> QED BY <1>6, <2>2, <4>1 DEF Slot!Next, Slot!Detach
    <3> QED
      BY <1>6, <2>2, <3>2, <3>3, <3>4, <3>5, <3>6, ControllerTurns DEF Turns
  <2> QED BY <2>1, <2>2
<1> QED BY <1>1, <1>2, <1>3, <1>4, <1>5, <1>6 DEF JointNext

LEMMA HandlerInit == JointInit => FollowInv /\ Slot!Init
BY DEF JointInit, Init, Slot!Init, FollowInv

(* The handlers of the whole are those of ProbeSlot: whatever is proved of  *)
(* them holds with this controller, its polling, its faults and restarts.   *)
THEOREM HandlersSound == JointSpec => HandlersAreSound
<1>1. IInv => TypeOK /\ PhaseInv BY DEF IInv
<1> QED
  BY <1>1, HandlerInit, IsInjector, Invariance, FollowStep, HandlerStep, PTL
  DEF JointSpec, HandlersAreSound, Slot!Spec

LEMMA SlotInvariance == JointSpec => []SlotProofs!IInv
<1>1. SlotProofs!Spec => []SlotProofs!IInv
  BY SlotProofs!Invariance, Given
<1>2. Slot!Init => SlotProofs!Init
  BY DEF Slot!Init, SlotProofs!Init, Slot!SwitchInit, SlotProofs!SwitchInit
<1>3. Slot!Next => SlotProofs!Next
  BY DEF
      Slot!Next, Slot!SwitchInit, Slot!StartAttach,
      Slot!AttachProbe, Slot!StartDetach, Slot!DetachProbe,
      Slot!ProcessEnds, Slot!InCall, Slot!LiveOf, Slot!BeginCall,
      Slot!Enter, Slot!Perturbs, Slot!Return, Slot!KeepCalls,
      Slot!Attach, Slot!Detach, Slot!End, Slot!Step, Slot!vars,
      Slot!switch, Slot!calls, SlotProofs!Next,
      SlotProofs!SwitchInit, SlotProofs!StartAttach,
      SlotProofs!AttachProbe, SlotProofs!StartDetach,
      SlotProofs!DetachProbe, SlotProofs!ProcessEnds,
      SlotProofs!InCall, SlotProofs!LiveOf, SlotProofs!BeginCall,
      SlotProofs!Enter, SlotProofs!Perturbs, SlotProofs!Return,
      SlotProofs!KeepCalls, SlotProofs!Attach, SlotProofs!Detach,
      SlotProofs!End, SlotProofs!Step, SlotProofs!vars,
      SlotProofs!switch, SlotProofs!calls
<1>4. UNCHANGED Slot!vars => UNCHANGED SlotProofs!vars
  BY DEF Slot!vars, SlotProofs!vars, Slot!switch, SlotProofs!switch,
         Slot!calls, SlotProofs!calls
<1> QED
  BY <1>1, <1>2, <1>3, <1>4, HandlersSound, PTL
  DEF HandlersAreSound, Slot!Spec, SlotProofs!Spec

-----------------------------------------------------------------------------
(* From the file to the buffer.                                             *)

(* A step of the controller brings probes, or removes some from the kernel  *)
(* and, if they run on return, from the call they follow.                   *)
LEMMA ControllerProbes ==
  Controller =>
    \/ UNCHANGED entered /\ probes \subseteq probes'
    \/ \E gone : Remove(gone)
BY DEF Controller, PollCommand, PollOther, PollMissing, AttachNext,
       AttachRaises, DetachNext, Wake, Interrupt, CleanupNext, Restart,
       CreateFile, Exit, controller

LEMMA Demo ==
  /\ Main \in Threads /\ Main \in Cgroup /\ Called \in Functions
  /\ Data \in Buffers /\ None \notin Buffers \cup Functions
BY DemoAssumption, HandlerAssumption
DEF DemoAssumption, HandlerAssumption, Slot!SlotAssumption

LEMMA LinkStep ==
  /\ TypeOK /\ SlotProofs!TypeOK /\ FollowInv /\ LinkInv
  /\ [JointNext]_jointVars
  => LinkInv'
<1> SUFFICES ASSUME TypeOK, SlotProofs!TypeOK, FollowInv, LinkInv,
                    [JointNext]_jointVars, tpc' = "call"
             PROVE  LinkInv'
  BY DEF LinkInv
<1> USE Demo DEF LinkInv, SlotProofs!TypeOK
<1>1. CASE UNCHANGED jointVars
  BY <1>1 DEF jointVars, handlers, vars, target
<1>2. CASE DemoGoesOn
  BY <1>2
  DEF DemoGoesOn, ResizeForCommand, CommandWriteFails, StartSleep,
      CopyCommand, ExitOnError, ResizeForZero, ZeroWriteFails, CopyZero,
      CopyFaults, Rerun
<1>3. CASE DemoEnters
  <2>1. entered' = probes /\ probes \subseteq Probes
    BY <1>3 DEF DemoEnters, EnterCall, TypeOK, ControllerTypes
  <2>2. /\ call'[Main] = Called /\ buf'[Main] = Data
        /\ follows'[Main] = Slot!LiveOf("return", Called)
        /\ Slot!LiveOf("entry", Called) # {} => seen'[Main]
    BY <1>3 DEF DemoEnters, Slot!Enter, Slot!BeginCall
  <2>3. follows'[Main] = entered' \cap ReturnHooks
    BY <2>1, <2>2, DemoAssumption DEF DemoAssumption, Slot!LiveOf
  <2>4. ASSUME NEW e \in entered', Fn[e] = Called, Kind[e] = "entry"
        PROVE  seen'[Main]
    BY <2>1, <2>2, <2>4 DEF Slot!LiveOf
  <2> QED BY <2>2, <2>3, <2>4
<1>4. CASE DemoReturns BY <1>4 DEF DemoReturns, ReturnCall
<1>5. CASE OtherCalls
  <2>1. UNCHANGED <<tpc, entered>> BY <1>5 DEF OtherCalls, vars, target
  <2>2. PICK t \in Threads :
          /\ t # Main
          /\ \/ \E f \in Functions, b \in Buffers : Slot!Enter(t, f, b)
             \/ \E ok \in BOOLEAN : Slot!Return(t, ok)
    BY <1>5, <2>1 DEF OtherCalls
  <2>3. UNCHANGED <<call[Main], buf[Main], follows[Main], seen[Main]>>
    BY <2>2 DEF Slot!Enter, Slot!BeginCall, Slot!Return
  <2> QED BY <2>1, <2>3
<1>6. CASE ControllerSteps
  <2>1. UNCHANGED <<tpc, call, buf, seen>>
        /\ follows'[Main] = follows[Main] \cap probes'
        /\ entered' \subseteq entered
    BY <1>6, ControllerFrame DEF ControllerSteps, target
  <2>2. follows[Main] \subseteq probes BY DEF FollowInv
  <2>3. follows'[Main] = entered' \cap ReturnHooks
    <3>1. CASE UNCHANGED entered /\ probes \subseteq probes'
      BY <2>1, <2>2, <3>1
    <3>2. ASSUME NEW gone, Remove(gone)
          PROVE  follows'[Main] = entered' \cap ReturnHooks
      BY <2>1, <2>2, <3>2 DEF Remove
    <3> QED BY <1>6, <3>1, <3>2, ControllerProbes DEF ControllerSteps
  <2> QED BY <2>1, <2>3
<1>7. CASE AroundThem
  BY <1>7, OtherFrame DEF AroundThem, handlers, Tick, target
<1> QED BY <1>1, <1>2, <1>3, <1>4, <1>5, <1>6, <1>7 DEF JointNext

(* If the controller ran undisturbed since the command was written and no   *)
(* other call of the program overlaps the demo's, the demo's own buffer is  *)
(* forged and no other: the sleep makes the probes meet the call, and the   *)
(* shared slot holds the address of this call's buffer.                     *)
THEOREM CalmIsForged == JointSpec => CalmCallIsForged
<1> DEFINE Forged ==
      DemoReturns /\ calm /\ file = Command /\ (SkipsFailed => ~failed')
        /\ ~shared[Main]
      => /\ memory'[Data] = "perturbed"
         /\ \A b \in Buffers \ {Data} : memory'[b] = memory[b]
<1>1. IInv /\ SlotProofs!IInv /\ LinkInv => Forged
  <2> SUFFICES ASSUME IInv, SlotProofs!IInv, LinkInv,
                      NEW ok \in BOOLEAN, ReturnCall(ok),
                      Slot!Return(Main, ok),
                      calm, file = Command, SkipsFailed => ~failed',
                      ~shared[Main]
               PROVE  /\ memory'[Data] = "perturbed"
                      /\ \A b \in Buffers \ {Data} : memory'[b] = memory[b]
    BY DEF DemoReturns
  <2>1. tpc = "call" /\ (SkipsFailed => ok) BY DEF ReturnCall
  <2>2. entered = Probes BY <2>1 DEF IInv, CalmInv
  <2>3. /\ call[Main] = Called /\ buf[Main] = Data
        /\ follows[Main] = entered \cap ReturnHooks
        /\ \A e \in entered : Fn[e] = Called /\ Kind[e] = "entry" => seen[Main]
    BY <2>1 DEF LinkInv
  <2>4. PICK r \in Probes : Fn[r] = Called /\ Kind[r] = "return"
                            /\ r \in ReturnHooks
    BY DemoAssumption DEF DemoAssumption
  <2>5. follows[Main] # {} BY <2>2, <2>3, <2>4
  <2>6. PICK e \in 1 .. (r - 1) : Kind[e] = "entry" /\ Fn[e] = Called
    BY <2>4, HandlerAssumption
    DEF HandlerAssumption, Slot!OrderAssumption, Probes
  <2>7. e \in Probes BY <2>4, <2>6, Constants DEF Probes
  <2>8. seen[Main] BY <2>2, <2>3, <2>6, <2>7
  <2>9. slot = Data
    BY <2>3, <2>5, <2>8, Demo
    DEF SlotProofs!IInv, SlotProofs!OwnSlot, SlotProofs!InCall
  <2>10. Slot!Perturbs(Main, ok) BY <2>1, <2>5, <2>9, Demo DEF Slot!Perturbs
  <2> QED BY <2>3, <2>9, <2>10, Demo DEF Slot!Return
<1>2. IInv => TypeOK BY DEF IInv
<1>3. SlotProofs!IInv => SlotProofs!TypeOK BY DEF SlotProofs!IInv
<1>4. JointInit => LinkInv BY DEF JointInit, Init, LinkInv
<1> QED
  BY <1>1, <1>2, <1>3, <1>4, HandlerInit, IsInjector, Invariance,
     SlotInvariance, FollowStep, LinkStep, PTL
  DEF JointSpec, CalmCallIsForged
=============================================================================
