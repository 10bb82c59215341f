---------------------------- MODULE InjectedDemo ----------------------------
(***************************************************************************)
(* A controller, the demo it perturbs and the handlers it attaches, in     *)
(* one: PollInjector says when the probes are live, ProbeSlot what the     *)
(* handlers of live probes do to the memory of the threads that call.      *)
(***************************************************************************)
EXTENDS PollInjector

CONSTANTS
  Threads, Cgroup, Functions, Buffers, Owner, None, Kind, Fn,  \* ProbeSlot's
  Main,          \* the demo's thread
  Called, Data   \* the function it calls in the window, and the buffer

VARIABLES slot, memory, call, buf, follows, seen, shared, gap

Slot == INSTANCE ProbeSlot WITH live <- probes, phase <- SwitchPhase

handlers == <<slot, memory, call, buf, follows, seen, shared, gap>>
jointVars == <<vars, handlers>>

ASSUME HandlerAssumption ==
  /\ Slot!NAssumption /\ Slot!SlotAssumption /\ Slot!OrderAssumption
ASSUME DemoAssumption ==
  /\ Main \in Cgroup /\ Called \in Functions
  /\ Data \in Buffers /\ Owner[Data] = Main
  /\ Hooks = {i \in Probes : Fn[i] = Called}
  /\ ReturnHooks = {i \in Hooks : Kind[i] = "return"} /\ ReturnHooks # {}

JointInit == Init /\ Slot!Init

(* The demo is one thread: outside its window it makes other calls, but     *)
(* goes on only when they have returned.                                    *)
DemoGoesOn ==
  /\ ~Slot!InCall(Main)
  /\ \/ ResizeForCommand \/ CommandWriteFails \/ CopyCommand
     \/ ExitOnError \/ ResizeForZero \/ ZeroWriteFails \/ CopyZero
     \/ CopyFaults \/ Rerun
  /\ UNCHANGED handlers

DemoEnters == EnterCall /\ Slot!Enter(Main, Called, Data)

DemoReturns ==
  \E ok \in BOOLEAN : ReturnCall(ok) /\ Slot!Return(Main, ok)

(* Every thread may call the probed functions at any time.                  *)
OtherCalls ==
  /\ UNCHANGED vars
  /\ \E t \in Threads :
       /\ t = Main => tpc # "call"
       /\ \/ \E f \in Functions, b \in Buffers : Slot!Enter(t, f, b)
          \/ \E ok \in BOOLEAN : Slot!Return(t, ok)

(* A return probe that goes no longer follows any call; the map goes with   *)
(* the process.                                                             *)
ControllerSteps ==
  /\ Controller
  /\ follows' = [t \in Threads |-> follows[t] \cap probes']
  /\ slot' = IF cpc' = "down" THEN None ELSE slot
  /\ UNCHANGED <<memory, call, buf, seen, shared, gap>>

AroundThem == (OtherWrites \/ Tick) /\ UNCHANGED handlers

JointNext ==
  \/ DemoGoesOn \/ DemoEnters \/ DemoReturns \/ OtherCalls
  \/ ControllerSteps \/ AroundThem

JointSpec == JointInit /\ [][JointNext]_jointVars
-----------------------------------------------------------------------------
(* What must hold.                                                          *)

(* The handlers never meet anything from this controller that ProbeSlot     *)
(* does not describe, so its results hold of the whole: polling, faults and *)
(* restarts included.                                                       *)
HandlersAreSound == Slot!Spec

(* From the command in the file to the byte in the buffer: if the           *)
(* controller ran undisturbed since the command was written and no other    *)
(* call of the program began during the demo's, then the demo finds forged  *)
(* data in its buffer, and no other buffer was touched.                     *)
CalmCallIsForged ==
  [][DemoReturns /\ calm /\ file = Command /\ (SkipsFailed => ~failed')
       /\ ~shared[Main]
     => /\ memory'[Data] = "perturbed"
        /\ \A b \in Buffers \ {Data} : memory'[b] = memory[b]]_jointVars
=============================================================================
