---------------------------- MODULE PollInjector ----------------------------
(***************************************************************************)
(* One polling controller (an iago_attack.py) and the demo it perturbs.    *)
(*                                                                         *)
(* The demo writes its command to the coordination file, sleeps, makes one *)
(* system call and writes "0".  The controller reads the file about once a *)
(* second; on the command it attaches its probes one by one, on any other  *)
(* text it detaches them one by one.  Nothing but the demo's sleep makes   *)
(* the call fall between the two, so time is explicit: Tick is one unit,   *)
(* and a phase of the controller may not outlast its bound.                *)
(***************************************************************************)
EXTENDS Naturals, CoordinationFile

CONSTANTS
  Command,        \* the command both sides agree on
  N,              \* number of attach calls in the script
  Hooks,          \* the attach calls that concern the demo's system call
  ReturnHooks,    \* those of Hooks that run when the call returns
  SkipsFailed,    \* the return handler leaves a failed call alone
  OverridesReturn,\* the return handler replaces the return value
  CleanupRaises,  \* the detach calls of the interrupt path that always raise
  ClearsOnError,  \* the demo writes "0" even when its call failed
  Others,         \* texts that programs run before or after the demo leave
  Window,         \* ticks the demo sleeps between the command and the call
  Period,         \* ticks of time.sleep(1)
  PollMax,        \* most ticks between two reads of an idle controller
  AttachMax,      \* most ticks of the attach phase
  DetachMax,      \* most ticks of the detach phase
  MaxRuns,        \* bound: runs of the demo
  MaxFaults       \* bound: interrupts, failed attaches and failed writes

Probes == 1 .. N
Total  == DetachMax + PollMax + AttachMax

ASSUME CommandAssumption ==
  Command \notin {Zero, Empty, Torn, Absent} \cup Others
ASSUME ProbeAssumption ==
  /\ N \in Nat \ {0}
  /\ Hooks \subseteq Probes
  /\ ReturnHooks \subseteq Hooks
  /\ CleanupRaises \subseteq Probes
ASSUME FlagAssumption ==
  /\ SkipsFailed \in BOOLEAN
  /\ OverridesReturn \in BOOLEAN
  /\ ClearsOnError \in BOOLEAN
ASSUME TimeAssumption ==
  /\ {Window, Period, PollMax, AttachMax, DetachMax} \subseteq Nat
  /\ Period <= PollMax
ASSUME BoundAssumption == MaxRuns \in Nat /\ MaxFaults \in Nat

(* The sleep outlasts a detach, an idle poll and an attach in a row.        *)
ASSUME WindowAssumption == Total < Window

VARIABLES
  file,      \* text of the coordination file
  tpc,       \* where the demo is
  waited,    \* ticks slept since the command was written, up to Window
  entered,   \* probes that follow the demo's call since it entered the kernel
  outcome,   \* what the call met: "none" yet, "hit" or "miss"
  failed,    \* the call failed by itself
  cpc,       \* where the controller is
  idx,       \* next attach or detach call of the phase
  attached,  \* the script's variable of that name
  probes,    \* attach calls whose probe is live in the kernel
  age,       \* ticks spent in the controller's phase
  stale,     \* ticks since the file last held the command, up to Total + 1
  calm,      \* history: the controller ran undisturbed since the write
  runs, faults

target     == <<tpc, waited, outcome, failed, runs>>
controller == <<cpc, idx, attached, probes, age>>
vars == <<file, target, entered, controller, stale, calm, faults>>

TargetPC == {"idle", "copyCmd", "sleep", "call", "returned", "copyZero",
             "finished"}
CtlPC == {"create", "poll", "attach", "detach", "sleep", "cleanup", "down"}
Up == cpc \notin {"cleanup", "down", "create"}

TargetTypes ==
  /\ tpc \in TargetPC
  /\ waited \in 0 .. Window
  /\ entered \subseteq Probes
  /\ outcome \in {"none", "hit", "miss"}
  /\ runs \in 0 .. MaxRuns
ControllerTypes ==
  /\ cpc \in CtlPC
  /\ idx \in Probes
  /\ probes \subseteq Probes
  /\ age \in Nat
SharedTypes ==
  /\ file \in {Command, Zero, Empty, Torn, Absent} \cup Others
  /\ stale \in 0 .. Total + 1
  /\ faults \in 0 .. MaxFaults

FlagTypes == {attached, calm, failed} \subseteq BOOLEAN

(* The variables keep their types.                                          *)
TypeOK == TargetTypes /\ ControllerTypes /\ SharedTypes /\ FlagTypes

(* A controller that finds the file may find an earlier text in it.         *)
Init ==
  /\ file \in ({Command, Zero, Empty} \cup Others) \ {Absent}
  /\ tpc = "idle" /\ waited = 0 /\ entered = {} /\ outcome = "none"
  /\ failed = FALSE /\ runs = 0
  /\ cpc = "poll" /\ idx = 1 /\ attached = FALSE /\ probes = {} /\ age = 0
  /\ stale = 0 /\ calm = FALSE /\ faults = 0

Fault == faults < MaxFaults /\ faults' = faults + 1

-----------------------------------------------------------------------------
(* The demo.                                                                *)

StartSleep ==
  /\ tpc' = "sleep"
  /\ waited' = 0
  /\ calm' = Up

(* write_coordination_file(command): shm_open and ftruncate.                *)
ResizeForCommand ==
  /\ tpc = "idle"
  /\ runs < MaxRuns
  /\ runs' = runs + 1
  /\ file' = Resized(file, Command)
  /\ tpc' = "copyCmd"
  /\ outcome' = "none"
  /\ entered' = {}
  /\ failed' = FALSE
  /\ stale' = IF file' = Command THEN 0 ELSE stale
  /\ UNCHANGED <<waited, controller, calm, faults>>

(* The demo does not look at the outcome of the write: it sleeps anyway,    *)
(* with the file as it was (shm_open failed) or unlinked (later failures).  *)
CommandWriteFails ==
  /\ tpc \in {"idle", "copyCmd"}
  /\ tpc = "idle" => runs < MaxRuns
  /\ runs' = IF tpc = "idle" THEN runs + 1 ELSE runs
  /\ file' \in (IF tpc = "idle" THEN {file} ELSE {}) \cup {AfterFailedMap}
  /\ Fault
  /\ StartSleep
  /\ outcome' = "none"
  /\ entered' = {}
  /\ failed' = FALSE
  /\ UNCHANGED <<controller, stale>>

(* memcpy into the mapping; then sleep(n).                                  *)
CopyCommand ==
  /\ tpc = "copyCmd"
  /\ file # Empty
  /\ file' = Command
  /\ stale' = 0
  /\ StartSleep
  /\ UNCHANGED <<entered, outcome, failed, runs, controller, faults>>

(* Mutant: the demo makes its call without sleeping first.                  *)
MutantEnterAtOnce ==
  /\ tpc = "sleep"
  /\ tpc' = "call"
  /\ entered' = probes
  /\ UNCHANGED <<file, waited, outcome, failed, runs, controller, stale,
                 calm, faults>>

(* The system call enters the kernel once the sleep is over: the entry      *)
(* handlers run, and the return probes of that moment follow the call.      *)
EnterCall ==
  /\ tpc = "sleep"
  /\ waited >= Window
  /\ tpc' = "call"
  /\ entered' = probes
  /\ UNCHANGED <<file, waited, outcome, failed, runs, controller, stale,
                 calm, faults>>

(* The handlers change this call: the entry handlers ran, the return        *)
(* handlers still follow it, and they do not skip a failed call.            *)
Perturbs(ok) == Hooks \subseteq entered /\ (SkipsFailed => ok)

ReturnCall(ok) ==
  /\ tpc = "call"
  /\ outcome' = IF Perturbs(ok) THEN "hit" ELSE "miss"
  /\ failed' = ~ok
  /\ tpc' = "returned"
  /\ UNCHANGED <<file, waited, entered, runs, controller, stale, calm,
                 faults>>

(* What the demo sees of the call.                                          *)
SeesError == failed /\ ~(OverridesReturn /\ outcome = "hit")

(* The fstat and epoll_wait demos exit on an error without writing "0".     *)
ExitOnError ==
  /\ tpc = "returned"
  /\ SeesError
  /\ ~ClearsOnError
  /\ tpc' = "finished"
  /\ UNCHANGED <<file, waited, entered, outcome, failed, runs, controller,
                 stale, calm, faults>>

(* write_coordination_file("0"), in the same two steps.                     *)
ResizeForZero ==
  /\ tpc = "returned"
  /\ SeesError => ClearsOnError
  /\ file' = Resized(file, Zero)
  /\ tpc' = "copyZero"
  /\ UNCHANGED <<waited, entered, outcome, failed, runs, controller, stale,
                 calm, faults>>

ZeroWriteFails ==
  /\ \/ /\ tpc = "returned"
        /\ SeesError => ClearsOnError
        /\ file' \in {file, AfterFailedMap}
     \/ /\ tpc = "copyZero"
        /\ file' = AfterFailedMap
  /\ Fault
  /\ tpc' = "finished"
  /\ UNCHANGED <<waited, entered, outcome, failed, runs, controller, stale,
                 calm>>

CopyZero ==
  /\ tpc = "copyZero"
  /\ file # Empty
  /\ file' = Zero
  /\ tpc' = "finished"
  /\ UNCHANGED <<waited, entered, outcome, failed, runs, controller, stale,
                 calm, faults>>

(* A controller that creates the file truncated it under the mapping:       *)
(* memcpy goes beyond its end, and SIGBUS ends the demo.                    *)
CopyFaults ==
  /\ tpc \in {"copyCmd", "copyZero"}
  /\ file = Empty
  /\ tpc' = "finished"
  /\ UNCHANGED <<file, waited, entered, outcome, failed, runs, controller,
                 stale, calm, faults>>

(* The demo is started again.                                               *)
Rerun ==
  /\ tpc = "finished"
  /\ runs < MaxRuns
  /\ tpc' = "idle"
  /\ UNCHANGED <<file, waited, entered, outcome, failed, runs, controller,
                 stale, calm, faults>>

Target ==
  \/ ResizeForCommand \/ CommandWriteFails \/ CopyCommand
  \/ EnterCall \/ (\E ok \in BOOLEAN : ReturnCall(ok))
  \/ ExitOnError \/ ResizeForZero \/ ZeroWriteFails \/ CopyZero
  \/ CopyFaults \/ Rerun

-----------------------------------------------------------------------------
(* The controller.                                                          *)

Phase(pc) == cpc' = pc /\ idx' = 1 /\ age' = 0

(* A return probe that is removed loses the calls it follows, even if it is *)
(* attached again before they return.                                       *)
Remove(gone) ==
  /\ probes' = probes \ gone
  /\ entered' = entered \ (gone \cap ReturnHooks)

(* The process ends, and with it every probe it holds.                      *)
Exit ==
  /\ Phase("down")
  /\ Remove(Probes)
  /\ attached' = FALSE
  /\ calm' = FALSE

(* Mutant: the command is recognised by a prefix, so a torn text passes.    *)
MutantPollPrefix ==
  /\ cpc = "poll"
  /\ file \in {Command, Torn}
  /\ IF attached THEN Phase("sleep") ELSE Phase("attach")
  /\ UNCHANGED <<file, target, entered, attached, probes, stale, calm, faults>>

(* One turn of the loop: read the file, then attach, detach or go to sleep. *)
PollCommand ==
  /\ cpc = "poll"
  /\ file = Command
  /\ IF attached THEN Phase("sleep") ELSE Phase("attach")
  /\ UNCHANGED <<file, target, entered, attached, probes, stale, calm, faults>>

(* Mutant: the branch that detaches is missing.                             *)
MutantPollNeverDetaches ==
  /\ cpc = "poll"
  /\ file \notin {Command, Absent}
  /\ Phase("sleep")
  /\ UNCHANGED <<file, target, entered, attached, probes, stale, calm, faults>>

PollOther ==
  /\ cpc = "poll"
  /\ file \notin {Command, Absent}
  /\ IF attached THEN Phase("detach") ELSE Phase("sleep")
  /\ UNCHANGED <<file, target, entered, attached, probes, stale, calm, faults>>

(* open() raises FileNotFoundError, which nothing catches.                  *)
PollMissing ==
  /\ cpc = "poll"
  /\ file = Absent
  /\ Exit
  /\ UNCHANGED <<file, target, stale, faults>>

(* Mutant: an attach loop that runs one call too far.                       *)
MutantAttachPastEnd ==
  /\ cpc = "attach"
  /\ probes' = probes \cup {idx}
  /\ IF idx > N
     THEN Phase("sleep") /\ attached' = TRUE
     ELSE idx' = idx + 1 /\ UNCHANGED <<cpc, age, attached>>
  /\ UNCHANGED <<file, target, entered, stale, calm, faults>>

AttachNext ==
  /\ cpc = "attach"
  /\ probes' = probes \cup {idx}
  /\ IF idx = N
     THEN Phase("sleep") /\ attached' = TRUE
     ELSE idx' = idx + 1 /\ UNCHANGED <<cpc, age, attached>>
  /\ UNCHANGED <<file, target, entered, stale, calm, faults>>

(* attach_kprobe raises, which nothing catches.                             *)
AttachRaises ==
  /\ cpc = "attach"
  /\ Fault
  /\ Exit
  /\ UNCHANGED <<file, target, stale>>

(* Mutant: the last detach call is missing.                                 *)
MutantDetachShort ==
  /\ cpc = "detach"
  /\ IF idx = N
     THEN Phase("sleep") /\ attached' = FALSE /\ UNCHANGED <<probes, entered>>
     ELSE /\ Remove({idx})
          /\ idx' = idx + 1
          /\ UNCHANGED <<cpc, age, attached>>
  /\ UNCHANGED <<file, target, stale, calm, faults>>

DetachNext ==
  /\ cpc = "detach"
  /\ Remove({idx})
  /\ IF idx = N
     THEN Phase("sleep") /\ attached' = FALSE
     ELSE idx' = idx + 1 /\ UNCHANGED <<cpc, age, attached>>
  /\ UNCHANGED <<file, target, stale, calm, faults>>

(* time.sleep(1) returns, and the loop starts over.                         *)
Wake ==
  /\ cpc = "sleep"
  /\ age >= Period
  /\ Phase("poll")
  /\ UNCHANGED <<file, target, entered, attached, probes, stale, calm, faults>>

(* KeyboardInterrupt: the handler detaches only what the flag says.         *)
Interrupt ==
  /\ cpc \notin {"cleanup", "down"}
  /\ Fault
  /\ \/ /\ attached
        /\ Phase("cleanup")
        /\ calm' = FALSE
        /\ UNCHANGED <<attached, probes, entered>>
     \/ ~attached /\ Exit
  /\ UNCHANGED <<file, target, stale>>

(* Detaching what is not attached (any more), or under a name it was not    *)
(* attached with, raises and ends the process; so does the last detach.     *)
CleanupNext ==
  /\ cpc = "cleanup"
  /\ IF idx \notin probes \/ idx \in CleanupRaises \/ idx = N
     THEN Exit
     ELSE /\ Remove({idx})
          /\ idx' = idx + 1
          /\ UNCHANGED <<cpc, age, attached, calm>>
  /\ UNCHANGED <<file, target, stale, faults>>

(* Mutant: the script clears an old command when it starts.                 *)
MutantRestartClears ==
  /\ cpc = "down"
  /\ file' = Zero
  /\ Phase("poll")
  /\ UNCHANGED <<target, entered, attached, probes, stale, calm, faults>>

(* The script is started again and looks for the file.                      *)
Restart ==
  /\ cpc = "down"
  /\ Phase(IF file = Absent THEN "create" ELSE "poll")
  /\ UNCHANGED <<file, target, entered, attached, probes, stale, calm, faults>>

(* It found none and opens it for writing, whatever is there by now.        *)
CreateFile ==
  /\ cpc = "create"
  /\ file' = Empty
  /\ Phase("poll")
  /\ UNCHANGED <<target, entered, attached, probes, stale, calm, faults>>

Controller ==
  \/ PollCommand \/ PollOther \/ PollMissing
  \/ AttachNext \/ AttachRaises \/ DetachNext \/ Wake
  \/ Interrupt \/ CleanupNext \/ Restart \/ CreateFile

-----------------------------------------------------------------------------
(* The file belongs to every program that opens its path.  Tests and demos  *)
(* are run one after the other, so another one writes while this demo is    *)
(* not running; another controller that found the file missing when it was  *)
(* started creates it, and truncates what was written in the meantime.      *)
AtRest == tpc \in {"idle", "finished"}

OtherWrites ==
  /\ \/ AtRest /\ file' \in Others
     \/ file' = Empty
  /\ UNCHANGED <<target, entered, controller, stale, calm, faults>>

(* One tick passes, unless a phase of the controller is at its bound.       *)
PhaseMax ==
  CASE cpc = "sleep"              -> PollMax
    [] cpc = "attach"             -> AttachMax
    [] cpc \in {"detach", "cleanup"} -> DetachMax
    [] cpc \in {"poll", "down", "create"} -> 0

Tick ==
  /\ cpc # "poll"
  /\ cpc \notin {"down", "create"} => age < PhaseMax
  /\ age' = IF cpc \in {"down", "create"} THEN age ELSE age + 1
  /\ waited' = IF tpc = "sleep" /\ waited < Window THEN waited + 1 ELSE waited
  /\ stale' = IF file = Command THEN 0
              ELSE IF stale <= Total THEN stale + 1 ELSE stale
  /\ UNCHANGED <<file, tpc, entered, outcome, failed, runs,
                 cpc, idx, attached, probes, calm, faults>>

Next == Target \/ Controller \/ OtherWrites \/ Tick

(* Both programs are sequential and the scheduler runs them; time passes.   *)
(* An operator who restarts the demo or the script is not promised.         *)
ControllerRuns ==
  PollCommand \/ PollOther \/ PollMissing \/ AttachNext \/ DetachNext
  \/ Wake \/ CleanupNext \/ CreateFile
TargetRuns ==
  CopyCommand \/ EnterCall \/ (\E ok \in BOOLEAN : ReturnCall(ok))
  \/ ExitOnError \/ ResizeForZero \/ CopyZero \/ CopyFaults

Spec == Init /\ [][Next]_vars
LiveSpec == Spec /\ WF_vars(Tick) /\ WF_vars(ControllerRuns)
                 /\ WF_vars(TargetRuns)
-----------------------------------------------------------------------------
(* What must hold.                                                          *)

(* Between two phases the script's flag tells the truth about the kernel:   *)
(* all of its probes are live, or none is.  The loop decides by the flag    *)
(* alone, so a probe it does not account for would never be detached.       *)
FlagMatchesProbes ==
  cpc \in {"poll", "sleep"} => probes = IF attached THEN Probes ELSE {}

(* The demo's sleep is long enough: if the controller ran undisturbed since *)
(* the command was written, the call meets every handler, from its entry to *)
(* its return.                                                              *)
CalmCallIsHit ==
  tpc = "returned" /\ calm /\ file = Command /\ (SkipsFailed => ~failed)
    => outcome = "hit"

(* Once the command is gone from the file, calls of the cgroup may still be *)
(* perturbed, but for no longer than a started attach phase, an idle poll   *)
(* and a detach phase.  An interrupted script that is taking its probes     *)
(* down is exempt: the interrupt may come at the end of that time.          *)
DisarmLag ==
  probes # {} /\ cpc # "cleanup" => stale <= Total

(* When the runs are over the probes go, unless the last run left its       *)
(* command in the file (an error exit, a failed write).                     *)
Quiesces == <>[](probes = {}) \/ <>[](file = Command)

(* The controller as a switch of the kernel's probes.                       *)
SwitchPhase ==
  CASE cpc = "attach"                            -> "attach"
    [] cpc \in {"detach", "cleanup"}             -> "detach"
    [] cpc \in {"poll", "sleep"} /\ attached     -> "on"
    [] cpc \in {"poll", "sleep"} /\ ~attached    -> "off"
    [] cpc \in {"down", "create"}                -> "off"

Switch == INSTANCE ProbeSwitch WITH live <- probes, phase <- SwitchPhase

(* Whatever the file says and whenever the script is interrupted, it brings *)
(* its probes in order and removes them in order or all at once: never two  *)
(* phases mixed, never a phase begun on the remains of another.             *)
ImplementsSwitch == Switch!SwitchSpec
=============================================================================
