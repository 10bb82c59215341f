------------------------- MODULE MutationController -------------------------
(***************************************************************************)
(* mutation.py and the *_iago drivers that share the coordination file     *)
(* with it.                                                                *)
(*                                                                         *)
(* A driver writes "mutation_<name>", sleeps, makes the call <name>,       *)
(* writes "mutation_done", sleeps, and reports a call that returned 4099.  *)
(* The controller blocks in inotify.read; a MODIFY event makes it read the *)
(* file and attach a return probe that overrides the result with 4099.     *)
(*                                                                         *)
(* The drivers' write_coordination_file belongs to the test library.  As   *)
(* compiled into the drivers it is the mapping writer followed by          *)
(* sleep(3): ftruncate raises the MODIFY event, the memcpy after it raises *)
(* none, so the one event may be handled before the text is there.         *)
(***************************************************************************)
EXTENDS Naturals

CONSTANTS
  Syscalls,     \* names the kernel has a function for
  Unknown,      \* names drivers use that it has none for (fstat is newfstat)
  Forks,        \* those of Syscalls that return in a child process as well
  Done,         \* the name "done"
  Length,       \* length of every name
  Cut(_, _),    \* the name that the first characters of a name spell
  Quota,        \* probes a process may open (a limit of bcc)
  MaxWindows,   \* bound: windows opened by the drivers
  MaxFaults     \* bound: failed writes, drivers killed, interrupts

Names == Syscalls \cup Unknown
Texts == Names \cup {Done}

ASSUME NameAssumption ==
  /\ {Done, "cut", "other", "absent"} \cap Names = {}
  /\ Done \notin {"cut", "other", "absent"}
  /\ Syscalls \cap Unknown = {} /\ Forks \subseteq Syscalls
  /\ Length \in [Texts -> Nat]
  /\ \A n \in Texts : \A k \in 0 .. Length[n] :
       Cut(n, k) \in IF k = Length[n] THEN {n} ELSE Names \cup {"cut"}
ASSUME BoundAssumption ==
  /\ Quota \in Nat \ {0}
  /\ MaxWindows \in Nat /\ MaxFaults \in Nat

(* The file holds "mutation_" and the first kept characters of a name, then *)
(* NUL bytes up to len; or a text without that prefix; or is gone.          *)
Command   == [name : Texts, kept : Nat, len : Nat]
Other     == [name |-> "other", kept |-> 0, len |-> 0]
Absent    == [name |-> "absent", kept |-> 0, len |-> 0]
Intact(n) == [name |-> n, kept |-> Length[n], len |-> Length[n]]

(* ftruncate to the length of another command cuts the text or pads it.     *)
Resized(text, n) ==
  IF text \notin Command THEN Other
  ELSE [name |-> text.name,
        kept |-> IF Length[n] < text.kept THEN Length[n] ELSE text.kept,
        len  |-> Length[n]]

VARIABLES
  file,      \* content of the coordination file
  watched,   \* the watch is on the file of that name
  pending,   \* a MODIFY event waits in the inotify queue
  dpc,       \* where the driver is
  call,      \* name of its window
  entered,   \* a return probe follows its call since it entered the kernel
  hit,       \* its call returned 4099
  cpc,       \* where the controller is
  target,    \* saved_name, the name it attached to or is about to
  attached,  \* the script's variable of that name
  live,      \* functions with a live return probe
  opened,    \* probes opened by the process
  quiet,     \* history: nothing disturbed the window so far
  fresh,     \* history: the controller was detached when the window began
  windows, faults

file_vars  == <<file, watched, pending>>
driver     == <<dpc, call, hit, windows>>
controller == <<cpc, target, attached, live, opened>>
vars == <<file_vars, driver, entered, controller, quiet, fresh, faults>>

DriverPC == {"idle", "copyName", "sleepName", "ready", "call", "returned",
             "copyDone", "sleepDone"}
FileTypes ==
  \/ file \in Command /\ file.kept <= Length[file.name]
  \/ file \in {Other, Absent}
DriverTypes ==
  /\ dpc \in DriverPC
  /\ call \in Names
  /\ windows \in 0 .. MaxWindows
  /\ faults \in 0 .. MaxFaults
ControllerTypes ==
  /\ cpc \in {"wait", "read", "attach", "down"}
  /\ target \in Texts \cup {"cut"}
  /\ live \subseteq Syscalls
  /\ opened \in 0 .. Quota
FlagTypes ==
  {watched, pending, entered, hit, attached, quiet, fresh} \subseteq BOOLEAN

(* The variables keep their types.                                          *)
TypeOK == FileTypes /\ DriverTypes /\ ControllerTypes /\ FlagTypes

Init ==
  /\ file \in {Other, Intact(Done)}
  /\ watched = TRUE /\ pending = FALSE
  /\ dpc = "idle" /\ call \in Names /\ entered = FALSE /\ hit = FALSE
  /\ cpc = "wait" /\ target = Done /\ attached = FALSE /\ live = {}
  /\ opened = 0
  /\ quiet = FALSE /\ fresh = FALSE /\ windows = 0 /\ faults = 0

Fault == faults < MaxFaults /\ faults' = faults + 1

-----------------------------------------------------------------------------
(* The driver.                                                              *)

(* shm_open and ftruncate: the event is raised here, if anyone watches.     *)
Resize(n) ==
  /\ file' = IF file = Absent THEN Other ELSE Resized(file, n)
  /\ pending' = (pending \/ watched)
  /\ UNCHANGED watched

Copy(n) ==
  /\ file' = Intact(n)
  /\ UNCHANGED <<watched, pending>>

(* The error paths after shm_open unlink the file; the watch goes with it.  *)
Unlink ==
  /\ file' = Absent
  /\ watched' = FALSE
  /\ UNCHANGED pending

(* shm_open or ftruncate fails, before any event.                           *)
FailedWrite ==
  /\ Fault
  /\ UNCHANGED file_vars \/ Unlink

OpenWindow(n) ==
  /\ dpc = "idle"
  /\ windows < MaxWindows
  /\ windows' = windows + 1
  /\ call' = n
  /\ hit' = FALSE
  /\ entered' = FALSE
  /\ fresh' = ~attached

ResizeForName(n) ==
  /\ OpenWindow(n)
  /\ Resize(n)
  /\ dpc' = "copyName"
  /\ quiet' = (cpc = "wait" /\ ~pending /\ watched /\ opened < Quota)
  /\ UNCHANGED <<controller, faults>>

(* The error paths return without the sleep; the driver goes on.            *)
NameWriteFails(n) ==
  /\ OpenWindow(n)
  /\ FailedWrite
  /\ dpc' = "ready"
  /\ quiet' = FALSE
  /\ UNCHANGED controller

CopyName ==
  /\ dpc = "copyName"
  /\ Copy(call)
  /\ dpc' = "sleepName"
  /\ UNCHANGED <<call, entered, hit, windows, controller, quiet, fresh,
                 faults>>

(* mmap fails, after ftruncate raised its event and left a torn text.       *)
MapFails ==
  /\ \/ dpc = "copyName" /\ dpc' = "ready"
     \/ dpc = "copyDone" /\ dpc' = "idle"
  /\ Fault
  /\ Unlink
  /\ quiet' = FALSE
  /\ UNCHANGED <<call, entered, hit, windows, controller, fresh>>

(* The controller has handled what it was sent.                             *)
Handled == cpc = "down" \/ (cpc = "wait" /\ ~pending)

(* sleep(3) is over; the call enters the kernel.  A window is quiet only if *)
(* the controller kept up with the sleep.                                   *)
EnterCall ==
  /\ dpc \in {"sleepName", "ready"}
  /\ dpc' = "call"
  /\ entered' = (call \in live)
  /\ quiet' = (quiet /\ Handled)
  /\ UNCHANGED <<file_vars, call, hit, windows, controller, fresh, faults>>

(* The return probe overrides the result of the call it follows.            *)
ReturnCall ==
  /\ dpc = "call"
  /\ dpc' = "returned"
  /\ hit' = entered
  /\ UNCHANGED <<file_vars, call, entered, windows, controller, quiet, fresh,
                 faults>>

(* The child of a fork returns from the call too, and writes "done" like    *)
(* its parent: here in one step, as the parent's two steps are the same.    *)
ChildDone ==
  /\ dpc \in {"returned", "copyDone", "sleepDone"}
  /\ call \in Forks
  /\ file' = Intact(Done)
  /\ pending' = (pending \/ watched)
  /\ UNCHANGED <<watched, driver, entered, controller, quiet, fresh, faults>>

ResizeForDone ==
  /\ dpc = "returned"
  /\ Resize(Done)
  /\ dpc' = "copyDone"
  /\ UNCHANGED <<call, entered, hit, windows, controller, quiet, fresh,
                 faults>>

DoneWriteFails ==
  /\ dpc = "returned"
  /\ FailedWrite
  /\ dpc' = "idle"
  /\ quiet' = FALSE
  /\ UNCHANGED <<call, entered, hit, windows, controller, fresh>>

CopyDone ==
  /\ dpc = "copyDone"
  /\ Copy(Done)
  /\ dpc' = "sleepDone"
  /\ UNCHANGED <<call, entered, hit, windows, controller, quiet, fresh,
                 faults>>

(* The sleep ends; write_result_file reports a hit.                         *)
Report ==
  /\ dpc = "sleepDone"
  /\ dpc' = "idle"
  /\ quiet' = (quiet /\ Handled)
  /\ UNCHANGED <<file_vars, call, entered, hit, windows, controller, fresh,
                 faults>>

(* The harness kills a driver, or its call does not return: no "done", or a *)
(* torn one.                                                                *)
DriverDies ==
  /\ dpc # "idle"
  /\ Fault
  /\ dpc' = "idle"
  /\ quiet' = FALSE
  /\ UNCHANGED <<file_vars, call, entered, hit, windows, controller, fresh>>

Driver ==
  \/ \E n \in Names : ResizeForName(n) \/ NameWriteFails(n)
  \/ CopyName \/ MapFails \/ EnterCall \/ ReturnCall
  \/ ChildDone \/ ResizeForDone \/ DoneWriteFails \/ CopyDone \/ Report
  \/ DriverDies

-----------------------------------------------------------------------------
(* The controller.                                                          *)

(* inotify.read returns: equal events were merged, so there is one.         *)
TakeEvent ==
  /\ cpc = "wait"
  /\ pending
  /\ cpc' = "read"
  /\ pending' = FALSE
  /\ UNCHANGED <<file, watched, driver, entered, target, attached, live,
                 opened, quiet, fresh, faults>>

(* What a read of the file does to the history: a text read between         *)
(* ftruncate and memcpy is not the one announced.                           *)
Observed == quiet' = (quiet /\ dpc \notin {"copyName", "copyDone"})

(* What the text says to the test for "done", and as the C string of a      *)
(* function name, which ends at the first NUL.                              *)
HasPrefix == file \in Command
Spelled   == Cut(file.name, file.kept)
IsDone    == HasPrefix /\ Spelled = Done /\ file.len = file.kept

(* Mutant: the flag is not looked at before attaching.                      *)
MutantReadNameAnyway ==
  /\ cpc = "read"
  /\ HasPrefix /\ ~IsDone
  /\ attached' = TRUE
  /\ target' = Spelled
  /\ cpc' = "attach"
  /\ Observed
  /\ UNCHANGED <<file_vars, driver, entered, live, opened, fresh, faults>>

(* Mutant: the probe is attached under the name that was read before.       *)
MutantReadNameStale ==
  /\ cpc = "read"
  /\ HasPrefix /\ ~IsDone
  /\ ~attached
  /\ attached' = TRUE
  /\ cpc' = "attach"
  /\ Observed
  /\ UNCHANGED <<file_vars, driver, entered, target, live, opened, fresh,
                 faults>>

(* A command while detached: the flag is set before the attempt.            *)
ReadName ==
  /\ cpc = "read"
  /\ HasPrefix /\ ~IsDone
  /\ ~attached
  /\ attached' = TRUE
  /\ target' = Spelled
  /\ cpc' = "attach"
  /\ Observed
  /\ UNCHANGED <<file_vars, driver, entered, live, opened, fresh, faults>>

(* Mutant: the flag is not reset on "done".                                 *)
MutantReadDoneKeepsFlag ==
  /\ cpc = "read"
  /\ IsDone
  /\ attached
  /\ cpc' = "wait"
  /\ Observed
  /\ UNCHANGED <<file_vars, driver, entered, attached, target, live, opened,
                 fresh, faults>>

(* "done" while attached: a line is printed and the flag reset, no more.    *)
ReadDone ==
  /\ cpc = "read"
  /\ IsDone
  /\ attached
  /\ attached' = FALSE
  /\ cpc' = "wait"
  /\ Observed
  /\ UNCHANGED <<file_vars, driver, entered, target, live, opened, fresh,
                 faults>>

ReadNothing ==
  /\ cpc = "read"
  /\ file # Absent
  /\ HasPrefix => attached = ~IsDone
  /\ cpc' = "wait"
  /\ Observed
  /\ UNCHANGED <<file_vars, driver, entered, target, attached, live, opened,
                 fresh, faults>>

(* The process ends, and with it every probe it opened and its watch; a     *)
(* probe of a later process does not follow a call that entered before.     *)
Exit ==
  /\ cpc' = "down"
  /\ live' = {}
  /\ entered' = FALSE
  /\ opened' = 0
  /\ attached' = FALSE
  /\ watched' = FALSE
  /\ pending' = FALSE
  /\ UNCHANGED <<file, driver, target, fresh>>

(* open() raises FileNotFoundError, which only KeyboardInterrupt could stop. *)
ReadMissing ==
  /\ cpc = "read"
  /\ file = Absent
  /\ Exit
  /\ UNCHANGED <<quiet, faults>>

(* Mutant: bcc does not enforce its quota.                                  *)
MutantAttachOverQuota ==
  /\ cpc = "attach"
  /\ target \in Syscalls
  /\ live' = live \cup {target}
  /\ opened' = opened + 1
  /\ cpc' = "wait"
  /\ UNCHANGED <<file_vars, driver, entered, target, attached, quiet, fresh,
                 faults>>

Attach ==
  /\ cpc = "attach"
  /\ target \in Syscalls
  /\ opened < Quota
  /\ live' = live \cup {target}
  /\ opened' = opened + 1
  /\ cpc' = "wait"
  /\ UNCHANGED <<file_vars, driver, entered, target, attached, quiet, fresh,
                 faults>>

(* Mutant: the exception is caught and the loop goes on.                    *)
MutantAttachGoesOn ==
  /\ cpc = "attach"
  /\ target \notin Syscalls \/ opened = Quota
  /\ cpc' = "wait"
  /\ UNCHANGED <<file_vars, driver, entered, target, attached, live, opened,
                 quiet, fresh, faults>>

(* No such function, or no probe left: attach_kretprobe raises.             *)
AttachRaises ==
  /\ cpc = "attach"
  /\ target \notin Syscalls \/ opened = Quota
  /\ Exit
  /\ UNCHANGED <<quiet, faults>>

(* KeyboardInterrupt, anywhere in the loop.                                 *)
Interrupt ==
  /\ cpc # "down"
  /\ Fault
  /\ Exit
  /\ quiet' = FALSE

(* Started again: add_watch needs the file to be there.                     *)
Restart ==
  /\ cpc = "down"
  /\ file # Absent
  /\ cpc' = "wait"
  /\ watched' = TRUE
  /\ UNCHANGED <<file, pending, driver, entered, target, attached, live,
                 opened, quiet, fresh, faults>>

Controller ==
  \/ TakeEvent \/ ReadName \/ ReadDone \/ ReadNothing \/ ReadMissing
  \/ Attach \/ AttachRaises \/ Interrupt \/ Restart

Next == Driver \/ Controller

Spec == Init /\ [][Next]_vars
-----------------------------------------------------------------------------
(* What must hold.                                                          *)

(* A window nothing disturbed, opened on a detached controller for a name   *)
(* the kernel knows, has its call overridden: the probe is there before the *)
(* call enters and until it has returned, and the controller survived.      *)
QuietWindowHits ==
  dpc \in {"returned", "copyDone", "sleepDone"} /\ quiet /\ fresh
    /\ call \in Syscalls
    => hit

(* Whatever the flag was before, such a window resets it: a lost "done"     *)
(* costs the drivers one window, not the rest of the run.                   *)
QuietWindowResyncs ==
  dpc = "idle" /\ quiet => ~attached

(* A process opens at most one probe per window, even when events are late  *)
(* or lost and texts are torn: bcc's quota outlasts that many windows.      *)
OneProbePerWindow == opened <= windows

(* The flag is set before the attach that may fail.  Still, except between  *)
(* the two, a set flag always stands for a live probe, that of the name it  *)
(* was set for, whatever windows, cut names, failed attaches and restarts   *)
(* came before: the name in the file is ignored only by a controller that   *)
(* overrides some call.                                                     *)
FlagHasProbe ==
  attached /\ cpc # "attach" => target \in live

(* What the script announces when it prints "Detaching kretprobe...": no    *)
(* probe of a controller that waits detached is live.                       *)
DetachedMeansGone == cpc = "wait" /\ ~attached => live = {}
=============================================================================
