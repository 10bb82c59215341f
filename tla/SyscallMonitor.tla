--------------------------- MODULE SyscallMonitor ---------------------------
(***************************************************************************)
(* syscall_monitor.py and an instrumented test of the corpus.              *)
(*                                                                         *)
(* The test writes its name to the coordination file, runs, and writes     *)
(* "0".  The monitor has two threads: one follows the file by inotify and  *)
(* sets is_monitoring and the kernel's switch_state; the other takes the   *)
(* events of a raw_syscalls:sys_enter tracepoint from a bounded ring and   *)
(* prints them while is_monitoring.                                        *)
(*                                                                         *)
(* The tests' write_coordination_file belongs to the test library.  As     *)
(* compiled into them it is the truncating writer followed by sleep(1):    *)
(* open(O_TRUNC) and write both raise a MODIFY event.                      *)
(***************************************************************************)
EXTENDS Naturals, CoordinationFile

CONSTANTS
  Name,        \* what the test writes when it begins
  RingSize,    \* events the perf ring holds
  MaxCalls,    \* bound: system calls per run of the test
  MaxRuns,     \* bound: runs of the test
  MaxFaults    \* bound: failed writes

ASSUME NameAssumption == Name \notin {Zero, Empty}
ASSUME BoundAssumption ==
  /\ RingSize \in Nat \ {0}
  /\ {MaxCalls, MaxRuns, MaxFaults} \subseteq Nat

VARIABLES
  file,          \* text of the coordination file
  pending,       \* a MODIFY event waits in the inotify queue
  tpc,           \* where the test is
  calls,         \* system calls it made in this run
  fpc,           \* where file_monitor_and_update is
  is_monitoring, \* the script's variable of that name
  switch_state,  \* the kernel's map of that name
  ring,          \* number of events in the perf ring
  epc,           \* where handle_event is
  late,          \* history: events printed since the monitor was stopped
  told,          \* history: the file changed since the monitor started
  sound,         \* history: the writes of this run succeeded so far, and
                 \* each was handled within the sleep that follows it
  runs, faults

test     == <<tpc, calls, runs>>
follower == <<fpc, is_monitoring, switch_state>>
listener == <<epc, late>>
vars == <<file, pending, test, follower, ring, listener, told, sound,
          faults>>

TestPC == {"idle", "writeName", "sleepName", "body", "writeZero", "sleepZero"}

TypeOK ==
  /\ file \in {Name, Zero, Empty}
  /\ tpc \in TestPC
  /\ calls \in 0 .. MaxCalls
  /\ runs \in 0 .. MaxRuns
  /\ faults \in 0 .. MaxFaults
  /\ fpc \in {"wait", "read", "setSwitch"}
  /\ epc \in {"poll", "print"}
  /\ switch_state \in {0, 1}
  /\ ring \in 0 .. RingSize
  /\ late \in Nat
  /\ {pending, is_monitoring, told, sound} \subseteq BOOLEAN

Init ==
  /\ file \in {Name, Zero, Empty} /\ pending = FALSE
  /\ tpc = "idle" /\ calls = 0 /\ runs = 0 /\ faults = 0
  /\ fpc = "wait" /\ is_monitoring = FALSE /\ switch_state = 0
  /\ ring = 0
  /\ epc = "poll" /\ late = 0
  /\ told = FALSE /\ sound = FALSE

Fault == faults < MaxFaults /\ faults' = faults + 1

-----------------------------------------------------------------------------
(* The instrumented test.                                                   *)

Modify(text) == file' = text /\ pending' = TRUE /\ told' = TRUE

(* open(O_TRUNC) of write_coordination_file(name).                          *)
OpenForName ==
  /\ tpc = "idle"
  /\ runs < MaxRuns
  /\ runs' = runs + 1
  /\ calls' = 0
  /\ Modify(Empty)
  /\ sound' = TRUE
  /\ tpc' = "writeName"
  /\ UNCHANGED <<follower, ring, listener, faults>>

(* It fails: the function returns without the sleep.                        *)
OpenForNameFails ==
  /\ tpc = "idle"
  /\ runs < MaxRuns
  /\ Fault
  /\ runs' = runs + 1
  /\ calls' = 0
  /\ sound' = FALSE
  /\ tpc' = "body"
  /\ UNCHANGED <<file, pending, told, follower, ring, listener>>

WriteName ==
  /\ tpc = "writeName"
  /\ tpc' = "sleepName"
  /\ \/ Modify(Name) /\ UNCHANGED <<sound, faults>>
     \/ Fault /\ sound' = FALSE /\ UNCHANGED <<file, pending, told>>
  /\ UNCHANGED <<calls, runs, follower, ring, listener>>

(* The follower has handled what it was sent.                               *)
Handled == fpc = "wait" /\ ~pending

(* sleep(1) is over, whether or not the follower kept up with it.           *)
BeginBody ==
  /\ tpc = "sleepName"
  /\ tpc' = "body"
  /\ sound' = (sound /\ Handled)
  /\ UNCHANGED <<file, pending, calls, runs, follower, ring, listener,
                 told, faults>>

(* A return statement inside the test function skips the write of "0".      *)
EarlyReturn ==
  /\ tpc = "body"
  /\ tpc' = "idle"
  /\ UNCHANGED <<file, pending, calls, runs, follower, ring, listener,
                 told, sound, faults>>

OpenForZero ==
  /\ tpc = "body"
  /\ \/ Modify(Empty) /\ tpc' = "writeZero" /\ UNCHANGED <<sound, faults>>
     \/ /\ Fault
        /\ tpc' = "idle"
        /\ sound' = FALSE
        /\ UNCHANGED <<file, pending, told>>
  /\ UNCHANGED <<calls, runs, follower, ring, listener>>

WriteZero ==
  /\ tpc = "writeZero"
  /\ tpc' = "sleepZero"
  /\ \/ Modify(Zero) /\ UNCHANGED <<sound, faults>>
     \/ Fault /\ sound' = FALSE /\ UNCHANGED <<file, pending, told>>
  /\ UNCHANGED <<calls, runs, follower, ring, listener>>

EndRun ==
  /\ tpc = "sleepZero"
  /\ tpc' = "idle"
  /\ sound' = (sound /\ Handled)
  /\ UNCHANGED <<file, pending, calls, runs, follower, ring, listener,
                 told, faults>>

(* Mutant: the ring has no limit.                                           *)
MutantSysEnterUnbounded ==
  /\ calls < MaxCalls
  /\ calls' = calls + 1
  /\ ring' = ring + 1
  /\ UNCHANGED <<file, pending, tpc, runs, follower, listener, told, sound,
                 faults>>

(* The tracepoint runs at every call of the cgroup.  It leaves early only   *)
(* when switch_state has no element 0, which an array map always has; what  *)
(* the element holds is not looked at.  A full ring loses the event.        *)
SysEnter ==
  /\ calls < MaxCalls
  /\ calls' = calls + 1
  /\ ring' = IF ring < RingSize THEN ring + 1 ELSE ring
  /\ UNCHANGED <<file, pending, tpc, runs, follower, listener, told, sound,
                 faults>>

Test ==
  \/ OpenForName \/ OpenForNameFails \/ WriteName \/ BeginBody \/ EarlyReturn
  \/ OpenForZero \/ WriteZero \/ EndRun \/ SysEnter

-----------------------------------------------------------------------------
(* file_monitor_and_update.                                                 *)

(* inotify.read returns: equal events were merged, so there is one.         *)
TakeEvent ==
  /\ fpc = "wait"
  /\ pending
  /\ pending' = FALSE
  /\ fpc' = "read"
  /\ UNCHANGED <<file, test, is_monitoring, switch_state, ring,
                 listener, told, sound, faults>>

(* read_switch_file, and the flag of the listener.                          *)
ReadStart ==
  /\ fpc = "read"
  /\ file # Zero
  /\ ~is_monitoring
  /\ is_monitoring' = TRUE
  /\ fpc' = "setSwitch"
  /\ late' = 0
  /\ UNCHANGED <<file, pending, test, switch_state, ring, epc, told,
                 sound, faults>>

(* Mutant: the flag of the listener is not reset, only the kernel's map.    *)
MutantReadStopKeepsFlag ==
  /\ fpc = "read"
  /\ file = Zero
  /\ is_monitoring
  /\ fpc' = "setSwitch"
  /\ UNCHANGED <<file, pending, test, is_monitoring, switch_state, ring,
                 listener, told, sound, faults>>

ReadStop ==
  /\ fpc = "read"
  /\ file = Zero
  /\ is_monitoring
  /\ is_monitoring' = FALSE
  /\ fpc' = "setSwitch"
  /\ UNCHANGED <<file, pending, test, switch_state, ring, listener,
                 told, sound, faults>>

ReadSame ==
  /\ fpc = "read"
  /\ is_monitoring = (file # Zero)
  /\ fpc' = "wait"
  /\ UNCHANGED <<file, pending, test, is_monitoring, switch_state, ring,
                 listener, told, sound, faults>>

(* Mutant: the queue is drained after the switch is set, not before the     *)
(* file is read.                                                            *)
MutantSetSwitchThenDrain ==
  /\ fpc = "setSwitch"
  /\ switch_state' = IF is_monitoring THEN 1 ELSE 0
  /\ fpc' = "wait"
  /\ pending' = FALSE
  /\ UNCHANGED <<file, test, is_monitoring, ring, listener, told, sound,
                 faults>>

(* The kernel's map follows in a statement of its own.                      *)
SetSwitch ==
  /\ fpc = "setSwitch"
  /\ switch_state' = IF is_monitoring THEN 1 ELSE 0
  /\ fpc' = "wait"
  /\ UNCHANGED <<file, pending, test, is_monitoring, ring, listener,
                 told, sound, faults>>

Follower == TakeEvent \/ ReadStart \/ ReadStop \/ ReadSame \/ SetSwitch

-----------------------------------------------------------------------------
(* ebpf_event_listener: perf_buffer_poll calls handle_event per event.      *)

(* Mutant: handle_event does not look at is_monitoring.                     *)
MutantPollAnyway ==
  /\ epc = "poll"
  /\ ring > 0
  /\ ring' = ring - 1
  /\ epc' = "print"
  /\ UNCHANGED <<file, pending, test, follower, late, told, sound,
                 faults>>

Poll ==
  /\ epc = "poll"
  /\ ring > 0
  /\ ring' = ring - 1
  /\ epc' = IF is_monitoring THEN "print" ELSE "poll"
  /\ UNCHANGED <<file, pending, test, follower, late, told, sound,
                 faults>>

PrintEvent ==
  /\ epc = "print"
  /\ epc' = "poll"
  /\ late' = IF is_monitoring THEN 0 ELSE late + 1
  /\ UNCHANGED <<file, pending, test, follower, ring, told, sound,
                 faults>>

Listener == Poll \/ PrintEvent

Next == Test \/ Follower \/ Listener

(* Both threads run for ever; a test need not go on.                        *)
Spec == Init /\ [][Next]_vars /\ WF_vars(Follower) /\ WF_vars(Listener)
-----------------------------------------------------------------------------
(* What must hold.                                                          *)

(* A follower with nothing left to do agrees with the file: no interleaving *)
(* of two writes with one read leaves it on the wrong side.                 *)
FollowsFile ==
  fpc = "wait" /\ ~pending /\ told => is_monitoring = (file # Zero)

(* The body of a test whose marker was written runs under the monitor from  *)
(* its first call to its last, however many truncations the follower saw.   *)
BodyIsMonitored ==
  tpc = "body" /\ sound => is_monitoring

(* A run that ended with "0" leaves the monitor off, so the harness between *)
(* two tests is not recorded.                                               *)
HarnessIsNotMonitored ==
  tpc = "idle" /\ sound /\ file = Zero => ~is_monitoring

(* After a stop at most the event in hand is still printed.                 *)
OneLatePrint == late <= 1

(* When "0" stays in the file, monitoring stops for good and nothing more   *)
(* is printed.                                                              *)
StopsForGood ==
  <>[](file = Zero /\ told) => <>[](~is_monitoring /\ epc = "poll")

(* What the follower announces with "Stopping system call monitoring...":   *)
(* with switch_state at 0 the kernel submits nothing.                       *)
SwitchGatesSubmission ==
  [][fpc = "wait" /\ switch_state = 0 => ring' <= ring]_vars
=============================================================================
