# Tbouncer in TLA+

Models, model-checking runs and machine-checked proofs for the repository's own
programs: the controllers that perturb system calls of a program under test
(`src/process-based/iago_attack`, `mutation`), the monitor that records them
(`syscall_monitor`) and the script that instruments the tests (`syscalls/modify.py`).
Everything here is translated from that code. Paths below are relative to
`src/process-based/` unless they begin with `src/`.

## 1. The system

All programs meet in one place, the *coordination file* `/dev/shm/switch_file`. A
program under test writes a command into it, sleeps, makes one system call and
writes that it is done; a controller running outside, as a Python script with an eBPF
program, notices the command, brings its probes into the kernel and removes
them afterwards. There is no acknowledgement: the programs are held together by
sleeping long enough. The probes act on a whole cgroup, so a probe that comes late
or stays too long perturbs something else.

| component | state | operations | meets others through |
|---|---|---|---|
| coordination file | its text, or none | two writers called `write_coordination_file`, neither atomic: *mapping* (`ftruncate`, then a copy into a mapping; failures after `shm_open` unlink the file; demos and mutation drivers) and *truncating* (`open(O_TRUNC)`, then `write`; the accept demo and the instrumented tests) | read by every controller |
| polling controllers, `iago_attack/{read,readlink,epoll_wait,fstat}/iago_attack.py` | `attached`, the live probes | read the file about once a second; attach one by one on the command; detach one by one on anything else; interrupt handler | file, kernel probes |
| demos, `*_demo_iago.c`, `read_iago_attack.c` | where they are in the window | command, sleep (2, 3 or 5 s), one call, "0" (or `exit` on an error) | file, kernel |
| eBPF probe pairs | the hash map `addr_poc` / `addrs_poc`, always key 0 | entry handler stores the caller's buffer; return handler writes there; both look at the cgroup only | memory of the calling process |
| mutation controller, `mutation/mutation.py` | `attached`, `syscall_name`, inotify queue, probes opened so far | on MODIFY: read the file, attach an overriding return probe, or reset the flag on "done" | file through inotify, kernel |
| mutation drivers, `syscalls/*/*_iago.c` | window | `mutation_<name>`, sleep, call, `mutation_done`, sleep, report | file |
| syscall monitor, `syscall_monitor/syscall_monitor.py` | `is_monitoring`, `switch_state`, perf ring | one thread follows the file by inotify, another polls the ring and prints; a tracepoint fills the ring | file, kernel, two threads |
| instrumented tests, `syscalls/*/*.c` | run | marker with the test's name, body, marker "0" | file |
| instrumenter, `syscalls/modify.py`, and its variant `syscalls/accept/modify.py` | `in_function`, `brace_level`, `end_append` | search for the test function's name; one loop over the lines of a C file; write the result over the input | rewrites the corpus |
| input of the fstat demo, `iago_attack/fstat/fstat_create_file.py` | | writes a count and the names | read by the demo |

What makes this hard: the file is read between the two steps of a write; inotify
events arrive before the text they announce and are merged; attaching and detaching
are several kernel calls that a call under test may fall between; every script opens
the same path, and one that starts may truncate what a demo is writing; controllers are
interrupted or die of an exception at any point with probes attached; writers fail
and unlink the file, leaving a watch on an inode with no name; the slot of a probe
pair is shared by all threads; bcc limits the probes of a process; a ring fills;
`is_monitoring` is tested before it is used; a fork returns twice, an exec not at all; braces are
counted without parsing C, and a second run meets the markers of the first; a perturbed size wraps around.
`PROJECT.json` lists these as hazards, each at its line with the properties that
are about it.

The library function `write_coordination_file` of the corpus is not in the
repository as source. The compiled drivers and tests kept in the corpus
show which writer they were linked with: the mutation drivers have the mapping writer
followed by `sleep(3)`, the instrumented tests the truncating writer followed by
`sleep(1)`, and neither sleeps on its error paths. The map marks the steps that rest on
this as external.

## 2. Modules

| module | models | used by |
|---|---|---|
| `CoordinationFile` | contents of the file and what a writer's steps make of them | `PollInjector`, `TwoInjectors`, `SyscallMonitor` |
| `ProbeSwitch` | abstract specification: N probes come in order, go in order, or go all at once | `PollInjector` (implements it), `ProbeSlot` (composed with it) |
| `PollInjector` | one polling controller and its demo, with explicit time | `TwoInjectors`, `InjectedDemo`, `MCPollInjector`, `PollInjectorProofs` |
| `TwoInjectors` | two polling controllers and their demos on the one file: two instances of `PollInjector` | `MCTwoInjectors`, `TwoInjectorsProofs` |
| `IagoScripts` | the four scripts and demos as records | the MC modules |
| `ProbeSlot` | handlers, slot, threads and buffers, on top of `ProbeSwitch` | `InjectedDemo`, `MCProbeSlot`, `ProbeSlotProofs` |
| `InjectedDemo` | a controller, its demo and its handlers together: `PollInjector` with `ProbeSlot` on its probes | `MCInjectedDemo`, `InjectedDemoProofs` |
| `MutationController` | `mutation.py` and its drivers | `MCMutationController`, `MutationControllerProofs` |
| `SyscallMonitor` | both threads of the monitor, the tracepoint and a test | `SyscallMonitorProofs` |
| `Instrumenter` | `modify.py`, run twice, over C files of the modelled kinds of lines | `InstrumenterProofs` |
| `DemoResults` | what the readlink, fstat and read demos report of their result | `DemoResultsProofs` |
| `*Proofs` | TLAPS proofs | |

### PollInjector

| TLA+ | code |
|---|---|
| `file` | text of the file after `strip()`; `Torn` is any text between `ftruncate` and `memcpy` |
| `tpc`, `waited`, `outcome`, `failed` | where the demo's `main` is, how long it slept, what its call met, whether the call itself failed |
| `entered` | the probes that were live when the call entered; a return probe leaves it when it is removed |
| `cpc`, `idx`, `attached` | where the script's loop is, the next attach or detach call of a phase, the Python variable |
| `probes` | what is live in the kernel |
| `age` | time spent in the phase; `stale` time since the file held the command |
| `calm` | history: no interrupt or exit of the controller since the command was written |

`ResizeForCommand`, `CopyCommand`, `ResizeForZero`, `CopyZero` are the two steps of each write;
`CommandWriteFails`, `ZeroWriteFails` their error paths. `PollCommand`, `PollOther`, `PollMissing`
are one read of the file and the branch it leads to; `AttachNext` and `DetachNext` are
one kernel call each; `AttachRaises`, `Interrupt`, `CleanupNext`, `Exit`, `Restart` and
`CreateFile` are the ways a script ends and comes back. A starting script that finds no file opens it for
writing in a second call, which truncates a command written in between; a demo whose mapping
is truncated dies of SIGBUS in its `memcpy` (`CopyFaults`). `OtherWrites` is the rest of the
world: the texts other tests and demos leave while this demo is not running (`Others`), and
the creation of the file by another script, at any moment. `CleanupNext` contains that the fstat
script's interrupt path names a handler `syscall__fstat` that was never attached
(`iago_attack/fstat/iago_attack.py:136`), which raises.

Time is one variable per duration and a `Tick` that may not pass while a phase is
at its bound. `WindowAssumption` says that the demo's sleep is longer than a detach, an
idle poll and an attach in a row: in the worst case the controller is
busy detaching what an earlier text started when the command arrives.

### TwoInjectors

Both sides are instances of `PollInjector` on one variable `file`, each with the other's
texts as its `Others`. The demos run in turn, as a harness runs tests; the two controllers
run at any time, and time passes for both. `EachIsAnInjector` says that either side, seen alone, is a
`PollInjector`: a step of the other side is a stutter or an `OtherWrites`. So what is
proved of `PollInjector` holds of a script with another one beside it. The commands are compared
whole, so that of one script is never taken for that of another. `SideAAssumption` and `SideBAssumption` are the assumptions of
`PollInjector`, once for each script; that the two commands differ is part of them. A padded or cut text
is no command, with one exception: "iago_attack_readlink", when the readlink demo failed to clear it, is
cut by the read demo's `ftruncate` to exactly the read command, before it is written (`BeginsWith`). The checked pair
is therefore read and readlink.

### ProbeSwitch and ProbeSlot

`ProbeSwitch` is what the kernel sees of any polling script: `live`, the attached
probes, and `phase`. `PollInjector` maps its program counter and flag to the phase
(`SwitchPhase`) and implements it (`ImplementsSwitch`). `ProbeSlot` reuses the same
actions to move the probes under the handlers: a call stores its buffer in the
slot if an entry probe of its function is live (`Enter`), is followed by the return
probes of that moment (`follows`) and, when it returns, has whatever the slot points to
overwritten (`Return`). `seen`, `shared` and `gap` remember whether its own entry
handler ran, whether another call of the cgroup began during it, and whether it
began during a detach. The model's threads of the target cgroup share one address
space, as those of a demo do.

### InjectedDemo

`ProbeSlot` moves its probes by the abstract switch; here the polling controller of `PollInjector` moves them, and
the demo's one call is a call of `ProbeSlot`. `DemoEnters` and `DemoReturns` are both at once: the step of
the demo's `main` and what the handlers do at that moment. `DemoGoesOn` are the demo's other steps, which a
thread takes outside calls only; `OtherCalls` are the calls of the program's other threads and of the demo
outside its window; in `ControllerSteps` a return probe that is removed no longer follows any call, and the map
goes with the process. `DemoAssumption` says that the script's hooks are the probes on the function the demo
calls and that one of them is a return probe, which all four scripts meet.

### MutationController

The file holds "mutation_", the first `kept` characters of a name and NUL bytes up to `len`,
because `ftruncate` to the length of the next text cuts or pads what is there and `mutation.py` tests only
for a prefix and passes the rest on. A cut name may spell another system call (`Cut`: "clone3"
is "clone" when cut by one), and a padded one ends at the first NUL as a function
name, but is not equal to "done". `pending` is the one merged MODIFY event, raised by
`ftruncate` and not by the copy; `watched` is false once the file was unlinked: the watch is on the
inode, so the drivers' next file raises no event and the controller, which still runs, is deaf. `live` and
`opened` are the functions with a probe and the probes opened: nothing but the end of the
process removes one. `ChildDone` is the second return of a fork (`syscalls/fork/fork_iago.c:33`),
`DriverDies` also the call that does not return (`syscalls/execveat/execveat_iago.c:60`); a driver may be killed
anywhere in its window. `FailedWrite` is a write whose `shm_open` or `ftruncate` fails; `MapFails` is a failed `mmap`, which
comes after `ftruncate` has already shown the torn text to the controller, and unlinks the file.

Nothing makes the controller prompt: events are handled at any time. `quiet` and `fresh` are
histories: no fault, torn read or exhausted quota touched the window and each write was handled
within the sleep that follows it; the flag was reset when the window began.

### SyscallMonitor

`TakeEvent`, `ReadStart`, `ReadStop`, `ReadSame`, `SetSwitch` are
`file_monitor_and_update`; `Poll` and `PrintEvent` are the test of `is_monitoring`
and the print of `handle_event`; `SysEnter` is the tracepoint. `EarlyReturn` is a test
that leaves its function before the second marker, as `syscalls/getcontext/getcontext01.c:35`
and about 400 other files do. The follower is as late as it likes; `sound` is the history
that the writes of a run succeeded and were each handled within the sleep after them.

### Instrumenter

Each step produces one line of a C file with its real structure (`where`, `depth`) and
feeds it to one turn of the script's loop (`Turn`), so that each marker is known to be at the
place it is meant for or elsewhere. `odd` records what the file has that the script does
not expect. A line opens or closes one brace, or none in sum ("} else {"), or has one brace in a string; a line may stand
between the header and its brace. Lines that open or close more are not covered. `found` is the outcome of the script's first step and of its header expression, which
is the one difference between the two copies of the script. `pass2` is a second run over the output of the
first, one line behind it: it reads the first run's markers as lines.

### DemoResults

One call of one demo and its verdict: "success" is what the demo prints for a perturbed call. The handlers follow the
call or not (`hooked`); `PollInjector` says when. `DataSize` is the fstat demo's
32-bit difference of two pointers, modulo `Word`, over the files `fstat_create_file.py` writes for any
count and names. Of a file only its size matters, and that depends on the names only through their number (`names`) and their
characters together (`text`).

## 3. Runs

| run | what it asks | bounds |
|---|---|---|
| `readlink_window` | does the shortest sleep (2 s) suffice; how long can probes outlive the command; do they go | ticks of 1/4 s; poll 5, attach 1, detach 1; 2 runs of the demo, 2 faults; the texts of the accept demo and of the truncating writer in between |
| `fstat_window` | the same with four probes, the misnamed handler, a demo that exits without clearing; and does the script implement `ProbeSwitch` | poll 6, attach 4, detach 4, sleep 20 |
| `slot_fstat` | whose memory do the handlers change | 4 probes, 2 functions, 3 threads (one foreign), 4 buffers |
| `injected_demo` | does the controller move the probes only as the handlers' model allows; does an undisturbed window end with forged data in the demo's buffer | the read script; ticks of 1/2 s, poll 2, attach 1, detach 1; 2 threads, 2 buffers; 1 run, 1 fault |
| `two_injectors` | does each of two scripts on one file stay what it is alone; does a demo's call meet probes of the other script | read and readlink; ticks of 1/4 s, poll 5, attach 1, detach 1; 1 run and 1 fault a side |
| `mutation_windows` | does a window that nothing disturbs hit, and bring the flag back; are probes bounded by windows; does a set flag stand for a live probe | 4 windows, quota 3, 2 faults, names of 3 lengths, one a prefix of another, one that forks, one unknown to the kernel |
| `mutation_leak` | is a "detached" probe gone | finding, below |
| `monitor_runs` | is a marked body monitored, and the harness after it not; does the follower end on the side of the file; what is printed after a stop; does it stop for good | 3 runs, 3 calls each, ring of 2, 1 fault |
| `monitor_gate` | does `switch_state` gate the tracepoint | finding |
| `instrumenter_layout` | at most one end marker; the expected layout marked at first and last line; a second run repeats the first | all files of up to 10 lines of these kinds |
| `instrumenter_end` | is the end marker at the end | finding |
| `demo_results` | is the verdict right; does the terminator stay in the buffer | up to 3 names with 0 to 100 characters in all, on both sides of the threshold, counts that match them or not, a word of 256 |

Why the bounds are enough. Two runs of a demo are the shortest history in which a run
meets the detach its predecessor caused, which is the worst case for `CalmCallIsHit`;
two faults allow a failed write together with an interrupt, or an interrupt
in each run. In `two_injectors` each demo follows the other, and one failed write a side makes the file
disappear and both scripts create it. Four windows let a window meet probes of earlier names and
reach the quota of 3. Three threads are one call, one that overwrites its slot and one that
must not; two buffers of one thread make the slot stale between its own calls. In
`injected_demo` the second thread's call is what overwrites the demo's slot, and one fault is an interrupt, an exit or a failed write
under the running demo. Ten lines hold a prototype,
a header, and a body with a block and a bare brace. A word of 256 is larger than twice the
threshold of 50, so that a size that wraps and one that does not are told apart as with 2^32. The
proofs of section 5 remove most of these bounds. The phases are bounded at about a quarter of a second per
kernel call, and an idle poll at one and a quarter or one and a half seconds; the code's durations are real
time, so these are assumptions about the machine, and `WindowAssumption` states
exactly what is needed of them. `MCPollInjector` checks, as an assumption, that all four scripts and
demos meet it at these bounds, so that the theorems hold of the read and epoll_wait scripts, too; `MCProbeSlot` checks, as an assumption, that the read and
epoll_wait scripts meet `OrderAssumption`.

Fairness. `PollInjector` assumes weak fairness of `Tick` (time passes), of the steps a
running script takes by itself and of the steps a running demo takes by itself: both
are sequential programs that a scheduler runs, and each sleep ends. Faults, interrupts,
restarts and new runs are never assumed. `SyscallMonitor` assumes weak fairness of each of the
two threads, both of which loop for ever; nothing is assumed of the test.
The other specifications have no fairness and no liveness property.

Deadlock is checked in the `PollInjector`, `TwoInjectors`, `InjectedDemo` and `ProbeSlot` runs. The others may really
stop: a demo ends with its verdict, a driver or test that has used up its windows does nothing more, `inotify.read`
blocks for ever, a script that ended may stay down, and a file has a last line.

Findings, each the violation of one property by what the code does:

* `mutation_leak`, `DetachedMeansGone`: `mutation.py:72` announces "Detaching kretprobe..." and
  line 73 only resets the flag; the probe goes on overriding the call for the cgroup.
* `monitor_gate`, `SwitchGatesSubmission`: the tracepoint tests the pointer returned by
  the lookup of an array element, never null, and never the value the monitor stores.
* `instrumenter_end`, `EndAtFunctionEnd`: the comment says the marker goes to the function's
  end; with the header's brace on the header's line, a prototype or a brace in a string it does not.

Every property of every passing run has a mutant in `PROJECT.json`: a plausible slip in one
mapped definition, kept beside it in its module as `Mutant...`, under which TLC finds the property violated.

## 4. Properties

* `FlagMatchesProbes`: between two phases the flag says which probes are live, all or none.
* `CalmCallIsHit`: an undisturbed window's call meets every handler, entry and return.
* `DisarmLag`: probes outlive the command by at most an attach, a poll and a detach; a script that
  was interrupted and is taking its probes down is exempt.
* `Quiesces`: in the end the probes are gone, or the file still holds a command.
* `ImplementsSwitch`: never two phases mixed, never a phase begun on the remains of another.
* `EachIsAnInjector`: with another script and its demo on the same file, each side behaves as it does alone.
* `Alone`: a demo whose command still stands when its sleep is over calls with no probe of the other
  script live, unless that script is just being interrupted.
* `UndisturbedIsExact`: a call seen by its entry handler, with no other call of the cgroup begun during it, has
  its own buffer changed and no other, although the slot is shared and never cleared.
* `ForeignUntouched`: no buffer of another cgroup is ever changed.
* `MisaimHasCause`: a followed call of the program finds an address other than its own in the slot only if another call of
  the program began while it ran, or if it began during a detach and its entry handler did not run.
* `HandlersAreSound`: under the real controller, with its faults and restarts, the handlers meet nothing that `ProbeSlot` does not
  describe, so the three properties above hold of the whole.
* `CalmCallIsForged`: if the controller ran undisturbed since the command was written and no other call of the program began during the
  demo's, the demo finds forged data in its buffer and no other buffer was touched.
* `QuietWindowHits`, `QuietWindowResyncs`, `OneProbePerWindow`: a quiet window hits; it leaves the flag
  reset whatever it was before; at most one probe is opened per window.
* `FlagHasProbe`: the flag is set before the attach, which may raise; still, a set flag always stands for a live probe on
  the function the controller remembers, because a failed attach ends the process.
* `FollowsFile`, `BodyIsMonitored`, `HarnessIsNotMonitored`, `OneLatePrint`, `StopsForGood`: the monitor
  ends on the side of the file; a marked body is monitored throughout, the harness is not; after a stop one event
  at most is printed, and in the end none.
* `OneEndMarker`, `ExpectedLayoutIsMarked`, `SecondRunRepeats`: one end marker at most, whatever the file; a file
  of the expected layout is marked at the first and last line of its function; a second run doubles the markers and misplaces none.
* `VerdictIsHit`: a demo reports a perturbed call exactly when it was one; for fstat this holds because the
  size left wraps around, and only for files whose count is right and whose names are short.
* `TerminatorInBuffer`: readlink's terminator goes into the buffer, also when the handler hides a failure; the one
  case outside is a failed call that no handler met
  (`iago_attack/readlink/readlink_demo_iago.c:68` is reached with -1).

## 5. Proofs

All proofs are checked by TLAPS without open leaves, for every value of the constants that meets the named assumptions.

`PollInjectorProofs` (any number of probes, any hooks, any durations with
`WindowAssumption`, any number of runs and faults):

* `Invariance`: the inductive invariant, a conjunction of the type invariant and of
  - *phase*: which probes are live at each program counter, `1 .. idx-1` while attaching,
    `idx .. N` while detaching or cleaning up, all or none otherwise. `FlagMatchesProbes` alone
    is not inductive, because it says nothing of the middle of a phase;
  - *lag*: the time since the command left the file is bounded by what the current phase
    and its predecessors may have used, one case per program counter: this sum
    is what `DisarmLag` needs to survive a phase change;
  - *calm*: while the demo sleeps on an intact command, an undisturbed controller is armed,
    or the time slept is bounded by what a detach, a poll and an attach have used so far;
    when the sleep is over that leaves only the armed case, and the call
    enters with every probe live.
* `TypeCorrect`, `FlagIsExact`, `DisarmIsTimely`, `WindowSuffices` follow from it, with any writes of
  others between the runs of the demo and any truncation by a starting script.
* `Implementation`: `Spec => ImplementsSwitch`, one step per action of the controller; the
  steps of the demo and of time are stutters.

`ProbeSlotProofs` (any threads, functions, buffers and probes; `OrderAssumption` for
`MisaimExplained`): the invariant says that, unless the controller is detaching, the
probes before a live one are live; that a thread in a call passed a buffer of its own with no
result in it yet; that the slot points into the target program; and that it points to the
buffer of every followed call that its entry handler saw and no other call interfered with.
`TypeCorrect`, `ForeignSafe` and the action property `UndisturbedExact` follow. `MisaimExplained` has two halves: a followed
call that no entry handler saw began during a detach (`MissedInDetach`, from the order of the probes), and a seen one
that no other call overlapped still has its own address in the slot.

`TwoInjectorsProofs` (any two scripts and demos that each meet the assumptions of `PollInjector`):

* `Composition`: `Spec => EachIsAnInjector`. What a demo and what a controller may do to the file are two lemmas for each side; a
  step of one side is then a step, an `OtherWrites` or a stutter of the other.
* `SidesAreSound`, `SidesAreSwitches`: `PollInjectorProofs` is instantiated once for each side, so that its theorems, with
  `Composition`, give flag, window, lag and switch of either script in the presence of the other.
* `DemosAreAlone`: `Spec => []Alone`. The invariant (`LockstepA`, `LockstepB`) compares two clocks of different sides: while a demo sleeps on its
  intact command, the other controller has been without its own command for at least as long as the demo has slept (or past its cap). Both clocks run
  on the same `TimePasses`, and the demos run in turn, so nobody resets the other side's. When the sleep is over (`SleptA`, `SleptB`) the other
  side's clock is past its own worst case, and its `DisarmLag` leaves no probe of it.

`InjectedDemoProofs` (any script, threads, functions and buffers with `DemoAssumption`):

* `HandlersSound`: `JointSpec => HandlersAreSound`, a refinement with the controller's `SwitchPhase` for the abstract phase. It
  uses the switch steps of `PollInjectorProofs`, and an invariant of its own (`FollowInv`: only live return probes follow
  a call), because the abstract switch drops a return probe from the calls it follows at the moment it goes.
* `CalmIsForged`: `JointSpec => CalmCallIsForged`. `LinkInv` says that the two records of the demo's call agree: what
  `PollInjector` calls `entered` is what `ProbeSlot` has in `follows` and `seen`. With it `WindowSuffices` (every hook met the call) and
  `UndisturbedExact` (such a call has exactly its own buffer changed) combine.

`MutationControllerProofs` (any names, lengths, cuts, quota and bounds):

* *windows*: the probes opened, with one being attached, never exceed the windows, and
  while a name that a detached controller may still attach is in the file, or about to be copied
  there, one window has not been used by any probe. The second part is what makes the
  first inductive: only "done" resets the flag, and the name that follows "done" in the file
  belongs to a later window. `ProbesAreBounded` follows.
* *quiet*: at each place of the driver in a quiet window, the event of the last write is still in
  the queue or in hand, or its effect is there: for the name, the probe is being attached to exactly this name
  or is live (if the flag was reset before), for "done", the flag is reset. A child's
  second "done" only raises an event that changes nothing. `QuietHits` and `QuietResyncs` follow.
* `FlagIsBacked`: `Spec => []FlagHasProbe`, inductive together with the fact that a controller that is down has its flag
  reset: only the end of the process removes probes, and a restarted one begins with the flag reset.

`SyscallMonitorProofs` (any ring, any number of calls, runs and faults; no fairness needed):
*agree*, that every disagreement of the flag with the file has an event in the queue or a read ahead of it;
*sound*, that in a sound run the last write is handled or its event is under way, at each place of the test; *late*, that after a
stop an event is printed only by a listener that had already tested the flag. `TypeCorrect`,
`FollowerAgrees`, `BodyUnderMonitor`, `HarnessOutsideMonitor` and `AtMostOneLatePrint` follow.

`InstrumenterProofs` (files of any length): *core*, the level is off by at most one brace per line read; *end*, `end_append` is
set exactly when the end marker was written; *layout*, in a file with nothing but the expected lines and bare
blocks the script's level is the depth of the function, it is in the function exactly while the file is, the
first start marker is at the top, and the second run is in the state of the first, since a marker is a line that changes no
state. `TypeCorrect`, `AtMostOneEnd`, `ExpectedIsMarked` and `SecondRunAgrees` follow.

`DemoResultsProofs` (any word, address, counts and sizes with `ResultsAssumption`: files smaller than the word and
mappings above it): the invariant says what each demo's result can be at each place. The arithmetic is in lemmas: a difference
between 0 and the word is kept by the cut to 32 bits, a negative one comes out as the word minus something smaller than the file, which
is above the threshold. `VerdictIsRight` and `TerminatorIsInside` follow.

Only model-checked: `Quiesces` and `StopsForGood`, since liveness under fairness is out of the prover's reach. Every invariant and
every action property that a passing run checks is proved, and so are the refinements.

## 6. What is abstracted, and what is not modelled

Abstracted:

* The end of a process removes its probes in one step; the kernel closes them one by one.
* A return probe has an instance for every concurrent call; the limit of concurrent instances is not modelled.
* The three addresses the epoll_wait script stores are one buffer.
* The text written, printed and reported is not modelled beyond what a reader compares.
* A fork's child writes its "done" in one step.
* Tests and demos are run one after the other, as a harness runs them.

Not modelled:

* The path on which the monitor's `read_switch_file` finds no file and returns 0 (`syscall_monitor.py:410`): the writer of the
  monitor's markers truncates its file and never unlinks it.
* The accept controller and demo: `iago_attack/accept/accecpt.c` does not
  compile at this commit (the condition of the `if` between lines 32 and 33 is missing), and it calls `accept`
  right after its command, without the sleep on which the other windows rest. The controller's loop is that of the others;
  its command appears in `readlink_window` as a text of another program.
* The epoll_wait demo's dispatch: with a perturbed event it reads outside its table before it
  looks at the sign of the index, so that its outcome is that of the heap's layout in one build.
* The Linux Test Project corpus (`syscalls/`, about 99% of the repository's lines) is vendored and holds tests of the
  kernel. What this repository added to it is modelled: the markers (`SyscallMonitor`, `Instrumenter`) and
  the windows of the `*_iago.c` drivers (`MutationController`). The bodies of the tests are sequential calls with expected
  results, each different and none with state of this system, so a model of them would say nothing about it; the share
  of the repository's lines that the map covers stays small for this reason.
* `src/vm-based/deploy` is Ansible roles and Makefiles that install a host; `src/vm-based/syscalls` is a
  copy of the corpus.
* `modify.py`'s walk over directories: each file is treated by itself.

## 7. Plan

The order of the work was: the window between a program under test and a polling controller (`PollInjector`), because the
whole system rests on it; the abstraction it promises (`ProbeSwitch`) and the handlers behind it (`ProbeSlot`); the inotify
controllers; the instrumenter; two controllers on one file and the verdicts of the demos; then the proofs, of each module and of the
compositions (`TwoInjectors`, `InjectedDemo`). What this repository wrote itself is modelled, and what a passing run checks
is proved except for the two liveness properties. What could follow is more theorems about what is there:

1. For the monitor, that every event of a body whose ring never fills is printed or still in the ring.
2. For `InjectedDemo`, the converse of `CalmCallIsForged`: a demo whose data is forged had its probes live when it called.
