----------------------------- MODULE ProbeSlot -----------------------------
(***************************************************************************)
(* The handlers of the read, fstat and epoll_wait scripts.  The entry      *)
(* handler of a call stores the address of the caller's buffer in a map,   *)
(* always under key 0; the return handler writes to the address it finds   *)
(* there.  The one slot is shared by all threads and all probed functions, *)
(* is never cleared, and outlives the probes while the controller runs.    *)
(*                                                                         *)
(* Threads of Cgroup belong to the program under test, the others to other *)
(* processes: the handlers leave those alone.                              *)
(***************************************************************************)
EXTENDS ProbeSwitch

CONSTANTS
  Threads, Cgroup,  \* all threads, and those of the target cgroup
  Functions,        \* kernel functions that are probed
  Buffers, Owner,   \* user buffers and the threads that pass them
  None,             \* the slot before its first use
  Kind, Fn,         \* of each probe: "entry" or "return", and its function
  SkipsFailed       \* the return handler leaves failed calls alone

ASSUME SlotAssumption ==
  /\ Cgroup \subseteq Threads
  /\ Owner \in [Buffers -> Threads]
  /\ None \notin Buffers \cup Functions
  /\ Kind \in [1 .. N -> {"entry", "return"}]
  /\ Fn \in [1 .. N -> Functions]
  /\ SkipsFailed \in BOOLEAN

(* In every script the entry probe of a function comes before its return    *)
(* probe.                                                                   *)
ASSUME OrderAssumption ==
  \A r \in 1 .. N : Kind[r] = "return" =>
    \E e \in 1 .. (r - 1) : Kind[e] = "entry" /\ Fn[e] = Fn[r]

VARIABLES
  slot,     \* element 0 of the map addr_poc
  memory,   \* what each buffer holds
  call,     \* of each thread: the function it is in, if any
  buf,      \* the buffer it passed
  follows,  \* the return probes that follow the call
  seen,     \* the entry handler ran for it
  shared,   \* history: another call of the cgroup began during it
  gap       \* history: it began while the controller was detaching

calls == <<call, buf, follows, seen, shared, gap>>
vars  == <<switch, slot, memory, calls>>

Phases == {"off", "attach", "on", "detach"}

TypeOK ==
  /\ live \subseteq 1 .. N
  /\ phase \in Phases
  /\ slot \in Buffers \cup {None}
  /\ memory \in [Buffers -> {"old", "result", "perturbed"}]
  /\ call \in [Threads -> Functions \cup {None}]
  /\ buf \in [Threads -> Buffers \cup {None}]
  /\ follows \in [Threads -> SUBSET (1 .. N)]
  /\ seen \in [Threads -> BOOLEAN]
  /\ shared \in [Threads -> BOOLEAN]
  /\ gap \in [Threads -> BOOLEAN]

Init ==
  /\ SwitchInit
  /\ slot = None
  /\ memory = [b \in Buffers |-> "old"]
  /\ call = [t \in Threads |-> None]
  /\ buf = [t \in Threads |-> None]
  /\ follows = [t \in Threads |-> {}]
  /\ seen = [t \in Threads |-> FALSE]
  /\ shared = [t \in Threads |-> FALSE]
  /\ gap = [t \in Threads |-> FALSE]

InCall(t) == call[t] # None

LiveOf(kind, f) == {i \in live : Kind[i] = kind /\ Fn[i] = f}

-----------------------------------------------------------------------------
(* A thread.                                                                *)

BeginCall(t, f, b) ==
  /\ ~InCall(t)
  /\ Owner[b] = t
  /\ call' = [call EXCEPT ![t] = f]
  /\ buf' = [buf EXCEPT ![t] = b]
  /\ follows' = [follows EXCEPT ![t] = LiveOf("return", f)]
  /\ shared' = [u \in Threads |->
                  u # t /\ InCall(u) /\ (shared[u] \/ t \in Cgroup)]
  /\ gap' = [gap EXCEPT ![t] = phase = "detach"]
  /\ memory' = [memory EXCEPT ![b] = "old"]
  /\ UNCHANGED switch

(* Mutant: the entry handler does not compare the cgroup.                   *)
MutantEnterUngated(t, f, b) ==
  /\ BeginCall(t, f, b)
  /\ IF LiveOf("entry", f) # {}
     THEN slot' = b /\ seen' = [seen EXCEPT ![t] = TRUE]
     ELSE seen' = [seen EXCEPT ![t] = FALSE] /\ UNCHANGED slot

(* The entry handler compares the cgroup and stores the address.            *)
Enter(t, f, b) ==
  /\ BeginCall(t, f, b)
  /\ IF t \in Cgroup /\ LiveOf("entry", f) # {}
     THEN slot' = b /\ seen' = [seen EXCEPT ![t] = TRUE]
     ELSE seen' = [seen EXCEPT ![t] = FALSE] /\ UNCHANGED slot

(* The return handler runs, and finds an address.                           *)
Perturbs(t, ok) ==
  /\ t \in Cgroup
  /\ follows[t] # {}
  /\ slot # None
  /\ SkipsFailed => ok

(* The call writes its result, then the handler overwrites what the slot    *)
(* points to.                                                               *)
Return(t, ok) ==
  /\ InCall(t)
  /\ memory' = [b \in Buffers |->
                  IF Perturbs(t, ok) /\ b = slot THEN "perturbed"
                  ELSE IF ok /\ b = buf[t] THEN "result" ELSE memory[b]]
  /\ call' = [call EXCEPT ![t] = None]
  /\ buf' = [buf EXCEPT ![t] = None]
  /\ follows' = [follows EXCEPT ![t] = {}]
  /\ seen' = [seen EXCEPT ![t] = FALSE]
  /\ shared' = [shared EXCEPT ![t] = FALSE]
  /\ gap' = [gap EXCEPT ![t] = FALSE]
  /\ UNCHANGED <<switch, slot>>

-----------------------------------------------------------------------------
(* The controller: a return probe that goes no longer follows any call.     *)

KeepCalls == UNCHANGED <<slot, memory, calls>>

Attach ==
  /\ StartAttach \/ (\E i \in 1 .. N : AttachProbe(i))
  /\ KeepCalls

Detach ==
  /\ StartDetach \/ (\E i \in 1 .. N : DetachProbe(i))
  /\ follows' = [t \in Threads |-> follows[t] \cap live']
  /\ UNCHANGED <<slot, memory, call, buf, seen, shared, gap>>

(* The map goes with the process.                                           *)
End ==
  /\ ProcessEnds
  /\ slot' = None
  /\ follows' = [t \in Threads |-> {}]
  /\ UNCHANGED <<memory, call, buf, seen, shared, gap>>

Next ==
  \/ \E t \in Threads, f \in Functions, b \in Buffers : Enter(t, f, b)
  \/ \E t \in Threads, ok \in BOOLEAN : Return(t, ok)
  \/ Attach \/ Detach \/ End

Spec == Init /\ [][Next]_vars
-----------------------------------------------------------------------------
(* What must hold.                                                          *)

(* A call whose entry handler ran and during which no other call of the     *)
(* cgroup began has its own buffer changed and no other, although the slot  *)
(* is shared, stale between calls and in reach of other processes' calls.   *)
UndisturbedIsExact ==
  [][\A t \in Threads :
       InCall(t) /\ call'[t] = None /\ seen[t] /\ ~shared[t] =>
         /\ \A b \in Buffers \ {buf[t]} : memory'[b] = memory[b]
         /\ follows[t] # {} => memory'[buf[t]] # "result"]_vars

(* No buffer of another cgroup is ever changed.                             *)
ForeignUntouched ==
  \A b \in Buffers : memory[b] = "perturbed" => Owner[b] \in Cgroup

(* A return handler that will run finds another address than its own call's *)
(* for one of two reasons only: another call of the program began during    *)
(* this one and took the slot over, or the entry handler missed the call,   *)
(* which happens only to a call that begins during a detach, where the      *)
(* entry probe goes first.                                                  *)
MisaimHasCause ==
  \A t \in Cgroup :
    InCall(t) /\ follows[t] # {} /\ slot # buf[t] =>
      shared[t] \/ (gap[t] /\ ~seen[t])
=============================================================================
