-------------------------- MODULE ProbeSlotProofs --------------------------
(***************************************************************************)
(* Proofs about ProbeSlot, for any threads, functions and buffers and any  *)
(* script that attaches the entry probe of a function before its return    *)
(* probe.                                                                  *)
(***************************************************************************)
EXTENDS ProbeSlot, TLAPS

(* Except while the controller detaches, the probes before a live one live. *)
EarlierLive ==
  phase # "detach" => \A r \in live : \A e \in 1 .. (r - 1) : e \in live

(* A thread in a call passed a buffer of its own, which has no result yet.  *)
CallInv ==
  \A t \in Threads :
    InCall(t) => /\ buf[t] \in Buffers
                 /\ Owner[buf[t]] = t
                 /\ memory[buf[t]] # "result"

(* The slot points to the target program; to the buffer of a call that the  *)
(* entry handler saw and no other call of the program interfered with.      *)
SlotOwned == slot # None => Owner[slot] \in Cgroup
OwnSlot ==
  \A t \in Threads :
    InCall(t) /\ seen[t] /\ follows[t] # {} =>
      t \in Cgroup /\ (~shared[t] => slot = buf[t])

(* The entry handler misses a followed call only during a detach.           *)
MissedInDetach ==
  \A t \in Cgroup :
    InCall(t) /\ follows[t] # {} /\ ~seen[t] => gap[t]

IInv ==
  /\ TypeOK
  /\ EarlierLive
  /\ CallInv
  /\ SlotOwned
  /\ OwnSlot
  /\ ForeignUntouched
  /\ MissedInDetach
-----------------------------------------------------------------------------
USE DEF switch, calls, Phases, InCall

LEMMA Probe == N \in Nat \ {0} /\ 1 .. N \subseteq Nat
  BY NAssumption

LEMMA Buffer ==
  /\ None \notin Buffers
  /\ \A b \in Buffers : Owner[b] \in Threads
  /\ Cgroup \subseteq Threads
  BY SlotAssumption

(* The steps of the controller change the probes and the calls they follow. *)
LEMMA SwitchType ==
  ASSUME live \subseteq 1 .. N, phase \in Phases,
         Step \/ UNCHANGED switch
  PROVE  live' \subseteq 1 .. N /\ phase' \in Phases
<1> USE Probe
<1>1. CASE StartAttach \/ StartDetach \/ ProcessEnds \/ UNCHANGED switch
  BY <1>1 DEF StartAttach, StartDetach, ProcessEnds
<1>2. ASSUME NEW i \in 1 .. N, AttachProbe(i) \/ DetachProbe(i)
      PROVE  live' \subseteq 1 .. N /\ phase' \in Phases
  BY <1>2 DEF AttachProbe, DetachProbe
<1> QED BY <1>1, <1>2 DEF Step

LEMMA ControllerFrame ==
  ASSUME Attach \/ Detach \/ End
  PROVE  /\ Step
         /\ UNCHANGED <<memory, call, buf, seen, shared, gap>>
         /\ slot' \in {slot, None}
         /\ follows' = follows \/ follows' = [t \in Threads |-> follows[t] \cap live']
            \/ follows' = [t \in Threads |-> {}]
         /\ slot' # slot => follows' = [t \in Threads |-> {}]
  BY DEF Attach, Detach, End, KeepCalls, Step

(* Every variable keeps its type.                                           *)
LEMMA TypeStep == TypeOK /\ [Next]_vars => TypeOK'
<1> SUFFICES ASSUME TypeOK, [Next]_vars PROVE TypeOK'
  OBVIOUS
<1> USE Buffer DEF TypeOK
<1>1. ASSUME NEW t \in Threads, NEW f \in Functions, NEW b \in Buffers,
             Enter(t, f, b)
      PROVE  TypeOK'
  <2>1. BeginCall(t, f, b)
    BY <1>1 DEF Enter
  <2>2. live' \subseteq 1 .. N /\ phase' \in Phases
    BY <2>1 DEF BeginCall
  <2>3. memory' \in [Buffers -> {"old", "result", "perturbed"}]
    BY <2>1 DEF BeginCall
  <2>4. call' \in [Threads -> Functions \cup {None}]
    BY <2>1 DEF BeginCall
  <2>5. buf' \in [Threads -> Buffers \cup {None}]
    BY <2>1 DEF BeginCall
  <2>6. follows' \in [Threads -> SUBSET (1 .. N)]
    BY <2>1 DEF BeginCall, LiveOf
  <2>7. shared' \in [Threads -> BOOLEAN] /\ gap' \in [Threads -> BOOLEAN]
    BY <2>1 DEF BeginCall
  <2>8. slot' \in Buffers \cup {None} /\ seen' \in [Threads -> BOOLEAN]
    BY <1>1 DEF Enter
  <2> QED BY <2>2, <2>3, <2>4, <2>5, <2>6, <2>7, <2>8
<1>2. ASSUME NEW t \in Threads, NEW ok \in BOOLEAN, Return(t, ok)
      PROVE  TypeOK'
  <2>1. UNCHANGED <<live, phase, slot>>
    BY <1>2 DEF Return
  <2>2. memory' \in [Buffers -> {"old", "result", "perturbed"}]
    BY <1>2 DEF Return
  <2>3. /\ call' \in [Threads -> Functions \cup {None}]
        /\ buf' \in [Threads -> Buffers \cup {None}]
        /\ follows' \in [Threads -> SUBSET (1 .. N)]
    BY <1>2 DEF Return
  <2>4. /\ seen' \in [Threads -> BOOLEAN]
        /\ shared' \in [Threads -> BOOLEAN]
        /\ gap' \in [Threads -> BOOLEAN]
    BY <1>2 DEF Return
  <2> QED BY <2>1, <2>2, <2>3, <2>4
<1>3. CASE Attach \/ Detach \/ End
  <2>1. live' \subseteq 1 .. N /\ phase' \in Phases
    BY <1>3, ControllerFrame, SwitchType
  <2>2. follows' \in [Threads -> SUBSET (1 .. N)]
    BY <1>3, ControllerFrame
  <2> QED BY <1>3, <2>1, <2>2, ControllerFrame
<1>4. CASE UNCHANGED vars
  BY <1>4 DEF vars
<1> QED BY <1>1, <1>2, <1>3, <1>4 DEF Next

(* Probes come in order and, but for a detach, go all at once.              *)
LEMMA EarlierStep == TypeOK /\ EarlierLive /\ [Next]_vars => EarlierLive'
<1> SUFFICES ASSUME TypeOK, EarlierLive, [Next]_vars PROVE EarlierLive'
  OBVIOUS
<1> USE Probe DEF EarlierLive
<1>1. CASE UNCHANGED switch
  BY <1>1
<1>2. CASE StartAttach \/ StartDetach \/ ProcessEnds
  BY <1>2 DEF StartAttach, StartDetach, ProcessEnds
<1>3. ASSUME NEW i \in 1 .. N, AttachProbe(i)
      PROVE  EarlierLive'
  <2>1. live' = 1 .. i
    BY <1>3 DEF AttachProbe
  <2> QED BY <2>1
<1>4. ASSUME NEW i \in 1 .. N, DetachProbe(i)
      PROVE  EarlierLive'
  <2>1. CASE i = N
    <3>1. live' = (N + 1) .. N BY <1>4, <2>1 DEF DetachProbe
    <3>2. live' = {} BY <3>1
    <3> QED BY <3>2
  <2>2. CASE i # N
    BY <1>4, <2>2 DEF DetachProbe
  <2> QED BY <2>1, <2>2
<1>5. UNCHANGED switch \/ Step
  <2>1. CASE Attach \/ Detach \/ End
    BY <2>1, ControllerFrame
  <2>2. CASE UNCHANGED vars
    BY <2>2 DEF vars
  <2> QED BY <2>1, <2>2 DEF Next, Enter, BeginCall, Return
<1> QED BY <1>1, <1>2, <1>3, <1>4, <1>5 DEF Step

(* Only the caller's own return puts a result into its buffer.              *)
LEMMA CallStep == TypeOK /\ CallInv /\ [Next]_vars => CallInv'
<1> SUFFICES ASSUME TypeOK, CallInv, [Next]_vars,
                    NEW u \in Threads, InCall(u)'
             PROVE  (/\ buf[u] \in Buffers
                     /\ Owner[buf[u]] = u
                     /\ memory[buf[u]] # "result")'
  BY DEF CallInv
<1> USE Buffer DEF TypeOK, CallInv
<1>1. ASSUME NEW t \in Threads, NEW f \in Functions, NEW b \in Buffers,
             Enter(t, f, b)
      PROVE  (/\ buf[u] \in Buffers
              /\ Owner[buf[u]] = u
              /\ memory[buf[u]] # "result")'
  <2>1. BeginCall(t, f, b)
    BY <1>1 DEF Enter
  <2>2. CASE u = t
    BY <2>1, <2>2 DEF BeginCall
  <2>3. CASE u # t
    BY <2>1, <2>3 DEF BeginCall
  <2> QED BY <2>2, <2>3
<1>2. ASSUME NEW t \in Threads, NEW ok \in BOOLEAN, Return(t, ok)
      PROVE  (/\ buf[u] \in Buffers
              /\ Owner[buf[u]] = u
              /\ memory[buf[u]] # "result")'
  <2>1. u # t /\ InCall(u) /\ InCall(t)
    BY <1>2 DEF Return
  <2>2. buf'[u] = buf[u] /\ buf[u] # buf[t]
    BY <1>2, <2>1 DEF Return
  <2>3. memory'[buf[u]] \in {memory[buf[u]], "perturbed"}
    BY <1>2, <2>1, <2>2 DEF Return
  <2> QED BY <2>1, <2>2, <2>3
<1>3. CASE Attach \/ Detach \/ End
  BY <1>3, ControllerFrame
<1>4. CASE UNCHANGED vars
  BY <1>4 DEF vars
<1> QED BY <1>1, <1>2, <1>3, <1>4 DEF Next

(* The slot is the caller's until another call of the program begins.       *)
LEMMA SlotStep ==
  TypeOK /\ SlotOwned /\ OwnSlot /\ [Next]_vars => SlotOwned' /\ OwnSlot'
<1> SUFFICES ASSUME TypeOK, SlotOwned, OwnSlot, [Next]_vars
             PROVE  SlotOwned' /\ OwnSlot'
  OBVIOUS
<1> USE Buffer DEF TypeOK
<1>1. ASSUME NEW t \in Threads, NEW f \in Functions, NEW b \in Buffers,
             Enter(t, f, b)
      PROVE  SlotOwned' /\ OwnSlot'
  <2>1. BeginCall(t, f, b)
    BY <1>1 DEF Enter
  <2>2. SlotOwned'
    BY <1>1, <2>1 DEF Enter, BeginCall, SlotOwned
  <2>3. ASSUME NEW u \in Threads,
               InCall(u)', seen'[u], follows'[u] # {}
        PROVE  u \in Cgroup /\ (~shared'[u] => slot' = buf'[u])
    <3>1. CASE u = t
      BY <1>1, <2>1, <2>3, <3>1 DEF Enter, BeginCall
    <3>2. CASE u # t
      <4>1. InCall(u) /\ seen[u] /\ follows[u] # {}
        BY <1>1, <2>1, <2>3, <3>2 DEF Enter, BeginCall
      <4>2. u \in Cgroup /\ buf'[u] = buf[u]
        BY <2>1, <3>2, <4>1 DEF OwnSlot, BeginCall
      <4>3. ASSUME ~shared'[u] PROVE ~shared[u] /\ slot' = slot
        BY <1>1, <2>1, <3>2, <4>1, <4>3 DEF Enter, BeginCall
      <4> QED BY <4>1, <4>2, <4>3 DEF OwnSlot
    <3> QED BY <3>1, <3>2
  <2> QED BY <2>2, <2>3 DEF OwnSlot
<1>2. ASSUME NEW t \in Threads, NEW ok \in BOOLEAN, Return(t, ok)
      PROVE  SlotOwned' /\ OwnSlot'
  <2>1. slot' = slot
    BY <1>2 DEF Return
  <2>2. ASSUME NEW u \in Threads, InCall(u)'
        PROVE  /\ InCall(u) /\ seen'[u] = seen[u] /\ shared'[u] = shared[u]
               /\ buf'[u] = buf[u] /\ follows'[u] = follows[u]
    BY <1>2, <2>2 DEF Return
  <2> QED BY <2>1, <2>2 DEF SlotOwned, OwnSlot
<1>3. CASE Attach \/ Detach \/ End
  <2>1. UNCHANGED <<call, buf, seen, shared>> /\ slot' \in {slot, None}
    BY <1>3, ControllerFrame
  <2>2. SlotOwned'
    BY <2>1 DEF SlotOwned
  <2>3. ASSUME NEW u \in Threads, follows'[u] # {}
        PROVE  slot' = slot /\ follows[u] # {}
    BY <1>3, <2>3, ControllerFrame
  <2> QED BY <2>1, <2>2, <2>3 DEF OwnSlot
<1>4. CASE UNCHANGED vars
  BY <1>4 DEF vars, SlotOwned, OwnSlot
<1> QED BY <1>1, <1>2, <1>3, <1>4 DEF Next

(* The return handler writes where the slot points to.                      *)
LEMMA ForeignStep ==
  TypeOK /\ SlotOwned /\ ForeignUntouched /\ [Next]_vars => ForeignUntouched'
<1> SUFFICES ASSUME TypeOK, SlotOwned, ForeignUntouched, [Next]_vars,
                    NEW c \in Buffers, memory'[c] = "perturbed"
             PROVE  Owner[c] \in Cgroup
  BY DEF ForeignUntouched
<1> USE DEF TypeOK, ForeignUntouched
<1>1. ASSUME NEW t \in Threads, NEW f \in Functions, NEW b \in Buffers,
             Enter(t, f, b)
      PROVE  Owner[c] \in Cgroup
  <2>1. memory[c] = "perturbed"
    BY <1>1 DEF Enter, BeginCall
  <2> QED BY <2>1
<1>2. ASSUME NEW t \in Threads, NEW ok \in BOOLEAN, Return(t, ok)
      PROVE  Owner[c] \in Cgroup
  <2>1. (Perturbs(t, ok) /\ c = slot) \/ memory[c] = "perturbed"
    BY <1>2 DEF Return
  <2> QED BY <2>1 DEF Perturbs, SlotOwned
<1>3. CASE Attach \/ Detach \/ End
  BY <1>3, ControllerFrame
<1>4. CASE UNCHANGED vars
  BY <1>4 DEF vars
<1> QED BY <1>1, <1>2, <1>3, <1>4 DEF Next

(* Where a return probe is live the entry probe is, but for a detach.       *)
LEMMA EntryLive ==
  ASSUME TypeOK, EarlierLive, phase # "detach",
         NEW f \in Functions, LiveOf("return", f) # {}
  PROVE  LiveOf("entry", f) # {}
<1>1. PICK r \in live : Kind[r] = "return" /\ Fn[r] = f
  BY DEF LiveOf
<1>2. PICK e \in 1 .. (r - 1) : Kind[e] = "entry" /\ Fn[e] = Fn[r]
  BY <1>1, OrderAssumption DEF TypeOK
<1>3. e \in live
  BY <1>1, <1>2 DEF EarlierLive
<1> QED BY <1>1, <1>2, <1>3 DEF LiveOf

LEMMA MissedStep ==
  TypeOK /\ EarlierLive /\ MissedInDetach /\ [Next]_vars
    => MissedInDetach'
<1> SUFFICES ASSUME TypeOK, EarlierLive, MissedInDetach, [Next]_vars,
                    NEW u \in Cgroup,
                    InCall(u)', follows'[u] # {}, ~seen'[u]
             PROVE  gap'[u]
  BY DEF MissedInDetach
<1> USE Buffer DEF TypeOK, MissedInDetach
<1>1. ASSUME NEW t \in Threads, NEW f \in Functions, NEW b \in Buffers,
             Enter(t, f, b)
      PROVE  gap'[u]
  <2>1. BeginCall(t, f, b)
    BY <1>1 DEF Enter
  <2>2. CASE u = t
    <3>1. LiveOf("entry", f) = {}
      BY <1>1, <2>2 DEF Enter
    <3>2. LiveOf("return", f) # {}
      BY <2>1, <2>2 DEF BeginCall
    <3>3. phase = "detach"
      BY <3>1, <3>2, EntryLive
    <3> QED BY <2>1, <2>2, <3>3 DEF BeginCall
  <2>3. CASE u # t
    BY <1>1, <2>1, <2>3 DEF Enter, BeginCall
  <2> QED BY <2>2, <2>3
<1>2. ASSUME NEW t \in Threads, NEW ok \in BOOLEAN, Return(t, ok)
      PROVE  gap'[u]
  BY <1>2 DEF Return
<1>3. CASE Attach \/ Detach \/ End
  BY <1>3, ControllerFrame
<1>4. CASE UNCHANGED vars
  BY <1>4 DEF vars
<1> QED BY <1>1, <1>2, <1>3, <1>4 DEF Next

LEMMA InitIInv == Init => IInv
  BY Buffer DEF Init, SwitchInit, IInv, TypeOK, EarlierLive, CallInv, SlotOwned,
     OwnSlot, ForeignUntouched, MissedInDetach

LEMMA InvStep == IInv /\ [Next]_vars => IInv'
  BY TypeStep, EarlierStep, CallStep, SlotStep, ForeignStep, MissedStep DEF IInv

THEOREM Invariance == Spec => []IInv
  BY InitIInv, InvStep, PTL DEF Spec

-----------------------------------------------------------------------------
(* Every variable keeps its type.                                           *)
THEOREM TypeCorrect == Spec => []TypeOK
<1>1. IInv => TypeOK BY DEF IInv
<1> QED BY Invariance, <1>1, PTL

(* No other process has its memory changed, whatever it calls and whenever. *)
THEOREM ForeignSafe == Spec => []ForeignUntouched
<1>1. IInv => ForeignUntouched BY DEF IInv
<1> QED BY Invariance, <1>1, PTL

(* A handler is misaimed only if a later call of the program took the slot  *)
(* over or its own call began, unseen, during a detach.                     *)
THEOREM MisaimExplained == Spec => []MisaimHasCause
<1>1. IInv => MisaimHasCause
  <2> SUFFICES ASSUME IInv, NEW t \in Cgroup,
                      InCall(t), follows[t] # {}, slot # buf[t], ~shared[t]
               PROVE  gap[t] /\ ~seen[t]
    BY DEF MisaimHasCause
  <2>1. ~seen[t] BY Buffer DEF IInv, OwnSlot
  <2> QED BY <2>1 DEF IInv, MissedInDetach
<1> QED BY Invariance, <1>1, PTL

(* A call no other call of the program overlaps gets its own buffer changed *)
(* and no other.                                                            *)
THEOREM UndisturbedExact == Spec => UndisturbedIsExact
<1> DEFINE Exact ==
      \A t \in Threads :
        InCall(t) /\ call'[t] = None /\ seen[t] /\ ~shared[t] =>
          /\ \A b \in Buffers \ {buf[t]} : memory'[b] = memory[b]
          /\ follows[t] # {} => memory'[buf[t]] # "result"
<1>1. IInv /\ [Next]_vars => [Exact]_vars
  <2> SUFFICES ASSUME IInv, Next,
                      NEW t \in Threads, InCall(t), call'[t] = None,
                      seen[t], ~shared[t]
               PROVE  /\ \A b \in Buffers \ {buf[t]} : memory'[b] = memory[b]
                      /\ follows[t] # {} => memory'[buf[t]] # "result"
    OBVIOUS
  <2> USE Buffer DEF IInv, TypeOK
  <2>1. CASE Attach \/ Detach \/ End
    BY <2>1, ControllerFrame
  <2>2. ASSUME NEW u \in Threads, NEW f \in Functions, NEW b \in Buffers,
               Enter(u, f, b)
        PROVE  FALSE
    BY <2>2 DEF Enter, BeginCall
  <2>3. ASSUME NEW u \in Threads, NEW ok \in BOOLEAN, Return(u, ok)
        PROVE  /\ \A b \in Buffers \ {buf[t]} : memory'[b] = memory[b]
               /\ follows[t] # {} => memory'[buf[t]] # "result"
    <3>1. u = t
      BY <2>3 DEF Return
    <3>2. buf[t] \in Buffers /\ memory[buf[t]] # "result"
      BY DEF CallInv
    <3>3. follows[t] # {} => t \in Cgroup /\ slot = buf[t]
      BY DEF OwnSlot
    <3>4. ASSUME NEW b \in Buffers \ {buf[t]} PROVE memory'[b] = memory[b]
      BY <2>3, <3>1, <3>3 DEF Return, Perturbs
    <3>5. ASSUME follows[t] # {} PROVE memory'[buf[t]] # "result"
      BY <2>3, <3>1, <3>2, <3>3, <3>5, SlotAssumption DEF Return, Perturbs
    <3> QED BY <3>4, <3>5
  <2> QED BY <2>1, <2>2, <2>3 DEF Next
<1> QED BY Invariance, <1>1, PTL DEF Spec, UndisturbedIsExact
=============================================================================
