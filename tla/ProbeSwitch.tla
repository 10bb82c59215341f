---------------------------- MODULE ProbeSwitch ----------------------------
(***************************************************************************)
(* What a polling controller promises of the kernel: its N probes come one *)
(* by one in the order of the script, go one by one in the same order, and *)
(* go all at once when its process ends.  When and why they come and go is *)
(* left open.  PollInjector implements this; ProbeSlot builds on it.       *)
(***************************************************************************)
EXTENDS Naturals

CONSTANT N   \* number of probes

ASSUME NAssumption == N \in Nat \ {0}

VARIABLES
  live,      \* the probes that are attached
  phase      \* "off", "attach", "on" or "detach"

switch == <<live, phase>>

SwitchInit == live = {} /\ phase = "off"

StartAttach ==
  /\ phase = "off"
  /\ phase' = "attach"
  /\ UNCHANGED live

(* Mutant: the probes come last first.                                      *)
MutantAttachBackwards(i) ==
  /\ phase = "attach"
  /\ live = (i + 1) .. N
  /\ live' = i .. N
  /\ phase' = IF i = 1 THEN "on" ELSE "attach"

(* Mutant: the last attach call is followed by one more.                    *)
MutantAttachPastEnd(i) ==
  /\ phase = "attach"
  /\ live = 1 .. (i - 1)
  /\ live' = 1 .. (IF i = N THEN N + 1 ELSE i)
  /\ phase' = IF i = N THEN "on" ELSE "attach"

(* Probe i comes when those before it are there.                            *)
AttachProbe(i) ==
  /\ phase = "attach"
  /\ live = 1 .. (i - 1)
  /\ live' = 1 .. i
  /\ phase' = IF i = N THEN "on" ELSE "attach"

StartDetach ==
  /\ phase = "on"
  /\ phase' = "detach"
  /\ UNCHANGED live

(* Probe i goes when those before it are gone.                              *)
DetachProbe(i) ==
  /\ phase = "detach"
  /\ live = i .. N
  /\ live' = (i + 1) .. N
  /\ phase' = IF i = N THEN "off" ELSE "detach"

ProcessEnds ==
  /\ live' = {}
  /\ phase' = "off"

Step ==
  \/ StartAttach \/ StartDetach \/ ProcessEnds
  \/ \E i \in 1 .. N : AttachProbe(i) \/ DetachProbe(i)

SwitchSpec == SwitchInit /\ [][Step]_switch
=============================================================================
