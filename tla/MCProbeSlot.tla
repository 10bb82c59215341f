---------------------------- MODULE MCProbeSlot ----------------------------
(* ProbeSlot for TLC: the probes of the fstat script, whose two functions   *)
(* share the slot; two threads of the program under test and one of another *)
(* process.  The main thread passes two buffers in turn.                    *)
EXTENDS ProbeSlot, Sequences

Scripts == INSTANCE IagoScripts

(* The other scripts with a slot attach in the same order, so that what     *)
(* OrderAssumption promises holds of them too.                              *)
ASSUME OtherScriptsAssumption ==
  \A s \in {Scripts!ReadScript, Scripts!EpollWaitScript} :
    \A r \in 1 .. Len(s.probes) : s.probes[r].kind = "return" =>
      \E e \in 1 .. (r - 1) : s.probes[e] = Scripts!Entry(s.probes[r].fn)

FstatN     == Len(Scripts!FstatScript.probes)
FstatKind  == [i \in 1 .. FstatN |-> Scripts!FstatScript.probes[i].kind]
FstatFn    == [i \in 1 .. FstatN |-> Scripts!FstatScript.probes[i].fn]
FstatFns   == {FstatFn[i] : i \in 1 .. FstatN}
FstatSkips == Scripts!FstatScript.skips

Main     == "main"
Helper   == "helper"
Stranger == "stranger"
All      == {Main, Helper, Stranger}
Tested   == {Main, Helper}

FstatBuffers == {"m", "m2", "h", "s"}
FstatOwner   == [b \in FstatBuffers |->
                   CASE b \in {"m", "m2"} -> Main
                     [] b = "h"           -> Helper
                     [] b = "s"           -> Stranger]
=============================================================================
