--------------------------- MODULE MCInjectedDemo ---------------------------
(* InjectedDemo for TLC: the read script; its demo and a second thread of   *)
(* the same program.  One tick is half a second.                            *)
EXTENDS InjectedDemo, IagoScripts, Sequences

TicksPerSecond == 2
OneSecond      == TicksPerSecond

ReadCommand   == ReadDemo.command
ReadN         == Len(ReadScript.probes)
ReadHooks     == ReadScript.hooks
ReadReturns   == ReadScript.returns
ReadSkips     == ReadScript.skips
ReadOverrides == ReadScript.overrides
ReadRaises    == ReadScript.raises
ReadClears    == ReadDemo.clears
ReadWindow    == TicksPerSecond * ReadDemo.sleeps
ReadKind      == [i \in 1 .. ReadN |-> ReadScript.probes[i].kind]
ReadFn        == [i \in 1 .. ReadN |-> ReadScript.probes[i].fn]
ReadFns       == {ReadFn[i] : i \in 1 .. ReadN}

Tested     == {"main", "helper"}
ReadOwner  == [m |-> "main", h |-> "helper"]
ReadBuffers == DOMAIN ReadOwner
=============================================================================
