--------------------------- MODULE MCPollInjector ---------------------------
(* PollInjector for TLC: one tick is a quarter of a second.                 *)
EXTENDS PollInjector, IagoScripts, Sequences

TicksPerSecond == 4
OneSecond == TicksPerSecond

(* WindowAssumption for all four scripts, at a tick per kernel call and an  *)
(* idle poll of a tick more than a second: what is proved from it holds of  *)
(* the read and epoll_wait scripts too.                                     *)
IdlePoll == OneSecond + 1

ASSUME ScriptsAssumption ==
  \A s \in {<<ReadScript, ReadDemo>>, <<ReadlinkScript, ReadlinkDemo>>,
            <<EpollWaitScript, EpollWaitDemo>>, <<FstatScript, FstatDemo>>} :
    LET calls == Len(s[1].probes)
    IN  calls + IdlePoll + calls < TicksPerSecond * s[2].sleeps

ReadlinkCommand   == ReadlinkDemo.command
ReadlinkN         == Len(ReadlinkScript.probes)
ReadlinkHooks     == ReadlinkScript.hooks
ReadlinkReturns   == ReadlinkScript.returns
ReadlinkSkips     == ReadlinkScript.skips
ReadlinkOverrides == ReadlinkScript.overrides
ReadlinkRaises    == ReadlinkScript.raises
ReadlinkClears    == ReadlinkDemo.clears
ReadlinkWindow    == TicksPerSecond * ReadlinkDemo.sleeps

FstatCommand   == FstatDemo.command
FstatN         == Len(FstatScript.probes)
FstatHooks     == FstatScript.hooks
FstatReturns   == FstatScript.returns
FstatSkips     == FstatScript.skips
FstatOverrides == FstatScript.overrides
FstatRaises    == FstatScript.raises
FstatClears    == FstatDemo.clears
FstatWindow    == TicksPerSecond * FstatDemo.sleeps
=============================================================================
