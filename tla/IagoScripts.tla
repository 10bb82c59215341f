---------------------------- MODULE IagoScripts -----------------------------
(***************************************************************************)
(* The iago_attack.py scripts and their demos as data: which probes a      *)
(* script attaches, in the order of its calls, and how its demo waits and  *)
(* ends.  PollInjector is instantiated with one of these records.          *)
(*                                                                         *)
(*   probes    the attach calls, in order                                  *)
(*   hooks     those that concern the demo's system call                   *)
(*   returns   those of hooks that run on return                           *)
(*   skips     the return handler leaves failed calls alone                *)
(*   overrides the return handler is bpf_override_return                   *)
(*   raises    detach calls of the interrupt path that name a handler the  *)
(*             probe was not attached with                                 *)
(*   clears    the demo writes "0" also when the call failed               *)
(*   sleeps    seconds between the command and the call                    *)
(***************************************************************************)
EXTENDS Naturals

Entry(f)  == [kind |-> "entry", fn |-> f]
Return(f) == [kind |-> "return", fn |-> f]

ReadScript ==
  [probes   |-> <<Entry("read"),
               Return("read")>>,
   hooks    |-> {1, 2},  returns |-> {2},
   skips    |-> TRUE,    overrides |-> FALSE,  raises |-> {}]
ReadDemo == [command |-> "iago_attack_read", clears |-> TRUE, sleeps |-> 3]

ReadlinkScript ==
  [probes   |-> <<Return("readlink")>>,
   hooks    |-> {1},     returns |-> {1},
   skips    |-> FALSE,   overrides |-> TRUE,   raises |-> {}]
ReadlinkDemo ==
  [command |-> "iago_attack_readlink", clears |-> TRUE, sleeps |-> 2]

EpollWaitScript ==
  [probes   |-> <<Entry("epoll_wait"),
               Return("epoll_wait")>>,
   hooks    |-> {1, 2},  returns |-> {2},
   skips    |-> FALSE,   overrides |-> FALSE,  raises |-> {}]
EpollWaitDemo ==
  [command |-> "iago_attack_epoll_wait", clears |-> FALSE, sleeps |-> 3]

(* fstat(2) is newfstat or newfstatat, by the C library: two probes each.   *)
FstatScript ==
  [probes   |-> <<Entry("newfstatat"),
               Entry("newfstat"),
               Return("newfstatat"),
               Return("newfstat")>>,
   hooks    |-> {2, 4},  returns |-> {4},
   skips    |-> TRUE,    overrides |-> FALSE,  raises |-> {2}]
FstatDemo == [command |-> "iago_attack_fstat", clears |-> FALSE, sleeps |-> 5]
=============================================================================
