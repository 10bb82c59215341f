------------------------ MODULE MCMutationController ------------------------
(* MutationController for TLC: "clone3" begins with "clone", which is as    *)
(* long as "fstat", a name the kernel has no function for; "bpf" is shorter *)
(* than "done".                                                             *)
EXTENDS MutationController, Sequences

MCSyscalls == {"clone3", "clone", "bpf"}
MCUnknown  == {"fstat"}
MCForks    == {"clone3"}
MCLength   == [n \in Texts |-> Len(n)]
MCCut(n, k) == IF SubSeq(n, 1, k) \in Texts THEN SubSeq(n, 1, k) ELSE "cut"
=============================================================================
