--------------------------- MODULE MCTwoInjectors ---------------------------
(* The read and the readlink scripts together: the command of one begins    *)
(* with that of the other.  One tick is a quarter of a second.              *)
EXTENDS TwoInjectors, IagoScripts
=============================================================================
