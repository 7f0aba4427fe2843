-------------------------------- MODULE MCEasyBF --------------------------------
(***************************************************************************)
(* Small instances of EasyBF for TLC.                                      *)
(***************************************************************************)
EXTENDS EasyBF, Locality

\* Walltimes: none, short and long.
SomeWalltimes == {NoWalltime, 1, 3}

\* Workloads in which at most one job is to be rejected: it leaves no trace.
Submitted == {j \in Jobs : status[j] # "future"}

FewRejections == Cardinality({j \in Submitted : ~IsValid(j)}) <= 1
===============================================================================
