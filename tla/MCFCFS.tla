-------------------------------- MODULE MCFCFS --------------------------------
(***************************************************************************)
(* Small instances of FCFS for TLC; the configuration picks the selector.  *)
(***************************************************************************)
EXTENDS FCFS, Locality

\* Walltimes: none and short.
SomeWalltimes == {NoWalltime, 1}
===============================================================================
