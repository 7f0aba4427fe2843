----------------------------- MODULE MCEasyBFFast -----------------------------
(***************************************************************************)
(* Small instances of EasyBFFast for TLC.                                  *)
(***************************************************************************)
EXTENDS EasyBFFast, Locality

\* Walltimes: none, short and long.
SomeWalltimes == {NoWalltime, 1, 3}
TwoWalltimes  == {1, 3}
===============================================================================
