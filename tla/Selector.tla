-------------------------------- MODULE Selector --------------------------------
(***************************************************************************)
(* The resource selector that an algorithm is given (ResourceSelector).    *)
(* Each algorithm assumes of it what it relies on; Locality has those that *)
(* an option can choose.                                                   *)
(***************************************************************************)

CONSTANT Fit(_, _) \* fit: as many of the machines as asked, or {} if it does not fit
===============================================================================
