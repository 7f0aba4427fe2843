------------------------------ MODULE MCVariants ------------------------------
(***************************************************************************)
(* Small instances of Variants for TLC.                                    *)
(***************************************************************************)
EXTENDS Variants, Locality

\* The algorithms with most interleavings have no job to reject; the others have.
FewRejections ==
  variant \in {"filler", "sleeper", "submitter"} =>
    \A j \in Jobs : size[j] <= NbMachines

\* The last outage begins in the message that tells the end of the one before.
LastOutageFollows ==
  \A m \in down' \ down : budget'.outages = 0 =>
    \E k \in DOMAIN inbox : inbox[k].type = "AVAILABLE"

SomeKillPlans ==
  {[kills |-> 0, delay |-> 0], [kills |-> 1, delay |-> 1],
   [kills |-> 2, delay |-> 1]}

SomeCrashPlans ==
  {[onStart |-> s, onEnd |-> ~s, onCall |-> 0] : s \in BOOLEAN}
  \cup {[onStart |-> FALSE, onEnd |-> FALSE, onCall |-> 2]}

SomeFillPlans ==
  {[fraction |-> 100, metadata |-> TRUE], [fraction |-> 50, metadata |-> FALSE]}

SomeSubmissionPlans ==
  {[acknowledged |-> a, increase |-> i, again |-> a, separate |-> i,
    metadata |-> a] : a, i \in BOOLEAN}
===============================================================================
