--------------------------- MODULE MCEnergyMonitoring ---------------------------
(***************************************************************************)
(* Small instances of EnergyMonitoring for TLC.                            *)
(***************************************************************************)
EXTENDS EnergyMonitoring

CONSTANT LastDate \* bound: last date of a descendant of energy_bf, whose calls
                  \* or switches may go on for ever

Option(variant, idleTime, letAwake, onClassical, allowFuture) ==
  [variant |-> variant, idleTime |-> idleTime, letAwake |-> letAwake,
   onClassical |-> onClassical, allowFuture |-> allowFuture]

Base     == Option("energy_bf", 0, 0, FALSE, FALSE)
Dicho    == Option("dicho", 0, 0, FALSE, FALSE)
Monitoring == Option("monitoring", 0, 0, FALSE, FALSE)
Inertial == Option("inertial", 1, 0, TRUE, TRUE)
InertialNow == Option("inertial", 1, 0, TRUE, FALSE)
Idle     == Option("idle", 1, 0, FALSE, TRUE)
Subpart  == Option("subpart", 1, 1, FALSE, TRUE)

Family        == {Base, Dicho, Monitoring, Inertial, InertialNow, Idle, Subpart}
PeriodicCalls == {Inertial, Idle, Subpart}
OnlyBase      == {Base}
OnlySubpart   == {Subpart}

PlusOne(n) == n + 1

Submitted == {j \in Jobs : status[j] # "future"}

\* At most one job is to be rejected, as it leaves no trace.  A descendant of
\* energy_bf is given less time.
Bounded ==
  /\ Cardinality({j \in Submitted : ~IsValid(j)}) <= 1
  /\ options.variant # "energy_bf" => now <= LastDate
===============================================================================
