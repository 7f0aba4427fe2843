----------------------------- MODULE EnergyDichotomy -----------------------------
(***************************************************************************)
(* energy_bf_dicho (src/src/algo/energy_bf_dicho.cpp): energy_bf, but the  *)
(* number of machines to sedate, or to awaken, is found by dichotomy.      *)
(* Every number tried gives a plan; the plan carried out is the best of    *)
(* those that respect a bound on the mean slowdown.                        *)
(*                                                                         *)
(* Slowdown and energy are sums over the plan, compared to choose one: the *)
(* outcome of the comparisons is abstracted to a choice among the plans.   *)
(***************************************************************************)
EXTENDS EnergyBF, Locality

\* The numbers that a dichotomy on 1 .. n may try; a single number left is not.
Tried(n) ==
  LET Between[lo \in 1 .. n + 1, hi \in 0 .. n] ==
        LET mid == (lo + hi) \div 2
        IN  IF lo < hi
            THEN {mid} \cup Between[lo, mid - 1] \cup Between[mid + 1, hi]
            ELSE {}
  IN  Between[1, n]

AwakenAtTheEarliest(p, m) == AwakenMachine(p, m, EarliestMomentToAwaken(p, {m}))

\* The plans compared: the online schedule with the jobs of the queue, and the
\* same with machines of the first slice sedated or awakened before.
PlansSedating ==
  LET sedatable == profile[1].available
  IN  {PutJobs(SedateAll(profile, LeftMost(sedatable, n), 1)) :
         n \in Tried(Cardinality(sedatable))}

PlansAwakening ==
  LET awakable == PotentiallySleeping(profile[1])
  IN  {PutJobs(FoldLeft(AwakenAtTheEarliest, profile, InOrder(LeftMost(awakable, n)))) :
         n \in Tried(Cardinality(awakable))}

\* should_sedate_machines: always, if no job has a slowdown.
MaySedateOnly ==
  queue = <<>> /\ \A j \in Jobs : ~ContainsJob(profile, j)

\* make_decisions, from "Let's compute global informations" on.
PlanByDichotomy ==
  /\ pc = "plan"
  /\ plan' \in {PutJobs(profile)} \cup PlansSedating
                 \cup (IF MaySedateOnly THEN {} ELSE PlansAwakening)
  /\ pc' = "switch"
  /\ UNCHANGED <<worldVars, jobVars, ended, released, powerVars, profile, queue,
                 machineSets, nbCompleted, nbCalls, didSomething>>
===============================================================================
