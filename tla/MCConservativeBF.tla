--------------------------- MODULE MCConservativeBF ---------------------------
(***************************************************************************)
(* Small instances of ConservativeBF for TLC.                              *)
(***************************************************************************)
EXTENDS ConservativeBF, Locality

\* Walltimes: none, short and long.
SomeWalltimes == {NoWalltime, 1, 3}

\* Identifiers in the reverse of the order of submission.
ReverseRank == [j \in Jobs |-> NbJobs - j]

\* One potential job.
OneQuery == {[nb |-> 1, walltime |-> 1]}

\* Four valid jobs, or two and one to be rejected, or two and one query.  Of
\* four jobs, two request one machine and at least two are short.
Submitted == {j \in Jobs : status[j] # "future"}
Rejected  == {j \in Submitted : ~IsValid(j)}
Asked     == asked # <<>> \/ answers # {}

FewExceptions ==
  /\ Rejected # {} => Cardinality(Rejected) = 1 /\ Cardinality(Submitted) <= 3
  /\ Asked => Rejected = {} /\ Cardinality(Submitted) <= 2
  /\ Cardinality(Submitted) = 4 =>
       /\ Cardinality({j \in Submitted : res[j] = 1}) = 2
       /\ Cardinality({j \in Submitted : walltime[j] = 1}) >= 2
===============================================================================
