------------------------------- MODULE Locality -------------------------------
(***************************************************************************)
(* The resource selectors of src/src/locality.cpp as functions of the set  *)
(* of candidate machines: which machines a job of n resources gets, or     *)
(* NoFit when it does not fit.  IntervalSet (an external library) is a set *)
(* of machine numbers; left(n) takes the n lowest.                         *)
(***************************************************************************)
EXTENDS Integers, FiniteSets, FiniteSetsExt

NoFit == {}

\* IntervalSet::left.
LeftMost(S, n) == {m \in S : Cardinality({k \in S : k < m}) < n}

\* BasicResourceSelector::fit.
BasicFit(S, n) ==
  IF n <= Cardinality(S) THEN LeftMost(S, n) ELSE NoFit

\* ContiguousResourceSelector::fit: the left part of the first interval that
\* is long enough.
ContiguousFit(S, n) ==
  LET starts == {m \in S : m .. m + n - 1 \subseteq S}
  IN  IF starts = {} THEN NoFit ELSE Min(starts) .. Min(starts) + n - 1

\* BasicResourceSelector::select_resources_to_awaken_to_make_job_fit.
BasicToAwaken(available, awakable, n) ==
  LeftMost(awakable, n - Cardinality(available))

\* LimitedRangeResourceSelector::fit, for the given range.
LimitedRangeFit(range, S, n) == BasicFit(S \cap range, n)
===============================================================================
