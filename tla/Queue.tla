--------------------------------- MODULE Queue ---------------------------------
(***************************************************************************)
(* The queue of waiting jobs and its eight orders (src/src/queue.cpp).  An *)
(* element is a job with the release date that append_job gives it, which  *)
(* is the date of update_info and not the one of the submission.  A job's  *)
(* size and walltime are looked up in the functions size and walltime; the *)
(* identifiers that break ties are the numbers of the jobs.                *)
(***************************************************************************)
EXTENDS Integers, Sequences, FiniteSets

QueueOrders == {"fcfs", "lcfs", "desc_bounded_slowdown", "desc_slowdown",
                "asc_size", "desc_size", "asc_walltime", "desc_walltime"}

\* Does a come before b?  A smaller key is served first; ties are broken by
\* identifier.
ByKey(ka, kb, a, b) == ka < kb \/ (ka = kb /\ a.job < b.job)

FCFSOrder(a, b) == ByKey(a.release, b.release, a, b)
LCFSOrder(a, b) == ByKey(-a.release, -b.release, a, b)

\* SortableJob::update_slowdown; the bounded slowdown divides it by the same
\* positive constant for every job, which changes no comparison.
Slowdown(date, a) == date - a.release
DescendingSlowdownOrder(date, a, b) ==
  ByKey(-Slowdown(date, a), -Slowdown(date, b), a, b)
DescendingBoundedSlowdownOrder(date, a, b) ==
  DescendingSlowdownOrder(date, a, b)

AscendingSizeOrder(size, a, b)  == ByKey(size[a.job], size[b.job], a, b)
DescendingSizeOrder(size, a, b) == ByKey(-size[a.job], -size[b.job], a, b)

AscendingWalltimeOrder(walltime, a, b) ==
  ByKey(walltime[a.job], walltime[b.job], a, b)
DescendingWalltimeOrder(walltime, a, b) ==
  ByKey(-walltime[a.job], -walltime[b.job], a, b)

Precedes(order, size, walltime, date, a, b) ==
  CASE order = "fcfs"          -> FCFSOrder(a, b)
    [] order = "lcfs"          -> LCFSOrder(a, b)
    [] order = "desc_slowdown" -> DescendingSlowdownOrder(date, a, b)
    [] order = "desc_bounded_slowdown" ->
                              DescendingBoundedSlowdownOrder(date, a, b)
    [] order = "asc_size"      -> AscendingSizeOrder(size, a, b)
    [] order = "desc_size"     -> DescendingSizeOrder(size, a, b)
    [] order = "asc_walltime"  -> AscendingWalltimeOrder(walltime, a, b)
    [] order = "desc_walltime" -> DescendingWalltimeOrder(walltime, a, b)

\* sort_queue: the keys are refreshed with the date, then the list is sorted:
\* it is arranged so that no element precedes one that is before it.
Arrangements(q) ==
  {[k \in DOMAIN q |-> q[p[k]]] :
     p \in {f \in [DOMAIN q -> DOMAIN q] :
              \A h, i \in DOMAIN q : h # i => f[h] # f[i]}}

SortQueue(order, size, walltime, date, q) ==
  CHOOSE s \in Arrangements(q) :
    \A h, i \in DOMAIN s :
      h < i => ~Precedes(order, size, walltime, date, s[i], s[h])

\* The elements of a sequence that are at the positions K.
Selection(s, K) ==
  LET p == CHOOSE p \in [1 .. Cardinality(K) -> K] :
             \A h, i \in DOMAIN p : h < i => p[h] < p[i]
  IN  [i \in 1 .. Cardinality(K) |-> s[p[i]]]

\* append_job, for each of the jobs; remove_job; the jobs of the queue.
AppendJobs(q, jobs, date) ==
  q \o [k \in DOMAIN jobs |-> [job |-> jobs[k], release |-> date]]
RemoveFromQueue(q, j) == Selection(q, {k \in DOMAIN q : q[k].job # j})
JobsOf(q) == {q[k].job : k \in DOMAIN q}
===============================================================================
