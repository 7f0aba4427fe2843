------------------------------- MODULE Schedule -------------------------------
(***************************************************************************)
(* The profile of reservations of src/src/schedule.cpp, as operators on    *)
(* sequences of time slices.  A slice is a record                          *)
(*   [begin, end, available, nb, jobs]                                     *)
(* where jobs maps each job allocated in the slice to its machines, and nb *)
(* is nb_available_machines, which the code keeps beside the set.  The     *)
(* slices of a profile follow each other and the last one ends at          *)
(* Infinity (1e19 in the code).                                            *)
(*                                                                         *)
(* Jobs are passed with their number n of requested resources and their    *)
(* walltime w.                                                             *)
(***************************************************************************)
EXTENDS Integers, SequencesExt, Selector

CONSTANT Infinity \* end of the last slice, later than any date reached

\* Schedule(nb_machines, initial_time)
NewSchedule(machines, date) ==
  <<[begin |-> date, end |-> Infinity, available |-> machines,
     nb |-> Cardinality(machines), jobs |-> <<>>]>>

\* The indices of the slices in which job j is allocated.
SlicesOf(p, j) == {i \in DOMAIN p : j \in DOMAIN p[i].jobs}

ContainsJob(p, j) == SlicesOf(p, j) # {}

\* The profile in which slices first to last have become Op of them.
MapSlices(p, first, last, Op(_)) ==
  SubSeq(p, 1, first - 1)
    \o [x \in 1 .. last - first + 1 |-> Op(p[first + x - 1])]
    \o SubSeq(p, last + 1, Len(p))

\* update_first_slice asserts this of the date it is given.
IsPresent(p, date) == p[1].begin <= date /\ date <= p[1].end

UpdateFirstSlice(p, date) == [p EXCEPT ![1].begin = date]

\* update_first_slice_removing_remaining_jobs: the slices that have ended go.
UpdateFirstSliceRemoving(p, date) ==
  UpdateFirstSlice(SubSeq(p, Min({i \in DOMAIN p : date < p[i].end}), Len(p)),
                   date)

\* split_slice: nothing is split at the ends of the slice.
SplitSlice(p, i, date) ==
  IF p[i].begin < date /\ date < p[i].end
  THEN SubSeq(p, 1, i - 1)
         \o <<[p[i] EXCEPT !.end = date], [p[i] EXCEPT !.begin = date]>>
         \o SubSeq(p, i + 1, Len(p))
  ELSE p

-------------------------------------------------------------------------------
(* Insertion at the first place where the job fits.                        *)

\* Machines that are free from slice i to slice k.
CommonMachines(p, i, k) ==
  {m \in p[i].available : \A x \in i .. k : m \in p[x].available}

\* Mutant: only slices that are long enough by themselves are considered.
IsAnchor_OneSlice(p, n, w, i, k) ==
  /\ i = k
  /\ p[i].nb >= n
  /\ p[i].end - p[i].begin >= w
  /\ Fit(p[i].available, n) # {}

\* The job can be placed at the beginning of slice i and ends in slice k.
\* Later slices are only looked at when slice i is too short by itself.
IsAnchor(p, n, w, i, k) ==
  /\ i <= k
  /\ \A x \in i .. k : p[x].nb >= n
  /\ p[k].end - p[i].begin >= w
  /\ i < k => p[i].end - p[i].begin < w
  /\ Fit(CommonMachines(p, i, k), n) # {}

Anchors(p, n, w) ==
  {a \in (DOMAIN p) \X (DOMAIN p) : IsAnchor(p, n, w, a[1], a[2])}

\* The first of a set of such pairs of slices.
FirstAmong(anchors) ==
  CHOOSE a \in anchors :
    \A b \in anchors : a[1] < b[1] \/ (a[1] = b[1] /\ a[2] <= b[2])

\* The allocation (JobAlloc) of a job from slice a[1] to slice a[2]: the date at
\* which it begins, its machines, and whether it starts in the first slice.
AllocAt(p, n, a) ==
  [begin |-> p[a[1]].begin,
   machines |-> Fit(CommonMachines(p, a[1], a[2]), n),
   startedInFirstSlice |-> a[1] = 1,
   first |-> a[1], last |-> a[2]]

\* add_job_first_fit: where the job is placed.
JobAlloc(p, n, w) == AllocAt(p, n, FirstAmong(Anchors(p, n, w)))

\* The profile in which job j has an allocation, for a time w that ends in the
\* last slice of it.
AddJobAt(p, j, n, w, alloc) ==
  LET q == SplitSlice(p, alloc.last, alloc.begin + w)
      With(slice) == [slice EXCEPT !.available = @ \ alloc.machines,
                                   !.nb = @ - n,
                                   !.jobs = [k \in DOMAIN @ \cup {j} |->
                                               IF k = j THEN alloc.machines
                                                        ELSE @[k]]]
  IN  MapSlices(q, alloc.first, alloc.last, With)

\* add_job_first_fit: the profile it leaves.
AddJobFirstFit(p, j, n, w) == AddJobAt(p, j, n, w, JobAlloc(p, n, w))

\* The part of the profile that insertion on the given machines, not before
\* slice first, takes into account (LimitedRangeResourceSelector).
Part(p, range, first) ==
  [x \in 1 .. Len(p) - first + 1 |->
     [p[first + x - 1] EXCEPT !.available = @ \cap range]]

\* add_job_first_fit_after_time_slice.
AllocAfterSlice(p, n, w, range, first) ==
  [JobAlloc(Part(p, range, first), n, w) EXCEPT !.first = @ + first - 1,
                                                !.last = @ + first - 1]

AddJobAfterSlice(p, j, n, w, range, first) ==
  AddJobAt(p, j, n, w, AllocAfterSlice(p, n, w, range, first))

\* add_job_first_fit_after_time: the slice of the date is split first.
SliceOfDate(p, date) ==
  CHOOSE i \in DOMAIN p : p[i].begin <= date /\ date < p[i].end

SplitAt(p, date) == SplitSlice(p, SliceOfDate(p, date), date)

AddJobAfterTime(p, j, n, w, range, date) ==
  LET q == SplitAt(p, date)
  IN  AddJobAfterSlice(q, j, n, w, range, SliceOfDate(q, date))

\* query_wait: the date at which such a job would be placed.
QueryWait(p, n, w) ==
  IF Anchors(p, n, w) = {} THEN -1 ELSE JobAlloc(p, n, w).begin

-------------------------------------------------------------------------------
(* Removal.                                                                *)

\* Mutant: the counter of the slice is not updated.
EraseJob_CounterForgotten(p, j, n, first, last) ==
  LET Without(slice) == [slice EXCEPT !.available = @ \cup p[first].jobs[j],
                                      !.jobs = Restrict(@, DOMAIN @ \ {j})]
  IN  MapSlices(p, first, last, Without)

\* The job leaves slices first to last.
EraseJob(p, j, n, first, last) ==
  LET Without(slice) == [slice EXCEPT !.available = @ \cup p[first].jobs[j],
                                      !.nb = @ + n,
                                      !.jobs = Restrict(@, DOMAIN @ \ {j})]
  IN  MapSlices(p, first, last, Without)

\* Slices x - 1 and x become one for every x in the set: the second is kept,
\* with the begin of the first.
MergeSlices(p, merged) ==
  LET upTo[x \in 0 .. Len(p)] ==
        IF x = 0 THEN <<>>
        ELSE LET q == upTo[x - 1] IN
             IF x \in merged
             THEN Append(Front(q), [p[x] EXCEPT !.begin = Last(q).begin])
             ELSE Append(q, p[x])
  IN  upTo[Len(p)]

\* Slices first to last are each merged with the preceding one if the two have
\* the same jobs.
MergeEqualSlices(p, first, last) ==
  MergeSlices(p, {x \in (first .. last) \cap (2 .. Len(p)) :
                    p[x - 1].jobs = p[x].jobs})

\* remove_job_internal, from slice first: the job is erased from a run of
\* consecutive slices, which are merged, and so is the slice that follows them.
RemoveJobFrom(p, j, n, first) ==
  LET last == Max({x \in first .. Len(p) : first .. x \subseteq SlicesOf(p, j)})
  IN  MergeEqualSlices(EraseJob(p, j, n, first, last), first, last + 1)

\* remove_job, that is remove_job_first_occurence.
RemoveJob(p, j, n) == RemoveJobFrom(p, j, n, Min(SlicesOf(p, j)))

\* find_last_occurence_of_job: where the last run of slices of the job begins.
LastOccurrence(p, j) ==
  Min({x \in SlicesOf(p, j) : x .. Max(SlicesOf(p, j)) \subseteq SlicesOf(p, j)})

RemoveJobLastOccurrence(p, j, n) == RemoveJobFrom(p, j, n, LastOccurrence(p, j))

RemoveJobIfExists(p, j, n) ==
  IF ContainsJob(p, j) THEN RemoveJob(p, j, n) ELSE p

-------------------------------------------------------------------------------
(* What holds of every profile the schedulers work with.                   *)

IsSlice(s, machines, Request(_)) ==
  /\ s.begin <= s.end
  /\ s.nb = Cardinality(s.available)
  /\ s.available = machines \ UNION {s.jobs[j] : j \in DOMAIN s.jobs}
  /\ \A j, k \in DOMAIN s.jobs : j # k => s.jobs[j] \cap s.jobs[k] = {}
  /\ \A j \in DOMAIN s.jobs : Cardinality(s.jobs[j]) = Request(j)

\* Only the first slice may be empty: the date has reached its end and the
\* jobs that are to end then have not been seen to.
IsProfile(p, machines, Request(_)) ==
  /\ p # <<>>
  /\ p[Len(p)].end = Infinity
  /\ \A i \in DOMAIN p : IsSlice(p[i], machines, Request)
  /\ \A i \in DOMAIN p \ {1} :
       /\ p[i].begin = p[i - 1].end
       /\ p[i].begin < p[i].end

\* A job occupies consecutive slices, always on the same machines.
IsContiguous(p, j) ==
  \A i, k \in SlicesOf(p, j) :
    /\ p[i].jobs[j] = p[k].jobs[j]
    /\ i .. k \subseteq SlicesOf(p, j)

\* Beginning and end of the allocation of a job.
BeginOf(p, j) == p[Min(SlicesOf(p, j))].begin
EndOf(p, j)   == p[Max(SlicesOf(p, j))].end
===============================================================================
