--------------------------------- MODULE EasyBF ---------------------------------
(***************************************************************************)
(* EASY backfilling over a schedule (src/src/algo/easy_bf.cpp): the first  *)
(* job of the queue, the priority job, has a reservation in the schedule,  *)
(* beside the running jobs; any other job may be backfilled if it can      *)
(* start at once without moving that reservation.  Every queue order is    *)
(* allowed, so a new job can take the place of the priority job.           *)
(*                                                                         *)
(* pc names the part of make_decisions that is at work:                    *)
(*   "ended"     the loop over _jobs_ended_recently                        *)
(*   "released"  the loop over _jobs_released_recently; then the update of *)
(*               the first slice and the sort of the queue                 *)
(*   "priority"  the loop of sort_queue_while_handling_priority_job        *)
(*   "backfill"  the loop over recently_queued_jobs                        *)
(*   "traverse"  the loop over the queue, at position cursor               *)
(***************************************************************************)
EXTENDS Batsim, Schedule, Queue

CONSTANTS
  Orders          \* queue orders to run the algorithm with

ASSUME OrdersAssumption == Orders \subseteq QueueOrders

ASSUME InfinityAssumption ==
  /\ Infinity \in Nat /\ LastSubmission < Infinity
  /\ \A w \in Walltimes : NbJobs * (w + RjmsDelay) + LastSubmission < Infinity

\* A selector that finds a place finds as many machines as asked for, among
\* those it is given, and finds a place wherever these machines are free; on the
\* empty platform every valid job has a place.
ASSUME FitAssumption ==
  \A n \in 1 .. NbMachines :
    /\ Fit(Machines, n) # {}
    /\ \A S \in SUBSET Machines : Fit(S, n) # {} =>
         /\ Fit(S, n) \subseteq S /\ Cardinality(Fit(S, n)) = n
         /\ \A T \in SUBSET Machines : Fit(S, n) \subseteq T => Fit(T, n) # {}

VARIABLES
  order,          \* queue_order
  profile,        \* _schedule
  queue,          \* _queue: jobs with their release date
  before,         \* priority_job_before
  after,          \* priority_job_after
  recent,         \* recently_queued_jobs, those still to be tried
  jobEnded,       \* ! _jobs_ended_recently.empty()
  nbAvailable,    \* nb_available_machines of the loop at work
  cursor          \* job_it

localVars == <<before, after, recent, jobEnded, nbAvailable, cursor>>
schedVars == <<order, profile, queue, localVars>>
vars      == <<batsimVars, schedVars>>

-------------------------------------------------------------------------------
\* first_job_or_nullptr.
FirstJob(q) == IF q = <<>> THEN NullJob ELSE Head(q).job

\* add_job_first_fit on a profile, and where it puts the job.
Insert(p, j) == AddJobFirstFit(p, j, res[j], walltime[j])
Alloc(p, j)  == JobAlloc(p, res[j], walltime[j])

\* Mutant: a job is started wherever it has been placed.
StartsNow_Always(p, j) == TRUE

StartsNow(p, j) == Alloc(p, j).startedInFirstSlice

Init ==
  /\ BatsimInit
  /\ order \in Orders
  /\ profile = NewSchedule(Machines, 0)
  /\ queue = <<>>
  /\ before = NullJob /\ after = NullJob
  /\ recent = <<>>
  /\ jobEnded = FALSE
  /\ nbAvailable = 0
  /\ cursor = 1

Receive ==
  /\ Send("ended")
  /\ before' = FirstJob(queue)
  /\ jobEnded' = (ended # <<>>)
  /\ UNCHANGED <<order, profile, queue, after, recent, nbAvailable, cursor>>

\* Mutant: only the first of the jobs that ended is removed.
RemoveEnded_FirstOnly ==
  /\ pc = "ended"
  /\ ended # <<>>
  /\ profile' = RemoveJob(profile, Head(ended), res[Head(ended)])
  /\ ended' = <<>>
  /\ UNCHANGED <<pc, worldVars, jobVars, released, order, queue, localVars>>

RemoveEnded ==
  /\ pc = "ended"
  /\ ended # <<>>
  /\ profile' = RemoveJob(profile, Head(ended), res[Head(ended)])
  /\ ended' = Tail(ended)
  /\ UNCHANGED <<pc, worldVars, jobVars, released, order, queue, localVars>>

EndedHandled ==
  /\ pc = "ended"
  /\ ended = <<>>
  /\ pc' = "released"
  /\ UNCHANGED <<worldVars, jobVars, ended, released, schedVars>>

IsValid(j) == res[j] <= NbMachines /\ hasWalltime[j]

RejectReleased ==
  /\ pc = "released"
  /\ released # <<>>
  /\ ~IsValid(Head(released))
  /\ RejectJob(Head(released))
  /\ released' = Tail(released)
  /\ UNCHANGED <<pc, jobVars, ended, schedVars>>

QueueReleased ==
  /\ pc = "released"
  /\ released # <<>>
  /\ IsValid(Head(released))
  /\ queue' = AppendJobs(queue, <<Head(released)>>, now)
  /\ recent' = Append(recent, Head(released))
  /\ released' = Tail(released)
  /\ UNCHANGED <<pc, worldVars, jobVars, ended, order, profile, before, after,
                 jobEnded, nbAvailable, cursor>>

-------------------------------------------------------------------------------
(* sort_queue_while_handling_priority_job.                                 *)

SortedQueue == SortQueue(order, res, walltime, now, queue)

\* Mutant: the reservation of the former priority job is kept.
WithoutFormer_Kept(p) == p

\* The schedule without the reservation of the former priority job.
WithoutFormer(p) ==
  IF before = NullJob THEN p ELSE RemoveJobIfExists(p, before, res[before])

\* The first slice is updated, the queue is sorted; if the priority job has
\* changed, the former one loses its reservation and the loop is entered.
\* The assertions of update_first_slice are in ReservationIsAhead.
UpdatePresent ==
  LET present == UpdateFirstSlice(profile, now)
      changed == FirstJob(SortedQueue) # before
  IN
  /\ pc = "released"
  /\ released = <<>>
  /\ queue' = SortedQueue
  /\ after' = FirstJob(SortedQueue)
  /\ profile' = IF changed THEN WithoutFormer(present) ELSE present
  /\ pc' = IF changed /\ SortedQueue # <<>> THEN "priority" ELSE "sorted"
  /\ UNCHANGED <<worldVars, jobVars, ended, released, order, before, recent,
                 jobEnded, nbAvailable, cursor>>

\* The priority job is inserted; if it starts at once, so may the next one.
InsertPriority ==
  LET q == RemoveFromQueue(queue, after) IN
  /\ pc = "priority"
  /\ profile' = Insert(profile, after)
  /\ IF StartsNow(profile, after)
       THEN /\ ExecuteJob(after, Alloc(profile, after).machines)
            /\ queue' = q
            /\ after' = FirstJob(q)
            /\ pc' = IF q = <<>> THEN "sorted" ELSE "priority"
       ELSE /\ pc' = "sorted"
            /\ UNCHANGED <<worldVars, queue, after>>
  /\ UNCHANGED <<jobVars, ended, released, order, before, recent, jobEnded,
                 nbAvailable, cursor>>

-------------------------------------------------------------------------------
(* Backfilling.                                                            *)

\* If no job ended only the new jobs are tried, otherwise the whole queue.
ChooseLoop ==
  /\ pc = "sorted"
  /\ pc' = IF jobEnded THEN "traverse" ELSE "backfill"
  /\ nbAvailable' = Cardinality(profile[1].available)
  /\ UNCHANGED <<worldVars, jobVars, ended, released, order, profile, queue,
                 before, after, recent, jobEnded, cursor>>

\* Mutant: the new jobs are never tried.
Candidate_Never(j) == FALSE

\* The new job is still in the queue, has no reservation and may fit now.
Candidate(j) == j \in JobsOf(queue) /\ j # after /\ res[j] <= nbAvailable

\* A new job that does not start at once is inserted and removed again.
TryNew ==
  LET j == Head(recent)
      starts == Candidate(j) /\ StartsNow(profile, j)
  IN
  /\ pc = "backfill"
  /\ recent # <<>> /\ nbAvailable > 0
  /\ profile' = CASE starts -> Insert(profile, j)
                  [] Candidate(j) /\ ~starts ->
                       RemoveJob(Insert(profile, j), j, res[j])
                  [] OTHER -> profile
  /\ IF starts
       THEN /\ ExecuteJob(j, Alloc(profile, j).machines)
            /\ queue' = RemoveFromQueue(queue, j)
            /\ nbAvailable' = nbAvailable - res[j]
       ELSE UNCHANGED <<worldVars, queue, nbAvailable>>
  /\ recent' = Tail(recent)
  /\ UNCHANGED <<pc, jobVars, ended, released, order, before, after, jobEnded,
                 cursor>>

\* One job of the queue is tried; only the priority job keeps a reservation
\* in the future.  When it starts, the next job has the priority.
TryQueued ==
  LET j      == queue[cursor].job
      p      == RemoveJobIfExists(profile, j, res[j])
      starts == StartsNow(p, j)
      q      == RemoveAt(queue, cursor)
  IN
  /\ pc = "traverse"
  /\ cursor <= Len(queue) /\ nbAvailable > 0
  /\ profile' = IF starts \/ j = after THEN Insert(p, j)
                                       ELSE RemoveJob(Insert(p, j), j, res[j])
  /\ IF starts
       THEN /\ ExecuteJob(j, Alloc(p, j).machines)
            /\ queue' = q
            /\ after' = IF j = after THEN FirstJob(q) ELSE after
            /\ UNCHANGED cursor
       ELSE /\ cursor' = cursor + 1
            /\ UNCHANGED <<worldVars, queue, after>>
  /\ UNCHANGED <<pc, jobVars, ended, released, order, before, recent, jobEnded,
                 nbAvailable>>

\* make_decisions returns: its locals disappear and the reply is sent.
Reply ==
  /\ \/ pc = "backfill" /\ (recent = <<>> \/ nbAvailable = 0)
     \/ pc = "traverse" /\ (cursor > Len(queue) \/ nbAvailable = 0)
  /\ pc' = "batsim"
  /\ before' = NullJob /\ after' = NullJob
  /\ recent' = <<>>
  /\ jobEnded' = FALSE
  /\ nbAvailable' = 0
  /\ cursor' = 1
  /\ UNCHANGED <<worldVars, jobVars, ended, released, order, profile, queue>>

-------------------------------------------------------------------------------
MakeDecisions ==
  \/ RemoveEnded
  \/ EndedHandled
  \/ RejectReleased
  \/ QueueReleased
  \/ UpdatePresent
  \/ InsertPriority
  \/ ChooseLoop
  \/ TryNew
  \/ TryQueued
  \/ Reply

Platform == BatsimStep /\ UNCHANGED schedVars

Terminated == Finished /\ UNCHANGED vars

Next ==
  \/ Platform
  \/ Receive
  \/ MakeDecisions
  \/ Terminated

Spec == Init /\ [][Next]_vars

-------------------------------------------------------------------------------
(* Properties.                                                             *)

Waiting == JobsOf(queue)

\* Between two messages the schedule is a partition of the future in which
\* the running jobs occupy the machines Batsim runs them on until they must
\* be over, jobs whose end is still to be told are there too, and of the
\* waiting jobs exactly the first of the queue has a reservation: no trace is
\* left of the jobs that were inserted only to see whether they fit, nor of a
\* former priority job.
ScheduleMatchesPlatform ==
  pc = "batsim" =>
    /\ IsProfile(profile, Machines, LAMBDA j : res[j])
    /\ profile[Len(profile)].available = Machines
    /\ \A j \in Jobs : status[j] = "running" =>
         /\ j \in DOMAIN profile[1].jobs
         /\ profile[1].jobs[j] = placed[j]
         /\ EndOf(profile, j) >= deadline[j] + RjmsDelay
    /\ {j \in Jobs : ContainsJob(profile, j)}
         = {j \in Jobs : status[j] = "running"} \cup ToSet(ended)
             \cup ({FirstJob(queue)} \ {NullJob})

\* The reservation of the priority job is never in the past, nor at the
\* present once the scheduler has replied, and when a message has been taken
\* in the date is in the first slice: the assertions of update_first_slice
\* hold, and nobody has to start the priority job but the end of another job.
ReservationIsAhead ==
  /\ pc = "released" => IsPresent(profile, now)
  /\ pc = "batsim" /\ queue # <<>> =>
       /\ BeginOf(profile, FirstJob(queue)) >= now
       /\ 1 \notin SlicesOf(profile, FirstJob(queue))
       /\ \E j \in Jobs : status[j] = "running" \/ j \in ToSet(ended)

\* EASY's promise: as long as a job has the reservation, neither the jobs
\* backfilled nor the ends of others ever postpone it.
ReservationNeverPostponed ==
  [][\A j \in Waiting :
       ContainsJob(profile, j) /\ ContainsJob(profile', j) =>
         BeginOf(profile', j) <= BeginOf(profile, j)]_profile

\* "If no resources have been released, we can just try to backfill the
\* newly-released jobs" (easy_bf.cpp:75): with the default order, no waiting
\* job is left that could start now without moving the reservation.  (With
\* other orders a new priority job may unblock an old one that is not tried.)
BackfillIsMaximal ==
  pc = "batsim" /\ ended = <<>> /\ order = "fcfs" =>
    \A j \in Waiting \ {FirstJob(queue)} :
      ~StartsNow(UpdateFirstSlice(profile, now), j)

\* What Batsim expects of any scheduler (module ResourceManager).
RM == INSTANCE ResourceManager WITH NeedsWalltime <- TRUE

ImplementsResourceManager == RM!Spec
===============================================================================
