------------------------------ MODULE EasyBFFast ------------------------------
(***************************************************************************)
(* EASY backfilling, the fast variant (src/src/algo/easy_bf_fast.cpp).     *)
(*                                                                         *)
(* The first waiting job that cannot start is the priority job; the other  *)
(* waiting jobs are pending, in arrival order.  horizons, the list of the  *)
(* expected ends of the running jobs, gives the date at which the priority *)
(* job is expected to start and how many machines remain free then; a      *)
(* pending job is started ahead of it only if that does not hinder it.     *)
(*                                                                         *)
(* One call of make_decisions is cut at its loop iterations; pc names the  *)
(* program point:                                                          *)
(*   "ended"     the loop over _jobs_ended_recently                        *)
(*   "priority"  "Priority job fits!"                                      *)
(*   "launch"    the loop that executes the queue until a job cannot fit   *)
(*   "refresh"   the update of the expected start before backfilling       *)
(*   "backfill"  the backfilling loop, at position cursor of pending       *)
(*   "released"  the loop over _jobs_released_recently                     *)
(***************************************************************************)
EXTENDS Batsim, SequencesExt

CONSTANT
  Left(_, _)      \* IntervalSet::left: that many machines, out of a set

\* All that is used of IntervalSet::left: it takes exactly n of the machines.
ASSUME LeftAssumption ==
  \A S \in SUBSET Machines : \A n \in 0 .. Cardinality(S) :
    /\ Left(S, n) \subseteq S
    /\ Cardinality(Left(S, n)) = n

VARIABLES
  available,      \* _available_machines
  nbAvailable,    \* _nb_available_machines
  allocations,    \* _current_allocations: the machines of the running jobs
  horizons,       \* _horizons, each point with the job whose iterator it is
  priority,       \* _priority_job
  expectedStart,  \* _priority_job_expected_start_time
  remaining,      \* _remaining_resources_at_priority_job_start
  pending,        \* _pending_jobs
  jobEnded,       \* job_ended, the local of make_decisions
  cursor          \* job_it, the position of the backfilling loop

platformVars == <<available, nbAvailable, allocations, horizons>>
promiseVars  == <<expectedStart, remaining>>
queueVars    == <<priority, pending>>
localVars    == <<jobEnded, cursor>>
schedVars    == <<platformVars, promiseVars, queueVars, localVars>>
vars         == <<batsimVars, schedVars>>

-------------------------------------------------------------------------------
(* The list of horizon points.                                             *)

\* Mutant: the point goes to the end of the list.
InsertHorizonPoint_AtEnd(points, p) == Append(points, p)

\* insert_horizon_point: before the first later point, hence after the
\* points of the same date.
InsertHorizonPoint(points, p) ==
  LET later == {i \in DOMAIN points : p.date < points[i].date}
  IN  IF later = {} THEN Append(points, p)
      ELSE InsertAt(points, Min(later), p)

\* Machines available once the first i points have been reached, for every i.
AvailableAfter(points, nb) ==
  LET count[i \in 0 .. Len(points)] ==
        IF i = 0 THEN nb ELSE count[i - 1] + points[i].nb
  IN  count

\* The points after which job j could start.
EnoughAfter(points, nb, j) ==
  {i \in DOMAIN points : AvailableAfter(points, nb)[i] >= res[j]}

\* update_priority_job_expected_earliest_start_time, for the priority job j
\* and the state in which it is called.  If no point suffices the code fails
\* an assertion; HorizonsMatchAllocations excludes it.
UpdateExpectedStart(j, points, nb) ==
  LET enough == EnoughAfter(points, nb, j)
  IN  IF enough = {} THEN UNCHANGED promiseVars
      ELSE LET first == Min(enough)
           IN  /\ expectedStart' = points[first].date
               /\ remaining' = AvailableAfter(points, nb)[first] - res[j]

\* horizon_it, the iterator kept in the allocation of job j.
HorizonPoint(points, j) == CHOOSE i \in DOMAIN points : points[i].job = j

\* Mutant: the horizon point is dated by the walltime alone.
StartJob_RelativeHorizon(j) ==
  LET machines == Left(available, res[j])
      point    == [date |-> walltime[j], nb |-> res[j], job |-> j]
  IN  /\ ExecuteJob(j, machines)
      /\ horizons' = InsertHorizonPoint(horizons, point)
      /\ available' = available \ machines
      /\ nbAvailable' = nbAvailable - res[j]
      /\ allocations' = [allocations EXCEPT ![j] = machines]

\* The decision to execute j now, and the bookkeeping that follows it
\* wherever the code takes it.
StartJob(j) ==
  LET machines == Left(available, res[j])
      point    == [date |-> now + walltime[j], nb |-> res[j], job |-> j]
  IN  /\ ExecuteJob(j, machines)
      /\ horizons' = InsertHorizonPoint(horizons, point)
      /\ available' = available \ machines
      /\ nbAvailable' = nbAvailable - res[j]
      /\ allocations' = [allocations EXCEPT ![j] = machines]

Fits(j) == res[j] <= nbAvailable

\* Mutant: the present date is forgotten.
EndsAfterExpectedStart_Relative(j) == walltime[j] > expectedStart

EndsAfterExpectedStart(j) == now + walltime[j] > expectedStart

\* Mutant: one machine too many is given away.
HindersPriority_OffByOne(j) ==
  EndsAfterExpectedStart(j) /\ res[j] > remaining + 1

HindersPriority(j) == EndsAfterExpectedStart(j) /\ res[j] > remaining

\* Mutant: the machines taken from the priority job's leftovers are not counted.
ConsumeRemaining_Forgotten(j) == UNCHANGED promiseVars

\* Starting a job that is still there when the priority job is to start uses
\* up machines that were to remain free at that date.
ConsumeRemaining(j) ==
  /\ remaining' = remaining - IF EndsAfterExpectedStart(j) THEN res[j] ELSE 0
  /\ UNCHANGED expectedStart

-------------------------------------------------------------------------------
Init ==
  /\ BatsimInit
  /\ available = Machines
  /\ nbAvailable = NbMachines
  /\ allocations = [j \in Jobs |-> {}]
  /\ horizons = <<>>
  /\ priority = NullJob
  /\ expectedStart = 0
  /\ remaining = 0
  /\ pending = <<>>
  /\ jobEnded = FALSE
  /\ cursor = 1

Receive ==
  /\ Send("ended")
  /\ jobEnded' = (ended # <<>>)
  /\ UNCHANGED <<platformVars, promiseVars, queueVars, cursor>>

\* Mutant: the counter of free machines is not updated.
HandleEnded_CounterForgotten ==
  /\ pc = "ended"
  /\ ended # <<>>
  /\ LET j == Head(ended)
     IN  /\ available' = available \cup allocations[j]
         /\ horizons' = RemoveAt(horizons, HorizonPoint(horizons, j))
         /\ allocations' = [allocations EXCEPT ![j] = {}]
  /\ ended' = Tail(ended)
  /\ UNCHANGED <<pc, worldVars, jobVars, released, nbAvailable, promiseVars,
                 queueVars, localVars>>

HandleEnded ==
  /\ pc = "ended"
  /\ ended # <<>>
  /\ LET j == Head(ended)
     IN  /\ available' = available \cup allocations[j]
         /\ nbAvailable' = nbAvailable + res[j]
         /\ horizons' = RemoveAt(horizons, HorizonPoint(horizons, j))
         /\ allocations' = [allocations EXCEPT ![j] = {}]
  /\ ended' = Tail(ended)
  /\ UNCHANGED <<pc, worldVars, jobVars, released, promiseVars, queueVars,
                 localVars>>

\* Mutant: the waiting jobs are not reconsidered when jobs ended.
EndedHandled_QueueSkipped ==
  /\ pc = "ended"
  /\ ended = <<>>
  /\ pc' = "released"
  /\ UNCHANGED <<worldVars, jobVars, ended, released, schedVars>>

EndedHandled ==
  /\ pc = "ended"
  /\ ended = <<>>
  /\ pc' = IF jobEnded /\ priority # NullJob THEN "priority" ELSE "released"
  /\ UNCHANGED <<worldVars, jobVars, ended, released, schedVars>>

LaunchPriority ==
  /\ pc = "priority"
  /\ Fits(priority)
  /\ StartJob(priority)
  /\ priority' = NullJob
  /\ pc' = "launch"
  /\ UNCHANGED <<jobVars, ended, released, promiseVars, pending, localVars>>

PriorityStillBlocked ==
  /\ pc = "priority"
  /\ ~Fits(priority)
  /\ pc' = "refresh"
  /\ UNCHANGED <<worldVars, jobVars, ended, released, schedVars>>

LaunchPending ==
  /\ pc = "launch"
  /\ pending # <<>>
  /\ Fits(Head(pending))
  /\ StartJob(Head(pending))
  /\ pending' = Tail(pending)
  /\ UNCHANGED <<pc, jobVars, ended, released, promiseVars, priority,
                 localVars>>

PendingBecomesPriority ==
  /\ pc = "launch"
  /\ pending # <<>>
  /\ ~Fits(Head(pending))
  /\ priority' = Head(pending)
  /\ UpdateExpectedStart(Head(pending), horizons, nbAvailable)
  /\ pending' = Tail(pending)
  /\ pc' = "refresh"
  /\ UNCHANGED <<worldVars, jobVars, ended, released, platformVars, localVars>>

QueueLaunched ==
  /\ pc = "launch"
  /\ pending = <<>>
  /\ pc' = "refresh"
  /\ UNCHANGED <<worldVars, jobVars, ended, released, schedVars>>

RefreshExpectedStart ==
  /\ pc = "refresh"
  /\ IF nbAvailable > 0 /\ priority # NullJob
     THEN UpdateExpectedStart(priority, horizons, nbAvailable)
     ELSE UNCHANGED promiseVars
  /\ cursor' = 1
  /\ pc' = IF nbAvailable > 0 THEN "backfill" ELSE "released"
  /\ UNCHANGED <<worldVars, jobVars, ended, released, platformVars, queueVars,
                 jobEnded>>

Backfill ==
  /\ pc = "backfill"
  /\ cursor <= Len(pending)
  /\ LET j == pending[cursor]
     IN  /\ Fits(j)
         /\ ~HindersPriority(j)
         /\ StartJob(j)
         /\ ConsumeRemaining(j)
         /\ pending' = RemoveAt(pending, cursor)
         /\ pc' = IF nbAvailable' <= 0 THEN "released" ELSE "backfill"
  /\ UNCHANGED <<jobVars, ended, released, priority, localVars>>

SkipPending ==
  /\ pc = "backfill"
  /\ cursor <= Len(pending)
  /\ LET j == pending[cursor] IN ~Fits(j) \/ HindersPriority(j)
  /\ cursor' = cursor + 1
  /\ UNCHANGED <<pc, worldVars, jobVars, ended, released, platformVars,
                 promiseVars, queueVars, jobEnded>>

BackfillDone ==
  /\ pc = "backfill"
  /\ cursor > Len(pending)
  /\ pc' = "released"
  /\ UNCHANGED <<worldVars, jobVars, ended, released, schedVars>>

-------------------------------------------------------------------------------
(* The loop over the newly released jobs.                                  *)

\* Mutant: a job that takes the whole platform is refused.
IsValid_Strict(j) == res[j] < NbMachines /\ hasWalltime[j]

IsValid(j) == res[j] <= NbMachines /\ hasWalltime[j]

TakeReleased(j) ==
  /\ pc = "released"
  /\ released # <<>>
  /\ j = Head(released)
  /\ released' = Tail(released)
  /\ UNCHANGED <<pc, jobVars, ended, localVars>>

RejectReleased ==
  \E j \in Jobs :
    /\ TakeReleased(j)
    /\ ~IsValid(j)
    /\ RejectJob(j)
    /\ UNCHANGED <<platformVars, promiseVars, queueVars>>

StartReleased ==
  \E j \in Jobs :
    /\ TakeReleased(j)
    /\ IsValid(j)
    /\ Fits(j)
    /\ priority = NullJob \/ ~HindersPriority(j)
    /\ StartJob(j)
    /\ IF priority # NullJob THEN ConsumeRemaining(j) ELSE UNCHANGED promiseVars
    /\ UNCHANGED queueVars

\* Mutant: a released job is queued although it could be backfilled.
QueueReleased_WithoutBackfilling ==
  \E j \in Jobs :
    /\ TakeReleased(j)
    /\ IsValid(j)
    /\ priority # NullJob
    /\ pending' = Append(pending, j)
    /\ UNCHANGED <<worldVars, platformVars, promiseVars, priority>>

QueueReleased ==
  \E j \in Jobs :
    /\ TakeReleased(j)
    /\ IsValid(j)
    /\ priority # NullJob
    /\ ~Fits(j) \/ HindersPriority(j)
    /\ pending' = Append(pending, j)
    /\ UNCHANGED <<worldVars, platformVars, promiseVars, priority>>

\* Mutant: it becomes the priority job even if there already is one.
ReleasedBecomesPriority_Overwrites ==
  \E j \in Jobs :
    /\ TakeReleased(j)
    /\ IsValid(j)
    /\ ~Fits(j)
    /\ priority' = j
    /\ UpdateExpectedStart(j, horizons, nbAvailable)
    /\ UNCHANGED <<worldVars, platformVars, pending>>

ReleasedBecomesPriority ==
  \E j \in Jobs :
    /\ TakeReleased(j)
    /\ IsValid(j)
    /\ ~Fits(j)
    /\ priority = NullJob
    /\ priority' = j
    /\ UpdateExpectedStart(j, horizons, nbAvailable)
    /\ UNCHANGED <<worldVars, platformVars, pending>>

\* make_decisions returns, the accumulators are cleared and the reply is sent.
Reply ==
  /\ pc = "released"
  /\ released = <<>>
  /\ pc' = "batsim"
  /\ jobEnded' = FALSE
  /\ cursor' = 1
  /\ UNCHANGED <<worldVars, jobVars, ended, released, platformVars,
                 promiseVars, queueVars>>

-------------------------------------------------------------------------------
MakeDecisions ==
  \/ HandleEnded
  \/ EndedHandled
  \/ LaunchPriority
  \/ PriorityStillBlocked
  \/ LaunchPending
  \/ PendingBecomesPriority
  \/ QueueLaunched
  \/ RefreshExpectedStart
  \/ Backfill
  \/ SkipPending
  \/ BackfillDone
  \/ RejectReleased
  \/ StartReleased
  \/ QueueReleased
  \/ ReleasedBecomesPriority
  \/ Reply

Platform == BatsimStep /\ UNCHANGED schedVars

Terminated == Finished /\ UNCHANGED vars

Next ==
  \/ Platform
  \/ Receive
  \/ MakeDecisions
  \/ Terminated

Spec == Init /\ [][Next]_vars

\* The scheduler answers every message, Batsim forwards its events, simulated
\* time advances while something is to come, and running jobs end.
Fairness ==
  /\ WF_vars(MakeDecisions)
  /\ WF_vars(Receive)
  /\ WF_vars(Tick /\ UNCHANGED schedVars)
  /\ \A j \in Jobs : WF_vars(Complete(j) /\ UNCHANGED schedVars)

FairSpec == Spec /\ Fairness

-------------------------------------------------------------------------------
(* Properties.                                                             *)

\* Every variable keeps its type; the program points are those of the loops.
TypeOK ==
  /\ BatsimTypeOK
  /\ pc \in {"batsim", "ended", "priority", "launch", "refresh", "backfill",
             "released"}
  /\ available \in SUBSET Machines
  /\ nbAvailable \in Nat
  /\ allocations \in [Jobs -> SUBSET Machines]
  /\ horizons \in Seq([date : Nat, nb : Nat, job : Jobs])
  /\ priority \in Jobs \cup {NullJob}
  /\ expectedStart \in Nat
  /\ remaining \in Nat
  /\ pending \in Seq(Jobs)
  /\ jobEnded \in BOOLEAN
  /\ cursor \in Nat \ {0}

\* The scheduler's books agree with the platform at every program point: the
\* counter of free machines counts the set of free machines, no machine is
\* lost or given twice, and exactly the jobs that run (or whose end is still
\* to be handled) hold machines, those on which Batsim runs them.
ResourceAccounting ==
  /\ nbAvailable = Cardinality(available)
  /\ available = Machines \ UNION {allocations[j] : j \in Jobs}
  /\ \A j, k \in Jobs : j # k => allocations[j] \cap allocations[k] = {}
  /\ \A j \in Jobs :
       /\ status[j] = "running" => allocations[j] = placed[j]
       /\ \/ status[j] = "running"
          \/ j \in ToSet(ended)
          \/ allocations[j] = {}

\* The list of horizon points stays sorted by date under every insertion and
\* removal, and holds one point per allocation, of the size of its job: no
\* iterator kept in an allocation is ever dangling.
HorizonsMatchAllocations ==
  /\ \A i, k \in DOMAIN horizons : i < k => horizons[i].date <= horizons[k].date
  /\ \A i, k \in DOMAIN horizons : horizons[i].job = horizons[k].job => i = k
  /\ {p.job : p \in ToSet(horizons)} = {j \in Jobs : allocations[j] # {}}
  /\ \A p \in ToSet(horizons) : p.nb = Cardinality(allocations[p.job])

\* A job that waits is in exactly one place (still to be handled, priority or
\* pending), and only jobs that wait are there: no job is forgotten or can be
\* started twice, whatever the loops erase and append.
NoJobForgotten ==
  /\ IsInjective(released) /\ IsInjective(pending)
  /\ ToSet(released) \cap ToSet(pending) = {}
  /\ priority \notin ToSet(released) \cup ToSet(pending)
  /\ {j \in Jobs : status[j] = "waiting"}
       = ToSet(released) \cup ToSet(pending) \cup ({priority} \ {NullJob})

\* The machines free now, or released no later than the date as the list of
\* horizon points has it.
FreeBy(date) ==
  available \cup
    UNION {allocations[p.job] : p \in {p \in ToSet(horizons) : p.date <= date}}

\* The reservation of the priority job: on the machines that are free by its
\* expected start it can start then and leave the remaining machines to
\* others, however many jobs were backfilled.  (The code never looks at the
\* machines: it adds up the sizes in the list of horizon points.)
ReservationIsCovered ==
  priority # NullJob =>
    Cardinality(FreeBy(expectedStart)) >= res[priority] + remaining

\* The date promised to the priority job is never in the past: as it only
\* ever decreases, the job starts no later than it was first promised.
PromiseIsKept == priority # NullJob => now <= expectedStart

\* While a job remains the priority job, its expected start never increases,
\* whatever is backfilled and released in between.
PromiseNeverPostponed ==
  [][priority # NullJob /\ priority' = priority
       => expectedStart' <= expectedStart]_vars

\* When Batsim has the hand nothing that could start is left waiting: the
\* priority job does not fit, each pending job does not fit or would hinder
\* it, and nothing is pending when there is no priority job.  The code skips
\* the backfilling when no job ended, and leaves its loop early.
BackfillIsMaximal ==
  pc = "batsim" =>
    IF priority = NullJob THEN pending = <<>>
    ELSE /\ ~Fits(priority)
         /\ \A j \in ToSet(pending) : ~Fits(j) \/ HindersPriority(j)

\* What Batsim expects of any scheduler (module ResourceManager).
RM == INSTANCE ResourceManager WITH NeedsWalltime <- TRUE

ImplementsResourceManager == RM!Spec

\* Every submitted job is eventually completed or rejected.
EveryJobServed ==
  \A j \in Jobs : status[j] = "waiting" ~> status[j] \in {"done", "rejected"}
===============================================================================
