---------------------------- MODULE ConservativeBF ----------------------------
(***************************************************************************)
(* Conservative backfilling (src/src/algo/conservative_bf.cpp): every      *)
(* waiting job has a reservation in the schedule.  A new job is inserted   *)
(* at the first place where it fits; when a job ends, the reservations are *)
(* removed and inserted again one by one, in the order of the queue.       *)
(*                                                                         *)
(* The queue is sorted by the default order, FCFSOrder: by release date,   *)
(* then by comparison of the job identifiers, which need not follow the    *)
(* order of submission (as strings, "w!10" comes before "w!2").            *)
(*                                                                         *)
(* pc names the part of make_decisions that is at work:                    *)
(*   "ended"     the loop over _jobs_ended_recently                        *)
(*   "released"  the loop over _jobs_released_recently                     *)
(*   "present"   the update of the first slice and the sort of the queue   *)
(*   "insert"    the loop over recently_queued_jobs                        *)
(*   "compress"  the loop over the queue, at position cursor               *)
(*   "answer"    the answers to the waiting time estimations               *)
(***************************************************************************)
EXTENDS Batsim, Schedule

CONSTANTS
  IdRank,         \* rank of the identifier of every job, as a string
  Queries         \* potential jobs Batsim may ask a waiting time for

ASSUME IdRankAssumption == IdRank \in [Jobs -> Nat] /\ IsInjective(IdRank)

ASSUME QueriesAssumption == Queries \subseteq [nb : Nat \ {0}, walltime : Nat]

ASSUME InfinityAssumption ==
  /\ Infinity \in Nat /\ LastSubmission < Infinity
  /\ \A w \in Walltimes : NbJobs * (w + RjmsDelay) + LastSubmission < Infinity

\* A selector that finds a place finds as many machines as asked for, among
\* those it is given, and finds a place wherever these machines are free; on the
\* empty platform every valid job has a place.
ASSUME FitAssumption ==
  \A n \in 1 .. NbMachines :
    /\ Fit(Machines, n) # {}
    /\ \A S \in SUBSET Machines : Fit(S, n) # {} =>
         /\ Fit(S, n) \subseteq S /\ Cardinality(Fit(S, n)) = n
         /\ \A T \in SUBSET Machines : Fit(S, n) \subseteq T => Fit(T, n) # {}

VARIABLES
  profile,        \* _schedule
  queue,          \* _queue, the jobs in their current order
  releasedAt,     \* release_date of the jobs in the queue
  recent,         \* recently_queued_jobs, those still to be inserted
  jobEnded,       \* ! _jobs_ended_recently.empty()
  cursor,         \* job_it
  asked,          \* estimations requested and not yet answered
  answers         \* answers sent: the job asked for, when, and the estimation

schedVars == <<profile, queue, releasedAt, recent, jobEnded, cursor>>
queryVars == <<asked, answers>>
vars      == <<batsimVars, schedVars, queryVars>>

-------------------------------------------------------------------------------
\* FCFSOrder::compare.
ReleasedBefore(j, k) ==
  IF releasedAt[j] = releasedAt[k] THEN IdRank[j] < IdRank[k]
  ELSE releasedAt[j] < releasedAt[k]

SortByRelease ==
  [k \in DOMAIN queue |->
     CHOOSE j \in ToSet(queue) :
       Cardinality({h \in ToSet(queue) : ReleasedBefore(h, j)}) = k - 1]

\* Queue::remove_job.
Dequeue(j) == RemoveAt(queue, CHOOSE i \in DOMAIN queue : queue[i] = j)

\* The profile without the job, which is added at the first place it fits.
Reinsert(j) ==
  AddJobFirstFit(RemoveJobIfExists(profile, j, res[j]), j, res[j], walltime[j])

Alloc(j) ==
  JobAlloc(RemoveJobIfExists(profile, j, res[j]), res[j], walltime[j])

Init ==
  /\ BatsimInit
  /\ profile = NewSchedule(Machines, 0)
  /\ queue = <<>>
  /\ releasedAt = [j \in Jobs |-> 0]
  /\ recent = <<>>
  /\ jobEnded = FALSE
  /\ cursor = 1
  /\ asked = <<>>
  /\ answers = {}

\* QUERY estimate_waiting_time: the bound is one query at a time, and none
\* twice.
Query(q) ==
  /\ pc = "batsim"
  /\ asked = <<>>
  /\ \A a \in answers : a.query # q
  /\ asked' = <<q>>
  /\ UNCHANGED <<batsimVars, schedVars, answers>>

Receive ==
  /\ pc = "batsim"
  /\ ended # <<>> \/ released # <<>> \/ asked # <<>>
  /\ pc' = "ended"
  /\ jobEnded' = (ended # <<>>)
  /\ UNCHANGED <<worldVars, jobVars, ended, released, profile, queue,
                 releasedAt, recent, cursor, queryVars>>

RemoveEnded ==
  /\ pc = "ended"
  /\ ended # <<>>
  /\ profile' = RemoveJob(profile, Head(ended), res[Head(ended)])
  /\ ended' = Tail(ended)
  /\ UNCHANGED <<pc, worldVars, jobVars, released, queue, releasedAt, recent,
                 jobEnded, cursor, queryVars>>

EndedHandled ==
  /\ pc = "ended"
  /\ ended = <<>>
  /\ pc' = "released"
  /\ UNCHANGED <<worldVars, jobVars, ended, released, schedVars, queryVars>>

\* Mutant: a job that does not fit at present is refused.
IsValid_AtPresent(j) == res[j] <= profile[1].nb

IsValid(j) == res[j] <= NbMachines /\ hasWalltime[j]

RejectReleased ==
  /\ pc = "released"
  /\ released # <<>>
  /\ ~IsValid(Head(released))
  /\ RejectJob(Head(released))
  /\ released' = Tail(released)
  /\ UNCHANGED <<pc, jobVars, ended, schedVars, queryVars>>

QueueReleased ==
  /\ pc = "released"
  /\ released # <<>>
  /\ IsValid(Head(released))
  /\ queue' = Append(queue, Head(released))
  /\ releasedAt' = [releasedAt EXCEPT ![Head(released)] = now]
  /\ recent' = Append(recent, Head(released))
  /\ released' = Tail(released)
  /\ UNCHANGED <<pc, worldVars, jobVars, ended, profile, jobEnded, cursor,
                 queryVars>>

ReleasedHandled ==
  /\ pc = "released"
  /\ released = <<>>
  /\ pc' = "present"
  /\ UNCHANGED <<worldVars, jobVars, ended, released, schedVars, queryVars>>

\* The assertions of update_first_slice are in NoReservationMissed.
UpdatePresent ==
  /\ pc = "present"
  /\ profile' = UpdateFirstSlice(profile, now)
  /\ queue' = SortByRelease
  /\ pc' = IF jobEnded THEN "compress" ELSE "insert"
  /\ UNCHANGED <<worldVars, jobVars, ended, released, releasedAt, recent,
                 jobEnded, cursor, queryVars>>

\* Mutants: a new job is never started at once; a started job stays queued.
InsertNew_NeverStarts ==
  /\ pc = "insert"
  /\ recent # <<>>
  /\ LET j == Head(recent)
     IN  profile' = AddJobFirstFit(profile, j, res[j], walltime[j])
  /\ recent' = Tail(recent)
  /\ UNCHANGED <<pc, worldVars, jobVars, ended, released, queue, releasedAt,
                 jobEnded, cursor, queryVars>>

InsertNew_StaysQueued ==
  /\ pc = "insert"
  /\ recent # <<>>
  /\ LET j == Head(recent)
     IN  /\ profile' = AddJobFirstFit(profile, j, res[j], walltime[j])
         /\ IF Alloc(j).startedInFirstSlice
            THEN ExecuteJob(j, Alloc(j).machines)
            ELSE UNCHANGED worldVars
  /\ recent' = Tail(recent)
  /\ UNCHANGED <<pc, jobVars, ended, released, queue, releasedAt, jobEnded,
                 cursor, queryVars>>

InsertNew ==
  /\ pc = "insert"
  /\ recent # <<>>
  /\ LET j == Head(recent)
     IN  /\ profile' = AddJobFirstFit(profile, j, res[j], walltime[j])
         /\ IF Alloc(j).startedInFirstSlice
            THEN /\ ExecuteJob(j, Alloc(j).machines)
                 /\ queue' = Dequeue(j)
            ELSE UNCHANGED <<worldVars, queue>>
  /\ recent' = Tail(recent)
  /\ UNCHANGED <<pc, jobVars, ended, released, releasedAt, jobEnded, cursor,
                 queryVars>>

CompressNext ==
  /\ pc = "compress"
  /\ cursor <= Len(queue)
  /\ LET j == queue[cursor]
     IN  /\ profile' = Reinsert(j)
         /\ IF Alloc(j).startedInFirstSlice
            THEN /\ ExecuteJob(j, Alloc(j).machines)
                 /\ queue' = RemoveAt(queue, cursor)
                 /\ UNCHANGED cursor
            ELSE /\ cursor' = cursor + 1
                 /\ UNCHANGED <<worldVars, queue>>
  /\ UNCHANGED <<pc, jobVars, ended, released, releasedAt, recent, jobEnded,
                 queryVars>>

ScheduleDone ==
  /\ \/ pc = "insert" /\ recent = <<>>
     \/ pc = "compress" /\ cursor > Len(queue)
  /\ pc' = "answer"
  /\ UNCHANGED <<worldVars, jobVars, ended, released, schedVars, queryVars>>

AnswerQuery ==
  /\ pc = "answer"
  /\ asked # <<>>
  /\ LET q == Head(asked)
     IN  answers' = answers \cup
           {[query |-> q, date |-> now,
             wait |-> QueryWait(profile, q.nb, q.walltime + RjmsDelay)]}
  /\ asked' = Tail(asked)
  /\ UNCHANGED <<batsimVars, schedVars>>

\* make_decisions returns: its locals disappear and the reply is sent.
Reply ==
  /\ pc = "answer"
  /\ asked = <<>>
  /\ pc' = "batsim"
  /\ recent' = <<>>
  /\ jobEnded' = FALSE
  /\ cursor' = 1
  /\ UNCHANGED <<worldVars, jobVars, ended, released, profile, queue,
                 releasedAt, queryVars>>

-------------------------------------------------------------------------------
MakeDecisions ==
  \/ RemoveEnded
  \/ EndedHandled
  \/ RejectReleased
  \/ QueueReleased
  \/ ReleasedHandled
  \/ UpdatePresent
  \/ InsertNew
  \/ CompressNext
  \/ ScheduleDone
  \/ AnswerQuery
  \/ Reply

Platform ==
  \/ /\ \/ \E j \in Jobs, r \in Requests, w \in Walltimes : Submit(j, r, w)
        \/ \E j \in Jobs : Complete(j)
     /\ UNCHANGED <<schedVars, queryVars>>
  \/ asked = <<>> /\ Tick /\ UNCHANGED <<schedVars, queryVars>>
  \/ \E q \in Queries : Query(q)

Terminated == Finished /\ asked = <<>> /\ UNCHANGED vars

Next ==
  \/ Platform
  \/ Receive
  \/ MakeDecisions
  \/ Terminated

Spec == Init /\ [][Next]_vars

\* The scheduler answers every message, Batsim forwards its events, simulated
\* time advances while something is to come, and running jobs end.
Fairness ==
  /\ WF_vars(MakeDecisions)
  /\ WF_vars(Receive)
  /\ WF_vars(asked = <<>> /\ Tick /\ UNCHANGED <<schedVars, queryVars>>)
  /\ \A j \in Jobs : WF_vars(Complete(j) /\ UNCHANGED <<schedVars, queryVars>>)

FairSpec == Spec /\ Fairness

-------------------------------------------------------------------------------
(* Properties.                                                             *)

\* The schedule stays a partition of the future at every program point: its
\* slices follow each other up to the infinite horizon, each one's counter,
\* set of free machines and disjoint allocations agree, and every job keeps
\* its machines over consecutive slices, of its walltime altogether.  The last
\* slice is empty of jobs, so that add_job_first_fit always finds a place.
ScheduleIsSound ==
  /\ IsProfile(profile, Machines, LAMBDA j : res[j])
  /\ profile[Len(profile)].available = Machines
  /\ \A j \in Jobs : IsContiguous(profile, j)
  /\ \A j \in ToSet(queue) : ContainsJob(profile, j) =>
       EndOf(profile, j) = BeginOf(profile, j) + walltime[j]

\* The schedule agrees with the platform: the jobs allocated in it are those
\* that run, where they run and at least until Batsim stops them, those whose
\* end is still to be handled, and the waiting jobs, which all have a
\* reservation once they have been inserted.
ScheduleMatchesPlatform ==
  /\ \A j \in Jobs : status[j] = "running" =>
       /\ j \in DOMAIN profile[1].jobs
       /\ profile[1].jobs[j] = placed[j]
       /\ EndOf(profile, j) >= deadline[j] + RjmsDelay
  /\ {j \in Jobs : ContainsJob(profile, j)}
       = {j \in Jobs : status[j] = "running"} \cup ToSet(ended)
           \cup (ToSet(queue) \ ToSet(recent))
             \cup IF jobEnded /\ pc \in {"compress", "answer"}
                  THEN {queue[i] : i \in 1 .. cursor - 1} ELSE {}
  /\ {j \in Jobs : status[j] = "waiting"} = ToSet(queue) \cup ToSet(released)

\* No waiting job is overdue: when Batsim has the hand every reservation is
\* in the future, as a job whose turn has come was told to start.  Nor is the
\* schedule: once the ended jobs are removed the date of the message is in the
\* first slice, which update_first_slice asserts.
NoReservationMissed ==
  /\ pc = "present" => IsPresent(profile, now)
  /\ pc = "batsim" =>
       \A j \in ToSet(queue) :
         now <= BeginOf(profile, j) /\ 1 \notin SlicesOf(profile, j)

\* The promise of conservative backfilling: no reservation is ever postponed,
\* neither by the jobs released later nor by the compression of the schedule.
ReservationNeverPostponed ==
  [][\A j \in ToSet(queue) :
       ContainsJob(profile, j) => BeginOf(profile', j) <= BeginOf(profile, j)]_vars

\* The estimation answered is a time away from the date of the answer, after
\* which a job of that size and walltime could start (schedule.hpp:63-65).
EstimationIsAwayFromNow ==
  [][\A a \in answers' \ answers :
       a.wait + now = JobAlloc(profile, a.query.nb, a.query.walltime + RjmsDelay).begin]_vars

\* What Batsim expects of any scheduler (module ResourceManager).
RM == INSTANCE ResourceManager WITH NeedsWalltime <- TRUE

ImplementsResourceManager == RM!Spec

\* Every submitted job is eventually completed or rejected.
EveryJobServed ==
  \A j \in Jobs : status[j] = "waiting" ~> status[j] \in {"done", "rejected"}
===============================================================================
