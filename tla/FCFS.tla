--------------------------------- MODULE FCFS ---------------------------------
(***************************************************************************)
(* First come, first served without backfilling: src/src/algo/fcfs.cpp     *)
(* and src/src/algo/fcfs_fast.cpp.  The two differ in one place: when a    *)
(* job ended, fcfs asks the resource selector whether and where a pending  *)
(* job fits, fcfs_fast counts machines and takes the leftmost ones, which  *)
(* is what Fit does when it is the fit of the basic selector.  Both place  *)
(* a newly released job on the leftmost machines.                          *)
(*                                                                         *)
(* pc names the loop of make_decisions that is at work: "ended" (over      *)
(* _jobs_ended_recently), "launch" (over _pending_jobs) or "released"      *)
(* (over _jobs_released_recently).                                         *)
(***************************************************************************)
EXTENDS Batsim, Selector, SequencesExt

CONSTANT Left(_, _) \* IntervalSet::left: that many machines, out of a set

\* All that is used of IntervalSet::left: it takes exactly n of the machines.
ASSUME LeftAssumption ==
  \A S \in SUBSET Machines : \A n \in 0 .. Cardinality(S) :
    /\ Left(S, n) \subseteq S
    /\ Cardinality(Left(S, n)) = n

\* A selector that finds a place finds as many machines as asked for, among
\* those it is given; on the empty platform every valid job has a place.
ASSUME FitAssumption ==
  \A n \in 1 .. NbMachines :
    /\ Fit(Machines, n) # {}
    /\ \A S \in SUBSET Machines :
         Fit(S, n) # {} => Fit(S, n) \subseteq S /\ Cardinality(Fit(S, n)) = n

VARIABLES
  available,      \* _available_machines
  nbAvailable,    \* _nb_available_machines
  allocations,    \* _current_allocations
  pending,        \* _pending_jobs
  jobEnded        \* job_ended, the local of make_decisions

platformVars == <<available, nbAvailable, allocations>>
schedVars    == <<platformVars, pending, jobEnded>>
vars         == <<batsimVars, schedVars>>

-------------------------------------------------------------------------------
\* The decision to execute j on these machines, and the bookkeeping after it.
StartJob(j, machines) ==
  /\ ExecuteJob(j, machines)
  /\ available' = available \ machines
  /\ nbAvailable' = nbAvailable - res[j]
  /\ allocations' = [allocations EXCEPT ![j] = machines]

Init ==
  /\ BatsimInit
  /\ available = Machines
  /\ nbAvailable = NbMachines
  /\ allocations = [j \in Jobs |-> {}]
  /\ pending = <<>>
  /\ jobEnded = FALSE

Receive ==
  /\ Send("ended")
  /\ jobEnded' = (ended # <<>>)
  /\ UNCHANGED <<platformVars, pending>>

\* Mutant: the counter of free machines is not updated.
HandleEnded_CounterForgotten ==
  /\ pc = "ended"
  /\ ended # <<>>
  /\ LET j == Head(ended)
     IN  /\ available' = available \cup allocations[j]
         /\ allocations' = [allocations EXCEPT ![j] = {}]
  /\ ended' = Tail(ended)
  /\ UNCHANGED <<pc, worldVars, jobVars, released, nbAvailable, pending,
                 jobEnded>>

HandleEnded ==
  /\ pc = "ended"
  /\ ended # <<>>
  /\ LET j == Head(ended)
     IN  /\ available' = available \cup allocations[j]
         /\ nbAvailable' = nbAvailable + res[j]
         /\ allocations' = [allocations EXCEPT ![j] = {}]
  /\ ended' = Tail(ended)
  /\ UNCHANGED <<pc, worldVars, jobVars, released, pending, jobEnded>>

\* Mutant: the queue is not reconsidered when jobs ended.
EndedHandled_QueueSkipped ==
  /\ pc = "ended"
  /\ ended = <<>>
  /\ pc' = "released"
  /\ UNCHANGED <<worldVars, jobVars, ended, released, schedVars>>

EndedHandled ==
  /\ pc = "ended"
  /\ ended = <<>>
  /\ pc' = IF jobEnded THEN "launch" ELSE "released"
  /\ UNCHANGED <<worldVars, jobVars, ended, released, schedVars>>

\* Mutant: only one pending job is started per call.
LaunchPending_Once ==
  /\ pc = "launch"
  /\ pending # <<>>
  /\ LET j == Head(pending)
         machines == Fit(available, res[j])
     IN  /\ machines # {}
         /\ StartJob(j, machines)
  /\ pending' = Tail(pending)
  /\ pc' = "released"
  /\ UNCHANGED <<jobVars, ended, released, jobEnded>>

LaunchPending ==
  /\ pc = "launch"
  /\ pending # <<>>
  /\ LET j == Head(pending)
         machines == Fit(available, res[j])
     IN  /\ machines # {}
         /\ StartJob(j, machines)
  /\ pending' = Tail(pending)
  /\ UNCHANGED <<pc, jobVars, ended, released, jobEnded>>

LaunchDone ==
  /\ pc = "launch"
  /\ pending # <<>> => Fit(available, res[Head(pending)]) = {}
  /\ pc' = "released"
  /\ UNCHANGED <<worldVars, jobVars, ended, released, schedVars>>

-------------------------------------------------------------------------------
(* The loop over the newly released jobs.                                  *)

\* Mutant: a job that takes the whole platform is refused.
IsValid_Strict(j) == res[j] < NbMachines

IsValid(j) == res[j] <= NbMachines

TakeReleased(j) ==
  /\ pc = "released"
  /\ released # <<>>
  /\ j = Head(released)
  /\ released' = Tail(released)
  /\ UNCHANGED <<pc, jobVars, ended, jobEnded>>

RejectReleased ==
  \E j \in Jobs :
    /\ TakeReleased(j)
    /\ ~IsValid(j)
    /\ RejectJob(j)
    /\ UNCHANGED <<platformVars, pending>>

\* Mutant: the queue is overtaken.
StartReleased_Overtakes ==
  \E j \in Jobs :
    /\ TakeReleased(j)
    /\ IsValid(j)
    /\ res[j] <= nbAvailable
    /\ StartJob(j, Left(available, res[j]))
    /\ UNCHANGED pending

StartReleased ==
  \E j \in Jobs :
    /\ TakeReleased(j)
    /\ IsValid(j)
    /\ pending = <<>>
    /\ res[j] <= nbAvailable
    /\ StartJob(j, Left(available, res[j]))
    /\ UNCHANGED pending

QueueReleased ==
  \E j \in Jobs :
    /\ TakeReleased(j)
    /\ IsValid(j)
    /\ pending # <<>> \/ res[j] > nbAvailable
    /\ pending' = Append(pending, j)
    /\ UNCHANGED <<worldVars, platformVars>>

Reply ==
  /\ pc = "released"
  /\ released = <<>>
  /\ pc' = "batsim"
  /\ jobEnded' = FALSE
  /\ UNCHANGED <<worldVars, jobVars, ended, released, platformVars, pending>>

-------------------------------------------------------------------------------
MakeDecisions ==
  \/ HandleEnded
  \/ EndedHandled
  \/ LaunchPending
  \/ LaunchDone
  \/ RejectReleased
  \/ StartReleased
  \/ QueueReleased
  \/ Reply

Platform == BatsimStep /\ UNCHANGED schedVars

Terminated == Finished /\ UNCHANGED vars

Next ==
  \/ Platform
  \/ Receive
  \/ MakeDecisions
  \/ Terminated

Spec == Init /\ [][Next]_vars

\* The scheduler answers every message, Batsim forwards its events, simulated
\* time advances while something is to come, and running jobs end.
Fairness ==
  /\ WF_vars(MakeDecisions)
  /\ WF_vars(Receive)
  /\ WF_vars(Tick /\ UNCHANGED schedVars)
  /\ \A j \in Jobs : WF_vars(Complete(j) /\ UNCHANGED schedVars)

FairSpec == Spec /\ Fairness

-------------------------------------------------------------------------------
(* Properties.                                                             *)

\* The scheduler's books agree with the platform at every program point: the
\* counter counts the set of free machines, although pending jobs are placed
\* by the selector and released jobs by the counter; no machine is lost or
\* given twice.
ResourceAccounting ==
  /\ nbAvailable = Cardinality(available)
  /\ available = Machines \ UNION {allocations[j] : j \in Jobs}
  /\ \A j, k \in Jobs : j # k => allocations[j] \cap allocations[k] = {}
  /\ \A j \in Jobs :
       /\ status[j] = "running" => allocations[j] = placed[j]
       /\ \/ status[j] = "running"
          \/ j \in ToSet(ended)
          \/ allocations[j] = {}

Served(j) == status[j] \in {"running", "done"}

\* First come, first served: no job starts before a valid job submitted
\* earlier, across messages and among the jobs of one message.
FirstComeFirstServed ==
  \A j, k \in Jobs : k < j /\ Served(j) /\ IsValid(k) => Served(k)

\* When Batsim has the hand, the oldest waiting job really does not fit: the
\* queue is only reconsidered when a job ended, and that is enough.
QueueIsBlocked ==
  pc = "batsim" /\ pending # <<>> => Fit(available, res[Head(pending)]) = {}

\* What Batsim expects of any scheduler (module ResourceManager).
RM == INSTANCE ResourceManager WITH NeedsWalltime <- FALSE

ImplementsResourceManager == RM!Spec

\* Every submitted job is eventually completed or rejected.
EveryJobServed ==
  \A j \in Jobs : status[j] = "waiting" ~> status[j] \in {"done", "rejected"}
===============================================================================
