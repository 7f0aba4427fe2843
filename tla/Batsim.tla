-------------------------------- MODULE Batsim --------------------------------
(***************************************************************************)
(* The world a batsched algorithm schedules for: Batsim's simulated        *)
(* platform and jobs, seen through the protocol that src/src/main.cpp      *)
(* speaks with it.                                                         *)
(*                                                                         *)
(* Batsim and the scheduler alternate (a REQ/REP socket): Batsim sends the *)
(* events of one simulated date, waits, and applies the decisions of the   *)
(* reply.  pc is "batsim" while Batsim is at work; any other value is a    *)
(* program point of the scheduler, during which simulated time stands      *)
(* still.  The events of a message are kept the way the handlers of        *)
(* ISchedulingAlgorithm leave them, in the two accumulators ended and      *)
(* released, in the order of arrival.                                      *)
(*                                                                         *)
(* Jobs are numbered in submission order; the size and the walltime of a   *)
(* job are chosen when it is submitted, so that one run of a model covers  *)
(* every workload over Requests and Walltimes.                             *)
(***************************************************************************)
EXTENDS Integers, Sequences, FiniteSets

CONSTANTS
  NbMachines,     \* size of the platform (_nb_machines)
  Requests,       \* numbers of resources a job may ask for
  Walltimes,      \* walltimes a job may announce; NoWalltime is "none"
  RjmsDelay       \* _rjms_delay, added to every walltime

\* Bounds of the model.
CONSTANTS
  NbJobs,         \* number of jobs submitted at most
  LastSubmission, \* no job is submitted after this date
  MaxRun          \* longest execution of a job that has no walltime

NoWalltime == -1
NullJob    == 0
Machines   == 0 .. NbMachines - 1
Jobs       == 1 .. NbJobs

ASSUME PlatformAssumption ==
  /\ NbMachines \in Nat \ {0}
  /\ Requests \subseteq Nat \ {0}
  /\ Walltimes \subseteq (Nat \ {0}) \cup {NoWalltime}
  /\ RjmsDelay \in Nat

ASSUME BoundsAssumption ==
  /\ NbJobs \in Nat
  /\ LastSubmission \in Nat
  /\ MaxRun \in Nat

VARIABLES
  pc,             \* who is at work, and at which point of make_decisions
  now,            \* simulated date
  status,         \* life cycle of every job, as Batsim sees it
  res,            \* nb_requested_resources of the submitted jobs
  walltime,       \* walltime of the submitted jobs, the RJMS delay included
  hasWalltime,    \* has_walltime of the submitted jobs
  placed,         \* machines on which Batsim executes the running jobs
  deadline,       \* date at which Batsim stops a running job
  ended,          \* _jobs_ended_recently
  released        \* _jobs_released_recently

jobVars   == <<res, walltime, hasWalltime>>
worldVars == <<now, status, placed, deadline>>
batsimVars == <<pc, worldVars, jobVars, ended, released>>

Status == {"future", "waiting", "running", "done", "rejected"}

BatsimTypeOK ==
  /\ now \in Nat
  /\ status \in [Jobs -> Status]
  /\ res \in [Jobs -> Nat]
  /\ walltime \in [Jobs -> Int]
  /\ hasWalltime \in [Jobs -> BOOLEAN]
  /\ placed \in [Jobs -> SUBSET Machines]
  /\ deadline \in [Jobs -> Nat]
  /\ ended \in Seq(Jobs)
  /\ released \in Seq(Jobs)

BatsimInit ==
  /\ pc = "batsim"
  /\ now = 0
  /\ status = [j \in Jobs |-> "future"]
  /\ res = [j \in Jobs |-> 0]
  /\ walltime = [j \in Jobs |-> 0]
  /\ hasWalltime = [j \in Jobs |-> FALSE]
  /\ placed = [j \in Jobs |-> {}]
  /\ deadline = [j \in Jobs |-> 0]
  /\ ended = <<>>
  /\ released = <<>>

-------------------------------------------------------------------------------
(* Batsim's own steps: what happens on the platform between two messages.  *)

\* JOB_SUBMITTED: the job enters the scheduler's workload and is remembered
\* as released (Workload::add_job_from_json_object, on_job_release).
Submit(j, r, w) ==
  /\ pc = "batsim"
  /\ now <= LastSubmission
  /\ status[j] = "future"
  /\ \A k \in Jobs : k < j => status[k] # "future"
  /\ status' = [status EXCEPT ![j] = "waiting"]
  /\ res' = [res EXCEPT ![j] = r]
  /\ walltime' = [walltime EXCEPT ![j] = w + RjmsDelay]
  /\ hasWalltime' = [hasWalltime EXCEPT ![j] = (w # NoWalltime)]
  /\ released' = Append(released, j)
  /\ UNCHANGED <<pc, now, placed, deadline, ended>>

\* JOB_COMPLETED: the job ends by itself, or at its deadline because its
\* walltime is reached; either way the scheduler only sees on_job_end.
Complete(j) ==
  /\ pc = "batsim"
  /\ status[j] = "running"
  /\ status' = [status EXCEPT ![j] = "done"]
  /\ placed' = [placed EXCEPT ![j] = {}]
  /\ ended' = Append(ended, j)
  /\ UNCHANGED <<pc, now, jobVars, deadline, released>>

\* Batsim has something to wait for: a submission still to come, or the end
\* of a running job.  Otherwise it stops ("deadlock" if a job still waits).
SomethingToCome ==
  \/ now < LastSubmission /\ \E j \in Jobs : status[j] = "future"
  \/ \E j \in Jobs : status[j] = "running"

\* Simulated time advances when every event of the current date has been
\* handled and no running job is due to be stopped.
Tick ==
  /\ pc = "batsim"
  /\ ended = <<>> /\ released = <<>>
  /\ SomethingToCome
  /\ \A j \in Jobs : status[j] = "running" => now < deadline[j]
  /\ now' = now + 1
  /\ UNCHANGED <<pc, status, jobVars, placed, deadline, ended, released>>

\* The message goes to the scheduler: events of one date, all of those that
\* occurred or only the first of them.
Send(entry) ==
  /\ pc = "batsim"
  /\ ended # <<>> \/ released # <<>>
  /\ pc' = entry
  /\ UNCHANGED <<worldVars, jobVars, ended, released>>

\* The simulation is over: nothing runs, waits or has to be told.
Finished ==
  /\ pc = "batsim"
  /\ ended = <<>> /\ released = <<>>
  /\ \A j \in Jobs : status[j] \in {"future", "done", "rejected"}

-------------------------------------------------------------------------------
(* What a decision of the scheduler does to Batsim's jobs.  Batsim is      *)
(* blocked until the reply, and every decision of these algorithms is      *)
(* dated with the date of the message: applying it at once or with the     *)
(* reply is the same.                                                      *)

\* EXECUTE_JOB: Batsim stops the job at the walltime it was submitted with,
\* which is the scheduler's walltime without the RJMS delay.
ExecuteJob(j, machines) ==
  /\ status' = [status EXCEPT ![j] = "running"]
  /\ placed' = [placed EXCEPT ![j] = machines]
  /\ deadline' = [deadline EXCEPT ![j] =
                    now + IF hasWalltime[j] THEN walltime[j] - RjmsDelay
                                            ELSE MaxRun]
  /\ UNCHANGED now

\* REJECT_JOB.
RejectJob(j) ==
  /\ status' = [status EXCEPT ![j] = "rejected"]
  /\ UNCHANGED <<now, placed, deadline>>

\* The steps Batsim takes by itself, whatever the scheduler is.
BatsimStep ==
  \/ \E j \in Jobs, r \in Requests, w \in Walltimes : Submit(j, r, w)
  \/ \E j \in Jobs : Complete(j)
  \/ Tick
===============================================================================
