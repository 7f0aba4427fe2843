--------------------------- MODULE ResourceManager ----------------------------
(***************************************************************************)
(* What Batsim expects of any scheduler that allocates whole machines to   *)
(* rigid jobs, whatever its policy: a submitted job is rejected or started *)
(* at most once; it starts on exactly the number of machines it asked for, *)
(* none of which another running job holds; only a job that can never be   *)
(* served is rejected.  The schedulers of this project are shown to        *)
(* implement this specification.                                           *)
(***************************************************************************)
EXTENDS Integers, FiniteSets

CONSTANTS
  Jobs,           \* identifiers of the jobs
  Machines,       \* the platform
  NeedsWalltime   \* whether the policy only serves jobs that have a walltime

VARIABLES
  status,         \* "future", "waiting", "running", "done" or "rejected"
  res,            \* requested number of machines, once submitted
  hasWalltime,    \* whether the job has a walltime, once submitted
  placed          \* machines held by every running job

vars == <<status, res, hasWalltime, placed>>

Init ==
  /\ status = [j \in Jobs |-> "future"]
  /\ res = [j \in Jobs |-> 0]
  /\ hasWalltime = [j \in Jobs |-> FALSE]
  /\ placed = [j \in Jobs |-> {}]

Free == Machines \ UNION {placed[j] : j \in Jobs}

\* No schedule can serve the job.
Hopeless(j) ==
  \/ res[j] > Cardinality(Machines)
  \/ NeedsWalltime /\ ~hasWalltime[j]

Submit(j) ==
  /\ status[j] = "future"
  /\ status' = [status EXCEPT ![j] = "waiting"]
  /\ res'[j] \in Nat
  /\ res' = [res EXCEPT ![j] = res'[j]]
  /\ hasWalltime'[j] \in BOOLEAN
  /\ hasWalltime' = [hasWalltime EXCEPT ![j] = hasWalltime'[j]]
  /\ UNCHANGED placed

Start(j, machines) ==
  /\ status[j] = "waiting"
  /\ ~Hopeless(j)
  /\ machines \subseteq Free
  /\ Cardinality(machines) = res[j]
  /\ status' = [status EXCEPT ![j] = "running"]
  /\ placed' = [placed EXCEPT ![j] = machines]
  /\ UNCHANGED <<res, hasWalltime>>

Reject(j) ==
  /\ status[j] = "waiting"
  /\ Hopeless(j)
  /\ status' = [status EXCEPT ![j] = "rejected"]
  /\ UNCHANGED <<res, hasWalltime, placed>>

Finish(j) ==
  /\ status[j] = "running"
  /\ status' = [status EXCEPT ![j] = "done"]
  /\ placed' = [placed EXCEPT ![j] = {}]
  /\ UNCHANGED <<res, hasWalltime>>

Next ==
  \E j \in Jobs :
    \/ Submit(j)
    \/ \E machines \in SUBSET Machines : Start(j, machines)
    \/ Reject(j)
    \/ Finish(j)

Spec == Init /\ [][Next]_vars
===============================================================================
