------------------------------ MODULE FCFSProofs ------------------------------
(***************************************************************************)
(* fcfs and fcfs_fast serve jobs in the order of their submission, for     *)
(* every platform, workload and resource selector.                         *)
(*                                                                         *)
(* FirstComeFirstServed is not inductive: it does not say that the queues  *)
(* are sorted, nor that a released job comes after every pending one, nor  *)
(* that jobs still to be submitted come after all others.                  *)
(***************************************************************************)
EXTENDS FCFS, Facts

\* Jobs are submitted in the order of their numbers.
FutureIsLast ==
  \A j, k \in Jobs : k < j /\ status[k] = "future" => status[j] = "future"

\* The jobs that wait are the pending and the released ones, in this order.
QueuesAreInOrder ==
  /\ Ascending(pending) /\ Ascending(released)
  /\ \A p \in ToSet(pending), r \in ToSet(released) : p < r
  /\ {j \in Jobs : status[j] = "waiting"} = ToSet(pending) \cup ToSet(released)

\* No job is served while an older one waits.
NobodyOvertaken ==
  \A j, k \in Jobs : k < j /\ status[k] = "waiting" => ~Served(j)

RejectedAreInvalid ==
  \A j \in Jobs : status[j] = "rejected" => ~IsValid(j)

InOrder ==
  /\ status \in [Jobs -> Status]
  /\ res \in [Jobs -> Nat]
  /\ pending \in Seq(Jobs) /\ released \in Seq(Jobs)
  /\ FutureIsLast
  /\ QueuesAreInOrder
  /\ NobodyOvertaken
  /\ RejectedAreInvalid

-------------------------------------------------------------------------------
(* The platform.                                                           *)

\* Every set of machines is finite, and has a size.
LEMMA MachinesFinite ==
  ASSUME NEW S \in SUBSET Machines
  PROVE  IsFiniteSet(S) /\ Cardinality(S) \in Nat
<1>1. IsFiniteSet(Machines)
  BY PlatformAssumption, FS_Interval DEF Machines
<1>2. IsFiniteSet(S)
  BY <1>1, FS_Subset
<1>. QED  BY <1>2, FS_CardinalityType

\* The platform has _nb_machines machines, numbered from 0.
LEMMA AllMachines == Cardinality(Machines) = NbMachines
  BY PlatformAssumption, FS_Interval DEF Machines

-------------------------------------------------------------------------------
\* A sequence of jobs is one of integers.
LEMMA JobsAreIntegers ==
  /\ \A j \in Jobs : j \in Int
  /\ \A s \in Seq(Jobs) : s \in Seq(Int)
<1>1. \A j \in Jobs : j \in Int
  BY DEF Jobs
<1>2. ASSUME NEW s \in Seq(Jobs)
      PROVE  s \in Seq(Int)
  <2>1. Len(s) \in Nat /\ DOMAIN s = 1 .. Len(s) /\ \A i \in 1 .. Len(s) : s[i] \in Int
    BY <1>1
  <2>2. s = [i \in 1 .. Len(s) |-> s[i]]
    OBVIOUS
  <2>. QED  BY <2>1, <2>2, SeqDef
<1>. QED  BY <1>1, <1>2

\* InOrder only depends on these variables.
LEMMA StutterKeepsOrder ==
  ASSUME InOrder, UNCHANGED <<status, res, pending, released>>
  PROVE  InOrder'
  BY DEF InOrder, FutureIsLast, QueuesAreInOrder, NobodyOvertaken, Served,
         RejectedAreInvalid, IsValid

\* A submitted job is the last of all that are known.
LEMMA SubmitKeepsOrder ==
  ASSUME InOrder, NEW j \in Jobs, NEW r \in Requests, NEW w \in Walltimes,
         Submit(j, r, w), UNCHANGED schedVars
  PROVE  InOrder'
<1>1. /\ status[j] = "future"
      /\ \A k \in Jobs : k < j => status[k] # "future"
      /\ status' = [status EXCEPT ![j] = "waiting"]
      /\ res' = [res EXCEPT ![j] = r]
      /\ released' = Append(released, j)
      /\ pending' = pending
  BY DEF Submit, schedVars
<1>2. \A k \in Jobs : j < k => status[k] = "future"
  BY <1>1 DEF InOrder, FutureIsLast
<1>3. \A k \in ToSet(pending) \cup ToSet(released) : k \in Jobs /\ k < j
  <2>. SUFFICES ASSUME NEW k \in ToSet(pending) \cup ToSet(released)
                PROVE  k \in Jobs /\ k < j
    OBVIOUS
  <2>1. k \in Jobs /\ status[k] = "waiting"
    BY DEF InOrder, QueuesAreInOrder
  <2>. QED  BY <1>1, <1>2, <2>1, JobsAreIntegers
<1>4. /\ released' \in Seq(Jobs)
      /\ ToSet(released') = ToSet(released) \cup {j}
      /\ Ascending(released')
  BY <1>1, <1>3, JobsAreIntegers, AppendToInjective, AppendToAscending
     DEF InOrder, QueuesAreInOrder
<1>5. r \in Nat
  BY PlatformAssumption
<1>6. /\ status' \in [Jobs -> Status] /\ res' \in [Jobs -> Nat]
      /\ pending' \in Seq(Jobs)
  BY <1>1, <1>5 DEF InOrder, Status
<1>7. FutureIsLast'
  BY <1>1 DEF InOrder, FutureIsLast
<1>8. QueuesAreInOrder'
  <2>1. {k \in Jobs : status'[k] = "waiting"}
          = {k \in Jobs : status[k] = "waiting"} \cup {j}
    BY <1>1 DEF InOrder
  <2>. QED  BY <1>1, <1>3, <1>4, <2>1 DEF InOrder, QueuesAreInOrder
<1>9. NobodyOvertaken'
  BY <1>1, <1>2 DEF InOrder, NobodyOvertaken, Served
<1>10. RejectedAreInvalid'
  BY <1>1 DEF InOrder, RejectedAreInvalid, IsValid
<1>. QED  BY <1>4, <1>6, <1>7, <1>8, <1>9, <1>10 DEF InOrder

\* A job that completes was served already.
LEMMA CompleteKeepsOrder ==
  ASSUME InOrder, NEW j \in Jobs, Complete(j), UNCHANGED schedVars
  PROVE  InOrder'
<1>1. /\ status[j] = "running"
      /\ status' = [status EXCEPT ![j] = "done"]
      /\ UNCHANGED <<res, pending, released>>
  BY DEF Complete, schedVars, jobVars
<1>2. {k \in Jobs : status'[k] = "waiting"} = {k \in Jobs : status[k] = "waiting"}
  BY <1>1 DEF InOrder
<1>3. QueuesAreInOrder'
  BY <1>1, <1>2 DEF InOrder, QueuesAreInOrder
<1>4. NobodyOvertaken'
  BY <1>1 DEF InOrder, NobodyOvertaken, Served
<1>. QED  BY <1>1, <1>3, <1>4
             DEF InOrder, Status, FutureIsLast, RejectedAreInvalid, IsValid

\* The oldest waiting job may leave the queues: to run, or to be rejected if
\* it is invalid.
LEMMA OldestLeaves ==
  ASSUME InOrder, NEW j \in Jobs, NEW st \in {"running", "rejected"},
         status[j] = "waiting",
         st = "rejected" => ~IsValid(j),
         st = "running" =>
           \A k \in ToSet(pending) \cup ToSet(released) : k # j => j < k,
         status' = [status EXCEPT ![j] = st], res' = res,
         pending' \in Seq(Jobs), released' \in Seq(Jobs),
         Ascending(pending'), Ascending(released'),
         ToSet(pending') = ToSet(pending) \ {j},
         ToSet(released') = ToSet(released) \ {j}
  PROVE  InOrder'
<1>1. {k \in Jobs : status'[k] = "waiting"}
        = {k \in Jobs : status[k] = "waiting"} \ {j}
  BY DEF InOrder
<1>2. QueuesAreInOrder'
  BY <1>1 DEF InOrder, QueuesAreInOrder
<1>3. NobodyOvertaken'
  <2>. SUFFICES ASSUME NEW i \in Jobs, NEW k \in Jobs, k < i,
                       status'[k] = "waiting", Served(i)'
                PROVE  FALSE
    BY DEF NobodyOvertaken
  <2>1. k # j /\ status[k] = "waiting"
    BY DEF InOrder
  <2>2. CASE i = j
    <3>1. st = "running"
      BY <2>2 DEF Served, InOrder
    <3>2. k \in ToSet(pending) \cup ToSet(released)
      BY <2>1 DEF InOrder, QueuesAreInOrder
    <3>. QED  BY <2>1, <2>2, <3>1, <3>2, JobsAreIntegers
  <2>3. CASE i # j
    BY <2>1, <2>3 DEF InOrder, NobodyOvertaken, Served
  <2>. QED  BY <2>2, <2>3
<1>4. RejectedAreInvalid'
  BY DEF InOrder, RejectedAreInvalid, IsValid
<1>. QED  BY <1>2, <1>3, <1>4 DEF InOrder, Status, FutureIsLast

\* The step of make_decisions that takes the oldest released job.
LEMMA TakenFromReleased ==
  ASSUME InOrder, NEW j \in Jobs, TakeReleased(j)
  PROVE  /\ res' = res
         /\ status[j] = "waiting"
         /\ j \in ToSet(released) /\ j \notin ToSet(pending)
         /\ released' \in Seq(Jobs) /\ Ascending(released')
         /\ ToSet(released') = ToSet(released) \ {j}
         /\ \A k \in ToSet(released) : k # j => j < k
<1>1. /\ released # <<>> /\ j = Head(released) /\ released' = Tail(released)
      /\ res' = res
  BY DEF TakeReleased, jobVars
<1>2. /\ j \in ToSet(released) /\ Ascending(released')
      /\ ToSet(released') = ToSet(released) \ {j}
      /\ \A k \in ToSet(released) : k # j => j < k
  BY <1>1, JobsAreIntegers, TailOfAscending DEF InOrder, QueuesAreInOrder
<1>3. released' \in Seq(Jobs)
  BY <1>1 DEF InOrder
<1>4. j \notin ToSet(pending)
  <2>1. ~(j < j)
    BY JobsAreIntegers
  <2>. QED  BY <1>2, <2>1 DEF InOrder, QueuesAreInOrder
<1>. QED  BY <1>1, <1>2, <1>3, <1>4 DEF InOrder, QueuesAreInOrder

\* Every step keeps the queues, and the service, in order.
LEMMA StepKeepsOrder ==
  ASSUME InOrder, [Next]_vars
  PROVE  InOrder'
<1>1. ASSUME NEW j \in Jobs, NEW r \in Requests, NEW w \in Walltimes,
             Submit(j, r, w), UNCHANGED schedVars
      PROVE  InOrder'
  BY <1>1, SubmitKeepsOrder
<1>2. ASSUME NEW j \in Jobs, Complete(j), UNCHANGED schedVars
      PROVE  InOrder'
  BY <1>2, CompleteKeepsOrder
<1>3. CASE \/ Tick /\ UNCHANGED schedVars
           \/ Receive \/ HandleEnded \/ EndedHandled \/ LaunchDone \/ Reply
           \/ UNCHANGED vars
  BY <1>3, StutterKeepsOrder
     DEF Tick, Receive, Send, HandleEnded, EndedHandled, LaunchDone, Reply,
         vars, batsimVars, worldVars, jobVars, schedVars
<1>4. CASE LaunchPending
  <2>. DEFINE j == Head(pending)
  <2>1. /\ pending # <<>> /\ pending' = Tail(pending) /\ released' = released
        /\ status' = [status EXCEPT ![j] = "running"] /\ res' = res
    BY <1>4 DEF LaunchPending, StartJob, ExecuteJob, jobVars
  <2>2. /\ j \in ToSet(pending) /\ Ascending(pending')
        /\ ToSet(pending') = ToSet(pending) \ {j}
        /\ \A k \in ToSet(pending) : k # j => j < k
    BY <2>1, JobsAreIntegers, TailOfAscending DEF InOrder, QueuesAreInOrder
  <2>3. pending' \in Seq(Jobs)
    BY <2>1 DEF InOrder
  <2>. HIDE DEF j
  <2>4. j \in Jobs /\ status[j] = "waiting"
    BY <2>2 DEF InOrder, QueuesAreInOrder
  <2>5. \A k \in ToSet(released) : j < k
    BY <2>2 DEF InOrder, QueuesAreInOrder
  <2>6. j \notin ToSet(released)
    BY <2>4, <2>5, JobsAreIntegers
  <2>. QED  BY <2>1, <2>2, <2>3, <2>4, <2>5, <2>6, OldestLeaves
               DEF InOrder, QueuesAreInOrder
<1>5. CASE RejectReleased
  <2>1. PICK j \in Jobs :
          /\ TakeReleased(j) /\ ~IsValid(j)
          /\ status' = [status EXCEPT ![j] = "rejected"] /\ pending' = pending
    BY <1>5 DEF RejectReleased, RejectJob
  <2>. QED  BY <2>1, TakenFromReleased, OldestLeaves DEF InOrder, QueuesAreInOrder
<1>6. CASE StartReleased
  <2>1. PICK j \in Jobs :
          /\ TakeReleased(j) /\ pending = <<>> /\ pending' = pending
          /\ status' = [status EXCEPT ![j] = "running"]
    BY <1>6 DEF StartReleased, StartJob, ExecuteJob
  <2>2. ToSet(pending) = {}
    BY <2>1 DEF ToSet
  <2>. QED  BY <2>1, <2>2, TakenFromReleased, OldestLeaves
               DEF InOrder, QueuesAreInOrder
<1>7. CASE QueueReleased
  <2>1. PICK j \in Jobs :
          /\ TakeReleased(j)
          /\ pending' = Append(pending, j) /\ status' = status
    BY <1>7 DEF QueueReleased, worldVars
  <2>2. /\ pending' \in Seq(Jobs) /\ Ascending(pending')
        /\ ToSet(pending') = ToSet(pending) \cup {j}
    BY <2>1, TakenFromReleased, JobsAreIntegers, AppendToInjective,
       AppendToAscending DEF InOrder, QueuesAreInOrder
  <2>3. QueuesAreInOrder'
    BY <2>1, <2>2, TakenFromReleased DEF InOrder, QueuesAreInOrder
  <2>. QED  BY <2>1, <2>2, <2>3, TakenFromReleased
               DEF InOrder, FutureIsLast, NobodyOvertaken, Served,
                   RejectedAreInvalid, IsValid
<1>. QED
  BY <1>1, <1>2, <1>3, <1>4, <1>5, <1>6, <1>7
     DEF Next, Platform, BatsimStep, MakeDecisions, Terminated

\* Before the simulation every job is still to be submitted.
LEMMA InitIsInOrder == Init => InOrder
<1>. SUFFICES ASSUME Init PROVE InOrder
  OBVIOUS
<1>1. ToSet(<<>>) = {} /\ Ascending(<<>>)
  BY DEF ToSet, Ascending
<1>. QED  BY <1>1 DEF Init, BatsimInit, InOrder, Status, FutureIsLast,
             QueuesAreInOrder, NobodyOvertaken, Served, RejectedAreInvalid

\* No job of fcfs.cpp or fcfs_fast.cpp starts before a valid job that was
\* submitted earlier, whatever the resource selector.
THEOREM FirstComeFirstServedHolds == Spec => []FirstComeFirstServed
<1>1. InOrder => FirstComeFirstServed
  <2>. SUFFICES ASSUME InOrder, NEW j \in Jobs, NEW k \in Jobs,
                       k < j, Served(j), IsValid(k)
                PROVE  Served(k)
    BY DEF FirstComeFirstServed
  <2>1. status[k] # "future"
    BY DEF InOrder, FutureIsLast, Served
  <2>2. status[k] # "waiting" /\ status[k] # "rejected"
    BY DEF InOrder, NobodyOvertaken, RejectedAreInvalid
  <2>. QED  BY <2>1, <2>2 DEF InOrder, Status, Served
<1>2. InOrder /\ [Next]_vars => InOrder'
  BY StepKeepsOrder
<1>. QED  BY <1>1, <1>2, InitIsInOrder, PTL DEF Spec

-------------------------------------------------------------------------------
(***************************************************************************)
(* Machines in fcfs and fcfs_fast, for every platform, workload and        *)
(* resource selector:                                                      *)
(*   - the scheduler's books always agree with the platform, although two  *)
(*     ways of placing a job share them;                                   *)
(*   - when Batsim has the hand, the oldest waiting job does not fit;      *)
(*   - the scheduler implements ResourceManager.                           *)
(*                                                                         *)
(* The invariant adds two parts to InOrder.  Books is about machines: as   *)
(* the code counts by the size a job asked for, it needs the exact size of *)
(* every allocation.  Queue is about the pending jobs: they could run on   *)
(* the empty platform, and their head does not fit as long as no job ended *)
(* since the selector was last asked.                                      *)
(***************************************************************************)

\* The ended jobs still to be handled are done, and each is there once.
EndedAreDone ==
  /\ ended \in Seq(Jobs)
  /\ IsInjective(ended)
  /\ \A j \in ToSet(ended) : status[j] = "done"

\* An allocation has the size its job asked for.
ExactSizes ==
  \A j \in Jobs : status[j] = "running" \/ j \in ToSet(ended)
                    => Cardinality(allocations[j]) = res[j]

\* Batsim only executes running jobs.
PlacedAreRunning ==
  \A j \in Jobs : status[j] = "running" \/ placed[j] = {}

Books ==
  /\ status \in [Jobs -> Status]
  /\ res \in [Jobs -> Nat]
  /\ hasWalltime \in [Jobs -> BOOLEAN]
  /\ placed \in [Jobs -> SUBSET Machines]
  /\ available \in SUBSET Machines
  /\ allocations \in [Jobs -> SUBSET Machines]
  /\ EndedAreDone
  /\ ExactSizes
  /\ PlacedAreRunning
  /\ ResourceAccounting

\* Submitted jobs ask for something, and pending ones not for too much.
SizesAreSound ==
  /\ \A j \in Jobs : status[j] # "future" => res[j] > 0
  /\ \A j \in ToSet(pending) : IsValid(j)

\* The program points at which no machine has been released since the head of
\* the queue was last found not to fit.
Unreleased == pc \in {"released", "batsim"} \/ (pc = "ended" /\ ~jobEnded)

HeadIsBlocked ==
  Unreleased /\ pending # <<>> => Fit(available, res[Head(pending)]) = {}

Queue ==
  /\ jobEnded \in BOOLEAN
  /\ pc = "ended" /\ ~jobEnded => ended = <<>>
  /\ SizesAreSound
  /\ HeadIsBlocked

RInv == InOrder /\ Books /\ Queue

-------------------------------------------------------------------------------
(* The two ways of placing a job.                                          *)

\* Machines j may be given: free ones, as many as it asked for.
MayTake(j, machines) ==
  machines \subseteq available /\ Cardinality(machines) = res[j]

\* A pending job goes where the selector finds room for it.
LEMMA FitMayBeTaken ==
  ASSUME Books, NEW j \in Jobs, res[j] > 0, IsValid(j), Fit(available, res[j]) # {}
  PROVE  MayTake(j, Fit(available, res[j]))
<1>1. available \in SUBSET Machines /\ res[j] \in 1 .. NbMachines
  BY PlatformAssumption DEF Books, IsValid
<1>. QED  BY <1>1, FitAssumption DEF MayTake

\* A released job goes to the leftmost machines, if there are enough.
LEMMA LeftMayBeTaken ==
  ASSUME Books, NEW j \in Jobs, res[j] <= nbAvailable
  PROVE  MayTake(j, Left(available, res[j]))
<1>1. available \in SUBSET Machines /\ res[j] \in 0 .. Cardinality(available)
  BY MachinesFinite DEF Books, ResourceAccounting
<1>. QED  BY <1>1, LeftAssumption DEF MayTake

\* A job for which there are not enough machines has no place in the selector
\* either.
LEMMA TooLargeDoesNotFit ==
  ASSUME Books, NEW j \in Jobs, res[j] > 0, IsValid(j), res[j] > nbAvailable
  PROVE  Fit(available, res[j]) = {}
<1>. SUFFICES ASSUME Fit(available, res[j]) # {}
              PROVE  FALSE
  OBVIOUS
<1>1. MayTake(j, Fit(available, res[j]))
  BY FitMayBeTaken
<1>2. available \in SUBSET Machines /\ nbAvailable = Cardinality(available)
  BY DEF Books, ResourceAccounting
<1>3. Cardinality(Fit(available, res[j])) <= Cardinality(available)
  BY <1>1, <1>2, CountMonotonic, MachinesFinite DEF MayTake
<1>4. res[j] \in Nat /\ nbAvailable \in Nat
  BY <1>2, MachinesFinite DEF Books
<1>. QED  BY <1>1, <1>2, <1>3, <1>4 DEF MayTake

-------------------------------------------------------------------------------
(* Books is preserved by each kind of change.                              *)

\* Starting a job on machines it may take keeps the books.
LEMMA StartKeepsBooks ==
  ASSUME Books, NEW j \in Jobs, status[j] = "waiting", NEW M, MayTake(j, M),
         StartJob(j, M), UNCHANGED <<jobVars, ended>>
  PROVE  Books'
<1>1. M \subseteq available /\ Cardinality(M) = res[j]
  BY DEF MayTake
<1>2. /\ status' = [status EXCEPT ![j] = "running"]
      /\ placed' = [placed EXCEPT ![j] = M]
      /\ available' = available \ M
      /\ nbAvailable' = nbAvailable - res[j]
      /\ allocations' = [allocations EXCEPT ![j] = M]
      /\ res' = res /\ hasWalltime' = hasWalltime /\ ended' = ended
  BY DEF StartJob, ExecuteJob, jobVars
<1>3. allocations[j] = {} /\ j \notin ToSet(ended)
  BY DEF Books, ResourceAccounting, EndedAreDone
<1>4. /\ status' \in [Jobs -> Status]
      /\ res' \in [Jobs -> Nat] /\ hasWalltime' \in [Jobs -> BOOLEAN]
      /\ placed' \in [Jobs -> SUBSET Machines]
      /\ available' \in SUBSET Machines
      /\ allocations' \in [Jobs -> SUBSET Machines]
  BY <1>1, <1>2 DEF Books, Status
<1>5. EndedAreDone'
  BY <1>2, <1>3 DEF Books, EndedAreDone
<1>6. ExactSizes'
  BY <1>1, <1>2 DEF Books, ExactSizes
<1>7. PlacedAreRunning'
  BY <1>2 DEF Books, PlacedAreRunning
<1>8. ResourceAccounting'
  <2>1. nbAvailable' = Cardinality(available')
    <3>1. available \in SUBSET Machines /\ nbAvailable = Cardinality(available)
      BY DEF Books, ResourceAccounting
    <3>2. IsFiniteSet(available) /\ M \in SUBSET available
      BY <1>1, <3>1, MachinesFinite
    <3>3. Cardinality(available \ M) = Cardinality(available) - Cardinality(M)
      BY <3>2, CountRemoved
    <3>. QED  BY <1>1, <1>2, <3>1, <3>3
  <2>2. available' = Machines \ UNION {allocations'[k] : k \in Jobs}
    BY <1>1, <1>2, <1>3 DEF Books, ResourceAccounting
  <2>3. \A k, l \in Jobs : k # l => allocations'[k] \cap allocations'[l] = {}
    BY <1>1, <1>2 DEF Books, ResourceAccounting
  <2>4. \A k \in Jobs :
          /\ status'[k] = "running" => allocations'[k] = placed'[k]
          /\ status'[k] = "running" \/ k \in ToSet(ended') \/ allocations'[k] = {}
    BY <1>2 DEF Books, ResourceAccounting
  <2>. QED  BY <2>1, <2>2, <2>3, <2>4 DEF ResourceAccounting
<1>. QED  BY <1>4, <1>5, <1>6, <1>7, <1>8 DEF Books

\* Taking back the machines of an ended job keeps the books.
LEMMA HandleEndedKeepsBooks ==
  ASSUME Books, HandleEnded
  PROVE  Books'
<1>. DEFINE j == Head(ended)
<1>1. /\ ended # <<>>
      /\ ended' = Tail(ended)
      /\ available' = available \cup allocations[j]
      /\ nbAvailable' = nbAvailable + res[j]
      /\ allocations' = [allocations EXCEPT ![j] = {}]
      /\ UNCHANGED <<status, res, hasWalltime, placed>>
  BY DEF HandleEnded, worldVars, jobVars
<1>2. /\ ended' \in Seq(Jobs)
      /\ j \in Jobs /\ j \in ToSet(ended)
      /\ IsInjective(ended')
      /\ ToSet(ended') = ToSet(ended) \ {j}
  BY <1>1, TailOfInjective DEF Books, EndedAreDone
<1>. HIDE DEF j
<1>3. /\ status[j] = "done"
      /\ Cardinality(allocations[j]) = res[j]
      /\ allocations[j] \in SUBSET Machines
      /\ available \cap allocations[j] = {}
  BY <1>2 DEF Books, EndedAreDone, ExactSizes, ResourceAccounting
<1>4. /\ status' \in [Jobs -> Status]
      /\ res' \in [Jobs -> Nat] /\ hasWalltime' \in [Jobs -> BOOLEAN]
      /\ placed' \in [Jobs -> SUBSET Machines]
      /\ available' \in SUBSET Machines
      /\ allocations' \in [Jobs -> SUBSET Machines]
  BY <1>1, <1>3 DEF Books
<1>5. EndedAreDone'
  BY <1>1, <1>2 DEF Books, EndedAreDone
<1>6. ExactSizes'
  BY <1>1, <1>2, <1>3 DEF Books, ExactSizes
<1>7. PlacedAreRunning'
  BY <1>1 DEF Books, PlacedAreRunning
<1>8. ResourceAccounting'
  <2>1. nbAvailable' = Cardinality(available')
    <3>1. available \in SUBSET Machines /\ nbAvailable = Cardinality(available)
      BY DEF Books, ResourceAccounting
    <3>2. IsFiniteSet(available) /\ IsFiniteSet(allocations[j])
      BY <1>3, <3>1, MachinesFinite
    <3>3. Cardinality(available \cup allocations[j])
            = Cardinality(available) + Cardinality(allocations[j])
      BY <1>3, <3>2, CountAdded
    <3>. QED  BY <1>1, <1>3, <3>1, <3>3
  <2>2. available' = Machines \ UNION {allocations'[k] : k \in Jobs}
    BY <1>1, <1>2 DEF Books, ResourceAccounting
  <2>3. \A k, l \in Jobs : k # l => allocations'[k] \cap allocations'[l] = {}
    BY <1>1 DEF Books, ResourceAccounting
  <2>4. \A k \in Jobs :
          /\ status'[k] = "running" => allocations'[k] = placed'[k]
          /\ status'[k] = "running" \/ k \in ToSet(ended') \/ allocations'[k] = {}
    BY <1>1, <1>2, <1>3 DEF Books, ResourceAccounting
  <2>. QED  BY <2>1, <2>2, <2>3, <2>4 DEF ResourceAccounting
<1>. QED  BY <1>4, <1>5, <1>6, <1>7, <1>8 DEF Books

\* A submission only concerns a job that holds nothing: the books are kept.
LEMMA SubmitKeepsBooks ==
  ASSUME Books, NEW j \in Jobs, NEW r \in Requests, NEW w \in Walltimes,
         Submit(j, r, w), UNCHANGED schedVars
  PROVE  Books'
<1>1. /\ status[j] = "future"
      /\ status' = [status EXCEPT ![j] = "waiting"]
      /\ res' = [res EXCEPT ![j] = r]
      /\ hasWalltime' = [hasWalltime EXCEPT ![j] = (w # NoWalltime)]
      /\ UNCHANGED <<placed, ended, available, nbAvailable, allocations>>
  BY DEF Submit, schedVars, platformVars
<1>2. j \notin ToSet(ended)
  BY <1>1 DEF Books, EndedAreDone
<1>3. r \in Nat
  BY PlatformAssumption
<1>4. /\ status' \in [Jobs -> Status] /\ res' \in [Jobs -> Nat]
      /\ placed' \in [Jobs -> SUBSET Machines]
      /\ available' \in SUBSET Machines
      /\ allocations' \in [Jobs -> SUBSET Machines]
  BY <1>1, <1>3 DEF Books, Status
<1>5. hasWalltime' \in [Jobs -> BOOLEAN]
  BY <1>1 DEF Books
<1>6. EndedAreDone'
  BY <1>1, <1>2 DEF Books, EndedAreDone
<1>7. ExactSizes'
  BY <1>1, <1>2 DEF Books, ExactSizes
<1>8. PlacedAreRunning'
  BY <1>1 DEF Books, PlacedAreRunning
<1>9. ResourceAccounting'
  BY <1>1 DEF Books, ResourceAccounting
<1>. QED  BY <1>4, <1>5, <1>6, <1>7, <1>8, <1>9 DEF Books

\* A job that completes on the platform keeps its allocation until its end is
\* handled: the books are kept.
LEMMA CompleteKeepsBooks ==
  ASSUME Books, NEW j \in Jobs, Complete(j), UNCHANGED schedVars
  PROVE  Books'
<1>1. /\ status[j] = "running"
      /\ status' = [status EXCEPT ![j] = "done"]
      /\ placed' = [placed EXCEPT ![j] = {}]
      /\ ended' = Append(ended, j)
      /\ UNCHANGED <<res, hasWalltime, available, nbAvailable, allocations>>
  BY DEF Complete, jobVars, schedVars, platformVars
<1>2. j \notin ToSet(ended)
  BY <1>1 DEF Books, EndedAreDone
<1>3. /\ ended' \in Seq(Jobs)
      /\ IsInjective(ended')
      /\ ToSet(ended') = ToSet(ended) \cup {j}
  BY <1>1, <1>2, AppendToInjective DEF Books, EndedAreDone
<1>4. /\ status' \in [Jobs -> Status]
      /\ res' \in [Jobs -> Nat] /\ hasWalltime' \in [Jobs -> BOOLEAN]
      /\ placed' \in [Jobs -> SUBSET Machines]
      /\ available' \in SUBSET Machines
      /\ allocations' \in [Jobs -> SUBSET Machines]
  BY <1>1 DEF Books, Status
<1>5. EndedAreDone'
  BY <1>1, <1>2, <1>3 DEF Books, EndedAreDone
<1>6. ExactSizes'
  BY <1>1, <1>2, <1>3 DEF Books, ExactSizes
<1>7. PlacedAreRunning'
  BY <1>1 DEF Books, PlacedAreRunning
<1>8. ResourceAccounting'
  <2>1. ASSUME NEW k \in Jobs
        PROVE  /\ status'[k] = "running" => allocations'[k] = placed'[k]
               /\ status'[k] = "running" \/ k \in ToSet(ended') \/ allocations'[k] = {}
    <3>1. CASE k = j
      BY <1>1, <1>3, <3>1 DEF Books
    <3>2. CASE k # j
      BY <1>1, <1>3, <3>2 DEF Books, ResourceAccounting
    <3>. QED  BY <3>1, <3>2
  <2>2. /\ nbAvailable' = Cardinality(available')
        /\ available' = Machines \ UNION {allocations'[k] : k \in Jobs}
        /\ \A k, l \in Jobs : k # l => allocations'[k] \cap allocations'[l] = {}
    BY <1>1 DEF Books, ResourceAccounting
  <2>. QED  BY <2>1, <2>2 DEF ResourceAccounting
<1>. QED  BY <1>4, <1>5, <1>6, <1>7, <1>8 DEF Books

\* Rejecting a waiting job moves no machine: the books are kept.
LEMMA RejectKeepsBooks ==
  ASSUME Books, NEW j \in Jobs, status[j] = "waiting", RejectJob(j),
         UNCHANGED <<jobVars, ended, platformVars>>
  PROVE  Books'
<1>1. /\ j \notin ToSet(ended)
      /\ status' = [status EXCEPT ![j] = "rejected"]
      /\ UNCHANGED <<placed, res, hasWalltime, ended, available, nbAvailable,
                     allocations>>
  BY DEF Books, EndedAreDone, RejectJob, jobVars, platformVars
<1>2. status' \in [Jobs -> Status] /\ EndedAreDone' /\ ExactSizes' /\ PlacedAreRunning'
  BY <1>1 DEF Books, Status, EndedAreDone, ExactSizes, PlacedAreRunning
<1>3. ResourceAccounting'
  BY <1>1 DEF Books, ResourceAccounting
<1>. QED  BY <1>1, <1>2, <1>3 DEF Books

\* Steps that change neither jobs nor machines keep the books.
LEMMA StutterKeepsBooks ==
  ASSUME Books, UNCHANGED <<status, placed, jobVars, ended, platformVars>>
  PROVE  Books'
  BY DEF Books, EndedAreDone, ExactSizes, PlacedAreRunning, ResourceAccounting,
         jobVars, platformVars

-------------------------------------------------------------------------------
(* The steps.                                                              *)

\* What the head of the queue is.
LEMMA HeadOfPending ==
  ASSUME RInv, pending # <<>>
  PROVE  /\ Head(pending) \in Jobs /\ Head(pending) \in ToSet(pending)
         /\ status[Head(pending)] = "waiting" /\ IsValid(Head(pending))
         /\ res[Head(pending)] > 0
<1>1. Head(pending) \in Jobs /\ Head(pending) \in ToSet(pending)
  <2>1. Head(pending) = pending[1] /\ 1 \in DOMAIN pending /\ pending[1] \in Jobs
    BY DEF RInv, InOrder
  <2>. QED  BY <2>1 DEF ToSet
<1>. QED  BY <1>1 DEF RInv, InOrder, QueuesAreInOrder, Queue, SizesAreSound

\* Whatever the program point, a job is started on machines it may take.
LEMMA StartsAreSound ==
  ASSUME RInv, LaunchPending \/ StartReleased
  PROVE  \E j \in Jobs, M \in SUBSET Machines :
           /\ status[j] = "waiting" /\ IsValid(j) /\ MayTake(j, M)
           /\ StartJob(j, M)
           /\ UNCHANGED <<jobVars, ended>>
<1>1. Books
  BY DEF RInv
<1>2. \A j \in Jobs : \A M : MayTake(j, M) => M \in SUBSET Machines
  BY <1>1 DEF MayTake, Books
<1>3. CASE LaunchPending
  <2>. DEFINE j == Head(pending)
              M == Fit(available, res[j])
  <2>1. /\ pending # <<>> /\ M # {}
        /\ StartJob(j, M) /\ UNCHANGED <<jobVars, ended>>
    BY <1>3 DEF LaunchPending
  <2>2. j \in Jobs /\ status[j] = "waiting" /\ IsValid(j) /\ res[j] > 0
    BY <2>1, HeadOfPending
  <2>. HIDE DEF j
  <2>3. MayTake(j, M)
    BY <1>1, <2>1, <2>2, FitMayBeTaken
  <2>. QED  BY <1>2, <2>1, <2>2, <2>3
<1>4. CASE StartReleased
  <2>1. PICK j \in Jobs :
          /\ TakeReleased(j) /\ IsValid(j) /\ res[j] <= nbAvailable
          /\ StartJob(j, Left(available, res[j]))
    BY <1>4 DEF StartReleased
  <2>2. status[j] = "waiting" /\ UNCHANGED <<jobVars, ended>>
    BY <2>1, TakenFromReleased DEF RInv, TakeReleased
  <2>3. MayTake(j, Left(available, res[j]))
    BY <1>1, <2>1, LeftMayBeTaken
  <2>. QED  BY <1>2, <2>1, <2>2, <2>3
<1>. QED  BY <1>3, <1>4

\* Every step keeps the books.
LEMMA StepKeepsBooks ==
  ASSUME RInv, [Next]_vars
  PROVE  Books'
<1>. Books /\ InOrder
  BY DEF RInv
<1>1. ASSUME NEW j \in Jobs, NEW r \in Requests, NEW w \in Walltimes,
             Submit(j, r, w), UNCHANGED schedVars
      PROVE  Books'
  BY <1>1, SubmitKeepsBooks
<1>2. ASSUME NEW j \in Jobs, Complete(j), UNCHANGED schedVars
      PROVE  Books'
  BY <1>2, CompleteKeepsBooks
<1>3. CASE \/ Tick /\ UNCHANGED schedVars
           \/ Receive \/ EndedHandled \/ LaunchDone \/ QueueReleased \/ Reply
           \/ UNCHANGED vars
  BY <1>3, StutterKeepsBooks
     DEF Tick, Receive, Send, EndedHandled, LaunchDone, QueueReleased, TakeReleased,
         Reply, vars, batsimVars, worldVars, schedVars
<1>4. CASE HandleEnded
  BY <1>4, HandleEndedKeepsBooks
<1>5. CASE LaunchPending \/ StartReleased
  BY <1>5, StartsAreSound, StartKeepsBooks
<1>6. CASE RejectReleased
  <2>1. PICK j \in Jobs : TakeReleased(j) /\ RejectJob(j) /\ UNCHANGED platformVars
    BY <1>6 DEF RejectReleased
  <2>2. status[j] = "waiting" /\ UNCHANGED <<jobVars, ended>>
    BY <2>1, TakenFromReleased DEF TakeReleased
  <2>. QED  BY <2>1, <2>2, RejectKeepsBooks
<1>. QED
  BY <1>1, <1>2, <1>3, <1>4, <1>5, <1>6
     DEF Next, Platform, BatsimStep, MakeDecisions, Terminated

\* Steps that neither release machines nor move the head of the queue.
LEMMA StutterKeepsQueue ==
  ASSUME RInv, UNCHANGED <<pending, available, jobEnded>>,
         \A k \in Jobs : status'[k] # "future" => status[k] # "future",
         res' = res, Unreleased' => Unreleased,
         pc' = "ended" => pc = "ended" /\ ended' = ended
  PROVE  Queue'
  BY DEF RInv, Queue, SizesAreSound, HeadIsBlocked, IsValid

\* Every step keeps Queue.
LEMMA StepKeepsQueue ==
  ASSUME RInv, [Next]_vars
  PROVE  Queue'
<1>. Books /\ InOrder /\ Queue
  BY DEF RInv
<1>. USE DEF Unreleased
<1>1. ASSUME NEW j \in Jobs, NEW r \in Requests, NEW w \in Walltimes,
             Submit(j, r, w), UNCHANGED schedVars
      PROVE  Queue'
  <2>1. /\ pc = "batsim" /\ pc' = pc /\ status[j] = "future"
        /\ status' = [status EXCEPT ![j] = "waiting"]
        /\ res' = [res EXCEPT ![j] = r] /\ r > 0 /\ r \in Nat
        /\ UNCHANGED <<pending, available, jobEnded>>
    BY <1>1, PlatformAssumption DEF Submit, schedVars, platformVars
  <2>2. \A k \in ToSet(pending) : k \in Jobs /\ res'[k] = res[k]
    BY <2>1 DEF InOrder, QueuesAreInOrder
  <2>3. SizesAreSound'
    BY <2>1, <2>2 DEF Queue, SizesAreSound, IsValid, Books
  <2>4. HeadIsBlocked'
    BY <2>1, <2>2, HeadOfPending DEF Queue, HeadIsBlocked
  <2>. QED  BY <2>1, <2>3, <2>4 DEF Queue
<1>2. ASSUME NEW j \in Jobs, Complete(j), UNCHANGED schedVars
      PROVE  Queue'
  <2>1. /\ pc = "batsim" /\ pc' = pc /\ res' = res
        /\ \A k \in Jobs : status'[k] # "future" => status[k] # "future"
        /\ UNCHANGED <<pending, available, jobEnded>>
    BY <1>2 DEF Complete, jobVars, schedVars, platformVars, Books
  <2>. QED  BY <2>1, StutterKeepsQueue
<1>3. CASE \/ Tick /\ UNCHANGED schedVars
           \/ UNCHANGED vars
  <2>1. UNCHANGED <<pc, status, res, ended, pending, available, jobEnded>>
    BY <1>3 DEF Tick, jobVars, vars, batsimVars, worldVars, schedVars, platformVars
  <2>. QED  BY <2>1, StutterKeepsQueue
<1>4. CASE Receive
  BY <1>4 DEF Receive, Send, worldVars, jobVars, platformVars, Queue, SizesAreSound,
              HeadIsBlocked, IsValid
<1>5. CASE HandleEnded
  <2>1. /\ pc' = "ended" /\ jobEnded' = jobEnded /\ jobEnded
        /\ UNCHANGED <<status, res, pending>>
    BY <1>5 DEF HandleEnded, worldVars, jobVars, Queue
  <2>. QED  BY <2>1 DEF Queue, SizesAreSound, HeadIsBlocked, IsValid
<1>6. CASE EndedHandled
  <2>1. /\ pc = "ended" /\ pc' = IF jobEnded THEN "launch" ELSE "released"
        /\ UNCHANGED <<status, res, ended, pending, available, jobEnded>>
    BY <1>6 DEF EndedHandled, worldVars, jobVars, schedVars, platformVars
  <2>2. Unreleased' => Unreleased
    BY <2>1 DEF Queue
  <2>3. pc' # "ended"
    BY <2>1
  <2>. QED  BY <2>1, <2>2, <2>3, StutterKeepsQueue
<1>7. CASE LaunchPending
  <2>1. /\ pc' = "launch" /\ pending # <<>> /\ pending' = Tail(pending)
        /\ status' = [status EXCEPT ![Head(pending)] = "running"]
        /\ UNCHANGED <<res, jobEnded>>
    BY <1>7 DEF LaunchPending, StartJob, ExecuteJob, jobVars
  <2>2. ToSet(pending') \subseteq ToSet(pending)
    BY <2>1, JobsAreIntegers, TailOfAscending DEF InOrder, QueuesAreInOrder
  <2>3. \A k \in Jobs : status'[k] # "future" => status[k] # "future"
    BY <2>1, HeadOfPending DEF Books
  <2>. QED  BY <2>1, <2>2, <2>3 DEF Queue, SizesAreSound, HeadIsBlocked, IsValid
<1>8. CASE LaunchDone
  BY <1>8 DEF LaunchDone, worldVars, jobVars, schedVars, platformVars, Queue,
              SizesAreSound, HeadIsBlocked, IsValid
<1>9. CASE RejectReleased
  <2>1. PICK j \in Jobs :
          /\ TakeReleased(j) /\ status' = [status EXCEPT ![j] = "rejected"]
          /\ UNCHANGED <<pc, res, pending, available, jobEnded>> /\ pc = "released"
    BY <1>9 DEF RejectReleased, TakeReleased, RejectJob, jobVars, platformVars
  <2>2. status[j] = "waiting"
    BY <2>1, TakenFromReleased
  <2>3. \A k \in Jobs : status'[k] # "future" => status[k] # "future"
    BY <2>1, <2>2 DEF Books
  <2>. QED  BY <2>1, <2>3, StutterKeepsQueue
<1>10. CASE StartReleased
  <2>1. PICK j \in Jobs :
          /\ TakeReleased(j) /\ status' = [status EXCEPT ![j] = "running"]
          /\ UNCHANGED <<pc, res, pending, jobEnded>> /\ pc = "released"
          /\ pending = <<>>
    BY <1>10 DEF StartReleased, TakeReleased, StartJob, ExecuteJob, jobVars
  <2>2. status[j] = "waiting"
    BY <2>1, TakenFromReleased
  <2>3. \A k \in Jobs : status'[k] # "future" => status[k] # "future"
    BY <2>1, <2>2 DEF Books
  <2>. QED  BY <2>1, <2>3 DEF Queue, SizesAreSound, HeadIsBlocked, IsValid
<1>11. CASE QueueReleased
  <2>1. PICK j \in Jobs :
          /\ TakeReleased(j) /\ IsValid(j) /\ pending' = Append(pending, j)
          /\ pending # <<>> \/ res[j] > nbAvailable
          /\ UNCHANGED <<pc, status, res, available, jobEnded>> /\ pc = "released"
    BY <1>11 DEF QueueReleased, TakeReleased, worldVars, jobVars, platformVars
  <2>2. ToSet(pending') = ToSet(pending) \cup {j} /\ pending \in Seq(Jobs)
    BY <2>1, AppendToInjective DEF InOrder
  <2>3. SizesAreSound'
    BY <2>1, <2>2 DEF Queue, SizesAreSound, IsValid
  <2>4. CASE pending # <<>>
    <3>1. Head(pending') = Head(pending)
      BY <2>1, <2>2, <2>4
    <3>. QED  BY <2>1, <2>3, <2>4, <3>1 DEF Queue, HeadIsBlocked
  <2>5. CASE pending = <<>>
    <3>1. Head(pending') = j
      BY <2>1, <2>5
    <3>2. status[j] = "waiting"
      BY <2>1, TakenFromReleased
    <3>3. Fit(available, res[j]) = {}
      BY <2>1, <2>5, <3>2, TooLargeDoesNotFit DEF Queue, SizesAreSound
    <3>. QED  BY <2>1, <2>3, <3>1, <3>3 DEF Queue, HeadIsBlocked
  <2>. QED  BY <2>4, <2>5
<1>12. CASE Reply
  BY <1>12 DEF Reply, worldVars, jobVars, platformVars, Queue, SizesAreSound,
               HeadIsBlocked, IsValid
<1>. QED
  BY <1>1, <1>2, <1>3, <1>4, <1>5, <1>6, <1>7, <1>8, <1>9, <1>10, <1>11, <1>12
     DEF Next, Platform, BatsimStep, MakeDecisions, Terminated

-------------------------------------------------------------------------------
\* The inductive invariant holds when the simulation starts.
LEMMA InitEstablishesRInv == Init => RInv
<1>. SUFFICES ASSUME Init PROVE RInv
  OBVIOUS
<1>1. InOrder
  BY InitIsInOrder
<1>. USE DEF Init, BatsimInit
<1>2. ToSet(<<>>) = {} /\ IsInjective(<<>>)
  BY DEF ToSet, IsInjective
<1>3. nbAvailable = Cardinality(available)
  BY AllMachines
<1>4. ResourceAccounting
  BY <1>3 DEF ResourceAccounting
<1>5. Books
  BY <1>2, <1>4 DEF Books, EndedAreDone, ExactSizes, PlacedAreRunning, Status
<1>6. Queue
  BY <1>2 DEF Queue, SizesAreSound, HeadIsBlocked
<1>. QED  BY <1>1, <1>5, <1>6 DEF RInv

\* The inductive invariant holds of every behaviour.
LEMMA RInvHolds == Spec => []RInv
<1>1. RInv /\ [Next]_vars => RInv'
  BY StepKeepsOrder, StepKeepsBooks, StepKeepsQueue DEF RInv
<1>. QED  BY <1>1, InitEstablishesRInv, PTL DEF Spec

\* The counter, the set of free machines and the allocations of fcfs.cpp and
\* fcfs_fast.cpp agree with one another and with the platform, always.
THEOREM ResourceAccountingHolds == Spec => []ResourceAccounting
<1>1. RInv => ResourceAccounting
  BY DEF RInv, Books
<1>. QED  BY <1>1, RInvHolds, PTL

\* When make_decisions has returned, the resource selector has no place for
\* the oldest waiting job.
THEOREM QueueIsBlockedHolds == Spec => []QueueIsBlocked
<1>1. RInv => QueueIsBlocked
  BY DEF RInv, Queue, HeadIsBlocked, Unreleased, QueueIsBlocked
<1>. QED  BY <1>1, RInvHolds, PTL

-------------------------------------------------------------------------------
(* The refinement.                                                         *)

\* Cardinality means the same in the instance.
LEMMA SameCardinality == \A S : RM!Cardinality(S) = Cardinality(S)
  BY DEF RM!Cardinality, Cardinality

\* Starting a valid job on free machines is what ResourceManager calls Start.
LEMMA StartImplementsStart ==
  ASSUME RInv, NEW j \in Jobs, NEW M \in SUBSET Machines, status[j] = "waiting",
         IsValid(j), MayTake(j, M), StartJob(j, M), UNCHANGED jobVars
  PROVE  RM!Next
<1>1. /\ status' = [status EXCEPT ![j] = "running"]
      /\ placed' = [placed EXCEPT ![j] = M]
      /\ UNCHANGED <<res, hasWalltime>>
  BY DEF StartJob, ExecuteJob, jobVars
<1>2. M \subseteq RM!Free
  <2>1. \A k \in Jobs : placed[k] \subseteq allocations[k]
    BY DEF RInv, Books, ResourceAccounting, PlacedAreRunning
  <2>2. UNION {placed[k] : k \in Jobs} \subseteq UNION {allocations[k] : k \in Jobs}
    BY <2>1
  <2>. QED  BY <2>2 DEF MayTake, RInv, Books, ResourceAccounting, RM!Free
<1>3. ~RM!Hopeless(j)
  <2>1. ~(res[j] > Cardinality(Machines))
    BY AllMachines, PlatformAssumption DEF IsValid, RInv, Books
  <2>. QED  BY <2>1, SameCardinality DEF RM!Hopeless
<1>4. RM!Start(j, M)
  BY <1>1, <1>2, <1>3, SameCardinality DEF MayTake, RM!Start
<1>. QED  BY <1>4 DEF RM!Next

\* Every step of the scheduler is a step of ResourceManager, or changes nothing
\* of what it sees.
LEMMA StepImplementsStep ==
  ASSUME RInv, [Next]_vars
  PROVE  [RM!Next]_RM!vars
<1>. USE DEF RM!vars
<1>1. ASSUME NEW j \in Jobs, NEW r \in Requests, NEW w \in Walltimes,
             Submit(j, r, w)
      PROVE  RM!Next
  <2>1. r \in Nat
    BY PlatformAssumption
  <2>2. res'[j] = r /\ hasWalltime'[j] = (w # NoWalltime)
    BY <1>1 DEF Submit, RInv, Books
  <2>3. RM!Submit(j)
    BY <1>1, <2>1, <2>2 DEF Submit, RM!Submit
  <2>. QED  BY <2>3 DEF RM!Next
<1>2. ASSUME NEW j \in Jobs, Complete(j)
      PROVE  RM!Next
  BY <1>2 DEF Complete, jobVars, RM!Finish, RM!Next
<1>3. CASE \/ Tick \/ Receive \/ HandleEnded \/ EndedHandled \/ LaunchDone
           \/ QueueReleased \/ Reply \/ UNCHANGED vars
  BY <1>3 DEF Tick, Receive, Send, HandleEnded, EndedHandled, LaunchDone,
       QueueReleased, TakeReleased, Reply, vars, batsimVars, worldVars, jobVars
<1>4. CASE LaunchPending \/ StartReleased
  BY <1>4, StartsAreSound, StartImplementsStart
<1>5. CASE RejectReleased
  <2>1. PICK j \in Jobs : TakeReleased(j) /\ ~IsValid(j) /\ RejectJob(j)
    BY <1>5 DEF RejectReleased
  <2>2. RM!Hopeless(j)
    <3>1. res[j] > Cardinality(Machines) \/ res[j] <= NbMachines
      BY AllMachines, PlatformAssumption DEF RInv, Books
    <3>. QED  BY <2>1, <3>1, SameCardinality DEF IsValid, RM!Hopeless
  <2>3. status[j] = "waiting" /\ UNCHANGED jobVars
    BY <2>1, TakenFromReleased DEF RInv, TakeReleased
  <2>4. RM!Reject(j)
    BY <2>1, <2>2, <2>3 DEF RejectJob, RM!Reject, jobVars
  <2>. QED  BY <2>4 DEF RM!Next
<1>. QED
  BY <1>1, <1>2, <1>3, <1>4, <1>5
     DEF Next, Platform, BatsimStep, MakeDecisions, Terminated

\* fcfs.cpp and fcfs_fast.cpp keep the promises of ResourceManager: they start a
\* job at most once, on as many free machines as it asked for, and reject only
\* the jobs that are larger than the platform.
THEOREM Implementation == Spec => ImplementsResourceManager
<1>1. Init => RM!Init
  BY DEF Init, BatsimInit, RM!Init
<1>. QED
  BY <1>1, StepImplementsStep, RInvHolds, PTL
     DEF Spec, ImplementsResourceManager, RM!Spec
===============================================================================
