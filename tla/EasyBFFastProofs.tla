--------------------------- MODULE EasyBFFastProofs ---------------------------
(***************************************************************************)
(* Proofs about EasyBFFast, for every platform, workload and bound:        *)
(*   - the scheduler's books always agree with the platform;               *)
(*   - no waiting job is forgotten or queued twice;                        *)
(*   - the scheduler implements ResourceManager;                           *)
(*   - the horizon points are sorted and match the allocations;            *)
(*   - the machines that are free by the expected start of the priority    *)
(*     job suffice for it, whatever is backfilled;                         *)
(*   - that date is never in the past and never postponed;                 *)
(*   - nothing that could be backfilled is left when Batsim has the hand.  *)
(*                                                                         *)
(* The first three need the inductive invariant IInv, of two parts.  Books *)
(* is about machines: ResourceAccounting needs the exact size of every     *)
(* allocation, since the code counts machines by the size jobs asked for   *)
(* and not by the machines it gives back.  Queues is about waiting jobs:   *)
(* NoJobForgotten needs to know at which program points there is (or is    *)
(* not) a priority job, and the refinement that only valid jobs are        *)
(* queued.                                                                 *)
(*                                                                         *)
(* The others need PInv, which adds four parts to IInv.  Horizons is about *)
(* the list: it needs the relation of its dates to the deadlines of the    *)
(* jobs.  Turns says what is known at each program point, the reason why   *)
(* it is enough to reconsider the queue when a job ended.  Promise is the  *)
(* reservation, and Tried what is known of the jobs that were not          *)
(* backfilled.                                                             *)
(***************************************************************************)
EXTENDS EasyBFFast, Facts

\* The ended jobs still to be handled are done, and each is there once.
EndedAreDone ==
  /\ ended \in Seq(Jobs)
  /\ IsInjective(ended)
  /\ \A j \in ToSet(ended) : status[j] = "done"

\* An allocation has the size its job asked for.
ExactSizes ==
  \A j \in Jobs : status[j] = "running" \/ j \in ToSet(ended)
                    => Cardinality(allocations[j]) = res[j]

\* Batsim only executes running jobs.
PlacedAreRunning ==
  \A j \in Jobs : status[j] = "running" \/ placed[j] = {}

Books ==
  /\ status \in [Jobs -> Status]
  /\ res \in [Jobs -> Nat]
  /\ placed \in [Jobs -> SUBSET Machines]
  /\ available \in SUBSET Machines
  /\ allocations \in [Jobs -> SUBSET Machines]
  /\ EndedAreDone
  /\ ExactSizes
  /\ PlacedAreRunning
  /\ ResourceAccounting

\* Only jobs that the platform can serve are queued.
QueuedAreValid ==
  \A j \in ToSet(pending) \cup ({priority} \ {NullJob}) : IsValid(j)

\* The launch of the priority job is only tried when there is one, and the
\* queue is only launched when there is none left.
ControlPoints ==
  /\ pc = "priority" => priority # NullJob
  /\ pc = "launch" => priority = NullJob

Queues ==
  /\ hasWalltime \in [Jobs -> BOOLEAN]
  /\ released \in Seq(Jobs)
  /\ pending \in Seq(Jobs)
  /\ priority \in Jobs \cup {NullJob}
  /\ cursor \in Nat \ {0}
  /\ NoJobForgotten
  /\ QueuedAreValid
  /\ ControlPoints

IInv == Books /\ Queues

-------------------------------------------------------------------------------
(* The platform.                                                           *)

\* Every set of machines is finite, and has a size.
LEMMA MachinesFinite ==
  ASSUME NEW S \in SUBSET Machines
  PROVE  IsFiniteSet(S) /\ Cardinality(S) \in Nat
<1>1. IsFiniteSet(Machines)
  BY PlatformAssumption, FS_Interval DEF Machines
<1>2. IsFiniteSet(S)
  BY <1>1, FS_Subset
<1>. QED  BY <1>2, FS_CardinalityType

\* The platform has _nb_machines machines, numbered from 0.
LEMMA AllMachines == Cardinality(Machines) = NbMachines
  BY PlatformAssumption, FS_Interval DEF Machines

-------------------------------------------------------------------------------
\* The machines a fitting job gets are free and as many as it asked for.
LEMMA LeftOfAvailable ==
  ASSUME Books, NEW j \in Jobs, Fits(j)
  PROVE  /\ Left(available, res[j]) \subseteq available
         /\ Cardinality(Left(available, res[j])) = res[j]
<1>1. available \in SUBSET Machines /\ res[j] \in 0 .. Cardinality(available)
  BY MachinesFinite DEF Books, ResourceAccounting, Fits
<1>. QED  BY <1>1, LeftAssumption

-------------------------------------------------------------------------------
(* Books is preserved by each kind of change.                              *)

\* Starting a fitting job (EXECUTE_JOB, the horizon point and the three updates
\* of easy_bf_fast.cpp:210-225) keeps the books.
LEMMA StartKeepsBooks ==
  ASSUME Books, NEW j \in Jobs, status[j] = "waiting", Fits(j), StartJob(j),
         UNCHANGED <<res, ended>>
  PROVE  Books'
<1>. DEFINE M == Left(available, res[j])
<1>1. M \subseteq available /\ Cardinality(M) = res[j]
  BY LeftOfAvailable
<1>2. /\ status' = [status EXCEPT ![j] = "running"]
      /\ placed' = [placed EXCEPT ![j] = M]
      /\ available' = available \ M
      /\ nbAvailable' = nbAvailable - res[j]
      /\ allocations' = [allocations EXCEPT ![j] = M]
      /\ res' = res /\ ended' = ended
  BY DEF StartJob, ExecuteJob
<1>. HIDE DEF M
<1>3. allocations[j] = {} /\ j \notin ToSet(ended)
  BY DEF Books, ResourceAccounting, EndedAreDone
<1>4. /\ status' \in [Jobs -> Status]
      /\ res' \in [Jobs -> Nat]
      /\ placed' \in [Jobs -> SUBSET Machines]
      /\ available' \in SUBSET Machines
      /\ allocations' \in [Jobs -> SUBSET Machines]
  BY <1>1, <1>2 DEF Books, Status
<1>5. EndedAreDone'
  BY <1>2, <1>3 DEF Books, EndedAreDone
<1>6. ExactSizes'
  BY <1>1, <1>2 DEF Books, ExactSizes
<1>7. PlacedAreRunning'
  BY <1>2 DEF Books, PlacedAreRunning
<1>8. ResourceAccounting'
  <2>1. nbAvailable' = Cardinality(available')
    BY <1>1, <1>2, CountRemoved, MachinesFinite DEF Books, ResourceAccounting
  <2>2. available' = Machines \ UNION {allocations'[k] : k \in Jobs}
    BY <1>1, <1>2, <1>3 DEF Books, ResourceAccounting
  <2>3. \A k, l \in Jobs : k # l => allocations'[k] \cap allocations'[l] = {}
    BY <1>1, <1>2 DEF Books, ResourceAccounting
  <2>4. \A k \in Jobs :
          /\ status'[k] = "running" => allocations'[k] = placed'[k]
          /\ status'[k] = "running" \/ k \in ToSet(ended') \/ allocations'[k] = {}
    BY <1>2 DEF Books, ResourceAccounting
  <2>. QED  BY <2>1, <2>2, <2>3, <2>4 DEF ResourceAccounting
<1>. QED  BY <1>4, <1>5, <1>6, <1>7, <1>8 DEF Books

\* Taking back the machines of an ended job keeps the books.
LEMMA HandleEndedKeepsBooks ==
  ASSUME Books, HandleEnded
  PROVE  Books'
<1>. DEFINE j == Head(ended)
<1>1. /\ ended # <<>>
      /\ ended' = Tail(ended)
      /\ available' = available \cup allocations[j]
      /\ nbAvailable' = nbAvailable + res[j]
      /\ allocations' = [allocations EXCEPT ![j] = {}]
      /\ status' = status /\ res' = res /\ placed' = placed
  BY DEF HandleEnded, worldVars, jobVars
<1>2. /\ ended' \in Seq(Jobs)
      /\ j \in Jobs /\ j \in ToSet(ended)
      /\ IsInjective(ended')
      /\ ToSet(ended') = ToSet(ended) \ {j}
  BY <1>1, TailOfInjective DEF Books, EndedAreDone
<1>. HIDE DEF j
<1>3. /\ status[j] = "done"
      /\ Cardinality(allocations[j]) = res[j]
      /\ allocations[j] \in SUBSET Machines
      /\ available \cap allocations[j] = {}
  BY <1>2 DEF Books, EndedAreDone, ExactSizes, ResourceAccounting
<1>4. /\ status' \in [Jobs -> Status]
      /\ res' \in [Jobs -> Nat]
      /\ placed' \in [Jobs -> SUBSET Machines]
      /\ available' \in SUBSET Machines
      /\ allocations' \in [Jobs -> SUBSET Machines]
  BY <1>1, <1>3 DEF Books
<1>5. EndedAreDone'
  BY <1>1, <1>2 DEF Books, EndedAreDone
<1>6. ExactSizes'
  BY <1>1, <1>2, <1>3 DEF Books, ExactSizes
<1>7. PlacedAreRunning'
  BY <1>1 DEF Books, PlacedAreRunning
<1>8. ResourceAccounting'
  <2>1. nbAvailable' = Cardinality(available')
    <3>1. available \in SUBSET Machines /\ nbAvailable = Cardinality(available)
      BY DEF Books, ResourceAccounting
    <3>2. IsFiniteSet(available) /\ IsFiniteSet(allocations[j])
      BY <1>3, <3>1, MachinesFinite
    <3>3. Cardinality(available \cup allocations[j])
            = Cardinality(available) + Cardinality(allocations[j])
      BY <1>3, <3>2, CountAdded
    <3>. QED  BY <1>1, <1>3, <3>1, <3>3
  <2>2. available' = Machines \ UNION {allocations'[k] : k \in Jobs}
    BY <1>1, <1>2 DEF Books, ResourceAccounting
  <2>3. \A k, l \in Jobs : k # l => allocations'[k] \cap allocations'[l] = {}
    BY <1>1 DEF Books, ResourceAccounting
  <2>4. \A k \in Jobs :
          /\ status'[k] = "running" => allocations'[k] = placed'[k]
          /\ status'[k] = "running" \/ k \in ToSet(ended') \/ allocations'[k] = {}
    BY <1>1, <1>2, <1>3 DEF Books, ResourceAccounting
  <2>. QED  BY <2>1, <2>2, <2>3, <2>4 DEF ResourceAccounting
<1>. QED  BY <1>4, <1>5, <1>6, <1>7, <1>8 DEF Books

\* A submission only concerns a job that holds nothing: the books are kept.
LEMMA SubmitKeepsBooks ==
  ASSUME Books, NEW j \in Jobs, NEW r \in Requests, NEW w \in Walltimes,
         Submit(j, r, w), UNCHANGED schedVars
  PROVE  Books'
<1>1. /\ status[j] = "future"
      /\ status' = [status EXCEPT ![j] = "waiting"]
      /\ res' = [res EXCEPT ![j] = r]
      /\ placed' = placed /\ ended' = ended
      /\ available' = available /\ nbAvailable' = nbAvailable
      /\ allocations' = allocations
  BY DEF Submit, schedVars, platformVars
<1>2. j \notin ToSet(ended)
  BY <1>1 DEF Books, EndedAreDone
<1>3. r \in Nat
  BY PlatformAssumption
<1>4. /\ status' \in [Jobs -> Status]
      /\ res' \in [Jobs -> Nat]
      /\ placed' \in [Jobs -> SUBSET Machines]
      /\ available' \in SUBSET Machines
      /\ allocations' \in [Jobs -> SUBSET Machines]
  BY <1>1, <1>2, <1>3 DEF Books, Status
<1>5. EndedAreDone'
  BY <1>1, <1>2, <1>3 DEF Books, EndedAreDone
<1>6. ExactSizes'
  BY <1>1, <1>2, <1>3 DEF Books, ExactSizes
<1>7. PlacedAreRunning'
  BY <1>1, <1>2, <1>3 DEF Books, PlacedAreRunning
<1>8. ResourceAccounting'
  BY <1>1, <1>2, <1>3 DEF Books, ResourceAccounting
<1>. QED  BY <1>4, <1>5, <1>6, <1>7, <1>8 DEF Books

\* When a job completes on the platform it keeps its allocation until its end
\* is handled: the books are kept.
LEMMA CompleteKeepsBooks ==
  ASSUME Books, NEW j \in Jobs, Complete(j), UNCHANGED schedVars
  PROVE  Books'
<1>1. /\ status[j] = "running"
      /\ status' = [status EXCEPT ![j] = "done"]
      /\ placed' = [placed EXCEPT ![j] = {}]
      /\ ended' = Append(ended, j)
      /\ res' = res
      /\ available' = available /\ nbAvailable' = nbAvailable
      /\ allocations' = allocations
  BY DEF Complete, jobVars, schedVars, platformVars
<1>2. j \notin ToSet(ended)
  BY <1>1 DEF Books, EndedAreDone
<1>3. /\ ended' \in Seq(Jobs)
      /\ IsInjective(ended')
      /\ ToSet(ended') = ToSet(ended) \cup {j}
  BY <1>1, <1>2, AppendToInjective DEF Books, EndedAreDone
<1>4. /\ status' \in [Jobs -> Status]
      /\ res' \in [Jobs -> Nat]
      /\ placed' \in [Jobs -> SUBSET Machines]
      /\ available' \in SUBSET Machines
      /\ allocations' \in [Jobs -> SUBSET Machines]
  BY <1>1, <1>2, <1>3 DEF Books, Status
<1>5. EndedAreDone'
  BY <1>1, <1>2, <1>3 DEF Books, EndedAreDone
<1>6. ExactSizes'
  BY <1>1, <1>2, <1>3 DEF Books, ExactSizes
<1>7. PlacedAreRunning'
  BY <1>1, <1>2, <1>3 DEF Books, PlacedAreRunning
<1>8. ResourceAccounting'
  <2>1. \A k \in Jobs :
          /\ status'[k] = "running" => allocations'[k] = placed'[k]
          /\ status'[k] = "running" \/ k \in ToSet(ended') \/ allocations'[k] = {}
    <3>. SUFFICES ASSUME NEW k \in Jobs
                  PROVE  /\ status'[k] = "running" => allocations'[k] = placed'[k]
                         /\ \/ status'[k] = "running"
                            \/ k \in ToSet(ended')
                            \/ allocations'[k] = {}
      OBVIOUS
    <3>1. CASE k = j
      BY <1>1, <1>3, <3>1 DEF Books
    <3>2. CASE k # j
      BY <1>1, <1>3, <3>2 DEF Books, ResourceAccounting
    <3>. QED  BY <3>1, <3>2
  <2>2. nbAvailable' = Cardinality(available')
    BY <1>1 DEF Books, ResourceAccounting
  <2>3. available' = Machines \ UNION {allocations'[k] : k \in Jobs}
    BY <1>1 DEF Books, ResourceAccounting
  <2>4. \A k, l \in Jobs : k # l => allocations'[k] \cap allocations'[l] = {}
    BY <1>1 DEF Books, ResourceAccounting
  <2>. QED  BY <2>1, <2>2, <2>3, <2>4 DEF ResourceAccounting
<1>. QED  BY <1>4, <1>5, <1>6, <1>7, <1>8 DEF Books

\* Rejecting a waiting job moves no machine: the books are kept.
LEMMA RejectKeepsBooks ==
  ASSUME Books, NEW j \in Jobs, status[j] = "waiting", RejectJob(j),
         UNCHANGED <<res, ended, available, nbAvailable, allocations>>
  PROVE  Books'
<1>1. /\ j \notin ToSet(ended)
      /\ status' = [status EXCEPT ![j] = "rejected"]
      /\ placed' = placed /\ res' = res /\ ended' = ended
      /\ available' = available /\ nbAvailable' = nbAvailable
      /\ allocations' = allocations
  BY DEF Books, EndedAreDone, RejectJob
<1>2. /\ status' \in [Jobs -> Status]
      /\ res' \in [Jobs -> Nat]
      /\ placed' \in [Jobs -> SUBSET Machines]
      /\ available' \in SUBSET Machines
      /\ allocations' \in [Jobs -> SUBSET Machines]
  BY <1>1 DEF Books, Status
<1>3. EndedAreDone'
  BY <1>1 DEF Books, EndedAreDone
<1>4. ExactSizes'
  BY <1>1 DEF Books, ExactSizes
<1>5. PlacedAreRunning'
  BY <1>1 DEF Books, PlacedAreRunning
<1>6. ResourceAccounting'
  BY <1>1 DEF Books, ResourceAccounting
<1>. QED  BY <1>2, <1>3, <1>4, <1>5, <1>6 DEF Books

\* Steps that change neither jobs nor machines keep the books.
LEMMA StutterKeepsBooks ==
  ASSUME Books,
         UNCHANGED <<status, placed, res, ended, available, nbAvailable,
                     allocations>>
  PROVE  Books'
  BY DEF Books, EndedAreDone, ExactSizes, PlacedAreRunning, ResourceAccounting

\* Every step keeps the books.
LEMMA StepKeepsBooks ==
  ASSUME IInv, [Next]_vars
  PROVE  Books'
<1>. Books
  BY DEF IInv
<1>1. ASSUME NEW j \in Jobs, NEW r \in Requests, NEW w \in Walltimes,
             Submit(j, r, w), UNCHANGED schedVars
      PROVE  Books'
  BY <1>1, SubmitKeepsBooks
<1>2. ASSUME NEW j \in Jobs, Complete(j), UNCHANGED schedVars
      PROVE  Books'
  BY <1>2, CompleteKeepsBooks
<1>3. ASSUME Tick, UNCHANGED schedVars
      PROVE  Books'
  BY <1>3, StutterKeepsBooks DEF Tick, jobVars, schedVars, platformVars
<1>4. CASE Receive
  BY <1>4, StutterKeepsBooks DEF Receive, Send, worldVars, jobVars, platformVars
<1>5. CASE HandleEnded
  BY <1>5, HandleEndedKeepsBooks
<1>6. CASE EndedHandled \/ PriorityStillBlocked \/ QueueLaunched \/ BackfillDone
  BY <1>6, StutterKeepsBooks
     DEF EndedHandled, PriorityStillBlocked, QueueLaunched, BackfillDone,
         worldVars, jobVars, schedVars, platformVars
<1>7. CASE LaunchPriority
  <2>1. priority \in Jobs /\ status[priority] = "waiting"
    BY <1>7 DEF LaunchPriority, IInv, Queues, ControlPoints, NoJobForgotten
  <2>. QED  BY <1>7, <2>1, StartKeepsBooks DEF LaunchPriority, jobVars
<1>8. CASE LaunchPending
  <2>1. Head(pending) \in Jobs /\ status[Head(pending)] = "waiting"
    BY <1>8, TailOfInjective DEF LaunchPending, IInv, Queues, NoJobForgotten
  <2>. QED  BY <1>8, <2>1, StartKeepsBooks DEF LaunchPending, jobVars
<1>9. CASE PendingBecomesPriority
  BY <1>9, StutterKeepsBooks
     DEF PendingBecomesPriority, worldVars, jobVars, platformVars
<1>10. CASE RefreshExpectedStart
  BY <1>10, StutterKeepsBooks
     DEF RefreshExpectedStart, worldVars, jobVars, platformVars
<1>11. CASE Backfill
  <2>. DEFINE j == pending[cursor]
  <2>1. j \in Jobs /\ status[j] = "waiting"
    <3>1. cursor \in 1 .. Len(pending)
      BY <1>11 DEF Backfill, IInv, Queues
    <3>. QED  BY <3>1, RemoveAtOfInjective DEF IInv, Queues, NoJobForgotten
  <2>2. Fits(j) /\ StartJob(j) /\ UNCHANGED <<res, ended>>
    BY <1>11 DEF Backfill, jobVars
  <2>. HIDE DEF j
  <2>. QED  BY <2>1, <2>2, StartKeepsBooks
<1>12. CASE SkipPending
  BY <1>12, StutterKeepsBooks
     DEF SkipPending, worldVars, jobVars, platformVars
<1>13. ASSUME NEW j \in Jobs, TakeReleased(j)
       PROVE  status[j] = "waiting" /\ UNCHANGED <<res, ended>>
  BY <1>13, TailOfInjective
     DEF TakeReleased, IInv, Queues, NoJobForgotten, jobVars
<1>14. CASE RejectReleased
  BY <1>13, <1>14, RejectKeepsBooks DEF RejectReleased, platformVars
<1>15. CASE StartReleased
  BY <1>13, <1>15, StartKeepsBooks DEF StartReleased
<1>16. CASE QueueReleased \/ ReleasedBecomesPriority
  BY <1>13, <1>16, StutterKeepsBooks
     DEF QueueReleased, ReleasedBecomesPriority, worldVars, platformVars
<1>17. CASE Reply
  BY <1>17, StutterKeepsBooks DEF Reply, worldVars, jobVars, platformVars
<1>18. CASE UNCHANGED vars
  BY <1>18, StutterKeepsBooks
     DEF vars, batsimVars, worldVars, jobVars, schedVars, platformVars
<1>. QED
  BY <1>1, <1>2, <1>3, <1>4, <1>5, <1>6, <1>7, <1>8, <1>9, <1>10, <1>11, <1>12,
     <1>14, <1>15, <1>16, <1>17, <1>18
     DEF Next, Platform, BatsimStep, MakeDecisions, Terminated

-------------------------------------------------------------------------------
(* Queues is preserved.                                                    *)

\* The waiting jobs after job j has left them.
LEMMA NoLongerWaiting ==
  ASSUME status \in [Jobs -> Status], NEW j \in Jobs, NEW st \in Status,
         st # "waiting", status' = [status EXCEPT ![j] = st]
  PROVE  {k \in Jobs : status'[k] = "waiting"}
           = {k \in Jobs : status[k] = "waiting"} \ {j}
  OBVIOUS

\* Steps that move no waiting job keep the queues sound.
LEMMA StutterKeepsQueues ==
  ASSUME Queues,
         UNCHANGED <<jobVars, status, released, queueVars>>,
         cursor' \in Nat \ {0}, ControlPoints'
  PROVE  Queues'
  BY DEF Queues, NoJobForgotten, QueuedAreValid, IsValid, jobVars, queueVars

\* The step of make_decisions that takes the head of released.
LEMMA TakenFromReleased ==
  ASSUME IInv, NEW j \in Jobs, TakeReleased(j)
  PROVE  /\ released' \in Seq(Jobs)
         /\ IsInjective(released')
         /\ j \in ToSet(released)
         /\ ToSet(released') = ToSet(released) \ {j}
         /\ j \notin ToSet(pending) /\ j # priority
         /\ status[j] = "waiting"
         /\ UNCHANGED <<jobVars, cursor>> /\ ControlPoints'
<1>1. /\ released' = Tail(released) /\ j = Head(released) /\ released # <<>>
      /\ pc = "released" /\ pc' = pc /\ UNCHANGED <<jobVars, cursor>>
  BY DEF TakeReleased, localVars
<1>2. /\ released' \in Seq(Jobs)
      /\ IsInjective(released')
      /\ j \in ToSet(released)
      /\ ToSet(released') = ToSet(released) \ {j}
  BY <1>1, TailOfInjective DEF IInv, Queues, NoJobForgotten
<1>. QED  BY <1>1, <1>2 DEF IInv, Queues, NoJobForgotten, ControlPoints

\* Every step of Batsim and of make_decisions keeps each waiting job in exactly
\* one queue, and only valid jobs queued.
LEMMA StepKeepsQueues ==
  ASSUME IInv, [Next]_vars
  PROVE  Queues'
<1>. Queues /\ status \in [Jobs -> Status] /\ cursor \in Nat \ {0}
  BY DEF IInv, Books, Queues
<1>1. ASSUME NEW j \in Jobs, NEW r \in Requests, NEW w \in Walltimes,
             Submit(j, r, w), UNCHANGED schedVars
      PROVE  Queues'
  <2>1. /\ pc = "batsim" /\ pc' = pc
        /\ status[j] = "future" /\ status' = [status EXCEPT ![j] = "waiting"]
        /\ res' = [res EXCEPT ![j] = r]
        /\ hasWalltime' = [hasWalltime EXCEPT ![j] = (w # NoWalltime)]
        /\ released' = Append(released, j)
        /\ pending' = pending /\ priority' = priority /\ cursor' = cursor
    BY <1>1 DEF Submit, schedVars, queueVars, localVars
  <2>2. j \notin ToSet(released) \cup ToSet(pending) \cup ({priority} \ {NullJob})
    BY <2>1 DEF Queues, NoJobForgotten
  <2>3. /\ released' \in Seq(Jobs) /\ IsInjective(released')
        /\ ToSet(released') = ToSet(released) \cup {j}
    BY <2>1, <2>2, AppendToInjective DEF Queues, NoJobForgotten
  <2>4. priority # j
    BY <2>2 DEF Jobs, NullJob
  <2>5. {k \in Jobs : status'[k] = "waiting"}
          = {k \in Jobs : status[k] = "waiting"} \cup {j}
    BY <2>1
  <2>6. NoJobForgotten'
    BY <2>1, <2>2, <2>3, <2>4, <2>5 DEF Queues, NoJobForgotten
  <2>7. QueuedAreValid'
    <3>1. \A k \in ToSet(pending) \cup ({priority} \ {NullJob}) :
            res'[k] = res[k] /\ hasWalltime'[k] = hasWalltime[k]
      BY <2>1, <2>2 DEF Books, IInv, Queues
    <3>. QED  BY <2>1, <3>1 DEF Queues, QueuedAreValid, IsValid
  <2>. QED  BY <2>1, <2>3, <2>6, <2>7 DEF Queues, ControlPoints
<1>2. ASSUME NEW j \in Jobs, Complete(j), UNCHANGED schedVars
      PROVE  Queues'
  <2>1. /\ pc' = pc
        /\ status[j] = "running" /\ status' = [status EXCEPT ![j] = "done"]
        /\ UNCHANGED <<jobVars, released, queueVars, cursor>>
    BY <1>2 DEF Complete, schedVars, localVars
  <2>2. {k \in Jobs : status'[k] = "waiting"} = {k \in Jobs : status[k] = "waiting"}
    BY <2>1
  <2>. QED  BY <2>1, <2>2 DEF Queues, NoJobForgotten, QueuedAreValid, IsValid,
               jobVars, queueVars, ControlPoints
<1>3. ASSUME Tick, UNCHANGED schedVars
      PROVE  Queues'
  BY <1>3, StutterKeepsQueues
     DEF Tick, schedVars, localVars, Queues, ControlPoints
<1>4. CASE Receive
  BY <1>4, StutterKeepsQueues
     DEF Receive, Send, worldVars, ControlPoints
<1>5. CASE HandleEnded
  BY <1>5, StutterKeepsQueues
     DEF HandleEnded, worldVars, localVars, ControlPoints
<1>6. CASE EndedHandled \/ PriorityStillBlocked \/ QueueLaunched \/ BackfillDone
  BY <1>6, StutterKeepsQueues
     DEF EndedHandled, PriorityStillBlocked, QueueLaunched, BackfillDone,
         worldVars, schedVars, queueVars, localVars, Queues, ControlPoints
<1>7. CASE RefreshExpectedStart
  BY <1>7, StutterKeepsQueues
     DEF RefreshExpectedStart, worldVars, ControlPoints
<1>8. CASE SkipPending
  BY <1>8, StutterKeepsQueues DEF SkipPending, worldVars, ControlPoints
<1>9. CASE Reply
  BY <1>9, StutterKeepsQueues DEF Reply, worldVars, ControlPoints
<1>10. CASE UNCHANGED vars
  <2>1. UNCHANGED <<pc, status, released, jobVars, queueVars, cursor>>
    BY <1>10 DEF vars, batsimVars, worldVars, schedVars, localVars
  <2>2. ControlPoints'
    BY <2>1 DEF Queues, ControlPoints, queueVars
  <2>. QED  BY <2>1, <2>2, StutterKeepsQueues
<1>11. CASE LaunchPriority
  <2>1. /\ priority \in Jobs
        /\ status' = [status EXCEPT ![priority] = "running"]
        /\ priority' = NullJob /\ pc' = "launch"
        /\ UNCHANGED <<jobVars, released, pending, cursor>>
    BY <1>11 DEF LaunchPriority, StartJob, ExecuteJob, localVars, Queues,
                 ControlPoints
  <2>2. {k \in Jobs : status'[k] = "waiting"}
          = {k \in Jobs : status[k] = "waiting"} \ {priority}
    BY <2>1, NoLongerWaiting DEF Status
  <2>3. NullJob \notin Jobs
    BY DEF Jobs, NullJob
  <2>4. ToSet(released) \subseteq Jobs /\ ToSet(pending) \subseteq Jobs
    BY DEF Queues, NoJobForgotten
  <2>5. NoJobForgotten'
    BY <2>1, <2>2, <2>3, <2>4 DEF Queues, NoJobForgotten
  <2>6. QueuedAreValid'
    BY <2>1 DEF Queues, QueuedAreValid, IsValid, jobVars
  <2>. QED  BY <2>1, <2>5, <2>6 DEF Queues, ControlPoints, jobVars
<1>12. CASE LaunchPending
  <2>. DEFINE j == Head(pending)
  <2>1. /\ j \in Jobs /\ j \in ToSet(pending)
        /\ pending' \in Seq(Jobs) /\ IsInjective(pending')
        /\ ToSet(pending') = ToSet(pending) \ {j}
    BY <1>12, TailOfInjective DEF LaunchPending, Queues, NoJobForgotten
  <2>2. /\ status' = [status EXCEPT ![j] = "running"]
        /\ pc = "launch"
        /\ UNCHANGED <<pc, jobVars, released, priority, cursor>>
    BY <1>12 DEF LaunchPending, StartJob, ExecuteJob, localVars
  <2>. HIDE DEF j
  <2>3. {k \in Jobs : status'[k] = "waiting"}
          = {k \in Jobs : status[k] = "waiting"} \ {j}
    BY <2>1, <2>2, NoLongerWaiting DEF Status
  <2>4. NoJobForgotten'
    BY <2>1, <2>2, <2>3 DEF Queues, NoJobForgotten
  <2>5. QueuedAreValid'
    BY <2>1, <2>2 DEF Queues, QueuedAreValid, IsValid, jobVars
  <2>. QED  BY <2>1, <2>2, <2>4, <2>5 DEF Queues, ControlPoints, jobVars
<1>13. CASE PendingBecomesPriority
  <2>. DEFINE j == Head(pending)
  <2>1. /\ j \in Jobs /\ j \in ToSet(pending)
        /\ pending' \in Seq(Jobs) /\ IsInjective(pending')
        /\ ToSet(pending') = ToSet(pending) \ {j}
    BY <1>13, TailOfInjective DEF PendingBecomesPriority, Queues, NoJobForgotten
  <2>2. /\ priority = NullJob /\ priority' = j
        /\ pc' = "refresh"
        /\ UNCHANGED <<status, jobVars, released, cursor>>
    BY <1>13 DEF PendingBecomesPriority, worldVars, localVars, Queues, ControlPoints
  <2>. HIDE DEF j
  <2>3. j # NullJob
    BY <2>1 DEF Jobs, NullJob
  <2>4. NoJobForgotten'
    BY <2>1, <2>2, <2>3 DEF Queues, NoJobForgotten
  <2>5. QueuedAreValid'
    BY <2>1, <2>2 DEF Queues, QueuedAreValid, IsValid, jobVars
  <2>. QED  BY <2>1, <2>2, <2>4, <2>5 DEF Queues, ControlPoints, jobVars
<1>14. CASE Backfill
  <2>. DEFINE j == pending[cursor]
  <2>1. cursor \in 1 .. Len(pending)
    BY <1>14 DEF Backfill, Queues
  <2>2. /\ j \in Jobs /\ j \in ToSet(pending)
        /\ pending' \in Seq(Jobs) /\ IsInjective(pending')
        /\ ToSet(pending') = ToSet(pending) \ {j}
    BY <1>14, <2>1, RemoveAtOfInjective DEF Backfill, Queues, NoJobForgotten
  <2>3. /\ status' = [status EXCEPT ![j] = "running"]
        /\ pc' \in {"released", "backfill"}
        /\ UNCHANGED <<jobVars, released, priority, cursor>>
    BY <1>14 DEF Backfill, StartJob, ExecuteJob, localVars
  <2>. HIDE DEF j
  <2>4. {k \in Jobs : status'[k] = "waiting"}
          = {k \in Jobs : status[k] = "waiting"} \ {j}
    BY <2>2, <2>3, NoLongerWaiting DEF Status
  <2>5. NoJobForgotten'
    BY <2>2, <2>3, <2>4 DEF Queues, NoJobForgotten
  <2>6. QueuedAreValid'
    BY <2>2, <2>3 DEF Queues, QueuedAreValid, IsValid, jobVars
  <2>. QED  BY <2>2, <2>3, <2>5, <2>6 DEF Queues, ControlPoints, jobVars
<1>15. ASSUME NEW j \in Jobs, NEW st \in {"running", "rejected"},
              TakeReleased(j), status' = [status EXCEPT ![j] = st],
              UNCHANGED queueVars
       PROVE  Queues'
  <2>1. {k \in Jobs : status'[k] = "waiting"}
          = {k \in Jobs : status[k] = "waiting"} \ {j}
    BY <1>15, NoLongerWaiting DEF Status
  <2>2. NoJobForgotten'
    BY <1>15, <2>1, TakenFromReleased DEF Queues, NoJobForgotten, queueVars
  <2>3. QueuedAreValid'
    BY <1>15, TakenFromReleased DEF Queues, QueuedAreValid, IsValid, jobVars, queueVars
  <2>. QED  BY <1>15, <2>2, <2>3, TakenFromReleased DEF Queues, jobVars, queueVars
<1>16. CASE RejectReleased
  BY <1>15, <1>16 DEF RejectReleased, RejectJob
<1>17. CASE StartReleased
  BY <1>15, <1>17 DEF StartReleased, StartJob, ExecuteJob
<1>18. CASE QueueReleased
  <2>1. PICK j \in Jobs : /\ TakeReleased(j) /\ IsValid(j)
                          /\ pending' = Append(pending, j)
                          /\ UNCHANGED <<status, priority>>
    BY <1>18 DEF QueueReleased, worldVars
  <2>2. /\ pending' \in Seq(Jobs) /\ IsInjective(pending')
        /\ ToSet(pending') = ToSet(pending) \cup {j}
    BY <2>1, TakenFromReleased, AppendToInjective DEF Queues, NoJobForgotten
  <2>3. NoJobForgotten'
    BY <2>1, <2>2, TakenFromReleased DEF Queues, NoJobForgotten
  <2>4. QueuedAreValid'
    BY <2>1, <2>2, TakenFromReleased DEF Queues, QueuedAreValid, IsValid, jobVars
  <2>. QED  BY <2>1, <2>2, <2>3, <2>4, TakenFromReleased DEF Queues, jobVars
<1>19. CASE ReleasedBecomesPriority
  <2>1. PICK j \in Jobs : /\ TakeReleased(j) /\ IsValid(j)
                          /\ priority = NullJob /\ priority' = j
                          /\ UNCHANGED <<status, pending>>
    BY <1>19 DEF ReleasedBecomesPriority, worldVars
  <2>2. j # NullJob
    BY DEF Jobs, NullJob
  <2>3. NoJobForgotten'
    BY <2>1, <2>2, TakenFromReleased DEF Queues, NoJobForgotten
  <2>4. QueuedAreValid'
    BY <2>1, <2>2, TakenFromReleased DEF Queues, QueuedAreValid, IsValid, jobVars
  <2>. QED  BY <2>1, <2>3, <2>4, TakenFromReleased DEF Queues, jobVars
<1>. QED
  BY <1>1, <1>2, <1>3, <1>4, <1>5, <1>6, <1>7, <1>8, <1>9, <1>10, <1>11, <1>12,
     <1>13, <1>14, <1>16, <1>17, <1>18, <1>19
     DEF Next, Platform, BatsimStep, MakeDecisions, Terminated

-------------------------------------------------------------------------------
\* The inductive invariant holds when the simulation starts.
LEMMA InitEstablishesIInv == Init => IInv
<1>. SUFFICES ASSUME Init PROVE IInv
  OBVIOUS
<1>. USE DEF Init, BatsimInit
<1>1. ToSet(<<>>) = {} /\ IsInjective(<<>>)
  BY DEF ToSet, IsInjective
<1>2. nbAvailable = Cardinality(available) /\ nbAvailable \in Nat
  BY AllMachines, PlatformAssumption
<1>3. ResourceAccounting
  BY <1>2 DEF ResourceAccounting
<1>4. Books
  BY <1>1, <1>3 DEF Books, EndedAreDone, ExactSizes, PlacedAreRunning, Status
<1>5. NoJobForgotten
  BY <1>1 DEF NoJobForgotten
<1>6. Queues
  BY <1>1, <1>5 DEF Queues, QueuedAreValid, ControlPoints
<1>. QED  BY <1>4, <1>6 DEF IInv

\* The inductive invariant holds of every behaviour.
LEMMA IInvHolds == Spec => []IInv
<1>1. IInv /\ [Next]_vars => IInv'
  BY StepKeepsBooks, StepKeepsQueues DEF IInv
<1>. QED  BY <1>1, InitEstablishesIInv, PTL DEF Spec

\* The counter, the set of free machines and the allocations of
\* easy_bf_fast.cpp agree with one another and with the platform, always.
THEOREM ResourceAccountingHolds == Spec => []ResourceAccounting
<1>1. IInv => ResourceAccounting
  BY DEF IInv, Books
<1>. QED  BY <1>1, IInvHolds, PTL

\* A waiting job is in exactly one queue of easy_bf_fast.cpp, always.
THEOREM NoJobForgottenHolds == Spec => []NoJobForgotten
<1>1. IInv => NoJobForgotten
  BY DEF IInv, Queues
<1>. QED  BY <1>1, IInvHolds, PTL

-------------------------------------------------------------------------------
(* The refinement.  Every start goes through StartJob.                     *)

\* Cardinality means the same in the instance.
LEMMA SameCardinality == \A S : RM!Cardinality(S) = Cardinality(S)
  BY DEF RM!Cardinality, Cardinality

\* Wherever the code starts a waiting, valid and fitting job, ResourceManager
\* may start it: the machines are free on the platform too.
LEMMA StartImplementsStart ==
  ASSUME IInv, NEW j \in Jobs, status[j] = "waiting", IsValid(j), Fits(j),
         StartJob(j), UNCHANGED jobVars
  PROVE  RM!Next
<1>. DEFINE M == Left(available, res[j])
<1>1. M \subseteq available /\ Cardinality(M) = res[j]
  BY LeftOfAvailable DEF IInv
<1>2. /\ status' = [status EXCEPT ![j] = "running"]
      /\ placed' = [placed EXCEPT ![j] = M]
      /\ UNCHANGED <<res, hasWalltime>>
  BY DEF StartJob, ExecuteJob, jobVars
<1>. HIDE DEF M
<1>3. available \subseteq RM!Free
  <2>1. \A k \in Jobs : placed[k] \subseteq allocations[k]
    BY DEF IInv, Books, ResourceAccounting, PlacedAreRunning
  <2>2. UNION {placed[k] : k \in Jobs} \subseteq UNION {allocations[k] : k \in Jobs}
    BY <2>1
  <2>. QED  BY <2>2 DEF IInv, Books, ResourceAccounting, RM!Free
<1>4. ~RM!Hopeless(j)
  <2>1. ~(res[j] > Cardinality(Machines))
    BY AllMachines, PlatformAssumption DEF IsValid, IInv, Books
  <2>2. hasWalltime[j] = TRUE
    BY DEF IsValid, IInv, Queues
  <2>. QED  BY <2>1, <2>2, SameCardinality DEF RM!Hopeless
<1>5. M \in SUBSET Machines
  BY <1>1 DEF IInv, Books
<1>6. RM!Start(j, M)
  BY <1>1, <1>2, <1>3, <1>4, SameCardinality DEF RM!Start
<1>. QED  BY <1>5, <1>6 DEF RM!Next

\* Every step of the scheduler is a step of ResourceManager, or changes nothing
\* of what it sees.
LEMMA StepImplementsStep ==
  ASSUME IInv, [Next]_vars
  PROVE  [RM!Next]_RM!vars
<1>. USE DEF RM!vars
<1>1. ASSUME NEW j \in Jobs, NEW r \in Requests, NEW w \in Walltimes,
             Submit(j, r, w)
      PROVE  RM!Next
  <2>1. r \in Nat
    BY PlatformAssumption
  <2>2. res'[j] = r /\ hasWalltime'[j] = (w # NoWalltime)
    BY <1>1 DEF Submit, IInv, Books, Queues
  <2>3. RM!Submit(j)
    BY <1>1, <2>1, <2>2 DEF Submit, RM!Submit
  <2>. QED  BY <2>3 DEF RM!Next
<1>2. ASSUME NEW j \in Jobs, Complete(j)
      PROVE  RM!Next
  BY <1>2 DEF Complete, jobVars, RM!Finish, RM!Next
<1>3. CASE \/ Tick \/ Receive \/ HandleEnded \/ EndedHandled
           \/ PriorityStillBlocked \/ PendingBecomesPriority \/ QueueLaunched
           \/ RefreshExpectedStart \/ SkipPending \/ BackfillDone
           \/ QueueReleased \/ ReleasedBecomesPriority \/ Reply \/ UNCHANGED vars
  BY <1>3 DEF Tick, Receive, Send, HandleEnded, EndedHandled,
       PriorityStillBlocked, PendingBecomesPriority, QueueLaunched,
       RefreshExpectedStart, SkipPending, BackfillDone, QueueReleased,
       ReleasedBecomesPriority, TakeReleased, Reply, vars, batsimVars,
       worldVars, jobVars
<1>4. CASE LaunchPriority
  <2>1. priority \in Jobs /\ status[priority] = "waiting" /\ IsValid(priority)
    BY <1>4 DEF LaunchPriority, IInv, Queues, ControlPoints, NoJobForgotten,
                QueuedAreValid
  <2>. QED  BY <1>4, <2>1, StartImplementsStart DEF LaunchPriority, jobVars
<1>5. CASE LaunchPending
  <2>. DEFINE j == Head(pending)
  <2>1. j \in ToSet(pending)
    BY <1>5, TailOfInjective DEF LaunchPending, IInv, Queues, NoJobForgotten
  <2>2. j \in Jobs /\ status[j] = "waiting" /\ IsValid(j)
    BY <2>1 DEF IInv, Queues, NoJobForgotten, QueuedAreValid
  <2>. QED  BY <1>5, <2>2, StartImplementsStart DEF LaunchPending, jobVars
<1>6. CASE Backfill
  <2>. DEFINE j == pending[cursor]
  <2>1. cursor \in 1 .. Len(pending)
    BY <1>6 DEF Backfill, IInv, Queues
  <2>2. j \in ToSet(pending)
    BY <2>1, RemoveAtOfInjective DEF IInv, Queues, NoJobForgotten
  <2>3. j \in Jobs /\ status[j] = "waiting" /\ IsValid(j)
    BY <2>2 DEF IInv, Queues, NoJobForgotten, QueuedAreValid
  <2>4. Fits(j) /\ StartJob(j) /\ UNCHANGED jobVars
    BY <1>6 DEF Backfill, jobVars
  <2>. HIDE DEF j
  <2>. QED  BY <2>3, <2>4, StartImplementsStart
<1>7. CASE RejectReleased
  <2>1. PICK j \in Jobs : TakeReleased(j) /\ ~IsValid(j) /\ RejectJob(j)
    BY <1>7 DEF RejectReleased
  <2>2. RM!Hopeless(j)
    <3>1. res[j] > Cardinality(Machines) \/ res[j] <= NbMachines
      BY AllMachines, PlatformAssumption DEF IInv, Books
    <3>2. hasWalltime[j] \in BOOLEAN
      BY DEF IInv, Queues
    <3>. QED  BY <2>1, <3>1, <3>2, SameCardinality DEF IsValid, RM!Hopeless
  <2>3. RM!Reject(j)
    BY <2>1, <2>2, TakenFromReleased DEF RejectJob, RM!Reject, jobVars
  <2>. QED  BY <2>3 DEF RM!Next
<1>8. CASE StartReleased
  BY <1>8, TakenFromReleased, StartImplementsStart DEF StartReleased, jobVars
<1>. QED
  BY <1>1, <1>2, <1>3, <1>4, <1>5, <1>6, <1>7, <1>8
     DEF Next, Platform, BatsimStep, MakeDecisions, Terminated

\* easy_bf_fast.cpp keeps the promises of ResourceManager: it starts a job at
\* most once, on as many free machines as it asked for, and rejects only the
\* jobs that no schedule can serve.
THEOREM Implementation == Spec => ImplementsResourceManager
<1>1. Init => RM!Init
  BY DEF Init, BatsimInit, RM!Init
<1>. QED
  BY <1>1, StepImplementsStep, IInvHolds, PTL
     DEF Spec, ImplementsResourceManager, RM!Spec

-------------------------------------------------------------------------------
(* The horizon points and the promise to the priority job.                 *)

Points == [date : Nat, nb : Nat, job : Jobs]

\* The attributes of submitted jobs are those their submission can give them.
Attributes ==
  \A j \in Jobs : status[j] # "future" =>
    /\ res[j] > 0
    /\ hasWalltime[j] => walltime[j] - RjmsDelay \in Nat \ {0}

\* The horizon point of a running job is dated RjmsDelay after its deadline.
DatesFollowDeadlines ==
  \A p \in ToSet(horizons) : status[p.job] = "running" =>
    p.date = deadline[p.job] + RjmsDelay

NobodyOverdue == \A j \in Jobs : status[j] = "running" => now <= deadline[j]

Horizons ==
  /\ now \in Nat
  /\ walltime \in [Jobs -> Int]
  /\ deadline \in [Jobs -> Nat]
  /\ horizons \in Seq(Points)
  /\ Attributes
  /\ HorizonsMatchAllocations
  /\ DatesFollowDeadlines
  /\ NobodyOverdue

\* Is the priority job, if any, known not to fit?
PriorityIsBlocked == priority # NullJob => ~Fits(priority)

\* The program points after the loop over the ended jobs, and those at which
\* no machine has been released since the queue was last considered.
AfterEnded == pc \notin {"batsim", "ended"}
Unreleased == pc \in {"released", "batsim"} \/ (pc = "ended" /\ ~jobEnded)

Turns ==
  /\ pc \in {"batsim", "ended", "priority", "launch", "refresh", "backfill",
             "released"}
  /\ jobEnded \in BOOLEAN
  /\ AfterEnded \/ (pc = "ended" /\ ~jobEnded) => ended = <<>>
  /\ Unreleased \/ pc \in {"refresh", "backfill"} => PriorityIsBlocked
  /\ pc # "launch" /\ priority = NullJob => pending = <<>>

Promise ==
  /\ expectedStart \in Nat
  /\ remaining \in Nat
  /\ ReservationIsCovered
  /\ PromiseIsKept

\* The job cannot be backfilled.
Stuck(j) == ~Fits(j) \/ HindersPriority(j)

Tried ==
  /\ Unreleased => \A j \in ToSet(pending) : Stuck(j)
  /\ pc = "backfill" =>
       \A i \in DOMAIN pending : i < cursor => Stuck(pending[i])

PInv == IInv /\ Horizons /\ Turns /\ Promise /\ Tried

-------------------------------------------------------------------------------
(* The list of horizon points.                                             *)

ByDate(points) ==
  \A i, k \in DOMAIN points : i < k => points[i].date <= points[k].date

OnePointPerJob(points) ==
  \A i, k \in DOMAIN points : points[i].job = points[k].job => i = k

\* The least of some numbers.
LEMMA MinProperties ==
  ASSUME NEW S \in SUBSET Nat, S # {}
  PROVE  Min(S) \in S /\ \A k \in S : Min(S) <= k
  BY LeastElement DEF Min

\* insert_horizon_point puts the point at a position that separates the earlier
\* (or equal) dates from the later ones.
LEMMA InsertHorizonPointPlace ==
  ASSUME NEW points \in Seq(Points), ByDate(points), NEW p \in Points
  PROVE  \E i \in 1 .. Len(points) + 1 :
           /\ InsertHorizonPoint(points, p) = InsertAt(points, i, p)
           /\ \A k \in 1 .. Len(points) :
                IF k < i THEN points[k].date <= p.date
                         ELSE p.date < points[k].date
<1>. DEFINE later == {i \in DOMAIN points : p.date < points[i].date}
<1>1. /\ Len(points) \in Nat /\ DOMAIN points = 1 .. Len(points)
      /\ \A k \in 1 .. Len(points) : points[k].date \in Nat
      /\ p.date \in Nat
  <2>1. /\ Len(points) \in Nat /\ DOMAIN points = 1 .. Len(points)
        /\ \A k \in 1 .. Len(points) : points[k] \in Points
    BY LenProperties, ElementOfSeq
  <2>. QED  BY <2>1 DEF Points
<1>2. CASE later = {}
  <2>1. InsertHorizonPoint(points, p) = Append(points, p)
    BY <1>2 DEF InsertHorizonPoint
  <2>2. InsertAt(points, Len(points) + 1, p) = Append(points, p)
    <3>1. /\ SubSeq(points, 1, (Len(points) + 1) - 1) = points
          /\ SubSeq(points, Len(points) + 1, Len(points)) = <<>>
      BY <1>1
    <3>2. Append(points, p) = points \o <<p>>
      BY AppendIsConcat
    <3>3. Append(points, p) \in Seq(Points)
      BY AppendProperties
    <3>4. Append(points, p) \o <<>> = Append(points, p)
      BY <3>3, ConcatEmptySeq
    <3>. QED  BY <3>1, <3>2, <3>4 DEF InsertAt
  <2>. QED  BY <1>1, <1>2, <2>1, <2>2
<1>3. CASE later # {}
  <2>. DEFINE i == Min(later)
  <2>1. later \in SUBSET Nat
    BY <1>1
  <2>2. i \in later /\ \A k \in later : i <= k
    BY <1>3, <2>1, MinProperties
  <2>3. InsertHorizonPoint(points, p) = InsertAt(points, i, p)
    BY <1>3 DEF InsertHorizonPoint
  <2>. HIDE DEF i
  <2>4. ASSUME NEW k \in 1 .. Len(points)
        PROVE  IF k < i THEN points[k].date <= p.date
                        ELSE p.date < points[k].date
    <3>1. CASE k < i
      BY <1>1, <2>2, <3>1
    <3>2. CASE ~(k < i)
      BY <1>1, <2>2, <3>2 DEF ByDate
    <3>. QED  BY <3>1, <3>2
  <2>. QED  BY <1>1, <2>2, <2>3, <2>4
<1>. QED  BY <1>2, <1>3

\* insert_horizon_point adds the point and keeps the list sorted, with one point
\* for every job.
LEMMA InsertHorizonPointProperties ==
  ASSUME NEW points \in Seq(Points), ByDate(points), OnePointPerJob(points),
         NEW p \in Points, \A q \in ToSet(points) : q.job # p.job
  PROVE  /\ InsertHorizonPoint(points, p) \in Seq(Points)
         /\ ToSet(InsertHorizonPoint(points, p)) = ToSet(points) \cup {p}
         /\ ByDate(InsertHorizonPoint(points, p))
         /\ OnePointPerJob(InsertHorizonPoint(points, p))
<1>1. PICK n \in 1 .. Len(points) + 1 :
        /\ InsertHorizonPoint(points, p) = InsertAt(points, n, p)
        /\ \A k \in 1 .. Len(points) :
             IF k < n THEN points[k].date <= p.date
                      ELSE p.date < points[k].date
  BY InsertHorizonPointPlace
<1>. DEFINE r == InsertAt(points, n, p)
<1>2. /\ r \in Seq(Points)
      /\ DOMAIN r = 1 .. Len(points) + 1
      /\ \A i \in 1 .. Len(points) + 1 :
           r[i] = IF i < n THEN points[i] ELSE IF i = n THEN p ELSE points[i - 1]
  BY InsertAtProperties, LenProperties
<1>3. ToSet(r) = ToSet(points) \cup {p}
  BY InsertAtAdds
<1>. HIDE DEF r
<1>4. /\ Len(points) \in Nat /\ DOMAIN points = 1 .. Len(points)
      /\ \A k \in 1 .. Len(points) : points[k].date \in Nat
      /\ p.date \in Nat
  <2>1. /\ Len(points) \in Nat /\ DOMAIN points = 1 .. Len(points)
        /\ \A k \in 1 .. Len(points) : points[k] \in Points
    BY LenProperties, ElementOfSeq
  <2>. QED  BY <2>1 DEF Points
<1>5. ByDate(r)
  <2>. SUFFICES ASSUME NEW i \in DOMAIN r, NEW k \in DOMAIN r, i < k
                PROVE  r[i].date <= r[k].date
    BY DEF ByDate
  <2>1. CASE i < n /\ k < n
    BY <1>2, <1>4, <2>1 DEF ByDate
  <2>2. CASE i < n /\ k = n
    BY <1>1, <1>2, <1>4, <2>2
  <2>3. CASE i < n /\ k > n
    <3>1. /\ r[i] = points[i] /\ r[k] = points[k - 1]
          /\ i \in DOMAIN points /\ k - 1 \in DOMAIN points /\ n <= k - 1
      BY <1>2, <1>4, <2>3
    <3>2. points[i].date <= p.date /\ p.date < points[k - 1].date
      BY <1>1, <1>4, <2>3, <3>1
    <3>. QED  BY <1>4, <3>1, <3>2
  <2>4. CASE i = n /\ k > n
    <3>1. r[i] = p /\ r[k] = points[k - 1] /\ k - 1 \in DOMAIN points /\ n <= k - 1
      BY <1>2, <1>4, <2>4
    <3>. QED  BY <1>1, <1>4, <3>1
  <2>5. CASE i > n /\ k > n
    <3>1. /\ r[i] = points[i - 1] /\ r[k] = points[k - 1]
          /\ i - 1 \in DOMAIN points /\ k - 1 \in DOMAIN points /\ i - 1 < k - 1
      BY <1>2, <1>4, <2>5
    <3>. QED  BY <3>1 DEF ByDate
  <2>. QED  BY <1>2, <2>1, <2>2, <2>3, <2>4, <2>5
<1>6. OnePointPerJob(r)
  <2>. DEFINE I(i) == IF i < n THEN i ELSE i - 1
  <2>1. \A i \in DOMAIN r : i # n => I(i) \in DOMAIN points /\ r[i] = points[I(i)]
    BY <1>2, <1>4
  <2>2. \A i \in DOMAIN points : points[i].job # p.job
    BY DEF ToSet
  <2>3. r[n] = p /\ n \in DOMAIN r
    BY <1>2
  <2>. SUFFICES ASSUME NEW i \in DOMAIN r, NEW k \in DOMAIN r, r[i].job = r[k].job
                PROVE  i = k
    BY DEF OnePointPerJob
  <2>4. CASE i = n \/ k = n
    BY <2>1, <2>2, <2>3, <2>4
  <2>5. CASE i # n /\ k # n
    <3>1. I(i) = I(k)
      <4>. HIDE DEF I
      <4>. QED  BY <2>1, <2>5 DEF OnePointPerJob
    <3>. QED  BY <1>2, <2>5, <3>1
  <2>. QED  BY <2>4, <2>5
<1>. QED  BY <1>1, <1>2, <1>3, <1>5, <1>6 DEF r

\* Erasing the point of a job, through the iterator its allocation keeps,
\* removes that point and no other.
LEMMA EraseHorizonPoint ==
  ASSUME NEW points \in Seq(Points), ByDate(points), OnePointPerJob(points),
         NEW j, \E q \in ToSet(points) : q.job = j
  PROVE  LET r == RemoveAt(points, HorizonPoint(points, j))
         IN  /\ r \in Seq(Points)
             /\ ToSet(r) = {q \in ToSet(points) : q.job # j}
             /\ ByDate(r)
             /\ OnePointPerJob(r)
<1>. DEFINE n == HorizonPoint(points, j)
            r == RemoveAt(points, n)
<1>1. Len(points) \in Nat /\ DOMAIN points = 1 .. Len(points)
  BY LenProperties
<1>2. n \in 1 .. Len(points) /\ points[n].job = j
  <2>1. \E i \in DOMAIN points : points[i].job = j
    BY DEF ToSet
  <2>. QED  BY <1>1, <2>1 DEF HorizonPoint
<1>. HIDE DEF n
<1>3. IsInjective(points)
  BY DEF OnePointPerJob, IsInjective
<1>4. ToSet(r) = ToSet(points) \ {points[n]}
  BY <1>2, <1>3, RemoveAtOfInjective
<1>5. ToSet(r) = {q \in ToSet(points) : q.job # j}
  <2>1. \A q \in ToSet(points) : q.job = j => q = points[n]
    BY <1>1, <1>2 DEF OnePointPerJob, ToSet
  <2>. QED  BY <1>2, <1>4, <2>1
<1>6. /\ r \in Seq(Points)
      /\ DOMAIN r = 1 .. Len(points) - 1
      /\ \A i \in 1 .. Len(points) - 1 :
           r[i] = IF i < n THEN points[i] ELSE points[i + 1]
  BY <1>2, RemoveAtProperties, LenProperties
<1>. HIDE DEF r
<1>. DEFINE I(i) == IF i < n THEN i ELSE i + 1
<1>7. /\ \A i \in DOMAIN r : I(i) \in DOMAIN points /\ r[i] = points[I(i)]
      /\ \A i, k \in DOMAIN r : (i < k => I(i) < I(k)) /\ (I(i) = I(k) => i = k)
  BY <1>1, <1>2, <1>6
<1>. HIDE DEF I
<1>8. ByDate(r)
  BY <1>7 DEF ByDate
<1>9. OnePointPerJob(r)
  BY <1>7 DEF OnePointPerJob
<1>. QED  BY <1>5, <1>6, <1>8, <1>9 DEF r, n

-------------------------------------------------------------------------------
(* Horizons is preserved.                                                  *)

\* What HorizonsMatchAllocations says, by parts.
LEMMA HorizonsMatch ==
  HorizonsMatchAllocations <=>
    /\ ByDate(horizons) /\ OnePointPerJob(horizons)
    /\ {p.job : p \in ToSet(horizons)} = {j \in Jobs : allocations[j] # {}}
    /\ \A p \in ToSet(horizons) : p.nb = Cardinality(allocations[p.job])
  BY DEF HorizonsMatchAllocations, ByDate, OnePointPerJob

\* Starting a waiting job adds its horizon point.
LEMMA StartKeepsHorizons ==
  ASSUME IInv, Horizons, NEW j \in Jobs, status[j] = "waiting", IsValid(j),
         Fits(j), StartJob(j), UNCHANGED <<jobVars, ended>>
  PROVE  /\ Horizons'
         /\ ToSet(horizons')
              = ToSet(horizons)
                  \cup {[date |-> now + walltime[j], nb |-> res[j], job |-> j]}
<1>. DEFINE M == Left(available, res[j])
            point == [date |-> now + walltime[j], nb |-> res[j], job |-> j]
<1>1. /\ status' = [status EXCEPT ![j] = "running"]
      /\ deadline' = [deadline EXCEPT ![j] = now + IF hasWalltime[j]
                                                  THEN walltime[j] - RjmsDelay
                                                  ELSE MaxRun]
      /\ horizons' = InsertHorizonPoint(horizons, point)
      /\ allocations' = [allocations EXCEPT ![j] = M]
      /\ UNCHANGED <<now, res, walltime, hasWalltime>>
  BY DEF StartJob, ExecuteJob, jobVars
<1>2. Cardinality(M) = res[j] /\ M # {} /\ M \in SUBSET Machines
  <2>1. M \subseteq available /\ Cardinality(M) = res[j]
    BY LeftOfAvailable DEF IInv
  <2>2. res[j] > 0
    BY DEF Horizons, Attributes
  <2>3. Cardinality({}) = 0
    BY FS_EmptySet
  <2>. QED  BY <2>1, <2>2, <2>3 DEF IInv, Books
<1>3. /\ hasWalltime[j] = TRUE /\ walltime[j] - RjmsDelay \in Nat \ {0}
      /\ walltime[j] \in Int /\ RjmsDelay \in Nat /\ now \in Nat
  BY PlatformAssumption DEF IsValid, IInv, Queues, Horizons, Attributes
<1>4. point \in Points
  BY <1>3 DEF Points, IInv, Books
<1>. HIDE DEF M
<1>5. allocations[j] = {}
  BY DEF IInv, Books, ResourceAccounting, EndedAreDone
<1>6. \A q \in ToSet(horizons) : q.job \in Jobs /\ q.job # j
  BY <1>5, HorizonsMatch DEF Horizons
<1>7. /\ horizons' \in Seq(Points)
      /\ ToSet(horizons') = ToSet(horizons) \cup {point}
      /\ ByDate(horizons') /\ OnePointPerJob(horizons')
  <2>1. point.job = j
    OBVIOUS
  <2>. HIDE DEF point
  <2>. QED  BY <1>1, <1>4, <1>6, <2>1, HorizonsMatch, InsertHorizonPointProperties
            DEF Horizons
<1>8. \A p \in ToSet(horizons') :
        \/ p \in ToSet(horizons) /\ p.job \in Jobs /\ p.job # j
        \/ p = point
  BY <1>6, <1>7
<1>9. {p.job : p \in ToSet(horizons')} = {k \in Jobs : allocations'[k] # {}}
  <2>1. {p.job : p \in ToSet(horizons')} = {p.job : p \in ToSet(horizons)} \cup {j}
    <3>1. point.job = j
      OBVIOUS
    <3>. HIDE DEF point
    <3>. QED  BY <1>7, <3>1
  <2>2. {k \in Jobs : allocations'[k] # {}} = {k \in Jobs : allocations[k] # {}} \cup {j}
    BY <1>1, <1>2 DEF IInv, Books
  <2>. QED  BY <2>1, <2>2, HorizonsMatch DEF Horizons
<1>10. \A p \in ToSet(horizons') : p.nb = Cardinality(allocations'[p.job])
  BY <1>1, <1>2, <1>8, HorizonsMatch DEF Horizons, IInv, Books
<1>11. HorizonsMatchAllocations'
  BY <1>7, <1>9, <1>10 DEF HorizonsMatchAllocations, ByDate, OnePointPerJob
<1>12. deadline' \in [Jobs -> Nat]
  BY <1>1, <1>3 DEF Horizons
<1>13. Attributes'
  BY <1>1 DEF Horizons, Attributes
<1>14. DatesFollowDeadlines'
  <2>. SUFFICES ASSUME NEW p \in ToSet(horizons'), status'[p.job] = "running"
                PROVE  p.date = deadline'[p.job] + RjmsDelay
    BY DEF DatesFollowDeadlines
  <2>1. CASE p = point
    <3>1. p.job = j /\ p.date = now + walltime[j]
      BY <2>1
    <3>2. deadline'[j] = now + (walltime[j] - RjmsDelay)
      BY <1>1, <1>3 DEF Horizons
    <3>. QED  BY <1>3, <3>1, <3>2
  <2>2. CASE p # point
    BY <1>1, <1>8, <2>2 DEF Horizons, DatesFollowDeadlines, IInv, Books
  <2>. QED  BY <2>1, <2>2
<1>15. NobodyOverdue'
  BY <1>1, <1>3 DEF Horizons, NobodyOverdue
<1>. QED  BY <1>1, <1>7, <1>11, <1>12, <1>13, <1>14, <1>15 DEF Horizons

\* Handling the end of a job removes its horizon point.
LEMMA HandleEndedKeepsHorizons ==
  ASSUME IInv, Horizons, HandleEnded
  PROVE  /\ Horizons'
         /\ ToSet(horizons') = {q \in ToSet(horizons) : q.job # Head(ended)}
<1>. DEFINE j == Head(ended)
<1>1. /\ ended # <<>>
      /\ horizons' = RemoveAt(horizons, HorizonPoint(horizons, j))
      /\ allocations' = [allocations EXCEPT ![j] = {}]
      /\ UNCHANGED <<now, status, deadline, res, walltime, hasWalltime>>
  BY DEF HandleEnded, worldVars, jobVars
<1>2. j \in Jobs /\ j \in ToSet(ended) /\ status[j] = "done"
  BY <1>1, TailOfInjective DEF IInv, Books, EndedAreDone
<1>. HIDE DEF j
<1>3. allocations[j] # {}
  <2>1. Cardinality(allocations[j]) = res[j] /\ res[j] > 0
    BY <1>2 DEF IInv, Books, ExactSizes, Horizons, Attributes
  <2>. QED  BY <2>1, FS_EmptySet
<1>4. \E q \in ToSet(horizons) : q.job = j
  BY <1>2, <1>3, HorizonsMatch DEF Horizons
<1>5. /\ horizons' \in Seq(Points)
      /\ ToSet(horizons') = {q \in ToSet(horizons) : q.job # j}
      /\ ByDate(horizons') /\ OnePointPerJob(horizons')
  BY <1>1, <1>4, HorizonsMatch, EraseHorizonPoint DEF Horizons
<1>6. {p.job : p \in ToSet(horizons')} = {k \in Jobs : allocations'[k] # {}}
  <2>1. {p.job : p \in ToSet(horizons')} = {p.job : p \in ToSet(horizons)} \ {j}
    BY <1>5
  <2>2. {k \in Jobs : allocations'[k] # {}} = {k \in Jobs : allocations[k] # {}} \ {j}
    BY <1>1, <1>2 DEF IInv, Books
  <2>. QED  BY <2>1, <2>2, HorizonsMatch DEF Horizons
<1>7. \A p \in ToSet(horizons') : p.nb = Cardinality(allocations'[p.job])
  <2>1. \A p \in ToSet(horizons') : allocations'[p.job] = allocations[p.job]
    BY <1>1, <1>5 DEF IInv, Books
  <2>. QED  BY <1>5, <2>1, HorizonsMatch DEF Horizons
<1>8. HorizonsMatchAllocations'
  BY <1>5, <1>6, <1>7 DEF HorizonsMatchAllocations, ByDate, OnePointPerJob
<1>9. DatesFollowDeadlines'
  BY <1>1, <1>5 DEF Horizons, DatesFollowDeadlines
<1>. QED  BY <1>1, <1>5, <1>8, <1>9 DEF Horizons, Attributes, NobodyOverdue, j

\* A submitted job has no horizon point, and the attributes of its submission.
LEMMA SubmitKeepsHorizons ==
  ASSUME IInv, Horizons, NEW j \in Jobs, NEW r \in Requests, NEW w \in Walltimes,
         Submit(j, r, w), UNCHANGED schedVars
  PROVE  Horizons'
<1>1. /\ status[j] = "future"
      /\ status' = [status EXCEPT ![j] = "waiting"]
      /\ res' = [res EXCEPT ![j] = r]
      /\ walltime' = [walltime EXCEPT ![j] = w + RjmsDelay]
      /\ hasWalltime' = [hasWalltime EXCEPT ![j] = (w # NoWalltime)]
      /\ UNCHANGED <<now, deadline, horizons, allocations>>
  BY DEF Submit, schedVars, platformVars
<1>2. /\ r \in Nat \ {0} /\ RjmsDelay \in Nat /\ w \in Int
      /\ w # NoWalltime => w \in Nat \ {0}
  BY PlatformAssumption DEF NoWalltime
<1>3. walltime' \in [Jobs -> Int]
  BY <1>1, <1>2 DEF Horizons
<1>4. Attributes'
  <2>. SUFFICES ASSUME NEW k \in Jobs, status'[k] # "future"
                PROVE  /\ res'[k] > 0
                       /\ hasWalltime'[k] => walltime'[k] - RjmsDelay \in Nat \ {0}
    BY DEF Attributes
  <2>1. CASE k = j
    <3>1. res'[k] = r /\ walltime'[k] = w + RjmsDelay
      BY <1>1, <2>1 DEF Horizons, IInv, Books
    <3>2. hasWalltime'[k] => w # NoWalltime
      BY <1>1, <2>1 DEF IInv, Queues
    <3>. QED  BY <1>2, <3>1, <3>2
  <2>2. CASE k # j
    <3>1. /\ status[k] # "future" /\ res'[k] = res[k]
          /\ walltime'[k] = walltime[k] /\ hasWalltime'[k] = hasWalltime[k]
      BY <1>1, <2>2 DEF Horizons, IInv, Books, Queues
    <3>. QED  BY <3>1 DEF Horizons, Attributes
  <2>. QED  BY <2>1, <2>2
<1>5. DatesFollowDeadlines'
  <2>1. \A p \in ToSet(horizons) : p.job \in Jobs
    BY HorizonsMatch DEF Horizons
  <2>2. \A k \in Jobs : status'[k] = "running" => status[k] = "running"
    BY <1>1 DEF IInv, Books
  <2>. QED  BY <1>1, <2>1, <2>2 DEF Horizons, DatesFollowDeadlines
<1>6. NobodyOverdue'
  BY <1>1 DEF Horizons, NobodyOverdue, IInv, Books
<1>. QED  BY <1>1, <1>3, <1>4, <1>5, <1>6 DEF Horizons, HorizonsMatchAllocations

\* Other changes of the status of a job start nothing.
LEMMA StatusKeepsHorizons ==
  ASSUME IInv, Horizons, NEW j \in Jobs, NEW st \in {"done", "rejected"},
         status[j] # "future", status' = [status EXCEPT ![j] = st],
         UNCHANGED <<now, deadline, jobVars, platformVars>>
  PROVE  Horizons'
<1>1. \A k \in Jobs : status'[k] = "running" => status[k] = "running"
  BY DEF IInv, Books
<1>2. \A k \in Jobs : status'[k] # "future" => status[k] # "future"
  BY DEF IInv, Books
<1>3. \A p \in ToSet(horizons) : p.job \in Jobs
  BY HorizonsMatch DEF Horizons
<1>. QED  BY <1>1, <1>2, <1>3 DEF Horizons, HorizonsMatchAllocations, Attributes,
             DatesFollowDeadlines, NobodyOverdue, jobVars, platformVars

\* Time only advances as long as no running job is at its deadline.
LEMMA TickKeepsHorizons ==
  ASSUME Horizons, Tick, UNCHANGED schedVars
  PROVE  Horizons'
<1>1. /\ now' = now + 1 /\ now \in Nat
      /\ \A j \in Jobs : status[j] = "running" => now < deadline[j]
      /\ UNCHANGED <<status, deadline, res, walltime, hasWalltime, horizons, allocations>>
  BY DEF Tick, Horizons, jobVars, schedVars, platformVars
<1>2. NobodyOverdue'
  BY <1>1 DEF Horizons, NobodyOverdue
<1>. QED  BY <1>1, <1>2 DEF Horizons, HorizonsMatchAllocations, Attributes,
             DatesFollowDeadlines

\* Steps that change neither jobs nor machines keep the list as it is.
LEMMA StutterKeepsHorizons ==
  ASSUME Horizons, UNCHANGED <<worldVars, jobVars, platformVars>>
  PROVE  Horizons'
  BY DEF Horizons, HorizonsMatchAllocations, Attributes, DatesFollowDeadlines,
         NobodyOverdue, worldVars, jobVars, platformVars

\* What a step does to jobs and machines, whatever it does to the queues.
LEMMA PlatformStep ==
  ASSUME IInv, [Next]_vars
  PROVE  \/ \E j \in Jobs, r \in Requests, w \in Walltimes :
              Submit(j, r, w) /\ UNCHANGED schedVars
         \/ \E j \in Jobs : Complete(j) /\ UNCHANGED schedVars
         \/ Tick /\ UNCHANGED schedVars
         \/ HandleEnded
         \/ \E j \in Jobs :
              /\ status[j] = "waiting" /\ IsValid(j) /\ Fits(j)
              /\ StartJob(j)
              /\ UNCHANGED <<jobVars, ended>>
         \/ \E j \in Jobs :
              /\ status[j] = "waiting" /\ RejectJob(j)
              /\ UNCHANGED <<jobVars, ended, platformVars>>
         \/ UNCHANGED <<worldVars, jobVars, ended, platformVars>>
         \/ Receive
<1>1. CASE \/ EndedHandled \/ PriorityStillBlocked \/ PendingBecomesPriority
           \/ QueueLaunched \/ RefreshExpectedStart \/ SkipPending \/ BackfillDone
           \/ QueueReleased \/ ReleasedBecomesPriority \/ Reply \/ UNCHANGED vars
  <2>1. UNCHANGED <<worldVars, jobVars, ended, platformVars>>
    BY <1>1
       DEF EndedHandled, PriorityStillBlocked, PendingBecomesPriority, QueueLaunched,
           RefreshExpectedStart, SkipPending, BackfillDone, QueueReleased,
           ReleasedBecomesPriority, TakeReleased, Reply, vars, batsimVars,
           schedVars
  <2>. QED  BY <2>1
<1>2. CASE LaunchPriority
  <2>1. priority \in Jobs /\ status[priority] = "waiting" /\ IsValid(priority)
    BY <1>2 DEF LaunchPriority, IInv, Queues, ControlPoints, NoJobForgotten,
                QueuedAreValid
  <2>. QED  BY <1>2, <2>1 DEF LaunchPriority
<1>3. CASE LaunchPending
  <2>1. Head(pending) \in ToSet(pending)
    BY <1>3, TailOfInjective DEF LaunchPending, IInv, Queues, NoJobForgotten
  <2>2. /\ Head(pending) \in Jobs /\ status[Head(pending)] = "waiting"
        /\ IsValid(Head(pending))
    BY <2>1 DEF IInv, Queues, NoJobForgotten, QueuedAreValid
  <2>. QED  BY <1>3, <2>2 DEF LaunchPending
<1>4. CASE Backfill
  <2>. DEFINE j == pending[cursor]
  <2>1. cursor \in 1 .. Len(pending)
    BY <1>4 DEF Backfill, IInv, Queues
  <2>2. j \in ToSet(pending)
    BY <2>1, RemoveAtOfInjective DEF IInv, Queues, NoJobForgotten
  <2>3. j \in Jobs /\ status[j] = "waiting" /\ IsValid(j)
    BY <2>2 DEF IInv, Queues, NoJobForgotten, QueuedAreValid
  <2>4. Fits(j) /\ StartJob(j) /\ UNCHANGED <<jobVars, ended>>
    BY <1>4 DEF Backfill
  <2>. HIDE DEF j
  <2>. QED  BY <2>3, <2>4
<1>5. CASE RejectReleased
  BY <1>5, TakenFromReleased DEF RejectReleased, TakeReleased
<1>6. CASE StartReleased
  BY <1>6, TakenFromReleased DEF StartReleased, TakeReleased
<1>. QED
  BY <1>1, <1>2, <1>3, <1>4, <1>5, <1>6
     DEF Next, Platform, BatsimStep, MakeDecisions, Terminated

\* Every step keeps the list of horizon points.
LEMMA StepKeepsHorizons ==
  ASSUME IInv, Horizons, [Next]_vars
  PROVE  Horizons'
<1>1. ASSUME NEW j \in Jobs, Complete(j), UNCHANGED schedVars
      PROVE  Horizons'
  BY <1>1, StatusKeepsHorizons DEF Complete, schedVars
<1>2. ASSUME NEW j \in Jobs, status[j] = "waiting", RejectJob(j),
             UNCHANGED <<jobVars, platformVars>>
      PROVE  Horizons'
  BY <1>2, StatusKeepsHorizons DEF RejectJob
<1>3. CASE Receive
  BY <1>3, StutterKeepsHorizons DEF Receive, Send
<1>. QED
  BY <1>1, <1>2, <1>3, PlatformStep, SubmitKeepsHorizons, TickKeepsHorizons,
     HandleEndedKeepsHorizons, StartKeepsHorizons, StutterKeepsHorizons

-------------------------------------------------------------------------------
(* The expected start, computed from the list.                             *)

\* AvailableAfter is what its recursive definition says.
LEMMA RunningCount ==
  ASSUME NEW points \in Seq(Points), NEW nb \in Int
  PROVE  /\ AvailableAfter(points, nb)[0] = nb
         /\ \A i \in 1 .. Len(points) :
              AvailableAfter(points, nb)[i]
                = AvailableAfter(points, nb)[i - 1] + points[i].nb
<1>. DEFINE n == Len(points)
            v == [i \in 1 .. n |-> points[i].nb]
            c == AvailableAfter(points, nb)
<1>1. n \in Nat
  BY LenProperties
<1>2. \A i \in 1 .. n : v[i] \in Int
  <2>1. \A i \in 1 .. n : points[i] \in Points
    BY ElementOfSeq
  <2>. QED  BY <2>1 DEF Points
<1>3. PICK g : g = [i \in 0 .. n |-> IF i = 0 THEN nb ELSE g[i - 1] + v[i]]
  <2>. HIDE DEF n, v
  <2>. QED  BY <1>1, <1>2, RunningSum
<1>4. g = [i \in 0 .. n |-> IF i = 0 THEN nb ELSE g[i - 1] + points[i].nb]
  <2>1. \A i \in 0 .. n : i # 0 => v[i] = points[i].nb
    BY <1>1
  <2>. HIDE DEF n, v
  <2>. QED  BY <1>3, <2>1
<1>5. c = [i \in 0 .. n |-> IF i = 0 THEN nb ELSE c[i - 1] + points[i].nb]
  BY <1>4 DEF AvailableAfter
<1>. HIDE DEF c, n
<1>6. c[0] = nb /\ \A i \in 1 .. n : c[i] = c[i - 1] + points[i].nb
  BY <1>1, <1>5
<1>. QED  BY <1>6 DEF c, n

\* The machines free once the first i horizon points have been reached.
Reached(i) == available \cup UNION {allocations[horizons[k].job] : k \in 1 .. i}

\* Adding up the sizes of the points counts machines: no machine twice, and
\* after the last point all of them.
LEMMA ReachedIsCounted ==
  ASSUME IInv, Horizons
  PROVE  /\ \A i \in 0 .. Len(horizons) :
              /\ Reached(i) \in SUBSET Machines
              /\ AvailableAfter(horizons, nbAvailable)[i] = Cardinality(Reached(i))
         /\ Reached(Len(horizons)) = Machines
<1>. DEFINE n == Len(horizons)
            c == AvailableAfter(horizons, nbAvailable)
            S == {i \in 0 .. n : /\ Reached(i) \in SUBSET Machines
                                 /\ c[i] = Cardinality(Reached(i))}
<1>1. n \in Nat /\ DOMAIN horizons = 1 .. n
  BY LenProperties DEF Horizons
<1>2. \A i \in 1 .. n :
        /\ horizons[i].job \in Jobs
        /\ horizons[i].nb = Cardinality(allocations[horizons[i].job])
  BY <1>1, HorizonsMatch DEF Horizons, ToSet
<1>3. nbAvailable = Cardinality(available) /\ nbAvailable \in Int
  BY MachinesFinite DEF IInv, Books, ResourceAccounting
<1>4. c[0] = nbAvailable /\ \A i \in 1 .. n : c[i] = c[i - 1] + horizons[i].nb
  BY <1>3, RunningCount DEF Horizons
<1>. HIDE DEF c, n
<1>5. 0 \in S
  <2>1. Reached(0) = available
    BY DEF Reached
  <2>. QED  BY <1>1, <1>3, <1>4, <2>1 DEF IInv, Books
<1>6. ASSUME NEW i \in 0 .. n - 1, i \in S
      PROVE  i + 1 \in S
  <2>. DEFINE A == allocations[horizons[i + 1].job]
  <2>1. i + 1 \in 1 .. n /\ (i + 1) - 1 = i /\ 1 .. i + 1 = (1 .. i) \cup {i + 1}
    BY <1>1
  <2>2. Reached(i + 1) = Reached(i) \cup A
    <3>1. \A k : k \in 1 .. i + 1 <=> k \in 1 .. i \/ k = i + 1
      BY <2>1
    <3>. QED  BY <3>1 DEF Reached
  <2>3. A \in SUBSET Machines
    BY <1>2, <2>1 DEF IInv, Books
  <2>4. Reached(i) \cap A = {}
    <3>1. available \cap A = {}
      BY <1>2, <2>1 DEF IInv, Books, ResourceAccounting
    <3>2. ASSUME NEW k \in 1 .. i
          PROVE  allocations[horizons[k].job] \cap A = {}
      <4>1. k \in 1 .. n /\ k # i + 1
        BY <1>1
      <4>2. horizons[k].job # horizons[i + 1].job
        BY <1>1, <2>1, <4>1, HorizonsMatch DEF Horizons, OnePointPerJob
      <4>. QED  BY <1>2, <2>1, <4>1, <4>2 DEF IInv, Books, ResourceAccounting
    <3>. QED  BY <3>1, <3>2 DEF Reached
  <2>5. Cardinality(Reached(i + 1)) = Cardinality(Reached(i)) + Cardinality(A)
    BY <1>6, <2>2, <2>3, <2>4, CountAdded, MachinesFinite
  <2>6. c[i + 1] = c[i] + Cardinality(A)
    BY <1>2, <1>4, <2>1
  <2>7. Reached(i + 1) \in SUBSET Machines /\ i + 1 \in 0 .. n
    BY <1>1, <1>6, <2>2, <2>3
  <2>. QED  BY <1>6, <2>5, <2>6, <2>7
<1>7. \A i \in 0 .. n : i \in S
  <2>1. \A i \in 0 .. n - 1 : i \in S => i + 1 \in S
    BY <1>6
  <2>. HIDE DEF S
  <2>. QED  BY <1>1, <1>5, <2>1, IntervalInduction
<1>8. Reached(n) = Machines
  <2>1. Reached(n) \subseteq Machines
    BY <1>1, <1>7
  <2>2. ASSUME NEW m \in Machines, m \notin available
        PROVE  m \in Reached(n)
    <3>1. PICK j \in Jobs : m \in allocations[j]
      BY <2>2 DEF IInv, Books, ResourceAccounting
    <3>2. PICK i \in DOMAIN horizons : horizons[i].job = j
      BY <3>1, HorizonsMatch DEF Horizons, ToSet
    <3>. QED  BY <1>1, <3>1, <3>2 DEF Reached
  <2>. QED  BY <2>1, <2>2 DEF Reached
<1>. QED  BY <1>7, <1>8 DEF c, n

\* FreeBy only holds machines of the platform.
LEMMA FreeByMachines ==
  ASSUME IInv, Horizons, NEW d
  PROVE  FreeBy(d) \in SUBSET Machines
<1>1. \A p \in ToSet(horizons) : allocations[p.job] \subseteq Machines
  BY HorizonsMatch DEF Horizons, IInv, Books
<1>. QED  BY <1>1 DEF FreeBy, IInv, Books

\* update_priority_job_expected_earliest_start_time, called for a valid job that
\* does not fit: the date it finds is that of a horizon point, enough machines
\* are free by then, and at no earlier date.
LEMMA ExpectedStartIsEarliest ==
  ASSUME IInv, Horizons, NEW j \in Jobs, IsValid(j), ~Fits(j),
         UpdateExpectedStart(j, horizons, nbAvailable)
  PROVE  /\ \E p \in ToSet(horizons) : expectedStart' = p.date
         /\ expectedStart' \in Nat
         /\ remaining' \in Nat
         /\ Cardinality(FreeBy(expectedStart')) >= res[j] + remaining'
         /\ \A d \in Nat : Cardinality(FreeBy(d)) >= res[j] => expectedStart' <= d
<1>. DEFINE n == Len(horizons)
            c == AvailableAfter(horizons, nbAvailable)
            enough == EnoughAfter(horizons, nbAvailable, j)
            first == Min(enough)
<1>1. /\ n \in Nat /\ DOMAIN horizons = 1 .. n
      /\ \A i \in 1 .. n : horizons[i].date \in Nat
  <2>1. \A i \in 1 .. n : horizons[i] \in Points
    BY ElementOfSeq DEF Horizons
  <2>. QED  BY <2>1, LenProperties DEF Points, Horizons
<1>2. /\ \A i \in 0 .. n : /\ Reached(i) \in SUBSET Machines
                           /\ c[i] = Cardinality(Reached(i))
      /\ Reached(n) = Machines
  BY ReachedIsCounted
<1>3. \A i \in 0 .. n : c[i] \in Nat
  BY <1>2, MachinesFinite
<1>4. res[j] \in Nat /\ nbAvailable \in Nat /\ nbAvailable < res[j]
  BY MachinesFinite DEF IInv, Books, ResourceAccounting, Fits
<1>5. c[0] = nbAvailable
  BY <1>4, RunningCount DEF Horizons
<1>6. n \in enough
  <2>1. c[n] = NbMachines
    BY <1>1, <1>2, AllMachines
  <2>2. NbMachines >= res[j]
    BY <1>4, PlatformAssumption DEF IsValid
  <2>3. n # 0
    BY <1>4, <1>5, <2>1, <2>2, PlatformAssumption
  <2>. QED  BY <1>1, <2>1, <2>2, <2>3 DEF EnoughAfter
<1>7. /\ first \in 1 .. n /\ c[first] >= res[j]
      /\ \A i \in 1 .. n : c[i] >= res[j] => first <= i
  <2>1. enough \in SUBSET Nat
    BY <1>1 DEF EnoughAfter
  <2>2. first \in enough /\ \A k \in enough : first <= k
    BY <1>6, <2>1, MinProperties
  <2>. HIDE DEF first
  <2>. QED  BY <1>1, <2>2 DEF EnoughAfter
<1>8. expectedStart' = horizons[first].date /\ remaining' = c[first] - res[j]
  BY <1>6 DEF UpdateExpectedStart
<1>. HIDE DEF first, c, n
<1>9. horizons[first] \in ToSet(horizons) /\ expectedStart' \in Nat
  BY <1>1, <1>7, <1>8 DEF ToSet
<1>10. remaining' \in Nat
  BY <1>3, <1>4, <1>7, <1>8
<1>11. \A i, k \in 1 .. n : i <= k => horizons[i].date <= horizons[k].date
  <2>1. ByDate(horizons)
    BY HorizonsMatch DEF Horizons
  <2>. QED  BY <1>1, <2>1 DEF ByDate
<1>12. Cardinality(FreeBy(expectedStart')) >= res[j] + remaining'
  <2>1. Reached(first) \subseteq FreeBy(expectedStart')
    <3>1. \A k \in 1 .. first :
            horizons[k] \in ToSet(horizons) /\ horizons[k].date <= expectedStart'
      BY <1>1, <1>7, <1>8, <1>11 DEF ToSet
    <3>. QED  BY <3>1 DEF Reached, FreeBy
  <2>2. /\ Cardinality(FreeBy(expectedStart')) \in Nat
        /\ c[first] <= Cardinality(FreeBy(expectedStart'))
    BY <1>1, <1>2, <1>7, <2>1, FreeByMachines, MachinesFinite, CountMonotonic
  <2>. QED  BY <1>3, <1>4, <1>7, <1>8, <2>2
<1>13. ASSUME NEW d \in Nat, Cardinality(FreeBy(d)) >= res[j], ~(expectedStart' <= d)
       PROVE  FALSE
  <2>1. first - 1 \in 0 .. n /\ c[first - 1] < res[j]
    <3>1. CASE first = 1
      BY <1>1, <1>4, <1>5, <1>7, <3>1
    <3>2. CASE first # 1
      <4>1. first - 1 \in 1 .. n /\ first - 1 \in 0 .. n /\ ~(first <= first - 1)
        BY <1>1, <1>7, <3>2
      <4>. QED  BY <1>3, <1>4, <1>7, <4>1
    <3>. QED  BY <3>1, <3>2
  <2>2. FreeBy(d) \subseteq Reached(first - 1)
    <3>1. ASSUME NEW i \in 1 .. n, horizons[i].date <= d
          PROVE  i \in 1 .. first - 1
      <4>1. ~(first <= i)
        BY <1>1, <1>7, <1>8, <1>9, <1>11, <1>13, <3>1
      <4>. QED  BY <1>1, <1>7, <4>1
    <3>2. \A p \in ToSet(horizons) : p.date <= d =>
            \E i \in 1 .. first - 1 : p = horizons[i]
      BY <1>1, <3>1 DEF ToSet
    <3>. QED  BY <3>2 DEF FreeBy, Reached
  <2>3. Reached(first - 1) \in SUBSET Machines
        /\ c[first - 1] = Cardinality(Reached(first - 1))
    BY <1>2, <2>1
  <2>4. Cardinality(FreeBy(d)) <= c[first - 1] /\ Cardinality(FreeBy(d)) \in Nat
    BY <2>2, <2>3, CountMonotonic, FreeByMachines, MachinesFinite
  <2>. QED  BY <1>3, <1>4, <1>13, <2>1, <2>4
<1>. QED  BY <1>8, <1>9, <1>10, <1>12, <1>13

\* Once the ended jobs are handled, no horizon point is dated in the past.
LEMMA PointsAreAhead ==
  ASSUME IInv, Horizons, ended = <<>>, NEW p \in ToSet(horizons)
  PROVE  /\ status[p.job] = "running" /\ p.job \in Jobs
         /\ p.date = deadline[p.job] + RjmsDelay
         /\ now <= p.date
<1>1. p.job \in Jobs /\ allocations[p.job] # {}
  BY HorizonsMatch DEF Horizons
<1>2. status[p.job] = "running"
  <2>1. ToSet(ended) = {}
    BY DEF ToSet
  <2>. QED  BY <1>1, <2>1 DEF IInv, Books, ResourceAccounting
<1>3. p.date = deadline[p.job] + RjmsDelay
  BY <1>2 DEF Horizons, DatesFollowDeadlines
<1>4. now <= deadline[p.job] /\ deadline[p.job] \in Nat /\ now \in Nat
  BY <1>1, <1>2 DEF Horizons, NobodyOverdue
<1>. QED  BY <1>1, <1>2, <1>3, <1>4, PlatformAssumption

-------------------------------------------------------------------------------
(* What is known at each program point.                                    *)

\* Every step keeps Turns: the queue is reconsidered whenever machines were
\* released, and only then does it have to be.
LEMMA StepKeepsTurns ==
  ASSUME PInv, [Next]_vars
  PROVE  Turns'
<1>. IInv /\ Horizons /\ Turns
  BY DEF PInv
<1>. USE DEF Turns, AfterEnded, Unreleased
<1>1. ASSUME UNCHANGED <<pc, ended, jobEnded, queueVars, nbAvailable>>,
             priority # NullJob => res'[priority] = res[priority]
      PROVE  Turns'
  BY <1>1 DEF PriorityIsBlocked, Fits, queueVars
<1>2. ASSUME NEW j \in Jobs, NEW r \in Requests, NEW w \in Walltimes,
             Submit(j, r, w), UNCHANGED schedVars
      PROVE  Turns'
  <2>1. priority # NullJob => res'[priority] = res[priority]
    BY <1>2 DEF Submit, IInv, Books, Queues, NoJobForgotten
  <2>. QED  BY <1>1, <1>2, <2>1 DEF Submit, schedVars, platformVars, localVars
<1>3. ASSUME NEW j \in Jobs, Complete(j), UNCHANGED schedVars
      PROVE  Turns'
  BY <1>3 DEF Complete, schedVars, platformVars, queueVars, localVars, jobVars,
              PriorityIsBlocked, Fits
<1>4. CASE Tick /\ UNCHANGED schedVars
  BY <1>1, <1>4 DEF Tick, jobVars, schedVars, platformVars, localVars
<1>5. CASE Receive
  BY <1>5 DEF Receive, Send, jobVars, platformVars, queueVars, PriorityIsBlocked, Fits
<1>6. CASE HandleEnded
  BY <1>6 DEF HandleEnded, queueVars, localVars
<1>7. CASE \/ EndedHandled \/ PriorityStillBlocked \/ QueueLaunched \/ BackfillDone
  <2>1. /\ UNCHANGED <<res, ended, jobEnded, priority, pending, nbAvailable>>
        /\ PriorityIsBlocked' = PriorityIsBlocked
    BY <1>7 DEF EndedHandled, PriorityStillBlocked, QueueLaunched, BackfillDone,
                jobVars, schedVars, platformVars, queueVars, localVars,
                PriorityIsBlocked, Fits
  <2>2. CASE EndedHandled
    BY <2>1, <2>2 DEF EndedHandled, PriorityIsBlocked
  <2>3. CASE PriorityStillBlocked
    BY <2>1, <2>3 DEF PriorityStillBlocked, PriorityIsBlocked
  <2>4. CASE QueueLaunched
    BY <2>1, <2>4 DEF QueueLaunched, PriorityIsBlocked, IInv, Queues, ControlPoints
  <2>5. CASE BackfillDone
    BY <2>1, <2>5 DEF BackfillDone
  <2>. QED  BY <1>7, <2>2, <2>3, <2>4, <2>5
<1>8. CASE LaunchPriority
  BY <1>8 DEF LaunchPriority, localVars, PriorityIsBlocked
<1>9. CASE LaunchPending
  BY <1>9 DEF LaunchPending, localVars, IInv, Queues, ControlPoints, PriorityIsBlocked
<1>10. CASE PendingBecomesPriority
  <2>1. Head(pending) \in Jobs
    BY <1>10, TailOfInjective DEF PendingBecomesPriority, IInv, Queues, NoJobForgotten
  <2>2. priority' # NullJob /\ ~Fits(priority)'
    BY <1>10, <2>1 DEF PendingBecomesPriority, Jobs, NullJob, Fits, jobVars, platformVars
  <2>. QED  BY <1>10, <2>2 DEF PendingBecomesPriority, localVars, PriorityIsBlocked
<1>11. CASE RefreshExpectedStart
  BY <1>11 DEF RefreshExpectedStart, jobVars, platformVars, queueVars,
               PriorityIsBlocked, Fits
<1>12. ASSUME NEW j \in Jobs, Fits(j), StartJob(j), UNCHANGED <<jobVars, priority>>,
              PriorityIsBlocked
       PROVE  PriorityIsBlocked'
  <2>1. nbAvailable' = nbAvailable - res[j]
    BY <1>12 DEF StartJob
  <2>2. nbAvailable \in Nat /\ res \in [Jobs -> Nat] /\ priority \in Jobs \cup {NullJob}
    BY MachinesFinite DEF IInv, Books, ResourceAccounting, Queues
  <2>. QED  BY <1>12, <2>1, <2>2 DEF PriorityIsBlocked, Fits, jobVars
<1>13. CASE Backfill
  <2>. DEFINE j == pending[cursor]
  <2>1. j \in Jobs
    <3>1. cursor \in 1 .. Len(pending)
      BY <1>13 DEF Backfill, IInv, Queues
    <3>. QED  BY <3>1, ElementOfSeq DEF IInv, Queues
  <2>2. Fits(j) /\ StartJob(j)
    BY <1>13 DEF Backfill
  <2>. HIDE DEF j
  <2>3. PriorityIsBlocked'
    BY <1>12, <1>13, <2>1, <2>2 DEF Backfill
  <2>4. priority # NullJob
    <3>1. pending # <<>>
      BY <1>13 DEF Backfill, IInv, Queues
    <3>. QED  BY <1>13, <3>1 DEF Backfill
  <2>. QED  BY <1>13, <2>3, <2>4 DEF Backfill, localVars
<1>14. CASE SkipPending
  BY <1>1, <1>14 DEF SkipPending, platformVars, queueVars, jobVars
<1>15. CASE RejectReleased
  BY <1>1, <1>15 DEF RejectReleased, TakeReleased, platformVars, jobVars, localVars
<1>16. CASE StartReleased
  <2>1. PICK j \in Jobs : TakeReleased(j) /\ Fits(j) /\ StartJob(j) /\ UNCHANGED queueVars
    BY <1>16 DEF StartReleased
  <2>2. PriorityIsBlocked'
    BY <1>12, <2>1 DEF TakeReleased, queueVars
  <2>. QED  BY <2>1, <2>2 DEF TakeReleased, queueVars, localVars
<1>17. CASE QueueReleased
  BY <1>17 DEF QueueReleased, TakeReleased, platformVars, jobVars, localVars,
               PriorityIsBlocked, Fits
<1>18. CASE ReleasedBecomesPriority
  BY <1>18 DEF ReleasedBecomesPriority, TakeReleased, platformVars, jobVars,
               localVars, PriorityIsBlocked, Fits, Jobs, NullJob
<1>19. CASE Reply
  BY <1>19 DEF Reply, platformVars, queueVars, jobVars, PriorityIsBlocked, Fits
<1>20. CASE UNCHANGED vars
  BY <1>1, <1>20 DEF vars, batsimVars, jobVars, schedVars, platformVars, localVars
<1>. QED
  BY <1>2, <1>3, <1>4, <1>5, <1>6, <1>7, <1>8, <1>9, <1>10, <1>11, <1>13, <1>14,
     <1>15, <1>16, <1>17, <1>18, <1>19, <1>20
     DEF Next, Platform, BatsimStep, MakeDecisions, Terminated

-------------------------------------------------------------------------------
(* The reservation of the priority job.                                    *)

\* FreeBy as a function of the state it is read in.
FreeOf(free, given, points, d) ==
  free \cup UNION {given[p.job] : p \in {p \in ToSet(points) : p.date <= d}}

\* How many machines are free by a date, for Int-valued comparisons.
LEMMA FreeByCount ==
  ASSUME IInv, Horizons, NEW d
  PROVE  /\ FreeOf(available, allocations, horizons, d) \in SUBSET Machines
         /\ Cardinality(FreeOf(available, allocations, horizons, d)) \in Nat
<1>1. FreeBy(d) = FreeOf(available, allocations, horizons, d)
  BY DEF FreeBy, FreeOf
<1>. QED  BY <1>1, FreeByMachines, MachinesFinite

\* A start takes no machine from those free by a date if the job has ended
\* then, as the list of horizon points has it; otherwise it takes its own.
LEMMA StartAndFreeMachines ==
  ASSUME IInv, Horizons, NEW j \in Jobs, status[j] = "waiting", IsValid(j),
         Fits(j), StartJob(j), UNCHANGED <<jobVars, ended>>, NEW d \in Nat
  PROVE  /\ Cardinality(FreeOf(available', allocations', horizons', d)) \in Nat
         /\ Cardinality(FreeOf(available', allocations', horizons', d))
              >= Cardinality(FreeOf(available, allocations, horizons, d))
                   - IF now + walltime[j] > d THEN res[j] ELSE 0
<1>. DEFINE M == Left(available, res[j])
            point == [date |-> now + walltime[j], nb |-> res[j], job |-> j]
            before == FreeOf(available, allocations, horizons, d)
            after == FreeOf(available', allocations', horizons', d)
<1>1. /\ available' = available \ M
      /\ allocations' = [allocations EXCEPT ![j] = M]
  BY DEF StartJob
<1>2. M \subseteq available /\ Cardinality(M) = res[j] /\ res[j] \in Nat
  BY LeftOfAvailable DEF IInv, Books
<1>3. /\ ToSet(horizons') = ToSet(horizons) \cup {point}
      /\ point.date = now + walltime[j] /\ point.job = j
      /\ Horizons'
  BY StartKeepsHorizons
<1>4. before \in SUBSET Machines
  BY FreeByCount
<1>5. after \in SUBSET Machines
  <2>1. available' \subseteq Machines
    BY <1>1 DEF IInv, Books
  <2>2. \A p \in ToSet(horizons') : allocations'[p.job] \subseteq Machines
    <3>1. \A p \in ToSet(horizons') : p.job \in Jobs
      BY <1>3, HorizonsMatch DEF Horizons
    <3>. QED  BY <1>1, <1>2, <3>1 DEF IInv, Books
  <2>. QED  BY <2>1, <2>2 DEF FreeOf
<1>6. Cardinality(after) \in Nat
  BY <1>5, MachinesFinite
<1>. HIDE DEF M, point
<1>7. before \ M \subseteq after
  <2>1. available \ M \subseteq after
    BY <1>1 DEF FreeOf
  <2>2. ASSUME NEW p \in ToSet(horizons), p.date <= d
        PROVE  allocations[p.job] \subseteq after
    <3>1. p.job \in Jobs /\ p.job # j
      <4>1. p.job \in Jobs /\ allocations[p.job] # {}
        BY HorizonsMatch DEF Horizons
      <4>2. allocations[j] = {}
        BY DEF IInv, Books, ResourceAccounting, EndedAreDone
      <4>. QED  BY <4>1, <4>2
    <3>2. allocations'[p.job] = allocations[p.job] /\ p \in ToSet(horizons')
      BY <1>1, <1>3, <3>1 DEF IInv, Books
    <3>. QED  BY <2>2, <3>2 DEF FreeOf
  <2>. HIDE DEF after
  <2>. QED  BY <2>1, <2>2 DEF FreeOf
<1>8. CASE now + walltime[j] > d
  <2>1. Cardinality(before \cap M) <= res[j] /\ before \cap M \in SUBSET before
    BY <1>2, CountMonotonic, MachinesFinite DEF IInv, Books
  <2>2. Cardinality(before \ M) = Cardinality(before) - Cardinality(before \cap M)
    <3>1. before \ M = before \ (before \cap M)
      OBVIOUS
    <3>. HIDE DEF before
    <3>. QED  BY <1>4, <2>1, <3>1, CountRemoved, MachinesFinite
  <2>3. Cardinality(before \ M) <= Cardinality(after)
    BY <1>5, <1>7, CountMonotonic, MachinesFinite
  <2>4. /\ Cardinality(before) \in Nat /\ Cardinality(after) \in Nat
        /\ Cardinality(before \cap M) \in Nat
    BY <1>4, <1>5, <2>1, MachinesFinite
  <2>. HIDE DEF before, after
  <2>5. Cardinality(after) >= Cardinality(before) - res[j]
    BY <1>2, <2>1, <2>2, <2>3, <2>4
  <2>. QED  BY <1>6, <1>8, <2>5 DEF before, after
<1>9. CASE ~(now + walltime[j] > d)
  <2>1. M \subseteq after
    <3>1. point.date <= d
      BY <1>3, <1>9 DEF Horizons
    <3>2. point \in ToSet(horizons') /\ allocations'[point.job] = M
      BY <1>1, <1>3 DEF IInv, Books
    <3>. QED  BY <3>1, <3>2 DEF FreeOf
  <2>2. before \subseteq after
    BY <1>7, <2>1
  <2>3. Cardinality(before) <= Cardinality(after)
    BY <1>5, <2>2, CountMonotonic, MachinesFinite
  <2>4. Cardinality(before) \in Nat /\ Cardinality(after) \in Nat
    BY <1>4, <1>5, MachinesFinite
  <2>. HIDE DEF before, after
  <2>5. Cardinality(after) >= Cardinality(before) - 0
    BY <2>3, <2>4
  <2>. QED  BY <1>6, <1>9, <2>5 DEF before, after
<1>. QED  BY <1>6, <1>8, <1>9

\* The parts of Promise, with the machines counted by FreeOf.
LEMMA PromiseParts ==
  Promise <=>
    /\ expectedStart \in Nat /\ remaining \in Nat
    /\ priority # NullJob =>
         /\ Cardinality(FreeOf(available, allocations, horizons, expectedStart))
              >= res[priority] + remaining
         /\ now <= expectedStart
  BY DEF Promise, ReservationIsCovered, PromiseIsKept, FreeBy, FreeOf

\* The same of the next state.
LEMMA PromisePartsNext ==
  Promise' <=>
    /\ expectedStart' \in Nat /\ remaining' \in Nat
    /\ priority' # NullJob =>
         /\ Cardinality(FreeOf(available', allocations', horizons', expectedStart'))
              >= res'[priority'] + remaining'
         /\ now' <= expectedStart'
  BY DEF Promise, ReservationIsCovered, PromiseIsKept, FreeBy, FreeOf

\* Starting a job that does not hinder the priority job, and taking it from the
\* remaining machines, keeps the promise.
LEMMA BackfillingKeepsPromise ==
  ASSUME IInv, Horizons, Promise, NEW j \in Jobs, status[j] = "waiting",
         IsValid(j), Fits(j), StartJob(j), UNCHANGED <<jobVars, ended, priority>>,
         ~HindersPriority(j), ConsumeRemaining(j)
  PROVE  Promise'
<1>1. /\ expectedStart' = expectedStart
      /\ remaining' = remaining - IF now + walltime[j] > expectedStart
                                  THEN res[j] ELSE 0
      /\ now' = now /\ res' = res /\ priority' = priority
      /\ now + walltime[j] > expectedStart => res[j] <= remaining
  <2>1. expectedStart \in Nat /\ remaining \in Nat /\ res[j] \in Nat
    BY DEF Promise, IInv, Books
  <2>. QED  BY <2>1 DEF ConsumeRemaining, EndsAfterExpectedStart, HindersPriority,
                        StartJob, ExecuteJob, jobVars
<1>2. /\ expectedStart \in Nat /\ remaining \in Nat /\ res[j] \in Nat
      /\ priority # NullJob => res[priority] \in Nat
  BY DEF Promise, IInv, Books, Queues
<1>3. expectedStart' \in Nat /\ remaining' \in Nat
  BY <1>1, <1>2
<1>4. /\ Cardinality(FreeOf(available', allocations', horizons', expectedStart)) \in Nat
      /\ Cardinality(FreeOf(available', allocations', horizons', expectedStart))
           >= Cardinality(FreeOf(available, allocations, horizons, expectedStart))
                - IF now + walltime[j] > expectedStart THEN res[j] ELSE 0
  BY <1>2, StartAndFreeMachines
<1>5. Cardinality(FreeOf(available, allocations, horizons, expectedStart)) \in Nat
  BY FreeByCount
<1>6. priority' # NullJob =>
        /\ Cardinality(FreeOf(available', allocations', horizons', expectedStart'))
             >= res'[priority'] + remaining'
        /\ now' <= expectedStart'
  BY <1>1, <1>2, <1>4, <1>5, PromiseParts
<1>. QED  BY <1>3, <1>6, PromisePartsNext

\* The job at the cursor of the backfilling loop is a waiting, valid one.
LEMMA CursorOnWaiting ==
  ASSUME IInv, cursor <= Len(pending)
  PROVE  /\ cursor \in 1 .. Len(pending)
         /\ pending[cursor] \in Jobs /\ pending[cursor] \in ToSet(pending)
         /\ status[pending[cursor]] = "waiting" /\ IsValid(pending[cursor])
<1>1. cursor \in 1 .. Len(pending) /\ pending \in Seq(Jobs)
  BY LenProperties DEF IInv, Queues
<1>2. pending[cursor] \in Jobs /\ pending[cursor] \in ToSet(pending)
  BY <1>1, LenProperties, ElementOfSeq DEF ToSet
<1>. QED  BY <1>1, <1>2 DEF IInv, Queues, NoJobForgotten, QueuedAreValid

\* Computing the expected start of a priority job that does not fit makes a
\* promise that can be kept.
LEMMA ExpectedStartIsPromise ==
  ASSUME IInv, Horizons, ended = <<>>, NEW j \in Jobs, IsValid(j), ~Fits(j),
         UpdateExpectedStart(j, horizons, nbAvailable), priority' = j,
         UNCHANGED <<now, res, available, allocations, horizons>>
  PROVE  Promise'
<1>1. /\ \E p \in ToSet(horizons) : expectedStart' = p.date
      /\ expectedStart' \in Nat /\ remaining' \in Nat
      /\ Cardinality(FreeBy(expectedStart')) >= res[j] + remaining'
  BY ExpectedStartIsEarliest
<1>2. now <= expectedStart'
  BY <1>1, PointsAreAhead
<1>3. FreeBy(expectedStart')
        = FreeOf(available', allocations', horizons', expectedStart')
  BY DEF FreeBy, FreeOf
<1>4. /\ Cardinality(FreeOf(available', allocations', horizons', expectedStart'))
           >= res'[priority'] + remaining'
      /\ now' <= expectedStart'
  BY <1>1, <1>2, <1>3
<1>. QED  BY <1>1, <1>4, PromisePartsNext

\* Steps that change neither the promise nor what it is about keep it.
LEMMA StutterKeepsPromise ==
  ASSUME Promise, UNCHANGED <<now, available, allocations, horizons, promiseVars>>,
         \/ priority' = priority /\ res'[priority] = res[priority]
         \/ priority' = NullJob
  PROVE  Promise'
  BY PromiseParts, PromisePartsNext DEF promiseVars

\* Every step keeps the promise.
LEMMA StepKeepsPromise ==
  ASSUME PInv, [Next]_vars
  PROVE  Promise'
<1>. IInv /\ Horizons /\ Turns /\ Promise
  BY DEF PInv
<1>1. ASSUME NEW j \in Jobs, NEW r \in Requests, NEW w \in Walltimes,
             Submit(j, r, w), UNCHANGED schedVars
      PROVE  Promise'
  <2>1. \/ priority' = priority /\ res'[priority] = res[priority]
        \/ priority' = NullJob
    BY <1>1 DEF Submit, schedVars, queueVars, IInv, Books, Queues, NoJobForgotten
  <2>. QED  BY <1>1, <2>1, StutterKeepsPromise DEF Submit, schedVars, platformVars
<1>2. ASSUME NEW j \in Jobs, Complete(j), UNCHANGED schedVars
      PROVE  Promise'
  BY <1>2, StutterKeepsPromise DEF Complete, jobVars, schedVars, platformVars, queueVars
<1>3. CASE Tick /\ UNCHANGED schedVars
  <2>1. /\ pc = "batsim" /\ ended = <<>> /\ now' = now + 1
        /\ \A j \in Jobs : status[j] = "running" => now < deadline[j]
        /\ UNCHANGED <<res, available, allocations, horizons, priority, expectedStart,
                       remaining>>
    BY <1>3 DEF Tick, jobVars, schedVars, platformVars, promiseVars, queueVars
  <2>. SUFFICES ASSUME priority # NullJob
                PROVE  now + 1 <= expectedStart
    BY <2>1, PromiseParts, PromisePartsNext
  <2>2. /\ nbAvailable = Cardinality(available) /\ nbAvailable \in Nat
        /\ res[priority] \in Nat /\ nbAvailable < res[priority]
    BY <2>1, MachinesFinite DEF Turns, Unreleased, PriorityIsBlocked, Fits, IInv, Books,
                                Queues, ResourceAccounting
  <2>3. Cardinality(FreeBy(expectedStart)) >= res[priority] + remaining
    BY DEF Promise, ReservationIsCovered
  <2>4. FreeBy(expectedStart) # available
    BY <2>2, <2>3 DEF Promise
  <2>5. PICK p \in ToSet(horizons) : p.date <= expectedStart
    BY <2>4 DEF FreeBy
  <2>6. /\ status[p.job] = "running" /\ p.job \in Jobs
        /\ p.date = deadline[p.job] + RjmsDelay
    BY <2>1, PointsAreAhead
  <2>7. now < deadline[p.job] /\ deadline[p.job] \in Nat /\ now \in Nat
    BY <2>1, <2>6 DEF Horizons
  <2>. QED  BY <2>5, <2>6, <2>7, PlatformAssumption DEF Promise
<1>4. CASE Receive
  BY <1>4, StutterKeepsPromise
     DEF Receive, Send, worldVars, jobVars, platformVars, queueVars
<1>5. CASE HandleEnded
  <2>. DEFINE j == Head(ended)
              before == FreeOf(available, allocations, horizons, expectedStart)
              after == FreeOf(available', allocations', horizons', expectedStart)
  <2>1. /\ available' = available \cup allocations[j]
        /\ allocations' = [allocations EXCEPT ![j] = {}]
        /\ UNCHANGED <<now, res, priority, expectedStart, remaining>>
        /\ j \in Jobs
    BY <1>5, TailOfInjective
       DEF HandleEnded, worldVars, jobVars, promiseVars, queueVars, IInv, Books,
           EndedAreDone
  <2>2. ToSet(horizons') = {q \in ToSet(horizons) : q.job # j}
    BY <1>5, HandleEndedKeepsHorizons
  <2>. HIDE DEF j
  <2>3. \A p \in ToSet(horizons) : p.job \in Jobs
    BY HorizonsMatch DEF Horizons
  <2>4. before \subseteq after
    <3>1. available \subseteq after /\ allocations[j] \subseteq after
      BY <2>1 DEF FreeOf
    <3>2. ASSUME NEW p \in ToSet(horizons), p.date <= expectedStart, p.job # j
          PROVE  allocations[p.job] \subseteq after
      <4>1. p \in ToSet(horizons') /\ allocations'[p.job] = allocations[p.job]
        BY <2>1, <2>2, <2>3, <3>2 DEF IInv, Books
      <4>. QED  BY <3>2, <4>1 DEF FreeOf
    <3>. HIDE DEF after
    <3>. QED  BY <3>1, <3>2 DEF FreeOf
  <2>5. after \in SUBSET Machines
    <3>1. available' \subseteq Machines
      BY <2>1 DEF IInv, Books
    <3>2. \A p \in ToSet(horizons') : allocations'[p.job] \subseteq Machines
      BY <2>1, <2>2, <2>3 DEF IInv, Books
    <3>. QED  BY <3>1, <3>2 DEF FreeOf
  <2>6. /\ Cardinality(before) <= Cardinality(after)
        /\ Cardinality(before) \in Nat /\ Cardinality(after) \in Nat
    BY <2>4, <2>5, CountMonotonic, MachinesFinite
  <2>. HIDE DEF before, after
  <2>7. priority # NullJob => Cardinality(before) >= res[priority] + remaining
    BY PromiseParts DEF before
  <2>8. priority # NullJob => Cardinality(after) >= res[priority] + remaining
    <3>1. priority # NullJob => res[priority] \in Nat
      BY DEF IInv, Books, Queues
    <3>. QED  BY <2>6, <2>7, <3>1 DEF Promise
  <2>. QED  BY <2>1, <2>8, PromiseParts, PromisePartsNext DEF after
<1>6. CASE \/ EndedHandled \/ PriorityStillBlocked \/ QueueLaunched \/ BackfillDone
           \/ SkipPending \/ Reply
  BY <1>6, StutterKeepsPromise
     DEF EndedHandled, PriorityStillBlocked, QueueLaunched, BackfillDone, SkipPending,
         Reply, worldVars, jobVars, schedVars, platformVars, queueVars
<1>7. CASE LaunchPriority \/ LaunchPending
  <2>1. priority' = NullJob /\ UNCHANGED promiseVars
    BY <1>7 DEF LaunchPriority, LaunchPending, IInv, Queues, ControlPoints
  <2>. QED  BY <2>1, PromiseParts, PromisePartsNext DEF promiseVars
<1>8. CASE PendingBecomesPriority
  <2>1. /\ Head(pending) \in Jobs /\ IsValid(Head(pending))
    BY <1>8, TailOfInjective
       DEF PendingBecomesPriority, IInv, Queues, NoJobForgotten, QueuedAreValid
  <2>2. ended = <<>>
    BY <1>8 DEF PendingBecomesPriority, Turns, AfterEnded
  <2>. QED  BY <1>8, <2>1, <2>2, ExpectedStartIsPromise
            DEF PendingBecomesPriority, worldVars, jobVars, platformVars
<1>9. CASE RefreshExpectedStart
  <2>1. CASE nbAvailable > 0 /\ priority # NullJob
    <3>1. priority \in Jobs /\ IsValid(priority) /\ ~Fits(priority) /\ ended = <<>>
      BY <1>9, <2>1 DEF RefreshExpectedStart, IInv, Queues, QueuedAreValid, Turns,
                        AfterEnded, PriorityIsBlocked
    <3>. QED  BY <1>9, <2>1, <3>1, ExpectedStartIsPromise
              DEF RefreshExpectedStart, worldVars, jobVars, platformVars, queueVars
  <2>2. CASE ~(nbAvailable > 0 /\ priority # NullJob)
    BY <1>9, <2>2, StutterKeepsPromise
       DEF RefreshExpectedStart, worldVars, jobVars, platformVars, queueVars
  <2>. QED  BY <2>1, <2>2
<1>10. CASE Backfill
  <2>. DEFINE j == pending[cursor]
  <2>1. j \in Jobs /\ status[j] = "waiting" /\ IsValid(j)
    BY <1>10, CursorOnWaiting DEF Backfill
  <2>2. /\ Fits(j) /\ ~HindersPriority(j) /\ StartJob(j) /\ ConsumeRemaining(j)
        /\ UNCHANGED <<jobVars, ended, priority>>
    BY <1>10 DEF Backfill
  <2>. HIDE DEF j
  <2>. QED  BY <2>1, <2>2, BackfillingKeepsPromise
<1>11. CASE RejectReleased
  BY <1>11, StutterKeepsPromise
     DEF RejectReleased, TakeReleased, RejectJob, platformVars, jobVars, queueVars
<1>12. CASE StartReleased
  <2>1. PICK j \in Jobs :
          /\ TakeReleased(j) /\ IsValid(j) /\ Fits(j)
          /\ priority = NullJob \/ ~HindersPriority(j)
          /\ StartJob(j) /\ UNCHANGED <<jobVars, ended, queueVars>>
          /\ IF priority # NullJob THEN ConsumeRemaining(j) ELSE UNCHANGED promiseVars
    BY <1>12 DEF StartReleased, TakeReleased
  <2>2. status[j] = "waiting"
    BY <2>1, TakenFromReleased
  <2>3. CASE priority # NullJob
    BY <2>1, <2>2, <2>3, BackfillingKeepsPromise DEF queueVars
  <2>4. CASE priority = NullJob
    BY <2>1, <2>4, PromiseParts, PromisePartsNext DEF promiseVars, queueVars
  <2>. QED  BY <2>3, <2>4
<1>13. CASE QueueReleased
  BY <1>13, StutterKeepsPromise
     DEF QueueReleased, TakeReleased, worldVars, jobVars, platformVars
<1>14. CASE ReleasedBecomesPriority
  <2>1. ended = <<>>
    BY <1>14 DEF ReleasedBecomesPriority, TakeReleased, Turns, AfterEnded
  <2>. QED  BY <1>14, <2>1, ExpectedStartIsPromise
            DEF ReleasedBecomesPriority, TakeReleased, worldVars, jobVars, platformVars
<1>15. CASE UNCHANGED vars
  BY <1>15, StutterKeepsPromise
     DEF vars, batsimVars, worldVars, jobVars, schedVars, platformVars, queueVars
<1>. QED
  BY <1>1, <1>2, <1>3, <1>4, <1>5, <1>6, <1>7, <1>8, <1>9, <1>10, <1>11, <1>12,
     <1>13, <1>14, <1>15
     DEF Next, Platform, BatsimStep, MakeDecisions, Terminated

\* Between two messages the expected start of the priority job is only ever
\* brought forward.
LEMMA StepNeverPostpones ==
  ASSUME PInv, Next, priority # NullJob, priority' = priority
  PROVE  expectedStart' <= expectedStart
<1>. IInv /\ Horizons /\ Turns /\ Promise
  BY DEF PInv
<1>1. ASSUME expectedStart' = expectedStart
      PROVE  expectedStart' <= expectedStart
  BY <1>1 DEF Promise
<1>2. CASE RefreshExpectedStart
  <2>1. CASE nbAvailable > 0
    <3>1. priority \in Jobs /\ IsValid(priority) /\ ~Fits(priority)
      BY <1>2 DEF RefreshExpectedStart, IInv, Queues, QueuedAreValid, Turns,
                  PriorityIsBlocked
    <3>2. UpdateExpectedStart(priority, horizons, nbAvailable)
      BY <1>2, <2>1 DEF RefreshExpectedStart
    <3>3. \A d \in Nat : Cardinality(FreeBy(d)) >= res[priority] => expectedStart' <= d
      BY <3>1, <3>2, ExpectedStartIsEarliest
    <3>4. /\ Cardinality(FreeBy(expectedStart)) >= res[priority] + remaining
          /\ remaining \in Nat /\ expectedStart \in Nat
      BY DEF Promise, ReservationIsCovered
    <3>5. res[priority] \in Nat /\ Cardinality(FreeBy(expectedStart)) \in Nat
      BY <3>1, FreeByMachines, MachinesFinite DEF IInv, Books
    <3>. QED  BY <3>3, <3>4, <3>5
  <2>2. CASE ~(nbAvailable > 0)
    BY <1>1, <1>2, <2>2 DEF RefreshExpectedStart, promiseVars
  <2>. QED  BY <2>1, <2>2
<1>3. CASE LaunchPriority \/ LaunchPending \/ PendingBecomesPriority
  BY <1>3 DEF LaunchPriority, LaunchPending, PendingBecomesPriority, IInv, Queues,
              ControlPoints
<1>4. CASE Backfill
  BY <1>1, <1>4 DEF Backfill, ConsumeRemaining
<1>5. CASE StartReleased
  BY <1>1, <1>5 DEF StartReleased, ConsumeRemaining
<1>6. CASE ReleasedBecomesPriority
  BY <1>6 DEF ReleasedBecomesPriority
<1>7. CASE \/ Platform \/ Receive \/ HandleEnded \/ EndedHandled \/ PriorityStillBlocked
           \/ QueueLaunched \/ SkipPending \/ BackfillDone \/ RejectReleased
           \/ QueueReleased \/ Reply \/ Terminated
  <2>1. expectedStart' = expectedStart
    BY <1>7
       DEF Platform, Receive, HandleEnded, EndedHandled, PriorityStillBlocked,
           QueueLaunched, SkipPending, BackfillDone, RejectReleased, QueueReleased,
           Reply, Terminated, vars, schedVars, promiseVars
  <2>. QED  BY <1>1, <2>1
<1>. QED
  BY <1>2, <1>3, <1>4, <1>5, <1>6, <1>7 DEF Next, MakeDecisions

-------------------------------------------------------------------------------
(* Backfilling.                                                            *)

\* A waiting job that cannot be backfilled stays so as long as no machine is
\* released and the expected start stays the same: time, starts and the
\* machines they take only make it worse.
LEMMA StuckStays ==
  ASSUME NEW j \in Jobs, Stuck(j), walltime[j] \in Int, res[j] \in Nat,
         now \in Nat, now' \in Nat, now' >= now,
         nbAvailable \in Int, nbAvailable' \in Int, nbAvailable' <= nbAvailable,
         remaining \in Int, remaining' \in Int, remaining' <= remaining,
         expectedStart \in Nat, expectedStart' = expectedStart,
         res'[j] = res[j], walltime'[j] = walltime[j]
  PROVE  Stuck(j)'
<1>1. CASE ~Fits(j)
  BY <1>1 DEF Stuck, Fits
<1>2. CASE HindersPriority(j)
  BY <1>2 DEF Stuck, HindersPriority, EndsAfterExpectedStart
<1>. QED  BY <1>1, <1>2 DEF Stuck

\* The types that StuckStays needs.
LEMMA StuckTypes ==
  ASSUME PInv
  PROVE  /\ now \in Nat /\ nbAvailable \in Nat
         /\ remaining \in Nat /\ expectedStart \in Nat
         /\ \A j \in ToSet(pending) :
              /\ j \in Jobs /\ walltime[j] \in Int /\ res[j] \in Nat
              /\ status[j] = "waiting" /\ res[j] > 0
<1>1. \A j \in ToSet(pending) : j \in Jobs /\ status[j] = "waiting"
  BY DEF PInv, IInv, Queues, NoJobForgotten
<1>2. \A j \in ToSet(pending) : walltime[j] \in Int /\ res[j] \in Nat /\ res[j] > 0
  BY <1>1 DEF PInv, IInv, Books, Horizons, Attributes
<1>. QED  BY <1>1, <1>2, MachinesFinite
          DEF PInv, IInv, Books, ResourceAccounting, Horizons, Promise

\* Starting another job leaves them stuck.
LEMMA StartKeepsStuck ==
  ASSUME PInv, NEW j \in Jobs, Fits(j), StartJob(j), UNCHANGED jobVars,
         \/ UNCHANGED <<expectedStart, remaining>>
         \/ ConsumeRemaining(j) /\ ~HindersPriority(j),
         NEW k \in ToSet(pending), Stuck(k)
  PROVE  Stuck(k)'
<1>1. /\ now' = now /\ UNCHANGED <<res, walltime>>
      /\ nbAvailable' = nbAvailable - res[j]
      /\ res[j] \in Nat
  BY DEF StartJob, ExecuteJob, jobVars, PInv, IInv, Books
<1>2. expectedStart' = expectedStart
  BY DEF ConsumeRemaining
<1>3. remaining' \in Int /\ remaining' <= remaining
  BY <1>1, StuckTypes DEF ConsumeRemaining
<1>4. nbAvailable' \in Int /\ nbAvailable' <= nbAvailable
  BY <1>1, StuckTypes
<1>. QED  BY <1>1, <1>2, <1>3, <1>4, StuckTypes, StuckStays

\* Every step keeps Tried: a job is left behind only if it cannot be backfilled.
LEMMA StepKeepsTried ==
  ASSUME PInv, [Next]_vars
  PROVE  Tried'
<1>. IInv /\ Horizons /\ Turns /\ Promise /\ Tried
  BY DEF PInv
<1>. USE DEF Unreleased
<1>1. ASSUME UNCHANGED <<pc, now, jobEnded, pending, nbAvailable, promiseVars>>,
             pc # "backfill",
             \A k \in ToSet(pending) : res'[k] = res[k] /\ walltime'[k] = walltime[k]
      PROVE  Tried'
  BY <1>1 DEF Tried, Stuck, Fits, HindersPriority, EndsAfterExpectedStart, promiseVars
<1>2. ASSUME NEW j \in Jobs, NEW r \in Requests, NEW w \in Walltimes,
             Submit(j, r, w), UNCHANGED schedVars
      PROVE  Tried'
  <2>1. \A k \in ToSet(pending) : k # j /\ k \in Jobs
    BY <1>2, StuckTypes DEF Submit
  <2>2. \A k \in ToSet(pending) : res'[k] = res[k] /\ walltime'[k] = walltime[k]
    BY <1>2, <2>1 DEF Submit, IInv, Books, Horizons
  <2>. QED  BY <1>1, <1>2, <2>2
            DEF Submit, schedVars, platformVars, queueVars, localVars
<1>3. ASSUME NEW j \in Jobs, Complete(j), UNCHANGED schedVars
      PROVE  Tried'
  BY <1>1, <1>3 DEF Complete, jobVars, schedVars, platformVars, queueVars, localVars
<1>4. CASE Tick /\ UNCHANGED schedVars
  <2>1. /\ pc = "batsim" /\ pc' = pc /\ now' = now + 1
        /\ UNCHANGED <<res, walltime, pending, nbAvailable, expectedStart, remaining>>
    BY <1>4 DEF Tick, jobVars, schedVars, platformVars, promiseVars, queueVars
  <2>2. \A k \in ToSet(pending) : Stuck(k)'
    BY <2>1, StuckTypes, StuckStays DEF Tried
  <2>. QED  BY <2>1, <2>2 DEF Tried
<1>5. ASSUME UNCHANGED <<now, jobVars, pending, nbAvailable, promiseVars>>,
             \A k \in ToSet(pending) : Stuck(k), pc' # "backfill"
      PROVE  Tried'
  BY <1>5 DEF Tried, Stuck, Fits, HindersPriority, EndsAfterExpectedStart, promiseVars,
              jobVars
<1>6. CASE Receive
  <2>1. CASE jobEnded'
    BY <1>6, <2>1 DEF Receive, Send, Tried
  <2>2. CASE ~jobEnded'
    BY <1>5, <1>6 DEF Receive, Send, Tried, worldVars, platformVars, queueVars
  <2>. QED  BY <2>1, <2>2
<1>7. CASE HandleEnded
  <2>1. jobEnded' = jobEnded /\ jobEnded /\ pc' = "ended"
    BY <1>7 DEF HandleEnded, localVars, Turns
  <2>. QED  BY <2>1 DEF Tried
<1>8. CASE EndedHandled
  <2>1. CASE pc' = "priority"
    BY <2>1 DEF Tried
  <2>2. CASE pc' # "priority"
    <3>1. \A k \in ToSet(pending) : Stuck(k)
      <4>1. CASE ~jobEnded
        BY <1>8, <4>1 DEF EndedHandled, Tried
      <4>2. CASE priority = NullJob
        BY <1>8, <4>2 DEF EndedHandled, Turns, ToSet
      <4>. QED  BY <1>8, <2>2, <4>1, <4>2 DEF EndedHandled
    <3>. QED  BY <1>5, <1>8, <3>1
              DEF EndedHandled, worldVars, schedVars, platformVars, queueVars
  <2>. QED  BY <2>1, <2>2
<1>9. CASE \/ LaunchPriority \/ PriorityStillBlocked \/ LaunchPending
           \/ PendingBecomesPriority \/ QueueLaunched
  <2>1. pc' \in {"launch", "refresh"}
    BY <1>9 DEF LaunchPriority, PriorityStillBlocked, LaunchPending,
                PendingBecomesPriority, QueueLaunched
  <2>. QED  BY <2>1 DEF Tried
<1>10. CASE RefreshExpectedStart
  <2>1. CASE nbAvailable > 0
    <3>1. pc' = "backfill" /\ cursor' = 1 /\ pending' = pending
      BY <1>10, <2>1 DEF RefreshExpectedStart, queueVars
    <3>2. DOMAIN pending = 1 .. Len(pending)
      BY LenProperties DEF IInv, Queues
    <3>. QED  BY <3>1, <3>2 DEF Tried
  <2>2. CASE ~(nbAvailable > 0)
    <3>1. \A k \in ToSet(pending) : Stuck(k)
      BY <2>2, StuckTypes DEF Stuck, Fits
    <3>. QED  BY <1>5, <1>10, <2>2, <3>1
              DEF RefreshExpectedStart, worldVars, platformVars, queueVars
  <2>. QED  BY <2>1, <2>2
<1>11. CASE Backfill
  <2>. DEFINE j == pending[cursor]
  <2>1. /\ cursor \in 1 .. Len(pending) /\ j \in Jobs
    BY <1>11, CursorOnWaiting DEF Backfill
  <2>2. /\ Fits(j) /\ ~HindersPriority(j) /\ StartJob(j) /\ ConsumeRemaining(j)
        /\ UNCHANGED <<jobVars, cursor>>
        /\ pc = "backfill" /\ pc' = IF nbAvailable' <= 0 THEN "released" ELSE "backfill"
        /\ pending' = RemoveAt(pending, cursor)
    BY <1>11 DEF Backfill, localVars
  <2>3. /\ ToSet(pending') \subseteq ToSet(pending)
        /\ DOMAIN pending' = 1 .. Len(pending) - 1
        /\ \A i \in 1 .. Len(pending) - 1 : i < cursor => pending'[i] = pending[i]
        /\ Len(pending) \in Nat /\ DOMAIN pending = 1 .. Len(pending)
    <3>1. pending \in Seq(Jobs) /\ IsInjective(pending)
      BY DEF IInv, Queues, NoJobForgotten
    <3>2. /\ ToSet(pending') = ToSet(pending) \ {pending[cursor]}
          /\ pending' \in Seq(Jobs)
      BY <2>1, <2>2, <3>1, RemoveAtOfInjective
    <3>3. /\ Len(pending') = Len(pending) - 1
          /\ \A i \in 1 .. Len(pending) - 1 :
               pending'[i] = IF i < cursor THEN pending[i] ELSE pending[i + 1]
      BY <2>1, <2>2, <3>1, RemoveAtProperties
    <3>4. /\ DOMAIN pending' = 1 .. Len(pending')
          /\ Len(pending) \in Nat /\ DOMAIN pending = 1 .. Len(pending)
      BY <3>1, <3>2, LenProperties
    <3>. QED  BY <3>2, <3>3, <3>4
  <2>. HIDE DEF j
  <2>4. CASE nbAvailable' <= 0
    <3>1. nbAvailable' \in Int /\ res' = res
      BY <2>1, <2>2, StuckTypes DEF StartJob, jobVars, IInv, Books
    <3>2. \A k \in ToSet(pending') : Stuck(k)'
      <4>1. \A k \in ToSet(pending') : ~(res'[k] <= nbAvailable')
        BY <2>3, <2>4, <3>1, StuckTypes
      <4>. QED  BY <4>1 DEF Stuck, Fits
    <3>. QED  BY <2>2, <2>4, <3>2 DEF Tried
  <2>5. CASE ~(nbAvailable' <= 0)
    <3>1. ASSUME NEW i \in DOMAIN pending', i < cursor
          PROVE  \E k : pending'[i] = k /\ Stuck(k)'
      <4>1. i \in DOMAIN pending /\ pending'[i] = pending[i]
        BY <2>3, <3>1
      <4>2. PICK k \in ToSet(pending) : k = pending[i]
        BY <4>1 DEF ToSet
      <4>3. Stuck(k)
        BY <2>2, <3>1, <4>1, <4>2 DEF Tried
      <4>4. Stuck(k)'
        BY <2>1, <2>2, <4>3, StartKeepsStuck
      <4>. QED  BY <4>1, <4>2, <4>4
    <3>2. \A i \in DOMAIN pending' : i < cursor => Stuck(pending[i])'
      BY <3>1 DEF Stuck, Fits, HindersPriority, EndsAfterExpectedStart
    <3>. QED  BY <2>2, <2>5, <3>2 DEF Tried
  <2>. QED  BY <2>4, <2>5
<1>12. CASE SkipPending
  <2>1. /\ pc = "backfill" /\ pc' = pc /\ cursor' = cursor + 1
        /\ UNCHANGED <<now, jobVars, pending, nbAvailable, promiseVars>>
        /\ Stuck(pending[cursor])
    BY <1>12 DEF SkipPending, Stuck, worldVars, platformVars, queueVars
  <2>2. cursor \in Nat /\ DOMAIN pending \subseteq Nat
    BY LenProperties DEF IInv, Queues
  <2>3. \A i \in DOMAIN pending : i < cursor + 1 => Stuck(pending[i])
    BY <2>1, <2>2 DEF Tried
  <2>. QED  BY <2>1, <2>3 DEF Tried, Stuck, Fits, HindersPriority,
                              EndsAfterExpectedStart, promiseVars, jobVars
<1>13. CASE BackfillDone
  <2>1. \A k \in ToSet(pending) : Stuck(k)
    <3>1. \A i \in DOMAIN pending : i < cursor
      BY <1>13, LenProperties DEF BackfillDone, IInv, Queues
    <3>. QED  BY <1>13, <3>1 DEF BackfillDone, Tried, ToSet
  <2>. QED  BY <1>5, <1>13, <2>1
            DEF BackfillDone, worldVars, schedVars, platformVars, queueVars
<1>14. CASE RejectReleased
  BY <1>5, <1>14 DEF RejectReleased, TakeReleased, RejectJob, platformVars, queueVars,
                     Tried
<1>15. CASE StartReleased
  <2>1. PICK j \in Jobs :
          /\ pc = "released" /\ pc' = pc
          /\ Fits(j) /\ StartJob(j) /\ UNCHANGED <<jobVars, pending>>
          /\ priority = NullJob \/ ~HindersPriority(j)
          /\ IF priority # NullJob THEN ConsumeRemaining(j) ELSE UNCHANGED promiseVars
    BY <1>15 DEF StartReleased, TakeReleased, queueVars
  <2>2. ASSUME NEW k \in ToSet(pending)
        PROVE  Stuck(k)'
    <3>1. Stuck(k)
      BY <2>1 DEF Tried
    <3>2. CASE priority = NullJob
      <4>1. UNCHANGED <<expectedStart, remaining>>
        BY <2>1, <3>2 DEF promiseVars
      <4>. QED  BY <2>1, <3>1, <4>1, StartKeepsStuck
    <3>3. CASE priority # NullJob
      <4>1. ConsumeRemaining(j) /\ ~HindersPriority(j)
        BY <2>1, <3>3
      <4>. QED  BY <2>1, <3>1, <4>1, StartKeepsStuck
    <3>. QED  BY <3>2, <3>3
  <2>. QED  BY <2>1, <2>2 DEF Tried
<1>16. CASE QueueReleased
  <2>1. PICK j \in Jobs :
          /\ pc = "released" /\ pc' = pc
          /\ Stuck(j) /\ pending' = Append(pending, j)
          /\ UNCHANGED <<now, jobVars, nbAvailable, promiseVars>>
    BY <1>16 DEF QueueReleased, TakeReleased, Stuck, worldVars, platformVars
  <2>2. ToSet(pending') = ToSet(pending) \cup {j}
    BY <2>1, AppendToInjective DEF IInv, Queues
  <2>3. \A k \in ToSet(pending') : Stuck(k)
    BY <2>1, <2>2 DEF Tried
  <2>. QED  BY <2>1, <2>3 DEF Tried, Stuck, Fits, HindersPriority,
                              EndsAfterExpectedStart, promiseVars, jobVars
<1>17. CASE ReleasedBecomesPriority
  <2>1. pc = "released" /\ pc' = pc /\ pending' = pending /\ pending = <<>>
    BY <1>17 DEF ReleasedBecomesPriority, TakeReleased, Turns
  <2>. QED  BY <2>1 DEF Tried, ToSet
<1>18. CASE Reply
  BY <1>5, <1>18 DEF Reply, Tried, worldVars, platformVars, queueVars
<1>19. CASE UNCHANGED vars
  <2>1. UNCHANGED <<pc, now, jobVars, jobEnded, cursor, pending, nbAvailable, promiseVars>>
    BY <1>19 DEF vars, batsimVars, worldVars, schedVars, platformVars, queueVars, localVars
  <2>. QED  BY <2>1 DEF Tried, Stuck, Fits, HindersPriority, EndsAfterExpectedStart,
                        promiseVars, jobVars
<1>. QED
  BY <1>2, <1>3, <1>4, <1>6, <1>7, <1>8, <1>9, <1>10, <1>11, <1>12, <1>13, <1>14,
     <1>15, <1>16, <1>17, <1>18, <1>19
     DEF Next, Platform, BatsimStep, MakeDecisions, Terminated

-------------------------------------------------------------------------------
(* The theorems.                                                           *)

\* The inductive invariant holds when the simulation starts.
LEMMA InitEstablishesPInv == Init => PInv
<1>. SUFFICES ASSUME Init PROVE PInv
  OBVIOUS
<1>1. IInv
  BY InitEstablishesIInv
<1>. USE DEF Init, BatsimInit
<1>2. ToSet(<<>>) = {} /\ DOMAIN <<>> = {}
  BY DEF ToSet
<1>3. HorizonsMatchAllocations
  BY <1>2 DEF HorizonsMatchAllocations
<1>4. Horizons
  BY <1>2, <1>3 DEF Horizons, Attributes, DatesFollowDeadlines, NobodyOverdue
<1>5. Turns
  BY DEF Turns, AfterEnded, Unreleased, PriorityIsBlocked
<1>6. Promise
  BY DEF Promise, ReservationIsCovered, PromiseIsKept
<1>7. Tried
  BY <1>2 DEF Tried, Unreleased
<1>. QED  BY <1>1, <1>4, <1>5, <1>6, <1>7 DEF PInv

\* The inductive invariant holds of every behaviour.
LEMMA PInvHolds == Spec => []PInv
<1>1. PInv /\ [Next]_vars => PInv'
  <2>. SUFFICES ASSUME PInv, [Next]_vars PROVE PInv'
    OBVIOUS
  <2>1. IInv /\ Horizons
    BY DEF PInv
  <2>2. IInv'
    BY <2>1, StepKeepsBooks, StepKeepsQueues DEF IInv
  <2>. QED  BY <2>1, <2>2, StepKeepsHorizons, StepKeepsTurns, StepKeepsPromise,
               StepKeepsTried DEF PInv
<1>. QED  BY <1>1, InitEstablishesPInv, PTL DEF Spec

\* Every variable of easy_bf_fast.cpp and of the simulated platform keeps its
\* type; in particular no counter and no date becomes negative.
THEOREM TypeOKHolds == Spec => []TypeOK
<1>1. PInv => TypeOK
  <2>. SUFFICES ASSUME PInv PROVE TypeOK
    OBVIOUS
  <2>1. BatsimTypeOK
    BY DEF PInv, IInv, Books, EndedAreDone, Queues, Horizons, BatsimTypeOK
  <2>2. nbAvailable \in Nat
    BY StuckTypes
  <2>. QED  BY <2>1, <2>2 DEF PInv, IInv, Books, Queues, Horizons, Turns, Promise,
                              Points, TypeOK
<1>. QED  BY <1>1, PInvHolds, PTL

\* _horizons is sorted by date and holds one point per allocation, always: the
\* iterators kept in the allocations never dangle.
THEOREM HorizonsMatchAllocationsHolds == Spec => []HorizonsMatchAllocations
<1>1. PInv => HorizonsMatchAllocations
  BY DEF PInv, Horizons
<1>. QED  BY <1>1, PInvHolds, PTL

\* The machines that are free by _priority_job_expected_start_time suffice for
\* the priority job and for what is left to others, whatever was backfilled.
THEOREM ReservationIsCoveredHolds == Spec => []ReservationIsCovered
<1>1. PInv => ReservationIsCovered
  BY DEF PInv, Promise
<1>. QED  BY <1>1, PInvHolds, PTL

\* _priority_job_expected_start_time is never in the past.
THEOREM PromiseIsKeptHolds == Spec => []PromiseIsKept
<1>1. PInv => PromiseIsKept
  BY DEF PInv, Promise
<1>. QED  BY <1>1, PInvHolds, PTL

\* No step makes _priority_job_expected_start_time later for the same job.
THEOREM PromiseNeverPostponedHolds == Spec => PromiseNeverPostponed
<1>1. PInv /\ [Next]_vars
        => [priority # NullJob /\ priority' = priority
              => expectedStart' <= expectedStart]_vars
  BY StepNeverPostpones
<1>. QED  BY <1>1, PInvHolds, PTL DEF Spec, PromiseNeverPostponed

\* When make_decisions has returned, nothing that could start is left waiting.
THEOREM BackfillIsMaximalHolds == Spec => []BackfillIsMaximal
<1>1. PInv => BackfillIsMaximal
  BY DEF PInv, Turns, PriorityIsBlocked, Tried, Unreleased, Stuck, BackfillIsMaximal
<1>. QED  BY <1>1, PInvHolds, PTL


===============================================================================
