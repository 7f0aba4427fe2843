----------------------------- MODULE EasyBFProofs -----------------------------
(***************************************************************************)
(* EASY backfilling over a schedule keeps its promises for every platform, *)
(* workload, queue order and resource selector.                            *)
(*                                                                         *)
(* The inductive invariant says which job has the reservation at each      *)
(* program point (OnlyPriorityIsReserved).  That the reservation is never  *)
(* missed rests on the job that it follows: one that is running, or whose  *)
(* end has freed machines, in which case the queue will be traversed and   *)
(* the reservation made anew (ReservationFollows).  That a place is always *)
(* found rests on the horizon: no job is planned beyond the sum of the     *)
(* walltimes of the jobs served (HorizonIsAhead).                          *)
(*                                                                         *)
(* With the order fcfs nothing more can be backfilled when Batsim has the  *)
(* hand: a job that was tried in vain does not fit on the machines free    *)
(* until it would end, and will not before another job ends (TriedInVain). *)
(***************************************************************************)
EXTENDS EasyBF, Facts

ProgramPoints ==
  {"batsim", "ended", "released", "priority", "sorted", "backfill", "traverse"}

Types ==
  /\ pc \in ProgramPoints
  /\ order \in QueueOrders
  /\ now \in Nat
  /\ status \in [Jobs -> Status]
  /\ res \in [Jobs -> Nat]
  /\ walltime \in [Jobs -> Int]
  /\ hasWalltime \in [Jobs -> BOOLEAN]
  /\ placed \in [Jobs -> SUBSET Machines]
  /\ deadline \in [Jobs -> Int]
  /\ ended \in Seq(Jobs) /\ released \in Seq(Jobs)
  /\ queue \in Seq(Entries(Jobs))
  /\ before \in Jobs \cup {NullJob} /\ after \in Jobs \cup {NullJob}
  /\ recent \in Seq(Jobs)
  /\ jobEnded \in BOOLEAN
  /\ nbAvailable \in Nat
  /\ cursor \in Nat \ {0}

\* What is known of the jobs, once submitted and once accepted.
JobsAreSound ==
  /\ \A j \in Jobs : status[j] # "future" =>
       /\ res[j] # 0
       /\ hasWalltime[j] =>
            \E w \in Walltimes \ {NoWalltime} : walltime[j] = w + RjmsDelay
  /\ \A j \in Jobs : status[j] \in {"running", "done"} \/ j \in Waiting
       => IsValid(j)
  /\ \A j \in Jobs : status[j] # "running" => placed[j] = {}

\* The jobs of the queues, and their status.
QueuesMatchStatus ==
  /\ IsInjective(ended) /\ IsInjective(released) /\ OnePerJob(queue)
  /\ \A j \in ToSet(ended) : status[j] = "done"
  /\ {j \in Jobs : status[j] = "waiting"} = Waiting \cup ToSet(released)
  /\ Waiting \cap ToSet(released) = {}

\* What the program point says of the locals of make_decisions.
PointsMatchLocals ==
  /\ pc = "ended" => before = FirstJob(queue)
  /\ pc = "released" => before = NullJob \/ before \in Waiting
  /\ pc \in {"priority", "sorted", "backfill", "traverse"} => after = FirstJob(queue)
  /\ pc = "priority" => queue # <<>>
  /\ pc = "ended" /\ ended # <<>> => jobEnded
  /\ pc \notin {"batsim", "ended"} => ended = <<>>
  /\ pc \notin {"batsim", "ended", "released"} => released = <<>>
  /\ pc = "backfill" => ~jobEnded
  /\ pc # "traverse" => cursor = 1

\* The running jobs are in the first slice, where they run and long enough, and
\* so are the jobs that have ended until the scheduler has seen to it.
RunningArePresent ==
  /\ \A j \in Jobs : status[j] = "running" =>
       /\ Allocation(profile, j).present
       /\ Allocation(profile, j).machines = placed[j]
       /\ Allocation(profile, j).end >= deadline[j] + RjmsDelay
       /\ now <= deadline[j]
  /\ \A j \in ToSet(ended) : Allocation(profile, j).present

\* The jobs that are in the schedule for other reasons.
Reserved == {j \in Jobs : ContainsJob(profile, j) /\ status[j] = "waiting"}

ProfileMatchesJobs ==
  /\ IsSound(profile, Jobs, Machines, res)
  /\ \A j \in Jobs : ContainsJob(profile, j) <=>
       status[j] = "running" \/ j \in ToSet(ended) \/ j \in Reserved
  /\ profile[1].begin <= now
  /\ pc \notin {"batsim", "ended", "released"} => profile[1].begin = now

\* The job that has the reservation, or should have.
Priority ==
  CASE pc = "batsim"                -> FirstJob(queue)
    [] pc \in {"ended", "released"} -> before
    [] OTHER                        -> after

\* The priority job is still to be tried, at the head of the queue.
StillToTry == pc = "traverse" /\ cursor = 1 /\ nbAvailable > 0

OnlyPriorityIsReserved ==
  /\ Reserved \subseteq {Priority}
  /\ pc = "priority" => Reserved = {}
  /\ Priority \in Reserved \cup {NullJob} \/ pc = "priority" \/ StillToTry

\* The reservation is ahead, lasts as long as the job, and can be made anew.
ReservationAhead ==
  \A j \in Reserved :
    /\ ~Allocation(profile, j).present
    /\ now <= Allocation(profile, j).begin
    /\ Allocation(profile, j).end = Allocation(profile, j).begin + walltime[j]
    /\ CanHold(Allocation(profile, j).machines, Machines, res[j])

\* Jobs have ended, so that the queue will be traversed: machines are free.
TraversalAhead ==
  /\ pc \in {"ended", "released", "sorted"}
  /\ jobEnded
  /\ ended # <<>> \/ profile[1].available # {}

\* Another allocation ends where that of j begins, or before.
FollowsAnother(j) ==
  \E k \in Jobs : k # j /\ EndsBefore(profile, k, Allocation(profile, j).begin)

\* The reservation follows another allocation, or is about to be made anew.
ReservationFollows ==
  \A j \in Reserved : FollowsAnother(j) \/ TraversalAhead \/ StillToTry

\* The jobs that have taken up time.
Started == {j \in Jobs : status[j] \in {"running", "done"}}

\* W is at least the walltime of every job.
BoundsWalltimes(W) ==
  /\ W = 0 \/ \E w \in Walltimes \ {NoWalltime} : W = w + RjmsDelay
  /\ \A j \in Jobs : status[j] # "future" /\ hasWalltime[j] => walltime[j] <= W

\* The time that so many jobs take up at most.
TimeOf(nb, W) == LastSubmission + nb * W

\* W takes the present and every allocation into account.
IsHorizon(W) ==
  /\ BoundsWalltimes(W)
  /\ now <= TimeOf(Cardinality(Started), W)
  /\ \A j \in Jobs : ContainsJob(profile, j) =>
       Allocation(profile, j).end <=
         TimeOf(Cardinality(Started) + (IF j \in Reserved THEN 1 ELSE 0), W)

HorizonIsAhead == \E W \in Nat : IsHorizon(W)

Inv ==
  /\ Types
  /\ JobsAreSound
  /\ QueuesMatchStatus
  /\ PointsMatchLocals
  /\ ProfileMatchesJobs
  /\ RunningArePresent
  /\ OnlyPriorityIsReserved
  /\ ReservationAhead
  /\ ReservationFollows
  /\ HorizonIsAhead

-------------------------------------------------------------------------------
(* The constants.                                                          *)

\* Every set of machines is finite, and has a size.
LEMMA MachinesFinite ==
  ASSUME NEW S \in SUBSET Machines
  PROVE  IsFiniteSet(S) /\ Cardinality(S) \in Nat
<1>1. IsFiniteSet(Machines)
  BY PlatformAssumption, FS_Interval DEF Machines
<1>2. IsFiniteSet(S)
  BY <1>1, FS_Subset
<1>. QED  BY <1>2, FS_CardinalityType

\* The platform has _nb_machines machines, numbered from 0.
LEMMA AllMachines == Cardinality(Machines) = NbMachines
  BY PlatformAssumption, FS_Interval DEF Machines

\* What the selector is assumed to do is what insertion needs of it.
LEMMA SelectorPlaces ==
  ASSUME NEW c \in 1 .. NbMachines
  PROVE  Places(Machines, c) /\ Fit(Machines, c) # {}
  BY FitAssumption DEF Places, CanHold

\* Time grows with the number of jobs, and with their walltime.
LEMMA TimeGrows ==
  ASSUME NEW K \in Nat, NEW V \in Nat, NEW W \in Nat, V <= W
  PROVE  /\ TimeOf(K, V) \in Nat /\ TimeOf(K, V) <= TimeOf(K, W)
         /\ LastSubmission <= TimeOf(K, V)
         /\ TimeOf(K + 1, V) = TimeOf(K, V) + V
<1>1. /\ K * V \in Nat /\ K * V <= K * W /\ (K + 1) * V = K * V + V
      /\ K * W \in Nat
  BY ProductGrows
<1>2. PICK x, y, z : x = K * V /\ y = K * W /\ z = (K + 1) * V
  OBVIOUS
<1>3. LastSubmission \in Nat
  BY BoundsAssumption
<1>. QED  BY <1>1, <1>2, <1>3 DEF TimeOf

\* However many jobs have started, there is time before Infinity.
LEMMA TimeBeforeInfinity ==
  ASSUME NEW W \in Nat, BoundsWalltimes(W), NEW K \in 0 .. NbJobs
  PROVE  TimeOf(K, W) < Infinity /\ Infinity \in Nat
<1>1. /\ NbJobs \in Nat /\ LastSubmission \in Nat /\ Infinity \in Nat
      /\ LastSubmission < Infinity
  BY BoundsAssumption, InfinityAssumption
<1>2. K \in Nat /\ K <= NbJobs
  BY <1>1
<1>3. K * W \in Nat /\ K * W <= NbJobs * W
  <2>1. W * K <= W * NbJobs /\ W * K \in Nat
    BY <1>1, <1>2, ProductGrows
  <2>2. W * K = K * W /\ W * NbJobs = NbJobs * W
    BY <1>1, <1>2
  <2>. QED  BY <2>1, <2>2
<1>4. NbJobs * W + LastSubmission < Infinity /\ NbJobs * W \in Nat
  <2>1. NbJobs * W \in Nat
    BY <1>1, ProductGrows
  <2>2. CASE W = 0
    <3>1. NbJobs * 0 = 0
      BY <1>1
    <3>. QED  BY <1>1, <2>2, <3>1
  <2>3. CASE \E w \in Walltimes \ {NoWalltime} : W = w + RjmsDelay
    BY <2>1, <2>3, InfinityAssumption
  <2>. QED  BY <2>2, <2>3 DEF BoundsWalltimes
<1>5. PICK x, y : x = K * W /\ y = NbJobs * W
  OBVIOUS
<1>. QED  BY <1>1, <1>3, <1>4, <1>5 DEF TimeOf

\* There are NbJobs jobs.
LEMMA JobsCounted ==
  ASSUME NEW S \in SUBSET Jobs
  PROVE  /\ Cardinality(S) \in Nat /\ Cardinality(S) \in 0 .. NbJobs
         /\ \A j \in Jobs \ S : Cardinality(S \cup {j}) = Cardinality(S) + 1
<1>1. IsFiniteSet(Jobs) /\ Cardinality(Jobs) = NbJobs /\ NbJobs \in Nat
  <2>1. NbJobs \in Nat
    BY BoundsAssumption
  <2>2. Cardinality(1 .. NbJobs) = IF 1 > NbJobs THEN 0 ELSE NbJobs - 1 + 1
    BY <2>1, FS_Interval
  <2>3. IsFiniteSet(1 .. NbJobs)
    BY <2>1, FS_Interval
  <2>. QED  BY <2>1, <2>2, <2>3 DEF Jobs
<1>2. IsFiniteSet(S) /\ Cardinality(S) <= NbJobs
  BY <1>1, FS_Subset
<1>3. Cardinality(S) \in Nat
  BY <1>2, FS_CardinalityType
<1>4. \A j \in Jobs \ S : Cardinality(S \cup {j}) = Cardinality(S) + 1
  BY <1>2, FS_AddElement
<1>. QED  BY <1>1, <1>2, <1>3, <1>4

-------------------------------------------------------------------------------
(* The queue.                                                              *)

\* The jobs of a queue are those of its elements.
LEMMA JobsOfQueue ==
  ASSUME NEW q \in Seq(Entries(Jobs))
  PROVE  \A x : x \in JobsOf(q) <=> \E k \in 1 .. Len(q) : x = q[k].job
<1>1. DOMAIN q = 1 .. Len(q)
  BY LenProperties
<1>. QED  BY <1>1 DEF JobsOf

\* The first job of a queue is one of its jobs; there is none if it is empty.
LEMMA FirstOfQueue ==
  ASSUME NEW q \in Seq(Entries(Jobs))
  PROVE  /\ JobsOf(q) \subseteq Jobs /\ NullJob \notin Jobs
         /\ q = <<>> => FirstJob(q) = NullJob /\ JobsOf(q) = {}
         /\ q # <<>> => /\ FirstJob(q) \in JobsOf(q) /\ FirstJob(q) = q[1].job
                        /\ 1 \in 1 .. Len(q)
         /\ FirstJob(q) \in Jobs \cup {NullJob}
<1>1. DOMAIN q = 1 .. Len(q) /\ Len(q) \in Nat
  BY LenProperties
<1>2. \A k \in 1 .. Len(q) : q[k].job \in Jobs
  <2>1. \A k \in 1 .. Len(q) : q[k] \in Entries(Jobs)
    BY ElementOfSeq
  <2>. QED  BY <2>1 DEF Entries
<1>3. JobsOf(q) \subseteq Jobs
  BY <1>1, <1>2 DEF JobsOf
<1>4. NullJob \notin Jobs
  BY BoundsAssumption DEF NullJob, Jobs
<1>5. CASE q = <<>>
  <2>1. DOMAIN q = {}
    BY <1>5
  <2>. QED  BY <1>3, <1>4, <1>5, <2>1 DEF FirstJob, JobsOf
<1>6. CASE q # <<>>
  <2>1. 1 \in 1 .. Len(q) /\ Head(q) = q[1]
    BY <1>1, <1>6
  <2>2. FirstJob(q) = q[1].job
    BY <1>6, <2>1 DEF FirstJob
  <2>3. FirstJob(q) \in JobsOf(q)
    BY <1>1, <2>1, <2>2 DEF JobsOf
  <2>. QED  BY <1>3, <1>4, <1>6, <2>1, <2>2, <2>3
<1>. QED  BY <1>5, <1>6

\* r is q without job j; if j is not the first job of q, that one remains so.
IsDequeued(r, q, j) ==
  /\ r \in Seq(Entries(Jobs)) /\ OnePerJob(r)
  /\ JobsOf(r) = JobsOf(q) \ {j}
  /\ j # FirstJob(q) => FirstJob(r) = FirstJob(q)

\* remove_job.
LEMMA Dequeued ==
  ASSUME NEW q \in Seq(Entries(Jobs)), OnePerJob(q), NEW j
  PROVE  IsDequeued(RemoveFromQueue(q, j), q, j)
<1>. DEFINE K == {k \in DOMAIN q : q[k].job # j}
<1>1. PICK r : r = RemoveFromQueue(q, j)
  OBVIOUS
<1>2. DOMAIN q = 1 .. Len(q) /\ Len(q) \in Nat
  BY LenProperties
<1>3. K \in SUBSET (1 .. Len(q)) /\ \A k \in 1 .. Len(q) : k \in K <=> q[k].job # j
  BY <1>2
<1>4. r = Selection(q, K)
  BY <1>1 DEF RemoveFromQueue
<1>. HIDE DEF K
<1>5. PICK p \in [1 .. Cardinality(K) -> K] :
           /\ \A h, i \in 1 .. Cardinality(K) : h < i => p[h] < p[i]
           /\ \A k \in K : \E i \in 1 .. Cardinality(K) : p[i] = k
           /\ r = [i \in 1 .. Cardinality(K) |-> q[p[i]]]
  BY <1>3, <1>4, SelectionPositions
<1>6. PICK n : n = Cardinality(K)
  OBVIOUS
<1>7. n \in Nat
  <2>1. IsFiniteSet(1 .. Len(q))
    BY <1>2, FS_Interval
  <2>2. IsFiniteSet(K)
    BY <1>3, <2>1, FS_Subset
  <2>. QED  BY <1>6, <2>2, FS_CardinalityType
<1>8. /\ r \in Seq(Entries(Jobs)) /\ DOMAIN r = 1 .. n /\ Len(r) = n
      /\ \A i \in 1 .. n : r[i] = q[p[i]] /\ p[i] \in K
      /\ \A h, i \in 1 .. n : h < i => p[h] < p[i]
      /\ \A k \in K : \E i \in 1 .. n : p[i] = k
  <2>1. r \in Seq(Entries(Jobs))
    BY <1>3, <1>4, SelectionElements
  <2>2. DOMAIN r = 1 .. n
    BY <1>5, <1>6
  <2>3. Len(r) = n
    BY <1>7, <2>1, <2>2, LenProperties
  <2>. QED  BY <1>5, <1>6, <2>1, <2>2, <2>3
<1>9. OnePerJob(r)
  <2>. SUFFICES ASSUME NEW h \in 1 .. n, NEW i \in 1 .. n, h # i
                PROVE  r[h].job # r[i].job
    BY <1>8 DEF OnePerJob
  <2>1. p[h] \in 1 .. Len(q) /\ p[i] \in 1 .. Len(q)
    BY <1>3, <1>8
  <2>2. p[h] # p[i]
    <3>1. h < i \/ i < h
      OBVIOUS
    <3>2. p[h] < p[i] \/ p[i] < p[h]
      BY <1>8, <3>1
    <3>. QED  BY <2>1, <3>2
  <2>. QED  BY <1>2, <1>8, <2>1, <2>2 DEF OnePerJob
<1>10. JobsOf(r) = JobsOf(q) \ {j}
  <2>1. ASSUME NEW i \in 1 .. n
        PROVE  r[i].job \in JobsOf(q) \ {j}
    <3>1. p[i] \in 1 .. Len(q) /\ q[p[i]].job # j /\ r[i] = q[p[i]]
      BY <1>3, <1>8
    <3>. QED  BY <3>1, JobsOfQueue
  <2>2. ASSUME NEW k \in 1 .. Len(q), q[k].job # j
        PROVE  \E i \in 1 .. n : q[k].job = r[i].job
    <3>1. PICK i \in 1 .. n : p[i] = k
      BY <1>3, <1>8, <2>2
    <3>. QED  BY <1>8, <3>1
  <2>3. /\ \A x : x \in JobsOf(r) <=> \E i \in 1 .. n : x = r[i].job
        /\ \A x : x \in JobsOf(q) <=> \E k \in 1 .. Len(q) : x = q[k].job
    BY <1>8, JobsOfQueue
  <2>. QED  BY <2>1, <2>2, <2>3
<1>11. ASSUME j # FirstJob(q)
       PROVE  FirstJob(r) = FirstJob(q)
  <2>1. CASE q = <<>>
    <3>1. JobsOf(r) = {}
      BY <1>10, <2>1, FirstOfQueue
    <3>2. r = <<>>
      BY <1>8, <3>1, FirstOfQueue
    <3>. QED  BY <2>1, <3>2
  <2>2. CASE q # <<>>
    <3>1. 1 \in 1 .. Len(q) /\ FirstJob(q) = q[1].job
      BY <2>2, FirstOfQueue
    <3>2. 1 \in K
      BY <1>3, <1>11, <3>1
    <3>3. PICK i \in 1 .. n : p[i] = 1
      BY <1>8, <3>2
    <3>4. 1 \in 1 .. n /\ i = 1
      <4>1. 1 \in 1 .. n
        BY <1>7
      <4>2. p[1] \in 1 .. Len(q)
        BY <1>3, <1>8, <4>1
      <4>3. 1 < i => p[1] < p[i]
        BY <1>8, <4>1
      <4>4. ~(1 < i)
        BY <3>3, <4>2, <4>3
      <4>. QED  BY <4>1, <4>4
    <3>5. r # <<>> /\ r[1] = q[1]
      BY <1>8, <3>3, <3>4
    <3>. QED  BY <1>8, <3>1, <3>5, FirstOfQueue
  <2>. QED  BY <2>1, <2>2
<1>. QED  BY <1>1, <1>8, <1>9, <1>10, <1>11 DEF IsDequeued

\* The same for the job at a position, behind which the others move up.
LEMMA DequeuedAt ==
  ASSUME NEW q \in Seq(Entries(Jobs)), OnePerJob(q), NEW c \in 1 .. Len(q)
  PROVE  /\ IsDequeued(RemoveAt(q, c), q, q[c].job)
         /\ q[c].job \in JobsOf(q)
         /\ q[c].job = FirstJob(q) <=> c = 1
<1>1. PICK r, n : r = RemoveAt(q, c) /\ n = Len(q)
  OBVIOUS
<1>2. /\ DOMAIN q = 1 .. n /\ n \in Nat /\ c \in 1 .. n
      /\ r \in Seq(Entries(Jobs)) /\ Len(r) = n - 1 /\ DOMAIN r = 1 .. n - 1
      /\ \A i \in 1 .. n - 1 : r[i] = IF i < c THEN q[i] ELSE q[i + 1]
  <2>1. /\ r \in Seq(Entries(Jobs)) /\ Len(r) = n - 1
        /\ \A i \in 1 .. n - 1 : r[i] = IF i < c THEN q[i] ELSE q[i + 1]
    BY <1>1, RemoveAtProperties
  <2>. QED  BY <1>1, <2>1, LenProperties
<1>3. \A i \in 1 .. n - 1 : \E k \in 1 .. n : k # c /\ r[i] = q[k]
                                            /\ k = IF i < c THEN i ELSE i + 1
  <2>1. \A i \in 1 .. n - 1 : /\ i \in 1 .. n /\ i + 1 \in 1 .. n
                              /\ IF i < c THEN i # c ELSE i + 1 # c
    BY <1>2
  <2>. QED  BY <1>2, <2>1
<1>4. \A k \in 1 .. n : k # c => \E i \in 1 .. n - 1 : r[i] = q[k]
  <2>. SUFFICES ASSUME NEW k \in 1 .. n, k # c
                PROVE  \E i \in 1 .. n - 1 : r[i] = q[k]
    OBVIOUS
  <2>1. CASE k < c
    <3>1. k \in 1 .. n - 1
      BY <1>2, <2>1
    <3>. QED  BY <1>2, <2>1, <3>1
  <2>2. CASE ~(k < c)
    <3>1. k - 1 \in 1 .. n - 1 /\ ~(k - 1 < c) /\ (k - 1) + 1 = k
      BY <1>2, <2>2
    <3>. QED  BY <1>2, <3>1
  <2>. QED  BY <2>1, <2>2
<1>5. \A h, i \in 1 .. n : h # i => q[h].job # q[i].job
  BY <1>2 DEF OnePerJob
<1>6. OnePerJob(r)
  <2>. SUFFICES ASSUME NEW h \in 1 .. n - 1, NEW i \in 1 .. n - 1, h # i
                PROVE  r[h].job # r[i].job
    BY <1>2 DEF OnePerJob
  <2>1. PICK k \in 1 .. n : r[h] = q[k] /\ k = IF h < c THEN h ELSE h + 1
    BY <1>3
  <2>2. PICK l \in 1 .. n : r[i] = q[l] /\ l = IF i < c THEN i ELSE i + 1
    BY <1>3
  <2>3. k # l
    BY <1>2, <2>1, <2>2
  <2>. QED  BY <1>5, <2>1, <2>2, <2>3
<1>7. JobsOf(r) = JobsOf(q) \ {q[c].job}
  <2>1. /\ \A x : x \in JobsOf(r) <=> \E i \in 1 .. n - 1 : x = r[i].job
        /\ \A x : x \in JobsOf(q) <=> \E k \in 1 .. n : x = q[k].job
    BY <1>1, <1>2, JobsOfQueue
  <2>2. ASSUME NEW i \in 1 .. n - 1
        PROVE  r[i].job \in JobsOf(q) \ {q[c].job}
    <3>1. PICK k \in 1 .. n : k # c /\ r[i] = q[k]
      BY <1>3
    <3>. QED  BY <1>2, <1>5, <2>1, <3>1
  <2>3. ASSUME NEW k \in 1 .. n, q[k].job # q[c].job
        PROVE  \E i \in 1 .. n - 1 : q[k].job = r[i].job
    <3>1. PICK i \in 1 .. n - 1 : r[i] = q[k]
      BY <1>4, <2>3
    <3>. QED  BY <3>1
  <2>. QED  BY <2>1, <2>2, <2>3
<1>8. FirstJob(q) = q[1].job /\ 1 \in 1 .. n
  <2>1. q # <<>> /\ 1 \in 1 .. n
    BY <1>1, <1>2
  <2>. QED  BY <2>1, FirstOfQueue
<1>9. q[c].job = FirstJob(q) <=> c = 1
  BY <1>2, <1>5, <1>8
<1>10. ASSUME c # 1
       PROVE  FirstJob(r) = FirstJob(q)
  <2>1. 1 \in 1 .. n - 1 /\ 1 < c
    BY <1>2, <1>10
  <2>2. r # <<>> /\ r[1] = q[1]
    BY <1>2, <2>1
  <2>. QED  BY <1>2, <1>8, <2>2, FirstOfQueue
<1>11. q[c].job \in JobsOf(q)
  BY <1>2 DEF JobsOf
<1>. QED  BY <1>1, <1>2, <1>6, <1>7, <1>9, <1>10, <1>11 DEF IsDequeued

\* append_job.
LEMMA Enqueued ==
  ASSUME NEW q \in Seq(Entries(Jobs)), OnePerJob(q), NEW j \in Jobs,
         j \notin JobsOf(q), NEW d \in Int, NEW r, r = AppendJobs(q, <<j>>, d)
  PROVE  /\ r \in Seq(Entries(Jobs)) /\ OnePerJob(r)
         /\ JobsOf(r) = JobsOf(q) \cup {j}
<1>1. PICK e, n : e = [job |-> j, release |-> d] /\ n = Len(q)
  OBVIOUS
<1>2. e \in Entries(Jobs) /\ e.job = j
  BY <1>1 DEF Entries
<1>3. r = Append(q, e)
  <2>1. [k \in DOMAIN <<j>> |-> [job |-> <<j>>[k], release |-> d]] = <<e>>
    BY <1>1
  <2>2. r = q \o <<e>>
    BY <2>1 DEF AppendJobs
  <2>. QED  BY <1>2, <2>2
<1>4. /\ DOMAIN q = 1 .. n /\ n \in Nat
      /\ r \in Seq(Entries(Jobs)) /\ DOMAIN r = 1 .. n + 1
      /\ \A k \in 1 .. n : r[k] = q[k]
      /\ r[n + 1] = e
  <2>1. /\ r \in Seq(Entries(Jobs)) /\ Len(r) = n + 1
        /\ \A k \in 1 .. n : r[k] = q[k]
        /\ r[n + 1] = e
    <3>1. /\ Append(q, e) \in Seq(Entries(Jobs)) /\ Len(Append(q, e)) = Len(q) + 1
          /\ \A k \in 1 .. Len(q) : Append(q, e)[k] = q[k]
          /\ Append(q, e)[Len(q) + 1] = e
      BY <1>2, AppendProperties
    <3>. QED  BY <1>1, <1>3, <3>1
  <2>. QED  BY <1>1, <2>1, LenProperties
<1>5. \A k \in 1 .. n : k \in 1 .. n + 1 /\ q[k].job # j
  BY <1>4 DEF JobsOf
<1>6. n + 1 \in 1 .. n + 1 /\ \A k \in 1 .. n + 1 : k = n + 1 \/ k \in 1 .. n
  BY <1>4
<1>7. OnePerJob(r)
  BY <1>2, <1>4, <1>5, <1>6 DEF OnePerJob
<1>8. JobsOf(r) = JobsOf(q) \cup {j}
  <2>1. Len(r) = n + 1
    BY <1>4, LenProperties
  <2>2. \A x : x \in JobsOf(q) <=> \E k \in 1 .. n : x = q[k].job
    BY <1>1, JobsOfQueue
  <2>3. \A x : x \in JobsOf(r) <=> \E k \in 1 .. n + 1 : x = r[k].job
    BY <1>4, <2>1, JobsOfQueue
  <2>4. \A x : x \in JobsOf(r) <=> (\E k \in 1 .. n : x = r[k].job) \/ x = r[n + 1].job
    BY <1>5, <1>6, <2>3
  <2>5. \A x : x \in JobsOf(r) <=> (\E k \in 1 .. n : x = q[k].job) \/ x = j
    BY <1>2, <1>4, <2>4
  <2>. QED  BY <2>2, <2>5
<1>. QED  BY <1>4, <1>7, <1>8

\* sort_queue loses and invents no job.
LEMMA Sorted ==
  ASSUME Types, QueuesMatchStatus
  PROVE  /\ SortedQueue \in Seq(Entries(Jobs)) /\ OnePerJob(SortedQueue)
         /\ JobsOf(SortedQueue) = Waiting
<1>1. /\ order \in QueueOrders /\ res \in [Jobs -> Int] /\ walltime \in [Jobs -> Int]
      /\ now \in Int /\ queue \in Seq(Entries(Jobs)) /\ OnePerJob(queue)
  BY DEF Types, QueuesMatchStatus
<1>2. Jobs \in SUBSET Int
  BY BoundsAssumption DEF Jobs
<1>. QED  BY <1>1, <1>2, SortQueueElements DEF SortedQueue, Waiting

-------------------------------------------------------------------------------
(* What the invariant says of a job.                                       *)

\* An accepted job fits on the platform and has a positive walltime.
LEMMA AcceptedJob ==
  ASSUME Types, JobsAreSound, NEW j \in Jobs, status[j] # "future", IsValid(j)
  PROVE  /\ res[j] \in 1 .. NbMachines
         /\ walltime[j] \in Nat \ {0}
         /\ walltime[j] - RjmsDelay \in Nat \ {0}
         /\ hasWalltime[j]
<1>1. res[j] \in Nat /\ res[j] # 0 /\ res[j] <= NbMachines /\ hasWalltime[j]
  BY DEF Types, JobsAreSound, IsValid
<1>2. PICK w \in Walltimes \ {NoWalltime} : walltime[j] = w + RjmsDelay
  BY <1>1 DEF JobsAreSound
<1>3. w \in Nat \ {0} /\ RjmsDelay \in Nat /\ NbMachines \in Nat
  BY PlatformAssumption
<1>. QED  BY <1>1, <1>2, <1>3

\* The jobs by their status.
LEMMA JobsByStatus ==
  ASSUME Types, QueuesMatchStatus
  PROVE  /\ Waiting \subseteq Jobs /\ ToSet(released) \subseteq Jobs
         /\ ToSet(ended) \subseteq Jobs /\ Reserved \subseteq Jobs
         /\ \A j \in Waiting \cup ToSet(released) : status[j] = "waiting"
         /\ \A j \in Waiting : j \notin ToSet(ended)
         /\ \A j \in ToSet(ended) : status[j] = "done"
         /\ NullJob \notin Jobs
         /\ Started \in SUBSET Jobs
<1>1. \A s \in Seq(Jobs) : ToSet(s) \subseteq Jobs
  BY ElementOfSeq, LenProperties DEF ToSet
<1>2. Waiting \subseteq Jobs /\ NullJob \notin Jobs
  BY FirstOfQueue DEF Types, Waiting
<1>3. Reserved \subseteq Jobs /\ Started \subseteq Jobs
  BY DEF Reserved, Started
<1>. QED  BY <1>1, <1>2, <1>3 DEF Types, QueuesMatchStatus

-------------------------------------------------------------------------------
(* The steps of Batsim.                                                    *)

\* The parts of the invariant, in two groups: the jobs, and the schedule.
Bookkeeping == Types /\ JobsAreSound /\ QueuesMatchStatus /\ PointsMatchLocals

ScheduleInv ==
  ProfileMatchesJobs /\ RunningArePresent /\ ReservationAhead /\ HorizonIsAhead

\* The invariant is made of these parts, and so it is after a step.
LEMMA InvParts ==
  /\ Inv <=> Bookkeeping /\ ScheduleInv /\ OnlyPriorityIsReserved
               /\ ReservationFollows
  /\ Inv' <=> Bookkeeping' /\ ScheduleInv' /\ OnlyPriorityIsReserved'
                /\ ReservationFollows'
  BY DEF Inv, Bookkeeping, ScheduleInv

\* What a step leaves of the reservation, as long as there is one.
StillFollows == \A j \in Reserved : FollowsAnother(j) => FollowsAnother(j)'

\* The same job has the reservation after a step that changes nothing of it.
LEMMA PriorityKept ==
  ASSUME OnlyPriorityIsReserved, ReservationFollows, Reserved' = Reserved, StillFollows,
         Priority' = Priority, pc # "priority", pc' # "priority",
         TraversalAhead => TraversalAhead' \/ StillToTry',
         StillToTry => StillToTry'
  PROVE  OnlyPriorityIsReserved' /\ ReservationFollows'
<1>1. OnlyPriorityIsReserved'
  BY DEF OnlyPriorityIsReserved
<1>2. ReservationFollows'
  BY DEF ReservationFollows, StillFollows
<1>. QED  BY <1>1, <1>2

\* The jobs in the schedule.
LEMMA JobsOfProfile ==
  ASSUME Inv
  PROVE  /\ IsSound(profile, Jobs, Machines, res) /\ IsFiniteSet(Machines)
         /\ \A j \in Jobs : ContainsJob(profile, j) <=>
              status[j] = "running" \/ j \in ToSet(ended) \/ j \in Reserved
         /\ \A j \in Jobs : ContainsJob(profile, j) => status[j] # "future"
         /\ now \in Int /\ profile[1].begin \in Int /\ profile[1].begin <= now
<1>. USE DEF Inv
<1>1. IsSound(profile, Jobs, Machines, res) /\ IsFiniteSet(Machines)
  BY MachinesFinite DEF ProfileMatchesJobs
<1>2. profile[1].begin \in Int
  BY <1>1, LastBegin
<1>3. \A j \in Jobs : ContainsJob(profile, j) => status[j] # "future"
  BY JobsByStatus DEF ProfileMatchesJobs, Reserved
<1>. QED  BY <1>1, <1>2, <1>3 DEF ProfileMatchesJobs, Types

\* A horizon for the jobs started so far, as a number.
LEMMA HorizonIsTime ==
  ASSUME Inv, NEW W \in Nat, IsHorizon(W)
  PROVE  /\ Cardinality(Started) \in Nat
         /\ Cardinality(Started) \in 0 .. NbJobs
         /\ TimeOf(Cardinality(Started), W) \in Nat
         /\ TimeOf(Cardinality(Started) + 1, W) = TimeOf(Cardinality(Started), W) + W
         /\ LastSubmission <= TimeOf(Cardinality(Started), W)
<1>. USE DEF Inv
<1>1. Started \in SUBSET Jobs
  BY JobsByStatus
<1>2. Cardinality(Started) \in Nat /\ Cardinality(Started) \in 0 .. NbJobs
  BY <1>1, JobsCounted
<1>3. W <= W
  OBVIOUS
<1>. QED  BY <1>2, <1>3, TimeGrows

\* A job that is submitted is not in the schedule, and may bring a longer
\* walltime.
LEMMA SubmitKeepsInv ==
  ASSUME Inv, NEW j \in Jobs, NEW r \in Requests, NEW w \in Walltimes,
         Submit(j, r, w), UNCHANGED schedVars
  PROVE  Inv'
<1>. USE DEF Inv
<1>1. /\ pc = "batsim" /\ status[j] = "future"
      /\ status' = [status EXCEPT ![j] = "waiting"]
      /\ res' = [res EXCEPT ![j] = r]
      /\ walltime' = [walltime EXCEPT ![j] = w + RjmsDelay]
      /\ hasWalltime' = [hasWalltime EXCEPT ![j] = (w # NoWalltime)]
      /\ released' = Append(released, j)
      /\ UNCHANGED <<pc, now, placed, deadline, ended, order, profile, queue,
                     before, after, recent, jobEnded, nbAvailable, cursor>>
  BY DEF Submit, schedVars, localVars
<1>2. /\ r \in Nat \ {0} /\ RjmsDelay \in Nat
      /\ w \in Nat \ {0} \/ w = NoWalltime
      /\ w \in Int
  BY PlatformAssumption DEF NoWalltime
<1>3. /\ Waiting \subseteq Jobs /\ ToSet(released) \subseteq Jobs
      /\ \A k \in Waiting \cup ToSet(released) : status[k] = "waiting"
      /\ \A k \in ToSet(ended) : status[k] = "done"
  BY JobsByStatus
<1>4. j \notin Waiting /\ j \notin ToSet(released) /\ j \notin ToSet(ended)
  BY <1>1, <1>3
<1>5. ~ContainsJob(profile, j)
  BY <1>1, JobsOfProfile
<1>6. /\ released' \in Seq(Jobs) /\ IsInjective(released')
      /\ ToSet(released') = ToSet(released) \cup {j}
  BY <1>1, <1>4, AppendToInjective DEF Types, QueuesMatchStatus
<1>7. Types'
  <2>1. /\ status' \in [Jobs -> Status] /\ res' \in [Jobs -> Nat]
        /\ walltime' \in [Jobs -> Int] /\ hasWalltime' \in [Jobs -> BOOLEAN]
    BY <1>1, <1>2 DEF Types, Status
  <2>. QED  BY <1>1, <1>6, <2>1 DEF Types
<1>8. /\ \A k \in Jobs : k # j => /\ status'[k] = status[k]
                                  /\ res'[k] = res[k]
                                  /\ walltime'[k] = walltime[k]
                                  /\ hasWalltime'[k] = hasWalltime[k]
      /\ status'[j] = "waiting" /\ res'[j] = r
      /\ walltime'[j] = w + RjmsDelay /\ hasWalltime'[j] = (w # NoWalltime)
      /\ Waiting' = Waiting
  BY <1>1 DEF Types, Waiting
<1>9. JobsAreSound'
  <2>1. ASSUME NEW k \in Jobs, status'[k] # "future"
        PROVE  /\ res'[k] # 0
               /\ hasWalltime'[k] => \E x \in Walltimes \ {NoWalltime} :
                                       walltime'[k] = x + RjmsDelay
    BY <1>2, <1>8, <2>1 DEF JobsAreSound
  <2>2. ASSUME NEW k \in Jobs,
               status'[k] \in {"running", "done"} \/ k \in Waiting
        PROVE  IsValid(k)'
    BY <1>4, <1>8, <2>2 DEF JobsAreSound, IsValid
  <2>3. ASSUME NEW k \in Jobs, status'[k] # "running"
        PROVE  placed'[k] = {}
    BY <1>1, <1>8, <2>3 DEF JobsAreSound
  <2>. QED  BY <1>8, <2>1, <2>2, <2>3 DEF JobsAreSound
<1>10. QueuesMatchStatus'
  <2>1. {k \in Jobs : status'[k] = "waiting"}
          = {k \in Jobs : status[k] = "waiting"} \cup {j}
    BY <1>8
  <2>2. \A k \in ToSet(ended) : status'[k] = "done"
    BY <1>3, <1>4, <1>8, JobsByStatus
  <2>. QED  BY <1>1, <1>4, <1>6, <1>8, <2>1, <2>2 DEF QueuesMatchStatus
<1>11. PointsMatchLocals'
  BY <1>1 DEF PointsMatchLocals
<1>12. Reserved' = Reserved /\ j \notin Reserved
  BY <1>1, <1>5, <1>8 DEF Reserved
<1>13. ProfileMatchesJobs'
  <2>1. \A k : ContainsJob(profile, k) => res'[k] = res[k]
    <3>1. ASSUME NEW k, ContainsJob(profile, k)
          PROVE  res'[k] = res[k]
      BY <1>1, <1>5, <3>1 DEF Types
    <3>. QED  BY <3>1
  <2>2. IsSound(profile, Jobs, Machines, res')
    BY <2>1, SoundOtherwise DEF ProfileMatchesJobs
  <2>3. \A k \in Jobs : status'[k] = "running" <=> status[k] = "running"
    BY <1>1, <1>8
  <2>. QED  BY <1>1, <1>12, <2>2, <2>3 DEF ProfileMatchesJobs
<1>14. RunningArePresent'
  BY <1>1, <1>8 DEF RunningArePresent
<1>15. ReservationAhead'
  <2>1. \A k \in Reserved : walltime'[k] = walltime[k] /\ res'[k] = res[k]
    BY <1>8, <1>12 DEF Reserved
  <2>. QED  BY <1>1, <1>12, <2>1 DEF ReservationAhead
<1>16. OnlyPriorityIsReserved' /\ ReservationFollows'
  <2>1. StillFollows /\ Priority' = Priority
    BY <1>1 DEF StillFollows, FollowsAnother, Priority
  <2>. QED  BY <1>1, <1>12, <2>1, PriorityKept DEF TraversalAhead, StillToTry
<1>17. HorizonIsAhead'
  <2>1. Started' = Started
    BY <1>1, <1>8 DEF Started
  <2>2. PICK W \in Nat : IsHorizon(W)
    BY DEF HorizonIsAhead
  <2>3. PICK V \in Nat : /\ W <= V /\ BoundsWalltimes(V)'
    <3>1. \A k \in Jobs \ {j} :
            status'[k] # "future" /\ hasWalltime'[k] => walltime'[k] <= W
      BY <1>8, <2>2 DEF IsHorizon, BoundsWalltimes
    <3>2. \A k \in Jobs : walltime'[k] \in Int
      BY <1>7 DEF Types
    <3>3. CASE w # NoWalltime /\ w + RjmsDelay > W
      <4>1. PICK V : V = w + RjmsDelay
        OBVIOUS
      <4>2. V \in Nat /\ W <= V /\ walltime'[j] = V
        BY <1>2, <1>8, <3>3, <4>1
      <4>3. \A k \in Jobs : status'[k] # "future" /\ hasWalltime'[k] => walltime'[k] <= V
        <5>1. ASSUME NEW k \in Jobs, status'[k] # "future", hasWalltime'[k]
              PROVE  walltime'[k] <= V
          <6>1. CASE k = j
            BY <4>2, <6>1
          <6>2. CASE k # j
            BY <3>1, <3>2, <4>2, <5>1, <6>2
          <6>. QED  BY <6>1, <6>2
        <5>. QED  BY <5>1
      <4>4. BoundsWalltimes(V)'
        BY <3>3, <4>1, <4>3 DEF BoundsWalltimes
      <4>. QED  BY <4>2, <4>4
    <3>4. CASE ~(w # NoWalltime /\ w + RjmsDelay > W)
      <4>1. hasWalltime'[j] => walltime'[j] <= W
        <5>1. w # NoWalltime => w + RjmsDelay <= W
          BY <1>2, <3>4
        <5>. QED  BY <1>8, <5>1
      <4>2. \A k \in Jobs : status'[k] # "future" /\ hasWalltime'[k] => walltime'[k] <= W
        BY <3>1, <4>1
      <4>3. BoundsWalltimes(W)' /\ W <= W
        BY <2>2, <4>2 DEF IsHorizon, BoundsWalltimes
      <4>. QED  BY <4>3
    <3>. QED  BY <3>3, <3>4
  <2>4. /\ \A K \in Nat : \A d \in Int : d <= TimeOf(K, W) => d <= TimeOf(K, V)
        /\ Cardinality(Started) \in Nat
    <3>1. ASSUME NEW K \in Nat, NEW d \in Int, d <= TimeOf(K, W)
          PROVE  d <= TimeOf(K, V)
      <4>1. V <= V
        OBVIOUS
      <4>2. TimeOf(K, W) \in Nat /\ TimeOf(K, W) <= TimeOf(K, V) /\ TimeOf(K, V) \in Nat
        BY <2>3, <4>1, TimeGrows
      <4>. QED  BY <3>1, <4>2
    <3>. QED  BY <2>2, <3>1, HorizonIsTime
  <2>5. now <= TimeOf(Cardinality(Started), V)
    BY <2>2, <2>4 DEF IsHorizon, Types
  <2>6. ASSUME NEW k \in Jobs, ContainsJob(profile, k)
        PROVE  Allocation(profile, k).end <=
                 TimeOf(Cardinality(Started) + (IF k \in Reserved THEN 1 ELSE 0), V)
    <3>1. Allocation(profile, k).end \in Int
      BY <2>6, AllocationFacts, JobsOfProfile
    <3>2. Cardinality(Started) + (IF k \in Reserved THEN 1 ELSE 0) \in Nat
      BY <2>4
    <3>. QED  BY <2>2, <2>4, <2>6, <3>1, <3>2 DEF IsHorizon
  <2>7. IsHorizon(V)'
    BY <1>1, <1>12, <2>1, <2>3, <2>5, <2>6 DEF IsHorizon
  <2>. QED  BY <2>7 DEF HorizonIsAhead
<1>18. Bookkeeping' /\ ScheduleInv'
  BY <1>7, <1>9, <1>10, <1>11, <1>13, <1>14, <1>15, <1>17 DEF Bookkeeping, ScheduleInv
<1>. QED  BY <1>16, <1>18, InvParts

\* A job that completes stays in the schedule until the scheduler is told.
LEMMA CompleteKeepsInv ==
  ASSUME Inv, NEW j \in Jobs, Complete(j), UNCHANGED schedVars
  PROVE  Inv'
<1>. USE DEF Inv
<1>1. /\ pc = "batsim" /\ status[j] = "running"
      /\ status' = [status EXCEPT ![j] = "done"]
      /\ placed' = [placed EXCEPT ![j] = {}]
      /\ ended' = Append(ended, j)
      /\ UNCHANGED <<pc, now, res, walltime, hasWalltime, deadline, released, order,
                     profile, queue, before, after, recent, jobEnded, nbAvailable,
                     cursor>>
  BY DEF Complete, schedVars, localVars, jobVars
<1>2. /\ \A k \in Waiting \cup ToSet(released) : status[k] = "waiting"
      /\ \A k \in ToSet(ended) : status[k] = "done"
      /\ ToSet(ended) \subseteq Jobs
  BY JobsByStatus
<1>3. j \notin ToSet(ended) /\ j \notin Waiting
  BY <1>1, <1>2
<1>4. /\ ended' \in Seq(Jobs) /\ IsInjective(ended')
      /\ ToSet(ended') = ToSet(ended) \cup {j}
  BY <1>1, <1>3, AppendToInjective DEF Types, QueuesMatchStatus
<1>5. /\ \A k \in Jobs : k # j => status'[k] = status[k] /\ placed'[k] = placed[k]
      /\ status'[j] = "done" /\ placed'[j] = {} /\ Waiting' = Waiting
  BY <1>1 DEF Types, Waiting
<1>6. Types'
  <2>1. status' \in [Jobs -> Status] /\ placed' \in [Jobs -> SUBSET Machines]
    BY <1>1 DEF Types, Status
  <2>. QED  BY <1>1, <1>4, <2>1 DEF Types
<1>7. JobsAreSound'
  <2>1. \A k \in Jobs : status'[k] # "future" => status[k] # "future"
    BY <1>1, <1>5
  <2>2. \A k \in Jobs : status'[k] \in {"running", "done"}
                          => status[k] \in {"running", "done"}
    BY <1>1, <1>5
  <2>3. \A k \in Jobs : status'[k] # "running" => placed'[k] = {}
    BY <1>5 DEF JobsAreSound
  <2>4. \A k \in Jobs : IsValid(k)' = IsValid(k)
    BY <1>1 DEF IsValid
  <2>. QED  BY <1>1, <1>5, <2>1, <2>2, <2>3, <2>4 DEF JobsAreSound
<1>8. QueuesMatchStatus'
  <2>1. {k \in Jobs : status'[k] = "waiting"} = {k \in Jobs : status[k] = "waiting"}
    BY <1>1, <1>5
  <2>2. \A k \in ToSet(ended') : status'[k] = "done"
    BY <1>2, <1>4, <1>5
  <2>. QED  BY <1>1, <1>4, <1>5, <2>1, <2>2 DEF QueuesMatchStatus
<1>9. PointsMatchLocals'
  BY <1>1 DEF PointsMatchLocals
<1>10. Reserved' = Reserved
  BY <1>1, <1>5 DEF Reserved
<1>11. ProfileMatchesJobs'
  <2>1. \A k \in Jobs : status'[k] = "running" \/ k \in ToSet(ended')
                          <=> status[k] = "running" \/ k \in ToSet(ended)
    BY <1>1, <1>4, <1>5
  <2>. QED  BY <1>1, <1>10, <2>1 DEF ProfileMatchesJobs
<1>12. RunningArePresent'
  BY <1>1, <1>4, <1>5 DEF RunningArePresent
<1>13. ReservationAhead'
  BY <1>1, <1>10 DEF ReservationAhead
<1>14. OnlyPriorityIsReserved' /\ ReservationFollows'
  <2>1. StillFollows /\ Priority' = Priority
    BY <1>1 DEF StillFollows, FollowsAnother, Priority
  <2>. QED  BY <1>1, <1>10, <2>1, PriorityKept DEF TraversalAhead, StillToTry
<1>15. HorizonIsAhead'
  <2>1. Started' = Started
    BY <1>1, <1>5 DEF Started
  <2>2. \A W \in Nat : BoundsWalltimes(W) => BoundsWalltimes(W)'
    <3>1. \A k \in Jobs : status'[k] # "future" => status[k] # "future"
      BY <1>1, <1>5
    <3>. QED  BY <1>1, <3>1 DEF BoundsWalltimes
  <2>. QED  BY <1>1, <1>10, <2>1, <2>2 DEF HorizonIsAhead, IsHorizon
<1>16. Bookkeeping' /\ ScheduleInv'
  BY <1>6, <1>7, <1>8, <1>9, <1>11, <1>12, <1>13, <1>15 DEF Bookkeeping, ScheduleInv
<1>. QED  BY <1>14, <1>16, InvParts

\* Time does not pass the reservation: it follows the allocation of a running
\* job, which ends later.
LEMMA TickKeepsInv ==
  ASSUME Inv, Tick, UNCHANGED schedVars
  PROVE  Inv'
<1>. USE DEF Inv
<1>1. /\ pc = "batsim" /\ ended = <<>> /\ released = <<>>
      /\ SomethingToCome
      /\ \A j \in Jobs : status[j] = "running" => now < deadline[j]
      /\ now' = now + 1
      /\ UNCHANGED <<pc, status, res, walltime, hasWalltime, placed, deadline,
                     ended, released, order, profile, queue, before, after, recent,
                     jobEnded, nbAvailable, cursor>>
  BY DEF Tick, schedVars, localVars, jobVars
<1>2. /\ Types' /\ now \in Int /\ \A j \in Jobs : deadline[j] \in Int
      /\ ToSet(ended) = {} /\ RjmsDelay \in Nat
  BY <1>1, PlatformAssumption DEF Types, ToSet
<1>3. JobsAreSound' /\ QueuesMatchStatus' /\ PointsMatchLocals'
  <2>1. (\A k \in Jobs : IsValid(k)' = IsValid(k)) /\ Waiting' = Waiting
    BY <1>1 DEF IsValid, Waiting
  <2>. QED
    BY <1>1, <2>1 DEF JobsAreSound, QueuesMatchStatus, PointsMatchLocals
<1>4. Reserved' = Reserved /\ Started' = Started
  BY <1>1 DEF Reserved, Started
<1>5. /\ IsSound(profile, Jobs, Machines, res)
      /\ profile[1].begin \in Int /\ profile[1].begin <= now
      /\ IsFiniteSet(Machines)
  BY JobsOfProfile
<1>6. ProfileMatchesJobs'
  BY <1>1, <1>2, <1>4, <1>5 DEF ProfileMatchesJobs
<1>7. RunningArePresent'
  BY <1>1, <1>2 DEF RunningArePresent
<1>8. ASSUME NEW k \in Jobs, status[k] = "running"
      PROVE  /\ ContainsJob(profile, k) /\ k \notin Reserved
             /\ Allocation(profile, k).end \in Int
             /\ now + 1 <= Allocation(profile, k).end
  <2>1. ContainsJob(profile, k) /\ k \notin Reserved
    BY <1>8 DEF ProfileMatchesJobs, Reserved
  <2>2. Allocation(profile, k).end \in Int
    BY <1>5, <2>1, AllocationFacts
  <2>3. Allocation(profile, k).end >= deadline[k] + RjmsDelay
    BY <1>8 DEF RunningArePresent
  <2>4. now < deadline[k] /\ deadline[k] \in Int
    BY <1>1, <1>2, <1>8
  <2>. QED  BY <1>2, <2>1, <2>2, <2>3, <2>4
<1>9. ASSUME NEW j \in Reserved
      PROVE  now + 1 <= Allocation(profile, j).begin
  <2>1. j \in Jobs /\ ContainsJob(profile, j)
    BY DEF Reserved
  <2>2. PICK k \in Jobs :
          k # j /\ EndsBefore(profile, k, Allocation(profile, j).begin)
    BY <1>1 DEF ReservationFollows, FollowsAnother, TraversalAhead, StillToTry
  <2>3. ContainsJob(profile, k) /\ k \notin Reserved
    BY <2>2 DEF EndsBefore, OnlyPriorityIsReserved
  <2>4. status[k] = "running"
    BY <1>2, <2>3 DEF ProfileMatchesJobs
  <2>5. PICK e, d : e = Allocation(profile, k).end /\ d = Allocation(profile, j).begin
    OBVIOUS
  <2>6. e \in Int /\ now + 1 <= e /\ d \in Int /\ e <= d
    BY <1>5, <1>8, <2>1, <2>2, <2>4, <2>5, AllocationFacts DEF EndsBefore
  <2>. QED  BY <1>2, <2>5, <2>6
<1>10. ReservationAhead'
  <2>1. \A j \in Reserved : now' <= Allocation(profile, j).begin
    BY <1>1, <1>9
  <2>. QED  BY <1>1, <1>4, <2>1 DEF ReservationAhead
<1>11. OnlyPriorityIsReserved' /\ ReservationFollows'
  <2>1. StillFollows /\ Priority' = Priority
    BY <1>1 DEF StillFollows, FollowsAnother, Priority
  <2>. QED  BY <1>1, <1>4, <2>1, PriorityKept DEF TraversalAhead, StillToTry
<1>12. HorizonIsAhead'
  <2>1. PICK W \in Nat : IsHorizon(W)
    BY DEF HorizonIsAhead
  <2>2. PICK H : H = TimeOf(Cardinality(Started), W)
    OBVIOUS
  <2>3. H \in Nat /\ LastSubmission <= H /\ Cardinality(Started) \in Nat
    BY <2>1, <2>2, HorizonIsTime
  <2>4. now + 1 <= H
    <3>1. CASE now < LastSubmission
      BY <1>2, <2>3, <3>1, BoundsAssumption
    <3>2. CASE \E k \in Jobs : status[k] = "running"
      <4>1. PICK k \in Jobs : status[k] = "running"
        BY <3>2
      <4>2. PICK e : e = Allocation(profile, k).end
        OBVIOUS
      <4>3. now + 1 <= e /\ e \in Int
        BY <1>8, <4>1, <4>2
      <4>4. e <= H
        <5>1. ContainsJob(profile, k) /\ k \notin Reserved
          BY <1>8, <4>1
        <5>2. Cardinality(Started) + 0 = Cardinality(Started)
          BY <2>3
        <5>. QED  BY <2>1, <2>2, <4>2, <5>1, <5>2 DEF IsHorizon
      <4>. QED  BY <1>2, <2>3, <4>3, <4>4
    <3>. QED  BY <1>1, <3>1, <3>2 DEF SomethingToCome
  <2>5. BoundsWalltimes(W)'
    BY <1>1, <2>1 DEF BoundsWalltimes, IsHorizon
  <2>6. IsHorizon(W)'
    BY <1>1, <1>4, <2>1, <2>2, <2>4, <2>5 DEF IsHorizon
  <2>. QED  BY <2>6 DEF HorizonIsAhead
<1>13. Bookkeeping' /\ ScheduleInv'
  BY <1>2, <1>3, <1>6, <1>7, <1>10, <1>12 DEF Bookkeeping, ScheduleInv
<1>. QED  BY <1>11, <1>13, InvParts


-------------------------------------------------------------------------------
(* The steps of the scheduler that leave the schedule alone.               *)

\* What the schedule is for is not changed.
SamePurpose ==
  /\ \A j \in Jobs : /\ status'[j] = "running" <=> status[j] = "running"
                     /\ status'[j] = "done" <=> status[j] = "done"
                     /\ status'[j] = "future" <=> status[j] = "future"
                     /\ ContainsJob(profile, j) => status'[j] = status[j]
  /\ UNCHANGED <<now, jobVars, placed, deadline, ended>>

\* The schedule says the same of every job.
SaysTheSame ==
  /\ IsSound(profile', Jobs, Machines, res)
  /\ \A j \in Jobs : SameAllocation(profile, profile', j)
  /\ profile'[1].begin = profile[1].begin

\* Nothing changes if nothing is done.
LEMMA SameProfile ==
  ASSUME Inv, UNCHANGED profile
  PROVE  SaysTheSame
  BY JobsOfProfile DEF SaysTheSame, SameAllocation

\* A step after which the schedule says the same keeps what the invariant says of
\* it.
LEMMA SameSchedule ==
  ASSUME Inv, SamePurpose, SaysTheSame,
         pc' \notin {"batsim", "ended", "released"} => profile[1].begin = now
  PROVE  ScheduleInv' /\ Reserved' = Reserved /\ StillFollows
<1>. USE DEF Inv
<1>1. /\ \A j \in Jobs : /\ status'[j] = "running" <=> status[j] = "running"
                         /\ status'[j] = "done" <=> status[j] = "done"
                         /\ status'[j] = "future" <=> status[j] = "future"
                         /\ ContainsJob(profile, j) => status'[j] = status[j]
      /\ UNCHANGED <<now, res, walltime, hasWalltime, placed, deadline, ended>>
  BY DEF SamePurpose, jobVars
<1>2. /\ IsSound(profile', Jobs, Machines, res)
      /\ \A j \in Jobs : ContainsJob(profile', j) <=> ContainsJob(profile, j)
      /\ \A j \in Jobs : ContainsJob(profile, j)
           => Allocation(profile', j) = Allocation(profile, j)
      /\ profile'[1].begin = profile[1].begin
  BY DEF SaysTheSame, SameAllocation
<1>3. Reserved' = Reserved
  BY <1>1, <1>2 DEF Reserved
<1>4. ProfileMatchesJobs'
  BY <1>1, <1>2, <1>3 DEF ProfileMatchesJobs
<1>5. RunningArePresent'
  <2>1. /\ \A j \in Jobs : status[j] = "running" => ContainsJob(profile, j)
        /\ \A j \in ToSet(ended) : j \in Jobs /\ ContainsJob(profile, j)
    BY JobsByStatus DEF ProfileMatchesJobs
  <2>. QED  BY <1>1, <1>2, <2>1 DEF RunningArePresent
<1>6. \A j \in Reserved : ContainsJob(profile, j) /\ j \in Jobs
  BY DEF Reserved
<1>7. ReservationAhead'
  BY <1>1, <1>2, <1>3, <1>6 DEF ReservationAhead
<1>8. StillFollows
  <2>. SUFFICES ASSUME NEW j \in Reserved, FollowsAnother(j)
                PROVE  FollowsAnother(j)'
    BY DEF StillFollows
  <2>1. PICK k \in Jobs :
          k # j /\ EndsBefore(profile, k, Allocation(profile, j).begin)
    BY DEF FollowsAnother
  <2>2. Allocation(profile', j) = Allocation(profile, j)
    BY <1>2, <1>6
  <2>3. EndsBefore(profile', k, Allocation(profile, j).begin)
    BY <1>2, <2>1 DEF EndsBefore
  <2>4. EndsBefore(profile', k, Allocation(profile', j).begin)
    BY <2>2, <2>3
  <2>. QED  BY <2>1, <2>4 DEF FollowsAnother
<1>9. HorizonIsAhead'
  <2>1. Started' = Started
    BY <1>1 DEF Started
  <2>2. \A W \in Nat : BoundsWalltimes(W) => BoundsWalltimes(W)'
    BY <1>1 DEF BoundsWalltimes
  <2>3. \A W \in Nat : IsHorizon(W) => IsHorizon(W)'
    BY <1>1, <1>2, <1>3, <2>1, <2>2 DEF IsHorizon
  <2>. QED  BY <2>3 DEF HorizonIsAhead
<1>. QED  BY <1>3, <1>4, <1>5, <1>7, <1>8, <1>9 DEF ScheduleInv

\* The set of no machines has no elements.
LEMMA FreeMachines ==
  ASSUME Inv
  PROVE  /\ profile[1].available \in SUBSET Machines
         /\ Cardinality(profile[1].available) \in Nat
         /\ Cardinality(profile[1].available) = 0 <=> profile[1].available = {}
<1>1. profile[1].available \in SUBSET Machines
  BY JobsOfProfile, FreeAtPresent
<1>2. /\ IsFiniteSet(profile[1].available)
      /\ Cardinality(profile[1].available) \in Nat
  BY <1>1, MachinesFinite
<1>3. Cardinality(profile[1].available) = 0 <=> profile[1].available = {}
  BY <1>2, FS_EmptySet
<1>. QED  BY <1>1, <1>2, <1>3

\* A step to the next part of make_decisions.
LEMMA MoveKeepsInv ==
  ASSUME Inv, Receive \/ EndedHandled \/ ChooseLoop \/ Reply \/ UNCHANGED vars
  PROVE  Inv'
<1>. USE DEF Inv
<1>1. /\ UNCHANGED <<now, status, placed, deadline, res, walltime, hasWalltime,
                     ended, released, order, profile, queue>>
      /\ Waiting' = Waiting /\ \A j \in Jobs : IsValid(j)' = IsValid(j)
  BY DEF Receive, Send, EndedHandled, ChooseLoop, Reply, worldVars, jobVars,
         schedVars, localVars, batsimVars, vars, Waiting, IsValid
<1>2. JobsAreSound' /\ QueuesMatchStatus'
  BY <1>1 DEF JobsAreSound, QueuesMatchStatus
<1>3. SamePurpose /\ SaysTheSame
  BY <1>1, SameProfile DEF SamePurpose, jobVars
<1>4. /\ before \in Jobs \cup {NullJob} /\ after \in Jobs \cup {NullJob}
      /\ FirstJob(queue) \in Jobs \cup {NullJob}
      /\ queue = <<>> => FirstJob(queue) = NullJob
      /\ queue # <<>> => FirstJob(queue) \in Waiting
      /\ pc \in ProgramPoints /\ NullJob \notin Jobs
  BY FirstOfQueue DEF Types, Waiting
<1>. USE DEF ProgramPoints
<1>5. CASE UNCHANGED vars
  <2>1. UNCHANGED <<pc, before, after, recent, jobEnded, nbAvailable, cursor>>
    BY <1>5 DEF vars, batsimVars, schedVars, localVars
  <2>2. Types' /\ PointsMatchLocals'
    BY <1>1, <2>1 DEF Types, PointsMatchLocals
  <2>3. ScheduleInv' /\ Reserved' = Reserved /\ StillFollows
    BY <1>3, <2>1, SameSchedule DEF ProfileMatchesJobs
  <2>4. OnlyPriorityIsReserved' /\ ReservationFollows'
    BY <1>1, <2>1 DEF OnlyPriorityIsReserved, ReservationFollows, Reserved, Priority,
                      StillToTry, TraversalAhead, FollowsAnother
  <2>. QED  BY <1>2, <2>2, <2>3, <2>4, InvParts DEF Bookkeeping
<1>6. CASE Receive
  <2>1. /\ pc = "batsim" /\ pc' = "ended" /\ before' = FirstJob(queue)
        /\ jobEnded' = (ended # <<>>)
        /\ UNCHANGED <<after, recent, nbAvailable, cursor>>
    BY <1>6 DEF Receive, Send
  <2>2. Types'
    BY <1>1, <1>4, <2>1 DEF Types
  <2>3. PointsMatchLocals'
    BY <1>1, <2>1 DEF PointsMatchLocals
  <2>4. ScheduleInv' /\ Reserved' = Reserved /\ StillFollows
    BY <1>3, <2>1, SameSchedule
  <2>5. OnlyPriorityIsReserved' /\ ReservationFollows'
    BY <2>1, <2>4, PriorityKept DEF Priority, TraversalAhead, StillToTry
  <2>. QED  BY <1>2, <2>2, <2>3, <2>4, <2>5, InvParts DEF Bookkeeping
<1>7. CASE EndedHandled
  <2>1. /\ pc = "ended" /\ ended = <<>> /\ pc' = "released"
        /\ UNCHANGED <<before, after, recent, jobEnded, nbAvailable, cursor>>
    BY <1>7 DEF EndedHandled, schedVars, localVars
  <2>2. Types'
    BY <1>1, <2>1 DEF Types
  <2>3. PointsMatchLocals'
    BY <1>1, <1>4, <2>1 DEF PointsMatchLocals
  <2>4. ScheduleInv' /\ Reserved' = Reserved /\ StillFollows
    BY <1>3, <2>1, SameSchedule
  <2>5. OnlyPriorityIsReserved' /\ ReservationFollows'
    BY <1>1, <2>1, <2>4, PriorityKept DEF Priority, TraversalAhead, StillToTry
  <2>. QED  BY <1>2, <2>2, <2>3, <2>4, <2>5, InvParts DEF Bookkeeping
<1>8. CASE ChooseLoop
  <2>1. /\ pc = "sorted" /\ pc' = IF jobEnded THEN "traverse" ELSE "backfill"
        /\ nbAvailable' = Cardinality(profile[1].available)
        /\ UNCHANGED <<before, after, recent, jobEnded, cursor>>
    BY <1>8 DEF ChooseLoop
  <2>2. Types'
    BY <1>1, <2>1, FreeMachines DEF Types
  <2>3. PointsMatchLocals' /\ cursor = 1
    BY <1>1, <2>1 DEF PointsMatchLocals
  <2>4. ScheduleInv' /\ Reserved' = Reserved /\ StillFollows
    BY <1>3, <2>1, SameSchedule DEF ProfileMatchesJobs
  <2>5. TraversalAhead => StillToTry'
    <3>1. ASSUME TraversalAhead
          PROVE  StillToTry'
      <4>1. ended = <<>> /\ jobEnded /\ profile[1].available # {}
        BY <2>1, <3>1 DEF TraversalAhead, PointsMatchLocals
      <4>2. nbAvailable' > 0
        BY <2>1, <4>1, FreeMachines
      <4>. QED  BY <2>1, <2>3, <4>1, <4>2 DEF StillToTry
    <3>. QED  BY <3>1
  <2>6. OnlyPriorityIsReserved' /\ ReservationFollows'
    BY <2>1, <2>4, <2>5, PriorityKept DEF Priority, StillToTry
  <2>. QED  BY <1>2, <2>2, <2>3, <2>4, <2>6, InvParts DEF Bookkeeping
<1>9. CASE Reply
  <2>1. /\ \/ pc = "backfill"
           \/ pc = "traverse" /\ (cursor > Len(queue) \/ nbAvailable = 0)
        /\ pc' = "batsim" /\ before' = NullJob /\ after' = NullJob
        /\ recent' = <<>> /\ jobEnded' = FALSE /\ nbAvailable' = 0 /\ cursor' = 1
    BY <1>9 DEF Reply
  <2>2. Types'
    <3>1. recent' \in Seq(Jobs) /\ nbAvailable' \in Nat /\ cursor' \in Nat \ {0}
          /\ before' \in Jobs \cup {NullJob} /\ after' \in Jobs \cup {NullJob}
          /\ pc' \in ProgramPoints
      BY <2>1
    <3>2. jobEnded' \in BOOLEAN
      BY <2>1
    <3>. QED  BY <1>1, <3>1, <3>2 DEF Types
  <2>3. PointsMatchLocals'
    BY <1>1, <2>1 DEF PointsMatchLocals
  <2>4. ScheduleInv' /\ Reserved' = Reserved /\ StillFollows
    BY <1>3, <2>1, SameSchedule
  <2>5. after = FirstJob(queue) /\ Priority = after /\ Priority' = after
    BY <1>1, <2>1 DEF PointsMatchLocals, Priority
  <2>6. CASE StillToTry
    <3>1. queue = <<>>
      <4>1. Len(queue) < 1 /\ Len(queue) \in Nat
        BY <2>1, <2>6, LenProperties DEF StillToTry, Types
      <4>2. Len(queue) = 0 /\ queue \in Seq(Entries(Jobs))
        BY <4>1 DEF Types
      <4>. QED  BY <4>2, EmptySeq
    <3>2. Reserved = {}
      BY <1>4, <2>5, <3>1 DEF OnlyPriorityIsReserved, Reserved
    <3>. QED
      BY <1>2, <1>4, <2>1, <2>2, <2>3, <2>4, <2>5, <3>1, <3>2, InvParts
         DEF Bookkeeping, OnlyPriorityIsReserved, ReservationFollows
  <2>7. CASE ~StillToTry
    <3>1. /\ Reserved \subseteq {after} /\ after \in Reserved \cup {NullJob}
          /\ \A j \in Reserved : FollowsAnother(j)
      BY <2>1, <2>5, <2>7 DEF OnlyPriorityIsReserved, ReservationFollows, TraversalAhead
    <3>2. OnlyPriorityIsReserved' /\ ReservationFollows'
      BY <2>1, <2>4, <2>5, <3>1
         DEF OnlyPriorityIsReserved, ReservationFollows, StillFollows
    <3>. QED  BY <1>2, <2>2, <2>3, <2>4, <3>2, InvParts DEF Bookkeeping
  <2>. QED  BY <2>6, <2>7
<1>. QED  BY <1>5, <1>6, <1>7, <1>8, <1>9

\* A job that is refused has never been in the queue or in the schedule.
LEMMA RejectKeepsInv ==
  ASSUME Inv, RejectReleased
  PROVE  Inv'
<1>. USE DEF Inv
<1>1. PICK j : j = Head(released)
  OBVIOUS
<1>2. /\ pc = "released" /\ released # <<>>
      /\ status' = [status EXCEPT ![j] = "rejected"]
      /\ released' = Tail(released)
      /\ UNCHANGED <<pc, now, placed, deadline, res, walltime, hasWalltime, ended,
                     order, profile, queue, before, after, recent, jobEnded,
                     nbAvailable, cursor>>
  BY <1>1 DEF RejectReleased, RejectJob, schedVars, localVars, jobVars
<1>3. /\ Tail(released) \in Seq(Jobs) /\ j \in Jobs /\ j \in ToSet(released)
      /\ IsInjective(Tail(released))
      /\ ToSet(Tail(released)) = ToSet(released) \ {j}
  BY <1>1, <1>2, TailOfInjective DEF Types, QueuesMatchStatus
<1>4. /\ \A k \in Waiting \cup ToSet(released) : status[k] = "waiting"
      /\ \A k \in ToSet(ended) : status[k] = "done" /\ k \in Jobs
      /\ NullJob \notin Jobs
  BY JobsByStatus
<1>5. /\ \A k \in Jobs : k # j => status'[k] = status[k]
      /\ status[j] = "waiting" /\ status'[j] = "rejected"
      /\ j \notin ToSet(ended) /\ j \notin Waiting /\ Waiting' = Waiting
  BY <1>2, <1>3, <1>4 DEF Types, QueuesMatchStatus, Waiting
<1>6. Types'
  <2>1. status' \in [Jobs -> Status]
    BY <1>2 DEF Types, Status
  <2>. QED  BY <1>2, <1>3, <2>1 DEF Types
<1>7. JobsAreSound'
  BY <1>2, <1>5 DEF JobsAreSound, IsValid
<1>8. QueuesMatchStatus'
  <2>1. {k \in Jobs : status'[k] = "waiting"}
          = {k \in Jobs : status[k] = "waiting"} \ {j}
    BY <1>5
  <2>2. \A k \in ToSet(ended) : status'[k] = "done"
    BY <1>4, <1>5
  <2>. QED  BY <1>2, <1>3, <1>5, <2>1, <2>2 DEF QueuesMatchStatus
<1>9. PointsMatchLocals'
  BY <1>2, <1>5 DEF PointsMatchLocals
<1>10. ~ContainsJob(profile, j)
  <2>1. j \notin Reserved
    <3>1. before \in Waiting \cup {NullJob} /\ Reserved \subseteq {before}
      BY <1>2 DEF PointsMatchLocals, OnlyPriorityIsReserved, Priority
    <3>. QED  BY <1>3, <1>4, <1>5, <3>1
  <2>. QED  BY <1>3, <1>5, <2>1 DEF ProfileMatchesJobs
<1>11. SamePurpose /\ SaysTheSame
  BY <1>2, <1>5, <1>10, SameProfile DEF SamePurpose, jobVars
<1>12. ScheduleInv' /\ Reserved' = Reserved /\ StillFollows
  BY <1>2, <1>11, SameSchedule
<1>13. OnlyPriorityIsReserved' /\ ReservationFollows'
  BY <1>2, <1>12, PriorityKept DEF Priority, TraversalAhead, StillToTry
<1>. QED
  BY <1>6, <1>7, <1>8, <1>9, <1>12, <1>13, InvParts DEF Bookkeeping

\* A job that is queued has no reservation yet, and takes nobody's place before the
\* queue is sorted.
LEMMA QueueKeepsInv ==
  ASSUME Inv, QueueReleased
  PROVE  Inv'
<1>. USE DEF Inv
<1>1. PICK j : j = Head(released)
  OBVIOUS
<1>2. /\ pc = "released" /\ released # <<>> /\ IsValid(j)
      /\ queue' = AppendJobs(queue, <<j>>, now)
      /\ recent' = Append(recent, j)
      /\ released' = Tail(released)
      /\ UNCHANGED <<pc, now, status, placed, deadline, res, walltime,
                     hasWalltime, ended, order, profile, before, after, jobEnded,
                     nbAvailable, cursor>>
  BY <1>1 DEF QueueReleased, worldVars, jobVars
<1>3. /\ Tail(released) \in Seq(Jobs) /\ j \in Jobs /\ j \in ToSet(released)
      /\ IsInjective(Tail(released))
      /\ ToSet(Tail(released)) = ToSet(released) \ {j}
  BY <1>1, <1>2, TailOfInjective DEF Types, QueuesMatchStatus
<1>4. j \notin Waiting
  BY <1>3 DEF QueuesMatchStatus
<1>5. queue' \in Seq(Entries(Jobs)) /\ OnePerJob(queue') /\ Waiting' = Waiting \cup {j}
  <2>1. queue \in Seq(Entries(Jobs)) /\ OnePerJob(queue) /\ now \in Int
        /\ j \notin JobsOf(queue)
    BY <1>4 DEF Types, QueuesMatchStatus, Waiting
  <2>2. queue' \in Seq(Entries(Jobs)) /\ OnePerJob(queue')
        /\ JobsOf(queue') = JobsOf(queue) \cup {j}
    BY <1>2, <1>3, <2>1, Enqueued
  <2>. QED  BY <2>2 DEF Waiting
<1>6. Types'
  <2>1. recent' \in Seq(Jobs)
    BY <1>2, <1>3 DEF Types
  <2>. QED  BY <1>2, <1>3, <1>5, <2>1 DEF Types
<1>7. JobsAreSound'
  BY <1>2, <1>5 DEF JobsAreSound, IsValid
<1>8. QueuesMatchStatus'
  BY <1>2, <1>3, <1>4, <1>5 DEF QueuesMatchStatus
<1>9. PointsMatchLocals'
  BY <1>2, <1>5 DEF PointsMatchLocals
<1>10. SamePurpose /\ SaysTheSame
  BY <1>2, SameProfile DEF SamePurpose, jobVars
<1>11. ScheduleInv' /\ Reserved' = Reserved /\ StillFollows
  BY <1>2, <1>10, SameSchedule
<1>12. OnlyPriorityIsReserved' /\ ReservationFollows'
  BY <1>2, <1>11, PriorityKept DEF Priority, TraversalAhead, StillToTry
<1>. QED
  BY <1>6, <1>7, <1>8, <1>9, <1>11, <1>12, InvParts DEF Bookkeeping


-------------------------------------------------------------------------------
(* Jobs that leave the schedule.                                           *)

\* A job that has ended leaves the schedule, and its machines are free.
LEMMA RemoveEndedKeepsInv ==
  ASSUME Inv, RemoveEnded
  PROVE  Inv'
<1>. USE DEF Inv
<1>1. PICK j : j = Head(ended)
  OBVIOUS
<1>2. /\ pc = "ended" /\ ended # <<>>
      /\ profile' = RemoveJob(profile, j, res[j])
      /\ ended' = Tail(ended)
      /\ UNCHANGED <<pc, now, status, placed, deadline, res, walltime,
                     hasWalltime, released, order, queue, before, after, recent,
                     jobEnded, nbAvailable, cursor>>
  BY <1>1 DEF RemoveEnded, worldVars, jobVars, localVars
<1>3. /\ Tail(ended) \in Seq(Jobs) /\ j \in Jobs /\ j \in ToSet(ended)
      /\ IsInjective(Tail(ended))
      /\ ToSet(Tail(ended)) = ToSet(ended) \ {j}
  BY <1>1, <1>2, TailOfInjective DEF Types, QueuesMatchStatus
<1>4. \A k \in ToSet(ended) : status[k] = "done" /\ k \in Jobs
  BY JobsByStatus
<1>5. status[j] = "done" /\ j \notin Reserved /\ ContainsJob(profile, j)
  BY <1>3, <1>4 DEF ProfileMatchesJobs, Reserved
<1>6. /\ IsSound(profile, Jobs, Machines, res) /\ IsFiniteSet(Machines)
      /\ IsSound(profile', Jobs, Machines, res) /\ IsRemoved(profile', profile, j)
  BY <1>2, <1>3, <1>5, RemoveSound, JobsOfProfile
<1>7. /\ ~ContainsJob(profile', j)
      /\ \A k : k # j =>
           /\ ContainsJob(profile, k) <=> ContainsJob(profile', k)
           /\ ContainsJob(profile, k)
                => Allocation(profile', k) = Allocation(profile, k)
      /\ profile'[1].begin = profile[1].begin
  BY <1>6 DEF IsRemoved, SameAllocation
<1>8. Types' /\ JobsAreSound' /\ Waiting' = Waiting
  BY <1>2, <1>3 DEF Types, JobsAreSound, IsValid, Waiting
<1>9. QueuesMatchStatus'
  BY <1>2, <1>3, <1>8 DEF QueuesMatchStatus
<1>10. PointsMatchLocals' /\ jobEnded
  BY <1>2 DEF PointsMatchLocals
<1>11. Reserved' = Reserved
  BY <1>2, <1>5, <1>7 DEF Reserved
<1>12. ProfileMatchesJobs'
  <2>1. \A k \in Jobs : ContainsJob(profile', k) <=>
          status[k] = "running" \/ k \in ToSet(ended') \/ k \in Reserved
    BY <1>2, <1>3, <1>5, <1>7 DEF ProfileMatchesJobs
  <2>. QED  BY <1>2, <1>6, <1>7, <1>11, <2>1 DEF ProfileMatchesJobs
<1>13. RunningArePresent'
  <2>1. \A k \in Jobs : status[k] = "running" =>
          Allocation(profile', k) = Allocation(profile, k)
    BY <1>5, <1>7 DEF ProfileMatchesJobs
  <2>2. \A k \in ToSet(ended') : /\ k \in ToSet(ended)
                                 /\ Allocation(profile', k) = Allocation(profile, k)
    BY <1>2, <1>3, <1>4, <1>7 DEF ProfileMatchesJobs
  <2>. QED  BY <1>2, <2>1, <2>2 DEF RunningArePresent
<1>14. ReservationAhead'
  <2>1. \A k \in Reserved : Allocation(profile', k) = Allocation(profile, k)
    BY <1>5, <1>7 DEF Reserved
  <2>. QED  BY <1>2, <1>11, <2>1 DEF ReservationAhead
<1>15. HorizonIsAhead'
  <2>1. Started' = Started
    BY <1>2 DEF Started
  <2>2. \A W \in Nat : IsHorizon(W) => IsHorizon(W)'
    BY <1>2, <1>7, <1>11, <2>1 DEF IsHorizon, BoundsWalltimes
  <2>. QED  BY <2>2 DEF HorizonIsAhead
<1>16. TraversalAhead'
  <2>1. Allocation(profile, j).present
    BY <1>3 DEF RunningArePresent
  <2>2. PICK X : X = Allocation(profile, j).machines
    OBVIOUS
  <2>3. /\ X \in SUBSET Machines /\ Cardinality(X) = res[j]
        /\ j \in DOMAIN profile[1].jobs /\ profile[1].jobs[j] = X
    <3>1. \A k \in Jobs : ContainsJob(profile, k) /\ Allocation(profile, k).present =>
            /\ Allocation(profile, k).machines \in SUBSET Machines
            /\ Cardinality(Allocation(profile, k).machines) = res[k]
            /\ k \in DOMAIN profile[1].jobs
            /\ profile[1].jobs[k] = Allocation(profile, k).machines
      BY <1>6, AllocationFacts
    <3>. QED  BY <1>3, <1>5, <2>1, <2>2, <3>1
  <2>4. X # {}
    <3>1. res[j] # 0
      BY <1>3, <1>5 DEF JobsAreSound
    <3>. QED  BY <2>3, <3>1, FS_EmptySet
  <2>5. PICK m \in X : TRUE
    BY <2>4
  <2>6. GivenOnce(profile[1])
    <3>1. 1 \in 1 .. Len(profile) /\ \A x \in 1 .. Len(profile) : IsShared(profile[x], Machines, res)
      BY <1>6, LenProperties DEF IsSound, IsPartition
    <3>. QED  BY <3>1 DEF IsShared
  <2>7. ASSUME NEW k \in Jobs, ContainsJob(profile', k), Allocation(profile', k).present
        PROVE  m \notin Allocation(profile', k).machines
    <3>1. k # j /\ ContainsJob(profile, k)
          /\ Allocation(profile', k) = Allocation(profile, k)
      BY <1>7, <2>7
    <3>2. /\ k \in DOMAIN profile[1].jobs
          /\ profile[1].jobs[k] = Allocation(profile, k).machines
      <4>1. \A h \in Jobs : ContainsJob(profile, h) /\ Allocation(profile, h).present =>
              /\ h \in DOMAIN profile[1].jobs
              /\ profile[1].jobs[h] = Allocation(profile, h).machines
        BY <1>6, AllocationFacts
      <4>. QED  BY <2>7, <3>1, <4>1
    <3>. QED  BY <2>3, <2>6, <3>1, <3>2 DEF GivenOnce
  <2>8. m \in profile'[1].available
    BY <1>6, <2>3, <2>7, FreeAtPresent
  <2>. QED  BY <1>2, <1>10, <2>8 DEF TraversalAhead
<1>17. OnlyPriorityIsReserved'
  BY <1>2, <1>11 DEF OnlyPriorityIsReserved, Priority, StillToTry
<1>18. ReservationFollows'
  BY <1>16 DEF ReservationFollows
<1>. QED
  BY <1>8, <1>9, <1>10, <1>12, <1>13, <1>14, <1>15, <1>17, <1>18, InvParts
     DEF Bookkeeping, ScheduleInv

\* What update_first_slice asserts: the first slice has not ended yet, as where
\* it ends a running job ends or the reservation begins.
LEMMA PresentIsFirst ==
  ASSUME Inv, ended = <<>>
  PROVE  profile[1].begin <= now /\ now <= profile[1].end
<1>. USE DEF Inv
<1>1. /\ IsSound(profile, Jobs, Machines, res) /\ IsFiniteSet(Machines)
      /\ profile[1].begin <= now /\ profile[1].end \in Int /\ now \in Int
      /\ RjmsDelay \in Nat
  BY LastBegin, JobsOfProfile, PlatformAssumption
<1>2. CASE profile[1].end = Infinity
  <2>1. PICK W \in Nat : IsHorizon(W)
    BY DEF HorizonIsAhead
  <2>2. PICK H : H = TimeOf(Cardinality(Started), W)
    OBVIOUS
  <2>3. H < Infinity /\ H \in Nat /\ Infinity \in Nat /\ now <= H
    BY <2>1, <2>2, HorizonIsTime, TimeBeforeInfinity DEF IsHorizon
  <2>4. now <= Infinity
    BY <1>1, <2>3
  <2>. QED  BY <1>1, <1>2, <2>4
<1>3. CASE profile[1].end # Infinity
  <2>1. PICK k \in Jobs :
          /\ ContainsJob(profile, k)
          /\ \/ /\ Allocation(profile, k).present
                /\ Allocation(profile, k).end = profile[1].end
             \/ /\ ~Allocation(profile, k).present
                /\ Allocation(profile, k).begin = profile[1].end
    BY <1>1, <1>3, FirstSliceEnds
  <2>2. ToSet(ended) = {}
    BY DEF ToSet
  <2>3. CASE status[k] = "running"
    <3>1. /\ Allocation(profile, k).present
          /\ Allocation(profile, k).end >= deadline[k] + RjmsDelay
          /\ now <= deadline[k]
      BY <2>3 DEF RunningArePresent
    <3>2. deadline[k] \in Int
      BY DEF Types
    <3>3. profile[1].end >= deadline[k] + RjmsDelay
      BY <2>1, <3>1
    <3>. QED  BY <1>1, <3>1, <3>2, <3>3
  <2>4. CASE k \in Reserved
    <3>1. /\ ~Allocation(profile, k).present
          /\ now <= Allocation(profile, k).begin
      BY <2>4 DEF ReservationAhead
    <3>. QED  BY <1>1, <2>1, <3>1
  <2>. QED  BY <2>1, <2>2, <2>3, <2>4 DEF ProfileMatchesJobs
<1>. QED  BY <1>2, <1>3

\* Another job is first in the queue.
PriorityChanged == FirstJob(SortedQueue) # before

\* What update_first_slice and the removal of the former priority job make of the
\* schedule: it begins now, and is the same from now on but for the reservation.
IsUpToDate ==
  /\ IsSound(profile', Jobs, Machines, res)
  /\ profile'[1].begin = now
  /\ \A k \in Jobs : ContainsJob(profile', k) <=>
       ContainsJob(profile, k) /\ ~(PriorityChanged /\ k = before)
  /\ \A k \in Jobs : ContainsJob(profile', k) =>
       /\ Allocation(profile', k).end = Allocation(profile, k).end
       /\ Allocation(profile', k).machines = Allocation(profile, k).machines
       /\ Allocation(profile', k).present = Allocation(profile, k).present
       /\ ~Allocation(profile, k).present =>
            Allocation(profile', k).begin = Allocation(profile, k).begin
  /\ ~PriorityChanged => profile'[1].available = profile[1].available

\* This is what they make of it.
LEMMA ScheduleUpToDate ==
  ASSUME Inv, UpdatePresent
  PROVE  IsUpToDate
<1>. USE DEF Inv
<1>1. PICK q : q = UpdateFirstSlice(profile, now)
  OBVIOUS
<1>2. /\ pc = "released" /\ ended = <<>>
      /\ profile' = IF PriorityChanged THEN WithoutFormer(q) ELSE q
  BY <1>1 DEF UpdatePresent, PriorityChanged, PointsMatchLocals
<1>3. IsSound(q, Jobs, Machines, res) /\ IsUpdated(q, profile, now)
  <2>1. now \in Int /\ now <= profile[1].end
    BY <1>2, PresentIsFirst DEF Types
  <2>. QED  BY <1>1, <2>1, UpdateSound DEF ProfileMatchesJobs
<1>4. /\ q[1].begin = now
      /\ \A k : ContainsJob(profile, k) <=> ContainsJob(q, k)
      /\ \A k : ContainsJob(profile, k) =>
           /\ Allocation(q, k).end = Allocation(profile, k).end
           /\ Allocation(q, k).machines = Allocation(profile, k).machines
           /\ Allocation(q, k).present = Allocation(profile, k).present
           /\ ~Allocation(profile, k).present
                => Allocation(q, k).begin = Allocation(profile, k).begin
  BY <1>3 DEF IsUpdated
<1>5. q[1].available = profile[1].available
  <2>1. 1 \in DOMAIN profile /\ profile \in Seq(SlicesOver(Jobs, Machines))
    BY LenProperties DEF ProfileMatchesJobs, IsSound, IsPartition
  <2>2. q[1] = [profile[1] EXCEPT !.begin = now]
    BY <1>1, <2>1 DEF UpdateFirstSlice
  <2>3. profile[1] \in SlicesOver(Jobs, Machines)
    BY <2>1, LenProperties, ElementOfSeq
  <2>. QED  BY <2>2, <2>3 DEF SlicesOver
<1>6. CASE PriorityChanged /\ before # NullJob /\ ContainsJob(q, before)
  <2>1. before \in Jobs
    BY <1>6 DEF Types
  <2>2. profile' = RemoveJob(q, before, res[before])
    BY <1>2, <1>6 DEF WithoutFormer, RemoveJobIfExists
  <2>3. IsSound(profile', Jobs, Machines, res) /\ IsRemoved(profile', q, before)
    BY <1>3, <1>6, <2>1, <2>2, RemoveSound, JobsOfProfile
  <2>4. /\ ~ContainsJob(profile', before) /\ profile'[1].begin = q[1].begin
        /\ \A k \in Jobs : k # before =>
             /\ ContainsJob(q, k) <=> ContainsJob(profile', k)
             /\ ContainsJob(q, k) => Allocation(profile', k) = Allocation(q, k)
    BY <2>3 DEF IsRemoved, SameAllocation
  <2>. QED  BY <1>4, <1>6, <2>3, <2>4 DEF IsUpToDate
<1>7. CASE ~(PriorityChanged /\ before # NullJob /\ ContainsJob(q, before))
  <2>1. profile' = q
    BY <1>2, <1>7 DEF WithoutFormer, RemoveJobIfExists
  <2>2. \A k \in Jobs : ContainsJob(profile', k) <=>
          ContainsJob(profile, k) /\ ~(PriorityChanged /\ k = before)
    <3>1. NullJob \notin Jobs
      BY JobsByStatus
    <3>. QED  BY <1>4, <1>7, <2>1, <3>1
  <2>. QED  BY <1>3, <1>4, <1>5, <2>1, <2>2 DEF IsUpToDate
<1>. QED  BY <1>6, <1>7

\* The first slice begins at present and the queue is sorted; a new priority job
\* is to be given the reservation.
LEMMA UpdateKeepsInv ==
  ASSUME Inv, UpdatePresent
  PROVE  Inv'
<1>. USE DEF Inv
<1>1. /\ pc = "released" /\ released = <<>> /\ ended = <<>>
      /\ queue' = SortedQueue /\ after' = FirstJob(SortedQueue)
      /\ pc' = IF PriorityChanged /\ SortedQueue # <<>> THEN "priority" ELSE "sorted"
      /\ UNCHANGED <<now, status, placed, deadline, res, walltime, hasWalltime,
                     ended, released, order, before, recent, jobEnded, nbAvailable,
                     cursor>>
  BY DEF UpdatePresent, PriorityChanged, worldVars, jobVars, PointsMatchLocals
<1>2. /\ SortedQueue \in Seq(Entries(Jobs)) /\ OnePerJob(SortedQueue)
      /\ JobsOf(SortedQueue) = Waiting
  BY Sorted
<1>3. /\ FirstJob(SortedQueue) \in Jobs \cup {NullJob} /\ NullJob \notin Jobs
      /\ SortedQueue = <<>> => FirstJob(SortedQueue) = NullJob /\ Waiting = {}
      /\ SortedQueue # <<>> => FirstJob(SortedQueue) \in Waiting
      /\ Waiting \subseteq Jobs
  BY <1>2, FirstOfQueue
<1>4. Waiting' = Waiting
  BY <1>1, <1>2 DEF Waiting
<1>5. /\ IsSound(profile', Jobs, Machines, res)
      /\ profile'[1].begin = now
      /\ \A k \in Jobs : ContainsJob(profile', k) <=>
           ContainsJob(profile, k) /\ ~(PriorityChanged /\ k = before)
      /\ \A k \in Jobs : ContainsJob(profile', k) =>
           /\ Allocation(profile', k).end = Allocation(profile, k).end
           /\ Allocation(profile', k).machines = Allocation(profile, k).machines
           /\ Allocation(profile', k).present = Allocation(profile, k).present
           /\ ~Allocation(profile, k).present =>
                Allocation(profile', k).begin = Allocation(profile, k).begin
      /\ ~PriorityChanged => profile'[1].available = profile[1].available
  BY ScheduleUpToDate DEF IsUpToDate
<1>6. Types'
  BY <1>1, <1>2, <1>3 DEF Types, ProgramPoints
<1>7. JobsAreSound' /\ QueuesMatchStatus'
  BY <1>1, <1>2, <1>4 DEF JobsAreSound, IsValid, QueuesMatchStatus
<1>8. PointsMatchLocals'
  BY <1>1, <1>3 DEF PointsMatchLocals
<1>9. /\ before \in Waiting \cup {NullJob}
      /\ Reserved \subseteq {before} /\ before \in Reserved \cup {NullJob}
  BY <1>1 DEF PointsMatchLocals, OnlyPriorityIsReserved, Priority, StillToTry
<1>10. /\ PriorityChanged => Reserved' = {}
       /\ ~PriorityChanged => Reserved' = Reserved
       /\ Reserved' \subseteq Reserved
  <2>1. \A k \in Jobs : k \in Reserved' <=> k \in Reserved /\ ~(PriorityChanged /\ k = before)
    BY <1>1, <1>5 DEF Reserved
  <2>2. Reserved \subseteq Jobs /\ Reserved' \subseteq Jobs
    BY DEF Reserved
  <2>. QED  BY <1>9, <2>1, <2>2
<1>11. \A k \in Jobs : status[k] = "running" => ContainsJob(profile', k)
  <2>1. before # NullJob => status[before] = "waiting"
    BY <1>9, JobsByStatus
  <2>. QED  BY <1>3, <1>5, <2>1 DEF ProfileMatchesJobs
<1>12. ProfileMatchesJobs'
  <2>1. ToSet(ended) = {}
    BY <1>1 DEF ToSet
  <2>2. \A k \in Jobs : ContainsJob(profile', k) <=>
          status[k] = "running" \/ k \in ToSet(ended) \/ k \in Reserved'
    <3>1. \A k \in Jobs : ContainsJob(profile', k) => status[k] = "running" \/ k \in Reserved'
      BY <1>1, <1>5, <2>1 DEF ProfileMatchesJobs, Reserved
    <3>2. \A k \in Reserved' : ContainsJob(profile', k)
      BY DEF Reserved
    <3>. QED  BY <1>11, <2>1, <3>1, <3>2
  <2>3. now <= now
    BY DEF Types
  <2>. QED  BY <1>1, <1>5, <2>2, <2>3 DEF ProfileMatchesJobs
<1>13. RunningArePresent'
  <2>1. ToSet(ended) = {}
    BY <1>1 DEF ToSet
  <2>. QED  BY <1>1, <1>5, <1>11, <2>1 DEF RunningArePresent
<1>14. \A k \in Reserved' : /\ k \in Jobs /\ ContainsJob(profile', k) /\ k \in Reserved
                            /\ ~Allocation(profile, k).present
                            /\ Allocation(profile', k).begin
                                 = Allocation(profile, k).begin
  <2>1. \A k \in Reserved' : k \in Jobs /\ ContainsJob(profile', k) /\ k \in Reserved
    BY <1>10 DEF Reserved
  <2>. QED  BY <1>5, <2>1 DEF ReservationAhead
<1>15. ReservationAhead'
  BY <1>1, <1>5, <1>14 DEF ReservationAhead
<1>16. HorizonIsAhead'
  <2>1. Started' = Started
    BY <1>1 DEF Started
  <2>2. \A k \in Jobs : ContainsJob(profile', k) =>
          /\ ContainsJob(profile, k)
          /\ Allocation(profile', k).end = Allocation(profile, k).end
          /\ k \in Reserved' <=> k \in Reserved
    BY <1>1, <1>5 DEF Reserved
  <2>3. \A W \in Nat : IsHorizon(W) => IsHorizon(W)'
    BY <1>1, <2>1, <2>2 DEF IsHorizon, BoundsWalltimes
  <2>. QED  BY <2>3 DEF HorizonIsAhead
<1>17. OnlyPriorityIsReserved'
  <2>1. CASE PriorityChanged
    BY <1>1, <1>3, <1>10, <2>1 DEF OnlyPriorityIsReserved, Priority
  <2>2. CASE ~PriorityChanged
    <3>1. after' = before /\ pc' = "sorted"
      BY <1>1, <2>2 DEF PriorityChanged
    <3>. QED  BY <1>9, <1>10, <2>2, <3>1 DEF OnlyPriorityIsReserved, Priority
  <2>. QED  BY <2>1, <2>2
<1>18. ReservationFollows'
  <2>. SUFFICES ASSUME NEW j \in Reserved'
                PROVE  FollowsAnother(j)' \/ TraversalAhead'
    BY DEF ReservationFollows
  <2>1. ~PriorityChanged /\ j \in Reserved
    BY <1>10
  <2>2. CASE TraversalAhead
    BY <1>1, <1>5, <2>1, <2>2 DEF TraversalAhead
  <2>3. CASE FollowsAnother(j)
    <3>1. PICK k \in Jobs :
            k # j /\ EndsBefore(profile, k, Allocation(profile, j).begin)
      BY <2>3 DEF FollowsAnother
    <3>2. Allocation(profile', j).begin = Allocation(profile, j).begin
      BY <1>14
    <3>3. EndsBefore(profile', k, Allocation(profile, j).begin)
      BY <1>5, <2>1, <3>1 DEF EndsBefore
    <3>. QED  BY <3>1, <3>2, <3>3 DEF FollowsAnother
  <2>. QED  BY <1>1, <2>1, <2>2, <2>3 DEF ReservationFollows, StillToTry
<1>. QED
  BY <1>6, <1>7, <1>8, <1>12, <1>13, <1>15, <1>16, <1>17, <1>18, InvParts
     DEF Bookkeeping, ScheduleInv


-------------------------------------------------------------------------------
(* Jobs that are placed.                                                   *)

\* The schedule, without the job that is to be placed.
Without(j) == RemoveJobIfExists(profile, j, res[j])

\* Everything that is planned has an end that the horizon knows of; a reservation
\* is one job more than those that have started.
LEMMA LastIsWithin ==
  ASSUME Inv, NEW W \in Nat, IsHorizon(W)
  PROVE  profile[Len(profile)].begin <=
           TimeOf(Cardinality(Started) + (IF Reserved = {} THEN 0 ELSE 1), W)
<1>. USE DEF Inv
<1>1. PICK C, last : C = Cardinality(Started) /\ last = profile[Len(profile)].begin
  OBVIOUS
<1>2. PICK x, y : x = TimeOf(C, W) /\ y = TimeOf(C + 1, W)
  OBVIOUS
<1>3. /\ C \in Nat /\ C + 0 = C /\ x \in Nat /\ y = x + W /\ now <= x
  BY <1>1, <1>2, HorizonIsTime DEF IsHorizon
<1>4. /\ IsSound(profile, Jobs, Machines, res) /\ last \in Int /\ now \in Int
      /\ profile[1].begin \in Int /\ profile[1].begin <= now /\ IsFiniteSet(Machines)
  BY <1>1, JobsOfProfile, LastBegin
<1>5. CASE Len(profile) = 1
  BY <1>1, <1>2, <1>3, <1>4, <1>5
<1>6. CASE Len(profile) # 1
  <2>1. PICK k \in Jobs : ContainsJob(profile, k) /\ Allocation(profile, k).end = last
    BY <1>1, <1>4, <1>6, LastAllocation
  <2>2. last <= TimeOf(C + (IF k \in Reserved THEN 1 ELSE 0), W)
    BY <1>1, <2>1 DEF IsHorizon
  <2>3. CASE k \in Reserved
    BY <1>1, <2>2, <2>3
  <2>4. CASE k \notin Reserved
    BY <1>1, <1>2, <1>3, <1>4, <2>2, <2>4
  <2>. QED  BY <2>3, <2>4
<1>. QED  BY <1>5, <1>6

\* There is room behind everything that is planned.
LEMMA RoomForJob ==
  ASSUME Inv, NEW j \in Waiting, ~ContainsJob(profile, j)
  PROVE  /\ profile[Len(profile)].begin + walltime[j] < Infinity
         /\ \A W \in Nat : IsHorizon(W) /\ Reserved = {} =>
              profile[Len(profile)].begin + walltime[j]
                <= TimeOf(Cardinality(Started) + 1, W)
<1>. USE DEF Inv
<1>1. /\ j \in Jobs /\ status[j] = "waiting" /\ j \notin Started /\ j \notin Reserved
      /\ Started \in SUBSET Jobs
  BY JobsByStatus DEF Started, Reserved
<1>2. IsValid(j)
  BY <1>1 DEF JobsAreSound
<1>3. walltime[j] \in Nat \ {0} /\ hasWalltime[j]
  BY <1>1, <1>2, AcceptedJob
<1>4. PICK C, last, w : /\ C = Cardinality(Started) /\ w = walltime[j]
                        /\ last = profile[Len(profile)].begin
  OBVIOUS
<1>5. last \in Int
  BY <1>4, LastBegin, JobsOfProfile
<1>6. /\ C \in Nat /\ Started \cup {j} \in SUBSET Jobs
      /\ Cardinality(Started \cup {j}) = C + 1
      /\ C + 1 \in 0 .. NbJobs /\ C + 1 \in Nat
  <2>1. C \in Nat /\ Cardinality(Started \cup {j}) = C + 1
    BY <1>1, <1>4, JobsCounted
  <2>2. Started \cup {j} \in SUBSET Jobs
    BY <1>1
  <2>. QED  BY <2>1, <2>2, JobsCounted
<1>7. ASSUME NEW W \in Nat, IsHorizon(W)
      PROVE  /\ w <= W /\ TimeOf(C + 1, W) \in Nat
             /\ TimeOf(C, W) \in Nat /\ TimeOf(C + 1, W) = TimeOf(C, W) + W
             /\ TimeOf(C + 1, W) < Infinity /\ Infinity \in Nat
             /\ last <= TimeOf(C + (IF Reserved = {} THEN 0 ELSE 1), W)
  <2>1. BoundsWalltimes(W) /\ W <= W
    BY <1>7 DEF IsHorizon
  <2>2. w <= W
    BY <1>1, <1>3, <1>4, <2>1 DEF BoundsWalltimes
  <2>3. TimeOf(C + 1, W) \in Nat /\ TimeOf(C, W) \in Nat
        /\ TimeOf(C + 1, W) = TimeOf(C, W) + W
    BY <1>6, <2>1, TimeGrows
  <2>4. TimeOf(C + 1, W) < Infinity /\ Infinity \in Nat
    BY <1>6, <2>1, TimeBeforeInfinity
  <2>5. last <= TimeOf(C + (IF Reserved = {} THEN 0 ELSE 1), W)
    BY <1>4, <1>7, LastIsWithin
  <2>. QED  BY <2>2, <2>3, <2>4, <2>5
<1>8. ASSUME NEW W \in Nat, IsHorizon(W), Reserved = {}
      PROVE  last + w <= TimeOf(C + 1, W)
  <2>1. C + 0 = C /\ w \in Nat
    BY <1>3, <1>4, <1>6
  <2>2. last <= TimeOf(C, W)
    BY <1>7, <1>8, <2>1
  <2>. QED  BY <1>5, <1>7, <1>8, <2>1, <2>2
<1>9. last + w < Infinity
  <2>1. PICK W \in Nat : IsHorizon(W)
    BY DEF HorizonIsAhead
  <2>2. CASE Reserved = {}
    <3>1. last + w <= TimeOf(C + 1, W)
      BY <1>8, <2>1, <2>2
    <3>. QED  BY <1>3, <1>4, <1>5, <1>7, <2>1, <3>1
  <2>3. CASE Reserved # {}
    <3>1. PICK k \in Reserved : TRUE
      BY <2>3
    <3>2. k \in Jobs /\ k # j /\ k \notin Started
      BY <1>1 DEF Reserved, Started
    <3>3. C + 1 + 1 \in 0 .. NbJobs
      <4>1. k \in Jobs \ (Started \cup {j})
        BY <3>2
      <4>2. Cardinality((Started \cup {j}) \cup {k}) = C + 1 + 1
        BY <1>6, <4>1, JobsCounted
      <4>3. (Started \cup {j}) \cup {k} \in SUBSET Jobs
        BY <1>6, <3>2
      <4>. QED  BY <4>2, <4>3, JobsCounted
    <3>4. PICK x, y : x = TimeOf(C + 1, W) /\ y = TimeOf(C + 1 + 1, W)
      OBVIOUS
    <3>5. y < Infinity /\ Infinity \in Nat
      BY <2>1, <3>3, <3>4, TimeBeforeInfinity DEF IsHorizon
    <3>6. y = x + W /\ x \in Nat
      <4>1. W <= W
        OBVIOUS
      <4>. QED  BY <1>6, <3>4, <4>1, TimeGrows
    <3>7. last <= x /\ w <= W
      BY <1>7, <2>1, <2>3, <3>4
    <3>. QED  BY <1>3, <1>4, <1>5, <3>5, <3>6, <3>7
  <2>. QED  BY <2>2, <2>3
<1>. QED  BY <1>4, <1>8, <1>9

\* What it is to place job j of the queue, which makes schedule q: no other job is
\* affected, the job is not placed later than it was, nor behind the horizon if the
\* reservation is for it.
IsPlaced(q, j) ==
  /\ IsSound(q, Jobs, Machines, res)
  /\ IsInserted(q, profile, Jobs, Machines, res, j, walltime[j], Alloc(Without(j), j))
  /\ ContainsJob(profile, j) =>
       Alloc(Without(j), j).begin <= Allocation(profile, j).begin
  /\ Reserved \subseteq {j} => \A W \in Nat : IsHorizon(W) =>
       Alloc(Without(j), j).begin + walltime[j] <= TimeOf(Cardinality(Started) + 1, W)

\* A place is found for every job of the queue.
LEMMA QueuedIsPlaced ==
  ASSUME Inv, NEW j \in Waiting, NEW q, q = Insert(Without(j), j)
  PROVE  IsPlaced(q, j)
<1>. USE DEF Inv
<1>1. j \in Jobs /\ status[j] = "waiting" /\ j \notin ToSet(ended)
  BY JobsByStatus
<1>2. IsValid(j)
  BY <1>1 DEF JobsAreSound
<1>3. /\ res[j] \in 1 .. NbMachines /\ walltime[j] \in Nat \ {0} /\ hasWalltime[j]
      /\ res[j] \in Int
  BY <1>1, <1>2, AcceptedJob
<1>4. Places(Machines, res[j]) /\ Fit(Machines, res[j]) # {}
  BY <1>3, SelectorPlaces
<1>5. IsSound(profile, Jobs, Machines, res) /\ IsFiniteSet(Machines)
  BY JobsOfProfile
<1>6. PICK alloc, w : alloc = Alloc(Without(j), j) /\ w = walltime[j]
  OBVIOUS
<1>7. CASE ContainsJob(profile, j)
  <2>1. j \in Reserved
    BY <1>1, <1>7 DEF Reserved
  <2>2. /\ Allocation(profile, j).end = Allocation(profile, j).begin + walltime[j]
        /\ CanHold(Allocation(profile, j).machines, Machines, res[j])
    BY <2>1 DEF ReservationAhead
  <2>3. PICK p : p = RemoveJob(profile, j, res[j])
    OBVIOUS
  <2>4. /\ alloc = JobAlloc(p, res[j], walltime[j])
        /\ q = AddJobFirstFit(p, j, res[j], walltime[j])
    BY <1>6, <1>7, <2>3 DEF Alloc, Insert, Without, RemoveJobIfExists
  <2>5. /\ IsSound(q, Jobs, Machines, res)
        /\ IsInserted(q, profile, Jobs, Machines, res, j, walltime[j], alloc)
        /\ alloc.begin <= Allocation(profile, j).begin
    BY <1>1, <1>3, <1>4, <1>5, <1>7, <2>2, <2>3, <2>4, Reinsertion
  <2>6. PICK d, e : d = Allocation(profile, j).begin /\ e = Allocation(profile, j).end
    OBVIOUS
  <2>7. d \in Int /\ e = d + w /\ alloc.begin \in Int /\ alloc.begin <= d
    BY <1>1, <1>5, <1>6, <1>7, <2>2, <2>5, <2>6, AllocationFacts DEF IsInserted
  <2>8. ASSUME NEW W \in Nat, IsHorizon(W)
        PROVE  alloc.begin + w <= TimeOf(Cardinality(Started) + 1, W)
    <3>1. e <= TimeOf(Cardinality(Started) + 1, W)
      BY <1>1, <1>7, <2>1, <2>6, <2>8 DEF IsHorizon
    <3>2. TimeOf(Cardinality(Started), W) + W \in Int
      BY <2>8, HorizonIsTime
    <3>3. TimeOf(Cardinality(Started) + 1, W) \in Int
      BY <2>8, <3>2, HorizonIsTime
    <3>. QED  BY <1>3, <1>6, <2>7, <3>1, <3>3
  <2>. QED  BY <1>6, <2>5, <2>8 DEF IsPlaced
<1>8. CASE ~ContainsJob(profile, j)
  <2>1. /\ profile[Len(profile)].begin + walltime[j] < Infinity
        /\ \A W \in Nat : IsHorizon(W) /\ Reserved = {} =>
             profile[Len(profile)].begin + walltime[j]
               <= TimeOf(Cardinality(Started) + 1, W)
    BY <1>8, RoomForJob
  <2>2. /\ alloc = JobAlloc(profile, res[j], walltime[j])
        /\ q = AddJobFirstFit(profile, j, res[j], walltime[j])
    BY <1>6, <1>8 DEF Alloc, Insert, Without, RemoveJobIfExists
  <2>3. /\ IsSound(q, Jobs, Machines, res)
        /\ IsInserted(q, profile, Jobs, Machines, res, j, walltime[j], alloc)
        /\ q[Len(q)].begin <= profile[Len(profile)].begin + walltime[j]
    BY <1>1, <1>3, <1>4, <1>5, <1>8, <2>1, <2>2, FirstInsertion
  <2>4. alloc.begin + w <= profile[Len(profile)].begin + w
    <3>1. /\ ContainsJob(q, j) /\ Allocation(q, j).end = alloc.begin + w
          /\ alloc.begin \in Int
      BY <1>6, <2>3 DEF IsInserted
    <3>2. Allocation(q, j).end <= q[Len(q)].begin
      BY <1>1, <1>5, <2>3, <3>1, AllocationFacts
    <3>3. q[Len(q)].begin \in Int /\ profile[Len(profile)].begin \in Int
      BY <1>5, <2>3, LastBegin
    <3>. QED  BY <1>3, <1>6, <2>3, <3>1, <3>2, <3>3
  <2>5. ASSUME Reserved \subseteq {j}, NEW W \in Nat, IsHorizon(W)
        PROVE  alloc.begin + w <= TimeOf(Cardinality(Started) + 1, W)
    <3>1. Reserved = {}
      BY <1>8, <2>5 DEF Reserved
    <3>2. profile[Len(profile)].begin + w <= TimeOf(Cardinality(Started) + 1, W)
      BY <1>6, <2>1, <2>5, <3>1
    <3>3. TimeOf(Cardinality(Started), W) + W \in Int
      BY <2>5, HorizonIsTime
    <3>4. TimeOf(Cardinality(Started) + 1, W) \in Int
      BY <2>5, <3>3, HorizonIsTime
    <3>5. profile[Len(profile)].begin \in Int /\ alloc.begin \in Int /\ w \in Int
      BY <1>3, <1>5, <1>6, <2>3, LastBegin DEF IsInserted
    <3>. QED  BY <2>4, <3>2, <3>4, <3>5
  <2>. QED  BY <1>6, <1>8, <2>3, <2>5 DEF IsPlaced
<1>. QED  BY <1>7, <1>8


\* What is known of the place of the job, put together.
LEMMA PlaceOfJob ==
  ASSUME Inv, NEW j \in Waiting, NEW q, IsPlaced(q, j),
         NEW alloc, alloc = Alloc(Without(j), j),
         NEW a, a = Allocation(q, j)
  PROVE  /\ IsSound(q, Jobs, Machines, res)
         /\ ContainsJob(q, j)
         /\ a.begin = alloc.begin /\ a.end = alloc.begin + walltime[j]
         /\ a.machines = alloc.machines
         /\ a.present <=> alloc.startedInFirstSlice
         /\ a.present \in BOOLEAN
         /\ alloc.startedInFirstSlice \in BOOLEAN
         /\ alloc.begin \in Int
         /\ alloc.machines \in SUBSET Machines
         /\ CanHold(alloc.machines, Machines, res[j])
         /\ \A k : k # j =>
              /\ ContainsJob(profile, k) <=> ContainsJob(q, k)
              /\ ContainsJob(profile, k) => Allocation(q, k) = Allocation(profile, k)
         /\ q[1].begin = profile[1].begin
         /\ profile[1].begin <= alloc.begin
         /\ alloc.startedInFirstSlice =>
              /\ alloc.begin = profile[1].begin
              /\ \A k \in Jobs :
                   k # j /\ ContainsJob(profile, k) /\ Allocation(profile, k).present
                     => alloc.machines \cap Allocation(profile, k).machines = {}
         /\ ~alloc.startedInFirstSlice =>
              \E k \in Jobs : k # j /\ EndsBefore(q, k, alloc.begin)
<1>1. /\ IsSound(q, Jobs, Machines, res)
      /\ IsInserted(q, profile, Jobs, Machines, res, j, walltime[j], alloc)
  BY DEF IsPlaced
<1>2. a = [begin |-> alloc.begin, end |-> alloc.begin + walltime[j],
           machines |-> alloc.machines, present |-> alloc.first = 1]
  BY <1>1 DEF IsInserted
<1>3. /\ a.begin = alloc.begin /\ a.end = alloc.begin + walltime[j]
      /\ a.machines = alloc.machines /\ a.present = (alloc.first = 1)
  BY <1>2
<1>4. alloc.startedInFirstSlice <=> alloc.first = 1
  BY <1>1 DEF IsInserted
<1>5. alloc.startedInFirstSlice \in BOOLEAN
  BY DEF Alloc, JobAlloc, AllocAt
<1>6. (a.present <=> alloc.startedInFirstSlice) /\ a.present \in BOOLEAN
  BY <1>3, <1>4
<1>7. \A k : k # j =>
        /\ ContainsJob(profile, k) <=> ContainsJob(q, k)
        /\ ContainsJob(profile, k) => Allocation(q, k) = Allocation(profile, k)
  BY <1>1 DEF IsInserted, SameAllocation
<1>. QED  BY <1>1, <1>3, <1>4, <1>5, <1>6, <1>7 DEF IsInserted

\* The job that is placed starts, or waits with the reservation.
Starts(j) ==
  /\ profile' = Insert(Without(j), j)
  /\ StartsNow(Without(j), j)
  /\ ExecuteJob(j, Alloc(Without(j), j).machines)
  /\ UNCHANGED <<jobVars, ended>>

Waits(j) ==
  /\ profile' = Insert(Without(j), j)
  /\ ~StartsNow(Without(j), j)
  /\ UNCHANGED <<worldVars, jobVars, ended>>
  /\ Reserved \subseteq {j}

\* Placing a job keeps what the invariant says of the schedule.
LEMMA PlacingKeepsSchedule ==
  ASSUME Inv, NEW j \in Waiting, pc \notin {"batsim", "ended", "released"},
         Starts(j) \/ Waits(j)
  PROVE  /\ ScheduleInv'
         /\ Starts(j) => Reserved' = Reserved \ {j}
         /\ Waits(j) => Reserved' = {j} /\ FollowsAnother(j)'
         /\ \A i \in Reserved \ {j} : FollowsAnother(i) => FollowsAnother(i)'
<1>. USE DEF Inv
<1>1. /\ j \in Jobs /\ status[j] = "waiting" /\ j \notin ToSet(ended)
      /\ Reserved \subseteq Jobs
      /\ ToSet(ended) \subseteq Jobs
      /\ \A k \in Reserved : status[k] = "waiting" /\ ContainsJob(profile, k)
      /\ \A k \in ToSet(ended) : status[k] = "done"
  BY JobsByStatus DEF Reserved
<1>2. PICK alloc, a : alloc = Alloc(Without(j), j) /\ a = Allocation(profile', j)
  OBVIOUS
<1>3. IsPlaced(profile', j)
  BY QueuedIsPlaced DEF Starts, Waits
<1>4. /\ IsSound(profile', Jobs, Machines, res)
      /\ ContainsJob(profile', j)
      /\ a.begin = alloc.begin /\ a.end = alloc.begin + walltime[j]
      /\ a.machines = alloc.machines
      /\ a.present <=> alloc.startedInFirstSlice
      /\ a.present \in BOOLEAN
      /\ alloc.begin \in Int
      /\ CanHold(alloc.machines, Machines, res[j])
      /\ \A k : k # j =>
           /\ ContainsJob(profile, k) <=> ContainsJob(profile', k)
           /\ ContainsJob(profile, k) => Allocation(profile', k) = Allocation(profile, k)
      /\ profile'[1].begin = profile[1].begin
      /\ profile[1].begin <= alloc.begin
      /\ alloc.startedInFirstSlice => alloc.begin = profile[1].begin
      /\ ~alloc.startedInFirstSlice =>
           \E k \in Jobs : k # j /\ EndsBefore(profile', k, alloc.begin)
  BY <1>2, <1>3, PlaceOfJob
<1>5. /\ profile[1].begin = now /\ now \in Int /\ RjmsDelay \in Nat
      /\ walltime[j] \in Nat \ {0} /\ walltime[j] - RjmsDelay \in Nat
      /\ hasWalltime[j]
  <2>1. IsValid(j)
    BY <1>1 DEF JobsAreSound
  <2>. QED
    BY <1>1, <2>1, AcceptedJob, PlatformAssumption DEF ProfileMatchesJobs, Types
<1>6. /\ Starts(j) => alloc.startedInFirstSlice
      /\ Waits(j) => ~alloc.startedInFirstSlice /\ Reserved \subseteq {j}
  BY <1>2 DEF Starts, Waits, StartsNow
<1>7. /\ now' = now /\ UNCHANGED <<res, walltime, hasWalltime, ended>>
      /\ \A k \in Jobs : k # j => /\ status'[k] = status[k]
                                  /\ placed'[k] = placed[k]
                                  /\ deadline'[k] = deadline[k]
      /\ Starts(j) => /\ status'[j] = "running" /\ placed'[j] = alloc.machines
                      /\ deadline'[j] = now + (walltime[j] - RjmsDelay)
      /\ Waits(j) => status'[j] = "waiting"
  <2>1. now' = now /\ UNCHANGED <<res, walltime, hasWalltime, ended>>
    BY DEF Starts, Waits, ExecuteJob, worldVars, jobVars
  <2>2. CASE Starts(j)
    <3>1. /\ status' = [status EXCEPT ![j] = "running"]
          /\ placed' = [placed EXCEPT ![j] = alloc.machines]
          /\ deadline' = [deadline EXCEPT ![j] = now + (walltime[j] - RjmsDelay)]
      BY <1>2, <1>5, <2>2 DEF Starts, ExecuteJob
    <3>2. ~Waits(j)
      BY <1>6, <2>2
    <3>. QED  BY <1>1, <2>1, <3>1, <3>2 DEF Types
  <2>3. CASE Waits(j)
    <3>1. UNCHANGED <<status, placed, deadline>>
      BY <2>3 DEF Waits, worldVars
    <3>2. ~Starts(j)
      BY <1>6, <2>3
    <3>. QED  BY <1>1, <2>1, <3>1, <3>2
  <2>. QED  BY <2>2, <2>3
<1>8. /\ \A k \in Jobs : k # j => (k \in Reserved' <=> k \in Reserved)
      /\ Reserved' \subseteq Jobs
      /\ Starts(j) => j \notin Reserved'
      /\ Waits(j) => j \in Reserved'
  BY <1>1, <1>4, <1>7 DEF Reserved
<1>9. /\ Starts(j) => Reserved' = Reserved \ {j}
      /\ Waits(j) => Reserved' = {j}
  BY <1>1, <1>6, <1>8
<1>10. ProfileMatchesJobs'
  <2>1. ASSUME NEW k \in Jobs
        PROVE  ContainsJob(profile', k) <=>
                 status'[k] = "running" \/ k \in ToSet(ended) \/ k \in Reserved'
    <3>1. CASE k # j
      <4>1. ContainsJob(profile, k) <=>
              status[k] = "running" \/ k \in ToSet(ended) \/ k \in Reserved
        BY DEF ProfileMatchesJobs
      <4>. QED  BY <1>4, <1>7, <1>8, <3>1, <4>1
    <3>2. CASE k = j
      BY <1>4, <1>7, <1>8, <3>2
    <3>. QED  BY <3>1, <3>2
  <2>2. now <= now
    BY <1>5
  <2>. QED  BY <1>4, <1>5, <1>7, <2>1, <2>2 DEF ProfileMatchesJobs
<1>11. RunningArePresent'
  <2>1. ASSUME NEW k \in Jobs, k # j, status[k] = "running"
        PROVE  Allocation(profile', k) = Allocation(profile, k)
    BY <1>4, <2>1 DEF ProfileMatchesJobs
  <2>2. \A k \in ToSet(ended) : Allocation(profile', k) = Allocation(profile, k)
    BY <1>1, <1>4 DEF ProfileMatchesJobs
  <2>3. CASE Starts(j)
    <3>1. /\ a.present /\ a.machines = placed'[j]
          /\ a.end >= deadline'[j] + RjmsDelay /\ now <= deadline'[j]
      <4>1. a.end = now + walltime[j]
        BY <1>4, <1>5, <1>6, <2>3
      <4>2. deadline'[j] = now + (walltime[j] - RjmsDelay)
        BY <1>7, <2>3
      <4>3. a.end >= deadline'[j] + RjmsDelay /\ now <= deadline'[j]
        BY <1>5, <4>1, <4>2
      <4>. QED  BY <1>4, <1>6, <1>7, <2>3, <4>3
    <3>. QED  BY <1>2, <1>7, <2>1, <2>2, <3>1 DEF RunningArePresent
  <2>4. CASE Waits(j)
    BY <1>7, <2>1, <2>2, <2>4 DEF RunningArePresent
  <2>. QED  BY <2>3, <2>4
<1>12. ReservationAhead'
  <2>1. ASSUME NEW k \in Reserved, k # j
        PROVE  Allocation(profile', k) = Allocation(profile, k)
    BY <1>1, <1>4, <2>1
  <2>2. ASSUME j \in Reserved'
        PROVE  /\ ~a.present /\ now <= a.begin
               /\ a.end = a.begin + walltime[j]
               /\ CanHold(a.machines, Machines, res[j])
    BY <1>4, <1>5, <1>6, <1>8, <2>2
  <2>. QED  BY <1>2, <1>7, <1>8, <2>1, <2>2 DEF ReservationAhead
<1>13. ASSUME NEW i \in Reserved \ {j}, FollowsAnother(i)
       PROVE  FollowsAnother(i)'
  <2>1. PICK k \in Jobs :
          k # i /\ EndsBefore(profile, k, Allocation(profile, i).begin)
    BY <1>13 DEF FollowsAnother
  <2>2. Allocation(profile', i) = Allocation(profile, i)
    BY <1>1, <1>4
  <2>3. k # j
    <3>1. j \notin Reserved
      BY <1>13 DEF OnlyPriorityIsReserved
    <3>2. ~ContainsJob(profile, j)
      BY <1>1, <3>1 DEF Reserved
    <3>. QED  BY <2>1, <3>2 DEF EndsBefore
  <2>4. EndsBefore(profile', k, Allocation(profile, i).begin)
    BY <1>4, <2>1, <2>3 DEF EndsBefore
  <2>5. EndsBefore(profile', k, Allocation(profile', i).begin)
    BY <2>2, <2>4
  <2>. QED  BY <2>1, <2>5 DEF FollowsAnother
<1>14. ASSUME Waits(j)
       PROVE  FollowsAnother(j)'
  <2>1. \E k \in Jobs : k # j /\ EndsBefore(profile', k, Allocation(profile', j).begin)
    BY <1>2, <1>4, <1>6, <1>14
  <2>. QED  BY <2>1 DEF FollowsAnother
<1>15. HorizonIsAhead'
  <2>1. PICK W \in Nat : IsHorizon(W)
    BY DEF HorizonIsAhead
  <2>2. BoundsWalltimes(W)'
    <3>1. \A k \in Jobs : status'[k] # "future" => status[k] # "future"
      BY <1>1, <1>7
    <3>. QED  BY <1>7, <2>1, <3>1 DEF BoundsWalltimes, IsHorizon
  <2>3. PICK C, x, y, z : /\ C = Cardinality(Started) /\ x = TimeOf(C, W)
                          /\ y = TimeOf(C + 1, W) /\ z = TimeOf(C + 1 + 1, W)
    OBVIOUS
  <2>4. /\ C \in Nat /\ C + 0 = C /\ C + 1 \in Nat /\ C + 1 + 0 = C + 1
        /\ x \in Nat /\ y = x + W /\ z = y + W /\ now <= x
        /\ y \in Nat /\ z \in Nat
    <3>1. W <= W
      OBVIOUS
    <3>2. C \in Nat /\ C + 1 \in Nat
      BY <2>1, <2>3, HorizonIsTime
    <3>3. C + 1 + 1 \in Nat
      BY <3>2
    <3>4. now <= x
      BY <2>1, <2>3 DEF IsHorizon
    <3>5. x \in Nat /\ y \in Nat /\ z \in Nat /\ y = x + W /\ z = y + W
      BY <2>3, <3>1, <3>2, <3>3, TimeGrows
    <3>. QED  BY <3>2, <3>4, <3>5
  <2>5. ASSUME NEW k \in Jobs, ContainsJob(profile, k)
        PROVE  /\ Allocation(profile, k).end \in Int
               /\ k \in Reserved => Allocation(profile, k).end <= y
               /\ k \notin Reserved => Allocation(profile, k).end <= x
    <3>1. Allocation(profile, k).end \in Int
      BY <2>5, AllocationFacts, JobsOfProfile
    <3>. QED  BY <2>1, <2>3, <2>4, <2>5, <3>1 DEF IsHorizon
  <2>6. \A k \in Jobs : k # j /\ ContainsJob(profile', k) =>
          /\ ContainsJob(profile, k)
          /\ Allocation(profile', k).end = Allocation(profile, k).end
          /\ k \in Reserved' <=> k \in Reserved
    BY <1>4, <1>8
  <2>7. CASE Starts(j)
    <3>1. Started' = Started \cup {j}
      BY <1>1, <1>7, <2>7 DEF Started
    <3>2. Cardinality(Started') = C + 1
      <4>1. j \notin Started /\ Started \in SUBSET Jobs
        BY <1>1, JobsByStatus DEF Started
      <4>. QED  BY <1>1, <2>3, <3>1, <4>1, JobsCounted
    <3>3. now <= y
      BY <1>5, <2>4
    <3>4. a.end <= y /\ j \notin Reserved'
      <4>1. a.end = now + walltime[j]
        BY <1>4, <1>5, <1>6, <2>7
      <4>2. walltime[j] <= W
        BY <1>1, <1>5, <2>1 DEF IsHorizon, BoundsWalltimes
      <4>. QED  BY <1>5, <1>8, <2>4, <2>7, <4>1, <4>2
    <3>5. ASSUME NEW k \in Jobs, ContainsJob(profile', k)
          PROVE  Allocation(profile', k).end <=
                   TimeOf(C + 1 + (IF k \in Reserved' THEN 1 ELSE 0), W)
      <4>1. CASE k = j
        BY <1>2, <2>3, <2>4, <3>4, <4>1
      <4>2. CASE k # j /\ k \in Reserved
        <5>1. Allocation(profile', k).end <= z
          BY <2>4, <2>5, <2>6, <3>5, <4>2
        <5>. QED  BY <2>3, <2>6, <3>5, <4>2, <5>1
      <4>3. CASE k # j /\ k \notin Reserved
        <5>1. Allocation(profile', k).end <= y
          BY <2>4, <2>5, <2>6, <3>5, <4>3
        <5>. QED  BY <2>3, <2>4, <2>6, <3>5, <4>3, <5>1
      <4>. QED  BY <4>1, <4>2, <4>3
    <3>6. IsHorizon(W)'
      BY <1>7, <2>2, <2>3, <3>2, <3>3, <3>5 DEF IsHorizon
    <3>. QED  BY <3>6 DEF HorizonIsAhead
  <2>8. CASE Waits(j)
    <3>1. Started' = Started
      BY <1>1, <1>7, <2>8 DEF Started
    <3>2. a.end <= y
      BY <1>2, <1>3, <1>4, <1>6, <2>1, <2>3, <2>8 DEF IsPlaced
    <3>3. ASSUME NEW k \in Jobs, ContainsJob(profile', k)
          PROVE  Allocation(profile', k).end <=
                   TimeOf(C + (IF k \in Reserved' THEN 1 ELSE 0), W)
      <4>1. CASE k = j
        BY <1>2, <1>8, <2>3, <2>8, <3>2, <4>1
      <4>2. CASE k # j
        BY <1>9, <2>3, <2>4, <2>5, <2>6, <2>8, <3>3, <4>2
      <4>. QED  BY <4>1, <4>2
    <3>4. IsHorizon(W)'
      BY <1>7, <2>2, <2>3, <2>4, <3>1, <3>3 DEF IsHorizon
    <3>. QED  BY <3>4 DEF HorizonIsAhead
  <2>. QED  BY <2>7, <2>8
<1>16. ScheduleInv'
  BY <1>10, <1>11, <1>12, <1>15 DEF ScheduleInv
<1>. QED  BY <1>9, <1>13, <1>14, <1>16

\* A job that is inserted and removed leaves no trace.
LEMMA TrialLeavesNoTrace ==
  ASSUME Inv, NEW j \in Waiting, ~ContainsJob(profile, j),
         profile' = RemoveJob(Insert(profile, j), j, res[j])
  PROVE  SaysTheSame
<1>. USE DEF Inv
<1>1. PICK q : q = Insert(profile, j)
  OBVIOUS
<1>2. q = Insert(Without(j), j)
  BY <1>1 DEF Without, RemoveJobIfExists
<1>3. IsPlaced(q, j) /\ j \in Jobs
  BY <1>2, QueuedIsPlaced, JobsByStatus
<1>4. /\ IsSound(q, Jobs, Machines, res) /\ ContainsJob(q, j)
      /\ \A k : k # j =>
           /\ ContainsJob(profile, k) <=> ContainsJob(q, k)
           /\ ContainsJob(profile, k) => Allocation(q, k) = Allocation(profile, k)
      /\ q[1].begin = profile[1].begin
  BY <1>3, PlaceOfJob
<1>5. IsSound(profile', Jobs, Machines, res) /\ IsRemoved(profile', q, j)
  <2>1. IsFiniteSet(Machines) /\ profile' = RemoveJob(q, j, res[j])
    BY <1>1, MachinesFinite
  <2>. QED  BY <1>3, <1>4, <2>1, RemoveSound
<1>6. /\ ~ContainsJob(profile', j) /\ profile'[1].begin = q[1].begin
      /\ \A k \in Jobs : k # j =>
           /\ ContainsJob(q, k) <=> ContainsJob(profile', k)
           /\ ContainsJob(q, k) => Allocation(profile', k) = Allocation(q, k)
  BY <1>5 DEF IsRemoved, SameAllocation
<1>7. \A k \in Jobs : SameAllocation(profile, profile', k)
  BY <1>4, <1>6 DEF SameAllocation
<1>. QED  BY <1>4, <1>5, <1>6, <1>7 DEF SaysTheSame


\* The jobs are described well, and the queues hold those that wait.
JobsMatch ==
  /\ JobsAreSound
  /\ now \in Nat
  /\ status \in [Jobs -> Status]
  /\ placed \in [Jobs -> SUBSET Machines]
  /\ deadline \in [Jobs -> Int]
  /\ QueuesMatchStatus

\* What starting job j, or leaving it in the queue, makes of the jobs.
LEMMA PlacingKeepsJobs ==
  ASSUME Inv, NEW j \in Waiting, UNCHANGED <<jobVars, released, ended>>,
         NEW started \in BOOLEAN, NEW X \in SUBSET Machines,
         started => ExecuteJob(j, X) /\ Waiting' = Waiting \ {j},
         ~started => UNCHANGED worldVars /\ Waiting' = Waiting,
         OnePerJob(queue')
  PROVE  JobsMatch'
<1>. USE DEF Inv
<1>1. /\ j \in Jobs /\ status[j] = "waiting" /\ j \notin ToSet(released)
      /\ Waiting \subseteq Jobs
      /\ \A k \in ToSet(ended) : status[k] = "done" /\ k \in Jobs
      /\ {k \in Jobs : status[k] = "waiting"} = Waiting \cup ToSet(released)
      /\ Waiting \cap ToSet(released) = {}
      /\ IsInjective(ended) /\ IsInjective(released)
  BY JobsByStatus DEF QueuesMatchStatus
<1>2. UNCHANGED <<res, walltime, hasWalltime, released, ended>>
  BY DEF jobVars
<1>3. \A k \in Jobs : IsValid(k)' = IsValid(k)
  BY <1>2 DEF IsValid
<1>4. CASE started
  <2>1. /\ status' = [status EXCEPT ![j] = "running"]
        /\ placed' = [placed EXCEPT ![j] = X]
        /\ deadline' = [deadline EXCEPT ![j] =
                          now + IF hasWalltime[j] THEN walltime[j] - RjmsDelay
                                                  ELSE MaxRun]
        /\ now' = now /\ Waiting' = Waiting \ {j}
    BY <1>4 DEF ExecuteJob
  <2>2. (now + IF hasWalltime[j] THEN walltime[j] - RjmsDelay ELSE MaxRun) \in Int
    BY <1>1, PlatformAssumption, BoundsAssumption DEF Types
  <2>3. /\ now' \in Nat /\ status' \in [Jobs -> Status]
        /\ placed' \in [Jobs -> SUBSET Machines] /\ deadline' \in [Jobs -> Int]
    BY <2>1, <2>2 DEF Types, Status
  <2>4. /\ \A k \in Jobs : k # j => /\ status'[k] = status[k]
                                    /\ placed'[k] = placed[k]
        /\ status'[j] = "running"
    BY <1>1, <2>1 DEF Types
  <2>5. JobsAreSound'
    <3>1. IsValid(j)
      BY <1>1 DEF JobsAreSound
    <3>. QED  BY <1>1, <1>2, <1>3, <2>1, <2>4, <3>1 DEF JobsAreSound
  <2>6. {k \in Jobs : status'[k] = "waiting"}
          = {k \in Jobs : status[k] = "waiting"} \ {j}
    BY <2>4
  <2>7. QueuesMatchStatus'
    <3>1. \A k \in ToSet(ended') : status'[k] = "done"
      BY <1>1, <1>2, <2>4
    <3>. QED  BY <1>1, <1>2, <2>1, <2>6, <3>1 DEF QueuesMatchStatus
  <2>. QED  BY <2>3, <2>5, <2>7 DEF JobsMatch
<1>5. CASE ~started
  <2>1. UNCHANGED <<now, status, placed, deadline>> /\ Waiting' = Waiting
    BY <1>5 DEF worldVars
  <2>2. JobsAreSound' /\ QueuesMatchStatus'
    BY <1>1, <1>2, <1>3, <2>1 DEF JobsAreSound, QueuesMatchStatus
  <2>. QED  BY <2>1, <2>2 DEF Types, JobsMatch
<1>. QED  BY <1>4, <1>5

\* The place of a job is on machines of the platform.
LEMMA PlacedOnPlatform ==
  ASSUME Inv, NEW j \in Waiting
  PROVE  /\ Alloc(Without(j), j).machines \in SUBSET Machines
         /\ StartsNow(Without(j), j) \in BOOLEAN
<1>1. PICK q : q = Insert(Without(j), j)
  OBVIOUS
<1>2. IsPlaced(q, j)
  BY <1>1, QueuedIsPlaced
<1>. QED  BY <1>2, PlaceOfJob DEF StartsNow

\* The priority job starts, or is given the reservation.
LEMMA InsertPriorityKeepsInv ==
  ASSUME Inv, InsertPriority
  PROVE  Inv'
<1>. USE DEF Inv
<1>1. PICK j, q, started : /\ j = after /\ q = RemoveFromQueue(queue, j)
                           /\ started = StartsNow(Without(j), j)
  OBVIOUS
<1>2. /\ pc = "priority" /\ queue # <<>> /\ Reserved = {} /\ j = FirstJob(queue)
      /\ ended = <<>> /\ released = <<>> /\ cursor = 1
      /\ queue \in Seq(Entries(Jobs)) /\ OnePerJob(queue)
  BY <1>1 DEF InsertPriority, PointsMatchLocals, OnlyPriorityIsReserved, Types,
              QueuesMatchStatus
<1>3. j \in Waiting /\ j \in Jobs /\ status[j] = "waiting" /\ NullJob \notin Jobs
  BY <1>2, FirstOfQueue, JobsByStatus DEF Waiting
<1>4. Without(j) = profile
  BY <1>2, <1>3 DEF Without, RemoveJobIfExists, Reserved
<1>5. /\ profile' = Insert(Without(j), j)
      /\ started => /\ ExecuteJob(j, Alloc(Without(j), j).machines)
                    /\ queue' = q /\ after' = FirstJob(q)
                    /\ pc' = IF q = <<>> THEN "sorted" ELSE "priority"
      /\ ~started => pc' = "sorted" /\ UNCHANGED <<worldVars, queue, after>>
      /\ UNCHANGED <<jobVars, ended, released, order, before, recent, jobEnded,
                     nbAvailable, cursor>>
  BY <1>1, <1>4 DEF InsertPriority
<1>6. Alloc(Without(j), j).machines \in SUBSET Machines /\ started \in BOOLEAN
  BY <1>1, <1>3, PlacedOnPlatform
<1>7. /\ started => Starts(j)
      /\ ~started => Waits(j)
  BY <1>1, <1>2, <1>5 DEF Starts, Waits
<1>8. /\ ScheduleInv'
      /\ started => Reserved' = {}
      /\ ~started => Reserved' = {j} /\ FollowsAnother(j)'
  BY <1>2, <1>3, <1>7, PlacingKeepsSchedule
<1>9. /\ q \in Seq(Entries(Jobs)) /\ OnePerJob(q) /\ JobsOf(q) = Waiting \ {j}
      /\ FirstJob(q) \in Jobs \cup {NullJob}
      /\ q = <<>> => FirstJob(q) = NullJob
  BY <1>1, <1>2, Dequeued, FirstOfQueue DEF IsDequeued, Waiting
<1>10. /\ queue' \in Seq(Entries(Jobs)) /\ OnePerJob(queue')
       /\ started => Waiting' = Waiting \ {j}
       /\ ~started => Waiting' = Waiting
  BY <1>2, <1>5, <1>6, <1>9 DEF Waiting
<1>11. JobsMatch'
  BY <1>3, <1>5, <1>6, <1>10, PlacingKeepsJobs
<1>12. Types'
  <2>1. pc' \in ProgramPoints /\ after' \in Jobs \cup {NullJob}
    BY <1>1, <1>3, <1>5, <1>6, <1>9 DEF ProgramPoints
  <2>. QED  BY <1>5, <1>10, <1>11, <2>1 DEF Types, JobsMatch, jobVars
<1>13. PointsMatchLocals'
  <2>1. CASE started
    BY <1>2, <1>5, <2>1 DEF PointsMatchLocals
  <2>2. CASE ~started
    BY <1>1, <1>2, <1>5, <2>2 DEF PointsMatchLocals
  <2>. QED  BY <1>6, <2>1, <2>2
<1>14. OnlyPriorityIsReserved'
  <2>1. CASE started
    <3>1. /\ pc' = IF q = <<>> THEN "sorted" ELSE "priority"
          /\ Reserved' = {} /\ after' = FirstJob(q)
      BY <1>5, <1>8, <2>1
    <3>. QED  BY <1>9, <3>1 DEF OnlyPriorityIsReserved, Priority
  <2>2. CASE ~started
    BY <1>1, <1>5, <1>8, <2>2 DEF OnlyPriorityIsReserved, Priority
  <2>. QED  BY <1>6, <2>1, <2>2
<1>15. ReservationFollows'
  BY <1>6, <1>8 DEF ReservationFollows
<1>. QED
  BY <1>8, <1>11, <1>12, <1>13, <1>14, <1>15, InvParts DEF Bookkeeping, JobsMatch

\* A new job is backfilled, or leaves no trace.
LEMMA TryNewKeepsInv ==
  ASSUME Inv, TryNew
  PROVE  Inv'
<1>. USE DEF Inv
<1>1. PICK j, started : /\ j = Head(recent)
                        /\ started = (Candidate(j) /\ StartsNow(profile, j))
  OBVIOUS
<1>2. /\ pc = "backfill" /\ recent # <<>>
      /\ profile' = CASE started -> Insert(profile, j)
                      [] Candidate(j) /\ ~started ->
                           RemoveJob(Insert(profile, j), j, res[j])
                      [] OTHER -> profile
      /\ IF started
           THEN /\ ExecuteJob(j, Alloc(profile, j).machines)
                /\ queue' = RemoveFromQueue(queue, j)
                /\ nbAvailable' = nbAvailable - res[j]
           ELSE UNCHANGED <<worldVars, queue, nbAvailable>>
      /\ recent' = Tail(recent)
      /\ UNCHANGED <<pc, jobVars, ended, released, order, before, after, jobEnded,
                     cursor>>
  BY <1>1 DEF TryNew
<1>3. /\ after = FirstJob(queue) /\ ended = <<>> /\ released = <<>> /\ cursor = 1
      /\ ~jobEnded
      /\ queue \in Seq(Entries(Jobs)) /\ OnePerJob(queue)
      /\ Reserved \subseteq {after} /\ after \in Reserved \cup {NullJob}
      /\ \A i \in Reserved : FollowsAnother(i)
      /\ NullJob \notin Jobs
  BY <1>2, JobsByStatus DEF PointsMatchLocals, OnlyPriorityIsReserved, Types, Priority,
                            StillToTry, QueuesMatchStatus, ReservationFollows, TraversalAhead
<1>4. recent' \in Seq(Jobs)
  BY <1>2 DEF Types
<1>5. ASSUME Candidate(j)
      PROVE  /\ j \in Waiting /\ j \in Jobs /\ ~ContainsJob(profile, j)
             /\ Without(j) = profile /\ j # FirstJob(queue) /\ j \notin Reserved
             /\ res[j] <= nbAvailable /\ res[j] \in Nat
  <2>1. j \in Waiting /\ j # after /\ res[j] <= nbAvailable
    BY <1>5 DEF Candidate, Waiting
  <2>2. j \notin Reserved /\ j \in Jobs /\ status[j] = "waiting"
    BY <1>3, <2>1, JobsByStatus
  <2>3. ~ContainsJob(profile, j)
    BY <2>2 DEF Reserved
  <2>. QED  BY <1>3, <2>1, <2>2, <2>3 DEF Without, RemoveJobIfExists, Types
<1>6. CASE started
  <2>1. Candidate(j) /\ StartsNow(Without(j), j)
    BY <1>1, <1>5, <1>6
  <2>2. Starts(j)
    BY <1>2, <1>5, <1>6, <2>1 DEF Starts
  <2>3. /\ ScheduleInv' /\ Reserved' = Reserved
        /\ \A i \in Reserved : FollowsAnother(i)'
    <3>1. /\ j \in Waiting /\ j \notin Reserved
          /\ pc \notin {"batsim", "ended", "released"}
      BY <1>2, <1>5, <2>1
    <3>2. /\ ScheduleInv' /\ Reserved' = Reserved \ {j}
          /\ \A i \in Reserved \ {j} : FollowsAnother(i) => FollowsAnother(i)'
      BY <2>2, <3>1, PlacingKeepsSchedule
    <3>3. Reserved \ {j} = Reserved
      BY <3>1
    <3>. QED  BY <1>3, <3>2, <3>3
  <2>4. IsDequeued(queue', queue, j)
    BY <1>2, <1>3, <1>6, Dequeued
  <2>5. /\ queue' \in Seq(Entries(Jobs)) /\ OnePerJob(queue')
        /\ Waiting' = Waiting \ {j} /\ FirstJob(queue') = FirstJob(queue)
    BY <1>5, <2>1, <2>4 DEF IsDequeued, Waiting
  <2>6. JobsMatch'
    <3>1. PICK X : X = Alloc(Without(j), j).machines
      OBVIOUS
    <3>2. X \in SUBSET Machines /\ ExecuteJob(j, X)
      BY <1>2, <1>5, <1>6, <2>1, <3>1, PlacedOnPlatform
    <3>. QED  BY <1>2, <1>5, <1>6, <2>1, <2>5, <3>2, PlacingKeepsJobs
  <2>7. Types'
    <3>1. nbAvailable' \in Nat
      <4>1. res[j] <= nbAvailable /\ res[j] \in Nat /\ nbAvailable \in Nat
        BY <1>5, <2>1 DEF Types
      <4>2. nbAvailable - res[j] \in Nat
        BY <4>1
      <4>. QED  BY <1>2, <1>6, <4>2
    <3>. QED  BY <1>2, <1>4, <2>5, <2>6, <3>1 DEF Types, JobsMatch, jobVars
  <2>8. PointsMatchLocals'
    BY <1>2, <1>3, <2>5 DEF PointsMatchLocals
  <2>9. OnlyPriorityIsReserved'
    BY <1>2, <1>3, <2>3 DEF OnlyPriorityIsReserved, Priority
  <2>10. ReservationFollows'
    BY <2>3 DEF ReservationFollows
  <2>. QED
    BY <2>3, <2>6, <2>7, <2>8, <2>9, <2>10, InvParts DEF Bookkeeping, JobsMatch
<1>7. CASE ~started
  <2>1. UNCHANGED <<now, status, placed, deadline, queue, nbAvailable, pc, res,
                    walltime, hasWalltime, ended, released, order, before, after,
                    jobEnded, cursor>>
    BY <1>2, <1>7 DEF worldVars, jobVars
  <2>2. SaysTheSame
    <3>1. CASE Candidate(j)
      <4>1. profile' = RemoveJob(Insert(profile, j), j, res[j])
        BY <1>2, <1>7, <3>1
      <4>. QED  BY <1>5, <3>1, <4>1, TrialLeavesNoTrace
    <3>2. CASE ~Candidate(j)
      <4>1. UNCHANGED profile
        BY <1>2, <1>7, <3>2
      <4>. QED  BY <4>1, SameProfile
    <3>. QED  BY <3>1, <3>2
  <2>3. SamePurpose
    BY <2>1 DEF SamePurpose, jobVars
  <2>4. ScheduleInv' /\ Reserved' = Reserved /\ StillFollows
    BY <1>2, <2>1, <2>2, <2>3, SameSchedule DEF ProfileMatchesJobs
  <2>5. Waiting' = Waiting
    BY <2>1 DEF Waiting
  <2>6. Types' /\ JobsAreSound' /\ QueuesMatchStatus' /\ PointsMatchLocals'
    BY <1>4, <2>1, <2>5 DEF Types, JobsAreSound, IsValid, QueuesMatchStatus,
                            PointsMatchLocals
  <2>7. OnlyPriorityIsReserved' /\ ReservationFollows'
    BY <1>2, <2>1, <2>4, PriorityKept DEF Priority, TraversalAhead, StillToTry
  <2>. QED  BY <2>4, <2>6, <2>7, InvParts DEF Bookkeeping
<1>. QED  BY <1>6, <1>7


\* A job of the queue is backfilled, keeps the reservation that it is given anew, or
\* leaves no trace.
LEMMA TryQueuedKeepsInv ==
  ASSUME Inv, TryQueued
  PROVE  Inv'
<1>. USE DEF Inv
<1>1. PICK j, q, started : /\ j = queue[cursor].job /\ q = RemoveAt(queue, cursor)
                           /\ started = StartsNow(Without(j), j)
  OBVIOUS
<1>2. /\ pc = "traverse" /\ cursor <= Len(queue) /\ nbAvailable > 0
      /\ profile' = IF started \/ j = after THEN Insert(Without(j), j)
                    ELSE RemoveJob(Insert(Without(j), j), j, res[j])
      /\ started => /\ ExecuteJob(j, Alloc(Without(j), j).machines)
                    /\ queue' = q
                    /\ after' = IF j = after THEN FirstJob(q) ELSE after
                    /\ UNCHANGED cursor
      /\ ~started => cursor' = cursor + 1 /\ UNCHANGED <<worldVars, queue, after>>
      /\ UNCHANGED <<pc, jobVars, ended, released, order, before, recent, jobEnded,
                     nbAvailable>>
  BY <1>1 DEF TryQueued, Without
<1>3. /\ after = FirstJob(queue) /\ ended = <<>> /\ released = <<>>
      /\ queue \in Seq(Entries(Jobs)) /\ OnePerJob(queue)
      /\ Reserved \subseteq {after}
      /\ cursor \in Nat \ {0} /\ Priority = after
  BY <1>2 DEF PointsMatchLocals, OnlyPriorityIsReserved, Types, Priority,
              QueuesMatchStatus
<1>4. cursor \in 1 .. Len(queue) /\ cursor + 1 \in Nat \ {0} /\ cursor + 1 # 1
  <2>1. Len(queue) \in Nat
    BY <1>3, LenProperties
  <2>. QED  BY <1>2, <1>3, <2>1
<1>5. /\ IsDequeued(q, queue, j) /\ j \in Waiting
      /\ j = after <=> cursor = 1
  BY <1>1, <1>3, <1>4, DequeuedAt DEF Waiting
<1>6. /\ j \in Jobs /\ status[j] = "waiting" /\ NullJob \notin Jobs
  BY <1>5, JobsByStatus
<1>7. Alloc(Without(j), j).machines \in SUBSET Machines /\ started \in BOOLEAN
  BY <1>1, <1>5, PlacedOnPlatform
<1>8. /\ q \in Seq(Entries(Jobs)) /\ OnePerJob(q) /\ JobsOf(q) = Waiting \ {j}
      /\ j # after => FirstJob(q) = after
      /\ FirstJob(q) \in Jobs \cup {NullJob}
  BY <1>3, <1>5, FirstOfQueue DEF IsDequeued, Waiting
<1>9. /\ queue' \in Seq(Entries(Jobs)) /\ OnePerJob(queue')
      /\ started => Waiting' = Waiting \ {j}
      /\ ~started => Waiting' = Waiting
  BY <1>2, <1>3, <1>7, <1>8 DEF Waiting
<1>10. JobsMatch'
  BY <1>2, <1>5, <1>7, <1>9, PlacingKeepsJobs
<1>11. cursor' \in Nat \ {0} /\ after' \in Jobs \cup {NullJob}
  BY <1>2, <1>3, <1>4, <1>7, <1>8 DEF Types
<1>12. Types'
  BY <1>2, <1>9, <1>10, <1>11 DEF Types, JobsMatch, jobVars
<1>13. after' = FirstJob(queue')
  BY <1>2, <1>3, <1>7, <1>8
<1>14. PointsMatchLocals'
  BY <1>2, <1>3, <1>13 DEF PointsMatchLocals
<1>15. CASE j = after
  <2>1. IF started THEN Starts(j) ELSE Waits(j)
    BY <1>1, <1>2, <1>3, <1>7, <1>15 DEF Starts, Waits
  <2>2. /\ ScheduleInv'
        /\ started => Reserved' = {}
        /\ ~started => Reserved' = {j} /\ FollowsAnother(j)'
    BY <1>2, <1>3, <1>5, <1>7, <1>15, <2>1, PlacingKeepsSchedule
  <2>3. OnlyPriorityIsReserved'
    <3>1. CASE started
      <4>1. StillToTry' /\ Reserved' = {}
        BY <1>2, <1>5, <1>15, <2>2, <3>1 DEF StillToTry
      <4>. QED  BY <1>2, <4>1 DEF OnlyPriorityIsReserved
    <3>2. CASE ~started
      BY <1>2, <1>15, <2>2, <3>2 DEF OnlyPriorityIsReserved, Priority
    <3>. QED  BY <1>7, <3>1, <3>2
  <2>4. ReservationFollows'
    BY <1>7, <2>2 DEF ReservationFollows
  <2>. QED
    BY <1>10, <1>12, <1>14, <2>2, <2>3, <2>4, InvParts DEF Bookkeeping, JobsMatch
<1>16. CASE j # after
  <2>1. /\ ~StillToTry /\ ~TraversalAhead /\ cursor # 1
        /\ j \notin Reserved /\ after \in Reserved \cup {NullJob}
        /\ \A i \in Reserved : FollowsAnother(i)
        /\ after' = after
    BY <1>2, <1>3, <1>5, <1>7, <1>16
       DEF StillToTry, TraversalAhead, OnlyPriorityIsReserved, ReservationFollows
  <2>2. ~ContainsJob(profile, j)
    BY <1>6, <2>1 DEF Reserved
  <2>3. ScheduleInv' /\ Reserved' = Reserved /\ \A i \in Reserved : FollowsAnother(i)'
    <3>1. CASE started
      <4>1. Starts(j)
        BY <1>1, <1>2, <3>1 DEF Starts
      <4>2. /\ ScheduleInv' /\ Reserved' = Reserved \ {j}
            /\ \A i \in Reserved \ {j} : FollowsAnother(i) => FollowsAnother(i)'
        BY <1>2, <1>5, <4>1, PlacingKeepsSchedule
      <4>3. Reserved \ {j} = Reserved
        BY <2>1
      <4>. QED  BY <2>1, <4>2, <4>3
    <3>2. CASE ~started
      <4>1. Without(j) = profile
        BY <2>2 DEF Without, RemoveJobIfExists
      <4>2. SaysTheSame
        BY <1>2, <1>5, <1>16, <2>2, <3>2, <4>1, TrialLeavesNoTrace
      <4>3. SamePurpose
        BY <1>2, <3>2 DEF SamePurpose, worldVars, jobVars
      <4>4. ScheduleInv' /\ Reserved' = Reserved /\ StillFollows
        BY <1>2, <4>2, <4>3, SameSchedule DEF ProfileMatchesJobs
      <4>. QED  BY <2>1, <4>4 DEF StillFollows
    <3>. QED  BY <1>7, <3>1, <3>2
  <2>4. OnlyPriorityIsReserved'
    BY <1>2, <1>3, <2>1, <2>3 DEF OnlyPriorityIsReserved, Priority
  <2>5. ReservationFollows'
    BY <2>3 DEF ReservationFollows
  <2>. QED
    BY <1>10, <1>12, <1>14, <2>3, <2>4, <2>5, InvParts DEF Bookkeeping, JobsMatch
<1>. QED  BY <1>15, <1>16



-------------------------------------------------------------------------------
(* The invariant.                                                          *)

\* Before the first message nothing is scheduled.
LEMMA InitEstablishesInv == Init => Inv
<1>. SUFFICES ASSUME Init
              PROVE  Inv
  OBVIOUS
<1>1. /\ pc = "batsim" /\ now = 0
      /\ status = [j \in Jobs |-> "future"]
      /\ res = [j \in Jobs |-> 0]
      /\ walltime = [j \in Jobs |-> 0]
      /\ hasWalltime = [j \in Jobs |-> FALSE]
      /\ placed = [j \in Jobs |-> {}]
      /\ deadline = [j \in Jobs |-> 0]
      /\ ended = <<>> /\ released = <<>> /\ queue = <<>> /\ recent = <<>>
      /\ before = NullJob /\ after = NullJob /\ order \in QueueOrders
      /\ jobEnded = FALSE /\ nbAvailable = 0 /\ cursor = 1
      /\ profile = NewSchedule(Machines, 0)
  BY OrdersAssumption DEF Init, BatsimInit
<1>2. /\ ToSet(<<>>) = {} /\ IsInjective(<<>>) /\ <<>> \in Seq(Jobs)
      /\ <<>> \in Seq(Entries(Jobs)) /\ OnePerJob(<<>>)
      /\ FirstJob(<<>>) = NullJob
  BY DEF ToSet, IsInjective, OnePerJob, FirstJob
<1>3. Waiting = {}
  BY <1>1, <1>2, FirstOfQueue DEF Waiting
<1>4. Types
  <2>1. /\ status \in [Jobs -> Status] /\ res \in [Jobs -> Nat]
        /\ walltime \in [Jobs -> Int] /\ hasWalltime \in [Jobs -> BOOLEAN]
        /\ deadline \in [Jobs -> Int]
    BY <1>1 DEF Status
  <2>2. placed \in [Jobs -> SUBSET Machines]
    BY <1>1
  <2>3. /\ pc \in ProgramPoints /\ now \in Nat /\ cursor \in Nat \ {0}
        /\ nbAvailable \in Nat
    BY <1>1 DEF ProgramPoints
  <2>4. jobEnded \in BOOLEAN
    BY <1>1
  <2>5. /\ ended \in Seq(Jobs) /\ released \in Seq(Jobs)
        /\ queue \in Seq(Entries(Jobs)) /\ recent \in Seq(Jobs)
        /\ before \in Jobs \cup {NullJob} /\ after \in Jobs \cup {NullJob}
    BY <1>1, <1>2
  <2>. QED  BY <1>1, <2>1, <2>2, <2>3, <2>4, <2>5 DEF Types
<1>5. \A j \in Jobs : status[j] = "future" /\ placed[j] = {}
  BY <1>1
<1>6. JobsAreSound /\ QueuesMatchStatus
  BY <1>1, <1>2, <1>3, <1>5 DEF JobsAreSound, QueuesMatchStatus
<1>7. PointsMatchLocals
  BY <1>1 DEF PointsMatchLocals
<1>8. Reserved = {} /\ Started = {}
  BY <1>5 DEF Reserved, Started
<1>9. /\ IsSound(profile, Jobs, Machines, res)
      /\ \A j : ~ContainsJob(profile, j)
      /\ profile[1].begin = 0
  <2>1. IsFiniteSet(Machines) /\ 0 \in Int /\ Infinity \in Int /\ 0 <= Infinity
    BY MachinesFinite, InfinityAssumption
  <2>. QED  BY <1>1, <2>1, NewSound
<1>10. ProfileMatchesJobs
  BY <1>1, <1>2, <1>5, <1>8, <1>9 DEF ProfileMatchesJobs
<1>11. RunningArePresent /\ ReservationAhead /\ ReservationFollows
  BY <1>1, <1>2, <1>5, <1>8 DEF RunningArePresent, ReservationAhead, ReservationFollows
<1>12. OnlyPriorityIsReserved
  BY <1>1, <1>2, <1>8 DEF OnlyPriorityIsReserved, Priority
<1>13. HorizonIsAhead
  <2>1. BoundsWalltimes(0)
    BY <1>5 DEF BoundsWalltimes
  <2>2. Cardinality(Started) \in Nat /\ 0 <= 0 /\ LastSubmission \in Nat
    BY <1>8, FS_EmptySet, BoundsAssumption
  <2>3. /\ TimeOf(Cardinality(Started), 0) \in Nat
    BY <2>2, TimeGrows
  <2>4. IsHorizon(0)
    BY <1>1, <1>9, <2>1, <2>3 DEF IsHorizon
  <2>. QED  BY <2>4 DEF HorizonIsAhead
<1>. QED
  BY <1>4, <1>6, <1>7, <1>10, <1>11, <1>12, <1>13 DEF Inv

\* Every step keeps the invariant.
LEMMA NextKeepsInv == Inv /\ [Next]_vars => Inv'
<1>. SUFFICES ASSUME Inv, [Next]_vars
              PROVE  Inv'
  OBVIOUS
<1>1. CASE \E j \in Jobs, r \in Requests, w \in Walltimes :
             Submit(j, r, w) /\ UNCHANGED schedVars
  BY <1>1, SubmitKeepsInv
<1>2. CASE \E j \in Jobs : Complete(j) /\ UNCHANGED schedVars
  BY <1>2, CompleteKeepsInv
<1>3. CASE Tick /\ UNCHANGED schedVars
  BY <1>3, TickKeepsInv
<1>4. CASE Receive \/ EndedHandled \/ ChooseLoop \/ Reply \/ UNCHANGED vars
  BY <1>4, MoveKeepsInv
<1>5. CASE RemoveEnded \/ RejectReleased \/ QueueReleased \/ UpdatePresent
  BY <1>5, RemoveEndedKeepsInv, RejectKeepsInv, QueueKeepsInv, UpdateKeepsInv
<1>6. CASE InsertPriority \/ TryNew \/ TryQueued
  BY <1>6, InsertPriorityKeepsInv, TryNewKeepsInv, TryQueuedKeepsInv
<1>. QED
  BY <1>1, <1>2, <1>3, <1>4, <1>5, <1>6
     DEF Next, Platform, BatsimStep, MakeDecisions, Terminated

\* The invariant holds in every state.
LEMMA InvHolds == Spec => []Inv
  BY InitEstablishesInv, NextKeepsInv, PTL DEF Spec

\* The priority job, a new job or a job of the queue is placed, and started or not.
PlacesJob(j) ==
  /\ profile' = Insert(Without(j), j)
  /\ UNCHANGED jobVars
  /\ \/ StartsNow(Without(j), j) /\ ExecuteJob(j, Alloc(Without(j), j).machines)
     \/ UNCHANGED worldVars

\* Or nothing remains of the attempt.
PlacesNoJob == SaysTheSame /\ UNCHANGED <<worldVars, jobVars>>

\* A step of one of the loops places one job of the queue at most.
LEMMA OneIsPlaced ==
  ASSUME Inv, InsertPriority \/ TryNew \/ TryQueued
  PROVE  PlacesNoJob \/ \E j \in Waiting : PlacesJob(j)
<1>. USE DEF Inv
<1>1. CASE InsertPriority
  <2>1. /\ pc = "priority" /\ after \in Waiting /\ Reserved = {}
        /\ after \in Jobs /\ status[after] = "waiting"
    <3>1. pc = "priority" /\ after = FirstJob(queue) /\ queue # <<>> /\ Reserved = {}
      BY <1>1 DEF InsertPriority, PointsMatchLocals, OnlyPriorityIsReserved
    <3>. QED  BY <3>1, FirstOfQueue, JobsByStatus DEF Types, Waiting
  <2>2. Without(after) = profile
    BY <2>1 DEF Without, RemoveJobIfExists, Reserved
  <2>3. PlacesJob(after)
    BY <1>1, <2>2 DEF InsertPriority, PlacesJob
  <2>. QED  BY <2>1, <2>3
<1>2. CASE TryNew
  <2>1. PICK j, started : /\ j = Head(recent)
                          /\ started = (Candidate(j) /\ StartsNow(profile, j))
    OBVIOUS
  <2>2. /\ pc = "backfill"
        /\ profile' = CASE started -> Insert(profile, j)
                        [] Candidate(j) /\ ~started ->
                             RemoveJob(Insert(profile, j), j, res[j])
                        [] OTHER -> profile
        /\ IF started THEN ExecuteJob(j, Alloc(profile, j).machines)
                      ELSE UNCHANGED worldVars
        /\ UNCHANGED jobVars
    BY <1>2, <2>1 DEF TryNew
  <2>3. CASE Candidate(j)
    <3>1. j \in Waiting /\ j # after /\ Reserved \subseteq {after}
      BY <2>2, <2>3 DEF Candidate, Waiting, OnlyPriorityIsReserved, Priority
    <3>2. ~ContainsJob(profile, j)
      BY <3>1, JobsByStatus DEF Reserved
    <3>3. Without(j) = profile
      BY <3>2 DEF Without, RemoveJobIfExists
    <3>4. CASE started
      <4>1. PlacesJob(j)
        BY <2>1, <2>2, <3>3, <3>4 DEF PlacesJob
      <4>. QED  BY <3>1, <4>1
    <3>5. CASE ~started
      <4>1. SaysTheSame
        BY <2>2, <2>3, <3>1, <3>2, <3>5, TrialLeavesNoTrace
      <4>. QED  BY <2>2, <3>5, <4>1 DEF PlacesNoJob
    <3>. QED  BY <3>4, <3>5
  <2>4. CASE ~Candidate(j)
    BY <2>1, <2>2, <2>4, SameProfile DEF PlacesNoJob
  <2>. QED  BY <2>3, <2>4
<1>3. CASE TryQueued
  <2>1. PICK j, started : /\ j = queue[cursor].job
                          /\ started = StartsNow(Without(j), j)
    OBVIOUS
  <2>2. /\ pc = "traverse" /\ cursor <= Len(queue)
        /\ profile' = IF started \/ j = after THEN Insert(Without(j), j)
                      ELSE RemoveJob(Insert(Without(j), j), j, res[j])
        /\ IF started THEN ExecuteJob(j, Alloc(Without(j), j).machines)
                      ELSE UNCHANGED worldVars
        /\ UNCHANGED jobVars
    BY <1>3, <2>1 DEF TryQueued, Without
  <2>3. cursor \in 1 .. Len(queue) /\ queue \in Seq(Entries(Jobs)) /\ OnePerJob(queue)
    BY <2>2, LenProperties DEF Types, QueuesMatchStatus
  <2>4. j \in Waiting
    BY <2>1, <2>3, DequeuedAt DEF Waiting
  <2>5. CASE started \/ j = after
    <3>1. PlacesJob(j)
      BY <2>1, <2>2, <2>5 DEF PlacesJob
    <3>. QED  BY <2>4, <3>1
  <2>6. CASE ~started /\ j # after
    <3>1. Reserved \subseteq {after}
      BY <2>2 DEF OnlyPriorityIsReserved, Priority
    <3>2. ~ContainsJob(profile, j)
      BY <2>4, <2>6, <3>1, JobsByStatus DEF Reserved
    <3>3. Without(j) = profile
      BY <3>2 DEF Without, RemoveJobIfExists
    <3>4. SaysTheSame
      BY <2>2, <2>4, <2>6, <3>2, <3>3, TrialLeavesNoTrace
    <3>. QED  BY <2>2, <2>6, <3>4 DEF PlacesNoJob
  <2>. QED  BY <2>5, <2>6
<1>. QED  BY <1>1, <1>2, <1>3


-------------------------------------------------------------------------------
(* What it means.                                                          *)

\* Between two messages the schedule is a partition of the future in which every
\* running job is where it runs, for long enough, and of the waiting jobs exactly
\* the first of the queue has a reservation, whatever the jobs, the platform, the
\* order and the selector: neither a trial nor a former priority job leaves a trace.
THEOREM ScheduleMatchesPlatformHolds == Spec => []ScheduleMatchesPlatform
<1>1. Inv => ScheduleMatchesPlatform
  <2>. SUFFICES ASSUME Inv, pc = "batsim"
                PROVE  ScheduleMatchesPlatform
    BY DEF ScheduleMatchesPlatform
  <2>. USE DEF Inv
  <2>1. /\ IsProfile(profile, Machines, LAMBDA j : res[j])
        /\ profile[Len(profile)].available = Machines
        /\ \A j \in Jobs : IsContiguous(profile, j)
    BY SoundIsProfile DEF ProfileMatchesJobs
  <2>2. ASSUME NEW j \in Jobs, status[j] = "running"
        PROVE  /\ j \in DOMAIN profile[1].jobs
               /\ profile[1].jobs[j] = placed[j]
               /\ EndOf(profile, j) >= deadline[j] + RjmsDelay
    <3>1. /\ IsSound(profile, Jobs, Machines, res) /\ ContainsJob(profile, j)
          /\ IsFiniteSet(Machines)
      BY <2>2, MachinesFinite DEF ProfileMatchesJobs
    <3>2. /\ Allocation(profile, j).present
          /\ Allocation(profile, j).machines = placed[j]
          /\ Allocation(profile, j).end >= deadline[j] + RjmsDelay
      BY <2>2 DEF RunningArePresent
    <3>3. j \in DOMAIN profile[1].jobs
          /\ profile[1].jobs[j] = Allocation(profile, j).machines
      BY <3>1, <3>2, AllocationFacts
    <3>4. Allocation(profile, j).end = EndOf(profile, j)
      BY DEF Allocation
    <3>. QED  BY <3>2, <3>3, <3>4
  <2>3. Reserved = {FirstJob(queue)} \ {NullJob}
    <3>1. /\ Reserved \subseteq {FirstJob(queue)}
          /\ FirstJob(queue) \in Reserved \cup {NullJob}
      BY DEF OnlyPriorityIsReserved, Priority, StillToTry
    <3>2. NullJob \notin Reserved
      BY JobsByStatus
    <3>. QED  BY <3>1, <3>2
  <2>4. {j \in Jobs : ContainsJob(profile, j)}
          = {j \in Jobs : status[j] = "running"} \cup ToSet(ended) \cup Reserved
    BY JobsByStatus DEF ProfileMatchesJobs
  <2>. QED  BY <2>1, <2>2, <2>3, <2>4 DEF ScheduleMatchesPlatform
<1>. QED  BY <1>1, InvHolds, PTL

\* The reservation is ahead of the present whenever the scheduler has replied, and
\* another job holds it up whose end will be told; the assertions of
\* update_first_slice hold.
THEOREM ReservationIsAheadHolds == Spec => []ReservationIsAhead
<1>1. Inv => ReservationIsAhead
  <2>. SUFFICES ASSUME Inv
                PROVE  ReservationIsAhead
    OBVIOUS
  <2>. USE DEF Inv
  <2>1. pc = "released" => IsPresent(profile, now)
    BY PresentIsFirst DEF IsPresent, PointsMatchLocals
  <2>2. ASSUME pc = "batsim", queue # <<>>, NEW i, i = FirstJob(queue)
        PROVE  /\ BeginOf(profile, i) >= now /\ 1 \notin SlicesOf(profile, i)
               /\ \E k \in Jobs : status[k] = "running" \/ k \in ToSet(ended)
    <3>1. i \in Waiting /\ i \in Jobs /\ NullJob \notin Jobs
      BY <2>2, FirstOfQueue, JobsByStatus DEF Types, Waiting
    <3>2. i \in Reserved /\ Reserved \subseteq {i}
      BY <2>2, <3>1 DEF OnlyPriorityIsReserved, Priority, StillToTry
    <3>3. BeginOf(profile, i) = Allocation(profile, i).begin
          /\ Allocation(profile, i).present = (1 \in SlicesOf(profile, i))
      BY DEF Allocation
    <3>4. ~Allocation(profile, i).present /\ now <= Allocation(profile, i).begin
      BY <3>2 DEF ReservationAhead
    <3>5. PICK k \in Jobs : k # i /\ ContainsJob(profile, k)
      BY <2>2, <3>2
         DEF ReservationFollows, FollowsAnother, EndsBefore, TraversalAhead, StillToTry
    <3>6. status[k] = "running" \/ k \in ToSet(ended)
      BY <3>2, <3>5 DEF ProfileMatchesJobs
    <3>7. BeginOf(profile, i) >= now
      BY <3>3, <3>4
    <3>. QED  BY <3>3, <3>4, <3>5, <3>6, <3>7
  <2>. QED  BY <2>1, <2>2 DEF ReservationIsAhead
<1>. QED  BY <1>1, InvHolds, PTL

\* No step postpones the reservation of a job that keeps it, be it the end of
\* another job, the passing of time, a backfilled job, an attempt that is undone or
\* the reservation made anew.
THEOREM ReservationNeverPostponedHolds == Spec => ReservationNeverPostponed
<1>. DEFINE Kept == \A j \in Waiting :
                      ContainsJob(profile, j) /\ ContainsJob(profile', j)
                        => BeginOf(profile', j) <= BeginOf(profile, j)
<1>1. Inv /\ [Next]_vars => [Kept]_profile
  <2>. SUFFICES ASSUME Inv, [Next]_vars, profile' # profile, NEW j \in Waiting,
                       ContainsJob(profile, j), ContainsJob(profile', j)
                PROVE  BeginOf(profile', j) <= BeginOf(profile, j)
    OBVIOUS
  <2>. USE DEF Inv
  <2>1. /\ IsSound(profile, Jobs, Machines, res) /\ IsFiniteSet(Machines)
        /\ j \in Jobs /\ status[j] = "waiting" /\ j \notin ToSet(ended)
        /\ ToSet(ended) \subseteq Jobs
    BY JobsByStatus, JobsOfProfile
  <2>2. /\ BeginOf(profile, j) = Allocation(profile, j).begin
        /\ BeginOf(profile', j) = Allocation(profile', j).begin
    BY DEF Allocation
  <2>3. BeginOf(profile, j) \in Int
    <3>1. Allocation(profile, j).begin \in Int
      BY <2>1, AllocationFacts
    <3>. QED  BY <2>2, <3>1
  <2>4. CASE RemoveEnded
    <3>1. PICK k : k = Head(ended)
      OBVIOUS
    <3>2. k \in ToSet(ended) /\ k \in Jobs
      BY <2>1, <2>4, <3>1, TailOfInjective DEF RemoveEnded, Types, QueuesMatchStatus
    <3>3. ContainsJob(profile, k)
      BY <3>2 DEF ProfileMatchesJobs
    <3>4. profile' = RemoveJob(profile, k, res[k])
      BY <2>4, <3>1 DEF RemoveEnded
    <3>5. IsRemoved(profile', profile, k)
      BY <2>1, <3>2, <3>3, <3>4, RemoveSound
    <3>6. k # j
      BY <2>1, <3>2
    <3>7. Allocation(profile', j) = Allocation(profile, j)
      BY <3>5, <3>6 DEF IsRemoved, SameAllocation
    <3>. QED  BY <2>2, <2>3, <3>7
  <2>5. CASE UpdatePresent
    <3>1. j \in Reserved
      BY <2>1 DEF Reserved
    <3>2. Allocation(profile', j).begin = Allocation(profile, j).begin
      BY <2>1, <2>5, <3>1, ScheduleUpToDate DEF IsUpToDate, ReservationAhead
    <3>. QED  BY <2>2, <2>3, <3>2
  <2>6. CASE PlacesNoJob
    <3>1. Allocation(profile', j) = Allocation(profile, j)
      BY <2>1, <2>6 DEF PlacesNoJob, SaysTheSame, SameAllocation
    <3>. QED  BY <2>2, <2>3, <3>1
  <2>7. ASSUME NEW k \in Waiting, PlacesJob(k)
        PROVE  BeginOf(profile', j) <= BeginOf(profile, j)
    <3>1. IsPlaced(profile', k)
      BY <2>7, QueuedIsPlaced DEF PlacesJob
    <3>2. CASE k = j
      <4>1. Allocation(profile', j).begin = Alloc(Without(j), j).begin
        BY <3>1, <3>2, PlaceOfJob
      <4>2. Alloc(Without(j), j).begin <= Allocation(profile, j).begin
        BY <3>1, <3>2 DEF IsPlaced
      <4>. QED  BY <2>2, <4>1, <4>2
    <3>3. CASE k # j
      <4>1. Allocation(profile', j) = Allocation(profile, j)
        BY <3>1, <3>3, PlaceOfJob
      <4>. QED  BY <2>2, <2>3, <4>1
    <3>. QED  BY <3>2, <3>3
  <2>8. CASE InsertPriority \/ TryNew \/ TryQueued
    BY <2>6, <2>7, <2>8, OneIsPlaced
  <2>. QED
    BY <2>4, <2>5, <2>8
       DEF Next, Platform, MakeDecisions, Terminated, Receive, EndedHandled,
           RejectReleased, QueueReleased, ChooseLoop, Reply, schedVars, vars
<1>2. ReservationNeverPostponed <=> [][Kept]_profile
  BY DEF ReservationNeverPostponed
<1>. QED  BY <1>1, <1>2, InvHolds, PTL DEF Spec


-------------------------------------------------------------------------------
(* Nothing more can be backfilled.                                         *)

\* The machines that no allocation has, from now on and for a time w.
FreeFor(w) == FreeUntil(profile, Jobs, Machines, now + w)

\* The job does not fit on them.
CannotStart(j) == Fit(FreeFor(walltime[j]), res[j]) = {}

\* The jobs of a queue come in the order of their numbers and of their releases.
InOrder(q) ==
  /\ \A h, i \in DOMAIN q : h < i => /\ q[h].job < q[i].job
                                     /\ q[h].release <= q[i].release
  /\ \A i \in DOMAIN q : q[i].release <= now

\* Jobs are submitted, released and queued in that order.
ArrivalOrder ==
  /\ \A j, k \in Jobs : k < j /\ status[j] # "future" => status[k] # "future"
  /\ Ascending(released)
  /\ \A j \in Waiting, k \in ToSet(released) : j < k
  /\ InOrder(queue)

\* The new jobs, and the priority job at the beginning of the message: it is still
\* the first, unless the queue was empty.
NewJobs ==
  /\ pc \in {"batsim", "ended"} => recent = <<>>
  /\ pc = "batsim" => ~jobEnded
  /\ pc = "traverse" => jobEnded
  /\ pc = "released" => IF before = NullJob THEN Waiting \subseteq ToSet(recent)
                                            ELSE before = FirstJob(queue)

\* The loops do not miss a machine that is free.
CountsFree ==
  pc \in {"backfill", "traverse"} =>
    Cardinality(profile[1].available) <= nbAvailable

\* The jobs that need not be tried, unless jobs have ended, and those that have been
\* tried if the whole queue is traversed.
TriedInVain ==
  /\ ~jobEnded /\ ended = <<>> =>
       \A j \in Waiting \ (ToSet(recent) \cup {Priority}) : CannotStart(j)
  /\ pc = "traverse" =>
       \A i \in DOMAIN queue : 1 < i /\ i < cursor => CannotStart(queue[i].job)

BackfillIsSound == ArrivalOrder /\ NewJobs /\ CountsFree /\ TriedInVain

BackfillInv == order = "fcfs" => BackfillIsSound

\* Positions of a queue, and of one that has some of its elements in the same order.
IsPart(r, q) ==
  \E f \in [1 .. Len(r) -> 1 .. Len(q)] :
    /\ \A h, i \in 1 .. Len(r) : h < i => f[h] < f[i]
    /\ \A i \in 1 .. Len(r) : r[i] = q[f[i]]

\* Such a part of a queue is in order if the queue is.
LEMMA PartInOrder ==
  ASSUME NEW q \in Seq(Entries(Jobs)), NEW r \in Seq(Entries(Jobs)),
         IsPart(r, q), InOrder(q)
  PROVE  InOrder(r)
<1>1. DOMAIN q = 1 .. Len(q) /\ DOMAIN r = 1 .. Len(r)
  BY LenProperties
<1>2. PICK f \in [1 .. Len(r) -> 1 .. Len(q)] :
        /\ \A h, i \in 1 .. Len(r) : h < i => f[h] < f[i]
        /\ \A i \in 1 .. Len(r) : r[i] = q[f[i]]
  BY DEF IsPart
<1>. QED  BY <1>1, <1>2 DEF InOrder

\* remove_job leaves a part, and so does removing the job at a position.
LEMMA PartOfQueue ==
  ASSUME NEW q \in Seq(Entries(Jobs)), InOrder(q)
  PROVE  /\ \A j : InOrder(RemoveFromQueue(q, j))
         /\ \A c \in 1 .. Len(q) : InOrder(RemoveAt(q, c))
<1>1. DOMAIN q = 1 .. Len(q) /\ Len(q) \in Nat
  BY LenProperties
<1>2. ASSUME NEW j
      PROVE  InOrder(RemoveFromQueue(q, j))
  <2>1. PICK r, K : r = RemoveFromQueue(q, j) /\ K = {k \in DOMAIN q : q[k].job # j}
    OBVIOUS
  <2>2. K \in SUBSET (1 .. Len(q)) /\ r = Selection(q, K)
    BY <1>1, <2>1 DEF RemoveFromQueue
  <2>3. PICK p \in [1 .. Cardinality(K) -> K] :
           /\ \A h, i \in 1 .. Cardinality(K) : h < i => p[h] < p[i]
           /\ r = [i \in 1 .. Cardinality(K) |-> q[p[i]]]
    BY <2>2, SelectionPositions
  <2>4. r \in Seq(Entries(Jobs))
    BY <2>2, SelectionElements
  <2>5. DOMAIN r = 1 .. Cardinality(K) /\ DOMAIN r = 1 .. Len(r)
    BY <2>3, <2>4, LenProperties
  <2>6. p \in [1 .. Len(r) -> 1 .. Len(q)]
    BY <2>2, <2>5
  <2>7. IsPart(r, q)
    BY <2>3, <2>5, <2>6 DEF IsPart
  <2>. QED  BY <2>1, <2>4, <2>7, PartInOrder
<1>3. ASSUME NEW c \in 1 .. Len(q)
      PROVE  InOrder(RemoveAt(q, c))
  <2>1. PICK r, n : r = RemoveAt(q, c) /\ n = Len(q)
    OBVIOUS
  <2>2. /\ r \in Seq(Entries(Jobs)) /\ Len(r) = n - 1
        /\ \A i \in 1 .. n - 1 : r[i] = IF i < c THEN q[i] ELSE q[i + 1]
    BY <2>1, RemoveAtProperties
  <2>3. PICK f : f = [i \in 1 .. n - 1 |-> IF i < c THEN i ELSE i + 1]
    OBVIOUS
  <2>4. /\ f \in [1 .. n - 1 -> 1 .. n]
        /\ \A h, i \in 1 .. n - 1 : h < i => f[h] < f[i]
        /\ \A i \in 1 .. n - 1 : r[i] = q[f[i]]
    BY <1>1, <2>1, <2>2, <2>3
  <2>5. IsPart(r, q)
    BY <2>1, <2>2, <2>4 DEF IsPart
  <2>. QED  BY <2>1, <2>2, <2>5, PartInOrder
<1>. QED  BY <1>2, <1>3

\* A job that is appended comes last, and the first remains so.
LEMMA AppendInOrder ==
  ASSUME NEW q \in Seq(Entries(Jobs)), InOrder(q), now \in Int, NEW j \in Jobs,
         \A k \in JobsOf(q) : k < j, NEW r, r = AppendJobs(q, <<j>>, now)
  PROVE  /\ InOrder(r)
         /\ q # <<>> => FirstJob(r) = FirstJob(q)
<1>1. PICK e, n : e = [job |-> j, release |-> now] /\ n = Len(q)
  OBVIOUS
<1>2. e \in Entries(Jobs) /\ e.job = j /\ e.release = now
  BY <1>1 DEF Entries
<1>3. r = Append(q, e)
  <2>1. [k \in DOMAIN <<j>> |-> [job |-> <<j>>[k], release |-> now]] = <<e>>
    BY <1>1
  <2>2. r = q \o <<e>>
    BY <2>1 DEF AppendJobs
  <2>. QED  BY <1>2, <2>2
<1>4. /\ r \in Seq(Entries(Jobs)) /\ Len(r) = n + 1
      /\ \A k \in 1 .. n : r[k] = q[k]
      /\ r[n + 1] = e
  <2>1. /\ Append(q, e) \in Seq(Entries(Jobs)) /\ Len(Append(q, e)) = Len(q) + 1
        /\ \A k \in 1 .. Len(q) : Append(q, e)[k] = q[k]
        /\ Append(q, e)[Len(q) + 1] = e
    BY <1>2, AppendProperties
  <2>. QED  BY <1>1, <1>3, <2>1
<1>5. DOMAIN q = 1 .. n /\ DOMAIN r = 1 .. n + 1 /\ n \in Nat
  BY <1>1, <1>4, LenProperties
<1>6. /\ \A k \in 1 .. n : q[k].job < j /\ q[k].release <= now
      /\ \A h, i \in 1 .. n : h < i => /\ q[h].job < q[i].job
                                       /\ q[h].release <= q[i].release
  BY <1>5 DEF JobsOf, InOrder
<1>7. \A k \in 1 .. n + 1 : k = n + 1 \/ k \in 1 .. n
  BY <1>5
<1>8. InOrder(r)
  <2>1. ASSUME NEW h \in 1 .. n + 1, NEW i \in 1 .. n + 1, h < i
        PROVE  r[h].job < r[i].job /\ r[h].release <= r[i].release
    <3>1. h \in 1 .. n
      BY <1>5, <2>1
    <3>2. CASE i \in 1 .. n
      BY <1>4, <1>6, <2>1, <3>1, <3>2
    <3>3. CASE i = n + 1
      BY <1>2, <1>4, <1>6, <3>1, <3>3
    <3>. QED  BY <1>7, <3>2, <3>3
  <2>2. ASSUME NEW i \in 1 .. n + 1
        PROVE  r[i].release <= now
    BY <1>2, <1>4, <1>6, <1>7
  <2>. QED  BY <1>5, <2>1, <2>2 DEF InOrder
<1>9. ASSUME q # <<>>
      PROVE  FirstJob(r) = FirstJob(q)
  <2>1. 1 \in 1 .. n /\ FirstJob(q) = q[1].job
    BY <1>1, <1>9, FirstOfQueue
  <2>2. r # <<>>
    BY <1>4, <1>5
  <2>3. FirstJob(r) = r[1].job
    BY <1>4, <2>2, FirstOfQueue
  <2>. QED  BY <1>4, <2>1, <2>3
<1>. QED  BY <1>8, <1>9

\* Sorting by arrival leaves a queue that is in order as it is.
LEMMA SortInOrder ==
  ASSUME Types, order = "fcfs", InOrder(queue)
  PROVE  InOrder(SortedQueue) /\ FirstJob(SortedQueue) = FirstJob(queue)
<1>1. PICK q, s, n : q = queue /\ s = SortedQueue /\ n = Len(q)
  OBVIOUS
<1>2. /\ order \in QueueOrders /\ res \in [Jobs -> Int] /\ walltime \in [Jobs -> Int]
      /\ now \in Int /\ q \in Seq(Entries(Jobs)) /\ Jobs \in SUBSET Int
  BY <1>1, BoundsAssumption DEF Types, Jobs
<1>3. s = SortQueue(order, res, walltime, now, q)
  BY <1>1 DEF SortedQueue
<1>4. /\ s \in Seq(Entries(Jobs)) /\ Len(s) = n /\ Rearranges(s, q)
      /\ \A h, i \in 1 .. n : h < i =>
           ~Precedes(order, res, walltime, now, s[i], s[h])
  BY <1>1, <1>2, <1>3, SortQueuePositions
<1>5. /\ DOMAIN q = 1 .. n /\ DOMAIN s = 1 .. n /\ n \in Nat
      /\ \A k \in 1 .. n : q[k] \in Entries(Jobs)
  BY <1>1, <1>2, <1>4, LenProperties, ElementOfSeq
<1>6. \A k \in 1 .. n : q[k].job \in Int /\ q[k].release \in Int
  BY <1>2, <1>5 DEF Entries
<1>7. PICK f \in [1 .. n -> 1 .. n] :
        /\ \A h, i \in 1 .. n : h # i => f[h] # f[i]
        /\ \A k \in 1 .. n : s[k] = q[f[k]]
  BY <1>1, <1>4 DEF Rearranges
<1>8. \A h, i \in 1 .. n : h < i => /\ q[h].job < q[i].job
                                    /\ q[h].release <= q[i].release
  BY <1>1, <1>5 DEF InOrder
<1>9. ASSUME NEW h \in 1 .. n, NEW i \in 1 .. n, h < i
      PROVE  f[h] < f[i]
  <2>. SUFFICES ASSUME f[i] < f[h]
                PROVE  FALSE
    BY <1>7, <1>9
  <2>1. q[f[i]].job < q[f[h]].job /\ q[f[i]].release <= q[f[h]].release
    BY <1>7, <1>8
  <2>2. ~FCFSOrder(s[i], s[h])
    BY <1>4, <1>9 DEF Precedes
  <2>3. /\ s[i] = q[f[i]] /\ s[h] = q[f[h]]
        /\ s[i].release \in Int /\ s[h].release \in Int
    BY <1>6, <1>7
  <2>4. s[i].job < s[h].job /\ s[i].release <= s[h].release
    BY <2>1, <2>3
  <2>5. FCFSOrder(s[i], s[h])
    BY <2>3, <2>4 DEF FCFSOrder, ByKey
  <2>. QED  BY <2>2, <2>5
<1>10. IsPart(s, q)
  <2>1. f \in [1 .. Len(s) -> 1 .. Len(q)] /\ Len(s) = n
    BY <1>1, <1>4, <1>7
  <2>. QED  BY <1>7, <1>9, <2>1 DEF IsPart
<1>11. InOrder(s)
  BY <1>1, <1>2, <1>4, <1>10, PartInOrder
<1>12. FirstJob(s) = FirstJob(q)
  <2>1. JobsOf(s) = JobsOf(q)
    BY <1>2, <1>3, SortQueueElements
  <2>2. CASE q = <<>>
    <3>1. JobsOf(s) = {}
      BY <1>2, <2>1, <2>2, FirstOfQueue
    <3>2. s = <<>>
      BY <1>4, <3>1, FirstOfQueue
    <3>. QED  BY <2>2, <3>2
  <2>3. CASE q # <<>>
    <3>1. 1 \in 1 .. n /\ FirstJob(q) = q[1].job /\ q[1].job \in JobsOf(q)
      BY <1>1, <1>2, <2>3, FirstOfQueue
    <3>2. s # <<>>
      BY <1>4, <2>1, <3>1, FirstOfQueue
    <3>3. FirstJob(s) = s[1].job
      BY <1>4, <3>2, FirstOfQueue
    <3>4. PICK k \in 1 .. n : s[k].job = q[1].job
      BY <1>5, <2>1, <3>1 DEF JobsOf
    <3>5. f[1] \in 1 .. n /\ s[1].job = q[f[1]].job
      BY <1>7, <3>1
    <3>6. CASE k = 1
      BY <3>3, <3>1, <3>4, <3>6
    <3>7. CASE k # 1
      <4>1. f[1] < f[k] /\ f[k] \in 1 .. n
        BY <1>7, <1>9, <3>1, <3>7
      <4>2. q[f[1]].job < q[f[k]].job /\ s[k] = q[f[k]]
        BY <1>7, <1>8, <3>5, <4>1
      <4>3. q[1].job < q[f[k]].job
        BY <1>8, <3>1, <3>5, <4>1
      <4>. QED  BY <1>6, <3>1, <3>4, <4>1, <4>2, <4>3
    <3>. QED  BY <3>6, <3>7
  <2>. QED  BY <2>2, <2>3
<1>. QED  BY <1>1, <1>11, <1>12

\* What is known of a job of the queue.
LEMMA WaitingJob ==
  ASSUME Inv, NEW j \in Waiting
  PROVE  /\ j \in Jobs /\ status[j] = "waiting" /\ j \notin Started
         /\ res[j] \in 1 .. NbMachines /\ res[j] \in Int
         /\ walltime[j] \in Nat \ {0} /\ hasWalltime[j]
         /\ Places(Machines, res[j]) /\ Fit(Machines, res[j]) # {}
         /\ ContainsJob(profile, j) <=> j \in Reserved
<1>. USE DEF Inv
<1>1. j \in Jobs /\ status[j] = "waiting"
  BY JobsByStatus
<1>2. IsValid(j)
  BY <1>1 DEF JobsAreSound
<1>3. res[j] \in 1 .. NbMachines /\ walltime[j] \in Nat \ {0} /\ hasWalltime[j]
  BY <1>1, <1>2, AcceptedJob
<1>4. Places(Machines, res[j]) /\ Fit(Machines, res[j]) # {}
  BY <1>3, SelectorPlaces
<1>. QED  BY <1>1, <1>3, <1>4 DEF Started, Reserved

\* A job starts at once unless it does not fit on the machines that are free for as
\* long as it lasts, in a schedule that begins now and in which they are free.
LEMMA StartsUnlessFull ==
  ASSUME Inv, NEW j \in Waiting,
         NEW p, IsSound(p, Jobs, Machines, res), p[1].begin = now,
         p[Len(p)].begin + walltime[j] < Infinity,
         FreeUntil(p, Jobs, Machines, now + walltime[j]) = FreeFor(walltime[j])
  PROVE  StartsNow(p, j) <=> ~CannotStart(j)
<1>1. PICK c, w, alloc : c = res[j] /\ w = walltime[j] /\ alloc = JobAlloc(p, c, w)
  OBVIOUS
<1>2. /\ c \in Int /\ w \in Nat \ {0} /\ Places(Machines, c) /\ Fit(Machines, c) # {}
      /\ IsFiniteSet(Machines) /\ IsPartition(p, Jobs, Machines, res)
  BY <1>1, WaitingJob, MachinesFinite DEF IsSound
<1>3. IsPlace(alloc, p, Machines, c, w)
  BY <1>1, <1>2, PlaceExists
<1>4. alloc.startedInFirstSlice
        <=> Fit(FreeUntil(p, Jobs, Machines, p[1].begin + w), c) # {}
  BY <1>2, <1>3, StartsIfFree
<1>. QED  BY <1>1, <1>4 DEF StartsNow, Alloc, CannotStart

\* So it is when the job is tried.
LEMMA TrialDecides ==
  ASSUME Inv, pc \notin {"batsim", "ended", "released"}, NEW j \in Waiting,
         ~ContainsJob(profile, j)
  PROVE  StartsNow(profile, j) <=> ~CannotStart(j)
<1>1. IsSound(profile, Jobs, Machines, res) /\ profile[1].begin = now
  BY DEF Inv, ProfileMatchesJobs
<1>2. profile[Len(profile)].begin + walltime[j] < Infinity
  BY RoomForJob
<1>. QED  BY <1>1, <1>2, StartsUnlessFull DEF FreeFor

\* And when the first slice is updated after the last message.
LEMMA UpdateDecides ==
  ASSUME Inv, ended = <<>>, NEW j \in Waiting, ~ContainsJob(profile, j)
  PROVE  StartsNow(UpdateFirstSlice(profile, now), j) <=> ~CannotStart(j)
<1>. USE DEF Inv
<1>1. PICK p, w, C : /\ p = UpdateFirstSlice(profile, now) /\ w = walltime[j]
                     /\ C = Cardinality(Started)
  OBVIOUS
<1>2. /\ IsSound(profile, Jobs, Machines, res) /\ now \in Int
      /\ now <= profile[1].end
  BY JobsOfProfile, PresentIsFirst
<1>3. IsSound(p, Jobs, Machines, res) /\ IsUpdated(p, profile, now)
  BY <1>1, <1>2, UpdateSound
<1>4. p[1].begin = now /\ p[Len(p)].begin \in {profile[Len(profile)].begin, now}
  BY <1>3 DEF IsUpdated
<1>5. FreeUntil(p, Jobs, Machines, now + w) = FreeUntil(profile, Jobs, Machines, now + w)
  <2>1. \A k \in Jobs :
          /\ ContainsJob(profile, k) <=> ContainsJob(p, k)
          /\ ContainsJob(profile, k) =>
               /\ Allocation(p, k).machines = Allocation(profile, k).machines
               /\ Allocation(p, k).present = Allocation(profile, k).present
               /\ ~Allocation(profile, k).present =>
                    Allocation(p, k).begin = Allocation(profile, k).begin
    BY <1>3 DEF IsUpdated
  <2>2. \A m \in Machines, k \in Jobs :
          (/\ ContainsJob(p, k)
           /\ Allocation(p, k).present \/ Allocation(p, k).begin < now + w
           => m \notin Allocation(p, k).machines)
          <=> (/\ ContainsJob(profile, k)
               /\ Allocation(profile, k).present
                    \/ Allocation(profile, k).begin < now + w
               => m \notin Allocation(profile, k).machines)
    BY <2>1
  <2>. QED  BY <2>2 DEF FreeUntil
<1>6. now + w < Infinity
  <2>1. PICK W \in Nat : IsHorizon(W)
    BY DEF HorizonIsAhead
  <2>2. /\ j \in Jobs /\ j \notin Started /\ hasWalltime[j] /\ w \in Nat
        /\ status[j] # "future" /\ Started \in SUBSET Jobs
    BY <1>1, WaitingJob, JobsByStatus
  <2>3. now <= TimeOf(C, W) /\ w <= W /\ BoundsWalltimes(W)
    BY <1>1, <2>1, <2>2 DEF IsHorizon, BoundsWalltimes
  <2>4. C + 1 \in 0 .. NbJobs
    <3>1. Started \cup {j} \in SUBSET Jobs
      BY <2>2
    <3>2. Cardinality(Started \cup {j}) = C + 1
      BY <1>1, <2>2, JobsCounted
    <3>. QED  BY <3>1, <3>2, JobsCounted
  <2>5. PICK x, y : x = TimeOf(C, W) /\ y = TimeOf(C + 1, W)
    OBVIOUS
  <2>6. x \in Nat /\ y = x + W
    BY <1>1, <2>1, <2>5, HorizonIsTime
  <2>7. y < Infinity /\ Infinity \in Nat
    BY <2>3, <2>4, <2>5, TimeBeforeInfinity
  <2>. QED  BY <1>2, <2>2, <2>3, <2>5, <2>6, <2>7
<1>7. p[Len(p)].begin + w < Infinity
  BY <1>1, <1>4, <1>6, RoomForJob
<1>. QED  BY <1>1, <1>3, <1>4, <1>5, <1>7, StartsUnlessFull DEF FreeFor

\* A job that needs more machines than are free does not fit on them.
LEMMA TooLargeToStart ==
  ASSUME Inv, NEW j \in Waiting, Cardinality(profile[1].available) < res[j]
  PROVE  CannotStart(j)
<1>1. PICK A, F, c : /\ A = profile[1].available /\ F = FreeFor(walltime[j])
                     /\ c = res[j]
  OBVIOUS
<1>2. /\ IsSound(profile, Jobs, Machines, res) /\ IsFiniteSet(Machines)
      /\ now \in Int /\ c \in Int /\ walltime[j] \in Int /\ Places(Machines, c)
      /\ 1 \in 1 .. Len(profile)
  <2>1. Len(profile) \in Nat /\ Len(profile) >= 1
    BY JobsOfProfile, LenProperties DEF IsSound, IsPartition
  <2>. QED  BY <1>1, <2>1, WaitingJob, JobsOfProfile
<1>3. F \subseteq A /\ F \in SUBSET Machines
  <2>1. now + walltime[j] \in Int
    BY <1>2
  <2>. QED  BY <1>1, <1>2, <2>1, FreeInSlice DEF FreeFor, FreeUntil
<1>4. A \in SUBSET Machines /\ Cardinality(A) \in Nat /\ Cardinality(A) < c
  BY <1>1, FreeMachines
<1>5. ASSUME Fit(F, c) # {}
      PROVE  FALSE
  <2>1. Fit(F, c) \subseteq F /\ Cardinality(Fit(F, c)) = c
    BY <1>2, <1>3, <1>5 DEF Places
  <2>2. Fit(F, c) \in SUBSET A /\ IsFiniteSet(A)
    BY <1>3, <1>4, <2>1, MachinesFinite
  <2>3. c <= Cardinality(A)
    BY <2>1, <2>2, CountMonotonic
  <2>. QED  BY <1>2, <1>4, <2>3
<1>. QED  BY <1>1, <1>5 DEF CannotStart

\* The allocations that there are stay as they are, from now on.
KeepsAllocations ==
  \A k \in Jobs : ContainsJob(profile, k) =>
    /\ ContainsJob(profile', k)
    /\ Allocation(profile', k).machines = Allocation(profile, k).machines
    /\ Allocation(profile', k).present = Allocation(profile, k).present
    /\ ~Allocation(profile, k).present =>
         Allocation(profile', k).begin = Allocation(profile, k).begin

\* Then a job that could not start cannot start later either.
LEMMA StillCannotStart ==
  ASSUME Inv, KeepsAllocations, now' \in Int, now <= now', NEW j \in Waiting,
         res'[j] = res[j], walltime'[j] = walltime[j], CannotStart(j)
  PROVE  CannotStart(j)'
<1>1. PICK w, c : w = walltime[j] /\ c = res[j]
  OBVIOUS
<1>2. PICK F, G : F = FreeFor(w) /\ G = FreeUntil(profile', Jobs, Machines, now' + w)
  OBVIOUS
<1>3. /\ w \in Int /\ now \in Int /\ Places(Machines, c)
      /\ IsSound(profile, Jobs, Machines, res) /\ IsFiniteSet(Machines)
  BY <1>1, WaitingJob, JobsOfProfile
<1>4. F \in SUBSET Machines /\ G \in SUBSET Machines
  BY <1>2 DEF FreeFor, FreeUntil
<1>5. G \subseteq F
  <2>. SUFFICES ASSUME NEW m \in G, NEW k \in Jobs, ContainsJob(profile, k),
                       \/ Allocation(profile, k).present
                       \/ Allocation(profile, k).begin < now + w
                PROVE  m \notin Allocation(profile, k).machines
    BY <1>2, <1>4 DEF FreeFor, FreeUntil
  <2>1. Allocation(profile, k).begin \in Int /\ Allocation(profile, k).present \in BOOLEAN
    BY <1>3, AllocationFacts
  <2>2. /\ ContainsJob(profile', k)
        /\ Allocation(profile', k).machines = Allocation(profile, k).machines
        /\ Allocation(profile', k).present = Allocation(profile, k).present
        /\ ~Allocation(profile, k).present =>
             Allocation(profile', k).begin = Allocation(profile, k).begin
    BY DEF KeepsAllocations
  <2>3. Allocation(profile, k).begin < now + w => Allocation(profile, k).begin < now' + w
    BY <1>3, <2>1
  <2>4. \/ Allocation(profile', k).present
        \/ Allocation(profile', k).begin < now' + w
    BY <2>1, <2>2, <2>3
  <2>5. m \notin Allocation(profile', k).machines
    BY <1>2, <2>2, <2>4 DEF FreeUntil
  <2>. QED  BY <2>2, <2>5
<1>6. Fit(G, c) = {}
  <2>. SUFFICES ASSUME Fit(G, c) # {}
                PROVE  FALSE
    OBVIOUS
  <2>1. Fit(G, c) \subseteq G /\ CanHold(Fit(G, c), Machines, c)
    BY <1>3, <1>4 DEF Places
  <2>2. Fit(F, c) # {}
    BY <1>4, <1>5, <2>1 DEF CanHold
  <2>. QED  BY <1>1, <1>2, <2>2 DEF CannotStart
<1>. QED  BY <1>1, <1>2, <1>6 DEF CannotStart, FreeFor

\* A job that is placed takes no other job's machines, and if it starts it takes as
\* many as it requests from those that are free.
LEMMA StartTakesMachines ==
  ASSUME Inv, NEW j \in Waiting, profile' = Insert(Without(j), j)
  PROVE  /\ profile'[1].available \subseteq profile[1].available
         /\ StartsNow(Without(j), j) =>
              Cardinality(profile'[1].available)
                <= Cardinality(profile[1].available) - res[j]
         /\ ~ContainsJob(profile, j) => KeepsAllocations
<1>. USE DEF Inv
<1>1. PICK q, alloc : q = profile' /\ alloc = Alloc(Without(j), j)
  OBVIOUS
<1>2. IsPlaced(q, j) /\ j \in Jobs
  BY <1>1, QueuedIsPlaced, WaitingJob
<1>3. PICK X : X = alloc.machines
  OBVIOUS
<1>4. /\ IsSound(q, Jobs, Machines, res) /\ ContainsJob(q, j)
      /\ Allocation(q, j).machines = X
      /\ Allocation(q, j).present <=> alloc.startedInFirstSlice
      /\ X \in SUBSET Machines
      /\ \A k : k # j =>
           /\ ContainsJob(profile, k) <=> ContainsJob(q, k)
           /\ ContainsJob(profile, k) => Allocation(q, k) = Allocation(profile, k)
      /\ alloc.startedInFirstSlice =>
           \A k \in Jobs :
             k # j /\ ContainsJob(profile, k) /\ Allocation(profile, k).present
               => X \cap Allocation(profile, k).machines = {}
  BY <1>1, <1>2, <1>3, PlaceOfJob
<1>5. Cardinality(X) = res[j] /\ res[j] \in Int
  BY <1>1, <1>2, <1>3, WaitingJob DEF IsPlaced, IsInserted
<1>6. ~(ContainsJob(profile, j) /\ Allocation(profile, j).present)
  BY WaitingJob DEF ReservationAhead
<1>7. PICK A, B : A = profile[1].available /\ B = q[1].available
  OBVIOUS
<1>8. /\ A \in SUBSET Machines
      /\ \A m \in Machines : m \in A <=>
           \A k \in Jobs : ContainsJob(profile, k) /\ Allocation(profile, k).present
                             => m \notin Allocation(profile, k).machines
  BY <1>7, JobsOfProfile, FreeAtPresent
<1>9. /\ B \in SUBSET Machines
      /\ \A m \in Machines : m \in B <=>
           \A k \in Jobs : ContainsJob(q, k) /\ Allocation(q, k).present
                             => m \notin Allocation(q, k).machines
  BY <1>4, <1>7, MachinesFinite, FreeAtPresent
<1>10. B \subseteq A
  <2>. SUFFICES ASSUME NEW m \in B, NEW k \in Jobs, ContainsJob(profile, k),
                       Allocation(profile, k).present
                PROVE  m \notin Allocation(profile, k).machines
    BY <1>8, <1>9
  <2>1. k # j
    BY <1>6
  <2>2. ContainsJob(q, k) /\ Allocation(q, k) = Allocation(profile, k)
    BY <1>4, <2>1
  <2>. QED  BY <1>9, <2>2
<1>11. ASSUME alloc.startedInFirstSlice
       PROVE  Cardinality(B) <= Cardinality(A) - res[j]
  <2>1. X \subseteq A
    <3>. SUFFICES ASSUME NEW m \in X, NEW k \in Jobs, ContainsJob(profile, k),
                         Allocation(profile, k).present
                  PROVE  m \notin Allocation(profile, k).machines
      BY <1>4, <1>8
    <3>1. k # j
      BY <1>6
    <3>. QED  BY <1>4, <1>11, <3>1
  <2>2. B \cap X = {}
    BY <1>2, <1>4, <1>9, <1>11
  <2>3. B \in SUBSET (A \ X) /\ IsFiniteSet(A) /\ X \in SUBSET A /\ IsFiniteSet(A \ X)
    <3>1. A \in SUBSET Machines /\ A \ X \in SUBSET Machines
      BY <1>8
    <3>. QED  BY <1>10, <2>1, <2>2, <3>1, MachinesFinite
  <2>4. Cardinality(B) <= Cardinality(A \ X)
    BY <2>3, CountMonotonic
  <2>5. Cardinality(A \ X) = Cardinality(A) - Cardinality(X)
    BY <2>3, CountRemoved
  <2>. QED  BY <1>5, <2>4, <2>5
<1>12. ~ContainsJob(profile, j) => KeepsAllocations
  BY <1>1, <1>4 DEF KeepsAllocations
<1>. QED  BY <1>1, <1>7, <1>10, <1>11, <1>12 DEF StartsNow

\* A schedule that says the same has the same machines free.
LEMMA SameMachinesFree ==
  ASSUME Inv, SaysTheSame
  PROVE  KeepsAllocations /\ profile'[1].available = profile[1].available
<1>1. \A k \in Jobs :
        /\ ContainsJob(profile, k) <=> ContainsJob(profile', k)
        /\ ContainsJob(profile, k) => Allocation(profile', k) = Allocation(profile, k)
  BY DEF SaysTheSame, SameAllocation
<1>2. KeepsAllocations
  BY <1>1 DEF KeepsAllocations
<1>3. PICK q, A, B : /\ q = profile' /\ A = profile[1].available
                     /\ B = q[1].available
  OBVIOUS
<1>4. /\ A \in SUBSET Machines
      /\ \A m \in Machines : m \in A <=>
           \A k \in Jobs : ContainsJob(profile, k) /\ Allocation(profile, k).present
                             => m \notin Allocation(profile, k).machines
  BY <1>3, JobsOfProfile, FreeAtPresent
<1>5. /\ B \in SUBSET Machines
      /\ \A m \in Machines : m \in B <=>
           \A k \in Jobs : ContainsJob(q, k) /\ Allocation(q, k).present
                             => m \notin Allocation(q, k).machines
  BY <1>3, MachinesFinite, FreeAtPresent DEF SaysTheSame
<1>6. A = B
  BY <1>1, <1>3, <1>4, <1>5
<1>. QED  BY <1>2, <1>3, <1>6

\* Jobs are numbers.
LEMMA JobsAreIntegers ==
  /\ \A j \in Jobs : j \in Int
  /\ \A s \in Seq(Jobs) : s \in Seq(Int)
<1>1. \A j \in Jobs : j \in Int
  BY BoundsAssumption DEF Jobs
<1>2. ASSUME NEW s \in Seq(Jobs)
      PROVE  s \in Seq(Int)
  <2>1. Len(s) \in Nat /\ DOMAIN s = 1 .. Len(s) /\ \A i \in 1 .. Len(s) : s[i] \in Int
    BY <1>1, LenProperties, ElementOfSeq
  <2>2. s = [i \in 1 .. Len(s) |-> s[i]]
    BY <2>1
  <2>. QED  BY <2>1, <2>2, SeqDef
<1>. QED  BY <1>1, <1>2

\* The order of arrival after a step that brings no job.
LEMMA OrderStays ==
  ASSUME Inv, ArrivalOrder, InOrder(queue'), now <= now', now' \in Int, Inv',
         \A k \in Jobs : status'[k] = "future" <=> status[k] = "future",
         Waiting' \subseteq Waiting,
         released' = released \/ (released # <<>> /\ released' = Tail(released))
  PROVE  ArrivalOrder'
<1>1. \A j, k \in Jobs : k < j /\ status'[j] # "future" => status'[k] # "future"
  BY DEF ArrivalOrder
<1>2. Ascending(released') /\ ToSet(released') \subseteq ToSet(released)
  <2>1. released \in Seq(Int) /\ Ascending(released)
    BY JobsAreIntegers DEF Inv, Types, ArrivalOrder
  <2>. QED  BY <2>1, TailOfAscending
<1>3. InOrder(queue)'
  <2>1. now \in Int /\ \A i \in DOMAIN queue' : queue'[i].release \in Int
    <3>1. queue' \in Seq(Entries(Jobs))
      BY DEF Inv, Types
    <3>2. \A i \in DOMAIN queue' : queue'[i] \in Entries(Jobs)
      BY <3>1
    <3>. QED  BY <3>2, JobsOfProfile DEF Entries
  <2>. QED  BY <2>1 DEF InOrder
<1>4. \A j \in Waiting', k \in ToSet(released') : j < k
  BY <1>2 DEF ArrivalOrder
<1>. QED  BY <1>1, <1>2, <1>3, <1>4 DEF ArrivalOrder

\* What need not be tried after a step that frees no machine and begins no traversal.
LEMMA VainStays ==
  ASSUME Inv, TriedInVain, KeepsAllocations, now' \in Int, now <= now',
         \A j \in Waiting : res'[j] = res[j] /\ walltime'[j] = walltime[j],
         ~jobEnded' /\ ended' = <<>> => ~jobEnded /\ ended = <<>>,
         Waiting' \ (ToSet(recent') \cup {Priority'})
           \subseteq Waiting \ (ToSet(recent) \cup {Priority}),
         pc' # "traverse" \/ cursor' = 1, Inv'
  PROVE  TriedInVain'
<1>1. ASSUME ~jobEnded', ended' = <<>>,
             NEW j \in Waiting' \ (ToSet(recent') \cup {Priority'})
      PROVE  CannotStart(j)'
  <2>1. j \in Waiting /\ CannotStart(j)
    BY <1>1 DEF TriedInVain
  <2>. QED  BY <2>1, StillCannotStart
<1>2. ASSUME pc' = "traverse", NEW i \in DOMAIN queue', 1 < i, i < cursor'
      PROVE  FALSE
  <2>1. i \in Int
    BY LenProperties DEF Inv, Types
  <2>. QED  BY <1>2, <2>1
<1>. QED  BY <1>1, <1>2 DEF TriedInVain

\* Batsim's steps bring jobs in the order of their numbers, and free no machine
\* before the scheduler is told that a job has ended.
LEMMA PlatformKeepsBackfill ==
  ASSUME Inv, Inv', BackfillIsSound, Platform
  PROVE  BackfillIsSound'
<1>. USE DEF Inv, BackfillIsSound
<1>1. /\ UNCHANGED <<order, profile, queue, before, after, recent, jobEnded,
                     nbAvailable, cursor>>
      /\ Waiting' = Waiting
  BY DEF Platform, schedVars, localVars, Waiting
<1>2. KeepsAllocations
  BY <1>1 DEF KeepsAllocations
<1>3. now \in Int /\ now' \in Int /\ \A k \in Jobs : k \in Int
  BY JobsAreIntegers DEF Types
<1>4. ASSUME NEW j \in Jobs, NEW r \in Requests, NEW w \in Walltimes, Submit(j, r, w)
      PROVE  BackfillIsSound'
  <2>1. /\ pc = "batsim" /\ pc' = "batsim" /\ status[j] = "future"
        /\ \A k \in Jobs : k < j => status[k] # "future"
        /\ status' = [status EXCEPT ![j] = "waiting"]
        /\ res' = [res EXCEPT ![j] = r]
        /\ walltime' = [walltime EXCEPT ![j] = w + RjmsDelay]
        /\ released' = Append(released, j)
        /\ UNCHANGED <<now, ended>>
    BY <1>4 DEF Submit
  <2>2. /\ status'[j] = "waiting"
        /\ \A k \in Jobs : k # j => /\ status'[k] = status[k] /\ res'[k] = res[k]
                                    /\ walltime'[k] = walltime[k]
    BY <2>1 DEF Types
  <2>3. \A i, k \in Jobs : k < i /\ status'[i] # "future" => status'[k] # "future"
    <3>. SUFFICES ASSUME NEW i \in Jobs, NEW k \in Jobs, k < i, status'[i] # "future"
                  PROVE  status'[k] # "future"
      OBVIOUS
    <3>1. CASE k = j
      BY <2>2, <3>1
    <3>2. CASE k # j /\ i = j
      BY <2>1, <2>2, <3>2
    <3>3. CASE k # j /\ i # j
      BY <2>2, <3>3 DEF ArrivalOrder
    <3>. QED  BY <3>1, <3>2, <3>3
  <2>4. \A k \in Waiting \cup ToSet(released) : k < j /\ k \in Jobs /\ k # j
    <3>. SUFFICES ASSUME NEW k \in Waiting \cup ToSet(released)
                  PROVE  k < j /\ k \in Jobs /\ k # j
      OBVIOUS
    <3>1. k \in Jobs /\ status[k] = "waiting"
      BY JobsByStatus
    <3>2. ~(j < k)
      BY <2>1, <3>1 DEF ArrivalOrder
    <3>3. k # j
      BY <2>1, <3>1
    <3>. QED  BY <1>3, <3>1, <3>2, <3>3
  <2>5. Ascending(released') /\ ToSet(released') = ToSet(released) \cup {j}
    <3>1. released \in Seq(Jobs) /\ released \in Seq(Int) /\ Ascending(released)
      BY JobsAreIntegers DEF Types, ArrivalOrder
    <3>. QED  BY <1>3, <2>1, <2>4, <3>1, AppendToAscending, AppendToInjective
  <2>6. ArrivalOrder'
    <3>1. \A i \in Waiting', k \in ToSet(released') : i < k
      BY <1>1, <2>4, <2>5 DEF ArrivalOrder
    <3>2. InOrder(queue)'
      BY <1>1, <2>1 DEF ArrivalOrder, InOrder
    <3>. QED  BY <2>3, <2>5, <3>1, <3>2 DEF ArrivalOrder
  <2>7. NewJobs' /\ CountsFree'
    BY <1>1, <2>1 DEF NewJobs, CountsFree
  <2>8. TriedInVain'
    <3>1. \A k \in Waiting : res'[k] = res[k] /\ walltime'[k] = walltime[k]
      BY <2>2, <2>4
    <3>2. Priority' = Priority
      BY <1>1, <2>1 DEF Priority
    <3>. QED  BY <1>1, <1>2, <1>3, <2>1, <3>1, <3>2, VainStays
  <2>. QED  BY <2>6, <2>7, <2>8
<1>5. ASSUME NEW j \in Jobs, Complete(j)
      PROVE  BackfillIsSound'
  <2>1. /\ pc = "batsim" /\ pc' = "batsim" /\ status[j] = "running"
        /\ status' = [status EXCEPT ![j] = "done"]
        /\ ended' = Append(ended, j)
        /\ UNCHANGED <<now, released>>
    BY <1>5 DEF Complete
  <2>2. \A k \in Jobs : status'[k] = "future" <=> status[k] = "future"
    BY <2>1 DEF Types
  <2>3. InOrder(queue')
    BY <1>1 DEF ArrivalOrder
  <2>4. ArrivalOrder'
    BY <1>1, <1>3, <2>1, <2>2, <2>3, OrderStays
  <2>5. NewJobs' /\ CountsFree'
    BY <1>1, <2>1 DEF NewJobs, CountsFree
  <2>6. TriedInVain'
    <3>1. Len(ended') = Len(ended) + 1 /\ Len(ended) \in Nat
      BY <2>1, AppendProperties, LenProperties DEF Types
    <3>2. ended' # <<>>
      BY <3>1
    <3>. QED  BY <2>1, <3>2 DEF TriedInVain
  <2>. QED  BY <2>4, <2>5, <2>6
<1>6. CASE Tick
  <2>1. /\ pc = "batsim" /\ pc' = "batsim" /\ now' = now + 1
        /\ UNCHANGED <<status, res, walltime, ended, released>>
    BY <1>6 DEF Tick, jobVars
  <2>2. InOrder(queue')
    BY <1>1 DEF ArrivalOrder
  <2>3. ArrivalOrder'
    BY <1>1, <1>3, <2>1, <2>2, OrderStays
  <2>4. NewJobs' /\ CountsFree'
    BY <1>1, <2>1 DEF NewJobs, CountsFree
  <2>5. TriedInVain'
    <3>1. Priority' = Priority
      BY <1>1, <2>1 DEF Priority
    <3>. QED  BY <1>1, <1>2, <1>3, <2>1, <3>1, VainStays
  <2>. QED  BY <2>3, <2>4, <2>5
<1>. QED  BY <1>4, <1>5, <1>6 DEF Platform, BatsimStep

\* A step of the scheduler that leaves the schedule alone.
LEMMA MoveKeepsBackfill ==
  ASSUME Inv, Inv', BackfillIsSound,
         Receive \/ EndedHandled \/ ChooseLoop \/ UNCHANGED vars
  PROVE  BackfillIsSound'
<1>. USE DEF Inv, BackfillIsSound
<1>1. /\ UNCHANGED <<now, status, res, walltime, ended, released, order, profile,
                     queue>>
      /\ Waiting' = Waiting
  BY DEF Receive, Send, EndedHandled, ChooseLoop, worldVars, jobVars, schedVars,
         localVars, batsimVars, vars, Waiting
<1>2. KeepsAllocations /\ now \in Int /\ now' \in Int /\ now <= now'
  BY <1>1 DEF KeepsAllocations, Types
<1>3. ArrivalOrder'
  <2>1. InOrder(queue')
    BY <1>1 DEF ArrivalOrder
  <2>. QED  BY <1>1, <1>2, <2>1, OrderStays
<1>4. CASE Receive
  <2>1. /\ pc = "batsim" /\ pc' = "ended" /\ before' = FirstJob(queue)
        /\ jobEnded' = (ended # <<>>)
        /\ UNCHANGED <<after, recent, nbAvailable, cursor>>
    BY <1>4 DEF Receive, Send
  <2>2. NewJobs' /\ CountsFree'
    BY <1>1, <2>1 DEF NewJobs, CountsFree
  <2>3. TriedInVain'
    <3>1. Priority' = Priority /\ ~jobEnded
      BY <2>1 DEF Priority, NewJobs
    <3>. QED  BY <1>1, <1>2, <2>1, <3>1, VainStays
  <2>. QED  BY <1>3, <2>2, <2>3
<1>5. CASE EndedHandled
  <2>1. /\ pc = "ended" /\ pc' = "released"
        /\ UNCHANGED <<before, after, recent, jobEnded, nbAvailable, cursor>>
    BY <1>5 DEF EndedHandled, schedVars, localVars
  <2>2. NewJobs'
    <3>1. before = FirstJob(queue)
      BY <2>1 DEF PointsMatchLocals
    <3>2. before = NullJob => Waiting = {}
      BY <3>1, FirstOfQueue DEF Types, Waiting
    <3>. QED  BY <1>1, <2>1, <3>1, <3>2 DEF NewJobs
  <2>3. CountsFree'
    BY <2>1 DEF CountsFree
  <2>4. TriedInVain'
    <3>1. Priority' = Priority
      BY <2>1 DEF Priority
    <3>. QED  BY <1>1, <1>2, <2>1, <3>1, VainStays
  <2>. QED  BY <1>3, <2>2, <2>3, <2>4
<1>6. CASE ChooseLoop
  <2>1. /\ pc = "sorted" /\ pc' = IF jobEnded THEN "traverse" ELSE "backfill"
        /\ nbAvailable' = Cardinality(profile[1].available)
        /\ UNCHANGED <<before, after, recent, jobEnded, cursor>>
    BY <1>6 DEF ChooseLoop
  <2>2. NewJobs'
    BY <2>1 DEF NewJobs
  <2>3. CountsFree'
    BY <1>1, <2>1, FreeMachines DEF CountsFree
  <2>4. TriedInVain'
    <3>1. Priority' = Priority /\ cursor' = 1
      BY <2>1 DEF Priority, PointsMatchLocals
    <3>. QED  BY <1>1, <1>2, <2>1, <3>1, VainStays
  <2>. QED  BY <1>3, <2>2, <2>3, <2>4
<1>7. CASE UNCHANGED vars
  <2>1. UNCHANGED <<pc, before, after, recent, jobEnded, nbAvailable, cursor>>
    BY <1>7 DEF vars, batsimVars, schedVars, localVars
  <2>2. NewJobs' /\ CountsFree'
    BY <1>1, <2>1 DEF NewJobs, CountsFree
  <2>3. TriedInVain'
    <3>1. Priority' = Priority /\ \A j : CannotStart(j)' <=> CannotStart(j)
      BY <1>1, <2>1 DEF Priority, CannotStart, FreeFor
    <3>. QED  BY <1>1, <2>1, <3>1 DEF TriedInVain
  <2>. QED  BY <1>3, <2>2, <2>3
<1>. QED  BY <1>4, <1>5, <1>6, <1>7

\* The steps before the queue is sorted: machines are freed only if jobs have ended,
\* and a new job comes last.
LEMMA EventsKeepBackfill ==
  ASSUME Inv, Inv', BackfillIsSound, RemoveEnded \/ RejectReleased \/ QueueReleased
  PROVE  BackfillIsSound'
<1>. USE DEF Inv, BackfillIsSound
<1>1. now \in Int /\ now <= now
  BY DEF Types
<1>2. CASE RemoveEnded
  <2>1. /\ pc = "ended" /\ pc' = "ended" /\ ended # <<>>
        /\ UNCHANGED <<now, status, released, queue, before, recent, jobEnded>>
    BY <1>2 DEF RemoveEnded, worldVars, localVars
  <2>2. jobEnded
    BY <2>1 DEF PointsMatchLocals
  <2>3. Waiting' = Waiting /\ InOrder(queue')
    BY <2>1 DEF ArrivalOrder, Waiting
  <2>4. ArrivalOrder'
    BY <1>1, <2>1, <2>3, OrderStays
  <2>5. NewJobs' /\ CountsFree' /\ TriedInVain'
    BY <2>1, <2>2 DEF NewJobs, CountsFree, TriedInVain
  <2>. QED  BY <2>4, <2>5
<1>3. CASE RejectReleased
  <2>1. PICK j : j = Head(released)
    OBVIOUS
  <2>2. /\ pc = "released" /\ pc' = "released" /\ released # <<>>
        /\ status' = [status EXCEPT ![j] = "rejected"]
        /\ released' = Tail(released)
        /\ UNCHANGED <<now, res, walltime, ended, profile, queue, before, recent,
                       jobEnded>>
    BY <1>3, <2>1 DEF RejectReleased, RejectJob, schedVars, localVars, jobVars
  <2>3. j \in Jobs /\ status[j] = "waiting"
    BY <2>1, <2>2, TailOfInjective, JobsByStatus DEF Types, QueuesMatchStatus
  <2>4. \A k \in Jobs : status'[k] = "future" <=> status[k] = "future"
    BY <2>2, <2>3 DEF Types
  <2>5. Waiting' = Waiting /\ InOrder(queue') /\ Priority' = Priority
    BY <2>2 DEF ArrivalOrder, Waiting, Priority
  <2>6. ArrivalOrder'
    BY <1>1, <2>2, <2>4, <2>5, OrderStays
  <2>7. NewJobs' /\ CountsFree'
    BY <2>2, <2>5 DEF NewJobs, CountsFree
  <2>8. TriedInVain'
    <3>1. KeepsAllocations
      BY <2>2 DEF KeepsAllocations
    <3>. QED  BY <1>1, <2>2, <2>5, <3>1, VainStays
  <2>. QED  BY <2>6, <2>7, <2>8
<1>4. CASE QueueReleased
  <2>1. PICK j : j = Head(released)
    OBVIOUS
  <2>2. /\ pc = "released" /\ pc' = "released" /\ released # <<>>
        /\ queue' = AppendJobs(queue, <<j>>, now)
        /\ recent' = Append(recent, j)
        /\ released' = Tail(released)
        /\ UNCHANGED <<now, status, res, walltime, ended, profile, before, jobEnded>>
    BY <1>4, <2>1 DEF QueueReleased, worldVars, jobVars
  <2>3. released \in Seq(Int) /\ Ascending(released)
    BY JobsAreIntegers DEF Types, ArrivalOrder
  <2>4. /\ j \in ToSet(released) /\ j \in Jobs /\ Ascending(released')
        /\ ToSet(released') = ToSet(released) \ {j}
        /\ \A k \in ToSet(released') : j < k
    <3>1. /\ j \in ToSet(released) /\ Ascending(released')
          /\ ToSet(released') = ToSet(released) \ {j}
          /\ \A k \in ToSet(released) : k # j => j < k
      BY <2>1, <2>2, <2>3, TailOfAscending
    <3>. QED  BY <3>1, JobsByStatus
  <2>5. \A k \in Waiting : k < j
    BY <2>4 DEF ArrivalOrder
  <2>6. /\ Waiting' = Waiting \cup {j}
        /\ ToSet(recent') = ToSet(recent) \cup {j}
    <3>1. /\ queue \in Seq(Entries(Jobs)) /\ OnePerJob(queue) /\ j \notin Waiting
          /\ recent \in Seq(Jobs)
      BY <2>4 DEF Types, QueuesMatchStatus
    <3>2. JobsOf(queue') = JobsOf(queue) \cup {j}
      BY <1>1, <2>2, <2>4, <3>1, Enqueued DEF Waiting
    <3>3. ToSet(recent') = ToSet(recent) \cup {j}
      BY <2>2, <2>4, <3>1, AppendToInjective
    <3>. QED  BY <3>2, <3>3 DEF Waiting
  <2>7. InOrder(queue') /\ (queue # <<>> => FirstJob(queue') = FirstJob(queue))
    <3>1. queue \in Seq(Entries(Jobs)) /\ InOrder(queue)
      BY DEF Types, ArrivalOrder
    <3>. QED  BY <1>1, <2>2, <2>4, <2>5, <3>1, AppendInOrder DEF Waiting
  <2>8. ArrivalOrder'
    <3>1. \A k \in Waiting', i \in ToSet(released') : k < i
      BY <2>4, <2>6 DEF ArrivalOrder
    <3>2. InOrder(queue)'
      BY <2>2, <2>7 DEF InOrder
    <3>3. \A i, k \in Jobs : k < i /\ status'[i] # "future" => status'[k] # "future"
      BY <2>2 DEF ArrivalOrder
    <3>. QED  BY <2>4, <3>1, <3>2, <3>3 DEF ArrivalOrder
  <2>9. NewJobs'
    <3>1. before # NullJob => before = FirstJob(queue')
      <4>1. before # NullJob => before = FirstJob(queue) /\ queue # <<>>
        BY <2>2, FirstOfQueue DEF NewJobs, Types
      <4>. QED  BY <2>7, <4>1
    <3>2. before = NullJob => Waiting' \subseteq ToSet(recent')
      BY <2>2, <2>6 DEF NewJobs
    <3>. QED  BY <2>2, <3>1, <3>2 DEF NewJobs
  <2>10. CountsFree'
    BY <2>2 DEF CountsFree
  <2>11. TriedInVain'
    <3>1. KeepsAllocations
      BY <2>2 DEF KeepsAllocations
    <3>2. Priority' = Priority
      BY <2>2 DEF Priority
    <3>. QED  BY <1>1, <2>2, <2>6, <3>1, <3>2, VainStays
  <2>. QED  BY <2>8, <2>9, <2>10, <2>11
<1>. QED  BY <1>2, <1>3, <1>4

\* The queue is in order as it is, so that the priority job keeps its reservation; if
\* there was none, every job is new.
LEMMA UpdateKeepsBackfill ==
  ASSUME Inv, Inv', BackfillIsSound, order = "fcfs", UpdatePresent
  PROVE  BackfillIsSound'
<1>. USE DEF Inv, BackfillIsSound
<1>1. /\ pc = "released" /\ pc' \in {"priority", "sorted"}
      /\ queue' = SortedQueue /\ after' = FirstJob(SortedQueue)
      /\ UNCHANGED <<now, status, res, walltime, ended, released, before, recent,
                     jobEnded, cursor>>
  BY DEF UpdatePresent, worldVars, jobVars
<1>2. now \in Int /\ now <= now
  BY DEF Types
<1>3. InOrder(SortedQueue) /\ FirstJob(SortedQueue) = FirstJob(queue)
      /\ Waiting' = Waiting
  BY <1>1, SortInOrder, Sorted DEF ArrivalOrder, Waiting
<1>4. ArrivalOrder'
  BY <1>1, <1>2, <1>3, OrderStays
<1>5. NewJobs' /\ CountsFree'
  BY <1>1 DEF NewJobs, CountsFree
<1>6. TriedInVain'
  <2>1. CASE before = NullJob
    <3>1. Waiting' \subseteq ToSet(recent')
      BY <1>1, <1>3, <2>1 DEF NewJobs
    <3>. QED  BY <1>1, <3>1 DEF TriedInVain
  <2>2. CASE before # NullJob
    <3>1. before = FirstJob(queue) /\ ~PriorityChanged /\ Priority' = Priority
      BY <1>1, <1>3, <2>2 DEF NewJobs, PriorityChanged, Priority
    <3>2. KeepsAllocations
      BY <3>1, ScheduleUpToDate DEF IsUpToDate, KeepsAllocations
    <3>. QED  BY <1>1, <1>2, <1>3, <3>1, <3>2, VainStays
  <2>. QED  BY <2>1, <2>2
<1>. QED  BY <1>4, <1>5, <1>6

\* What is in the queue after a job has left it, or not.
LEMMA QueueAfterTrial ==
  ASSUME Inv, Inv', ArrivalOrder, NEW j \in Waiting, UNCHANGED <<jobVars, released>>,
         NEW started \in BOOLEAN, NEW X,
         started => ExecuteJob(j, X),
         ~started => UNCHANGED <<worldVars, queue>>,
         InOrder(queue'), Waiting' \subseteq Waiting
  PROVE  ArrivalOrder' /\ now' = now /\ now \in Int /\ now <= now
<1>1. now' = now /\ now \in Int /\ now <= now
  BY DEF ExecuteJob, worldVars, Inv, Types
<1>2. j \in Jobs /\ status[j] = "waiting" /\ status \in [Jobs -> Status]
  BY WaitingJob DEF Inv, Types
<1>3. \A k \in Jobs : status'[k] = "future" <=> status[k] = "future"
  BY <1>2 DEF ExecuteJob, worldVars
<1>. QED  BY <1>1, <1>3, OrderStays

\* The priority job takes machines at once, or has the reservation.
LEMMA PriorityKeepsBackfill ==
  ASSUME Inv, Inv', BackfillIsSound, InsertPriority
  PROVE  BackfillIsSound'
<1>. USE DEF Inv, BackfillIsSound
<1>1. PICK j, q, started : /\ j = after /\ q = RemoveFromQueue(queue, j)
                           /\ started = StartsNow(Without(j), j)
  OBVIOUS
<1>2. /\ pc = "priority" /\ queue # <<>> /\ Reserved = {} /\ j = FirstJob(queue)
      /\ ended = <<>> /\ released = <<>> /\ cursor = 1
      /\ queue \in Seq(Entries(Jobs)) /\ OnePerJob(queue)
  BY <1>1 DEF InsertPriority, PointsMatchLocals, OnlyPriorityIsReserved, Types,
              QueuesMatchStatus
<1>3. j \in Waiting /\ ~ContainsJob(profile, j)
  BY <1>2, FirstOfQueue, WaitingJob DEF Waiting
<1>4. Without(j) = profile
  BY <1>3 DEF Without, RemoveJobIfExists
<1>5. /\ profile' = Insert(Without(j), j)
      /\ started => /\ ExecuteJob(j, Alloc(Without(j), j).machines)
                    /\ queue' = q /\ after' = FirstJob(q)
                    /\ pc' \in {"sorted", "priority"}
      /\ ~started => pc' = "sorted" /\ UNCHANGED <<worldVars, queue, after>>
      /\ UNCHANGED <<res, walltime, jobVars, ended, released, recent, jobEnded, cursor>>
  BY <1>1, <1>4 DEF InsertPriority, jobVars
<1>6. started \in BOOLEAN
  BY <1>1, <1>3, PlacedOnPlatform
<1>7. JobsOf(q) = Waiting \ {j} /\ InOrder(q) /\ InOrder(queue)
  BY <1>1, <1>2, Dequeued, PartOfQueue DEF IsDequeued, Waiting, ArrivalOrder
<1>8. /\ InOrder(queue') /\ Waiting' \subseteq Waiting /\ pc' \in {"sorted", "priority"}
      /\ Waiting' \ {after'} \subseteq Waiting \ {after}
  BY <1>1, <1>5, <1>6, <1>7 DEF Waiting
<1>9. ArrivalOrder' /\ now' = now /\ now \in Int /\ now <= now
  BY <1>3, <1>5, <1>6, <1>8, QueueAfterTrial
<1>10. NewJobs' /\ CountsFree'
  BY <1>8 DEF NewJobs, CountsFree
<1>11. TriedInVain'
  <2>1. KeepsAllocations
    BY <1>3, <1>5, StartTakesMachines
  <2>2. Priority = after /\ Priority' = after'
    BY <1>2, <1>8 DEF Priority
  <2>. QED  BY <1>5, <1>8, <1>9, <2>1, <2>2, VainStays
<1>. QED  BY <1>9, <1>10, <1>11

\* Tail leaves nothing out but the head.
LEMMA TailOfAny ==
  ASSUME NEW s \in Seq(Jobs), s # <<>>
  PROVE  ToSet(s) \subseteq ToSet(Tail(s)) \cup {Head(s)}
<1>1. /\ Len(s) \in Nat \ {0} /\ DOMAIN s = 1 .. Len(s)
      /\ DOMAIN Tail(s) = 1 .. Len(s) - 1
      /\ \A i \in 1 .. Len(s) - 1 : Tail(s)[i] = s[i + 1]
      /\ Head(s) = s[1]
  BY LenProperties, HeadTailProperties
<1>2. ASSUME NEW i \in 1 .. Len(s), i # 1
      PROVE  s[i] \in ToSet(Tail(s))
  <2>1. i - 1 \in 1 .. Len(s) - 1 /\ (i - 1) + 1 = i
    BY <1>1, <1>2
  <2>2. Tail(s)[i - 1] = s[i]
    BY <1>1, <2>1
  <2>. QED  BY <1>1, <2>1, <2>2 DEF ToSet
<1>. QED  BY <1>1, <1>2 DEF ToSet

\* A new job that is not started does not fit.
LEMMA TryNewKeepsBackfill ==
  ASSUME Inv, Inv', BackfillIsSound, TryNew
  PROVE  BackfillIsSound'
<1>. USE DEF Inv, BackfillIsSound
<1>1. PICK j, started : /\ j = Head(recent)
                        /\ started = (Candidate(j) /\ StartsNow(profile, j))
  OBVIOUS
<1>2. /\ pc = "backfill" /\ pc' = "backfill" /\ recent # <<>>
      /\ profile' = CASE started -> Insert(profile, j)
                      [] Candidate(j) /\ ~started ->
                           RemoveJob(Insert(profile, j), j, res[j])
                      [] OTHER -> profile
      /\ started => /\ ExecuteJob(j, Alloc(profile, j).machines)
                    /\ queue' = RemoveFromQueue(queue, j)
                    /\ nbAvailable' = nbAvailable - res[j]
      /\ ~started => UNCHANGED <<worldVars, queue, nbAvailable>>
      /\ recent' = Tail(recent)
      /\ UNCHANGED <<res, walltime, jobVars, ended, released, after, jobEnded>>
  BY <1>1 DEF TryNew, jobVars
<1>3. /\ queue \in Seq(Entries(Jobs)) /\ OnePerJob(queue) /\ InOrder(queue)
      /\ nbAvailable \in Nat /\ Cardinality(profile[1].available) <= nbAvailable
      /\ Cardinality(profile[1].available) \in Int
      /\ Priority = after /\ Priority' = after
      /\ \A k \in Waiting : ContainsJob(profile, k) => k = after
  <2>1. Priority = after /\ Priority' = after
    BY <1>2 DEF Priority
  <2>2. \A k \in Waiting : ContainsJob(profile, k) => k = after
    BY <2>1, WaitingJob DEF OnlyPriorityIsReserved
  <2>3. Cardinality(profile[1].available) \in Int
    BY FreeMachines
  <2>. QED
    BY <1>2, <2>1, <2>2, <2>3 DEF Types, QueuesMatchStatus, ArrivalOrder, CountsFree
<1>4. ToSet(recent) \subseteq ToSet(recent') \cup {j}
  BY <1>1, <1>2, TailOfAny DEF Types
<1>5. started \in BOOLEAN
  BY <1>1 DEF Candidate
<1>6. CASE started
  <2>1. j \in Waiting /\ j # after /\ StartsNow(profile, j) /\ res[j] \in Int
    BY <1>1, <1>6, WaitingJob DEF Candidate, Waiting
  <2>2. Without(j) = profile
    BY <1>3, <2>1 DEF Without, RemoveJobIfExists
  <2>3. /\ Cardinality(profile'[1].available)
             <= Cardinality(profile[1].available) - res[j]
        /\ KeepsAllocations
    BY <1>2, <1>3, <1>6, <2>1, <2>2, StartTakesMachines
  <2>4. InOrder(queue') /\ Waiting' = Waiting \ {j}
    BY <1>2, <1>3, <1>6, Dequeued, PartOfQueue DEF IsDequeued, Waiting
  <2>5. ArrivalOrder' /\ now' = now /\ now \in Int /\ now <= now
    BY <1>2, <1>5, <1>6, <2>1, <2>4, QueueAfterTrial
  <2>6. NewJobs'
    BY <1>2 DEF NewJobs
  <2>7. CountsFree'
    <3>1. Cardinality(profile'[1].available) \in Int
      <4>1. profile'[1].available \in SUBSET Machines
        BY MachinesFinite, FreeAtPresent DEF ProfileMatchesJobs
      <4>. QED  BY <4>1, MachinesFinite
    <3>. QED  BY <1>2, <1>3, <1>6, <2>1, <2>3, <3>1 DEF CountsFree
  <2>8. TriedInVain'
    <3>1. Waiting' \ (ToSet(recent') \cup {Priority'})
            \subseteq Waiting \ (ToSet(recent) \cup {Priority})
      BY <1>3, <1>4, <2>4
    <3>. QED  BY <1>2, <2>3, <2>5, <3>1, VainStays
  <2>. QED  BY <2>5, <2>6, <2>7, <2>8
<1>7. CASE ~started
  <2>1. Candidate(j) => j \in Waiting /\ j # after /\ ~ContainsJob(profile, j)
    BY <1>3 DEF Candidate, Waiting
  <2>2. SaysTheSame
    <3>1. CASE Candidate(j)
      BY <1>2, <1>7, <2>1, <3>1, TrialLeavesNoTrace
    <3>2. CASE ~Candidate(j)
      BY <1>2, <1>7, <3>2, SameProfile
    <3>. QED  BY <3>1, <3>2
  <2>3. KeepsAllocations /\ profile'[1].available = profile[1].available
    BY <2>2, SameMachinesFree
  <2>4. /\ UNCHANGED <<now, status, queue, nbAvailable>> /\ Waiting' = Waiting
        /\ now \in Int /\ now <= now
    BY <1>2, <1>7 DEF worldVars, Waiting, Types
  <2>5. ArrivalOrder'
    BY <1>2, <1>3, <2>4, OrderStays
  <2>6. NewJobs' /\ CountsFree'
    BY <1>2, <1>3, <2>3, <2>4 DEF NewJobs, CountsFree
  <2>7. j \in Waiting /\ j # after => CannotStart(j)
    <3>1. CASE Candidate(j)
      BY <1>1, <1>2, <1>7, <2>1, <3>1, TrialDecides
    <3>2. ASSUME ~Candidate(j), j \in Waiting, j # after
          PROVE  CannotStart(j)
      <4>1. ~(res[j] <= nbAvailable) /\ res[j] \in Int
        BY <3>2, WaitingJob DEF Candidate, Waiting
      <4>2. Cardinality(profile[1].available) < res[j]
        BY <1>3, <4>1
      <4>. QED  BY <3>2, <4>2, TooLargeToStart
    <3>. QED  BY <3>1, <3>2
  <2>8. TriedInVain'
    <3>1. ASSUME ~jobEnded', ended' = <<>>,
                 NEW k \in Waiting' \ (ToSet(recent') \cup {Priority'})
          PROVE  CannotStart(k)'
      <4>1. k \in Waiting /\ k # after
        BY <1>3, <2>4, <3>1
      <4>2. CannotStart(k)
        <5>1. CASE k = j
          BY <2>7, <4>1, <5>1
        <5>2. CASE k # j
          <6>1. k \in Waiting \ (ToSet(recent) \cup {Priority})
            BY <1>3, <1>4, <3>1, <4>1, <5>2
          <6>. QED  BY <1>2, <3>1, <6>1 DEF TriedInVain
        <5>. QED  BY <5>1, <5>2
      <4>. QED  BY <1>2, <2>3, <2>4, <4>1, <4>2, StillCannotStart
    <3>. QED  BY <1>2, <3>1 DEF TriedInVain
  <2>. QED  BY <2>5, <2>6, <2>8
<1>. QED  BY <1>5, <1>6, <1>7

\* A job of the queue that is not started does not fit, unless it has the reservation.
LEMMA TryQueuedKeepsBackfill ==
  ASSUME Inv, Inv', BackfillIsSound, TryQueued
  PROVE  BackfillIsSound'
<1>. USE DEF Inv, BackfillIsSound
<1>1. PICK j, started, c : /\ j = queue[cursor].job
                           /\ started = StartsNow(Without(j), j)
                           /\ c = cursor
  OBVIOUS
<1>2. /\ pc = "traverse" /\ pc' = "traverse" /\ c <= Len(queue)
      /\ profile' = IF started \/ j = after THEN Insert(Without(j), j)
                    ELSE RemoveJob(Insert(Without(j), j), j, res[j])
      /\ started => /\ ExecuteJob(j, Alloc(Without(j), j).machines)
                    /\ queue' = RemoveAt(queue, c) /\ cursor' = c
      /\ ~started => UNCHANGED <<worldVars, queue>> /\ cursor' = c + 1
      /\ UNCHANGED <<res, walltime, jobVars, ended, released, jobEnded, nbAvailable>>
  BY <1>1 DEF TryQueued, Without, jobVars
<1>3. /\ queue \in Seq(Entries(Jobs)) /\ OnePerJob(queue) /\ InOrder(queue)
      /\ c \in 1 .. Len(queue) /\ Len(queue) \in Nat /\ DOMAIN queue = 1 .. Len(queue)
      /\ after = FirstJob(queue) /\ jobEnded
      /\ Cardinality(profile[1].available) <= nbAvailable
      /\ \A k \in Waiting : ContainsJob(profile, k) => k = after
  <2>1. \A k \in Waiting : ContainsJob(profile, k) => k = after
    BY <1>2, WaitingJob DEF OnlyPriorityIsReserved, Priority
  <2>2. queue \in Seq(Entries(Jobs)) /\ c \in 1 .. Len(queue) /\ Len(queue) \in Nat
    BY <1>1, <1>2, LenProperties DEF Types
  <2>. QED
    BY <1>2, <2>1, <2>2, LenProperties
       DEF QueuesMatchStatus, ArrivalOrder, CountsFree, PointsMatchLocals, NewJobs
<1>4. j \in Waiting /\ (j = after <=> c = 1)
  BY <1>1, <1>3, DequeuedAt DEF Waiting
<1>5. started \in BOOLEAN
  BY <1>1, <1>4, PlacedOnPlatform
<1>6. InOrder(queue') /\ Waiting' \subseteq Waiting
  <2>1. InOrder(RemoveAt(queue, c)) /\ JobsOf(RemoveAt(queue, c)) \subseteq Waiting
    BY <1>3, DequeuedAt, PartOfQueue DEF IsDequeued, Waiting
  <2>. QED  BY <1>2, <1>3, <1>5, <2>1 DEF Waiting
<1>7. ArrivalOrder' /\ now' = now /\ now \in Int /\ now <= now
  BY <1>2, <1>4, <1>5, <1>6, QueueAfterTrial
<1>8. NewJobs'
  BY <1>2, <1>3 DEF NewJobs
<1>9. profile'[1].available \subseteq profile[1].available
      /\ (j # after => KeepsAllocations)
  <2>1. CASE started \/ j = after
    BY <1>2, <1>3, <1>4, <2>1, StartTakesMachines
  <2>2. CASE ~started /\ j # after
    <3>1. ~ContainsJob(profile, j) /\ Without(j) = profile
      BY <1>3, <1>4, <2>2 DEF Without, RemoveJobIfExists
    <3>2. SaysTheSame
      BY <1>2, <1>4, <2>2, <3>1, TrialLeavesNoTrace
    <3>. QED  BY <3>2, SameMachinesFree
  <2>. QED  BY <2>1, <2>2
<1>10. CountsFree'
  <2>1. profile[1].available \in SUBSET Machines /\ IsFiniteSet(profile[1].available)
    BY FreeMachines, MachinesFinite
  <2>2. profile'[1].available \in SUBSET profile[1].available
    BY <1>9
  <2>3. /\ Cardinality(profile'[1].available) <= Cardinality(profile[1].available)
        /\ Cardinality(profile'[1].available) \in Int
        /\ Cardinality(profile[1].available) \in Int
    <3>1. profile'[1].available \in SUBSET Machines
      BY <2>1, <2>2
    <3>. QED  BY <2>1, <2>2, <3>1, CountMonotonic, MachinesFinite
  <2>4. nbAvailable \in Int
    BY DEF Types
  <2>. QED  BY <1>2, <1>3, <2>3, <2>4 DEF CountsFree
<1>11. ASSUME NEW i \in DOMAIN queue', 1 < i, i < cursor'
       PROVE  CannotStart(queue[i].job)'
  <2>1. i \in Int /\ i \in 1 .. Len(queue') /\ queue'[i].job \in Waiting'
    <3>1. queue' \in Seq(Entries(Jobs))
      BY DEF Types
    <3>. QED  BY <3>1, LenProperties DEF Waiting, JobsOf
  <2>2. c # 1 /\ i <= c /\ (started => i < c)
    BY <1>2, <1>3, <1>5, <1>11, <2>1
  <2>3. j # after /\ KeepsAllocations
    BY <1>4, <1>9, <2>2
  <2>4. i \in DOMAIN queue /\ queue'[i] = queue[i]
    <3>1. CASE started
      <4>1. Len(RemoveAt(queue, c)) = Len(queue) - 1
            /\ \A k \in 1 .. Len(queue) - 1 :
                 RemoveAt(queue, c)[k] = IF k < c THEN queue[k] ELSE queue[k + 1]
        BY <1>3, RemoveAtProperties
      <4>. QED  BY <1>2, <1>3, <2>1, <2>2, <3>1, <4>1
    <3>2. CASE ~started
      BY <1>2, <3>2
    <3>. QED  BY <1>5, <3>1, <3>2
  <2>5. CannotStart(queue[i].job)
    <3>1. CASE i < c
      BY <1>1, <1>2, <1>11, <2>4, <3>1 DEF TriedInVain
    <3>2. CASE ~(i < c)
      <4>1. i = c /\ ~started
        BY <1>3, <1>5, <2>1, <2>2, <3>2
      <4>2. ~ContainsJob(profile, j) /\ Without(j) = profile
        BY <1>3, <1>4, <2>3 DEF Without, RemoveJobIfExists
      <4>3. CannotStart(j)
        BY <1>1, <1>2, <1>4, <4>1, <4>2, TrialDecides
      <4>. QED  BY <1>1, <4>1, <4>3
    <3>. QED  BY <3>1, <3>2
  <2>6. PICK k : k = queue[i].job
    OBVIOUS
  <2>7. k \in Waiting /\ k = queue'[i].job /\ CannotStart(k)
    BY <1>6, <2>1, <2>4, <2>5, <2>6
  <2>8. CannotStart(k)'
    BY <1>2, <1>7, <2>3, <2>7, StillCannotStart
  <2>. QED  BY <2>7, <2>8 DEF CannotStart
<1>12. TriedInVain'
  BY <1>2, <1>3, <1>11 DEF TriedInVain
<1>. QED  BY <1>7, <1>8, <1>10, <1>12

\* When make_decisions returns, every job that might have started has been tried, or no
\* machine is free.
LEMMA ReplyKeepsBackfill ==
  ASSUME Inv, Inv', BackfillIsSound, Reply
  PROVE  BackfillIsSound'
<1>. USE DEF Inv, BackfillIsSound
<1>1. /\ \/ pc = "backfill" /\ (recent = <<>> \/ nbAvailable = 0)
         \/ pc = "traverse" /\ (cursor > Len(queue) \/ nbAvailable = 0)
      /\ pc' = "batsim" /\ recent' = <<>> /\ ~jobEnded'
      /\ UNCHANGED <<now, status, res, walltime, ended, released, profile, queue>>
  BY DEF Reply, worldVars, jobVars
<1>2. /\ Waiting' = Waiting /\ now \in Int /\ now <= now
      /\ Priority = after /\ Priority' = after /\ after = FirstJob(queue)
      /\ ended = <<>>
  <2>1. Waiting' = Waiting /\ now \in Int /\ now <= now /\ ended = <<>>
    BY <1>1 DEF Waiting, Types, PointsMatchLocals
  <2>2. after = FirstJob(queue)
    BY <1>1 DEF PointsMatchLocals
  <2>3. Priority = after
    BY <1>1 DEF Priority
  <2>4. Priority' = FirstJob(queue)
    BY <1>1 DEF Priority
  <2>. QED  BY <2>1, <2>2, <2>3, <2>4
<1>3. ArrivalOrder'
  <2>1. InOrder(queue')
    BY <1>1 DEF ArrivalOrder
  <2>. QED  BY <1>1, <1>2, <2>1, OrderStays
<1>4. NewJobs' /\ CountsFree'
  BY <1>1 DEF NewJobs, CountsFree
<1>5. ASSUME NEW j \in Waiting, j # after
      PROVE  CannotStart(j)
  <2>1. CASE nbAvailable = 0
    <3>1. Cardinality(profile[1].available) <= 0 /\ res[j] \in 1 .. NbMachines
      BY <1>1, <2>1, WaitingJob DEF CountsFree
    <3>2. Cardinality(profile[1].available) < res[j]
      BY <3>1, FreeMachines, PlatformAssumption
    <3>. QED  BY <3>2, TooLargeToStart
  <2>2. CASE pc = "backfill" /\ recent = <<>>
    <3>1. ~jobEnded /\ ToSet(recent) = {}
      BY <2>2 DEF PointsMatchLocals, ToSet
    <3>. QED  BY <1>2, <1>5, <3>1 DEF TriedInVain
  <2>3. CASE pc = "traverse" /\ cursor > Len(queue)
    <3>1. queue \in Seq(Entries(Jobs)) /\ cursor \in Int
      BY DEF Types
    <3>2. PICK i \in 1 .. Len(queue) : j = queue[i].job
      BY <3>1, JobsOfQueue DEF Waiting
    <3>3. /\ DOMAIN queue = 1 .. Len(queue) /\ Len(queue) \in Nat
          /\ i = 1 => j = FirstJob(queue)
      <4>1. queue # <<>>
        BY <3>1, <3>2, FirstOfQueue DEF Waiting
      <4>. QED  BY <3>1, <3>2, <4>1, LenProperties, FirstOfQueue
    <3>4. 1 < i /\ i < cursor
      BY <1>2, <1>5, <2>3, <3>1, <3>3
    <3>. QED  BY <2>3, <3>2, <3>3, <3>4 DEF TriedInVain
  <2>. QED  BY <1>1, <2>1, <2>2, <2>3
<1>6. TriedInVain'
  <2>1. KeepsAllocations
    BY <1>1 DEF KeepsAllocations
  <2>2. ASSUME NEW j \in Waiting' \ (ToSet(recent') \cup {Priority'})
        PROVE  CannotStart(j)'
    <3>1. j \in Waiting /\ CannotStart(j)
      BY <1>2, <1>5, <2>2
    <3>. QED  BY <1>1, <1>2, <2>1, <3>1, StillCannotStart
  <2>. QED  BY <1>1, <2>2 DEF TriedInVain
<1>. QED  BY <1>3, <1>4, <1>6

\* Before the first message nothing waits.
LEMMA InitEstablishesBackfill == Init => BackfillInv
<1>. SUFFICES ASSUME Init
              PROVE  BackfillIsSound
  BY DEF BackfillInv
<1>1. /\ pc = "batsim" /\ queue = <<>> /\ recent = <<>> /\ ~jobEnded /\ released = <<>>
      /\ \A j \in Jobs : status[j] = "future"
  BY DEF Init, BatsimInit
<1>2. Waiting = {} /\ DOMAIN queue = {} /\ DOMAIN released = {}
  BY <1>1 DEF Waiting, JobsOf
<1>3. ArrivalOrder
  BY <1>1, <1>2 DEF ArrivalOrder, Ascending, InOrder
<1>4. NewJobs /\ CountsFree /\ TriedInVain
  BY <1>1, <1>2 DEF NewJobs, CountsFree, TriedInVain
<1>. QED  BY <1>3, <1>4 DEF BackfillIsSound

\* Every step keeps it.
LEMMA NextKeepsBackfill == Inv /\ Inv' /\ BackfillInv /\ [Next]_vars => BackfillInv'
<1>. SUFFICES ASSUME Inv, Inv', BackfillInv, [Next]_vars, order' = "fcfs"
              PROVE  BackfillIsSound'
  BY DEF BackfillInv
<1>1. order = "fcfs"
  BY DEF Next, Platform, MakeDecisions, Terminated, Receive, RemoveEnded, EndedHandled,
         RejectReleased, QueueReleased, UpdatePresent, InsertPriority, ChooseLoop,
         TryNew, TryQueued, Reply, schedVars, vars
<1>2. BackfillIsSound
  BY <1>1 DEF BackfillInv
<1>. QED
  BY <1>1, <1>2, PlatformKeepsBackfill, MoveKeepsBackfill, EventsKeepBackfill,
     UpdateKeepsBackfill, PriorityKeepsBackfill, TryNewKeepsBackfill,
     TryQueuedKeepsBackfill, ReplyKeepsBackfill
     DEF Next, MakeDecisions, Terminated

\* "If no resources have been released, we can just try to backfill the newly-released
\* jobs" (easy_bf.cpp:75): with the default order of the queue, no waiting job but the
\* priority job could start when the scheduler has replied, although only the new jobs
\* have been tried, or the loops have stopped before the end.
THEOREM BackfillIsMaximalHolds == Spec => []BackfillIsMaximal
<1>1. Inv /\ BackfillInv => BackfillIsMaximal
  <2>. SUFFICES ASSUME Inv, BackfillInv, pc = "batsim", ended = <<>>, order = "fcfs",
                       NEW j \in Waiting \ {FirstJob(queue)}
                PROVE  ~StartsNow(UpdateFirstSlice(profile, now), j)
    BY DEF BackfillIsMaximal
  <2>1. Priority = FirstJob(queue) /\ ~jobEnded /\ recent = <<>> /\ TriedInVain
    BY DEF Priority, BackfillInv, BackfillIsSound, NewJobs
  <2>2. ToSet(recent) = {}
    BY <2>1 DEF ToSet
  <2>3. CannotStart(j)
    BY <2>1, <2>2 DEF TriedInVain
  <2>4. ~ContainsJob(profile, j)
    BY <2>1, WaitingJob DEF Inv, OnlyPriorityIsReserved
  <2>. QED  BY <2>3, <2>4, UpdateDecides
<1>2. Init => BackfillInv
  BY InitEstablishesBackfill
<1>3. Inv /\ Inv' /\ BackfillInv /\ [Next]_vars => BackfillInv'
  BY NextKeepsBackfill
<1>. QED  BY <1>1, <1>2, <1>3, InvHolds, PTL DEF Spec

-------------------------------------------------------------------------------
(* The refinement of ResourceManager.                                      *)

\* The abstract specification counts machines as this one does.
LEMMA SameCardinality == \A S : RM!Cardinality(S) = Cardinality(S)
  BY DEF RM!Cardinality, Cardinality

\* A job that is placed in the first slice gets machines that are free: the
\* machines of the running jobs are given to them in the first slice.
LEMMA StartImplementsStart ==
  ASSUME Inv, NEW j \in Waiting, UNCHANGED jobVars, StartsNow(Without(j), j),
         ExecuteJob(j, Alloc(Without(j), j).machines)
  PROVE  RM!Next
<1>. USE DEF Inv
<1>1. PICK alloc, q : alloc = Alloc(Without(j), j) /\ q = Insert(Without(j), j)
  OBVIOUS
<1>2. j \in Jobs /\ status[j] = "waiting" /\ IsValid(j)
  BY JobsByStatus DEF JobsAreSound
<1>3. IsPlaced(q, j)
  BY <1>1, QueuedIsPlaced
<1>4. alloc.startedInFirstSlice
  BY <1>1 DEF StartsNow
<1>5. /\ alloc.machines \in SUBSET Machines /\ Cardinality(alloc.machines) = res[j]
      /\ \A k \in Jobs : k # j /\ ContainsJob(profile, k) /\ Allocation(profile, k).present
           => alloc.machines \cap Allocation(profile, k).machines = {}
  <2>1. alloc.machines \in SUBSET Machines /\ Cardinality(alloc.machines) = res[j]
    BY <1>1, <1>3 DEF IsPlaced, IsInserted
  <2>. QED  BY <1>1, <1>3, <1>4, <2>1, PlaceOfJob
<1>6. \A k \in Jobs : alloc.machines \cap placed[k] = {}
  <2>. SUFFICES ASSUME NEW k \in Jobs
                PROVE  alloc.machines \cap placed[k] = {}
    OBVIOUS
  <2>1. CASE status[k] = "running"
    <3>1. k # j /\ ContainsJob(profile, k)
      BY <1>2, <2>1 DEF ProfileMatchesJobs
    <3>2. Allocation(profile, k).present /\ Allocation(profile, k).machines = placed[k]
      BY <2>1 DEF RunningArePresent
    <3>. QED  BY <1>5, <3>1, <3>2
  <2>2. CASE status[k] # "running"
    BY <2>2 DEF JobsAreSound
  <2>. QED  BY <2>1, <2>2
<1>7. alloc.machines \subseteq RM!Free
  BY <1>5, <1>6 DEF RM!Free
<1>8. ~RM!Hopeless(j)
  <2>1. ~(res[j] > Cardinality(Machines)) /\ hasWalltime[j]
    BY <1>2, AllMachines, PlatformAssumption DEF IsValid, Types
  <2>. QED  BY <2>1, SameCardinality DEF RM!Hopeless
<1>9. /\ status' = [status EXCEPT ![j] = "running"]
      /\ placed' = [placed EXCEPT ![j] = alloc.machines]
      /\ UNCHANGED <<res, hasWalltime>>
  BY <1>1 DEF ExecuteJob, jobVars
<1>10. RM!Start(j, alloc.machines)
  BY <1>2, <1>5, <1>7, <1>8, <1>9, SameCardinality DEF RM!Start
<1>. QED  BY <1>2, <1>5, <1>10 DEF RM!Next

\* Every step is a step of ResourceManager, or changes nothing of what it sees.
LEMMA StepImplementsStep ==
  ASSUME Inv, [Next]_vars
  PROVE  [RM!Next]_RM!vars
<1>. USE DEF Inv, RM!vars
<1>1. ASSUME NEW j \in Jobs, NEW r \in Requests, NEW w \in Walltimes,
             Submit(j, r, w)
      PROVE  RM!Next
  <2>1. r \in Nat
    BY PlatformAssumption
  <2>2. res'[j] = r /\ hasWalltime'[j] = (w # NoWalltime)
    BY <1>1 DEF Submit, Types
  <2>3. RM!Submit(j)
    BY <1>1, <2>1, <2>2 DEF Submit, RM!Submit
  <2>. QED  BY <2>3 DEF RM!Next
<1>2. ASSUME NEW j \in Jobs, Complete(j)
      PROVE  RM!Next
  BY <1>2 DEF Complete, jobVars, RM!Finish, RM!Next
<1>3. CASE \/ Tick \/ Receive \/ RemoveEnded \/ EndedHandled \/ QueueReleased
           \/ UpdatePresent \/ ChooseLoop \/ Reply \/ UNCHANGED vars
  BY <1>3 DEF Tick, Receive, Send, RemoveEnded, EndedHandled, QueueReleased,
       UpdatePresent, ChooseLoop, Reply, vars, batsimVars, worldVars, jobVars
<1>4. CASE InsertPriority \/ TryNew \/ TryQueued
  <2>1. CASE PlacesNoJob
    BY <2>1 DEF PlacesNoJob, worldVars, jobVars
  <2>2. ASSUME NEW j \in Waiting, PlacesJob(j)
        PROVE  RM!Next \/ UNCHANGED <<worldVars, jobVars>>
    BY <2>2, StartImplementsStart DEF PlacesJob
  <2>. QED  BY <1>4, <2>1, <2>2, OneIsPlaced DEF worldVars, jobVars
<1>5. CASE RejectReleased
  <2>1. PICK j : j = Head(released)
    OBVIOUS
  <2>2. /\ released # <<>> /\ ~IsValid(j) /\ RejectJob(j) /\ UNCHANGED jobVars
    BY <1>5, <2>1 DEF RejectReleased
  <2>3. j \in Jobs /\ status[j] = "waiting"
    BY <2>1, <2>2, TailOfInjective, JobsByStatus DEF Types, QueuesMatchStatus
  <2>4. RM!Hopeless(j)
    <3>1. res[j] > Cardinality(Machines) \/ ~hasWalltime[j]
      BY <2>2, <2>3, AllMachines, PlatformAssumption DEF IsValid, Types
    <3>. QED  BY <3>1, SameCardinality DEF RM!Hopeless
  <2>5. RM!Reject(j)
    BY <2>2, <2>3, <2>4 DEF RejectJob, RM!Reject, jobVars
  <2>. QED  BY <2>3, <2>5 DEF RM!Next
<1>. QED
  BY <1>1, <1>2, <1>3, <1>4, <1>5
     DEF Next, Platform, BatsimStep, MakeDecisions, Terminated

\* easy_bf.cpp keeps the promises of ResourceManager: it starts a job at most once,
\* on as many free machines as it asked for, and rejects only the jobs that are
\* larger than the platform or have no walltime.
THEOREM Implementation == Spec => ImplementsResourceManager
<1>1. Init => RM!Init
  BY DEF Init, BatsimInit, RM!Init
<1>. QED
  BY <1>1, StepImplementsStep, InvHolds, PTL
     DEF Spec, ImplementsResourceManager, RM!Spec


===============================================================================
