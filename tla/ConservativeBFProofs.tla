------------------------- MODULE ConservativeBFProofs -------------------------
(***************************************************************************)
(* Conservative backfilling keeps its promises for every platform,         *)
(* workload and resource selector.                                         *)
(*                                                                         *)
(* The inductive invariant relates the allocations of the profile to the   *)
(* jobs.  That no reservation is missed rests on a chain: a waiting job    *)
(* has its reservation where another job has ended, which is running or    *)
(* has an earlier reservation itself (ReservationsFollow).  That a place   *)
(* is always found rests on the horizon: the last slice begins before      *)
(* Infinity, by a distance that every job served shortens by at most its   *)
(* walltime (HorizonIsAhead).                                              *)
(***************************************************************************)
EXTENDS ConservativeBF, Facts

ProgramPoints ==
  {"batsim", "ended", "released", "present", "insert", "compress", "answer"}

Types ==
  /\ pc \in ProgramPoints
  /\ now \in Nat
  /\ status \in [Jobs -> Status]
  /\ res \in [Jobs -> Nat]
  /\ walltime \in [Jobs -> Int]
  /\ hasWalltime \in [Jobs -> BOOLEAN]
  /\ placed \in [Jobs -> SUBSET Machines]
  /\ deadline \in [Jobs -> Int]
  /\ ended \in Seq(Jobs) /\ released \in Seq(Jobs)
  /\ queue \in Seq(Jobs) /\ recent \in Seq(Jobs)
  /\ releasedAt \in [Jobs -> Nat]
  /\ jobEnded \in BOOLEAN
  /\ cursor \in Nat \ {0}

\* What is known of the jobs, once submitted and once accepted.
JobsAreSound ==
  /\ \A j \in Jobs : status[j] # "future" =>
       /\ res[j] # 0
       /\ hasWalltime[j] =>
            \E w \in Walltimes \ {NoWalltime} : walltime[j] = w + RjmsDelay
  /\ \A j \in Jobs : status[j] \in {"running", "done"} \/ j \in ToSet(queue)
       => IsValid(j)
  /\ \A j \in Jobs : status[j] # "running" => placed[j] = {}

\* The jobs of the queues, and their status.
QueuesMatchStatus ==
  /\ IsInjective(ended) /\ IsInjective(released)
  /\ IsInjective(queue) /\ IsInjective(recent)
  /\ \A j \in ToSet(ended) : status[j] = "done"
  /\ {j \in Jobs : status[j] = "waiting"} = ToSet(queue) \cup ToSet(released)
  /\ ToSet(queue) \cap ToSet(released) = {}
  /\ pc \notin {"compress", "answer"} => ToSet(recent) \subseteq ToSet(queue)

\* What the program point says of the locals of make_decisions.
PointsMatchLocals ==
  /\ pc \in {"batsim", "ended"} => recent = <<>>
  /\ pc = "batsim" => ~jobEnded
  /\ pc = "ended" /\ ended # <<>> => jobEnded
  /\ pc \notin {"batsim", "ended"} => ended = <<>>
  /\ pc \notin {"batsim", "ended", "released"} => released = <<>>
  /\ pc = "compress" => jobEnded
  /\ pc = "insert" => ~jobEnded
  /\ cursor <= Len(queue) + 1
  /\ cursor # 1 => pc \in {"compress", "answer"} /\ jobEnded
  /\ pc = "answer" => IF jobEnded THEN cursor = Len(queue) + 1 ELSE recent = <<>>

\* The jobs compressed already.
Compressed == {queue[i] : i \in 1 .. cursor - 1}

\* The waiting jobs that have a reservation.
Reserved == (ToSet(queue) \ ToSet(recent)) \cup Compressed

ProfileMatchesJobs ==
  /\ IsSound(profile, Jobs, Machines, res)
  /\ \A j \in Jobs : ContainsJob(profile, j) <=>
       status[j] = "running" \/ j \in ToSet(ended) \/ j \in Reserved
  /\ profile[1].begin <= now
  /\ pc \in {"insert", "compress", "answer"} => profile[1].begin = now

\* The running jobs are in the first slice, where they run and long enough.
RunningArePresent ==
  \A j \in Jobs : status[j] = "running" =>
    /\ Allocation(profile, j).present
    /\ Allocation(profile, j).machines = placed[j]
    /\ Allocation(profile, j).end >= deadline[j] + RjmsDelay
    /\ now <= deadline[j]

\* Reservations are ahead, last as long as the jobs, and can be made anew.
ReservationsAreAhead ==
  \A j \in Reserved :
    /\ ~Allocation(profile, j).present
    /\ now <= Allocation(profile, j).begin
    /\ Allocation(profile, j).end = Allocation(profile, j).begin + walltime[j]
    /\ CanHold(Allocation(profile, j).machines, Machines, res[j])

\* Reservations follow other allocations; once jobs have ended, those only that
\* are compressed already.
ReservationsFollow ==
  \A j \in IF jobEnded THEN Compressed ELSE Reserved :
    \E k \in Jobs :
      k # j /\ EndsBefore(profile, k, Allocation(profile, j).begin)

\* The jobs that have taken up time.
Served == {j \in Jobs : status[j] \in {"running", "done"} \/ ContainsJob(profile, j)}

\* W is at least the walltime of every job.
BoundsWalltimes(W) ==
  /\ W = 0 \/ \E w \in Walltimes \ {NoWalltime} : W = w + RjmsDelay
  /\ \A j \in Jobs : status[j] # "future" /\ hasWalltime[j] => walltime[j] <= W

HorizonIsAhead ==
  \E W \in Nat :
    /\ BoundsWalltimes(W)
    /\ now <= LastSubmission + Cardinality(Served) * W
    /\ profile[Len(profile)].begin <= LastSubmission + Cardinality(Served) * W

Inv ==
  /\ Types
  /\ JobsAreSound
  /\ QueuesMatchStatus
  /\ PointsMatchLocals
  /\ ProfileMatchesJobs
  /\ RunningArePresent
  /\ ReservationsAreAhead
  /\ ReservationsFollow
  /\ HorizonIsAhead

-------------------------------------------------------------------------------
(* The platform.                                                           *)

\* Every set of machines is finite, and has a size.
LEMMA MachinesFinite ==
  ASSUME NEW S \in SUBSET Machines
  PROVE  IsFiniteSet(S) /\ Cardinality(S) \in Nat
<1>1. IsFiniteSet(Machines)
  BY PlatformAssumption, FS_Interval DEF Machines
<1>2. IsFiniteSet(S)
  BY <1>1, FS_Subset
<1>. QED  BY <1>2, FS_CardinalityType

\* The platform has _nb_machines machines, numbered from 0.
LEMMA AllMachines == Cardinality(Machines) = NbMachines
  BY PlatformAssumption, FS_Interval DEF Machines

-------------------------------------------------------------------------------
(* The constants.                                                          *)

\* What the selector is assumed to do is what insertion needs of it.
LEMMA SelectorPlaces ==
  ASSUME NEW c \in 1 .. NbMachines
  PROVE  Places(Machines, c) /\ Fit(Machines, c) # {}
  BY FitAssumption DEF Places, CanHold

\* Whatever the number of jobs served, the horizon is before Infinity.
LEMMA HorizonBeforeInfinity ==
  ASSUME NEW W \in Nat, BoundsWalltimes(W), NEW K \in 0 .. NbJobs
  PROVE  /\ LastSubmission + K * W < Infinity
         /\ LastSubmission + K * W \in Nat
<1>1. /\ NbJobs \in Nat /\ LastSubmission \in Nat /\ Infinity \in Nat
      /\ LastSubmission < Infinity
  BY BoundsAssumption, InfinityAssumption
<1>2. K \in Nat /\ K <= NbJobs
  BY <1>1
<1>3. K * W \in Nat /\ K * W <= NbJobs * W
  <2>1. W * K <= W * NbJobs /\ W * K \in Nat
    BY <1>1, <1>2, ProductGrows
  <2>2. W * K = K * W /\ W * NbJobs = NbJobs * W
    BY <1>1, <1>2
  <2>. QED  BY <2>1, <2>2
<1>4. NbJobs * W + LastSubmission < Infinity /\ NbJobs * W \in Nat
  <2>1. NbJobs * W \in Nat
    BY <1>1, ProductGrows
  <2>2. CASE W = 0
    <3>1. NbJobs * 0 = 0
      BY <1>1
    <3>. QED  BY <1>1, <2>2, <3>1
  <2>3. CASE \E w \in Walltimes \ {NoWalltime} : W = w + RjmsDelay
    BY <2>1, <2>3, InfinityAssumption
  <2>. QED  BY <2>2, <2>3 DEF BoundsWalltimes
<1>. QED  BY <1>1, <1>3, <1>4

\* There are NbJobs jobs.
LEMMA JobsCounted ==
  ASSUME NEW S \in SUBSET Jobs
  PROVE  /\ IsFiniteSet(S) /\ Cardinality(S) \in 0 .. NbJobs
         /\ \A j \in Jobs \ S : Cardinality(S \cup {j}) = Cardinality(S) + 1
<1>1. IsFiniteSet(Jobs) /\ Cardinality(Jobs) = NbJobs /\ NbJobs \in Nat
  <2>1. NbJobs \in Nat
    BY BoundsAssumption
  <2>2. Cardinality(1 .. NbJobs) = IF 1 > NbJobs THEN 0 ELSE NbJobs - 1 + 1
    BY <2>1, FS_Interval
  <2>3. IsFiniteSet(1 .. NbJobs)
    BY <2>1, FS_Interval
  <2>. QED  BY <2>1, <2>2, <2>3 DEF Jobs
<1>2. IsFiniteSet(S) /\ Cardinality(S) <= NbJobs
  BY <1>1, FS_Subset
<1>3. Cardinality(S) \in Nat
  BY <1>2, FS_CardinalityType
<1>4. \A j \in Jobs \ S : Cardinality(S \cup {j}) = Cardinality(S) + 1
  BY <1>2, FS_AddElement
<1>. QED  BY <1>1, <1>2, <1>3, <1>4

-------------------------------------------------------------------------------
(* The queue.                                                              *)

\* remove_job removes the job, and no other.
LEMMA Dequeued ==
  ASSUME queue \in Seq(Jobs), IsInjective(queue), NEW j \in ToSet(queue)
  PROVE  /\ Dequeue(j) \in Seq(Jobs)
         /\ IsInjective(Dequeue(j))
         /\ ToSet(Dequeue(j)) = ToSet(queue) \ {j}
<1>1. PICK p : p = CHOOSE i \in DOMAIN queue : queue[i] = j
  OBVIOUS
<1>2. p \in 1 .. Len(queue) /\ queue[p] = j
  <2>1. \E i \in DOMAIN queue : queue[i] = j
    BY DEF ToSet
  <2>2. p \in DOMAIN queue /\ queue[p] = j
    BY <1>1, <2>1
  <2>. QED  BY <2>2, LenProperties
<1>3. Dequeue(j) = RemoveAt(queue, p)
  BY <1>1 DEF Dequeue
<1>. QED  BY <1>2, <1>3, RemoveAtOfInjective

\* The first k values of a sequence.
Values(e, k) == {e[i] : i \in 1 .. k}

\* As many places of a sequence without repetition, as many values.
LEMMA PrefixCounted ==
  ASSUME NEW n \in Nat, NEW e,
         \A h, i \in 1 .. n : h # i => e[h] # e[i]
  PROVE  \A k \in 0 .. n : /\ IsFiniteSet(Values(e, k))
                            /\ Cardinality(Values(e, k)) = k
<1>. DEFINE T == {k \in 0 .. n : /\ IsFiniteSet(Values(e, k))
                                 /\ Cardinality(Values(e, k)) = k}
<1>1. 0 \in T
  <2>1. Values(e, 0) = {}
    BY DEF Values
  <2>. QED  BY <2>1, FS_EmptySet
<1>2. ASSUME NEW k \in 0 .. n - 1, k \in T
      PROVE  k + 1 \in T
  <2>1. Values(e, k + 1) = Values(e, k) \cup {e[k + 1]}
    <3>1. 1 .. k + 1 = (1 .. k) \cup {k + 1}
      OBVIOUS
    <3>. QED  BY <3>1 DEF Values
  <2>2. e[k + 1] \notin Values(e, k)
    <3>1. \A i \in 1 .. k : i \in 1 .. n /\ k + 1 \in 1 .. n /\ i # k + 1
      OBVIOUS
    <3>. QED  BY <3>1 DEF Values
  <2>3. IsFiniteSet(Values(e, k)) /\ Cardinality(Values(e, k)) = k
    BY <1>2
  <2>4. IsFiniteSet(Values(e, k + 1)) /\ Cardinality(Values(e, k + 1)) = k + 1
    BY <2>1, <2>2, <2>3, FS_AddElement
  <2>5. k + 1 \in 0 .. n
    OBVIOUS
  <2>. QED  BY <2>4, <2>5
<1>3. \A k \in 0 .. n : k \in T
  <2>. HIDE DEF T
  <2>. QED  BY <1>1, <1>2, IntervalInduction
<1>. QED  BY <1>3

\* sort_queue loses and invents no job.
LEMMA SortedQueue ==
  ASSUME queue \in Seq(Jobs), IsInjective(queue), releasedAt \in [Jobs -> Nat]
  PROVE  /\ SortByRelease \in Seq(Jobs)
         /\ Len(SortByRelease) = Len(queue)
         /\ IsInjective(SortByRelease)
         /\ ToSet(SortByRelease) = ToSet(queue)
<1>. DEFINE K == ToSet(queue)
            R == {p \in Jobs \X Jobs : ReleasedBefore(p[1], p[2])}
<1>1. /\ Len(queue) \in Nat /\ DOMAIN queue = 1 .. Len(queue)
      /\ K \in SUBSET Jobs /\ K = {queue[i] : i \in 1 .. Len(queue)}
  BY LenProperties, ElementOfSeq DEF ToSet
<1>2. IsFiniteSet(K)
  BY <1>1, JobsCounted
<1>3. \A a, b \in Jobs : <<a, b>> \in R <=> ReleasedBefore(a, b)
  OBVIOUS
<1>4. /\ \A j \in Jobs : releasedAt[j] \in Int /\ IdRank[j] \in Int
      /\ \A a, b \in Jobs : a # b => IdRank[a] # IdRank[b]
  <2>1. IdRank \in [Jobs -> Nat] /\ IsInjective(IdRank)
    BY IdRankAssumption
  <2>2. \A a, b \in Jobs : a # b => IdRank[a] # IdRank[b]
    BY <2>1 DEF IsInjective
  <2>. QED  BY <2>1, <2>2
<1>5. /\ \A a \in K : <<a, a>> \notin R
      /\ \A a, b \in K : a # b => <<a, b>> \in R \/ <<b, a>> \in R
      /\ \A a, b, c \in K : <<a, b>> \in R /\ <<b, c>> \in R => <<a, c>> \in R
  <2>. HIDE DEF K, R
  <2>1. \A a \in K : ~ReleasedBefore(a, a)
    BY <1>1, <1>4 DEF ReleasedBefore
  <2>2. \A a, b \in K : a # b => ReleasedBefore(a, b) \/ ReleasedBefore(b, a)
    BY <1>1, <1>4 DEF ReleasedBefore
  <2>3. \A a, b, c \in K : ReleasedBefore(a, b) /\ ReleasedBefore(b, c) => ReleasedBefore(a, c)
    BY <1>1, <1>4 DEF ReleasedBefore
  <2>. QED  BY <1>1, <1>3, <2>1, <2>2, <2>3
<1>6. PICK e : Enumerates(e, K, R)
  <2>. HIDE DEF K, R
  <2>. QED  BY <1>2, <1>5, Enumeration DEF IsEnumerable
<1>7. /\ e \in [1 .. Cardinality(K) -> K]
      /\ \A h, i \in 1 .. Cardinality(K) : h < i => ReleasedBefore(e[h], e[i])
      /\ \A j \in K : \E i \in 1 .. Cardinality(K) : e[i] = j
      /\ Cardinality(K) \in Nat
  <2>1. /\ e \in [1 .. Cardinality(K) -> K]
        /\ \A h, i \in 1 .. Cardinality(K) : h < i => <<e[h], e[i]>> \in R
        /\ \A j \in K : \E i \in 1 .. Cardinality(K) : e[i] = j
    BY <1>6 DEF Enumerates
  <2>2. Cardinality(K) \in Nat
    BY <1>2, FS_CardinalityType
  <2>. HIDE DEF K, R
  <2>. QED  BY <1>1, <1>3, <2>1, <2>2
<1>8. Cardinality(K) = Len(queue)
  <2>1. \A h, i \in 1 .. Len(queue) : h # i => queue[h] # queue[i]
    BY <1>1 DEF IsInjective
  <2>2. Len(queue) \in 0 .. Len(queue)
    BY <1>1
  <2>3. Cardinality(Values(queue, Len(queue))) = Len(queue)
    BY <1>1, <2>1, <2>2, PrefixCounted
  <2>. QED  BY <1>1, <2>3 DEF Values
<1>9. PICK n : n = Len(queue)
  OBVIOUS
<1>10. /\ n \in Nat /\ e \in [1 .. n -> K]
       /\ \A h, i \in 1 .. n : h < i => ReleasedBefore(e[h], e[i])
       /\ \A j \in K : \E i \in 1 .. n : e[i] = j
  BY <1>7, <1>8, <1>9
<1>. HIDE DEF K
<1>11. \A h, i \in 1 .. n : ReleasedBefore(e[h], e[i]) <=> h < i
  <2>. SUFFICES ASSUME NEW h \in 1 .. n, NEW i \in 1 .. n
                PROVE  ReleasedBefore(e[h], e[i]) <=> h < i
    OBVIOUS
  <2>1. h < i \/ h = i \/ i < h
    OBVIOUS
  <2>2. e[h] \in K /\ e[i] \in K /\ e[h] \in Jobs /\ e[i] \in Jobs
    BY <1>1, <1>10
  <2>3. ~ReleasedBefore(e[h], e[h]) /\ (ReleasedBefore(e[i], e[h]) => ~ReleasedBefore(e[h], e[i]))
    BY <1>4, <2>2 DEF ReleasedBefore
  <2>. QED  BY <1>10, <2>1, <2>3
<1>12. \A h, i \in 1 .. n : h # i => e[h] # e[i]
  <2>1. \A h, i \in 1 .. n : h # i => h < i \/ i < h
    OBVIOUS
  <2>2. \A i \in 1 .. n : ~(i < i)
    OBVIOUS
  <2>. QED  BY <1>11, <2>1, <2>2
<1>13. ASSUME NEW k \in 1 .. n
       PROVE  Cardinality({h \in K : ReleasedBefore(h, e[k])}) = k - 1
  <2>1. {h \in K : ReleasedBefore(h, e[k])} = Values(e, k - 1)
    <3>1. ASSUME NEW h \in K, ReleasedBefore(h, e[k])
          PROVE  h \in Values(e, k - 1)
      <4>1. PICK i \in 1 .. n : e[i] = h
        BY <1>10
      <4>2. i \in 1 .. k - 1
        BY <1>11, <3>1, <4>1
      <4>. QED  BY <4>1, <4>2 DEF Values
    <3>2. ASSUME NEW i \in 1 .. k - 1
          PROVE  e[i] \in K /\ ReleasedBefore(e[i], e[k])
      <4>1. i \in 1 .. n /\ i < k
        BY <1>10
      <4>. QED  BY <1>10, <4>1
    <3>. QED  BY <3>1, <3>2 DEF Values
  <2>2. k - 1 \in 0 .. n
    BY <1>10
  <2>3. Cardinality(Values(e, k - 1)) = k - 1
    BY <1>10, <1>12, <2>2, PrefixCounted
  <2>. QED  BY <2>1, <2>3
<1>. DEFINE C(k) == CHOOSE j \in K :
                     Cardinality({h \in K : ReleasedBefore(h, j)}) = k - 1
<1>14. ASSUME NEW k \in 1 .. n
       PROVE  C(k) = e[k]
  <2>1. e[k] \in K
    BY <1>10
  <2>2. C(k) \in K /\ Cardinality({h \in K : ReleasedBefore(h, C(k))}) = k - 1
    BY <1>13, <2>1
  <2>. HIDE DEF C
  <2>3. PICK i \in 1 .. n : e[i] = C(k)
    BY <1>10, <2>2
  <2>4. Cardinality({h \in K : ReleasedBefore(h, e[i])}) = i - 1
    BY <1>13
  <2>5. i = k
    BY <2>2, <2>3, <2>4
  <2>. QED  BY <2>3, <2>5
<1>15. SortByRelease = e
  <2>1. SortByRelease = [k \in 1 .. n |-> C(k)]
    BY <1>1, <1>9 DEF SortByRelease, K
  <2>2. e = [k \in 1 .. n |-> e[k]]
    BY <1>10
  <2>. HIDE DEF C
  <2>3. [k \in 1 .. n |-> C(k)] = [k \in 1 .. n |-> e[k]]
    BY <1>14
  <2>. QED  BY <2>1, <2>2, <2>3
<1>16. e \in Seq(Jobs) /\ Len(e) = n /\ DOMAIN e = 1 .. n
  <2>1. e \in [1 .. n -> Jobs]
    BY <1>1, <1>10
  <2>. QED  BY <1>10, <2>1, SeqDef
<1>17. IsInjective(e)
  BY <1>12, <1>16 DEF IsInjective
<1>18. ToSet(e) = K
  BY <1>10, <1>16 DEF ToSet
<1>. QED  BY <1>9, <1>15, <1>16, <1>17, <1>18 DEF K


-------------------------------------------------------------------------------
(* What the invariant says of a job.                                       *)

\* An accepted job fits on the platform and has a positive walltime.
LEMMA AcceptedJob ==
  ASSUME Types, JobsAreSound, NEW j \in Jobs, status[j] # "future", IsValid(j)
  PROVE  /\ res[j] \in 1 .. NbMachines
         /\ walltime[j] \in Nat \ {0}
         /\ walltime[j] - RjmsDelay \in Nat \ {0}
         /\ hasWalltime[j]
<1>1. res[j] \in Nat /\ res[j] # 0 /\ res[j] <= NbMachines /\ hasWalltime[j]
  BY DEF Types, JobsAreSound, IsValid
<1>2. PICK w \in Walltimes \ {NoWalltime} : walltime[j] = w + RjmsDelay
  BY <1>1 DEF JobsAreSound
<1>3. w \in Nat \ {0} /\ RjmsDelay \in Nat /\ NbMachines \in Nat
  BY PlatformAssumption
<1>. QED  BY <1>1, <1>2, <1>3

\* Reservations are those of waiting jobs, which are neither running nor done.
LEMMA ReservedJobs ==
  ASSUME Types, QueuesMatchStatus, PointsMatchLocals
  PROVE  /\ Compressed \subseteq ToSet(queue) /\ Reserved \subseteq ToSet(queue)
         /\ Compressed \subseteq Reserved
         /\ ToSet(queue) \subseteq Jobs /\ ToSet(released) \subseteq Jobs
         /\ ToSet(ended) \subseteq Jobs /\ ToSet(recent) \subseteq Jobs
         /\ \A j \in ToSet(queue) \cup ToSet(released) : status[j] = "waiting"
         /\ \A j \in ToSet(ended) : status[j] = "done"
<1>1. /\ DOMAIN queue = 1 .. Len(queue) /\ Len(queue) \in Nat /\ cursor \in Nat
      /\ cursor <= Len(queue) + 1
  BY LenProperties DEF Types, PointsMatchLocals
<1>2. Compressed \subseteq ToSet(queue)
  <2>1. \A i \in 1 .. cursor - 1 : i \in DOMAIN queue
    BY <1>1
  <2>. QED  BY <2>1 DEF Compressed, ToSet
<1>3. \A s \in Seq(Jobs) : ToSet(s) \subseteq Jobs
  BY ElementOfSeq, LenProperties DEF ToSet
<1>. QED  BY <1>2, <1>3 DEF Reserved, Types, QueuesMatchStatus

\* The jobs that are served are jobs.
LEMMA ServedCounted ==
  /\ Served \in SUBSET Jobs
  /\ Cardinality(Served) \in 0 .. NbJobs
  /\ Cardinality(Served) \in Nat
<1>1. Served \in SUBSET Jobs
  BY DEF Served
<1>2. NbJobs \in Nat
  BY BoundsAssumption
<1>. QED  BY <1>1, <1>2, JobsCounted


-------------------------------------------------------------------------------
(* The steps of Batsim.                                                    *)

\* A job that is submitted is not in the schedule, and may bring a longer
\* walltime.
LEMMA SubmitKeepsInv ==
  ASSUME Inv, NEW j \in Jobs, NEW r \in Requests, NEW w \in Walltimes,
         Submit(j, r, w), UNCHANGED schedVars
  PROVE  Inv'
<1>. USE DEF Inv
<1>1. /\ pc = "batsim" /\ status[j] = "future"
      /\ status' = [status EXCEPT ![j] = "waiting"]
      /\ res' = [res EXCEPT ![j] = r]
      /\ walltime' = [walltime EXCEPT ![j] = w + RjmsDelay]
      /\ hasWalltime' = [hasWalltime EXCEPT ![j] = (w # NoWalltime)]
      /\ released' = Append(released, j)
      /\ UNCHANGED <<pc, now, placed, deadline, ended, profile, queue,
                     releasedAt, recent, jobEnded, cursor>>
  BY DEF Submit, schedVars
<1>2. /\ r \in Nat \ {0} /\ RjmsDelay \in Nat
      /\ w \in Nat \ {0} \/ w = NoWalltime
      /\ w \in Int
  BY PlatformAssumption DEF NoWalltime
<1>3. /\ Compressed \subseteq ToSet(queue) /\ Reserved \subseteq ToSet(queue)
      /\ Compressed \subseteq Reserved
      /\ ToSet(queue) \subseteq Jobs /\ ToSet(released) \subseteq Jobs
      /\ \A k \in ToSet(queue) \cup ToSet(released) : status[k] = "waiting"
      /\ \A k \in ToSet(ended) : status[k] = "done"
  BY ReservedJobs
<1>4. j \notin ToSet(queue) /\ j \notin ToSet(released) /\ j \notin ToSet(ended)
      /\ j \notin Reserved
  BY <1>1, <1>3
<1>5. ~ContainsJob(profile, j)
  BY <1>1, <1>4 DEF ProfileMatchesJobs
<1>6. /\ released' \in Seq(Jobs) /\ IsInjective(released')
      /\ ToSet(released') = ToSet(released) \cup {j}
  BY <1>1, <1>4, AppendToInjective DEF Types, QueuesMatchStatus
<1>7. Types'
  BY <1>1, <1>2, <1>6 DEF Types, Status
<1>8. /\ \A k \in Jobs : k # j => /\ status'[k] = status[k]
                                  /\ res'[k] = res[k]
                                  /\ walltime'[k] = walltime[k]
                                  /\ hasWalltime'[k] = hasWalltime[k]
      /\ status'[j] = "waiting" /\ res'[j] = r
      /\ walltime'[j] = w + RjmsDelay /\ hasWalltime'[j] = (w # NoWalltime)
  BY <1>1 DEF Types
<1>9. JobsAreSound'
  <2>1. ASSUME NEW k \in Jobs, status'[k] # "future"
        PROVE  /\ res'[k] # 0
               /\ hasWalltime'[k] => \E x \in Walltimes \ {NoWalltime} :
                                       walltime'[k] = x + RjmsDelay
    BY <1>2, <1>8, <2>1 DEF JobsAreSound
  <2>2. ASSUME NEW k \in Jobs,
               status'[k] \in {"running", "done"} \/ k \in ToSet(queue)
        PROVE  IsValid(k)'
    BY <1>4, <1>8, <2>2 DEF JobsAreSound, IsValid
  <2>3. ASSUME NEW k \in Jobs, status'[k] # "running"
        PROVE  placed'[k] = {}
    BY <1>1, <1>8, <2>3 DEF JobsAreSound
  <2>. QED  BY <1>1, <2>1, <2>2, <2>3 DEF JobsAreSound
<1>10. QueuesMatchStatus'
  <2>1. {k \in Jobs : status'[k] = "waiting"}
          = {k \in Jobs : status[k] = "waiting"} \cup {j}
    BY <1>8
  <2>2. \A k \in ToSet(ended) : status'[k] = "done"
    BY <1>3, <1>4, <1>8, ReservedJobs
  <2>. QED  BY <1>1, <1>4, <1>6, <2>1, <2>2 DEF QueuesMatchStatus
<1>11. PointsMatchLocals'
  BY <1>1 DEF PointsMatchLocals
<1>12. Compressed' = Compressed /\ Reserved' = Reserved
  BY <1>1 DEF Compressed, Reserved
<1>13. ProfileMatchesJobs'
  <2>1. \A k : ContainsJob(profile, k) => res'[k] = res[k]
    <3>1. ASSUME NEW k, ContainsJob(profile, k)
          PROVE  res'[k] = res[k]
      BY <1>1, <1>5, <3>1 DEF Types
    <3>. QED  BY <3>1
  <2>2. IsSound(profile, Jobs, Machines, res')
    BY <2>1, SoundOtherwise DEF ProfileMatchesJobs
  <2>3. \A k \in Jobs : status'[k] = "running" <=> status[k] = "running"
    BY <1>1, <1>8
  <2>. QED  BY <1>1, <1>12, <2>2, <2>3 DEF ProfileMatchesJobs
<1>14. RunningArePresent'
  BY <1>1, <1>8 DEF RunningArePresent
<1>15. ReservationsAreAhead'
  <2>1. \A k \in Reserved : walltime'[k] = walltime[k] /\ res'[k] = res[k]
    BY <1>3, <1>4, <1>8
  <2>. QED  BY <1>1, <1>12, <2>1 DEF ReservationsAreAhead
<1>16. ReservationsFollow'
  BY <1>1, <1>12 DEF ReservationsFollow
<1>17. HorizonIsAhead'
  <2>1. Served' = Served
    BY <1>1, <1>8 DEF Served
  <2>2. PICK W \in Nat :
          /\ BoundsWalltimes(W)
          /\ now <= LastSubmission + Cardinality(Served) * W
          /\ profile[Len(profile)].begin
               <= LastSubmission + Cardinality(Served) * W
    BY DEF HorizonIsAhead
  <2>3. \A k \in Jobs \ {j} :
          status'[k] # "future" /\ hasWalltime'[k] => walltime'[k] <= W
    BY <1>8, <2>2 DEF BoundsWalltimes
  <2>4. CASE w # NoWalltime /\ w + RjmsDelay > W
    <3>1. PICK V : V = w + RjmsDelay
      OBVIOUS
    <3>2. V \in Nat /\ W <= V
      BY <1>2, <2>4, <3>1
    <3>3. BoundsWalltimes(V)'
      <4>1. \A k \in Jobs : status'[k] # "future" /\ hasWalltime'[k] => walltime'[k] <= V
        <5>1. ASSUME NEW k \in Jobs, status'[k] # "future", hasWalltime'[k]
              PROVE  walltime'[k] <= V
          <6>1. CASE k = j
            BY <1>8, <3>1, <3>2, <6>1
          <6>2. CASE k # j
            <7>1. walltime'[k] <= W
              BY <2>3, <5>1, <6>2
            <7>2. walltime'[k] \in Int
              BY <1>7 DEF Types
            <7>. QED  BY <3>2, <7>1, <7>2
          <6>. QED  BY <6>1, <6>2
        <5>. QED  BY <5>1
      <4>. QED  BY <2>4, <3>1, <4>1 DEF BoundsWalltimes
    <3>4. now \in Int /\ profile[Len(profile)].begin \in Int
      BY LastBegin DEF Types, ProfileMatchesJobs
    <3>5. LastSubmission + Cardinality(Served) * W
            <= LastSubmission + Cardinality(Served) * V
      BY <3>2, ServedCounted, ProductGrows, BoundsAssumption
    <3>6. now <= LastSubmission + Cardinality(Served) * V
          /\ profile[Len(profile)].begin
               <= LastSubmission + Cardinality(Served) * V
      <4>1. /\ LastSubmission + Cardinality(Served) * W \in Int
            /\ LastSubmission + Cardinality(Served) * V \in Int
        BY <3>2, ServedCounted, ProductGrows, BoundsAssumption
      <4>. QED  BY <2>2, <3>4, <3>5, <4>1
    <3>. QED  BY <1>1, <2>1, <3>2, <3>3, <3>6 DEF HorizonIsAhead
  <2>5. CASE ~(w # NoWalltime /\ w + RjmsDelay > W)
    <3>1. BoundsWalltimes(W)'
      <4>1. hasWalltime'[j] => walltime'[j] <= W
        <5>1. w # NoWalltime => w + RjmsDelay <= W
          BY <1>2, <2>5
        <5>. QED  BY <1>8, <5>1
      <4>2. \A k \in Jobs : status'[k] # "future" /\ hasWalltime'[k] => walltime'[k] <= W
        BY <2>3, <4>1
      <4>. QED  BY <2>2, <4>2 DEF BoundsWalltimes
    <3>. QED  BY <1>1, <2>1, <2>2, <3>1 DEF HorizonIsAhead
  <2>. QED  BY <2>4, <2>5
<1>. QED
  BY <1>7, <1>9, <1>10, <1>11, <1>13, <1>14, <1>15, <1>16, <1>17


\* A job that completes stays in the schedule until the scheduler is told.
LEMMA CompleteKeepsInv ==
  ASSUME Inv, NEW j \in Jobs, Complete(j), UNCHANGED schedVars
  PROVE  Inv'
<1>. USE DEF Inv
<1>1. /\ pc = "batsim" /\ status[j] = "running"
      /\ status' = [status EXCEPT ![j] = "done"]
      /\ placed' = [placed EXCEPT ![j] = {}]
      /\ ended' = Append(ended, j)
      /\ UNCHANGED <<pc, now, res, walltime, hasWalltime, deadline, released,
                     profile, queue, releasedAt, recent, jobEnded, cursor>>
  BY DEF Complete, schedVars, jobVars
<1>2. /\ Reserved \subseteq ToSet(queue)
      /\ ToSet(queue) \subseteq Jobs /\ ToSet(released) \subseteq Jobs
      /\ \A k \in ToSet(queue) \cup ToSet(released) : status[k] = "waiting"
      /\ \A k \in ToSet(ended) : status[k] = "done"
  BY ReservedJobs
<1>3. j \notin ToSet(ended) /\ j \notin ToSet(queue) /\ j \notin Reserved
  BY <1>1, <1>2
<1>4. /\ ended' \in Seq(Jobs) /\ IsInjective(ended')
      /\ ToSet(ended') = ToSet(ended) \cup {j}
  BY <1>1, <1>3, AppendToInjective DEF Types, QueuesMatchStatus
<1>5. /\ \A k \in Jobs : k # j => status'[k] = status[k] /\ placed'[k] = placed[k]
      /\ status'[j] = "done" /\ placed'[j] = {}
  BY <1>1 DEF Types
<1>6. Types'
  BY <1>1, <1>4 DEF Types, Status
<1>7. JobsAreSound'
  <2>1. \A k \in Jobs : status'[k] # "future" => status[k] # "future"
    BY <1>1, <1>5
  <2>2. \A k \in Jobs : status'[k] \in {"running", "done"}
                          => status[k] \in {"running", "done"}
    BY <1>1, <1>5
  <2>3. \A k \in Jobs : status'[k] # "running" => placed'[k] = {}
    BY <1>5 DEF JobsAreSound
  <2>4. \A k \in Jobs : IsValid(k)' = IsValid(k)
    BY <1>1 DEF IsValid
  <2>. QED  BY <1>1, <2>1, <2>2, <2>3, <2>4 DEF JobsAreSound
<1>8. QueuesMatchStatus'
  <2>1. {k \in Jobs : status'[k] = "waiting"} = {k \in Jobs : status[k] = "waiting"}
    BY <1>1, <1>5
  <2>2. \A k \in ToSet(ended') : status'[k] = "done"
    BY <1>2, <1>4, <1>5, ReservedJobs
  <2>. QED  BY <1>1, <1>4, <2>1, <2>2 DEF QueuesMatchStatus
<1>9. PointsMatchLocals'
  BY <1>1 DEF PointsMatchLocals
<1>10. Compressed' = Compressed /\ Reserved' = Reserved
  BY <1>1 DEF Compressed, Reserved
<1>11. ProfileMatchesJobs'
  <2>1. \A k \in Jobs : status'[k] = "running" \/ k \in ToSet(ended')
                          <=> status[k] = "running" \/ k \in ToSet(ended)
    BY <1>1, <1>4, <1>5
  <2>. QED  BY <1>1, <1>10, <2>1 DEF ProfileMatchesJobs
<1>12. RunningArePresent'
  BY <1>1, <1>5 DEF RunningArePresent
<1>13. ReservationsAreAhead' /\ ReservationsFollow'
  BY <1>1, <1>10 DEF ReservationsAreAhead, ReservationsFollow
<1>14. HorizonIsAhead'
  <2>1. Served' = Served
    BY <1>1, <1>5 DEF Served
  <2>2. \A W \in Nat : BoundsWalltimes(W) => BoundsWalltimes(W)'
    <3>1. \A k \in Jobs : status'[k] # "future" => status[k] # "future"
      BY <1>1, <1>5
    <3>. QED  BY <1>1, <3>1 DEF BoundsWalltimes
  <2>. QED  BY <1>1, <2>1, <2>2 DEF HorizonIsAhead
<1>. QED
  BY <1>6, <1>7, <1>8, <1>9, <1>11, <1>12, <1>13, <1>14

\* Time passes no reservation: each follows an allocation that ends later, of a
\* running job, or has begun later, of a waiting one.
LEMMA TickKeepsInv ==
  ASSUME Inv, Tick, UNCHANGED schedVars
  PROVE  Inv'
<1>. USE DEF Inv
<1>1. /\ pc = "batsim" /\ ended = <<>> /\ released = <<>>
      /\ SomethingToCome
      /\ \A j \in Jobs : status[j] = "running" => now < deadline[j]
      /\ now' = now + 1
      /\ UNCHANGED <<pc, status, res, walltime, hasWalltime, placed, deadline,
                     ended, released, profile, queue, releasedAt, recent,
                     jobEnded, cursor>>
  BY DEF Tick, schedVars, jobVars
<1>2. /\ Types' /\ now \in Int /\ \A j \in Jobs : deadline[j] \in Int
      /\ ToSet(ended) = {} /\ ~jobEnded /\ RjmsDelay \in Nat
  BY <1>1, PlatformAssumption DEF Types, ToSet, PointsMatchLocals
<1>3. JobsAreSound' /\ QueuesMatchStatus' /\ PointsMatchLocals'
  <2>1. \A k \in Jobs : IsValid(k)' = IsValid(k)
    BY <1>1 DEF IsValid
  <2>. QED
    BY <1>1, <2>1 DEF JobsAreSound, QueuesMatchStatus, PointsMatchLocals
<1>4. Compressed' = Compressed /\ Reserved' = Reserved /\ Served' = Served
  BY <1>1 DEF Compressed, Reserved, Served
<1>5. /\ IsSound(profile, Jobs, Machines, res)
      /\ profile[1].begin \in Int /\ profile[1].begin <= now
      /\ profile[Len(profile)].begin \in Int
      /\ IsFiniteSet(Machines)
  BY LastBegin, MachinesFinite DEF ProfileMatchesJobs
<1>6. ProfileMatchesJobs'
  BY <1>1, <1>2, <1>4, <1>5 DEF ProfileMatchesJobs
<1>7. RunningArePresent'
  BY <1>1, <1>2 DEF RunningArePresent
<1>8. Reserved \subseteq Jobs
  BY ReservedJobs
<1>9. ASSUME NEW k \in Jobs, status[k] = "running"
      PROVE  /\ ContainsJob(profile, k)
             /\ Allocation(profile, k).end > now
             /\ now + 1 <= profile[Len(profile)].begin
  <2>1. ContainsJob(profile, k)
    BY <1>9 DEF ProfileMatchesJobs
  <2>2. /\ Allocation(profile, k).end \in Int
        /\ Allocation(profile, k).end <= profile[Len(profile)].begin
    BY <1>5, <2>1, AllocationFacts
  <2>3. Allocation(profile, k).end >= deadline[k] + RjmsDelay
    BY <1>9 DEF RunningArePresent
  <2>4. now < deadline[k] /\ deadline[k] \in Int
    BY <1>1, <1>2, <1>9
  <2>. QED  BY <1>2, <1>5, <2>1, <2>2, <2>3, <2>4
<1>10. ASSUME NEW j \in Reserved
       PROVE  now + 1 <= Allocation(profile, j).begin
  <2>1. j \in Jobs /\ ContainsJob(profile, j)
    BY <1>8 DEF ProfileMatchesJobs
  <2>2. PICK k \in Jobs :
          k # j /\ EndsBefore(profile, k, Allocation(profile, j).begin)
    BY <1>2 DEF ReservationsFollow
  <2>3. ContainsJob(profile, k)
    BY <2>2 DEF EndsBefore
  <2>4. PICK b, e, d : /\ b = Allocation(profile, k).begin
                       /\ e = Allocation(profile, k).end
                       /\ d = Allocation(profile, j).begin
    OBVIOUS
  <2>5. b \in Int /\ e \in Int /\ d \in Int
    BY <1>5, <2>1, <2>3, <2>4, AllocationFacts
  <2>6. CASE status[k] = "running"
    <3>1. e > now /\ e <= d
      BY <1>9, <2>2, <2>4, <2>6 DEF EndsBefore
    <3>. QED  BY <1>2, <2>4, <2>5, <3>1
  <2>7. CASE k \in Reserved
    <3>1. ~Allocation(profile, k).present /\ now <= b
      BY <2>4, <2>7 DEF ReservationsAreAhead
    <3>2. b < d
      BY <2>2, <2>4, <3>1 DEF EndsBefore
    <3>. QED  BY <1>2, <2>4, <2>5, <3>1, <3>2
  <2>8. status[k] = "running" \/ k \in Reserved
    BY <1>2, <2>3 DEF ProfileMatchesJobs
  <2>. QED  BY <2>6, <2>7, <2>8
<1>11. ReservationsAreAhead'
  <2>1. \A j \in Reserved : now' <= Allocation(profile, j).begin
    BY <1>1, <1>10
  <2>. QED  BY <1>1, <1>4, <2>1 DEF ReservationsAreAhead
<1>12. ReservationsFollow'
  BY <1>1, <1>4 DEF ReservationsFollow
<1>13. HorizonIsAhead'
  <2>1. PICK W \in Nat :
          /\ BoundsWalltimes(W)
          /\ profile[Len(profile)].begin
               <= LastSubmission + Cardinality(Served) * W
    BY DEF HorizonIsAhead
  <2>2. PICK H : H = LastSubmission + Cardinality(Served) * W
    OBVIOUS
  <2>3. H \in Int /\ LastSubmission <= H
    <3>1. LastSubmission \in Nat /\ Cardinality(Served) * W \in Nat
      BY BoundsAssumption, ServedCounted, ProductGrows
    <3>. QED  BY <2>2, <3>1
  <2>4. now + 1 <= H
    <3>1. CASE now < LastSubmission
      BY <1>2, <2>3, <3>1, BoundsAssumption
    <3>2. CASE \E k \in Jobs : status[k] = "running"
      <4>1. now + 1 <= profile[Len(profile)].begin
        BY <1>9, <3>2
      <4>. QED  BY <1>2, <1>5, <2>1, <2>2, <2>3, <4>1
    <3>. QED  BY <1>1, <3>1, <3>2 DEF SomethingToCome
  <2>5. BoundsWalltimes(W)'
    BY <1>1, <2>1 DEF BoundsWalltimes
  <2>. QED  BY <1>1, <1>4, <2>1, <2>2, <2>4, <2>5 DEF HorizonIsAhead
<1>. QED
  BY <1>2, <1>3, <1>6, <1>7, <1>11, <1>12, <1>13


-------------------------------------------------------------------------------
(* The steps of the scheduler that leave the schedule alone.               *)

\* The reservations that are known to follow another allocation.
Following == IF jobEnded THEN Compressed ELSE Reserved

\* What the schedule is for is not changed.
SamePurpose ==
  /\ \A j \in Jobs : /\ status'[j] = "running" <=> status[j] = "running"
                     /\ status'[j] = "done" <=> status[j] = "done"
                     /\ status'[j] = "future" <=> status[j] = "future"
  /\ UNCHANGED <<now, jobVars, placed, deadline, ended>>

\* The part of the invariant that is about the schedule.
ScheduleInv ==
  /\ ProfileMatchesJobs
  /\ RunningArePresent
  /\ ReservationsAreAhead
  /\ ReservationsFollow
  /\ HorizonIsAhead

\* A step that leaves the schedule, its jobs and its reservations alone keeps what
\* the invariant says of it.
LEMMA SameSchedule ==
  ASSUME Inv, SamePurpose, UNCHANGED profile, Reserved' = Reserved,
         Following' \subseteq Following,
         pc' \in {"insert", "compress", "answer"} => profile[1].begin = now
  PROVE  ScheduleInv'
<1>. USE DEF Inv
<1>1. /\ \A j \in Jobs : /\ status'[j] = "running" <=> status[j] = "running"
                         /\ status'[j] = "done" <=> status[j] = "done"
                         /\ status'[j] = "future" <=> status[j] = "future"
      /\ UNCHANGED <<now, res, walltime, hasWalltime, placed, deadline, ended>>
  BY DEF SamePurpose, jobVars
<1>2. ProfileMatchesJobs'
  BY <1>1 DEF ProfileMatchesJobs
<1>3. RunningArePresent'
  BY <1>1 DEF RunningArePresent
<1>4. ReservationsAreAhead'
  BY <1>1 DEF ReservationsAreAhead
<1>5. ReservationsFollow'
  BY <1>1 DEF ReservationsFollow, Following
<1>6. HorizonIsAhead'
  <2>1. Served' = Served
    BY <1>1 DEF Served
  <2>2. \A W \in Nat : BoundsWalltimes(W) => BoundsWalltimes(W)'
    BY <1>1 DEF BoundsWalltimes
  <2>. QED  BY <1>1, <2>1, <2>2 DEF HorizonIsAhead
<1>. QED  BY <1>2, <1>3, <1>4, <1>5, <1>6 DEF ScheduleInv

\* The invariant is made of these parts.
LEMMA InvParts ==
  /\ Inv <=> Types /\ JobsAreSound /\ QueuesMatchStatus /\ PointsMatchLocals
               /\ ScheduleInv
  /\ Inv' <=> Types' /\ JobsAreSound' /\ QueuesMatchStatus'
                /\ PointsMatchLocals' /\ ScheduleInv'
  BY DEF Inv, ScheduleInv

\* A step to the next part of make_decisions.
LEMMA MoveKeepsInv ==
  ASSUME Inv, UNCHANGED <<worldVars, jobVars, ended, released, profile, queue,
                          releasedAt>>,
         \/ UNCHANGED <<pc, recent, jobEnded, cursor>>
         \/ Receive \/ EndedHandled \/ ReleasedHandled \/ ScheduleDone \/ Reply
  PROVE  Inv'
<1>. USE DEF Inv, worldVars, jobVars
<1>1. /\ cursor \in Nat /\ Len(queue) \in Nat
      /\ Compressed \subseteq Reserved /\ Reserved \subseteq ToSet(queue)
  BY ReservedJobs, LenProperties DEF Types
<1>2. ToSet(<<>>) = {} /\ IsInjective(<<>>) /\ <<>> \in Seq(Jobs)
  BY DEF ToSet, IsInjective
<1>3. cursor = 1 => Compressed = {}
  BY DEF Compressed
<1>4. cursor = Len(queue) + 1 => Compressed = ToSet(queue)
  <2>1. DOMAIN queue = 1 .. Len(queue)
    BY LenProperties DEF Types
  <2>2. (Len(queue) + 1) - 1 = Len(queue)
    BY <1>1
  <2>. QED  BY <2>1, <2>2 DEF Compressed, ToSet
<1>5. pc \in ProgramPoints
  BY DEF Types
<1>. USE DEF ProgramPoints
<1>6. CASE UNCHANGED <<pc, recent, jobEnded, cursor>>
  <2>1. Compressed' = Compressed /\ Reserved' = Reserved
    BY <1>6 DEF Compressed, Reserved
  <2>2. Types' /\ JobsAreSound' /\ QueuesMatchStatus' /\ PointsMatchLocals'
    BY <1>6 DEF Types, JobsAreSound, IsValid, QueuesMatchStatus, PointsMatchLocals
  <2>3. ScheduleInv'
    BY <1>6, <2>1, SameSchedule DEF SamePurpose, Following, ProfileMatchesJobs
  <2>. QED  BY <2>2, <2>3, InvParts
<1>7. CASE Receive
  <2>1. /\ pc = "batsim" /\ pc' = "ended" /\ jobEnded' = (ended # <<>>)
        /\ UNCHANGED <<recent, cursor>>
    BY <1>7 DEF Receive
  <2>2. ~jobEnded /\ cursor = 1
    BY <2>1 DEF PointsMatchLocals
  <2>3. Compressed' = Compressed /\ Reserved' = Reserved /\ Compressed = {}
    BY <1>3, <2>1, <2>2 DEF Compressed, Reserved
  <2>4. Types' /\ JobsAreSound' /\ QueuesMatchStatus' /\ PointsMatchLocals'
    BY <2>1, <2>2 DEF Types, JobsAreSound, IsValid, QueuesMatchStatus,
                      PointsMatchLocals
  <2>5. ScheduleInv'
    BY <1>1, <2>1, <2>2, <2>3, SameSchedule DEF SamePurpose, Following
  <2>. QED  BY <2>4, <2>5, InvParts
<1>8. CASE EndedHandled \/ ReleasedHandled
  <2>1. /\ UNCHANGED <<recent, jobEnded, cursor>>
        /\ \/ pc = "ended" /\ pc' = "released" /\ ended = <<>>
           \/ pc = "released" /\ pc' = "present" /\ released = <<>>
    BY <1>8 DEF EndedHandled, ReleasedHandled, schedVars
  <2>2. Compressed' = Compressed /\ Reserved' = Reserved
    BY <2>1 DEF Compressed, Reserved
  <2>3. Types' /\ JobsAreSound'
    BY <2>1 DEF Types, JobsAreSound, IsValid
  <2>4. QueuesMatchStatus' /\ PointsMatchLocals'
    BY <1>2, <2>1 DEF QueuesMatchStatus, PointsMatchLocals
  <2>5. ScheduleInv'
    BY <2>1, <2>2, SameSchedule DEF SamePurpose, Following
  <2>. QED  BY <2>3, <2>4, <2>5, InvParts
<1>9. CASE ScheduleDone
  <2>1. /\ UNCHANGED <<recent, jobEnded, cursor>> /\ pc' = "answer"
        /\ \/ pc = "insert" /\ recent = <<>>
           \/ pc = "compress" /\ cursor > Len(queue)
    BY <1>9 DEF ScheduleDone, schedVars
  <2>2. Compressed' = Compressed /\ Reserved' = Reserved
    BY <2>1 DEF Compressed, Reserved
  <2>3. Types' /\ JobsAreSound' /\ QueuesMatchStatus'
    BY <2>1 DEF Types, JobsAreSound, IsValid, QueuesMatchStatus
  <2>4. PointsMatchLocals'
    <3>1. pc = "compress" => cursor = Len(queue) + 1 /\ jobEnded
      BY <1>1, <2>1 DEF PointsMatchLocals
    <3>. QED  BY <2>1, <3>1 DEF PointsMatchLocals
  <2>5. ScheduleInv'
    BY <2>1, <2>2, SameSchedule DEF SamePurpose, Following, ProfileMatchesJobs
  <2>. QED  BY <2>3, <2>4, <2>5, InvParts
<1>10. CASE Reply
  <2>1. /\ pc = "answer" /\ pc' = "batsim" /\ recent' = <<>>
        /\ jobEnded' = FALSE /\ cursor' = 1
    BY <1>10 DEF Reply
  <2>2. Compressed' = {} /\ Reserved' = ToSet(queue)
    BY <1>2, <2>1 DEF Compressed, Reserved
  <2>3. Reserved = ToSet(queue) /\ Following = ToSet(queue)
    <3>1. CASE jobEnded
      <4>1. Compressed = ToSet(queue)
        BY <1>4, <2>1, <3>1 DEF PointsMatchLocals
      <4>. QED  BY <1>1, <3>1, <4>1 DEF Following
    <3>2. CASE ~jobEnded
      <4>1. cursor = 1 /\ recent = <<>>
        BY <2>1, <3>2 DEF PointsMatchLocals
      <4>. QED  BY <1>2, <1>3, <3>2, <4>1 DEF Reserved, Following
    <3>. QED  BY <3>1, <3>2
  <2>4. Following' = ToSet(queue)
    BY <2>1, <2>2 DEF Following
  <2>5. Types' /\ JobsAreSound'
    <3>1. pc' \in ProgramPoints /\ cursor' \in Nat \ {0} /\ recent' \in Seq(Jobs)
      BY <1>2, <2>1
    <3>2. Types'
      BY <2>1, <3>1 DEF Types
    <3>. QED  BY <2>1, <3>2 DEF JobsAreSound, IsValid
  <2>6. QueuesMatchStatus'
    BY <1>2, <2>1 DEF QueuesMatchStatus
  <2>7. PointsMatchLocals'
    BY <1>1, <2>1 DEF PointsMatchLocals
  <2>8. ScheduleInv'
    BY <2>1, <2>2, <2>3, <2>4, SameSchedule DEF SamePurpose
  <2>. QED  BY <2>5, <2>6, <2>7, <2>8, InvParts
<1>. QED  BY <1>6, <1>7, <1>8, <1>9, <1>10


\* A job that is refused has never been in the queue or in the schedule.
LEMMA RejectKeepsInv ==
  ASSUME Inv, RejectReleased
  PROVE  Inv'
<1>. USE DEF Inv
<1>1. PICK j : j = Head(released)
  OBVIOUS
<1>2. /\ pc = "released" /\ released # <<>>
      /\ status' = [status EXCEPT ![j] = "rejected"]
      /\ released' = Tail(released)
      /\ UNCHANGED <<pc, now, placed, deadline, res, walltime, hasWalltime,
                     ended, profile, queue, releasedAt, recent, jobEnded, cursor>>
  BY <1>1 DEF RejectReleased, RejectJob, schedVars, jobVars
<1>3. /\ Tail(released) \in Seq(Jobs) /\ j \in Jobs /\ j \in ToSet(released)
      /\ IsInjective(Tail(released))
      /\ ToSet(Tail(released)) = ToSet(released) \ {j}
  BY <1>1, <1>2, TailOfInjective DEF Types, QueuesMatchStatus
<1>4. /\ ToSet(queue) \subseteq Jobs
      /\ \A k \in ToSet(queue) \cup ToSet(released) : status[k] = "waiting"
      /\ \A k \in ToSet(ended) : status[k] = "done"
  BY ReservedJobs
<1>5. /\ \A k \in Jobs : k # j => status'[k] = status[k]
      /\ status[j] = "waiting" /\ status'[j] = "rejected"
      /\ j \notin ToSet(ended) /\ j \notin ToSet(queue)
  BY <1>2, <1>3, <1>4 DEF Types, QueuesMatchStatus
<1>6. Types'
  BY <1>2, <1>3 DEF Types, Status
<1>7. JobsAreSound'
  BY <1>2, <1>5 DEF JobsAreSound, IsValid
<1>8. QueuesMatchStatus'
  <2>1. {k \in Jobs : status'[k] = "waiting"}
          = {k \in Jobs : status[k] = "waiting"} \ {j}
    BY <1>5
  <2>2. \A k \in ToSet(ended) : status'[k] = "done"
    BY <1>4, <1>5, ReservedJobs
  <2>. QED  BY <1>2, <1>3, <1>5, <2>1, <2>2 DEF QueuesMatchStatus
<1>9. PointsMatchLocals'
  BY <1>2 DEF PointsMatchLocals
<1>10. ScheduleInv'
  <2>1. SamePurpose
    BY <1>2, <1>5 DEF SamePurpose, jobVars
  <2>2. Compressed' = Compressed /\ Reserved' = Reserved
    BY <1>2 DEF Compressed, Reserved
  <2>. QED  BY <1>2, <2>1, <2>2, SameSchedule DEF Following
<1>. QED  BY <1>6, <1>7, <1>8, <1>9, <1>10, InvParts

\* A job that is queued has no reservation yet.
LEMMA QueueKeepsInv ==
  ASSUME Inv, QueueReleased
  PROVE  Inv'
<1>. USE DEF Inv
<1>1. PICK j : j = Head(released)
  OBVIOUS
<1>2. /\ pc = "released" /\ released # <<>> /\ IsValid(j)
      /\ queue' = Append(queue, j)
      /\ releasedAt' = [releasedAt EXCEPT ![j] = now]
      /\ recent' = Append(recent, j)
      /\ released' = Tail(released)
      /\ UNCHANGED <<pc, now, status, placed, deadline, res, walltime,
                     hasWalltime, ended, profile, jobEnded, cursor>>
  BY <1>1 DEF QueueReleased, worldVars, jobVars
<1>3. /\ Tail(released) \in Seq(Jobs) /\ j \in Jobs /\ j \in ToSet(released)
      /\ IsInjective(Tail(released))
      /\ ToSet(Tail(released)) = ToSet(released) \ {j}
  BY <1>1, <1>2, TailOfInjective DEF Types, QueuesMatchStatus
<1>4. /\ \A k \in ToSet(queue) \cup ToSet(released) : status[k] = "waiting"
      /\ ToSet(recent) \subseteq ToSet(queue)
      /\ j \notin ToSet(queue) /\ j \notin ToSet(recent)
  BY <1>2, <1>3, ReservedJobs DEF QueuesMatchStatus
<1>5. /\ queue' \in Seq(Jobs) /\ IsInjective(queue')
      /\ ToSet(queue') = ToSet(queue) \cup {j}
      /\ recent' \in Seq(Jobs) /\ IsInjective(recent')
      /\ ToSet(recent') = ToSet(recent) \cup {j}
  <2>1. /\ queue \in Seq(Jobs) /\ IsInjective(queue)
        /\ recent \in Seq(Jobs) /\ IsInjective(recent)
    BY DEF Types, QueuesMatchStatus
  <2>2. /\ Append(queue, j) \in Seq(Jobs) /\ IsInjective(Append(queue, j))
        /\ ToSet(Append(queue, j)) = ToSet(queue) \cup {j}
    BY <1>3, <1>4, <2>1, AppendToInjective
  <2>3. /\ Append(recent, j) \in Seq(Jobs) /\ IsInjective(Append(recent, j))
        /\ ToSet(Append(recent, j)) = ToSet(recent) \cup {j}
    BY <1>3, <1>4, <2>1, AppendToInjective
  <2>. QED  BY <1>2, <2>2, <2>3
<1>6. Types'
  BY <1>2, <1>3, <1>5 DEF Types
<1>7. JobsAreSound'
  BY <1>2, <1>5 DEF JobsAreSound, IsValid
<1>8. QueuesMatchStatus'
  BY <1>2, <1>3, <1>4, <1>5 DEF QueuesMatchStatus
<1>9. PointsMatchLocals' /\ cursor = 1
  <2>1. Len(queue') = Len(queue) + 1 /\ Len(queue) \in Nat
    BY <1>2, <1>3, LenProperties, AppendProperties DEF Types
  <2>2. cursor = 1
    BY <1>2 DEF PointsMatchLocals
  <2>. QED  BY <1>2, <2>1, <2>2 DEF PointsMatchLocals
<1>10. ScheduleInv'
  <2>1. SamePurpose
    BY <1>2 DEF SamePurpose, jobVars
  <2>2. Compressed = {} /\ Compressed' = {}
    BY <1>2, <1>9 DEF Compressed
  <2>3. Reserved' = Reserved
    BY <1>4, <1>5, <2>2 DEF Reserved
  <2>. QED  BY <1>2, <2>1, <2>2, <2>3, SameSchedule DEF Following
<1>. QED  BY <1>6, <1>7, <1>8, <1>9, <1>10, InvParts

-------------------------------------------------------------------------------
(* The steps that change the schedule.                                     *)

\* A job that has ended leaves the schedule; its machines are free again.
LEMMA RemoveEndedKeepsInv ==
  ASSUME Inv, RemoveEnded
  PROVE  Inv'
<1>. USE DEF Inv
<1>1. PICK j : j = Head(ended)
  OBVIOUS
<1>2. /\ pc = "ended" /\ ended # <<>>
      /\ profile' = RemoveJob(profile, j, res[j])
      /\ ended' = Tail(ended)
      /\ UNCHANGED <<pc, now, status, placed, deadline, res, walltime,
                     hasWalltime, released, queue, releasedAt, recent, jobEnded,
                     cursor>>
  BY <1>1 DEF RemoveEnded, worldVars, jobVars
<1>3. /\ Tail(ended) \in Seq(Jobs) /\ j \in Jobs /\ j \in ToSet(ended)
      /\ IsInjective(Tail(ended))
      /\ ToSet(Tail(ended)) = ToSet(ended) \ {j}
  BY <1>1, <1>2, TailOfInjective DEF Types, QueuesMatchStatus
<1>4. /\ Reserved \subseteq ToSet(queue) /\ ToSet(queue) \subseteq Jobs
      /\ \A k \in ToSet(queue) : status[k] = "waiting"
      /\ \A k \in ToSet(ended) : status[k] = "done"
  BY ReservedJobs
<1>5. status[j] = "done" /\ j \notin Reserved /\ ContainsJob(profile, j)
  BY <1>3, <1>4 DEF ProfileMatchesJobs
<1>6. IsSound(profile', Jobs, Machines, res) /\ IsRemoved(profile', profile, j)
  BY <1>2, <1>3, <1>5, RemoveSound, MachinesFinite DEF ProfileMatchesJobs
<1>7. /\ ~ContainsJob(profile', j)
      /\ \A k : k # j =>
           /\ ContainsJob(profile, k) <=> ContainsJob(profile', k)
           /\ ContainsJob(profile, k)
                => Allocation(profile', k) = Allocation(profile, k)
      /\ profile'[1].begin = profile[1].begin
      /\ profile'[Len(profile')].begin <= profile[Len(profile)].begin
  BY <1>6 DEF IsRemoved, SameAllocation
<1>8. Types' /\ JobsAreSound'
  BY <1>2, <1>3 DEF Types, JobsAreSound, IsValid
<1>9. QueuesMatchStatus'
  BY <1>2, <1>3 DEF QueuesMatchStatus
<1>10. PointsMatchLocals' /\ jobEnded /\ cursor = 1
  BY <1>2 DEF PointsMatchLocals
<1>11. Compressed' = Compressed /\ Reserved' = Reserved /\ Compressed = {}
  BY <1>2, <1>10 DEF Compressed, Reserved
<1>12. ProfileMatchesJobs'
  <2>1. \A k \in Jobs : ContainsJob(profile', k) <=>
          status[k] = "running" \/ k \in ToSet(ended') \/ k \in Reserved
    BY <1>2, <1>3, <1>5, <1>7 DEF ProfileMatchesJobs
  <2>. QED  BY <1>2, <1>6, <1>7, <1>11, <2>1 DEF ProfileMatchesJobs
<1>13. RunningArePresent'
  <2>1. \A k \in Jobs : status[k] = "running" =>
          Allocation(profile', k) = Allocation(profile, k)
    BY <1>5, <1>7 DEF ProfileMatchesJobs
  <2>. QED  BY <1>2, <2>1 DEF RunningArePresent
<1>14. ReservationsAreAhead'
  <2>1. \A k \in Reserved : Allocation(profile', k) = Allocation(profile, k)
    BY <1>4, <1>5, <1>7 DEF ProfileMatchesJobs
  <2>. QED  BY <1>2, <1>11, <2>1 DEF ReservationsAreAhead
<1>15. ReservationsFollow'
  BY <1>2, <1>10, <1>11 DEF ReservationsFollow
<1>16. HorizonIsAhead'
  <2>1. Served' = Served
    BY <1>2, <1>5, <1>7 DEF Served
  <2>2. PICK W \in Nat :
          /\ BoundsWalltimes(W)
          /\ now <= LastSubmission + Cardinality(Served) * W
          /\ profile[Len(profile)].begin
               <= LastSubmission + Cardinality(Served) * W
    BY DEF HorizonIsAhead
  <2>3. BoundsWalltimes(W)'
    BY <1>2, <2>2 DEF BoundsWalltimes
  <2>4. profile'[Len(profile')].begin
          <= LastSubmission + Cardinality(Served) * W
    <3>1. PICK x, y, H : /\ x = profile[Len(profile)].begin
                         /\ y = profile'[Len(profile')].begin
                         /\ H = LastSubmission + Cardinality(Served) * W
      OBVIOUS
    <3>2. x \in Int /\ y \in Int
      BY <1>6, <3>1, LastBegin DEF ProfileMatchesJobs
    <3>3. H \in Int
      BY <3>1, ServedCounted, ProductGrows, BoundsAssumption
    <3>4. y <= x /\ x <= H
      BY <1>7, <2>2, <3>1
    <3>. QED  BY <3>1, <3>2, <3>3, <3>4
  <2>. QED  BY <1>2, <2>1, <2>2, <2>3, <2>4 DEF HorizonIsAhead
<1>. QED
  BY <1>8, <1>9, <1>10, <1>12, <1>13, <1>14, <1>15, <1>16


\* What update_first_slice asserts: the first slice has not ended yet, as where
\* it ends a running job ends or a reservation begins.
LEMMA PresentIsFirst ==
  ASSUME Inv, ended = <<>>
  PROVE  profile[1].begin <= now /\ now <= profile[1].end
<1>. USE DEF Inv
<1>1. /\ IsSound(profile, Jobs, Machines, res) /\ IsFiniteSet(Machines)
      /\ profile[1].begin <= now /\ profile[1].end \in Int /\ now \in Int
      /\ RjmsDelay \in Nat
  BY LastBegin, MachinesFinite, PlatformAssumption DEF ProfileMatchesJobs, Types
<1>2. CASE profile[1].end = Infinity
  <2>1. PICK W \in Nat :
          /\ BoundsWalltimes(W)
          /\ now <= LastSubmission + Cardinality(Served) * W
    BY DEF HorizonIsAhead
  <2>2. PICK H : H = LastSubmission + Cardinality(Served) * W
    OBVIOUS
  <2>3. H < Infinity /\ H \in Int /\ Infinity \in Int /\ now <= H
    BY <2>1, <2>2, ServedCounted, HorizonBeforeInfinity, InfinityAssumption
  <2>4. now <= Infinity
    BY <1>1, <2>3
  <2>. QED  BY <1>1, <1>2, <2>4
<1>3. CASE profile[1].end # Infinity
  <2>1. PICK k \in Jobs :
          /\ ContainsJob(profile, k)
          /\ \/ /\ Allocation(profile, k).present
                /\ Allocation(profile, k).end = profile[1].end
             \/ /\ ~Allocation(profile, k).present
                /\ Allocation(profile, k).begin = profile[1].end
    BY <1>1, <1>3, FirstSliceEnds
  <2>2. ToSet(ended) = {}
    BY DEF ToSet
  <2>3. CASE status[k] = "running"
    <3>1. /\ Allocation(profile, k).present
          /\ Allocation(profile, k).end >= deadline[k] + RjmsDelay
          /\ now <= deadline[k]
      BY <2>3 DEF RunningArePresent
    <3>2. deadline[k] \in Int
      BY DEF Types
    <3>3. profile[1].end >= deadline[k] + RjmsDelay
      BY <2>1, <3>1
    <3>. QED  BY <1>1, <3>1, <3>2, <3>3
  <2>4. CASE k \in Reserved
    <3>1. /\ ~Allocation(profile, k).present
          /\ now <= Allocation(profile, k).begin
      BY <2>4 DEF ReservationsAreAhead
    <3>. QED  BY <1>1, <2>1, <3>1
  <2>. QED  BY <2>1, <2>2, <2>3, <2>4 DEF ProfileMatchesJobs
<1>. QED  BY <1>2, <1>3

\* The first slice begins at present; the queue is sorted.
LEMMA UpdateKeepsInv ==
  ASSUME Inv, UpdatePresent
  PROVE  Inv'
<1>. USE DEF Inv
<1>1. /\ pc = "present"
      /\ profile' = UpdateFirstSlice(profile, now)
      /\ queue' = SortByRelease
      /\ pc' = IF jobEnded THEN "compress" ELSE "insert"
      /\ UNCHANGED <<now, status, placed, deadline, res, walltime, hasWalltime,
                     ended, released, releasedAt, recent, jobEnded, cursor>>
  BY DEF UpdatePresent, worldVars, jobVars
<1>2. ended = <<>> /\ released = <<>> /\ cursor = 1 /\ ToSet(ended) = {}
  BY <1>1 DEF PointsMatchLocals, ToSet
<1>3. /\ queue' \in Seq(Jobs) /\ Len(queue') = Len(queue) /\ IsInjective(queue')
      /\ ToSet(queue') = ToSet(queue) /\ Len(queue) \in Nat
  BY <1>1, SortedQueue, LenProperties DEF Types, QueuesMatchStatus
<1>4. /\ IsSound(profile', Jobs, Machines, res)
      /\ IsUpdated(profile', profile, now)
  <2>1. now \in Int /\ now <= profile[1].end
    BY <1>2, PresentIsFirst DEF Types
  <2>. QED  BY <1>1, <2>1, UpdateSound DEF ProfileMatchesJobs
<1>5. /\ profile'[1].begin = now
      /\ profile'[Len(profile')].begin \in {profile[Len(profile)].begin, now}
      /\ \A k : ContainsJob(profile, k) <=> ContainsJob(profile', k)
      /\ \A k : ContainsJob(profile, k) =>
           /\ Allocation(profile', k).end = Allocation(profile, k).end
           /\ Allocation(profile', k).machines = Allocation(profile, k).machines
           /\ Allocation(profile', k).present = Allocation(profile, k).present
           /\ ~Allocation(profile, k).present
                => Allocation(profile', k).begin = Allocation(profile, k).begin
  BY <1>4 DEF IsUpdated
<1>6. pc' \in ProgramPoints /\ Types'
  BY <1>1, <1>3 DEF Types, ProgramPoints
<1>7. JobsAreSound' /\ QueuesMatchStatus'
  BY <1>1, <1>3 DEF JobsAreSound, IsValid, QueuesMatchStatus
<1>8. PointsMatchLocals'
  BY <1>1, <1>2, <1>3 DEF PointsMatchLocals
<1>9. Compressed = {} /\ Compressed' = {} /\ Reserved' = Reserved
  <2>1. Compressed = {} /\ Compressed' = {}
    BY <1>1, <1>2 DEF Compressed
  <2>. QED  BY <1>1, <1>3, <2>1 DEF Reserved
<1>10. ProfileMatchesJobs'
  <2>1. \A k \in Jobs : ContainsJob(profile', k) <=>
          status[k] = "running" \/ k \in ToSet(ended) \/ k \in Reserved
    BY <1>5 DEF ProfileMatchesJobs
  <2>2. now <= now
    BY DEF Types
  <2>. QED  BY <1>1, <1>4, <1>5, <1>9, <2>1, <2>2 DEF ProfileMatchesJobs
<1>11. RunningArePresent'
  <2>1. \A k \in Jobs : status[k] = "running" => ContainsJob(profile, k)
    BY DEF ProfileMatchesJobs
  <2>. QED  BY <1>1, <1>5, <2>1 DEF RunningArePresent
<1>12. \A k \in Reserved : /\ k \in Jobs /\ ContainsJob(profile, k)
                           /\ ~Allocation(profile, k).present
                           /\ Allocation(profile', k).begin
                                = Allocation(profile, k).begin
  <2>1. \A k \in Reserved : k \in Jobs /\ ContainsJob(profile, k)
    BY ReservedJobs DEF ProfileMatchesJobs
  <2>. QED  BY <1>5, <2>1 DEF ReservationsAreAhead
<1>13. ReservationsAreAhead'
  BY <1>1, <1>5, <1>9, <1>12 DEF ReservationsAreAhead
<1>14. ReservationsFollow'
  <2>. SUFFICES ASSUME ~jobEnded, NEW j \in Reserved
                PROVE  \E k \in Jobs : /\ k # j
                                       /\ EndsBefore(profile', k,
                                            Allocation(profile', j).begin)
    BY <1>1, <1>9 DEF ReservationsFollow
  <2>1. PICK k \in Jobs :
          k # j /\ EndsBefore(profile, k, Allocation(profile, j).begin)
    BY DEF ReservationsFollow
  <2>2. Allocation(profile', j).begin = Allocation(profile, j).begin
    BY <1>12
  <2>3. EndsBefore(profile', k, Allocation(profile, j).begin)
    BY <1>5, <2>1 DEF EndsBefore
  <2>. QED  BY <2>1, <2>2, <2>3
<1>15. HorizonIsAhead'
  <2>1. Served' = Served
    BY <1>1, <1>5 DEF Served
  <2>2. PICK W \in Nat :
          /\ BoundsWalltimes(W)
          /\ now <= LastSubmission + Cardinality(Served) * W
          /\ profile[Len(profile)].begin
               <= LastSubmission + Cardinality(Served) * W
    BY DEF HorizonIsAhead
  <2>3. BoundsWalltimes(W)'
    BY <1>1, <2>2 DEF BoundsWalltimes
  <2>4. profile'[Len(profile')].begin
          <= LastSubmission + Cardinality(Served) * W
    BY <1>5, <2>2
  <2>. QED  BY <1>1, <2>1, <2>2, <2>3, <2>4 DEF HorizonIsAhead
<1>. QED
  BY <1>6, <1>7, <1>8, <1>10, <1>11, <1>13, <1>14, <1>15


\* What it is to place job j of the queue: the schedule stays sound, no other
\* job is affected, the job is not placed later than it was, and the horizon
\* recedes only for a job that is new to the schedule.
IsPlaced(j) ==
  /\ IsSound(profile', Jobs, Machines, res)
  /\ IsInserted(profile', profile, Jobs, Machines, res, j, walltime[j], Alloc(j))
  /\ ContainsJob(profile, j) =>
       /\ Alloc(j).begin <= Allocation(profile, j).begin
       /\ Allocation(profile, j).begin \in Int
       /\ ~Allocation(profile, j).present
       /\ Allocation(profile, j).end = Allocation(profile, j).begin + walltime[j]

Horizon(S, W) == LastSubmission + Cardinality(S) * W

IsWithin(date, W, j) == date <= Horizon(Served \cup {j}, W)

\* Insertion and compression place the job, before the horizon.
LEMMA QueuedIsPlaced ==
  ASSUME Inv, NEW j \in ToSet(queue), profile' = Reinsert(j)
  PROVE  /\ IsPlaced(j)
         /\ \E W \in Nat : /\ BoundsWalltimes(W)
                           /\ IsWithin(now, W, j)
                           /\ IsWithin(profile'[Len(profile')].begin, W, j)
<1>. USE DEF Inv
<1>1. /\ j \in Jobs /\ status[j] = "waiting" /\ j \notin ToSet(ended)
      /\ Reserved \subseteq Jobs
  BY ReservedJobs
<1>2. IsValid(j)
  BY <1>1 DEF JobsAreSound
<1>3. /\ res[j] \in 1 .. NbMachines /\ walltime[j] \in Nat \ {0} /\ hasWalltime[j]
      /\ res[j] \in Int
  BY <1>1, <1>2, AcceptedJob
<1>4. Places(Machines, res[j]) /\ Fit(Machines, res[j]) # {}
  BY <1>3, SelectorPlaces
<1>5. IsSound(profile, Jobs, Machines, res) /\ IsFiniteSet(Machines)
  BY MachinesFinite DEF ProfileMatchesJobs
<1>6. PICK W \in Nat :
        /\ BoundsWalltimes(W)
        /\ now <= LastSubmission + Cardinality(Served) * W
        /\ profile[Len(profile)].begin <= LastSubmission + Cardinality(Served) * W
  BY DEF HorizonIsAhead
<1>7. PICK H, x, y, w : /\ H = LastSubmission + Cardinality(Served) * W
                        /\ x = profile[Len(profile)].begin
                        /\ y = profile'[Len(profile')].begin
                        /\ w = walltime[j]
  OBVIOUS
<1>8. H \in Nat /\ x \in Int /\ now \in Int /\ w \in Nat \ {0} /\ x <= H /\ now <= H
  <2>1. H \in Nat
    BY <1>6, <1>7, ServedCounted, HorizonBeforeInfinity
  <2>2. x \in Int
    BY <1>5, <1>7, LastBegin
  <2>. QED  BY <1>3, <1>6, <1>7, <2>1, <2>2 DEF Types
<1>9. CASE ContainsJob(profile, j)
  <2>1. j \in Reserved
    BY <1>1, <1>9 DEF ProfileMatchesJobs
  <2>2. /\ ~Allocation(profile, j).present
        /\ Allocation(profile, j).end = Allocation(profile, j).begin + walltime[j]
        /\ CanHold(Allocation(profile, j).machines, Machines, res[j])
    BY <2>1 DEF ReservationsAreAhead
  <2>3. PICK q : q = RemoveJob(profile, j, res[j])
    OBVIOUS
  <2>4. /\ Alloc(j) = JobAlloc(q, res[j], walltime[j])
        /\ profile' = AddJobFirstFit(q, j, res[j], walltime[j])
    BY <1>9, <2>3 DEF Alloc, Reinsert, RemoveJobIfExists
  <2>5. /\ IsSound(profile', Jobs, Machines, res)
        /\ IsInserted(profile', profile, Jobs, Machines, res, j, walltime[j],
                      JobAlloc(q, res[j], walltime[j]))
        /\ profile'[Len(profile')].begin <= profile[Len(profile)].begin
        /\ JobAlloc(q, res[j], walltime[j]).begin <= Allocation(profile, j).begin
    BY <1>1, <1>3, <1>4, <1>5, <1>9, <2>2, <2>3, <2>4, Reinsertion
  <2>6. Allocation(profile, j).begin \in Int
    BY <1>1, <1>5, <1>9, AllocationFacts
  <2>7. IsPlaced(j)
    BY <2>2, <2>4, <2>5, <2>6 DEF IsPlaced
  <2>8. Served \cup {j} = Served
    BY <1>1, <1>9 DEF Served
  <2>9. y <= H
    <3>1. y \in Int /\ y <= x
      BY <1>7, <2>5, LastBegin
    <3>. QED  BY <1>8, <3>1
  <2>. QED  BY <1>6, <1>7, <1>8, <2>7, <2>8, <2>9 DEF IsWithin, Horizon
<1>10. CASE ~ContainsJob(profile, j)
  <2>1. j \notin Served
    BY <1>1, <1>10 DEF Served
  <2>2. PICK G : G = Horizon(Served \cup {j}, W)
    OBVIOUS
  <2>3. G = H + W
    <3>1. Cardinality(Served \cup {j}) = Cardinality(Served) + 1
      BY <1>1, <2>1, ServedCounted, JobsCounted
    <3>2. (Cardinality(Served) + 1) * W = Cardinality(Served) * W + W
          /\ Cardinality(Served) * W \in Nat
      BY ServedCounted, ProductGrows
    <3>3. PICK C : C = Cardinality(Served) * W
      OBVIOUS
    <3>4. LastSubmission + (C + W) = (LastSubmission + C) + W
      BY <3>2, <3>3, BoundsAssumption
    <3>. QED  BY <1>7, <2>2, <3>1, <3>2, <3>3, <3>4 DEF Horizon
  <2>4. G < Infinity /\ Infinity \in Int
    <3>1. Served \cup {j} \in SUBSET Jobs
      BY <1>1, ServedCounted
    <3>2. Cardinality(Served \cup {j}) \in 0 .. NbJobs
      BY <3>1, JobsCounted
    <3>. QED  BY <1>6, <2>2, <3>2, HorizonBeforeInfinity, InfinityAssumption DEF Horizon
  <2>5. w <= W
    BY <1>1, <1>3, <1>6, <1>7 DEF BoundsWalltimes
  <2>6. x + w < Infinity /\ x + w <= G /\ now <= G
    BY <1>8, <2>3, <2>4, <2>5
  <2>7. /\ Alloc(j) = JobAlloc(profile, res[j], walltime[j])
        /\ profile' = AddJobFirstFit(profile, j, res[j], walltime[j])
    BY <1>10 DEF Alloc, Reinsert, RemoveJobIfExists
  <2>8. /\ IsSound(profile', Jobs, Machines, res)
        /\ IsInserted(profile', profile, Jobs, Machines, res, j, walltime[j],
                      JobAlloc(profile, res[j], walltime[j]))
        /\ profile'[Len(profile')].begin <= profile[Len(profile)].begin + walltime[j]
    BY <1>1, <1>3, <1>4, <1>5, <1>7, <1>10, <2>6, <2>7, FirstInsertion
  <2>9. IsPlaced(j)
    BY <1>10, <2>7, <2>8 DEF IsPlaced
  <2>10. y <= G
    <3>1. y \in Int /\ y <= x + w
      BY <1>7, <2>8, LastBegin
    <3>2. G \in Int
      BY <1>8, <2>3
    <3>. QED  BY <1>8, <2>6, <3>1, <3>2
  <2>. QED  BY <1>6, <1>7, <2>2, <2>6, <2>9, <2>10 DEF IsWithin
<1>. QED  BY <1>9, <1>10

\* The job that is placed starts, or waits with a reservation.
Starts(j) ==
  /\ Alloc(j).startedInFirstSlice
  /\ ExecuteJob(j, Alloc(j).machines)
  /\ Reserved' = Reserved \ {j}
  /\ Following' \subseteq Following

Waits(j) ==
  /\ ~Alloc(j).startedInFirstSlice
  /\ UNCHANGED worldVars
  /\ Reserved' = Reserved \cup {j}
  /\ Following' \subseteq Following \cup {j}

\* Placing a job keeps what the invariant says of the schedule.
LEMMA PlacingKeepsSchedule ==
  ASSUME Inv, NEW j \in ToSet(queue), j \notin Following,
         pc \in {"insert", "compress"}, profile' = Reinsert(j),
         UNCHANGED <<pc, jobVars, ended>>, Starts(j) \/ Waits(j)
  PROVE  ScheduleInv'
<1>. USE DEF Inv
<1>1. /\ j \in Jobs /\ status[j] = "waiting" /\ j \notin ToSet(ended)
      /\ Reserved \subseteq Jobs /\ Following \subseteq Reserved
      /\ \A k \in Reserved : status[k] = "waiting"
  BY ReservedJobs DEF Following
<1>2. PICK alloc : alloc = Alloc(j)
  OBVIOUS
<1>3. /\ IsSound(profile', Jobs, Machines, res) /\ IsFiniteSet(Machines)
      /\ IsInserted(profile', profile, Jobs, Machines, res, j, walltime[j], alloc)
      /\ ContainsJob(profile, j) =>
           /\ alloc.begin <= Allocation(profile, j).begin
           /\ Allocation(profile, j).begin \in Int
           /\ ~Allocation(profile, j).present
           /\ Allocation(profile, j).end = Allocation(profile, j).begin + walltime[j]
  BY <1>2, QueuedIsPlaced, MachinesFinite DEF IsPlaced
<1>4. PICK a : a = Allocation(profile', j)
  OBVIOUS
<1>5. /\ ContainsJob(profile', j)
      /\ a.begin = alloc.begin /\ a.end = alloc.begin + walltime[j]
      /\ a.machines = alloc.machines
      /\ a.present <=> alloc.startedInFirstSlice
      /\ a.present \in BOOLEAN
      /\ alloc.begin \in Int
      /\ CanHold(alloc.machines, Machines, res[j])
      /\ \A k : k # j => SameAllocation(profile, profile', k)
      /\ profile'[1].begin = profile[1].begin
      /\ profile[1].begin <= alloc.begin
      /\ alloc.startedInFirstSlice => alloc.begin = profile[1].begin
      /\ ~alloc.startedInFirstSlice =>
           \E k \in Jobs : k # j /\ EndsBefore(profile', k, alloc.begin)
  <2>1. a = [begin |-> alloc.begin, end |-> alloc.begin + walltime[j],
             machines |-> alloc.machines, present |-> alloc.first = 1]
    BY <1>3, <1>4 DEF IsInserted
  <2>2. /\ a.begin = alloc.begin /\ a.end = alloc.begin + walltime[j]
        /\ a.machines = alloc.machines /\ a.present = (alloc.first = 1)
    BY <2>1
  <2>3. alloc.startedInFirstSlice <=> alloc.first = 1
    BY <1>3 DEF IsInserted
  <2>4. (a.present <=> alloc.startedInFirstSlice) /\ a.present \in BOOLEAN
    BY <2>2, <2>3
  <2>. QED  BY <1>3, <2>2, <2>3, <2>4 DEF IsInserted
<1>6. /\ \A k : k # j =>
           /\ ContainsJob(profile, k) <=> ContainsJob(profile', k)
           /\ ContainsJob(profile, k)
                => Allocation(profile', k) = Allocation(profile, k)
  BY <1>5 DEF SameAllocation
<1>7. /\ profile[1].begin = now /\ now \in Int /\ RjmsDelay \in Nat
      /\ walltime[j] \in Nat \ {0} /\ walltime[j] - RjmsDelay \in Nat
      /\ hasWalltime[j] /\ IsValid(j)
  <2>1. IsValid(j)
    BY <1>1 DEF JobsAreSound
  <2>. QED
    BY <1>1, <2>1, AcceptedJob, PlatformAssumption DEF ProfileMatchesJobs, Types
<1>8. /\ now' = now /\ UNCHANGED <<res, walltime, hasWalltime>>
      /\ \A k \in Jobs : k # j => /\ status'[k] = status[k]
                                  /\ placed'[k] = placed[k]
                                  /\ deadline'[k] = deadline[k]
      /\ Starts(j) => /\ status'[j] = "running" /\ placed'[j] = alloc.machines
                      /\ deadline'[j] = now + (walltime[j] - RjmsDelay)
      /\ Waits(j) => status'[j] = "waiting"
  <2>1. now' = now /\ UNCHANGED <<res, walltime, hasWalltime>>
    BY DEF Starts, Waits, ExecuteJob, worldVars, jobVars
  <2>2. CASE Starts(j)
    <3>1. /\ status' = [status EXCEPT ![j] = "running"]
          /\ placed' = [placed EXCEPT ![j] = alloc.machines]
          /\ deadline' = [deadline EXCEPT ![j] = now + (walltime[j] - RjmsDelay)]
          /\ alloc.startedInFirstSlice
      BY <1>2, <1>7, <2>2 DEF Starts, ExecuteJob
    <3>2. ~Waits(j)
      BY <1>2, <3>1 DEF Waits
    <3>. QED  BY <1>1, <2>1, <3>1, <3>2 DEF Types
  <2>3. CASE Waits(j)
    <3>1. UNCHANGED <<status, placed, deadline>> /\ ~alloc.startedInFirstSlice
      BY <1>2, <2>3 DEF Waits, worldVars
    <3>2. ~Starts(j)
      BY <1>2, <3>1 DEF Starts
    <3>. QED  BY <1>1, <2>1, <3>1, <3>2
  <2>. QED  BY <2>2, <2>3
<1>9. /\ Starts(j) => Reserved' = Reserved \ {j} /\ alloc.startedInFirstSlice
      /\ Waits(j) => Reserved' = Reserved \cup {j} /\ ~alloc.startedInFirstSlice
      /\ Starts(j) => Following' \subseteq Following
      /\ Following' \subseteq Following \cup {j}
  BY <1>2 DEF Starts, Waits
<1>10. ProfileMatchesJobs'
  <2>1. ASSUME NEW k \in Jobs
        PROVE  ContainsJob(profile', k) <=>
                 status'[k] = "running" \/ k \in ToSet(ended) \/ k \in Reserved'
    <3>1. CASE k # j
      <4>1. ContainsJob(profile, k) <=>
              status[k] = "running" \/ k \in ToSet(ended) \/ k \in Reserved
        BY DEF ProfileMatchesJobs
      <4>2. k \in Reserved' <=> k \in Reserved
        BY <1>9, <3>1
      <4>. QED  BY <1>6, <1>8, <3>1, <4>1, <4>2
    <3>2. CASE k = j
      BY <1>5, <1>8, <1>9, <3>2
    <3>. QED  BY <3>1, <3>2
  <2>2. now <= now
    BY <1>7
  <2>. QED  BY <1>3, <1>5, <1>7, <1>8, <2>1, <2>2 DEF ProfileMatchesJobs
<1>11. RunningArePresent'
  <2>1. ASSUME NEW k \in Jobs, k # j, status[k] = "running"
        PROVE  Allocation(profile', k) = Allocation(profile, k)
    BY <1>6, <2>1 DEF ProfileMatchesJobs
  <2>2. CASE Starts(j)
    <3>1. /\ a.present /\ a.machines = placed'[j]
          /\ a.end >= deadline'[j] + RjmsDelay /\ now <= deadline'[j]
      <4>1. a.end = now + walltime[j]
        BY <1>5, <1>7, <1>9, <2>2
      <4>2. deadline'[j] = now + (walltime[j] - RjmsDelay)
        BY <1>8, <2>2
      <4>. QED  BY <1>5, <1>7, <1>8, <1>9, <2>2, <4>1, <4>2
    <3>. QED  BY <1>4, <1>8, <2>1, <3>1 DEF RunningArePresent
  <2>3. CASE Waits(j)
    BY <1>8, <2>1, <2>3 DEF RunningArePresent
  <2>. QED  BY <2>2, <2>3
<1>12. ReservationsAreAhead'
  <2>1. ASSUME NEW k \in Reserved, k # j
        PROVE  Allocation(profile', k) = Allocation(profile, k)
    BY <1>1, <1>6, <2>1 DEF ProfileMatchesJobs
  <2>2. ASSUME j \in Reserved'
        PROVE  /\ ~a.present /\ now <= a.begin
               /\ a.end = a.begin + walltime[j]
               /\ CanHold(a.machines, Machines, res[j])
    BY <1>5, <1>7, <1>9, <2>2
  <2>3. \A k \in Reserved' : k = j \/ k \in Reserved
    BY <1>9
  <2>. QED  BY <1>4, <1>8, <2>1, <2>2, <2>3 DEF ReservationsAreAhead
<1>13. ReservationsFollow'
  <2>. SUFFICES ASSUME NEW i \in Following'
                PROVE  \E k \in Jobs : /\ k # i
                                       /\ EndsBefore(profile', k,
                                            Allocation(profile', i).begin)
    BY DEF ReservationsFollow, Following
  <2>1. CASE i = j
    <3>1. ~alloc.startedInFirstSlice
      BY <1>9, <2>1
    <3>. QED  BY <1>4, <1>5, <2>1, <3>1
  <2>2. CASE i # j
    <3>1. i \in Following /\ i \in Reserved /\ i \in Jobs
      BY <1>1, <1>9, <2>2
    <3>2. PICK k \in Jobs :
            k # i /\ EndsBefore(profile, k, Allocation(profile, i).begin)
      BY <3>1 DEF ReservationsFollow, Following
    <3>3. PICK d : d = Allocation(profile, i).begin
      OBVIOUS
    <3>4. ContainsJob(profile, i) /\ Allocation(profile', i).begin = d
      BY <1>6, <2>2, <3>1, <3>3 DEF ProfileMatchesJobs
    <3>5. CASE k # j
      <4>1. EndsBefore(profile', k, d)
        BY <1>6, <3>2, <3>3, <3>5 DEF EndsBefore
      <4>. QED  BY <3>2, <3>4, <4>1
    <3>6. CASE k = j
      <4>1. PICK b : b = Allocation(profile, j).begin
        OBVIOUS
      <4>2. /\ ContainsJob(profile, j) /\ b + walltime[j] <= d /\ b < d
            /\ b \in Int /\ alloc.begin <= b
        BY <1>3, <3>2, <3>3, <3>6, <4>1 DEF EndsBefore
      <4>3. d \in Int
        <5>1. IsSound(profile, Jobs, Machines, res)
          BY DEF ProfileMatchesJobs
        <5>2. Allocation(profile, i).begin \in Int
          BY <1>3, <3>1, <3>4, <5>1, AllocationFacts
        <5>. QED  BY <3>3, <5>2
      <4>4. a.end <= d /\ a.begin < d
        BY <1>5, <1>7, <4>2, <4>3
      <4>5. EndsBefore(profile', j, d)
        BY <1>4, <1>5, <4>4 DEF EndsBefore
      <4>. QED  BY <3>2, <3>4, <3>6, <4>5
    <3>. QED  BY <3>5, <3>6
  <2>. QED  BY <2>1, <2>2
<1>14. HorizonIsAhead'
  <2>1. Served' = Served \cup {j}
    <3>1. \A k \in Jobs : k # j => (k \in Served' <=> k \in Served)
      BY <1>6, <1>8 DEF Served
    <3>2. j \in Served'
      BY <1>1, <1>5 DEF Served
    <3>. QED  BY <1>1, <3>1, <3>2, ServedCounted DEF Served
  <2>2. PICK W \in Nat : /\ BoundsWalltimes(W)
                         /\ IsWithin(now, W, j)
                         /\ IsWithin(profile'[Len(profile')].begin, W, j)
    BY QueuedIsPlaced
  <2>3. BoundsWalltimes(W)'
    <3>1. \A k \in Jobs : status'[k] # "future" => status[k] # "future"
      BY <1>1, <1>8
    <3>. QED  BY <1>8, <2>2, <3>1 DEF BoundsWalltimes
  <2>. QED  BY <1>8, <2>1, <2>2, <2>3 DEF HorizonIsAhead, IsWithin, Horizon
<1>. QED  BY <1>10, <1>11, <1>12, <1>13, <1>14 DEF ScheduleInv


\* What starting or queueing job j makes of the jobs: of those of the queue it
\* is the only one that may have left it, to run.
LEMMA PlacingKeepsJobs ==
  ASSUME Inv, NEW j \in ToSet(queue), UNCHANGED <<jobVars, released, ended>>,
         NEW started \in BOOLEAN,
         started => ExecuteJob(j, Alloc(j).machines) /\ Alloc(j).machines \in SUBSET Machines,
         ~started => UNCHANGED worldVars,
         ToSet(queue') = IF started THEN ToSet(queue) \ {j} ELSE ToSet(queue),
         IsInjective(queue')
  PROVE  /\ JobsAreSound'
         /\ now' \in Nat
         /\ status' \in [Jobs -> Status]
         /\ placed' \in [Jobs -> SUBSET Machines]
         /\ deadline' \in [Jobs -> Int]
         /\ \A k \in ToSet(ended') : status'[k] = "done"
         /\ {k \in Jobs : status'[k] = "waiting"} = ToSet(queue') \cup ToSet(released')
         /\ ToSet(queue') \cap ToSet(released') = {}
<1>. USE DEF Inv
<1>1. /\ j \in Jobs /\ status[j] = "waiting" /\ j \notin ToSet(released)
      /\ ToSet(ended) \subseteq Jobs
      /\ \A k \in ToSet(ended) : status[k] = "done"
      /\ {k \in Jobs : status[k] = "waiting"} = ToSet(queue) \cup ToSet(released)
      /\ ToSet(queue) \cap ToSet(released) = {}
  BY ReservedJobs DEF QueuesMatchStatus
<1>2. UNCHANGED <<res, walltime, hasWalltime, released, ended>>
  BY DEF jobVars
<1>3. CASE started
  <2>1. /\ status' = [status EXCEPT ![j] = "running"]
        /\ placed' = [placed EXCEPT ![j] = Alloc(j).machines]
        /\ deadline' = [deadline EXCEPT ![j] =
                          now + IF hasWalltime[j] THEN walltime[j] - RjmsDelay
                                                  ELSE MaxRun]
        /\ now' = now /\ Alloc(j).machines \in SUBSET Machines
    BY <1>3 DEF ExecuteJob
  <2>2. (now + IF hasWalltime[j] THEN walltime[j] - RjmsDelay ELSE MaxRun) \in Int
    BY <1>1, PlatformAssumption, BoundsAssumption DEF Types
  <2>3. /\ now' \in Nat /\ status' \in [Jobs -> Status]
        /\ placed' \in [Jobs -> SUBSET Machines] /\ deadline' \in [Jobs -> Int]
    BY <2>1, <2>2 DEF Types, Status
  <2>4. /\ \A k \in Jobs : k # j => /\ status'[k] = status[k]
                                    /\ placed'[k] = placed[k]
        /\ status'[j] = "running"
    BY <1>1, <2>1 DEF Types
  <2>5. JobsAreSound'
    <3>1. \A k \in Jobs : IsValid(k)' = IsValid(k)
      BY <1>2 DEF IsValid
    <3>2. IsValid(j)
      BY <1>1 DEF JobsAreSound
    <3>. QED  BY <1>1, <1>2, <1>3, <2>4, <3>1, <3>2 DEF JobsAreSound
  <2>6. {k \in Jobs : status'[k] = "waiting"}
          = {k \in Jobs : status[k] = "waiting"} \ {j}
    BY <2>4
  <2>. QED  BY <1>1, <1>2, <1>3, <2>3, <2>4, <2>5, <2>6
<1>4. CASE ~started
  <2>1. UNCHANGED <<now, status, placed, deadline>>
    BY <1>4 DEF worldVars
  <2>. QED
    BY <1>1, <1>2, <1>4, <2>1 DEF Types, JobsAreSound, IsValid
<1>. QED  BY <1>3, <1>4

\* A new job is started or gets a reservation; those that wait keep theirs.
LEMMA InsertKeepsInv ==
  ASSUME Inv, InsertNew
  PROVE  Inv'
<1>. USE DEF Inv
<1>1. PICK j : j = Head(recent)
  OBVIOUS
<1>2. PICK started : started = Alloc(j).startedInFirstSlice
  OBVIOUS
<1>3. /\ pc = "insert" /\ recent # <<>>
      /\ profile' = AddJobFirstFit(profile, j, res[j], walltime[j])
      /\ IF started THEN /\ ExecuteJob(j, Alloc(j).machines)
                         /\ queue' = Dequeue(j)
                    ELSE UNCHANGED <<worldVars, queue>>
      /\ recent' = Tail(recent)
      /\ UNCHANGED <<pc, jobVars, ended, released, releasedAt, jobEnded, cursor>>
  BY <1>1, <1>2 DEF InsertNew
<1>4. /\ Tail(recent) \in Seq(Jobs) /\ j \in Jobs /\ j \in ToSet(recent)
      /\ IsInjective(Tail(recent))
      /\ ToSet(Tail(recent)) = ToSet(recent) \ {j}
  BY <1>1, <1>3, TailOfInjective DEF Types, QueuesMatchStatus
<1>5. ~jobEnded /\ cursor = 1 /\ ToSet(recent) \subseteq ToSet(queue)
  BY <1>3 DEF PointsMatchLocals, QueuesMatchStatus
<1>6. j \in ToSet(queue) /\ status[j] = "waiting" /\ j \notin ToSet(ended)
  BY <1>4, <1>5, ReservedJobs
<1>7. Compressed = {} /\ Compressed' = {}
  BY <1>3, <1>5 DEF Compressed
<1>8. j \notin Reserved /\ j \notin Following
  BY <1>4, <1>5, <1>7 DEF Reserved, Following
<1>9. profile' = Reinsert(j)
  <2>1. ~ContainsJob(profile, j)
    BY <1>4, <1>6, <1>8 DEF ProfileMatchesJobs
  <2>. QED  BY <1>3, <2>1 DEF Reinsert, RemoveJobIfExists
<1>10. started \in BOOLEAN /\ Alloc(j).machines \in SUBSET Machines
  <2>1. IsPlaced(j)
    BY <1>6, <1>9, QueuedIsPlaced
  <2>2. Alloc(j).machines \in SUBSET Machines
    BY <2>1 DEF IsPlaced, IsInserted
  <2>. QED  BY <1>2, <2>2 DEF Alloc, JobAlloc, AllocAt
<1>11. /\ queue' \in Seq(Jobs) /\ IsInjective(queue')
       /\ ToSet(queue') = IF started THEN ToSet(queue) \ {j} ELSE ToSet(queue)
  BY <1>3, <1>6, <1>10, Dequeued DEF Types, QueuesMatchStatus
<1>12. /\ JobsAreSound'
       /\ now' \in Nat
       /\ status' \in [Jobs -> Status]
       /\ placed' \in [Jobs -> SUBSET Machines]
       /\ deadline' \in [Jobs -> Int]
       /\ \A k \in ToSet(ended') : status'[k] = "done"
       /\ {k \in Jobs : status'[k] = "waiting"} = ToSet(queue') \cup ToSet(released')
       /\ ToSet(queue') \cap ToSet(released') = {}
  <2>1. started => ExecuteJob(j, Alloc(j).machines) /\ Alloc(j).machines \in SUBSET Machines
    BY <1>3, <1>10
  <2>2. ~started => UNCHANGED worldVars
    BY <1>3
  <2>. QED  BY <1>3, <1>6, <1>10, <1>11, <2>1, <2>2, PlacingKeepsJobs
<1>13. Types'
  BY <1>3, <1>4, <1>11, <1>12 DEF Types, jobVars
<1>14. QueuesMatchStatus'
  BY <1>3, <1>4, <1>5, <1>11, <1>12 DEF QueuesMatchStatus
<1>15. PointsMatchLocals'
  <2>1. Len(queue') \in Nat
    BY <1>11, LenProperties
  <2>2. cursor' <= Len(queue') + 1
    BY <1>3, <1>5, <2>1
  <2>. QED  BY <1>3, <1>5, <2>2 DEF PointsMatchLocals
<1>16. ScheduleInv'
  <2>1. Reserved' = IF started THEN Reserved \ {j} ELSE Reserved \cup {j}
    BY <1>3, <1>4, <1>6, <1>7, <1>10, <1>11 DEF Reserved
  <2>2. Following = Reserved /\ Following' = Reserved'
    BY <1>3, <1>5 DEF Following
  <2>3. Starts(j) \/ Waits(j)
    BY <1>2, <1>3, <1>10, <2>1, <2>2 DEF Starts, Waits
  <2>. QED  BY <1>3, <1>6, <1>8, <1>9, <2>3, PlacingKeepsSchedule
<1>. QED  BY <1>12, <1>13, <1>14, <1>15, <1>16, InvParts

\* A waiting job is started or gets its reservation anew.
LEMMA CompressKeepsInv ==
  ASSUME Inv, CompressNext
  PROVE  Inv'
<1>. USE DEF Inv
<1>1. PICK j : j = queue[cursor]
  OBVIOUS
<1>2. PICK started : started = Alloc(j).startedInFirstSlice
  OBVIOUS
<1>3. /\ pc = "compress" /\ cursor <= Len(queue)
      /\ profile' = Reinsert(j)
      /\ IF started THEN /\ ExecuteJob(j, Alloc(j).machines)
                         /\ queue' = RemoveAt(queue, cursor)
                         /\ UNCHANGED cursor
                    ELSE /\ cursor' = cursor + 1
                         /\ UNCHANGED <<worldVars, queue>>
      /\ UNCHANGED <<pc, jobVars, ended, released, releasedAt, recent, jobEnded>>
  BY <1>1, <1>2 DEF CompressNext
<1>4. /\ cursor \in 1 .. Len(queue) /\ cursor \in Nat \ {0} /\ Len(queue) \in Nat
      /\ DOMAIN queue = 1 .. Len(queue) /\ queue \in Seq(Jobs)
      /\ IsInjective(queue)
  BY <1>3, LenProperties DEF Types, QueuesMatchStatus
<1>5. j \in ToSet(queue)
  BY <1>1, <1>4 DEF ToSet
<1>6. jobEnded /\ pc' = "compress"
  BY <1>3 DEF PointsMatchLocals
<1>7. j \notin Compressed
  <2>. SUFFICES ASSUME NEW i \in 1 .. cursor - 1, queue[i] = j
                PROVE  FALSE
    BY DEF Compressed
  <2>1. i \in DOMAIN queue /\ cursor \in DOMAIN queue /\ i # cursor
    BY <1>4
  <2>. QED  BY <1>1, <1>4, <2>1 DEF IsInjective
<1>8. started \in BOOLEAN /\ Alloc(j).machines \in SUBSET Machines
  <2>1. IsPlaced(j)
    BY <1>3, <1>5, QueuedIsPlaced
  <2>2. Alloc(j).machines \in SUBSET Machines
    BY <2>1 DEF IsPlaced, IsInserted
  <2>. QED  BY <1>2, <2>2 DEF Alloc, JobAlloc, AllocAt
<1>9. started => /\ queue' \in Seq(Jobs) /\ IsInjective(queue')
                 /\ ToSet(queue') = ToSet(queue) \ {j}
                 /\ Len(queue') = Len(queue) - 1
                 /\ \A i \in 1 .. cursor - 1 : queue'[i] = queue[i]
  <2>. SUFFICES ASSUME started
                PROVE  /\ queue' \in Seq(Jobs) /\ IsInjective(queue')
                       /\ ToSet(queue') = ToSet(queue) \ {j}
                       /\ Len(queue') = Len(queue) - 1
                       /\ \A i \in 1 .. cursor - 1 : queue'[i] = queue[i]
    OBVIOUS
  <2>1. queue' = RemoveAt(queue, cursor)
    BY <1>3
  <2>2. /\ RemoveAt(queue, cursor) \in Seq(Jobs)
        /\ IsInjective(RemoveAt(queue, cursor))
        /\ ToSet(RemoveAt(queue, cursor)) = ToSet(queue) \ {queue[cursor]}
    BY <1>4, RemoveAtOfInjective
  <2>3. /\ Len(queue') = Len(queue) - 1
        /\ \A i \in 1 .. Len(queue) - 1 :
             queue'[i] = IF i < cursor THEN queue[i] ELSE queue[i + 1]
    BY <1>4, <2>1, RemoveAtProperties
  <2>4. \A i \in 1 .. cursor - 1 : i \in 1 .. Len(queue) - 1 /\ i < cursor
    BY <1>4
  <2>. QED  BY <1>1, <2>1, <2>2, <2>3, <2>4
<1>10. /\ queue' \in Seq(Jobs) /\ IsInjective(queue')
       /\ ToSet(queue') = IF started THEN ToSet(queue) \ {j} ELSE ToSet(queue)
       /\ cursor' \in Nat \ {0}
  <2>1. cursor + 1 \in Nat \ {0}
    BY <1>4
  <2>2. CASE started
    BY <1>3, <1>4, <1>9, <2>2
  <2>3. CASE ~started
    BY <1>3, <1>4, <2>1, <2>3
  <2>. QED  BY <2>2, <2>3
<1>11. /\ JobsAreSound'
       /\ now' \in Nat
       /\ status' \in [Jobs -> Status]
       /\ placed' \in [Jobs -> SUBSET Machines]
       /\ deadline' \in [Jobs -> Int]
       /\ \A k \in ToSet(ended') : status'[k] = "done"
       /\ {k \in Jobs : status'[k] = "waiting"} = ToSet(queue') \cup ToSet(released')
       /\ ToSet(queue') \cap ToSet(released') = {}
  <2>1. started => ExecuteJob(j, Alloc(j).machines) /\ Alloc(j).machines \in SUBSET Machines
    BY <1>3, <1>8
  <2>2. ~started => UNCHANGED worldVars
    BY <1>3
  <2>. QED  BY <1>3, <1>5, <1>8, <1>10, <2>1, <2>2, PlacingKeepsJobs
<1>12. Types'
  BY <1>3, <1>10, <1>11 DEF Types, jobVars
<1>13. QueuesMatchStatus'
  BY <1>3, <1>6, <1>10, <1>11 DEF QueuesMatchStatus
<1>14. PointsMatchLocals'
  <2>1. cursor' <= Len(queue') + 1
    <3>1. started => cursor <= (Len(queue) - 1) + 1
      BY <1>4
    <3>2. cursor + 1 <= Len(queue) + 1
      BY <1>4
    <3>. QED  BY <1>3, <1>9, <3>1, <3>2
  <2>. QED  BY <1>3, <1>6, <2>1 DEF PointsMatchLocals
<1>15. ScheduleInv'
  <2>1. Compressed' = IF started THEN Compressed ELSE Compressed \cup {j}
    <3>1. CASE started
      BY <1>3, <1>9, <3>1 DEF Compressed
    <3>2. CASE ~started
      <4>1. queue' = queue /\ cursor' = cursor + 1
        BY <1>3, <3>2
      <4>2. 1 .. cursor' - 1 = (1 .. cursor - 1) \cup {cursor}
        BY <1>4, <4>1
      <4>. QED  BY <1>1, <3>2, <4>1, <4>2 DEF Compressed
    <3>. QED  BY <1>8, <3>1, <3>2
  <2>2. Compressed \subseteq ToSet(queue)
    BY ReservedJobs
  <2>3. Reserved' = IF started THEN Reserved \ {j} ELSE Reserved \cup {j}
    <3>1. CASE started
      BY <1>3, <1>7, <1>10, <2>1, <3>1 DEF Reserved
    <3>2. CASE ~started
      BY <1>3, <1>10, <2>1, <3>2 DEF Reserved
    <3>. QED  BY <1>8, <3>1, <3>2
  <2>4. Following = Compressed /\ Following' = Compressed'
    BY <1>3, <1>6 DEF Following
  <2>5. Starts(j) \/ Waits(j)
    BY <1>2, <1>3, <1>8, <2>1, <2>3, <2>4 DEF Starts, Waits
  <2>. QED  BY <1>3, <1>5, <1>7, <2>4, <2>5, PlacingKeepsSchedule
<1>. QED  BY <1>11, <1>12, <1>13, <1>14, <1>15, InvParts


-------------------------------------------------------------------------------
(* The invariant.                                                          *)

\* Before the first message nothing is scheduled.
LEMMA InitEstablishesInv == Init => Inv
<1>. SUFFICES ASSUME Init
              PROVE  Inv
  OBVIOUS
<1>1. /\ pc = "batsim" /\ now = 0
      /\ status = [j \in Jobs |-> "future"]
      /\ res = [j \in Jobs |-> 0]
      /\ walltime = [j \in Jobs |-> 0]
      /\ hasWalltime = [j \in Jobs |-> FALSE]
      /\ placed = [j \in Jobs |-> {}]
      /\ deadline = [j \in Jobs |-> 0]
      /\ ended = <<>> /\ released = <<>> /\ queue = <<>> /\ recent = <<>>
      /\ releasedAt = [j \in Jobs |-> 0]
      /\ jobEnded = FALSE /\ cursor = 1
      /\ profile = NewSchedule(Machines, 0)
  BY DEF Init, BatsimInit
<1>2. ToSet(<<>>) = {} /\ IsInjective(<<>>) /\ <<>> \in Seq(Jobs) /\ Len(<<>>) = 0
  BY DEF ToSet, IsInjective
<1>3. Types
  <2>1. /\ status \in [Jobs -> Status] /\ res \in [Jobs -> Nat]
        /\ walltime \in [Jobs -> Int] /\ hasWalltime \in [Jobs -> BOOLEAN]
        /\ deadline \in [Jobs -> Int] /\ releasedAt \in [Jobs -> Nat]
    BY <1>1 DEF Status
  <2>2. placed \in [Jobs -> SUBSET Machines]
    BY <1>1
  <2>3. pc \in ProgramPoints /\ now \in Nat /\ cursor \in Nat \ {0}
    BY <1>1 DEF ProgramPoints
  <2>4. jobEnded \in BOOLEAN
    BY <1>1
  <2>5. /\ ended \in Seq(Jobs) /\ released \in Seq(Jobs)
        /\ queue \in Seq(Jobs) /\ recent \in Seq(Jobs)
    BY <1>1, <1>2
  <2>. QED  BY <2>1, <2>2, <2>3, <2>4, <2>5 DEF Types
<1>4. \A j \in Jobs : status[j] = "future" /\ placed[j] = {}
  BY <1>1
<1>5. JobsAreSound /\ QueuesMatchStatus
  BY <1>1, <1>2, <1>4 DEF JobsAreSound, QueuesMatchStatus
<1>6. PointsMatchLocals
  BY <1>1, <1>2 DEF PointsMatchLocals
<1>7. Compressed = {} /\ Reserved = {}
  BY <1>1, <1>2 DEF Compressed, Reserved
<1>8. /\ IsSound(profile, Jobs, Machines, res)
      /\ \A j : ~ContainsJob(profile, j)
      /\ Len(profile) = 1 /\ profile[1].begin = 0
  <2>1. IsFiniteSet(Machines) /\ 0 \in Int /\ Infinity \in Int /\ 0 <= Infinity
    BY MachinesFinite, InfinityAssumption
  <2>. QED  BY <1>1, <2>1, NewSound
<1>9. ProfileMatchesJobs
  BY <1>1, <1>2, <1>4, <1>7, <1>8 DEF ProfileMatchesJobs
<1>10. RunningArePresent /\ ReservationsAreAhead /\ ReservationsFollow
  BY <1>1, <1>4, <1>7 DEF RunningArePresent, ReservationsAreAhead, ReservationsFollow
<1>11. HorizonIsAhead
  <2>1. Served = {}
    BY <1>4, <1>8 DEF Served
  <2>2. Cardinality(Served) * 0 = 0
    BY <2>1, FS_EmptySet
  <2>3. BoundsWalltimes(0)
    BY <1>4 DEF BoundsWalltimes
  <2>4. 0 <= LastSubmission + Cardinality(Served) * 0
    BY <2>2, BoundsAssumption
  <2>. QED  BY <1>1, <1>8, <2>3, <2>4 DEF HorizonIsAhead
<1>. QED
  BY <1>3, <1>5, <1>6, <1>9, <1>10, <1>11 DEF Inv

\* Every step keeps the invariant.
LEMMA NextKeepsInv == Inv /\ [Next]_vars => Inv'
<1>. SUFFICES ASSUME Inv, [Next]_vars
              PROVE  Inv'
  OBVIOUS
<1>1. CASE \E j \in Jobs, r \in Requests, w \in Walltimes :
             Submit(j, r, w) /\ UNCHANGED schedVars
  BY <1>1, SubmitKeepsInv
<1>2. CASE \E j \in Jobs : Complete(j) /\ UNCHANGED schedVars
  BY <1>2, CompleteKeepsInv
<1>3. CASE Tick /\ UNCHANGED schedVars
  BY <1>3, TickKeepsInv
<1>4. CASE \/ \E q \in Queries : Query(q)
           \/ AnswerQuery \/ UNCHANGED vars
  <2>1. UNCHANGED <<worldVars, jobVars, ended, released, profile, queue,
                    releasedAt, pc, recent, jobEnded, cursor>>
    BY <1>4 DEF Query, AnswerQuery, vars, batsimVars, schedVars
  <2>. QED  BY <2>1, MoveKeepsInv
<1>5. CASE Receive \/ EndedHandled \/ ReleasedHandled \/ ScheduleDone \/ Reply
  <2>1. UNCHANGED <<worldVars, jobVars, ended, released, profile, queue,
                    releasedAt>>
    BY <1>5 DEF Receive, EndedHandled, ReleasedHandled, ScheduleDone, Reply,
                schedVars
  <2>. QED  BY <1>5, <2>1, MoveKeepsInv
<1>6. CASE RemoveEnded \/ RejectReleased \/ QueueReleased \/ UpdatePresent
           \/ InsertNew \/ CompressNext
  BY <1>6, RemoveEndedKeepsInv, RejectKeepsInv, QueueKeepsInv, UpdateKeepsInv,
     InsertKeepsInv, CompressKeepsInv
<1>. QED
  BY <1>1, <1>2, <1>3, <1>4, <1>5, <1>6
     DEF Next, Platform, MakeDecisions, Terminated

\* The invariant holds in every state.
LEMMA InvHolds == Spec => []Inv
  BY InitEstablishesInv, NextKeepsInv, PTL DEF Spec

\* Insertion and compression each place one job of the queue, and start it or
\* not.
PlacesJob(j) ==
  /\ profile' = Reinsert(j)
  /\ UNCHANGED jobVars
  /\ \/ Alloc(j).startedInFirstSlice /\ ExecuteJob(j, Alloc(j).machines)
     \/ UNCHANGED worldVars

\* The job placed is the first of the new ones, which has no reservation, or the
\* one at the cursor.
LEMMA OneIsPlaced ==
  ASSUME Inv, InsertNew \/ CompressNext
  PROVE  /\ pc \in {"insert", "compress"}
         /\ \E j \in ToSet(queue) : PlacesJob(j)
<1>. USE DEF Inv
<1>1. CASE InsertNew
  <2>1. PICK j : j = Head(recent)
    OBVIOUS
  <2>2. /\ pc = "insert" /\ recent # <<>>
        /\ profile' = AddJobFirstFit(profile, j, res[j], walltime[j])
        /\ \/ Alloc(j).startedInFirstSlice /\ ExecuteJob(j, Alloc(j).machines)
           \/ UNCHANGED worldVars
        /\ UNCHANGED jobVars
    BY <1>1, <2>1 DEF InsertNew
  <2>3. j \in ToSet(recent)
    BY <2>1, <2>2, TailOfInjective DEF Types, QueuesMatchStatus
  <2>4. ~jobEnded /\ cursor = 1 /\ ToSet(recent) \subseteq ToSet(queue)
    BY <2>2 DEF PointsMatchLocals, QueuesMatchStatus
  <2>5. Compressed = {}
    BY <2>4 DEF Compressed
  <2>6. j \in Jobs /\ j \in ToSet(queue) /\ status[j] = "waiting"
        /\ j \notin ToSet(ended)
    BY <2>3, <2>4, ReservedJobs
  <2>7. ~ContainsJob(profile, j)
    BY <2>3, <2>5, <2>6 DEF ProfileMatchesJobs, Reserved
  <2>8. profile' = Reinsert(j)
    BY <2>2, <2>7 DEF Reinsert, RemoveJobIfExists
  <2>. QED  BY <2>2, <2>6, <2>8 DEF PlacesJob
<1>2. CASE CompressNext
  <2>1. PICK j : j = queue[cursor]
    OBVIOUS
  <2>2. /\ pc = "compress" /\ cursor <= Len(queue)
        /\ profile' = Reinsert(j)
        /\ \/ Alloc(j).startedInFirstSlice /\ ExecuteJob(j, Alloc(j).machines)
           \/ UNCHANGED worldVars
        /\ UNCHANGED jobVars
    BY <1>2, <2>1 DEF CompressNext
  <2>3. cursor \in 1 .. Len(queue) /\ DOMAIN queue = 1 .. Len(queue)
    BY <2>2, LenProperties DEF Types
  <2>4. j \in ToSet(queue)
    BY <2>1, <2>3 DEF ToSet
  <2>. QED  BY <2>2, <2>4 DEF PlacesJob
<1>. QED  BY <1>1, <1>2

-------------------------------------------------------------------------------
(* What it means.                                                          *)

\* The schedule is a partition of the future among the jobs at every program
\* point of make_decisions, whatever the jobs, the platform and the selector:
\* no machine is given twice, no counter is wrong, no job is interrupted, and
\* there is always room for one more at the end.
THEOREM ScheduleIsSoundHolds == Spec => []ScheduleIsSound
<1>1. Inv => ScheduleIsSound
  <2>. SUFFICES ASSUME Inv
                PROVE  ScheduleIsSound
    OBVIOUS
  <2>. USE DEF Inv
  <2>1. /\ IsProfile(profile, Machines, LAMBDA j : res[j])
        /\ profile[Len(profile)].available = Machines
        /\ \A j \in Jobs : IsContiguous(profile, j)
    BY SoundIsProfile DEF ProfileMatchesJobs
  <2>2. ASSUME NEW j \in ToSet(queue), ContainsJob(profile, j)
        PROVE  EndOf(profile, j) = BeginOf(profile, j) + walltime[j]
    <3>1. j \in Jobs /\ status[j] = "waiting" /\ j \notin ToSet(ended)
      BY ReservedJobs
    <3>2. j \in Reserved
      BY <2>2, <3>1 DEF ProfileMatchesJobs
    <3>. QED  BY <3>2 DEF ReservationsAreAhead, Allocation
  <2>. QED  BY <2>1, <2>2 DEF ScheduleIsSound
<1>. QED  BY <1>1, InvHolds, PTL

\* The schedule says where every running job runs, until it ends at least, and
\* holds every job that runs, is still to be removed or has a reservation, and
\* no other.
THEOREM ScheduleMatchesPlatformHolds == Spec => []ScheduleMatchesPlatform
<1>1. Inv => ScheduleMatchesPlatform
  <2>. SUFFICES ASSUME Inv
                PROVE  ScheduleMatchesPlatform
    OBVIOUS
  <2>. USE DEF Inv
  <2>1. ASSUME NEW j \in Jobs, status[j] = "running"
        PROVE  /\ j \in DOMAIN profile[1].jobs
               /\ profile[1].jobs[j] = placed[j]
               /\ EndOf(profile, j) >= deadline[j] + RjmsDelay
    <3>1. /\ IsSound(profile, Jobs, Machines, res) /\ ContainsJob(profile, j)
          /\ IsFiniteSet(Machines)
      BY <2>1, MachinesFinite DEF ProfileMatchesJobs
    <3>2. /\ Allocation(profile, j).present
          /\ Allocation(profile, j).machines = placed[j]
          /\ Allocation(profile, j).end >= deadline[j] + RjmsDelay
      BY <2>1 DEF RunningArePresent
    <3>3. j \in DOMAIN profile[1].jobs
          /\ profile[1].jobs[j] = Allocation(profile, j).machines
      BY <3>1, <3>2, AllocationFacts
    <3>4. Allocation(profile, j).end = EndOf(profile, j)
      BY DEF Allocation
    <3>. QED  BY <3>2, <3>3, <3>4
  <2>2. Compressed = IF jobEnded /\ pc \in {"compress", "answer"}
                     THEN {queue[i] : i \in 1 .. cursor - 1} ELSE {}
    <3>1. CASE jobEnded /\ pc \in {"compress", "answer"}
      BY <3>1 DEF Compressed
    <3>2. CASE ~(jobEnded /\ pc \in {"compress", "answer"})
      <4>1. cursor = 1
        BY <3>2 DEF PointsMatchLocals
      <4>. QED  BY <3>2, <4>1 DEF Compressed
    <3>. QED  BY <3>1, <3>2
  <2>3. {j \in Jobs : ContainsJob(profile, j)}
          = {j \in Jobs : status[j] = "running"} \cup ToSet(ended) \cup Reserved
    BY ReservedJobs DEF ProfileMatchesJobs
  <2>. QED
    BY <2>1, <2>2, <2>3
       DEF ScheduleMatchesPlatform, Reserved, QueuesMatchStatus
<1>. QED  BY <1>1, InvHolds, PTL

\* No reservation is missed, and the date never leaves the first slice before
\* update_first_slice, which asserts it, has moved it.
THEOREM NoReservationMissedHolds == Spec => []NoReservationMissed
<1>1. Inv => NoReservationMissed
  <2>. SUFFICES ASSUME Inv
                PROVE  NoReservationMissed
    OBVIOUS
  <2>. USE DEF Inv
  <2>1. pc = "present" => IsPresent(profile, now)
    BY PresentIsFirst DEF IsPresent, PointsMatchLocals
  <2>2. ASSUME pc = "batsim", NEW j \in ToSet(queue)
        PROVE  now <= BeginOf(profile, j) /\ 1 \notin SlicesOf(profile, j)
    <3>1. ToSet(recent) = {}
      BY <2>2 DEF PointsMatchLocals, ToSet
    <3>2. j \in Reserved
      BY <3>1 DEF Reserved
    <3>. QED  BY <3>2 DEF ReservationsAreAhead, Allocation
  <2>. QED  BY <2>1, <2>2 DEF NoReservationMissed
<1>. QED  BY <1>1, InvHolds, PTL

\* No step postpones the reservation of a waiting job, be it the removal of an
\* ended job, the passing of time, the insertion of a new job or compression.
THEOREM ReservationNeverPostponedHolds == Spec => ReservationNeverPostponed
<1>. DEFINE Kept == \A j \in ToSet(queue) :
                      ContainsJob(profile, j)
                        => BeginOf(profile', j) <= BeginOf(profile, j)
<1>1. Inv /\ [Next]_vars => [Kept]_vars
  <2>. SUFFICES ASSUME Inv, [Next]_vars, NEW j \in ToSet(queue),
                       ContainsJob(profile, j)
                PROVE  BeginOf(profile', j) <= BeginOf(profile, j)
    OBVIOUS
  <2>. USE DEF Inv
  <2>1. /\ IsSound(profile, Jobs, Machines, res) /\ IsFiniteSet(Machines)
        /\ j \in Jobs /\ status[j] = "waiting" /\ j \notin ToSet(ended)
        /\ ToSet(ended) \subseteq Jobs
    BY ReservedJobs, MachinesFinite DEF ProfileMatchesJobs
  <2>2. /\ BeginOf(profile, j) = Allocation(profile, j).begin
        /\ BeginOf(profile', j) = Allocation(profile', j).begin
    BY DEF Allocation
  <2>3. BeginOf(profile, j) \in Int
    <3>1. Allocation(profile, j).begin \in Int
      BY <2>1, AllocationFacts
    <3>. QED  BY <2>2, <3>1
  <2>4. CASE UNCHANGED profile
    BY <2>3, <2>4
  <2>5. CASE RemoveEnded
    <3>1. PICK k : k = Head(ended)
      OBVIOUS
    <3>2. k \in ToSet(ended) /\ k \in Jobs
      BY <2>1, <2>5, <3>1, TailOfInjective DEF RemoveEnded, Types, QueuesMatchStatus
    <3>3. ContainsJob(profile, k)
      BY <3>2 DEF ProfileMatchesJobs
    <3>4. profile' = RemoveJob(profile, k, res[k])
      BY <2>5, <3>1 DEF RemoveEnded
    <3>5. IsRemoved(profile', profile, k)
      BY <2>1, <3>2, <3>3, <3>4, RemoveSound
    <3>6. k # j
      BY <2>1, <3>2
    <3>7. Allocation(profile', j) = Allocation(profile, j)
      BY <3>5, <3>6 DEF IsRemoved, SameAllocation
    <3>. QED  BY <2>2, <2>3, <3>7
  <2>6. CASE UpdatePresent
    <3>1. ended = <<>> /\ pc = "present"
      BY <2>6 DEF UpdatePresent, PointsMatchLocals
    <3>2. now \in Int /\ now <= profile[1].end
      BY <3>1, PresentIsFirst DEF Types
    <3>3. IsUpdated(profile', profile, now)
      BY <2>1, <2>6, <3>2, UpdateSound DEF ProfileMatchesJobs, UpdatePresent
    <3>4. j \in Reserved
      BY <2>1 DEF ProfileMatchesJobs
    <3>5. Allocation(profile', j).begin = Allocation(profile, j).begin
      BY <3>3, <3>4 DEF IsUpdated, ReservationsAreAhead
    <3>. QED  BY <2>2, <2>3, <3>5
  <2>7. ASSUME NEW k \in ToSet(queue), profile' = Reinsert(k)
        PROVE  BeginOf(profile', j) <= BeginOf(profile, j)
    <3>1. IsPlaced(k)
      BY <2>7, QueuedIsPlaced
    <3>2. CASE k = j
      <4>1. Allocation(profile', j).begin = Alloc(j).begin
        BY <3>1, <3>2 DEF IsPlaced, IsInserted
      <4>2. Alloc(j).begin <= Allocation(profile, j).begin
        BY <3>1, <3>2 DEF IsPlaced
      <4>. QED  BY <2>2, <4>1, <4>2
    <3>3. CASE k # j
      <4>1. Allocation(profile', j) = Allocation(profile, j)
        BY <3>1, <3>3 DEF IsPlaced, IsInserted, SameAllocation
      <4>. QED  BY <2>2, <2>3, <4>1
    <3>. QED  BY <3>2, <3>3
  <2>8. CASE InsertNew \/ CompressNext
    BY <2>7, <2>8, OneIsPlaced DEF PlacesJob
  <2>. QED
    BY <2>4, <2>5, <2>6, <2>8
       DEF Next, Platform, MakeDecisions, Terminated, Query, Receive,
           EndedHandled, RejectReleased, QueueReleased, ReleasedHandled,
           ScheduleDone, AnswerQuery, Reply, schedVars, vars
<1>2. ReservationNeverPostponed <=> [][Kept]_vars
  BY DEF ReservationNeverPostponed
<1>. QED  BY <1>1, <1>2, InvHolds, PTL DEF Spec


-------------------------------------------------------------------------------
(* The refinement of ResourceManager.                                      *)

\* The abstract specification counts machines as this one does.
LEMMA SameCardinality == \A S : RM!Cardinality(S) = Cardinality(S)
  BY DEF RM!Cardinality, Cardinality

\* A job that is placed in the first slice gets machines that are free: the
\* machines of the running jobs are given to them in the first slice.
LEMMA StartImplementsStart ==
  ASSUME Inv, NEW j \in ToSet(queue), profile' = Reinsert(j), UNCHANGED jobVars,
         Alloc(j).startedInFirstSlice, ExecuteJob(j, Alloc(j).machines)
  PROVE  RM!Next
<1>. USE DEF Inv
<1>1. PICK alloc : alloc = Alloc(j)
  OBVIOUS
<1>2. j \in Jobs /\ status[j] = "waiting" /\ IsValid(j)
  BY ReservedJobs DEF JobsAreSound
<1>3. IsInserted(profile', profile, Jobs, Machines, res, j, walltime[j], alloc)
  BY <1>1, QueuedIsPlaced DEF IsPlaced
<1>4. /\ alloc.machines \in SUBSET Machines /\ Cardinality(alloc.machines) = res[j]
      /\ \A k \in Jobs : k # j /\ ContainsJob(profile, k) /\ Allocation(profile, k).present
           => alloc.machines \cap Allocation(profile, k).machines = {}
  BY <1>1, <1>3 DEF IsInserted
<1>5. \A k \in Jobs : alloc.machines \cap placed[k] = {}
  <2>. SUFFICES ASSUME NEW k \in Jobs
                PROVE  alloc.machines \cap placed[k] = {}
    OBVIOUS
  <2>1. CASE status[k] = "running"
    <3>1. k # j /\ ContainsJob(profile, k)
      BY <1>2, <2>1 DEF ProfileMatchesJobs
    <3>2. Allocation(profile, k).present /\ Allocation(profile, k).machines = placed[k]
      BY <2>1 DEF RunningArePresent
    <3>. QED  BY <1>4, <3>1, <3>2
  <2>2. CASE status[k] # "running"
    BY <2>2 DEF JobsAreSound
  <2>. QED  BY <2>1, <2>2
<1>6. alloc.machines \subseteq RM!Free
  BY <1>4, <1>5 DEF RM!Free
<1>7. ~RM!Hopeless(j)
  <2>1. ~(res[j] > Cardinality(Machines)) /\ hasWalltime[j]
    BY <1>2, AllMachines, PlatformAssumption DEF IsValid, Types
  <2>. QED  BY <2>1, SameCardinality DEF RM!Hopeless
<1>8. /\ status' = [status EXCEPT ![j] = "running"]
      /\ placed' = [placed EXCEPT ![j] = alloc.machines]
      /\ UNCHANGED <<res, hasWalltime>>
  BY <1>1 DEF ExecuteJob, jobVars
<1>9. RM!Start(j, alloc.machines)
  BY <1>2, <1>4, <1>6, <1>7, <1>8, SameCardinality DEF RM!Start
<1>. QED  BY <1>2, <1>4, <1>9 DEF RM!Next

\* Every step is a step of ResourceManager, or changes nothing of what it sees.
LEMMA StepImplementsStep ==
  ASSUME Inv, [Next]_vars
  PROVE  [RM!Next]_RM!vars
<1>. USE DEF Inv, RM!vars
<1>1. ASSUME NEW j \in Jobs, NEW r \in Requests, NEW w \in Walltimes,
             Submit(j, r, w)
      PROVE  RM!Next
  <2>1. r \in Nat
    BY PlatformAssumption
  <2>2. res'[j] = r /\ hasWalltime'[j] = (w # NoWalltime)
    BY <1>1 DEF Submit, Types
  <2>3. RM!Submit(j)
    BY <1>1, <2>1, <2>2 DEF Submit, RM!Submit
  <2>. QED  BY <2>3 DEF RM!Next
<1>2. ASSUME NEW j \in Jobs, Complete(j)
      PROVE  RM!Next
  BY <1>2 DEF Complete, jobVars, RM!Finish, RM!Next
<1>3. CASE \/ Tick \/ Receive \/ RemoveEnded \/ EndedHandled \/ QueueReleased
           \/ ReleasedHandled \/ UpdatePresent \/ ScheduleDone \/ AnswerQuery
           \/ Reply \/ UNCHANGED vars \/ \E q \in Queries : Query(q)
  BY <1>3 DEF Tick, Receive, RemoveEnded, EndedHandled, QueueReleased,
       ReleasedHandled, UpdatePresent, ScheduleDone, AnswerQuery, Reply, Query,
       vars, batsimVars, worldVars, jobVars
<1>4. CASE InsertNew \/ CompressNext
  <2>1. PICK j \in ToSet(queue) : PlacesJob(j)
    BY <1>4, OneIsPlaced
  <2>2. CASE Alloc(j).startedInFirstSlice /\ ExecuteJob(j, Alloc(j).machines)
    BY <2>1, <2>2, StartImplementsStart DEF PlacesJob
  <2>3. CASE UNCHANGED worldVars
    BY <2>1, <2>3 DEF PlacesJob, worldVars, jobVars
  <2>. QED  BY <2>1, <2>2, <2>3 DEF PlacesJob
<1>5. CASE RejectReleased
  <2>1. PICK j : j = Head(released)
    OBVIOUS
  <2>2. /\ released # <<>> /\ ~IsValid(j) /\ RejectJob(j) /\ UNCHANGED jobVars
    BY <1>5, <2>1 DEF RejectReleased
  <2>3. j \in Jobs /\ status[j] = "waiting"
    BY <2>1, <2>2, TailOfInjective, ReservedJobs DEF Types, QueuesMatchStatus
  <2>4. RM!Hopeless(j)
    <3>1. res[j] > Cardinality(Machines) \/ ~hasWalltime[j]
      BY <2>2, <2>3, AllMachines, PlatformAssumption DEF IsValid, Types
    <3>. QED  BY <3>1, SameCardinality DEF RM!Hopeless
  <2>5. RM!Reject(j)
    BY <2>2, <2>3, <2>4 DEF RejectJob, RM!Reject, jobVars
  <2>. QED  BY <2>3, <2>5 DEF RM!Next
<1>. QED
  BY <1>1, <1>2, <1>3, <1>4, <1>5
     DEF Next, Platform, MakeDecisions, Terminated

\* conservative_bf.cpp keeps the promises of ResourceManager: it starts a job at
\* most once, on as many free machines as it asked for, and rejects only the
\* jobs that are larger than the platform or have no walltime.
THEOREM Implementation == Spec => ImplementsResourceManager
<1>1. Init => RM!Init
  BY DEF Init, BatsimInit, RM!Init
<1>. QED
  BY <1>1, StepImplementsStep, InvHolds, PTL
     DEF Spec, ImplementsResourceManager, RM!Spec

===============================================================================
