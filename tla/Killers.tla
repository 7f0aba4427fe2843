-------------------------------- MODULE Killers --------------------------------
(***************************************************************************)
(* killer and killer2 (src/src/algo/killer.cpp, killer2.cpp): first come,  *)
(* first served schedulers that kill what they run.  killer decides the    *)
(* kills of a job together with its execution, dated in the future; so the *)
(* reply is dated in the future too and the job may be over before it is   *)
(* killed.  killer2 kills the running job as soon as another one waits,    *)
(* and executes that one a few seconds later on the machines it reclaims   *)
(* at once in its own books.                                               *)
(***************************************************************************)
EXTENDS RunLoop

CONSTANTS
  KillPlans,    \* options of killer: nb_kills_per_job, delay_before_kill
  KillMargin    \* seconds killer2 leaves between a kill and an execution

ASSUME KillersAssumption ==
  /\ KillPlans \subseteq [kills : Nat, delay : Nat]
  /\ KillMargin \in Nat \ {0}

KillerOptions  == KillPlans
Killer2Options == {<<>>}

-------------------------------------------------------------------------------
\* The kills of a job that starts at this date: each one delay later.
PlannedKills(j, date) ==
  [k \in 1 .. own.kills |-> KillJob(j, date + k * own.delay)]

\* make_decisions of killer: at most the first job of the queue is started.
KillerMakeDecisions ==
  LET first  == Head(SortedQueue).job
      alloc  == Fit(FreedMachines, size[first])
      starts == SortedQueue # <<>> /\ alloc # {}
  IN
  /\ variant = "killer" /\ Deciding /\ CallsMakeDecisions
  /\ IF starts
       THEN /\ available' = FreedMachines \ alloc
            /\ allocations' = [WithoutEnded EXCEPT ![first] = alloc]
            /\ queue' = RemoveFromQueue(SortedQueue, first)
            /\ Reply(Rejections(clock) \o <<ExecuteJob(first, alloc, clock)>>
                       \o PlannedKills(first, clock))
       ELSE /\ available' = FreedMachines
            /\ allocations' = WithoutEnded
            /\ queue' = SortedQueue
            /\ Reply(Rejections(clock))
  /\ UNCHANGED own

-------------------------------------------------------------------------------
\* The jobs killer2 believes to be running: one at most.
Occupying == {j \in Jobs : WithoutEnded[j] # {}}

\* Mutant: the next job is executed at the date of the kill.
ExecutionDate_AtOnce(date) == date

\* Kill what runs; execute the first job of the queue, later if something
\* had to be killed.
Preempt(date) == [k \in 1 .. Cardinality(Occupying) |->
                    KillJob(CHOOSE j \in Occupying : TRUE, date)]
ExecutionDate(date) == IF Occupying = {} THEN date ELSE date + KillMargin

\* make_decisions of killer2.  The machines of the killed job are available
\* again although the kill is still to be sent.
Killer2MakeDecisions ==
  LET first     == Head(SortedQueue).job
      reclaimed == FreedMachines \cup UNION {allocations[j] : j \in Occupying}
      alloc     == Fit(reclaimed, size[first])
  IN
  /\ variant = "killer2" /\ Deciding /\ CallsMakeDecisions
  /\ IF SortedQueue # <<>>
       THEN /\ available' = reclaimed \ alloc
            /\ allocations' = [j \in Jobs |-> IF j = first THEN alloc ELSE {}]
            /\ queue' = RemoveFromQueue(SortedQueue, first)
            /\ Reply(Rejections(clock) \o Preempt(clock)
                       \o <<ExecuteJob(first, alloc, ExecutionDate(clock))>>)
       ELSE /\ available' = FreedMachines
            /\ allocations' = WithoutEnded
            /\ queue' = <<>>
            /\ Reply(Rejections(clock))
  /\ UNCHANGED own
===============================================================================
