-------------------------------- MODULE Watchers -------------------------------
(***************************************************************************)
(* The algorithms of a few lines each (src/src/algo): rejecter, random,    *)
(* wt_estimator (variant waiting_time_estimator) and energy_watcher.       *)
(***************************************************************************)
EXTENDS RunLoop

WatcherOptions == {[busy |-> FALSE, previous |-> -1]}

-------------------------------------------------------------------------------
\* The algorithms that keep no queue.
Stateless(decisions) ==
  /\ Reply(decisions)
  /\ UNCHANGED algoVars

RejectAll(date) ==
  [k \in DOMAIN recent.released |-> RejectJob(recent.released[k], date)]

RejecterMakeDecisions ==
  /\ variant = "rejecter" /\ Deciding /\ CallsMakeDecisions
  /\ Stateless(RejectAll(clock))

\* wt_estimator answers -1 to every query: the jobs will never run.
WaitingTimeEstimatorMakeDecisions ==
  /\ variant = "waiting_time_estimator" /\ Deciding /\ CallsMakeDecisions
  /\ Stateless([k \in DOMAIN recent.queries |->
                  AnswerEstimateWaitingTime(recent.queries[k], clock)]
               \o RejectAll(clock))

\* random places a released job at once on any machines, used or not.
RandomMakeDecisions ==
  /\ variant = "random" /\ Deciding /\ CallsMakeDecisions
  /\ \E pick \in [Jobs -> SUBSET Machines] :
       /\ \A j \in Jobs :
            IF j \in ToSet(recent.released) /\ IsValid(j)
              THEN Cardinality(pick[j]) = size[j]
              ELSE pick[j] = {}
       /\ Stateless([k \in DOMAIN recent.released |->
                       LET j == recent.released[k]
                       IN  IF IsValid(j) THEN ExecuteJob(j, pick[j], clock)
                                         ELSE RejectJob(j, clock)])

-------------------------------------------------------------------------------
\* energy_watcher: one job at a time in the order of arrival, the queue is not
\* sorted; the consumed energy is asked for when jobs are released.
BusyAfterEnds == own.busy /\ recent.ended = <<>>

EnergyQuery(date) ==
  IF recent.released # <<>> THEN <<QueryConsumedEnergy(date)>> ELSE <<>>

\* execute_job_if_whole_machine_is_idle, with what make_decisions did before.
EnergyWatcherMakeDecisions ==
  LET first == Head(QueueWithReleased).job
      runs  == ~BusyAfterEnds /\ QueueWithReleased # <<>>
  IN
  /\ variant = "energy_watcher" /\ Deciding /\ CallsMakeDecisions
  /\ queue' = IF runs THEN Tail(QueueWithReleased) ELSE QueueWithReleased
  /\ own' = [busy     |-> BusyAfterEnds \/ runs,
             previous |-> IF recent.consumed = -1 THEN own.previous
                                                  ELSE recent.consumed]
  /\ Reply(Rejections(clock) \o EnergyQuery(clock) \o
           IF runs THEN <<ExecuteJob(first, Left(Machines, size[first]), clock)>>
                   ELSE <<>>)
  /\ UNCHANGED <<available, allocations>>
===============================================================================
