-------------------------------- MODULE Sleeper --------------------------------
(***************************************************************************)
(* sleeper (src/src/algo/sleeper.cpp): one job at a time; machines that    *)
(* are not needed are put to sleep and woken up for the first job of the   *)
(* queue.  Every machine is in one of five sets: available (the variable   *)
(* of RunLoop), computing, being switched on, being switched off, asleep.  *)
(***************************************************************************)
EXTENDS RunLoop

SleeperOptions ==
  {[computing |-> {}, on |-> {}, off |-> {}, asleep |-> {}, job |-> NullJob,
    finished |-> FALSE]}

-------------------------------------------------------------------------------
\* on_simulation_end of sleeper.
SleeperReceiveSimulationEnds ==
  /\ variant = "sleeper"
  /\ Receives("SIMULATION_ENDS")
  /\ own' = [own EXCEPT !.finished = TRUE]
  /\ UNCHANGED <<outbox, loopVars, queue, available, allocations>>

\* The machine sets after the ended job and the switches of the message.
SleeperUpdated ==
  LET ended == recent.ended # <<>>
      woken == recent.switched["fast"]
      slept == recent.switched["asleep"]
  IN [avail     |-> available \cup woken \cup IF ended THEN own.computing ELSE {},
      computing |-> IF ended THEN {} ELSE own.computing,
      on        |-> own.on \ woken,
      off       |-> own.off \ slept,
      asleep    |-> own.asleep \cup slept,
      job       |-> IF ended THEN NullJob ELSE own.job,
      finished  |-> own.finished]

\* The new members, with the set of available machines set apart.
SleeperBecomes(s) ==
  /\ available' = s.avail
  /\ own' = [computing |-> s.computing, on |-> s.on, off |-> s.off,
             asleep |-> s.asleep, job |-> s.job, finished |-> s.finished]
  /\ UNCHANGED allocations

\* Mutant: available_machines is not emptied.
Sedated_StillAvailable(s) == [s EXCEPT !.off = @ \cup s.avail]

\* All the available machines are put to sleep, if there are any.
Sedated(s) == [s EXCEPT !.off = @ \cup s.avail, !.avail = {}]
SedateOrder(s, date) ==
  IF s.avail = {} THEN <<>> ELSE <<SetResourceState(s.avail, "asleep", date)>>

\* Enough machines are available: the job starts on the leftmost ones and
\* the others go to sleep.
RunFirst(s, j) ==
  LET alloc == Left(s.avail, size[j])
      rest  == [s EXCEPT !.avail = @ \ alloc, !.computing = alloc, !.job = j]
  IN  /\ SleeperBecomes(Sedated(rest))
      /\ queue' = RemoveFromQueue(SortedQueue, j)
      /\ Reply(Rejections(clock) \o <<ExecuteJob(j, alloc, clock)>>
                 \o SedateOrder(rest, clock))

\* Mutant: one machine too few is woken up.
WakeUpFor_OneShort(s, j) ==
  LET missing == size[j] - Cardinality(s.avail) - Cardinality(s.on)
      count   == Min({missing - 1, Cardinality(s.asleep)})
      woken   == IF missing > 0 THEN Left(s.asleep, count) ELSE {}
  IN  /\ SleeperBecomes([s EXCEPT !.asleep = @ \ woken, !.on = @ \cup woken])
      /\ queue' = SortedQueue
      /\ Reply(Rejections(clock) \o
               IF woken = {} THEN <<>>
                             ELSE <<SetResourceState(woken, "fast", clock)>>)

\* Not enough of them, even counting those being switched on: sleeping
\* machines are woken up, as many as are missing or as there are.
WakeUpFor(s, j) ==
  LET missing == size[j] - Cardinality(s.avail) - Cardinality(s.on)
      count   == Min({missing, Cardinality(s.asleep)})
      woken   == IF missing > 0 THEN Left(s.asleep, count) ELSE {}
  IN  /\ SleeperBecomes([s EXCEPT !.asleep = @ \ woken, !.on = @ \cup woken])
      /\ queue' = SortedQueue
      /\ Reply(Rejections(clock) \o
               IF woken = {} THEN <<>>
                             ELSE <<SetResourceState(woken, "fast", clock)>>)

\* Nothing to start: every available machine goes to sleep.
SleepAll(s) ==
  /\ SleeperBecomes(Sedated(s))
  /\ queue' = SortedQueue
  /\ Reply(Rejections(clock) \o SedateOrder(s, clock))

\* The simulation is over: no more orders.
StayQuiet(s) ==
  /\ SleeperBecomes(s)
  /\ queue' = SortedQueue
  /\ Reply(Rejections(clock))

SleeperMakeDecisions ==
  LET s     == SleeperUpdated
      first == Head(SortedQueue).job
      waits == SortedQueue # <<>>
  IN
  /\ variant = "sleeper" /\ Deciding /\ CallsMakeDecisions
  /\ CASE waits /\ s.job = NullJob /\ Cardinality(s.avail) >= size[first]
            -> RunFirst(s, first)
       [] waits /\ s.job = NullJob /\ ~(Cardinality(s.avail) >= size[first])
            -> WakeUpFor(s, first)
       [] waits /\ s.job # NullJob    -> SleepAll(s)
       [] ~waits /\ ~s.finished       -> SleepAll(s)
       [] ~waits /\ s.finished        -> StayQuiet(s)
===============================================================================
