-------------------------------- MODULE Filler --------------------------------
(***************************************************************************)
(* filler (src/src/algo/filler.cpp): runs through the queue and starts     *)
(* every job that fits on the machines that are free and not announced as  *)
(* unavailable.  A job may be given a fraction of the machines it asks     *)
(* for.                                                                    *)
(***************************************************************************)
EXTENDS RunLoop

CONSTANTS
  FillPlans    \* options of filler: fraction_of_machines_to_use, in percent,
               \* and set_job_metadata

ASSUME FillerAssumption ==
  FillPlans \subseteq [fraction : 1 .. 100, metadata : BOOLEAN]

FillerOptions ==
  {[unavailable |-> {}, fraction |-> p.fraction, metadata |-> p.metadata] :
     p \in FillPlans}

-------------------------------------------------------------------------------
\* ceil(fraction_of_machines_to_use * nb_requested_resources).
MachinesToAllocate(j) == (own.fraction * size[j] + 99) \div 100

\* One job of the queue: it is started on a part of the machines found by the
\* selector, or stays in the queue.  f holds what fill has done so far.
FillOne(f, e) ==
  LET found == Fit(f.usable, size[e.job])
      alloc == Left(found, MachinesToAllocate(e.job))
  IN  IF f.usable = {} \/ found = {}
        THEN [f EXCEPT !.queue = Append(@, e)]
        ELSE [usable  |-> f.usable \ alloc,
              queue   |-> f.queue,
              started |-> [f.started EXCEPT ![e.job] = alloc],
              decisions |->
                f.decisions \o <<ExecuteJob(e.job, alloc, clock)>> \o
                IF own.metadata THEN <<SetJobMetadata(e.job, clock)>> ELSE <<>>]

\* fill: from the first job of the queue to the last.
Fill(usable) ==
  LET q == SortedQueue
      after[k \in 0 .. Len(q)] ==
        IF k = 0 THEN [usable |-> usable, queue |-> <<>>, decisions |-> <<>>,
                       started |-> [j \in Jobs |-> {}]]
                 ELSE FillOne(after[k - 1], q[k])
  IN  after[Len(q)]

\* unavailable_machines after the announcements of the message.
Unavailable == (own.unavailable \ recent.backAgain) \cup recent.gone

\* Mutant: unavailable machines are not taken away.
UsableMachines_Freed == FreedMachines

\* What fill may give to jobs.
UsableMachines == FreedMachines \ Unavailable

FillerMakeDecisions ==
  LET filled == Fill(UsableMachines)
  IN
  /\ variant = "filler" /\ Deciding /\ CallsMakeDecisions
  /\ own' = [own EXCEPT !.unavailable = Unavailable]
  /\ allocations' = [j \in Jobs |-> IF filled.started[j] # {}
                                      THEN filled.started[j]
                                      ELSE WithoutEnded[j]]
  /\ available' = FreedMachines \ UNION {filled.started[j] : j \in Jobs}
  /\ queue' = filled.queue
  /\ Reply(Rejections(clock) \o filled.decisions)
===============================================================================
