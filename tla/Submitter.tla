------------------------------- MODULE Submitter -------------------------------
(***************************************************************************)
(* submitter (src/src/algo/submitter.cpp): a first come, first served      *)
(* scheduler that submits jobs of its own, one per call of make_decisions, *)
(* when its queue is empty and a machine is free.  If Batsim acknowledges  *)
(* submissions the job comes back as a released job; otherwise its         *)
(* execution is decided at once, dated a few seconds later.                *)
(***************************************************************************)
EXTENDS RunLoop

CONSTANTS
  SubmissionPlans,  \* options of submitter, acknowledgement included
  DirectDelay       \* seconds between a submission and its execution

ASSUME SubmitterAssumption ==
  /\ SubmissionPlans \subseteq
       [acknowledged : BOOLEAN, increase : BOOLEAN, again : BOOLEAN,
        separate : BOOLEAN, metadata : BOOLEAN]
  /\ DirectDelay \in Nat

SubmitterOptions ==
  {[submitted |-> 0, finishedSent |-> FALSE, sent |-> {},
    acknowledged |-> p.acknowledged, increase |-> p.increase, again |-> p.again,
    separate |-> p.separate, metadata |-> p.metadata] : p \in SubmissionPlans}

-------------------------------------------------------------------------------
\* The next job to submit, and the name of its profile: its duration.
NewJob     == NbStatic + own.submitted + 1
NewProfile == IF own.increase THEN 1 + 10 * own.submitted ELSE 1

\* Mutant: the profile is registered after the job.
SubmitDelayJob_ProfileLast(j, profile, date) ==
  LET sends == profile \notin own.sent \/ own.again
  IN  <<RegisterJob(j, profile, sends /\ ~own.separate, date)>>
      \o (IF sends /\ own.separate THEN <<RegisterProfile(profile, date)>>
                                   ELSE <<>>)
      \o (IF own.metadata THEN <<SetJobMetadata(j, date)>> ELSE <<>>)

\* submit_delay_job: the profile goes first, or with the job, or not at all
\* if it was already sent.
SubmitDelayJob(j, profile, date) ==
  LET sends == profile \notin own.sent \/ own.again
  IN  (IF sends /\ own.separate THEN <<RegisterProfile(profile, date)>> ELSE <<>>)
      \o <<RegisterJob(j, profile, sends /\ ~own.separate, date)>>
      \o (IF own.metadata THEN <<SetJobMetadata(j, date)>> ELSE <<>>)

\* Metadata and rejections of the released jobs, in their order.
ReleaseDecisionsOf(j, date) ==
  (IF own.metadata THEN <<SetJobMetadata(j, date)>> ELSE <<>>)
  \o (IF IsValid(j) THEN <<>> ELSE <<RejectJob(j, date)>>)

ReleaseDecisions(date) ==
  LET js == recent.released
      after[k \in 0 .. Len(js)] ==
        IF k = 0 THEN <<>> ELSE after[k - 1] \o ReleaseDecisionsOf(js[k], date)
  IN  after[Len(js)]

SubmitterMakeDecisions ==
  LET first   == Head(SortedQueue).job
      alloc1  == Fit(FreedMachines, size[first])
      starts  == SortedQueue # <<>> /\ alloc1 # {}
      started == IF starts THEN <<ExecuteJob(first, alloc1, clock)>> ELSE <<>>
      queue1  == IF starts THEN RemoveFromQueue(SortedQueue, first)
                           ELSE SortedQueue
      free1   == IF starts THEN FreedMachines \ alloc1 ELSE FreedMachines
      allocs1 == IF starts THEN [WithoutEnded EXCEPT ![first] = alloc1]
                           ELSE WithoutEnded
      \* The dynamic submission.
      submits == queue1 = <<>> /\ free1 # {} /\ own.submitted < NbDynamic
      direct  == submits /\ ~own.acknowledged
      later   == IF direct THEN clock + DirectDelay ELSE clock
      alloc2  == Left(free1, 1)
      submit  == IF submits THEN SubmitDelayJob(NewJob, NewProfile, clock)
                            ELSE <<>>
      execute == IF direct THEN <<ExecuteJob(NewJob, alloc2, later)>> ELSE <<>>
      count   == IF submits THEN own.submitted + 1 ELSE own.submitted
      \* The end of the submissions.
      finish  == count >= NbDynamic /\ ~own.finishedSent
  IN
  /\ variant = "submitter" /\ Deciding /\ CallsMakeDecisions
  /\ queue' = queue1
  /\ available' = IF direct THEN free1 \ alloc2 ELSE free1
  /\ allocations' = IF direct THEN [allocs1 EXCEPT ![NewJob] = alloc2]
                              ELSE allocs1
  /\ own' = [own EXCEPT !.submitted = count,
                        !.finishedSent = @ \/ finish,
                        !.sent = IF submits THEN @ \cup {NewProfile} ELSE @]
  /\ Reply(ReleaseDecisions(clock) \o started \o submit \o execute \o
           IF finish THEN <<SchedulerFinishedSubmitting(later)>> ELSE <<>>)
===============================================================================
