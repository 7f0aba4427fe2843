------------------------------- MODULE Protocol -------------------------------
(***************************************************************************)
(* The decisions a scheduler can add to its reply: one operator per append *)
(* function of JsonProtocolWriter (src/src/protocol.cpp), which            *)
(* SchedulingDecision (src/src/decision.cpp) calls under another name.  A  *)
(* decision is a record with its kind, its date and the data Batsim acts   *)
(* upon; its JSON text is left out.                                        *)
(***************************************************************************)
EXTENDS Integers, Sequences

ExecuteJob(j, ms, date) ==
  [type |-> "EXECUTE_JOB", date |-> date, job |-> j, machines |-> ms]
RejectJob(j, date) == [type |-> "REJECT_JOB", date |-> date, job |-> j]
KillJob(j, date)   == [type |-> "KILL_JOB", date |-> date, job |-> j]
SetResourceState(ms, p, date) ==
  [type |-> "SET_RESOURCE_STATE", date |-> date, machines |-> ms, state |-> p]
SetJobMetadata(j, date) ==
  [type |-> "SET_JOB_METADATA", date |-> date, job |-> j]
CallMeLater(when, date) ==
  [type |-> "CALL_ME_LATER", date |-> date, when |-> when]
SchedulerFinishedSubmitting(date) == [type |-> "NOTIFY", date |-> date]
QueryConsumedEnergy(date) == [type |-> "QUERY", date |-> date]
AnswerEstimateWaitingTime(j, date) ==
  [type |-> "ANSWER", date |-> date, job |-> j]
RegisterJob(j, profile, inlined, date) ==
  [type |-> "REGISTER_JOB", date |-> date, job |-> j, profile |-> profile,
   inlined |-> inlined]
RegisterProfile(profile, date) ==
  [type |-> "REGISTER_PROFILE", date |-> date, profile |-> profile]

\* The date after a decision is written: _last_date, which clear() keeps.
DateAfter(decisions, lastDate) ==
  IF decisions = <<>> THEN lastDate ELSE decisions[Len(decisions)].date

\* The assertions of the append functions: every decision is dated no
\* earlier than the one before it, whichever message that one was in.
DatesAreConsistent(decisions, lastDate) ==
  \A k \in DOMAIN decisions :
    decisions[k].date >= IF k = 1 THEN lastDate ELSE decisions[k - 1].date
===============================================================================
