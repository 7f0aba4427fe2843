-------------------------------- MODULE RunLoop --------------------------------
(***************************************************************************)
(* The main loop of batsched (run, in src/src/main.cpp), the accumulators  *)
(* of ISchedulingAlgorithm, the dates of the protocol writer and, on the   *)
(* other side of the socket, Batsim.                                       *)
(*                                                                         *)
(* Here, unlike in module Batsim, events and decisions keep their dates: a *)
(* decision may be dated in the future, Batsim applies it when that date   *)
(* comes, and meanwhile it collects events for the next message.           *)
(*                                                                         *)
(* One message is handled by one action per event (the Receive actions),   *)
(* in order, followed by make_decisions and the reply, which are one       *)
(* action (Reply is its common part).  Batsim is blocked meanwhile.  The   *)
(* handlers that an algorithm overrides, and its make_decisions, are in    *)
(* the modules that extend this one.                                       *)
(***************************************************************************)
EXTENDS Integers, FiniteSets, SequencesExt, FiniteSetsExt, Protocol, Queue, Selector

CONSTANTS
  NbMachines,     \* _nb_machines
  Left(_, _)      \* IntervalSet::left

\* Bounds of the model.
CONSTANTS
  Variants,       \* the algorithms to run
  Orders,         \* the queue orders to run them with
  NbStatic,       \* jobs of the workload,
  Lighter,        \* one job less for these algorithms
  NbDynamic,      \* jobs submitted by the scheduler (nb_jobs_to_submit)
  Requests,       \* numbers of resources a job may ask for
  Walltimes,      \* longest executions of the jobs of the workload
  DynamicRun,     \* longest execution of a job submitted by the scheduler
  LastSubmission, \* no job of the workload is submitted after this date
  SwitchTime,     \* a machine falls asleep or wakes up within this time
  MaxOutages,     \* number of times a machine becomes unavailable
  MaxQueries      \* number of waiting time queries

NullJob  == 0
Machines == 0 .. NbMachines - 1
Static   == 1 .. NbStatic
Dynamic  == NbStatic + 1 .. NbStatic + NbDynamic
Jobs     == Static \cup Dynamic

\* The power states of the platform.
PStates == {"fast", "slow", "asleep"}

ASSUME RunLoopAssumption ==
  /\ NbMachines \in Nat \ {0}
  /\ NbStatic \in Nat /\ NbDynamic \in Nat
  /\ Requests \subseteq Nat \ {0}
  /\ Walltimes \subseteq Nat
  /\ {DynamicRun, LastSubmission, SwitchTime, MaxOutages, MaxQueries}
       \subseteq Nat
  /\ Orders \subseteq QueueOrders

\* The left part of a set of machines has as many of them as asked for, if
\* there are.  A selector that finds a place finds as many machines as asked
\* for, among those it is given; with fewer machines to choose from it finds
\* none that it would not find with more; with all of them it finds some
\* (killer2 asserts so).
ASSUME LeftAssumption ==
  \A ms \in SUBSET Machines : \A n \in 0 .. Cardinality(ms) :
    /\ Left(ms, n) \subseteq ms
    /\ Cardinality(Left(ms, n)) = n
ASSUME FitAssumption ==
  /\ \A ms \in SUBSET Machines : \A n \in 1 .. NbMachines :
       Fit(ms, n) # {} =>
         /\ Fit(ms, n) \subseteq ms
         /\ Cardinality(Fit(ms, n)) = n
         /\ \A more \in SUBSET Machines : ms \subseteq more => Fit(more, n) # {}
  /\ \A n \in 1 .. NbMachines : Fit(Machines, n) # {}

\* Batsim and its platform.
VARIABLES
  clock,       \* simulated date
  status,      \* life cycle of every job
  size,        \* nb_requested_resources of the submitted jobs
  walltime,    \* walltime of the submitted jobs, which they never exceed
  placed,      \* machines on which the running jobs execute
  deadline,    \* date at which a running job is over at the latest
  kills,       \* jobs being killed
  pstate,      \* power state of every machine
  target,      \* power state every machine is moving to
  switchBy,    \* date at which a machine has switched at the latest
  calls,       \* dates of the requested calls to come
  down,        \* machines that are unavailable
  submitting,  \* some job of the workload may still be submitted
  budget,      \* submissions, outages and queries that may still happen
  registered,  \* what the scheduler registered: profiles, end of submissions
  ends         \* Batsim has announced the end of the simulation

\* The socket, and where the scheduler stands.
VARIABLES
  pc,          \* "batsim", or what batsched is doing
  inbox,       \* events of the next message, or of the one being handled
  handled,     \* number of events of the message already handled
  outbox,      \* decisions that Batsim has not applied yet
  until        \* "now" of the last reply: Batsim is silent until this date

\* The scheduler.
VARIABLES
  variant,     \* scheduling_variant
  order,       \* queue_order
  nopCalls,    \* call_make_decisions_on_single_nop
  lastDate,    \* JsonProtocolWriter::_last_date
  recent,      \* the accumulators of ISchedulingAlgorithm
  noMoreStatic,\* _no_more_static_job_to_submit_received
  queue,       \* _queue: jobs with their release date
  available,   \* available_machines of the algorithm
  allocations, \* current_allocations of the algorithm
  own          \* the other members of the algorithm, options included

jobVars      == <<status, size, walltime, placed, deadline, kills>>
platformVars == <<pstate, target, switchBy, down>>
batsimVars   == <<clock, jobVars, platformVars, calls, submitting, budget,
                  registered, ends>>
socketVars   == <<pc, inbox, handled, outbox, until>>
configVars   == <<variant, order, nopCalls>>
loopVars     == <<lastDate, recent, noMoreStatic>>
algoVars     == <<queue, available, allocations, own>>
schedVars    == <<configVars, loopVars, algoVars>>
vars         == <<batsimVars, socketVars, schedVars>>

-------------------------------------------------------------------------------
(* Events, as Batsim writes them.  Data that is not read is left out.      *)

Event(type)          == [type |-> type, date |-> clock]
JobEvent(type, js)   == [type |-> type, date |-> clock, jobs |-> js]
MachineEvent(type, ms, p) ==
  [type |-> type, date |-> clock, machines |-> ms, state |-> p]
AnswerEvent(joules)  ==
  [type |-> "ANSWER", date |-> clock, consumed |-> joules]
-------------------------------------------------------------------------------

\* The accumulators after clear_recent_data_structures.  _nopped_recently is
\* left out: no algorithm reads it.
NothingRecent ==
  [released |-> <<>>, ended |-> <<>>, killed |-> <<>>, queries |-> <<>>,
   switched |-> [p \in PStates |-> {}], backAgain |-> {}, gone |-> {},
   consumed |-> -1]

-------------------------------------------------------------------------------
(* Batsim between two messages: what happens on the platform.  Each event  *)
(* is dated with its occurrence and joins the inbox, in any order with the *)
(* others of its date.                                                     *)

AtWork == pc = "batsim"

Happens(events) ==
  /\ AtWork /\ ~ends
  /\ inbox' = inbox \o events
  /\ UNCHANGED <<pc, handled, outbox, until, schedVars>>

\* A job of the workload is submitted.
Submit(j, r, w) ==
  /\ submitting /\ clock <= LastSubmission /\ budget.jobs > 0
  /\ budget' = [budget EXCEPT !.jobs = @ - 1]
  /\ status[j] = "future" /\ \A k \in Static : k < j => status[k] # "future"
  /\ status' = [status EXCEPT ![j] = "waiting"]
  /\ size' = [size EXCEPT ![j] = r]
  /\ walltime' = [walltime EXCEPT ![j] = w]
  /\ Happens(<<JobEvent("JOB_SUBMITTED", <<j>>)>>)
  /\ UNCHANGED <<clock, placed, deadline, kills, platformVars, calls,
                 submitting, registered, ends>>

\* The workload is exhausted.
EndSubmissions ==
  /\ submitting
  /\ submitting' = FALSE
  /\ Happens(<<Event("NO_MORE_STATIC_JOB")>>)
  /\ UNCHANGED <<clock, jobVars, platformVars, calls, budget, registered, ends>>

\* A job ends by itself.
Complete(j) ==
  /\ status[j] = "running"
  /\ status' = [status EXCEPT ![j] = "done"]
  /\ placed' = [placed EXCEPT ![j] = {}]
  /\ Happens(<<JobEvent("JOB_COMPLETED", <<j>>)>>)
  /\ UNCHANGED <<clock, size, walltime, deadline, kills, platformVars, calls,
                 submitting, budget, registered, ends>>

\* A kill takes effect: the job is reported as completed, if it still ran,
\* and the kill as done.
FinishKill ==
  /\ kills # <<>>
  /\ LET j == Head(kills) IN
       /\ kills' = Tail(kills)
       /\ IF status[j] = "running"
            THEN /\ status' = [status EXCEPT ![j] = "done"]
                 /\ placed' = [placed EXCEPT ![j] = {}]
                 /\ Happens(<<JobEvent("JOB_COMPLETED", <<j>>),
                              JobEvent("JOB_KILLED", <<j>>)>>)
            ELSE /\ UNCHANGED <<status, placed>>
                 /\ Happens(<<JobEvent("JOB_KILLED", <<>>)>>)
  /\ UNCHANGED <<clock, size, walltime, deadline, platformVars, calls,
                 submitting, budget, registered, ends>>

\* Some of the machines on their way to the same state reach it together.
Switching(p) == {m \in Machines : pstate[m] # p /\ target[m] = p}

FinishSwitch(ms, p) ==
  /\ ms # {} /\ ms \subseteq Switching(p)
  /\ pstate' = [m \in Machines |-> IF m \in ms THEN p ELSE pstate[m]]
  /\ Happens(<<MachineEvent("RESOURCE_STATE_CHANGED", ms, p)>>)
  /\ UNCHANGED <<clock, jobVars, target, switchBy, down, calls, submitting,
                 budget, registered, ends>>

\* A requested call is due.
Call(k) ==
  /\ calls[k] <= clock
  /\ calls' = RemoveAt(calls, k)
  /\ Happens(<<Event("REQUESTED_CALL")>>)
  /\ UNCHANGED <<clock, jobVars, platformVars, submitting, budget, registered,
                 ends>>

\* A machine becomes unavailable, or available again.  An outage is not over in
\* the message that announces it; another one may begin in the message that
\* announces its end.
JustGone(m) ==
  \E k \in DOMAIN inbox :
    inbox[k].type = "UNAVAILABLE" /\ m \in inbox[k].machines

BreakDown(m) ==
  /\ budget.outages > 0 /\ m \notin down
  /\ budget' = [budget EXCEPT !.outages = @ - 1]
  /\ down' = down \cup {m}
  /\ Happens(<<MachineEvent("UNAVAILABLE", {m}, "fast")>>)
  /\ UNCHANGED <<clock, jobVars, pstate, target, switchBy, calls, submitting,
                 registered, ends>>

Repair(m) ==
  /\ m \in down /\ ~JustGone(m)
  /\ down' = down \ {m}
  /\ Happens(<<MachineEvent("AVAILABLE", {m}, "fast")>>)
  /\ UNCHANGED <<clock, jobVars, pstate, target, switchBy, calls, submitting,
                 budget, registered, ends>>

\* The waiting time of a potential job is asked for.  Its identifier is not
\* used for another job later.
AskWaitingTime(j) ==
  /\ budget.queries > 0 /\ status[j] = "future"
  /\ budget' = [budget EXCEPT !.queries = @ - 1]
  /\ status' = [status EXCEPT ![j] = "potential"]
  /\ Happens(<<JobEvent("QUERY", <<j>>)>>)
  /\ UNCHANGED <<clock, size, walltime, placed, deadline, kills, platformVars,
                 calls, submitting, registered, ends>>

-------------------------------------------------------------------------------
(* Batsim applies the decisions of the last reply, in order, each at its   *)
(* date.                                                                   *)

Decision == Head(outbox)

\* The next decision is of this kind, and its date has come.
Applies(type) ==
  /\ AtWork
  /\ outbox # <<>>
  /\ Decision.type = type
  /\ Decision.date <= clock
  /\ outbox' = Tail(outbox)
  /\ UNCHANGED <<pc, handled, until, schedVars>>

ApplyExecute ==
  /\ Applies("EXECUTE_JOB")
  /\ status' = [status EXCEPT ![Decision.job] = "running"]
  /\ placed' = [placed EXCEPT ![Decision.job] = Decision.machines]
  /\ deadline' = [deadline EXCEPT ![Decision.job] =
                    clock + walltime[Decision.job]]
  /\ UNCHANGED <<inbox, clock, size, walltime, kills, platformVars, calls,
                 submitting, budget, registered, ends>>

ApplyReject ==
  /\ Applies("REJECT_JOB")
  /\ status' = [status EXCEPT ![Decision.job] = "rejected"]
  /\ UNCHANGED <<inbox, clock, size, walltime, placed, deadline, kills,
                 platformVars, calls, submitting, budget, registered, ends>>

ApplyKill ==
  /\ Applies("KILL_JOB")
  /\ kills' = Append(kills, Decision.job)
  /\ UNCHANGED <<inbox, clock, status, size, walltime, placed, deadline,
                 platformVars, calls, submitting, budget, registered, ends>>

\* Changing the speed of a machine takes no time, sleeping and waking do.
ApplySetResourceState ==
  /\ Applies("SET_RESOURCE_STATE")
  /\ LET ms == Decision.machines
         p  == Decision.state
         atOnce == p # "asleep" /\ \A m \in ms : pstate[m] # "asleep"
     IN
       /\ target' = [m \in Machines |-> IF m \in ms THEN p ELSE target[m]]
       /\ IF atOnce
            THEN /\ pstate' = [m \in Machines |->
                                 IF m \in ms THEN p ELSE pstate[m]]
                 /\ inbox' = Append(inbox,
                               MachineEvent("RESOURCE_STATE_CHANGED", ms, p))
                 /\ UNCHANGED switchBy
            ELSE /\ switchBy' = [m \in Machines |->
                                   IF m \in ms THEN clock + SwitchTime
                                               ELSE switchBy[m]]
                 /\ UNCHANGED <<pstate, inbox>>
  /\ UNCHANGED <<clock, jobVars, down, calls, submitting, budget, registered,
                 ends>>

ApplyCallMeLater ==
  /\ Applies("CALL_ME_LATER")
  /\ calls' = Append(calls, Decision.when)
  /\ UNCHANGED <<inbox, clock, jobVars, platformVars, submitting, budget,
                 registered, ends>>

\* The energy consumed so far grows with the date.
ApplyQueryConsumedEnergy ==
  /\ Applies("QUERY")
  /\ inbox' = Append(inbox, AnswerEvent(clock))
  /\ UNCHANGED <<clock, jobVars, platformVars, calls, submitting, budget,
                 registered, ends>>

\* A job registered by the scheduler is known to Batsim; if submissions are
\* acknowledged it comes back as a submitted job.
ApplyRegisterJob ==
  /\ Applies("REGISTER_JOB")
  /\ LET j == Decision.job IN
       /\ status' = [status EXCEPT ![j] = "waiting"]
       /\ inbox' = IF registered.acknowledged
                     THEN Append(inbox, JobEvent("JOB_SUBMITTED", <<j>>))
                     ELSE inbox
       /\ registered' = IF Decision.inlined
                          THEN [registered EXCEPT !.profiles =
                                  @ \cup {Decision.profile}]
                          ELSE registered
  /\ UNCHANGED <<clock, size, walltime, placed, deadline, kills, platformVars,
                 calls, submitting, budget, ends>>

ApplyRegisterProfile ==
  /\ Applies("REGISTER_PROFILE")
  /\ registered' = [registered EXCEPT !.profiles = @ \cup {Decision.profile}]
  /\ UNCHANGED <<inbox, clock, jobVars, platformVars, calls, submitting, budget,
                 ends>>

ApplyFinishedSubmitting ==
  /\ Applies("NOTIFY")
  /\ registered' = [registered EXCEPT !.finished = @ + 1]
  /\ UNCHANGED <<inbox, clock, jobVars, platformVars, calls, submitting, budget,
                 ends>>

\* Metadata and answers to queries change nothing on the platform.
ApplyOther ==
  /\ \E type \in {"SET_JOB_METADATA", "ANSWER"} : Applies(type)
  /\ UNCHANGED <<inbox, batsimVars>>

-------------------------------------------------------------------------------
(* Time, and the alternation with the scheduler.                           *)

AnySwitching == \E m \in Machines : pstate[m] # target[m]

SomethingToCome ==
  \/ outbox # <<>> \/ inbox # <<>> \/ calls # <<>>
  \/ \E j \in Jobs : status[j] = "running"
  \/ AnySwitching
  \/ submitting

\* Nothing that has to be done at the current date remains to be done.
Tick ==
  /\ AtWork
  /\ SomethingToCome
  /\ outbox # <<>> => Decision.date > clock
  /\ inbox # <<>> => until > clock
  /\ kills = <<>>
  /\ \A k \in DOMAIN calls : calls[k] > clock
  /\ \A j \in Jobs : status[j] = "running" => deadline[j] > clock
  /\ \A m \in Machines : pstate[m] # target[m] => switchBy[m] > clock
  /\ submitting => clock < LastSubmission
  /\ clock' = clock + 1
  /\ UNCHANGED <<jobVars, platformVars, calls, submitting, budget, registered,
                 ends, socketVars, schedVars>>

\* The message is sent: it holds every event since the last one, and its
\* date, "now", is the current one.
Send ==
  /\ AtWork
  /\ inbox # <<>> /\ outbox = <<>> /\ clock >= until
  /\ pc' = "events"
  /\ UNCHANGED <<batsimVars, inbox, handled, outbox, until, schedVars>>

\* Every job is over and nothing is left to wait for.
EndSimulation ==
  /\ AtWork /\ ~ends
  /\ inbox = <<>> /\ outbox = <<>> /\ clock >= until
  /\ kills = <<>> /\ calls = <<>> /\ ~AnySwitching /\ ~submitting
  /\ registered.expected => registered.finished > 0
  /\ \A j \in Jobs :
       status[j] \in {"future", "potential", "done", "rejected"}
  /\ ends' = TRUE
  /\ inbox' = <<Event("SIMULATION_ENDS")>>
  /\ UNCHANGED <<clock, jobVars, platformVars, calls, submitting, budget,
                 registered, pc, handled, outbox, until, schedVars>>

-------------------------------------------------------------------------------
(* batsched handles a message: one event after the other.                  *)

Handling == pc = "events" /\ handled < Len(inbox)
Current  == inbox[handled + 1]

\* The next event is of this kind; it is done with after this step.
Receives(type) ==
  /\ Handling
  /\ Current.type = type
  /\ handled' = handled + 1
  /\ pc' = IF handled + 1 = Len(inbox) THEN "decide" ELSE "events"
  /\ UNCHANGED <<batsimVars, inbox, until, configVars>>

\* Handlers that only fill an accumulator.
Accumulates(acc) ==
  /\ recent' = acc
  /\ UNCHANGED <<outbox, lastDate, noMoreStatic, algoVars>>

ReceiveSimulationBegins ==
  /\ Receives("SIMULATION_BEGINS")
  /\ available' = Machines
  /\ UNCHANGED <<outbox, loopVars, queue, allocations, own>>

ReceiveJobSubmitted ==
  /\ Receives("JOB_SUBMITTED")
  /\ Accumulates([recent EXCEPT !.released = @ \o Current.jobs])

ReceiveJobCompleted ==
  /\ Receives("JOB_COMPLETED")
  /\ Accumulates([recent EXCEPT !.ended = @ \o Current.jobs])

ReceiveJobKilled ==
  /\ Receives("JOB_KILLED")
  /\ Accumulates([recent EXCEPT !.killed = @ \o Current.jobs])

ReceiveResourceStateChanged ==
  /\ Receives("RESOURCE_STATE_CHANGED")
  /\ Accumulates([recent EXCEPT !.switched[Current.state] =
                    @ \cup Current.machines])

ReceiveAnswer ==
  /\ Receives("ANSWER")
  /\ Accumulates([recent EXCEPT !.consumed = Current.consumed])

ReceiveQuery ==
  /\ Receives("QUERY")
  /\ Accumulates([recent EXCEPT !.queries = @ \o Current.jobs])

ReceiveAvailable ==
  /\ Receives("AVAILABLE")
  /\ Accumulates([recent EXCEPT !.backAgain = @ \cup Current.machines])

ReceiveUnavailable ==
  /\ Receives("UNAVAILABLE")
  /\ Accumulates([recent EXCEPT !.gone = @ \cup Current.machines])

ReceiveNoMoreStaticJob ==
  /\ Receives("NO_MORE_STATIC_JOB")
  /\ noMoreStatic' = TRUE
  /\ UNCHANGED <<outbox, lastDate, recent, algoVars>>

ReceiveSimulationEnds ==
  /\ Receives("SIMULATION_ENDS")
  /\ UNCHANGED <<outbox, loopVars, algoVars>>

-------------------------------------------------------------------------------
(* make_decisions and the reply.                                           *)

Deciding == pc = "decide"

\* current_date after the last event, given to make_decisions in update_info;
\* the date of the message itself is the clock.
EventDate == inbox[Len(inbox)].date

\* Decisions are appended to the message being written.
Emit(decisions) ==
  /\ outbox' = outbox \o decisions
  /\ lastDate' = DateAfter(decisions, lastDate)

\* Mutant: the reply is dated like the message it answers.
WriteReply_MessageDate ==
  /\ until' = clock
  /\ pc' = IF ends THEN "over" ELSE "batsim"
  /\ inbox' = <<>> /\ handled' = 0
  /\ UNCHANGED <<batsimVars, configVars, noMoreStatic>>

\* The message is sent with the date of its last decision, or the date of
\* the message it answers if that is later; the loop reads the next one
\* unless the simulation is over.
WriteReply ==
  /\ until' = Max({clock, lastDate'})
  /\ pc' = IF ends THEN "over" ELSE "batsim"
  /\ inbox' = <<>> /\ handled' = 0
  /\ UNCHANGED <<batsimVars, configVars, noMoreStatic>>

\* The end of every make_decisions, with the decisions it makes.
Reply(decisions) ==
  /\ Emit(decisions)
  /\ recent' = NothingRecent
  /\ WriteReply

\* Mutant: make_decisions is skipped if a requested call is among the events.
SingleNop_AmongOthers ==
  \E k \in DOMAIN inbox : inbox[k].type = "REQUESTED_CALL"

\* make_decisions is not called if the only event is a requested call and
\* the command line says so; neither are the accumulators cleared.
SingleNop == Len(inbox) = 1 /\ inbox[1].type = "REQUESTED_CALL"

CallsMakeDecisions == nopCalls \/ ~SingleNop

SkipDecisions ==
  /\ Deciding /\ ~CallsMakeDecisions
  /\ UNCHANGED <<outbox, lastDate, recent, algoVars>>
  /\ WriteReply

\* What most algorithms do first: a released job that asks for more machines
\* than there are is rejected, the others join the queue, which is sorted.
IsValid(j) == size[j] <= NbMachines

Rejections(date) ==
  LET invalid == Selection(recent.released, {k \in DOMAIN recent.released :
                                               ~IsValid(recent.released[k])})
  IN  [k \in DOMAIN invalid |-> RejectJob(invalid[k], date)]

QueueWithReleased ==
  AppendJobs(queue, Selection(recent.released, {k \in DOMAIN recent.released :
                                                  IsValid(recent.released[k])}),
             EventDate)

SortedQueue == SortQueue(order, size, walltime, EventDate, QueueWithReleased)

\* Mutant: the allocation of an ended job is not erased.
WithoutEnded_NotErased == allocations

\* The machines of the jobs that ended; an ended job that is no longer in
\* current_allocations has none.
EndedJobs     == ToSet(recent.ended)
FreedMachines == available \cup UNION {allocations[j] : j \in EndedJobs}
WithoutEnded  == [j \in Jobs |-> IF j \in EndedJobs THEN {} ELSE allocations[j]]
===============================================================================
