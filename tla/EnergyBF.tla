-------------------------------- MODULE EnergyBF --------------------------------
(***************************************************************************)
(* Energy-aware backfilling (src/src/algo/energy_bf.cpp): machines are     *)
(* switched off as soon as nothing is planned for them any more, and woken *)
(* up when a job does not fit on those that are awake.                     *)
(*                                                                         *)
(* _schedule holds the running jobs and, for the machines that are not     *)
(* awake, "fake jobs" of one machine: the switch that is under way, the    *)
(* ensured sleep, which must not be interrupted, and the potential sleep,  *)
(* which lasts until Infinity unless the machine is needed.  Every call of *)
(* make_decisions plans the whole future on a copy of _schedule; only what *)
(* the copy says of the first slice is carried out.                        *)
(*                                                                         *)
(* The platform is the one of module Batsim with machines that change      *)
(* their state and calls that the scheduler has requested.                 *)
(*                                                                         *)
(* pc names the part of the message handling that is at work:              *)
(*   "events"    the handlers of the events of the message                 *)
(*   "ended"     the loop over _jobs_ended_recently                        *)
(*   "released"  the loop over _jobs_released_recently                     *)
(*   "plan"      put_jobs_into_schedule and the sedation of machines       *)
(*   "switch"    make_decisions_of_schedule, the fake jobs                 *)
(*   "start"     make_decisions_of_schedule, the real jobs and the reply   *)
(***************************************************************************)
EXTENDS Batsim, Schedule, Queue

CONSTANTS
  SwitchOnTime,     \* switch_on_seconds
  SwitchOffTime,    \* switch_off_seconds
  EnsuredSleep,     \* minimum_sleeping_time, 0 if switching costs nothing
  ToAwaken(_, _, _),\* select_resources_to_awaken_to_make_job_fit
  Order             \* queue_order

ASSUME EnergyAssumption ==
  /\ {SwitchOnTime, SwitchOffTime} \subseteq Nat \ {0}
  /\ EnsuredSleep \in Nat
  /\ Order \in QueueOrders
  /\ NoWalltime \notin Walltimes

\* Batsim's side.
VARIABLES
  pstate,         \* state of every machine
  switchEnd,      \* date at which its last switch ends, or has ended
  calls,          \* dates of the calls requested (CALL_ME_LATER)
  changes,        \* RESOURCE_STATE_CHANGED events to be told or handled
  called,         \* number of REQUESTED_CALL events to be told
  begun           \* SIMULATION_BEGINS has been told

\* The scheduler's side.
VARIABLES
  profile,        \* _schedule
  plan,           \* current_schedule, <<>> outside make_decisions
  queue,          \* _queue
  awake,          \* _awake_machines
  asleep,         \* _asleep_machines
  wakable,        \* _wakable_asleep_machines
  nonWakable,     \* _non_wakable_asleep_machines
  switchingOn,    \* _switching_on_machines
  switchingOff,   \* _switching_off_machines
  nbCompleted,    \* _nb_jobs_completed
  nbCalls,        \* _nb_call_me_later_running
  didSomething    \* did_something

powerVars   == <<pstate, switchEnd, calls, changes, called, begun>>
machineSets == <<awake, asleep, wakable, nonWakable, switchingOn, switchingOff>>
schedVars   == <<profile, plan, queue, machineSets, nbCompleted, nbCalls,
                 didSomething>>
vars        == <<batsimVars, powerVars, schedVars>>

-------------------------------------------------------------------------------
(* The fake jobs of a machine (MachineInformation::create_jobs).           *)

SwitchOnJob(m)       == NbJobs + 1 + 4 * m
SwitchOffJob(m)      == NbJobs + 2 + 4 * m
EnsuredSleepJob(m)   == NbJobs + 3 + 4 * m
PotentialSleepJob(m) == NbJobs + 4 + 4 * m

IsFakeJob(j) == j > NbJobs

SwitchOnWalltime  == SwitchOnTime + RjmsDelay

SwitchOffWalltime == SwitchOffTime + RjmsDelay

\* number of resources of any job.
Size(j) == IF IsFakeJob(j) THEN 1 ELSE res[j]

\* Machines of a slice with a fake job of the given kind.
MachinesWith(slice, Kind(_)) == {m \in Machines : Kind(m) \in DOMAIN slice.jobs}

PotentiallySleeping(slice) == MachinesWith(slice, PotentialSleepJob)
EnsuredSleeping(slice)     == MachinesWith(slice, EnsuredSleepJob)
SleepingMachines(slice)    ==
  PotentiallySleeping(slice) \cup EnsuredSleeping(slice)

InOrder(S) == SetToSortSeq(S, <)

\* A fake job of machine m is put at its first place after a date.
InsertFake(p, j, m, w, date) == AddJobAfterTime(p, j, 1, w, {m}, date)

RemoveFake(p, j) == RemoveJobIfExists(p, j, 1)

-------------------------------------------------------------------------------
(* Putting machines to sleep and waking them up, in any schedule.          *)

\* Mutant: the switch counts as a part of the sleep.
SedateWithoutSwitch_FromSwitch(p, m, date) ==
  LET w == EnsuredSleep - SwitchOffTime
  IN  InsertFake(InsertFake(p, EnsuredSleepJob(m), m, w, date),
                 PotentialSleepJob(m), m, Infinity - (date + w), date)

\* sedate_machine_without_switch.
SedateWithoutSwitch(p, m, date) ==
  InsertFake(IF EnsuredSleep > 0
             THEN InsertFake(p, EnsuredSleepJob(m), m, EnsuredSleep, date)
             ELSE p,
             PotentialSleepJob(m), m, Infinity - (date + EnsuredSleep), date)

\* sedate_machine: the switch is at the first place from the given slice on.
SedateMachine(p, m, slice) ==
  SedateWithoutSwitch(
    AddJobAfterSlice(p, SwitchOffJob(m), 1, SwitchOffWalltime, {m}, slice),
    m, AllocAfterSlice(p, 1, SwitchOffWalltime, {m}, slice).begin + SwitchOffWalltime)

SedateAll(p, M, slice) ==
  FoldLeft(LAMBDA q, m : SedateMachine(q, m, slice), p, InOrder(M))

\* Machines that compute or switch on in the slice.
BusyMachines(slice) ==
  MachinesWith(slice, SwitchOnJob)
    \cup UNION {slice.jobs[j] : j \in {k \in DOMAIN slice.jobs : ~IsFakeJob(k)}}

\* The machines left that are used in slice i of the schedule s.p are sedated
\* after it; those left in the end are sedated in the first slice.
SedateUsed(s, i) ==
  LET busy == BusyMachines(s.p[i]) \cap s.left
  IN  [p |-> SedateAll(s.p, busy, i), left |-> s.left \ busy]

SedateRest(s) == SedateAll(s.p, s.left, 1)

\* sedate_machines_at_the_furthest_moment: from the future to the past, the
\* machines of M that nothing follows are switched off after their last use;
\* those that are not used at all are switched off in the first slice.
SedateAtTheFurthestMoment(p, M) ==
  SedateRest(FoldLeft(SedateUsed,
                      [p |-> p, left |-> M \cap p[Len(p)].available],
                      [k \in 1 .. Len(p) - 1 |-> Len(p) - k]))

\* find_earliest_moment_to_awaken_machines: the beginning of the common
\* potential sleep of the machines.
EarliestMomentToAwaken(p, M) ==
  LET notYet == {i \in 1 .. Len(p) - 1 : ~(M \subseteq PotentiallySleeping(p[i]))}
  IN  IF notYet = {} THEN p[1].begin ELSE p[Max(notYet)].end

\* The potential sleep that is put back lasts until the date.
SleepUntil(p, m, since, date) ==
  IF date > since
  THEN InsertFake(p, PotentialSleepJob(m), m, date - since, since) ELSE p

\* awaken_machine: the potential sleep is cut short.
AwakenMachine(p, m, date) ==
  LET sleep == PotentialSleepJob(m)
      since == p[LastOccurrence(p, sleep)].begin
  IN  InsertFake(
        SleepUntil(RemoveJobLastOccurrence(p, sleep, 1), m, since, date),
        SwitchOnJob(m), m, SwitchOnWalltime, since)

\* One iteration of put_jobs_into_schedule: a job that does not fit, even at
\* the infinite horizon, has machines woken up for it.
PutJob(p, j) ==
  LET last   == p[Len(p)]
      M      == ToAwaken(last.available, PotentiallySleeping(last), res[j])
      date   == EarliestMomentToAwaken(p, M)
      Awaken(q, m) == AwakenMachine(q, m, date)
  IN  IF Anchors(p, res[j], walltime[j]) # {}
      THEN AddJobFirstFit(p, j, res[j], walltime[j])
      ELSE AddJobAfterTime(FoldLeft(Awaken, p, InOrder(M)),
                           j, res[j], walltime[j], Machines, date)

\* put_jobs_into_schedule.
PutJobs(p) == FoldLeft(LAMBDA q, e : PutJob(q, e.job), p, queue)

-------------------------------------------------------------------------------
\* Everything is awake; the message that starts the simulation has no event
\* for the algorithm, but make_decisions is called.
Init ==
  /\ BatsimInit
  /\ pstate = [m \in Machines |-> "on"]
  /\ switchEnd = [m \in Machines |-> 0]
  /\ calls = <<>>
  /\ changes = <<>>
  /\ called = 0
  /\ begun = FALSE
  /\ profile = NewSchedule(Machines, 0)
  /\ plan = <<>>
  /\ queue = <<>>
  /\ awake = Machines
  /\ asleep = {} /\ wakable = {} /\ nonWakable = {}
  /\ switchingOn = {} /\ switchingOff = {}
  /\ nbCompleted = 0
  /\ nbCalls = 0
  /\ didSomething = FALSE

-------------------------------------------------------------------------------
(* Batsim's own steps.                                                     *)

Switching(m) == pstate[m] \in {"switching on", "switching off"}

NothingToTell == begun /\ ended = <<>> /\ released = <<>> /\ changes = <<>> /\ called = 0

\* Machines finish the switch they have been asked for, together or one after
\* the other.
FinishSwitch(M) ==
  /\ pc = "batsim"
  /\ M # {}
  /\ \A m \in M : Switching(m) /\ switchEnd[m] = now
  /\ \A m, k \in M : pstate[m] = pstate[k]
  /\ LET on == \A m \in M : pstate[m] = "switching on" IN
       /\ pstate' = [m \in Machines |->
                       IF m \notin M THEN pstate[m] ELSE IF on THEN "on" ELSE "off"]
       /\ changes' = Append(changes, [machines |-> M, on |-> on])
  /\ UNCHANGED <<pc, worldVars, jobVars, ended, released, switchEnd, calls,
                 called, begun>>

\* The date of a requested call has come.
Call ==
  /\ pc = "batsim"
  /\ \E i \in DOMAIN calls : calls[i] <= now /\ calls' = RemoveAt(calls, i)
  /\ called' = called + 1
  /\ UNCHANGED <<pc, worldVars, jobVars, ended, released, pstate, switchEnd,
                 changes, begun>>

\* Batsim has nothing to wait for any more: it stops.
SomethingElseToCome ==
  \/ SomethingToCome
  \/ \E m \in Machines : Switching(m)
  \/ calls # <<>>

EnergyTick ==
  /\ pc = "batsim"
  /\ NothingToTell
  /\ SomethingElseToCome
  /\ \A j \in Jobs : status[j] = "running" => now < deadline[j]
  /\ \A m \in Machines : Switching(m) => now < switchEnd[m]
  /\ \A i \in DOMAIN calls : now < calls[i]
  /\ now' = now + 1
  /\ UNCHANGED <<pc, status, jobVars, placed, deadline, ended, released, powerVars>>

Platform ==
  /\ \/ \E j \in Jobs, r \in Requests, w \in Walltimes :
          Submit(j, r, w) /\ UNCHANGED powerVars
     \/ \E j \in Jobs : Complete(j) /\ UNCHANGED powerVars
     \/ \E M \in SUBSET Machines : FinishSwitch(M)
     \/ Call
     \/ EnergyTick
  /\ UNCHANGED schedVars

-------------------------------------------------------------------------------
(* The handlers of the events of a message.                                *)

\* A message is taken in: on_requested_call for every call it tells.
Receive ==
  /\ pc = "batsim"
  /\ ~NothingToTell
  /\ pc' = "events"
  /\ begun' = TRUE
  /\ nbCalls' = nbCalls - called
  /\ called' = 0
  /\ UNCHANGED <<worldVars, jobVars, ended, released, pstate, switchEnd, calls,
                 changes, profile, plan, queue, machineSets, nbCompleted,
                 didSomething>>

\* on_machine_state_changed, machines switched on.
HandleSwitchedOn ==
  LET M == Head(changes).machines IN
  /\ pc = "events"
  /\ changes # <<>> /\ Head(changes).on
  /\ profile' = FoldLeft(LAMBDA p, m : RemoveFake(p, SwitchOnJob(m)),
                         profile, InOrder(M))
  /\ switchingOn' = switchingOn \ M
  /\ awake' = awake \cup M
  /\ changes' = Tail(changes)
  /\ UNCHANGED <<pc, worldVars, jobVars, ended, released, pstate, switchEnd,
                 calls, called, begun, plan, queue, asleep, wakable, nonWakable,
                 switchingOff, nbCompleted, nbCalls, didSomething>>

\* Mutant: the ensured sleep stays where it was planned.
TranslateSleep_NotMoved(p, m) == p

\* The sleep planned after the switch begins now.
TranslateSleep(p, m) ==
  SedateWithoutSwitch(
    RemoveFake(RemoveFake(p, EnsuredSleepJob(m)), PotentialSleepJob(m)), m, now)

\* on_machine_state_changed, machines switched off.
HandleSwitchedOff ==
  LET M == Head(changes).machines
      p == FoldLeft(LAMBDA q, m : RemoveFake(q, SwitchOffJob(m)),
                    profile, InOrder(M))
      ensured == {m \in M : ContainsJob(p, EnsuredSleepJob(m))}
  IN
  /\ pc = "events"
  /\ changes # <<>> /\ ~Head(changes).on
  /\ profile' = FoldLeft(TranslateSleep, p, InOrder(M))
  /\ switchingOff' = switchingOff \ M
  /\ asleep' = asleep \cup M
  /\ nonWakable' = nonWakable \cup ensured
  /\ wakable' = wakable \cup (M \ ensured)
  /\ changes' = Tail(changes)
  /\ UNCHANGED <<pc, worldVars, jobVars, ended, released, pstate, switchEnd,
                 calls, called, begun, plan, queue, awake, switchingOn,
                 nbCompleted, nbCalls, didSomething>>

EventsHandled ==
  /\ pc = "events"
  /\ changes = <<>>
  /\ pc' = "ended"
  /\ UNCHANGED <<worldVars, jobVars, ended, released, powerVars, schedVars>>

-------------------------------------------------------------------------------
(* make_decisions.                                                         *)

\* Mutant: only the first of the jobs that ended is removed.
RemoveEnded_FirstOnly ==
  /\ pc = "ended"
  /\ profile' = IF ended = <<>> THEN profile
                ELSE RemoveJob(profile, Head(ended), res[Head(ended)])
  /\ nbCompleted' = nbCompleted + Len(ended)
  /\ ended' = <<>>
  /\ pc' = "released"
  /\ UNCHANGED <<worldVars, jobVars, released, powerVars, plan, queue,
                 machineSets, nbCalls, didSomething>>

RemoveEnded ==
  /\ pc = "ended"
  /\ profile' = FoldLeft(LAMBDA p, j : RemoveJob(p, j, res[j]), profile, ended)
  /\ nbCompleted' = nbCompleted + Len(ended)
  /\ ended' = <<>>
  /\ pc' = "released"
  /\ UNCHANGED <<worldVars, jobVars, released, powerVars, plan, queue,
                 machineSets, nbCalls, didSomething>>

IsValid(j) == res[j] <= NbMachines

RejectReleased ==
  /\ pc = "released"
  /\ released # <<>>
  /\ ~IsValid(Head(released))
  /\ RejectJob(Head(released))
  /\ nbCompleted' = nbCompleted + 1
  /\ released' = Tail(released)
  /\ UNCHANGED <<pc, jobVars, ended, powerVars, profile, plan, queue,
                 machineSets, nbCalls, didSomething>>

QueueReleased ==
  /\ pc = "released"
  /\ released # <<>>
  /\ IsValid(Head(released))
  /\ queue' = AppendJobs(queue, <<Head(released)>>, now)
  /\ released' = Tail(released)
  /\ UNCHANGED <<pc, worldVars, jobVars, ended, powerVars, profile, plan,
                 machineSets, nbCompleted, nbCalls, didSomething>>

\* The jobs of a slice and its switches, without the sleeps.
AwakeJobs(slice) ==
  {j \in DOMAIN slice.jobs :
     \A m \in Machines : j \notin {EnsuredSleepJob(m), PotentialSleepJob(m)}}

PresentSlice(p) == Min({i \in DOMAIN p : now < p[i].end})

\* What update_first_slice_taking_sleep_jobs_into_account asserts of the slices
\* of p that have ended, and of the present one if there are such slices, M being
\* the machines asleep.
EndsQuietly(p, M) ==
  LET present == PresentSlice(p)
  IN  /\ \A i \in 1 .. present - 1 :
           /\ AwakeJobs(p[i]) = AwakeJobs(p[1])
           /\ SleepingMachines(p[i]) = SleepingMachines(p[1])
      /\ present > 1 => SleepingMachines(p[present]) = M

\* update_first_slice_taking_sleep_jobs_into_account, and the sort of the
\* queue: when slices have ended, which machines can be woken up is read
\* from the new first slice.
UpdatePresent ==
  LET p == UpdateFirstSliceRemoving(profile, now) IN
  /\ pc = "released"
  /\ released = <<>>
  /\ profile' = p
  /\ IF now >= profile[1].end
       THEN /\ wakable' = PotentiallySleeping(p[1])
            /\ nonWakable' = EnsuredSleeping(p[1])
       ELSE UNCHANGED <<wakable, nonWakable>>
  /\ queue' = SortQueue(Order, res, walltime, now, queue)
  /\ pc' = "plan"
  /\ UNCHANGED <<worldVars, jobVars, ended, released, powerVars, plan, awake,
                 asleep, switchingOn, switchingOff, nbCompleted, nbCalls,
                 didSomething>>

\* The future is planned on a copy of the schedule.
Plan ==
  /\ pc = "plan"
  /\ plan' = SedateAtTheFurthestMoment(PutJobs(profile), awake)
  /\ pc' = "switch"
  /\ UNCHANGED <<worldVars, jobVars, ended, released, powerVars, profile, queue,
                 machineSets, nbCompleted, nbCalls, didSomething>>

\* make_decisions_of_schedule, fake jobs: switches that are in the first slice
\* of the plan q and not in _schedule; _schedule with these switches.
NewSwitches(q, p, Kind(_)) ==
  {m \in MachinesWith(q[1], Kind) : ~ContainsJob(p, Kind(m))}

WithSwitches(p, on, off) ==
  LET SwitchOn(r, m) ==
        AddJobAfterSlice(
          RemoveFake(RemoveFake(r, EnsuredSleepJob(m)), PotentialSleepJob(m)),
          SwitchOnJob(m), 1, SwitchOnWalltime, {m}, 1)
  IN  FoldLeft(SwitchOn, SedateAll(p, off, 1), InOrder(on))

SwitchMachines ==
  LET off == NewSwitches(plan, profile, SwitchOffJob)
      on  == NewSwitches(plan, profile, SwitchOnJob)
  IN
  /\ pc = "switch"
  /\ profile' = WithSwitches(profile, on, off)
  /\ asleep' = asleep \ on
  /\ wakable' = wakable \ on
  /\ switchingOn' = switchingOn \cup on
  /\ awake' = awake \ off
  /\ switchingOff' = switchingOff \cup off
  /\ pstate' = [m \in Machines |-> IF m \in on THEN "switching on"
                                   ELSE IF m \in off THEN "switching off"
                                   ELSE pstate[m]]
  /\ switchEnd' = [m \in Machines |-> IF m \in on THEN now + SwitchOnTime
                                      ELSE IF m \in off THEN now + SwitchOffTime
                                      ELSE switchEnd[m]]
  /\ didSomething' = (on \cup off # {})
  /\ pc' = "start"
  /\ UNCHANGED <<worldVars, jobVars, ended, released, calls, changes, called,
                 begun, plan, queue, nonWakable, nbCompleted, nbCalls>>

JobsToStart == DOMAIN plan[1].jobs \cap JobsOf(queue)

\* make_decisions_of_schedule, real jobs: a job of the queue that the plan puts
\* in the first slice is started there.
StartJob ==
  LET j == Min(JobsToStart)
      machines == plan[1].jobs[j]
  IN
  /\ pc = "start"
  /\ JobsToStart # {}
  /\ profile' = AddJobAfterSlice(profile, j, res[j], walltime[j], machines, 1)
  /\ ExecuteJob(j, machines)
  /\ queue' = RemoveFromQueue(queue, j)
  /\ didSomething' = TRUE
  /\ UNCHANGED <<pc, jobVars, ended, released, powerVars, plan, machineSets,
                 nbCompleted, nbCalls>>

\* _workload->nb_jobs(): the jobs submitted so far.
NbJobsInWorkload == Cardinality({j \in Jobs : status[j] # "future"})

\* Mutant: a call is requested only if no job has been served yet.
NeedsCall_OnlyAtFirst == ~didSomething /\ nbCompleted = 0 /\ nbCalls = 0

\* Nothing was decided although jobs are left: Batsim must be told to call.
NeedsCall == ~didSomething /\ nbCompleted < NbJobsInWorkload /\ nbCalls = 0

Reply ==
  /\ pc = "start"
  /\ JobsToStart = {}
  /\ IF NeedsCall
       THEN /\ calls' = Append(calls, profile[1].end + 1)
            /\ nbCalls' = nbCalls + 1
       ELSE UNCHANGED <<calls, nbCalls>>
  /\ plan' = <<>>
  /\ didSomething' = FALSE
  /\ pc' = "batsim"
  /\ UNCHANGED <<worldVars, jobVars, ended, released, pstate, switchEnd, changes,
                 called, begun, profile, queue, machineSets, nbCompleted>>

\* make_decisions, besides Plan, which a descendant replaces.
DecideButPlan ==
  \/ RemoveEnded
  \/ RejectReleased
  \/ QueueReleased
  \/ UpdatePresent
  \/ SwitchMachines
  \/ StartJob
  \/ Reply

-------------------------------------------------------------------------------
\* Batsim stops when nothing is left to come; BatsimNeverDeadlocks tells
\* whether it should.
Terminated ==
  /\ pc = "batsim"
  /\ NothingToTell
  /\ ~SomethingElseToCome
  /\ UNCHANGED vars

StepButPlan ==
  \/ Platform
  \/ Receive
  \/ HandleSwitchedOn
  \/ HandleSwitchedOff
  \/ EventsHandled
  \/ DecideButPlan
  \/ Terminated

Next == Plan \/ StepButPlan

Spec == Init /\ [][Next]_vars

-------------------------------------------------------------------------------
(* Properties.                                                             *)

\* Machines whose last change of state is still to be told.
Untold == UNION {changes[i].machines : i \in DOMAIN changes}

Told(state) == {m \in Machines : pstate[m] = state} \ Untold

RealJobs(slice) == {j \in DOMAIN slice.jobs : ~IsFakeJob(j)}

\* Between two messages the machine sets partition the platform and say what
\* the machines do, as far as it has been told; a machine has the fake jobs in
\* _schedule that go with its set, the sleeping ones until Infinity; and the
\* requested calls are counted.
MachineSetsMatchPlatform ==
  pc = "batsim" /\ begun =>
    /\ awake = Told("on")
    /\ asleep = Told("off")
    /\ switchingOn = {m \in Machines : pstate[m] \in {"switching on", "on"}} \ awake
    /\ switchingOff = {m \in Machines : pstate[m] \in {"switching off", "off"}} \ asleep
    /\ wakable = PotentiallySleeping(profile[1])
    /\ nonWakable = EnsuredSleeping(profile[1])
    /\ wakable \cup nonWakable = asleep
    /\ switchingOn = {m \in Machines : ContainsJob(profile, SwitchOnJob(m))}
    /\ switchingOff = {m \in Machines : ContainsJob(profile, SwitchOffJob(m))}
    /\ asleep \cup switchingOff = PotentiallySleeping(profile[Len(profile)])
    /\ nbCalls = Len(calls) + called

\* Between two messages _schedule is a partition of the future in which the
\* running jobs, and no others but those whose end is still to be told, have
\* the machines they run on until after their deadline; and all of these
\* machines are awake.
ScheduleMatchesPlatform ==
  pc = "batsim" =>
    /\ IsProfile(profile, Machines, Size)
    /\ \A j \in Jobs : status[j] = "running" =>
         /\ j \in RealJobs(profile[1])
         /\ profile[1].jobs[j] = placed[j]
         /\ EndOf(profile, j) >= deadline[j] + RjmsDelay
         /\ \A m \in placed[j] : pstate[m] = "on"
    /\ {j \in Jobs : ContainsJob(profile, j)}
         = {j \in Jobs : status[j] = "running"} \cup ToSet(ended)

\* "If slices ended prematurely, they were only related to ensured->potential
\* sleep jobs" (energy_bf.cpp:644): from the slices that have ended to the present
\* one no job and no switch appears or vanishes unnoticed, the machines that
\* sleep are the same in those that have ended, and in the present one they
\* are the machines known to be asleep.
SlicesEndQuietly ==
  pc = "released" /\ released = <<>> =>
    /\ EndsQuietly(profile, asleep)
    /\ AwakeJobs(profile[PresentSlice(profile)]) = AwakeJobs(profile[1])

\* The assertions of update_first_slice_taking_sleep_jobs_into_account alone,
\* without what the comments add; the last of them is about "Invalid schedule update:
\* the asleep machines have changed" (energy_bf.cpp:759).
NoSliceAssertionFails ==
  pc = "released" /\ released = <<>> => EndsQuietly(profile, asleep)

\* A machine that has been switched off sleeps at least for the time that
\* makes it worth while, whatever the jobs that come meanwhile.
SleepIsEnsured ==
  [][\A m \in Machines :
       pstate[m] = "off" /\ pstate'[m] = "switching on" =>
         now >= switchEnd[m] + EnsuredSleep]_pstate

\* "To avoid Batsim's deadlock, we should tell it to wait that we are ready"
\* (energy_bf.cpp:609): as long as a job waits, Batsim has an event to come, be
\* it only a requested call when the machines the job needs are in an ensured
\* sleep, whose end no event tells.  (As time advances in every cycle and the
\* states are finite, every job that waits is served in the end.)
BatsimNeverDeadlocks ==
  pc = "batsim" /\ NothingToTell /\ (\E j \in Jobs : status[j] = "waiting") =>
    SomethingElseToCome
===============================================================================
