---------------------------- MODULE EnergyMonitoring ----------------------------
(***************************************************************************)
(* The descendants of energy_bf that look at the platform periodically:    *)
(*   "inertial"  energy_bf_monitoring_inertial_shutdown.cpp                *)
(*   "idle"      energy_bf_idle_sleeper.cpp                                *)
(*   "subpart"   energy_bf_machine_subpart_sleeper.cpp                     *)
(* over "monitoring" (energy_bf_monitoring_period.cpp): a requested call,  *)
(* rearmed each time, runs on_monitoring_stage, which does nothing in      *)
(* "monitoring" itself, where make_decisions is that of energy_bf. The     *)
(* others share another make_decisions, an EASY backfilling which wakes    *)
(* machines up for the priority job and does not put any to sleep by       *)
(* itself. A switch that cannot be done at once is remembered in toSedate  *)
(* or toAwaken, and tried again later. Sleeping machines are counted       *)
(* twice, by the reason why they sleep. "energy_bf" and "dicho" (modules   *)
(* EnergyBF and EnergyDichotomy) are chosen by the same options, which     *)
(* makes one specification of the family.                                  *)
(*                                                                         *)
(* A handler computes on a record of the members of the algorithm (Books)  *)
(* and is one action.  The liquid load horizon, a sum of areas in floating *)
(* point, is abstracted to the outcome of the two comparisons made with it.*)
(***************************************************************************)
EXTENDS EnergyDichotomy

CONSTANTS
  Configurations, \* variants with their options
  Period,         \* monitoring_period
  Altered(_),     \* inertial_alteration: machines to switch after n of them
  NbMonitored     \* bound: number of jobs submitted to a periodic variant

ASSUME MonitoringAssumption ==
  /\ Period \in Nat \ {0}
  /\ NbMonitored \in 1 .. NbJobs
  /\ \A c \in Configurations :
       /\ c.variant \in {"energy_bf", "dicho", "monitoring", "inertial", "idle",
                        "subpart"}
       /\ c.idleTime \in Nat
       /\ c.letAwake \in 0 .. NbMachines
       /\ {c.onClassical, c.allowFuture} \subseteq BOOLEAN

VARIABLES
  options,        \* the variant, and its options: idle_time_to_sedate,
                  \* fraction_of_machines_to_let_awake (as a number),
                  \* sedate_idle_on_classical_events, allow_future_switches
  noMoreStatic,   \* NO_MORE_STATIC_JOB_TO_SUBMIT: "no", "untold" or "told"
  launched,       \* _monitoring_period_launched
  stopCalls,      \* _stop_sending_call_me_later
  toSedate,       \* _machines_to_sedate
  toAwaken,       \* _machines_to_awaken
  byInertia,      \* _nb_machines_sedated_by_inertia
  forIdle,        \* _nb_machines_sedated_for_being_idle
  idle,           \* _idle_machines
  idleSince,      \* _machines_idle_start_date
  sedatedSince,   \* _machines_sedated_since_last_monitoring_stage_inertia
  awakenedSince,  \* _machines_awakened_since_last_monitoring_stage_inertia
  lastDecision,   \* _last_decision, "none" until the _first_monitoring_stage
  failed          \* assertions of the code that have failed

monitoringVars == <<options, noMoreStatic, launched, stopCalls>>
sleepVars      == <<toSedate, toAwaken, byInertia, forIdle, idle, idleSince,
                    sedatedSince, awakenedSince, lastDecision, failed>>
allVars        == <<vars, monitoringVars, sleepVars>>

MonitoringInit ==
  /\ Init
  /\ options \in Configurations
  /\ noMoreStatic = "no"
  /\ launched = FALSE
  /\ stopCalls = FALSE
  /\ toSedate = {} /\ toAwaken = {}
  /\ byInertia = 0 /\ forIdle = 0
  /\ idle = Machines
  /\ idleSince = [m \in Machines |-> 0]
  /\ sedatedSince = {} /\ awakenedSince = {}
  /\ lastDecision = "none"
  /\ failed = {}

-------------------------------------------------------------------------------
(* The members of the algorithm while a handler is at work, and the jobs   *)
(* that it has started, with their machines.                               *)

Books ==
  [profile |-> profile, plan |-> profile, queue |-> queue,
   awake |-> awake, asleep |-> asleep, wakable |-> wakable,
   nonWakable |-> nonWakable, switchingOn |-> switchingOn,
   switchingOff |-> switchingOff, toSedate |-> toSedate, toAwaken |-> toAwaken,
   byInertia |-> byInertia, forIdle |-> forIdle, idle |-> idle,
   idleSince |-> idleSince, sedatedSince |-> sedatedSince,
   awakenedSince |-> awakenedSince, lastDecision |-> lastDecision,
   started |-> <<>>, failed |-> failed]

\* The handler leaves books b; Batsim executes the jobs and does the switches.
Leave(b) ==
  LET on  == b.switchingOn \ switchingOn
      off == b.switchingOff \ switchingOff
      Started(j) == j \in DOMAIN b.started
  IN
  /\ profile' = b.profile
  /\ queue' = b.queue
  /\ awake' = b.awake
  /\ asleep' = b.asleep
  /\ wakable' = b.wakable
  /\ nonWakable' = b.nonWakable
  /\ switchingOn' = b.switchingOn
  /\ switchingOff' = b.switchingOff
  /\ toSedate' = b.toSedate
  /\ toAwaken' = b.toAwaken
  /\ byInertia' = b.byInertia
  /\ forIdle' = b.forIdle
  /\ idle' = b.idle
  /\ idleSince' = b.idleSince
  /\ sedatedSince' = b.sedatedSince
  /\ awakenedSince' = b.awakenedSince
  /\ lastDecision' = b.lastDecision
  /\ failed' = b.failed
  /\ pstate' = [m \in Machines |-> IF m \in on THEN "switching on"
                                   ELSE IF m \in off THEN "switching off"
                                   ELSE pstate[m]]
  /\ switchEnd' = [m \in Machines |-> IF m \in on THEN now + SwitchOnTime
                                      ELSE IF m \in off THEN now + SwitchOffTime
                                      ELSE switchEnd[m]]
  /\ placed' = [j \in Jobs |-> IF Started(j) THEN b.started[j] ELSE placed[j]]
  /\ deadline' = [j \in Jobs |-> IF Started(j) THEN now + walltime[j] - RjmsDelay
                                 ELSE deadline[j]]

\* An assertion of the code.  The program stops at the first that fails, so what
\* the rest of the handler asserts does not matter any more.
Asserted(b, name, holds) ==
  IF holds \/ b.failed # {} THEN b ELSE [b EXCEPT !.failed = {name}]

-------------------------------------------------------------------------------
(* Parts of the handlers.                                                  *)

\* What is asserted of the slices that have ended (energy_bf.cpp:644 and after).
SlicesAreQuiet == "slices end quietly"

\* update_first_slice_taking_sleep_jobs_into_account; then the plan
\* (_inertial_schedule) is made from _schedule anew.
Present(b) ==
  LET p == UpdateFirstSliceRemoving(b.profile, now)
      ends == now >= b.profile[1].end
  IN  Asserted([b EXCEPT !.profile = p, !.plan = p,
                  !.wakable = IF ends THEN PotentiallySleeping(p[1]) ELSE @,
                  !.nonWakable = IF ends THEN EnsuredSleeping(p[1]) ELSE @],
               SlicesAreQuiet, EndsQuietly(b.profile, b.asleep))

\* awaken_machine_as_soon_as_possible.
AwakenAsap(p, m) ==
  AwakenMachine(p, m, p[LastOccurrence(p, PotentialSleepJob(m))].begin)

\* The date sedate_machines_at_the_furthest_moment returns for one machine.
SedatingDate(p, m) ==
  LET busy == {i \in 1 .. Len(p) - 1 : m \in BusyMachines(p[i])}
  IN  IF m \notin p[Len(p)].available THEN Infinity
      ELSE IF busy = {} THEN p[1].begin
      ELSE p[Max(busy)].end

\* What handle_queued_switches does with a machine to sedate.
SedateOne(p, m) == SedateAtTheFurthestMoment(p, {m})

\* Its second half, p being the plan in which the machines awoken wake up.
SedateQueued(b, p, toSleep, awoken) ==
  [books    |-> [b EXCEPT !.plan = FoldLeft(SedateOne, p, InOrder(toSleep))],
   awakened |-> {m \in awoken : LastOccurrence(b.plan, PotentialSleepJob(m)) = 1},
   sedated  |-> {m \in toSleep : SedatingDate(p, m) = p[1].begin}]

\* handle_queued_switches on the plan: sets sedated and awakened to the machines
\* that are switched in its first slice.
HandleQueuedSwitches(b, toSleep, toWake) ==
  LET sleeping == {m \in toWake : ContainsJob(b.plan, PotentialSleepJob(m))}
  IN  SedateQueued(Asserted(b, "machine to awaken is sleeping", sleeping = toWake),
                   FoldLeft(AwakenAsap, b.plan, InOrder(sleeping)),
                   toSleep, sleeping)

\* make_decisions_of_schedule, without its requested call: what the first
\* slice of the plan says is carried out.
CarryOut(b) ==
  LET off  == NewSwitches(b.plan, b.profile, SwitchOffJob)
      on   == NewSwitches(b.plan, b.profile, SwitchOnJob)
      jobs == DOMAIN b.plan[1].jobs \cap JobsOf(b.queue)
      machines == [j \in jobs |-> b.plan[1].jobs[j]]
      Start(p, j) == AddJobAfterSlice(p, j, res[j], walltime[j], machines[j], 1)
  IN  Asserted([b EXCEPT
          !.profile = FoldLeft(Start, WithSwitches(@, on, off), InOrder(jobs)),
          !.queue = SelectSeq(@, LAMBDA e : e.job \notin jobs),
          !.started = machines @@ @,
          !.asleep = @ \ on,  !.wakable = @ \ on,  !.switchingOn = @ \cup on,
          !.awake = @ \ off,  !.switchingOff = @ \cup off],
        "machines are in the right state",
        on \subseteq b.asleep \cap b.wakable /\ off \subseteq b.awake)

AwakeSoon(b) ==
  (((b.awake \cup b.switchingOn) \ b.switchingOff) \cup b.toAwaken) \ b.toSedate

AsleepSoon(b) ==
  (((b.asleep \cup b.switchingOff) \ b.switchingOn) \cup b.toSedate) \ b.toAwaken

\* "Asleep machines inconsistency", asserted again and again.
CountAsserted(b) ==
  Asserted(b, "asleep machines are counted",
           Cardinality(AsleepSoon(b)) = b.byInertia + b.forIdle)

\* n machines do not sleep any more: they are first those sedated by inertia.
Uncount(b, n) ==
  LET inertial == Min({n, b.byInertia})
  IN  Asserted([b EXCEPT !.byInertia = @ - inertial,
                         !.forIdle = @ - (n - inertial)],
               "asleep machines are counted", b.forIdle >= n - inertial)

\* Mutant: the machines are still counted as sedated.
CancelSwitchesOff_StillCounted(b) == [b EXCEPT !.toSedate = {}]

\* The switches off still to be done are given up (on_monitoring_stage).
CancelSwitchesOff(b) ==
  [Uncount(b, Cardinality(b.toSedate)) EXCEPT !.toSedate = {}]

DisjointAsserted(b) ==
  Asserted(b, "machines to switch are disjoint", b.toAwaken \cap b.toSedate = {})

-------------------------------------------------------------------------------
(* Which machines to switch.                                               *)

Fits(p, j) == Anchors(p, res[j], walltime[j]) # {}
With(p, j) == AddJobFirstFit(p, j, res[j], walltime[j])
StartsNow(p, j) ==
  Fits(p, j) /\ JobAlloc(p, res[j], walltime[j]).startedInFirstSlice

\* Machines that are available in all slices of p that begin in a period.
AvailableFor(p, begin, w) ==
  {m \in Machines : \A i \in DOMAIN p :
     p[i].begin >= begin /\ p[i].begin < begin + w => m \in p[i].available}

\* Where the priority job j would be in the plan p, which does not contain it.
PriorityPlace(j, p) ==
  IF ~Fits(p, j)
  THEN [job |-> j, size |-> res[j], fits |-> FALSE, begin |-> Infinity,
        reserved |-> {}, usable |-> {}]
  ELSE LET alloc == JobAlloc(p, res[j], walltime[j])
       IN  [job |-> j, size |-> res[j], fits |-> TRUE, begin |-> alloc.begin,
            reserved |-> alloc.machines,
            usable |-> AvailableFor(p, alloc.begin, walltime[j])]

NoPriorityJob ==
  [job |-> NullJob, size |-> 0, fits |-> TRUE, begin |-> now, reserved |-> {},
   usable |-> {}]

\* Mutant: the priority job is not looked for.
PriorityJob_NotFound(b) == NoPriorityJob

\* What compute_priority_job_and_related_stuff finds out of the first job of
\* the queue: its size, whether it fits without awakenings and when, the machines
\* it would get, and those it could be given in that period.
PriorityJob(b) ==
  LET j == b.queue[1].job
  IN  IF b.queue = <<>>
      THEN NoPriorityJob
      ELSE PriorityPlace(j, RemoveJobIfExists(b.plan, j, res[j]))

\* select_first_machines_to_sedate: from the present on, as they get free;
\* of those the priority job could use, only as many as it can spare.
SelectToSedate(p, n, sedatable, priority) ==
  LET stealable == sedatable \cap priority.usable
      nbStealable == Cardinality(stealable) - priority.size
      More(s, slice) ==
        LET free     == (slice.available \cap sedatable) \ s.chosen
            annoying == free \cap (stealable \ s.stolen)
            stolen   == LeftMost(annoying,
                                 Min({nbStealable - Cardinality(s.stolen),
                                      n - Cardinality(s.chosen)}))
            left     == n - Cardinality(s.chosen \cup stolen)
        IN  [stolen |-> s.stolen \cup stolen,
             chosen |-> s.chosen \cup stolen \cup LeftMost(free \ annoying, left)]
  IN  FoldLeft(More, [chosen |-> {}, stolen |-> {}], p).chosen

\* select_first_machines_to_awaken: those that can be woken up first.
SelectToAwaken(p, n, awakable) ==
  LET More(chosen, slice) ==
        chosen \cup LeftMost((PotentiallySleeping(slice) \cap awakable) \ chosen,
                            n - Cardinality(chosen))
  IN  FoldLeft(More, {}, p)

\* EnergyBackfillingIdleSleeper::update_idle_states.
UpdateIdleStates(b) ==
  LET free == b.plan[1].available
  IN  [b EXCEPT !.idle = free,
                !.idleSince = [m \in Machines |->
                                 IF m \in free \ b.idle THEN now
                                 ELSE IF m \in b.idle \ free THEN Infinity
                                 ELSE @[m]]]

\* select_idle_machines_to_sedate: as many as the priority job does not need.
SelectIdleToSedate(b, needed) ==
  LET sedatable == {m \in b.idle : b.idleSince[m] <= now - options.idleTime}
  IN  LeftMost(sedatable, Cardinality(AwakeSoon(b)) - needed)

\* select_idle_machines_to_awaken, for all jobs, respecting the priority job:
\* what the jobs of the queue could use besides the idle machines.  (A job
\* takes the leftmost usable machines, be they those it has already taken.)
AwakenIdle(b, awakable, reserved) ==
  LET Use(s, e) ==
        LET n      == res[e.job]
            first  == LeftMost(s.idle, n)
            chosen == first \cup LeftMost(s.usable, n - Cardinality(first))
        IN  IF n > Cardinality(s.usable) THEN s
            ELSE [idle |-> s.idle \ first, usable |-> s.usable \ chosen,
                  awaken |-> s.awaken \cup (awakable \cap chosen)]
  IN  FoldLeft(Use, [idle |-> b.idle \ reserved,
                     usable |-> (b.idle \cup awakable) \ reserved,
                     awaken |-> {}], b.queue).awaken

SelectIdleToAwaken(b) ==
  AwakenIdle(b, LeftMost(PotentiallySleeping(b.plan[1]), b.forIdle),
             PriorityJob(b).reserved)

-------------------------------------------------------------------------------
(* make_decisions.                                                         *)

\* compute_priority_job_starting_time_expectancy asserts that all sleeping
\* machines can be woken up in the plan p, and that the job then fits.
ExpectancyAsserted(b, p, j) ==
  LET M == AsleepSoon(b)
  IN  Asserted(b, "expectancy is defined",
               /\ \A m \in M : ContainsJob(p, PotentialSleepJob(m))
               /\ Fits(FoldLeft(AwakenAsap, p, InOrder(M)), j))

\* The fake jobs of a switch off that is only planned are removed.
CancelSwitchOff(p, m) ==
  LET kinds == IF EnsuredSleep > 0
               THEN <<SwitchOffJob(m), EnsuredSleepJob(m), PotentialSleepJob(m)>>
               ELSE <<SwitchOffJob(m), PotentialSleepJob(m)>>
  IN  FoldLeft(LAMBDA q, j : RemoveJobLastOccurrence(q, j, 1), p, kinds)

\* The priority loop works on a record of the books, the machines sedated and
\* awakened this turn, the priority job and the jobs that start.

\* The job fits: it starts now, and the next one is tried, or has priority.
InsertPriorityJob(s, j) ==
  LET now_ == StartsNow(s.books.plan, j)
      b    == IF now_ THEN s.books ELSE ExpectancyAsserted(s.books, s.books.plan, j)
  IN  [s EXCEPT !.books = [b EXCEPT !.plan = With(@, j)],
                !.priority = IF now_ THEN NullJob ELSE j,
                !.done = ~now_,
                !.starting = IF now_ THEN @ \cup {j} ELSE @]

\* It fits if some of the planned switches off are given up: the others, of
\* machines that it does not use, are planned again.
KeepMachinesAwake(s, j, p) ==
  LET b == s.books
      used == JobAlloc(p, res[j], walltime[j]).machines
      disturbing == b.toSedate \cap used
      c == Uncount([b EXCEPT !.plan = With(p, j)], Cardinality(disturbing))
  IN  [s EXCEPT !.books = [HandleQueuedSwitches(c, b.toSedate \ used, {}).books
                             EXCEPT !.toSedate = @ \ disturbing],
                !.sedated = @ \ disturbing]

\* It does not fit: all planned switches off are given up and as many machines
\* woken up as it lacks, at once or when they can be.  The job is put in the
\* plan q that results.
PriorityJobAwoken(b, j, q) ==
  [Asserted(b, "priority job fits", Fits(q, j) /\ ~StartsNow(q, j))
     EXCEPT !.plan = IF Fits(q, j) THEN With(q, j) ELSE q]

AwakenChosen(s, j, chosen, h) ==
  LET b == PriorityJobAwoken(
             Uncount(CancelSwitchesOff(h.books), Cardinality(chosen)),
             j, h.books.plan)
  IN  [s EXCEPT !.books = [b EXCEPT !.toAwaken = @ \cup (chosen \ h.awakened)],
                !.sedated = @ \ s.books.toSedate,
                !.awakened = @ \cup h.awakened]

AwakenForPriorityJob(s, j, p) ==
  LET b == s.books
      missing == res[j] - Cardinality(b.awake \cup b.switchingOn \cup b.toAwaken)
      chosen == SelectToAwaken(p, missing, b.asleep \cup b.switchingOff)
      c == Asserted([b EXCEPT !.plan = p], "machines are selected",
                    missing > 0 /\ Cardinality(chosen) = missing)
  IN  AwakenChosen(s, j, chosen, HandleQueuedSwitches(c, {}, chosen))

\* p is the plan without the switches off that are still to be done.
MakeRoom(s, j, p) ==
  IF Fits(p, j) THEN KeepMachinesAwake(s, j, p) ELSE AwakenForPriorityJob(s, j, p)

MakeRoomForPriorityJob(s, j) ==
  MakeRoom([s EXCEPT !.books = ExpectancyAsserted(@, @.plan, j),
                     !.priority = j, !.done = TRUE],
           j, FoldLeft(CancelSwitchOff, s.books.plan, InOrder(s.books.toSedate)))

PriorityStep(s, e) ==
  IF s.done THEN s
  ELSE IF Fits(s.books.plan, e.job) THEN InsertPriorityJob(s, e.job)
  ELSE MakeRoomForPriorityJob(s, e.job)

PriorityLoop(b, h) ==
  FoldLeft(PriorityStep,
           [books |-> h.books, sedated |-> h.sedated, awakened |-> h.awakened,
            priority |-> NullJob, done |-> FALSE, starting |-> {}], b.queue)

\* Jobs that start now without moving the priority job are added to the plan.
Backfill(p, q, priority, starting) ==
  LET Step(r, e) == IF /\ e.job \notin {priority} \cup starting
                       /\ StartsNow(r, e.job)
                    THEN With(r, e.job) ELSE r
  IN  FoldLeft(Step, p, q)

\* The switches planned before the priority loop are done at the end of it, s
\* being what it leaves.
Scheduled(s, q) ==
  [books |-> DisjointAsserted(
               [s.books EXCEPT
                  !.toSedate = @ \ s.sedated,
                  !.toAwaken = @ \ s.awakened,
                  !.sedatedSince = @ \cup s.sedated,
                  !.awakenedSince = @ \cup s.awakened,
                  !.plan = Backfill(@, q, s.priority, s.starting)]),
   priority |-> s.priority]

ScheduleSwitched(b, h) ==
  IF b.queue = <<>>
  THEN [books |-> [h.books EXCEPT !.toSedate = @ \ h.sedated,
                                  !.toAwaken = @ \ h.awakened],
        priority |-> NullJob]
  ELSE Scheduled(PriorityLoop(b, h), b.queue)

SchedulePriorityJob(b) ==
  ScheduleSwitched(b, HandleQueuedSwitches(b, b.toSedate, b.toAwaken))

\* Machines that have been idle for too long are put to sleep, unless some are
\* being woken up: a guard against switching on and off in turn.
IdleSedated(h) ==
  [CarryOut(DisjointAsserted(h.books)) EXCEPT !.forIdle = @ + Cardinality(h.sedated)]

SedateIdle(b, needed) ==
  LET chosen == SelectIdleToSedate(b, needed)
  IN  IF b.switchingOn = {} /\ b.toAwaken = {} /\ chosen # {}
      THEN IdleSedated(HandleQueuedSwitches(b, chosen, {}))
      ELSE b

\* The idle machines chosen are woken up.
IdleAwoken(h, chosen) ==
  CarryOut(DisjointAsserted(
    Asserted([h.books EXCEPT !.toAwaken = (@ \cup chosen) \ h.awakened],
             "idle machines are woken up at once", h.awakened = chosen)))

\* Idle machines are woken up for the jobs of the queue, or put to sleep.
SwitchIdleMachines(b, chosen, priority) ==
  CASE chosen # {} ->
         IdleAwoken(HandleQueuedSwitches([b EXCEPT !.forIdle = @ - Cardinality(chosen)],
                                         {}, chosen), chosen)
    [] chosen = {} /\ options.onClassical ->
         SedateIdle(b, IF priority = NullJob THEN 0 ELSE res[priority])
    [] OTHER -> b

SwitchIdle(b, priority) ==
  LET c == UpdateIdleStates(b)
  IN  SwitchIdleMachines(c, SelectIdleToAwaken(c), priority)

\* What make_decisions does from the priority job on, s being what
\* SchedulePriorityJob has found.
SwitchAll(s) ==
  CountAsserted(SwitchIdle(CountAsserted(CarryOut(s.books)), s.priority))

\* The handler leaves the books and has rejected some jobs.
LeaveRejecting(b, rejected) ==
  /\ Leave(b)
  /\ status' = [j \in Jobs |-> IF j \in rejected THEN "rejected"
                               ELSE IF j \in DOMAIN b.started THEN "running"
                               ELSE status[j]]

\* EnergyBackfillingMonitoringInertialShutdown::make_decisions.
Decide ==
  LET b == [Books EXCEPT
              !.profile = FoldLeft(LAMBDA p, j : RemoveJob(p, j, res[j]), @, ended)]
      q == AppendJobs(queue, SelectSeq(released, IsValid), now)
      c == [Present(b) EXCEPT !.queue = SortQueue(Order, res, walltime, now, q)]
      rejected == {j \in ToSet(released) : ~IsValid(j)}
  IN
  /\ pc = "ended"
  /\ LeaveRejecting(SwitchAll(SchedulePriorityJob(c)), rejected)
  /\ nbCompleted' = nbCompleted + Len(ended) + Cardinality(rejected)
  /\ stopCalls' = \/ stopCalls
                  \/ /\ ended # <<>>
                     /\ noMoreStatic = "told"
                     /\ queue = <<>>
                     /\ \A j \in Jobs : ~ContainsJob(b.profile, j)
  /\ ended' = <<>>
  /\ released' = <<>>
  /\ pc' = "batsim"
  /\ UNCHANGED <<now, jobVars, calls, changes, called, begun, plan, nbCalls,
                 didSomething, options, noMoreStatic, launched>>

-------------------------------------------------------------------------------
(* on_monitoring_stage.                                                    *)

\* The switches done now are not to be done any more.
QueuedSwitched(h) ==
  [h.books EXCEPT !.toSedate = @ \ h.sedated, !.toAwaken = @ \ h.awakened,
                  !.sedatedSince = h.sedated, !.awakenedSince = h.awakened]

\* Mutant: the machines sedated now are still to be sedated.
SwitchQueued_StillQueued(b) ==
  LET h == HandleQueuedSwitches(b, b.toSedate, b.toAwaken)
  IN  CarryOut([QueuedSwitched(h) EXCEPT !.toSedate = b.toSedate])

\* The switches to do are done as far as they can be.
SwitchQueued(b) ==
  CarryOut(QueuedSwitched(HandleQueuedSwitches(b, b.toSedate, b.toAwaken)))

\* EnergyBackfillingIdleSleeper::on_monitoring_stage.
IdleStageFrom(b) ==
  LET needed == IF b.queue = <<>> THEN 0 ELSE res[b.queue[1].job]
      chosen == SelectIdleToSedate(b, needed)
  IN  IF chosen = {} THEN b
      ELSE DisjointAsserted(
             SwitchQueued([b EXCEPT !.toSedate = @ \cup chosen,
                                    !.forIdle = @ + Cardinality(chosen)]))

IdleStage(b) == IdleStageFrom(UpdateIdleStates(Present(b)))

\* Number of machines to switch after the last ones.
InertialNumber(since, possible) == Min({Max({Altered(Cardinality(since)), 1}), possible})

\* The machines chosen, n of them, are to be woken up.
AwakenSome(b, chosen, n) ==
  Asserted(Uncount([b EXCEPT !.toAwaken = @ \cup chosen], Cardinality(chosen)),
           "machines are selected", Cardinality(chosen) = n)

AwakenByInertia(b) ==
  LET awakable == (b.asleep \ b.toAwaken)
                    \ (IF options.allowFuture THEN {} ELSE b.nonWakable)
      n == InertialNumber(b.awakenedSince, Cardinality(awakable))
  IN  AwakenSome(b, SelectToAwaken(b.plan, n, awakable), n)

\* The machines chosen, n of them, are to be sedated; of those that sleep for
\* being idle, stolen ones count as sedated by inertia instead.
SedateSome(b, chosen, n, stolen) ==
  Asserted([b EXCEPT !.toSedate = @ \cup chosen,
                     !.byInertia = @ + stolen + Cardinality(chosen),
                     !.forIdle = @ - stolen],
           "machines are selected", Cardinality(chosen) = n)

SedateByInertia(b, priority) ==
  LET sedatable == IF options.allowFuture THEN b.awake
                   ELSE b.awake \cap b.plan[1].available
      n == InertialNumber(b.sedatedSince,
             Max({0, Cardinality(sedatable) - Cardinality(priority.reserved)}))
      enough == b.forIdle >= n
  IN  SedateSome(b, IF enough THEN {}
                    ELSE SelectToSedate(b.plan, n, sedatable, priority),
                 IF enough THEN 0 ELSE n, Min({b.forIdle, n}))

\* More machines are woken up while the load grows, and more put to sleep while
\* it does not: above is "the mean of the horizon is over the threshold", and
\* grows "its integral is larger than in the preceding period".
InertialDecision(b, priority, above, grows) ==
  LET last == IF above THEN "awaken" ELSE b.lastDecision
  IN  CASE b.lastDecision = "none" -> [b EXCEPT !.lastDecision = "awaken"]
        [] b.lastDecision # "none" /\ ~priority.fits -> b
        [] OTHER ->
             LET c == [b EXCEPT !.lastDecision = IF grows THEN "awaken" ELSE "sedate"]
             IN  IF last # c.lastDecision THEN c
                 ELSE IF grows THEN AwakenByInertia(c)
                 ELSE SedateByInertia(c, priority)

\* EnergyBackfillingMonitoringInertialShutdown::on_monitoring_stage: the priority
\* job is in the plan before machines are switched, if it fits then; that it is not
\* delayed is asserted (line 1030).
Planned(b, j, here) ==
  IF here /\ j # NullJob /\ Fits(b.plan, j)
  THEN [b EXCEPT !.plan = With(@, j)] ELSE b

NotDelayedAsserted(b, priority) ==
  Asserted(b, "priority job is not delayed",
           priority.fits /\ priority.job # NullJob =>
             /\ Fits(b.plan, priority.job)
             /\ JobAlloc(b.plan, priority.size, walltime[priority.job]).begin
                  <= priority.begin)

InertialStageFrom(b, priority, above, grows) ==
  LET d == InertialDecision(b, priority, above, grows)
      c == Planned(NotDelayedAsserted(d, priority), priority.job, priority.fits)
  IN  CountAsserted(SedateIdle(
        UpdateIdleStates(Planned(CountAsserted(SwitchQueued(c)),
                                 priority.job, ~priority.fits)),
        priority.size))

InertialStage(b, above, grows) ==
  LET c == CancelSwitchesOff(Present(b))
  IN  InertialStageFrom(c, PriorityJob(c), above, grows)

\* What select_machines_to_sedate asserts of the machines it may choose (line 1180).
SedatableAreAwake == "sedatable machines are awake"

\* The machines that are too many for the fraction of the platform and for the
\* priority job are put to sleep.
SubpartSedated(h) ==
  CountAsserted(CarryOut(DisjointAsserted(
    [h.books EXCEPT !.toSedate = @ \ h.sedated])))

SedateSubpart(b, priority, letAwake) ==
  LET sedatable == AwakeSoon(b)
      n == Cardinality(sedatable) - letAwake
      c == SedateSome(Asserted(b, SedatableAreAwake,
                               sedatable \subseteq b.awake \cup b.switchingOn),
                      SelectToSedate(b.plan, n, sedatable, priority), n,
                      Min({b.forIdle, n}))
  IN  IF n <= 0 THEN b ELSE SubpartSedated(HandleQueuedSwitches(c, c.toSedate, {}))

\* Machines that sleep for being idle beyond those let awake count as sedated
\* by inertia.
Transfer(b, letAwake) ==
  LET n == Max({0, b.forIdle - letAwake})
  IN  Asserted([b EXCEPT !.forIdle = @ - n, !.byInertia = @ + n],
               "machines are let awake", b.byInertia <= NbMachines - letAwake)

SubpartStageFrom(b, priority) ==
  LET letAwake == Max({options.letAwake, priority.size})
  IN  IF ~priority.fits THEN Transfer(b, options.letAwake)
      ELSE Transfer(CountAsserted(SedateIdle(
                      UpdateIdleStates(SedateSubpart(b, priority, letAwake)),
                      priority.size)), letAwake)

\* EnergyBackfillingMachineSubpartSleeper::on_monitoring_stage.
SubpartStage(b) ==
  LET c == CountAsserted(CancelSwitchesOff(CountAsserted(Present(b))))
  IN  SubpartStageFrom(c, PriorityJob(c))

\* on_requested_call: the stage, and the next call.
MonitoringStage ==
  /\ pc = "events"
  /\ called > 0
  /\ \E above, grows \in BOOLEAN :
       /\ options.variant = "inertial" \/ (above /\ grows)
       /\ LeaveRejecting(
            CASE options.variant = "monitoring" -> Books
              [] options.variant = "idle"       -> IdleStage(Books)
              [] options.variant = "subpart"    -> SubpartStage(Books)
              [] options.variant = "inertial"   -> InertialStage(Books, above, grows),
            {})
  /\ called' = called - 1
  /\ IF stopCalls
       THEN /\ nbCalls' = nbCalls - 1
            /\ UNCHANGED calls
       ELSE /\ calls' = Append(calls, now + Period)
            /\ UNCHANGED nbCalls
  /\ UNCHANGED <<pc, now, jobVars, ended, released, changes, begun, plan,
                 nbCompleted, didSomething, monitoringVars>>

-------------------------------------------------------------------------------
(* Messages.                                                               *)

IsMonitored == options.variant \notin {"energy_bf", "dicho"}

\* A message is taken in; the first release of a job launches the calls.
ReceiveMonitored ==
  /\ pc = "batsim"
  /\ ~NothingToTell \/ noMoreStatic = "untold"
  /\ pc' = "events"
  /\ begun' = TRUE
  /\ noMoreStatic' = IF noMoreStatic = "untold" THEN "told" ELSE noMoreStatic
  /\ launched' = (launched \/ released # <<>>)
  /\ IF launched' /\ ~launched
       THEN /\ calls' = Append(calls, now + Period)
            /\ nbCalls' = nbCalls + 1
       ELSE UNCHANGED <<calls, nbCalls>>
  /\ UNCHANGED <<worldVars, jobVars, ended, released, pstate, switchEnd, changes,
                 called, profile, plan, queue, machineSets, nbCompleted,
                 didSomething, options, stopCalls, sleepVars>>

MachinesSwitched ==
  /\ HandleSwitchedOn \/ HandleSwitchedOff
  /\ UNCHANGED <<monitoringVars, sleepVars>>

AllEventsHandled ==
  /\ called = 0
  /\ EventsHandled
  /\ UNCHANGED <<monitoringVars, sleepVars>>

\* energy_bf_monitoring does not do anything at its stages.
DecideAsEnergyBF ==
  /\ DecideButPlan \/ Plan
  /\ UNCHANGED <<monitoringVars, sleepVars>>

MonitoringHandlers ==
  \/ ReceiveMonitored
  \/ MachinesSwitched
  \/ MonitoringStage
  \/ AllEventsHandled
  \/ options.variant # "monitoring" /\ Decide
  \/ options.variant = "monitoring" /\ DecideAsEnergyBF

\* Batsim's steps.  That all jobs have been submitted is told with the last of
\* them or just after it.
SubmitMonitored ==
  \E j \in 1 .. NbMonitored, r \in Requests, w \in Walltimes :
    Submit(j, r, w) /\ UNCHANGED powerVars

TellNoMore ==
  /\ pc = "batsim"
  /\ noMoreStatic = "no"
  /\ \A j \in 1 .. NbMonitored : status[j] # "future"
  /\ noMoreStatic' = "untold"
  /\ UNCHANGED <<vars, options, launched, stopCalls, sleepVars>>

TickMonitored ==
  /\ noMoreStatic # "untold"
  /\ now = LastSubmission => noMoreStatic = "told"
  /\ EnergyTick

MonitoredPlatform ==
  \/ TellNoMore
  \/ /\ \/ SubmitMonitored
        \/ \E j \in Jobs : Complete(j) /\ UNCHANGED powerVars
        \/ \E M \in SUBSET Machines : FinishSwitch(M)
        \/ Call
        \/ TickMonitored
     /\ UNCHANGED <<schedVars, monitoringVars, sleepVars>>

MonitoringTerminated ==
  /\ Terminated
  /\ noMoreStatic = "told"
  /\ UNCHANGED <<monitoringVars, sleepVars>>

\* energy_bf itself, and energy_bf_dicho.
EnergyBackfilling ==
  /\ ~IsMonitored
  /\ \/ StepButPlan
     \/ options.variant = "energy_bf" /\ Plan
     \/ options.variant = "dicho" /\ PlanByDichotomy
  /\ UNCHANGED <<monitoringVars, sleepVars>>

FamilyStep ==
  \/ EnergyBackfilling
  \/ IsMonitored /\ MonitoredPlatform
  \/ IsMonitored /\ MonitoringHandlers
  \/ IsMonitored /\ MonitoringTerminated

\* A failed assertion stops the program: nothing follows.
FamilyNext == failed = {} /\ FamilyStep

FamilySpec == MonitoringInit /\ [][FamilyNext]_allVars

-------------------------------------------------------------------------------
(* Properties.                                                             *)

\* But for the machines that may be sedated, which the next property is about, and
\* as long as the RJMS delay is not 0 for what energy_bf.cpp:644 says of the slices
\* of _schedule that have ended, no assertion of the code fails.  The variants assert
\* that the machines asleep, now or soon, are those counted as sedated by inertia and
\* for being idle, that machines are selected in the number asked for, that no
\* machine is to be switched both ways, that the priority job is not delayed and
\* that the switches carried out are possible.
NoOtherAssertionFails ==
  /\ failed \subseteq {SedatableAreAwake} \cup
       (IF RjmsDelay > 0 THEN {} ELSE {SlicesAreQuiet})
  /\ RjmsDelay > 0 /\ failed = {} => SlicesEndQuietly

\* The machines that may be selected to be sedated are awake or switching on
\* (energy_bf_monitoring_inertial_shutdown.cpp:1180), those that are to be woken up
\* later included (energy_bf_machine_subpart_sleeper.cpp:139).
SedatableMachinesAreAwake == SedatableAreAwake \notin failed

\* Between two messages a switch that is put off (_machines_to_sedate,
\* _machines_to_awaken) can still be done: the machine is, or is about to be,
\* in the state that it is to leave, whatever it was switched for meanwhile.
PendingSwitchesAreSound ==
  pc = "batsim" =>
    /\ toSedate \subseteq awake \cup switchingOn
    /\ toAwaken \subseteq asleep \cup switchingOff

\* "Let's make sure the priority job has not been delayed by the choices we made"
\* (energy_bf_monitoring_inertial_shutdown.cpp:1022): if the first job of the
\* queue fits without awakenings, then it does so after the monitoring stage of
\* the inertial variant too, no later than before, unless it is started.  The
\* code asserts this of its plan before the switches are in it; here it is said
\* of _schedule after they have been done.
InertiaNeverDelaysPriority ==
  [][called' < called /\ queue # <<>> /\ options.variant = "inertial" =>
       LET j == queue[1].job
           ExpectedStart(p) == QueryWait(p, res[j], walltime[j])
           before == ExpectedStart(UpdateFirstSliceRemoving(profile, now))
       IN  before # -1 /\ status'[j] # "running" =>
             ExpectedStart(profile') \in 0 .. before]_allVars

\* As long as the calls go on, and for energy_bf itself always, a job that waits
\* has an event of Batsim to come (energy_bf.cpp:609): the variants request no
\* call when there is nothing to do, but depend on their periodic calls.
CallsPreventDeadlock ==
  ~stopCalls /\ noMoreStatic # "untold" => BatsimNeverDeadlocks

\* "Stop sending CALL_ME_LATER if all jobs have been executed"
\* (energy_bf_monitoring_inertial_shutdown.cpp:145): when the calls have stopped
\* no job waits for one.
NeverDeadlocks == noMoreStatic # "untold" => BatsimNeverDeadlocks
===============================================================================
