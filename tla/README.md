# batsched in TLA+

batsched is a collection of scheduling algorithms for Batsim, a simulator of
computing platforms.  Batsim simulates machines and jobs; batsched decides
which job runs where and when.  The two processes alternate over a ZeroMQ
REQ/REP socket: Batsim sends the events of one simulated date, batsched
answers with dated decisions.

This directory holds TLA+ models of the schedulers, the TLC configurations that
check them on small platforms, and TLAPS proofs of what matters most for every
platform and workload.  Source paths are relative to the repository root, which
is `src/` here (so the code of `easy_bf_fast` is `src/src/algo/easy_bf_fast.cpp`).

## The system

### Components

| component | source | state it keeps | operations |
|---|---|---|---|
| run loop | `src/main.cpp` 349-530 | date of the message, `answer_query`/nop flags | reads a message, calls one handler per event, then `make_decisions`, then sends the reply |
| event accumulators | `isalgorithm.cpp` | `_jobs_released_recently`, `_jobs_ended_recently`, machines (un)available, machine states changed, queries | `on_*` handlers append, `clear_recent_data_structures` empties after the reply |
| workload | `json_workload.cpp` | map from job id to job | adds a submitted job, adding the RJMS delay to its walltime |
| protocol writer, decisions | `protocol.cpp`, `decision.cpp` | the events of the reply, `_last_date` | `add_execute_job`, `add_reject_job`, ...; each asserts that dates do not decrease |
| schedule | `schedule.cpp` | list of time slices (interval, free machines, jobs) and a counter beside the set of free machines | first-fit insertion, removal, update of the present, waiting time query |
| queue and orders | `queue.cpp` | list of jobs with release date, slowdown, ... | append, remove, sort by one of eight orders |
| resource selectors | `locality.cpp` | none (limited range: one range) | `fit` (basic, contiguous, limited range), selections that prefer sedated or awake machines |
| easy_bf_fast | `algo/easy_bf_fast.cpp` | free machines (set and counter), allocations, horizon points, priority job with expected start and leftovers, pending jobs | `make_decisions` |
| fcfs, fcfs_fast | `algo/fcfs.cpp`, `algo/fcfs_fast.cpp` | free machines (set and counter), allocations, pending jobs | `make_decisions` |
| conservative_bf | `algo/conservative_bf.cpp` | schedule, queue | `make_decisions`, answers to waiting time queries |
| easy_bf | `algo/easy_bf.cpp` | schedule, queue, priority job | `make_decisions` |
| energy_bf, energy_bf_dicho | `algo/energy_bf.cpp`, `algo/energy_bf_dicho.cpp` | schedule holding also switch-on, switch-off and sleep jobs, six sets of machines, calls under way | `make_decisions`, `on_machine_state_changed`, `on_requested_call` |
| energy_bf_monitoring, _idle_sleeper, _subpart_sleeper, _monitoring_inertial | `algo/energy_bf_*.cpp` | the same, switches put off, idle machines with dates, two counts of sleeping machines, the last inertial decision | another `make_decisions`, and a stage run by periodic calls |
| sleeper, filler, killer, killer2, submitter, sequencer, sequencer_dvfs, crasher, rejecter, random, wt_estimator, energy_watcher | `algo/*.cpp` | a few lists and flags each | `make_decisions`; most exercise one feature of the protocol |
| network, assertions, argument parsing | `network.cpp`, `pempek_assert.cpp`, `external/` | - | pure I/O and third-party code |

### How they interact

`main.cpp` is single-threaded.  For one message it calls the handlers of the
algorithm in the order of the events; the handlers of `ISchedulingAlgorithm`
only append to the accumulators.  It then calls `make_decisions` once, which
reads the accumulators, updates its books and adds decisions to the protocol
writer; the reply is sent and the accumulators are cleared.  Batsim stands still
meanwhile.  So there is no data race; what is hard is that every algorithm
keeps a *copy* of the platform (free machines, running jobs, their expected
ends) which it must keep exact through any sequence of messages.

### What is hard

* **Redundant state.**  A counter is kept beside a set, an iterator into a list
  beside an allocation, a schedule beside Batsim's own execution.  Any of them
  may drift in a long run and no test of the repository compares them.
* **Order inside a message.**  Jobs end and jobs are submitted in the same
  message, in any order; each algorithm processes all ends first, and
  reconsiders its queue only in some messages.
* **Dates at a boundary.**  A job can end exactly when another is expected to
  start, a message can arrive exactly at the end of a time slice.
* **Stale promises.**  The expected start of the priority job is computed at
  one date and compared at later ones; jobs end earlier than announced.
* **Progress.**  Batsim stops if nothing is left to happen: a scheduler that
  leaves a waiting job aside in an idle system is blocked for good.

The hazards are listed one by one, at their line, in `PROJECT.json`.

### What makes each component correct

* *Every scheduler*: starts each job at most once, on as many machines as asked,
  all free; rejects only jobs that cannot be served; forgets none; serves all.
* *easy_bf_fast*: backfilling never delays the priority job; the horizon list
  matches the allocations; an assertion never fails; nothing that could be
  backfilled is left.
* *fcfs*: no job overtakes an older one; the head of the queue never waits for
  machines that are already there.
* *conservative_bf*: the schedule is a partition of the future that agrees with
  the platform; reservations are never postponed, and never missed.
* *easy_bf*: the schedule holds the running jobs and one reservation, which is
  never postponed; nothing that could be backfilled is left.
* *run loop and protocol writer*: dates never decrease, from one message to the
  next either; nothing that Batsim said is left unread.
* *killer, killer2, submitter, ...*: Batsim can do what the decisions say when
  their date comes; what the algorithm believes of its machines is true.
* *sleeper, energy_bf*: a job only runs on machines that are on; a machine is
  asked for one state change at a time and sleeps long enough; no deadlock.
* *the periodic variants of energy_bf*: a switch that is put off stays possible,
  switches do not delay the priority job, the assertions hold, and no job is left behind
  when the calls stop.

## The models

| module | what it models |
|---|---|
| `Batsim` | the environment of the backfilling schedulers: submission, completion, time, and the effect of the decisions |
| `ResourceManager` | abstract specification: what Batsim expects of any scheduler |
| `Locality` | `IntervalSet::left`, the `fit` functions of the selectors, the selection of the basic one of machines to awaken for a job |
| `Selector` | the constant that stands for `ResourceSelector::fit`, which `FCFS`, `Schedule` and `RunLoop` share |
| `Queue` | `queue.cpp`: the eight orders with their keys and tie break, append, removal, sort |
| `Schedule` | `schedule.cpp`, as operators on sequences of time slices |
| `EasyBFFast` | `easy_bf_fast.cpp` |
| `FCFS` | `fcfs.cpp` and `fcfs_fast.cpp` |
| `ConservativeBF`, `EasyBF`, `EnergyBF` | `conservative_bf.cpp`, `easy_bf.cpp`, `energy_bf.cpp`, over `Schedule` |
| `EnergyDichotomy` | `energy_bf_dicho.cpp`, which replaces one action of `EnergyBF` |
| `EnergyMonitoring` | `energy_bf_monitoring_period.cpp`, `energy_bf_idle_sleeper.cpp`, `energy_bf_machine_subpart_sleeper.cpp`, `energy_bf_monitoring_inertial_shutdown.cpp`; composes the family |
| `Protocol` | `protocol.cpp`: the decisions and the date each append function asserts |
| `RunLoop` | `main.cpp` 349-530 and the accumulators of `isalgorithm.cpp`, with an environment in which events and decisions keep their dates |
| `Killers` | `killer.cpp`, `killer2.cpp` |
| `Sequencers` | `sequencer.cpp`, `sequencer_dvfs.cpp`, `crasher.cpp` |
| `Filler`, `Sleeper`, `Submitter` | the algorithms of these names |
| `Watchers` | `rejecter.cpp`, `random.cpp`, `wt_estimator.cpp`, `energy_watcher.cpp` |
| `Variants` | composes the algorithms above with `RunLoop`: the choice of `main.cpp` |
| `Facts` | lemmas about sequences, counts, recursive functions, queues and sorting; what the operators of `Schedule` do: insertion, removal, update of the present, where a job can start at once |
| `EasyBFFastProofs` | theorems of `EasyBFFast`: accounts, queues and refinement; then dates and promises |
| `FCFSProofs` | theorems of `FCFS`: order, accounts, refinement |
| `ConservativeBFProofs` | theorems of `ConservativeBF`: its schedule, reservations, refinement |
| `EasyBFProofs` | theorems of `EasyBF`: its schedule, the reservation, backfilling, refinement |
| `EnergyProofs` | the theorem of `EnergyMonitoring`: no job waits in vain |
| `VariantsProofs` | theorems of `Variants`: types of the run loop with every algorithm, then the order of the dates |
| `VariantsBooksProofs` | theorems of `Variants`: where a job is, what the algorithms believe, what Batsim is told to do |
| `MC*` | small instances for TLC |

### Batsim

The jobs are numbered in the order of submission.  The size and the walltime of
a job are chosen when it is submitted (`Submit`), so one run covers every
workload over `Requests` and `Walltimes`, jobs without a walltime and jobs larger
than the platform included.  A running job may complete at any date up to its
deadline (`Complete`); `Tick` advances time only when every event has been
delivered, and not beyond a deadline.  `Send` hands a message to the scheduler with
the events accumulated *so far*: further events of the same date may follow in a
second message, as Batsim does.  `released` and `ended` are the accumulators.

The scheduler's walltime includes the RJMS delay (`json_workload.cpp`);
Batsim stops the job at the walltime without it.  A job without a walltime has
walltime -1 in the code, to which the delay is added too; the model keeps that.

While the scheduler is at work (`pc # "batsim"`) the simulated date does not
change, and the decisions of the algorithms that use this module carry the date
of the message.  Applying each at once or with the reply is the same to Batsim, which is
blocked; the models apply it at once, which makes the intermediate program points
comparable with the platform.

### The schedulers

In each of `EasyBFFast`, `FCFS`, `ConservativeBF`, `EasyBF` and `EnergyBF` there is one variable per
field of the C++ class (the comment of the declaration names it), plus the
locals of `make_decisions` that live across loop iterations.  One call of
`make_decisions` is cut at its loop iterations: `pc` names the loop, one action
is one iteration of it (or the decision to leave it), and the order of the loops
is the order of the code.  Invariants are therefore checked, and proved, at every
program point and not only between messages.

`EasyBFFast`: a horizon point is a record with the job whose allocation holds
the iterator to it.  `FCFS`: `Fit` is the resource selector.  fcfs_fast differs
from fcfs in placing pending jobs by count on the leftmost machines, which is
what `BasicFit` does, so fcfs_fast is `FCFS` with `Fit <- BasicFit`.

`Schedule` keeps the slices in a sequence.  A slice maps jobs to machines and has
the set of free machines and the counter, as in the code.  Insertion is stated by
where it places the job (`IsAnchor`, the first slice from which the job fits),
not by the two nested loops that search for it.  The infinite horizon 1e19 is the
constant `Infinity`; `ScheduleIsSound` shows that the last slice never holds a
job.  `ConservativeBF` sorts its queue with FCFSOrder, which breaks ties by
comparing identifiers *as strings*: `IdRank` is that order, and the instances
reverse it ("10" < "9").  Other operators insert on a given set of machines after a slice or
after a date, and remove the first or the last occurrence of a job; `EnergyBF` uses them.

`EasyBF` runs with any order of `Queue`.  `sort_queue_while_handling_priority_job`
is cut at its loop too: the old priority job leaves the schedule, the queue is sorted,
and jobs are inserted from the head until one does not start at once; this one is
the new priority job.

`EnergyBF` adds to `Batsim` machines that are switched on and off, one by one or
together, and calls that the scheduler requests.  The scheduler plans with *fake jobs*,
four per machine (switch on, switch off, ensured sleep, potential sleep), which
are integers above `NbJobs`.  `plan` is the copy of the schedule on which
`make_decisions` plans the future; what it says of the first slice is then carried out,
one action for all switches and one per job started.

`EnergyDichotomy` replaces the action `Plan`.  Its code tries numbers of machines to sedate, or
to awaken, and keeps the best plan by mean slowdown and energy, two sums over the plan.
Which comparison succeeds is abstracted: the plan is any of those that the dichotomy may
try (`Tried`), or the plan without a change.

`EnergyMonitoring` has one more set of variables, for the members of the periodic
variants, and `options`, the variant and its options, chosen in the initial state.  In these
variants a handler is long and calls others that change a dozen members in turn
(`make_decisions` and the stage of the inertial variant have 600 and 430 lines), so a handler is one
action here, a composition of functions on a record of the members (`Books`).  `plan`
of this record is `_inertial_schedule`; `CarryOut` is `make_decisions_of_schedule`; `Leave` assigns the
members and executes the decisions.  The first assertion that fails puts its name in `failed`, and the
program stops there (`FamilyNext`).  `NoOtherAssertionFails` says which may fail: that of
`energy_bf_monitoring_inertial_shutdown.cpp:1180`, which `SedatableMachinesAreAwake` is about, and those on the slices that have
ended, if the RJMS delay is 0.  In `energy_bf_family` not even these fail: a program that stops would be a deadlock.
The *liquid load horizon* decides whether the inertial
variant wakes up or sedates more machines: the two comparisons made with it
(over the threshold, more than in the preceding period) are free booleans of the stage.
"All static jobs have been submitted" is told with the last job or just after it (`TellNoMore`).

### ResourceManager

The abstract specification knows four variables: the status, the size and the
presence of a walltime of each job, and the machines it runs on.  `Start` requires
a waiting job that is not hopeless, and as many machines as asked among those no
running job holds; `Reject` requires a hopeless job.  Each scheduler is shown to
implement it by `RM == INSTANCE ResourceManager WITH NeedsWalltime <- ...`; the
variables have the same names, the others are hidden.

### The run loop and the algorithms around it

`RunLoop` models the same conversation more finely, because here the dates
matter: `killer` kills in the future, `killer2` places a job on machines of a job
that will be killed five seconds later, `sequencer_dvfs` lives on requested calls.
Every event carries the date of its occurrence and joins `inbox`; every decision
carries its own date, waits in `outbox`, and is applied when the clock has come to it.
After a reply Batsim is silent until the "now" of the reply (`until`).  One action
(`Receive...`) handles one event; `make_decisions` and the reply are one action,
since nothing can happen in between.  `lastDate` is `_last_date` of the protocol
writer, which survives the reply.

`own` holds the other members of the algorithm at work, `variant` and `order` the options of
the command line; both are chosen in the initial state, so that one run checks several
algorithms.  The abstractions: a fraction of machines is a percentage; what
`energy_watcher` reads is a number that Batsim chooses; profiles are names; random choices are any
choice; `crasher` stops answering and is not resumed; `filler` does not use the
custom mapping.

### Assumptions about Batsim

Batsim is external; its behaviour is modelled from how the code uses it.  All events of a
date that have occurred are told in one message or in several, in any order that
respects causes.  A job that is killed or completes at the same date is told as one of the two.  The
potential job of a query has an identifier of its own, which no
submitted job uses.  Machines switch within the time that is configured, and
`EnergyBF` is told the true switch times; all its jobs have a walltime.

A machine that becomes unavailable is not available again in the very message that announces it
(`JustGone`); another outage of it may begin in the message that announces the end of one.
`filler` subtracts what has come back before it adds what has gone, so that with an outage of no duration
it would take the machine for unavailable until its next outage is over.

The RJMS delay of `EnergyBF` is not zero, except in the run `energy_bf_delay`.  Without the delay a job can end exactly
when its slice does, and the assertions on the slices that end (`energy_bf.cpp:642-759`), which `SlicesEndQuietly`
states together with their comments, fail; this run shows it of the assertions alone (`NoSliceAssertionFails`).
`NoOtherAssertionFails` states the condition.

## The runs

All runs use two workers; the longest takes about three minutes.

| run | question | bounds |
|---|---|---|
| `easy_bf_fast` | are the books exact at every program point, is the assertion safe, is `ResourceManager` implemented, is every job served? | 3 jobs, 2 machines, sizes 1-3, walltimes none/1/3 |
| `easy_bf_fast_4_jobs` | does backfilling keep its promises? | 4 jobs, 3 machines, RJMS delay 1 |
| `fcfs` | is the order of submission respected, does the queue never block for nothing? | 3 jobs, 3 machines, sizes 1-4, contiguous selector |
| `conservative_bf` | does the schedule agree with the platform, is it a partition of the future, do the assertions on the present hold, are reservations never postponed? | 4 jobs, 3 machines, contiguous selector, no RJMS delay, one query; with a job to reject there are at most three jobs, with a query two; of four jobs two request one machine and at least two have walltime 1 (`FewExceptions`) |
| `conservative_bf_query` | is the estimation a time away from now? (violated) | 3 jobs, 2 machines, basic selector, one query |
| `easy_bf` | does the schedule hold the running jobs and one reservation that is kept, is nothing left to backfill, is `ResourceManager` implemented? | 4 jobs, 3 machines, sizes 1/2/4, walltimes none/1/3, no RJMS delay, orders fcfs and desc_size, at most one job to reject |
| `energy_bf_family` | do the machine sets and the schedule follow the platform, do the assertions hold but for the one of `energy_bf_sedatable`, do machines sleep long enough, do switches that are put off stay possible and leave the priority job in its place, does Batsim never wait for a scheduler that waits for it? | energy_bf, dicho, monitoring, inertial (with and without future switches), idle, subpart; 2 jobs, 3 machines, sizes 1-4, walltime 2, RJMS delay 1, switches 1, ensured sleep 2, period 2 |
| `energy_bf_sedatable` | are the machines that may be put to sleep awake, or switching on? (violated) | subpart, order asc_size; 3 jobs, 2 machines, ensured sleep 3, period 1 |
| `energy_bf_delay` | do the assertions on the slices that end hold without RJMS delay? (violated) | energy_bf; 2 jobs, 2 machines, RJMS delay 0 |
| `energy_bf_monitoring_calls` | is no job left behind when the calls stop? (violated) | inertial, idle and subpart; 2 jobs, 2 machines, ensured sleep 3, period 1 |
| `variants` | do the dates never decrease, can Batsim do what it is told, are the books exact, is everything read, is no job given an unavailable machine, does every simulation end? | twelve algorithms; 2 or 3 jobs of the workload, 2 submitted by the scheduler, 2 machines, order desc_size, one query, two outages of which the second begins in the message that ends the first, no job to reject for filler, sleeper and submitter |
| `sequencer_dvfs` | does the chain of requested calls last as long as the simulation? (violated) | as `variants` |

Why the bounds are enough.  Sizes reach one more than the platform, so invalid
jobs occur.  Two machines and three jobs suffice for a job to run, a second to
be blocked and a third to be backfilled behind it.  Four jobs on three machines
give several jobs behind a priority job, two of them backfilled, and schedules in which
several reservations are compressed one after the other.  Walltimes 1 and 3 make
jobs shorter, equal and longer than the wait of the others; completion at any date up to
the deadline makes ends earlier than announced.  Without the RJMS delay, jobs end
exactly on slice boundaries (the zero-length first slice of `Schedule` is
reached); with a delay of 1 they always end before.  Submissions stop after
`LastSubmission` and jobs without a walltime end after `MaxRun`, which makes the
state space finite without a bound on `now`.  A rejected job leaves no trace in the
schedulers, so that the constraint of at most one (`FewRejections`) removes only repetitions.
In `energy_bf_family` the ensured sleep is longer than a switch, so jobs arrive before, during and
after it.  The calls of the periodic variants may go on for ever, and energy_bf_dicho may
switch machines for ever: `Bounded` stops these variants after `LastDate`, more than three periods: a machine that
is being switched off when the last job comes can still sleep, be woken up and run it.  Two jobs and
three machines suffice for a job to run while the other waits for machines that sleep, and for two small
jobs to run together.
By hand, energy_bf has also been run without an ensured sleep and with walltimes 1 and 3, dicho with three
jobs on two machines, and the periodic variants with orders by size.  The latter led to the run `energy_bf_sedatable`;
with its bounds and three jobs subpart keeps `NoOtherAssertionFails` and `PendingSwitchesAreSound` up to the point where the
program stops.

`variants` has a query, a kill
plan in which two kills race two completions, outages that
cross a job, a machine that comes back and breaks down again in one message, and more switches than machines.

Deadlock checking is on in every run: the only state without a successor but
`Terminated` would be one in which a job waits and nothing can happen.  So
even the runs without a liveness property show that the scheduler never leaves a
job behind in an idle system.

### Fairness

`EveryJobServed` is checked under `FairSpec`: weak fairness of `MakeDecisions`
(the code between a message and its reply has only loops over finite lists), of
`Receive` (Batsim sends the events it has), of `Tick` (simulated time advances)
and of `Complete(j)` (a running job ends, at the latest at its deadline).  Nothing
is assumed of submissions.  A new submission can only occur a bounded number of times, so it
cannot starve the other steps.

`EverySimulationEnds` (`variants`) is checked under weak fairness of the steps of Batsim and of the
handlers together, and of `DecisionsEnd`: `make_decisions`, once called, comes to its end.  (The
latter is stated with `WF_pc` of "the reply is sent", which covers every algorithm.)  In
`RunLoop` every step either consumes a bounded budget or brings time, a message or a decision
forward, so a behaviour that steps for ever would itself be a flaw.  The steps of Batsim include the repair of a
machine that is down and the end of a switch: that no outage lasts for ever, unless something else goes on
happening, is an assumption about the environment.  With a machine down for good `filler` rightly lets a job wait that needs it.

The energy_bf family states progress as an invariant: `CallsPreventDeadlock` says that
Batsim has something to come as long as a job waits and the calls have not been stopped, which
energy_bf, energy_bf_dicho and energy_bf_monitoring never do.  For energy_bf, whose run is
bounded by its jobs alone, a scheduler that is called again and again without deciding anything is excluded
by the same property, since the states are finite in number while `now` grows with every cycle.

### The disagreements found

* `conservative_bf_query`: `query_wait` returns the begin date of a slice
  (`schedule.cpp:361,389`), which conservative_bf sends as the estimated waiting time;
  `schedule.hpp:63-65` says "a double, defined as time away from now".
* `sequencer_dvfs`: `sequencer_dvfs.cpp:65` decides whether to request the next call
  from flags as they were before the message is decided, so that a job can start
  after the last call; the comment at line 64 says "unless simulation is about to finish".
* `energy_bf_monitoring_calls`: `energy_bf_monitoring_inertial_shutdown.cpp:145` stops the calls "if all jobs
  have been executed", but looks at the queue before the jobs released in the same message are
  in it.  The counterexample: the only running job ends and the last job of the workload is
  released in one message, with the notification that no more are to come; the calls stop; the
  job needs a machine in its ensured sleep, whose end is no event of Batsim; nothing is left
  to come and the job waits for ever.
* `energy_bf_sedatable`: `energy_bf_machine_subpart_sleeper.cpp:139` hands over the machines that are awake *soon* to the
  selection of those to be put to sleep, which asserts that they are awake or switching on
  (`energy_bf_monitoring_inertial_shutdown.cpp:1180`).  Among them is a machine that is still switching off and is to be
  woken up again for the priority job.
* `energy_bf_delay`: the jobs that stand for a switch last its time plus the RJMS delay (`energy_bf.cpp:48,54`).  Without delay,
  which `main.cpp:119` allows, a message of the date at which the switch ends may come before its acknowledgement: in the schedule
  the machines are asleep, in `_asleep_machines` they are not yet, and the assertion of `energy_bf.cpp:757-759` fails.

One more is not shown by a run: `fcfs.cpp:119` places a newly released job on `_available_machines.left(n)` whatever the
selector, only pending jobs go through `_selector->fit` (line 72), whereas `CHANGELOG.md:18-19` says that fcfs takes into
account the resource selector given in parameter.  `FCFS` follows the code; its properties hold all the same.

## The theorems

Every theorem holds for every platform, workload and bound that satisfies the named
assumptions of the modules.  What these assume of constants is evaluated by TLC in the runs; what
they assume of `Fit` and `Left`, which stand for code of `IntervalSet` and `locality.cpp`, is:

* `LeftAssumption`: `left(n)` of a set with at least `n` machines returns `n` of them;
* `FitAssumption`: a selector that finds a place for `n` machines returns `n` of those it is
  given; in `RunLoop` also that it finds one among more machines too, and on the empty platform for
  every job that fits, which `killer2.cpp:89` asserts.  `ConservativeBF` and `EasyBF` need that it
  finds a place wherever the machines it once returned are free, and on the empty platform for every
  job that is not larger.  All are true of the basic and the contiguous selector of
  `locality.cpp`, which are those an option can choose, and TLC evaluates them of
  `BasicFit` and `ContiguousFit`.

`KillersAssumption` takes the delay between a kill and the execution that follows it, 5 seconds in the code, for
any number but zero: with zero, an execution could be applied before the kill is over.  `VariantsAssumption`
names the algorithms that `Variants` composes; the invariant has a part for each.

`InfinityAssumption` of `ConservativeBF` and `EasyBF` says that the last date of submission and the walltimes of all jobs
add up to less than `Infinity`, which is 1e19 in the code.

| theorem | module | states |
|---|---|---|
| `ResourceAccountingHolds`, `NoJobForgottenHolds` | `EasyBFFastProofs` | `Spec => []ResourceAccounting`, `Spec => []NoJobForgotten` |
| `Implementation` | `EasyBFFastProofs` | `Spec => ImplementsResourceManager` |
| `TypeOKHolds`, `HorizonsMatchAllocationsHolds`, `ReservationIsCoveredHolds`, `PromiseIsKeptHolds`, `PromiseNeverPostponedHolds`, `BackfillIsMaximalHolds` | `EasyBFFastProofs` | the remaining safety properties of `EasyBFFast` |
| `FirstComeFirstServedHolds`, `ResourceAccountingHolds`, `QueueIsBlockedHolds` | `FCFSProofs` | all safety properties of `FCFS` |
| `Implementation` | `FCFSProofs` | `Spec => ImplementsResourceManager` |
| `VariantsInvariant` | `VariantsProofs` | `Spec => []IInv` |
| `DatesNeverDecreaseHolds`, `NothingLeftUnreadHolds` | `VariantsProofs` | `Spec => DatesNeverDecrease`, `Spec => []NothingLeftUnread` |
| `BooksInvariant` | `VariantsBooksProofs` | `Spec => []Books` |
| `BooksMatchPlatformHolds`, `SleeperSetsMatchPlatformHolds` | `VariantsBooksProofs` | `Spec => []BooksMatchPlatform`, and so on |
| `FillerHeedsOutagesHolds` | `VariantsBooksProofs` | `Spec => FillerHeedsOutages`, from `FillerLeavesNothingHolds` and `FillerSparesUnavailableHolds` |
| `DecisionsAreLegalHolds`, `ProfilesAreKnownHolds` | `VariantsBooksProofs` | `Spec => DecisionsAreLegal`, `Spec => ProfilesAreKnown` |
| `ScheduleIsSoundHolds`, `ScheduleMatchesPlatformHolds`, `NoReservationMissedHolds`, `ReservationNeverPostponedHolds` | `ConservativeBFProofs` | all safety and action properties of `ConservativeBF` that hold |
| `Implementation` | `ConservativeBFProofs` | `Spec => ImplementsResourceManager` |
| `ScheduleMatchesPlatformHolds`, `ReservationIsAheadHolds`, `ReservationNeverPostponedHolds`, `BackfillIsMaximalHolds` | `EasyBFProofs` | all safety and action properties of `EasyBF` |
| `Implementation` | `EasyBFProofs` | `Spec => ImplementsResourceManager` |
| `CallsPreventDeadlockHolds` | `EnergyProofs` | `FamilySpec => []CallsPreventDeadlock` |
| `FirstInsertion`, `RemoveSound`, `Reinsertion`, `StartsIfFree` | `Facts` | what `AddJobFirstFit`, `RemoveJob` and one after the other do to any sound profile |

So every safety property that the passing runs check of `EasyBFFast`, `FCFS`, `ConservativeBF`, `EasyBF` and `Variants` is
proved.

### easy_bf_fast: accounts, queues, refinement

None of the first three results of `EasyBFFastProofs` is inductive.  The invariant is `IInv == Books /\ Queues`.

*Books*.  The code gives machines back by set but counts them by the size the job
asked for; so `nbAvailable = Cardinality(available)` survives the end of a job only
if its allocation has exactly that size (`ExactSizes`), which in turn needs that `left`
returns as many machines as asked (`LeftAssumption`) when the job fits.  It also
needs that an ended job is told once (`EndedAreDone`), and for the refinement that
Batsim only executes running jobs (`PlacedAreRunning`).

*Queues*.  A waiting job is in exactly one of the released, pending and priority
places.  `PendingBecomesPriority` overwrites `priority`, so the loop `"launch"` must
only be reached without one; `LaunchPriority` starts `priority`, so `"priority"`
must only be reached with one (`ControlPoints`).  The refinement needs that only valid
jobs are queued (`QueuedAreValid`), since `LaunchPriority`, `LaunchPending` and
`Backfill` do not check again.

There is one lemma per kind of change (start, end, submission, completion,
rejection, no change) for `Books`, used by every action of that kind, and one step per
action for `Queues`.

### easy_bf_fast: dates and promises

The others need `PInv == IInv /\ Horizons /\ Turns /\ Promise /\ Tried`.

*Horizons*.  The horizon list is sorted although points are inserted at a date and erased
through an iterator anywhere, and every allocation has one point with its date and machines
(`HorizonsMatchAllocations`).  This is inductive with `DatesFollowDeadlines`: the point of a running
job is dated the RJMS delay after its deadline, and `NobodyOverdue`; together they say that no point is in the
past once the ended jobs have been handled.

*Promise*.  The expected start is the date of the first point at which a running sum over that list
reaches the size of the priority job.  The sum is a recursive function of the model
(`AvailableAfter`); no induction principle can be instantiated, so its equations come from the
existence of its graph, and what holds along the list is shown at the *least* position where it
could fail: a set of naturals that is not empty has a least element.  The machines counted are
those of `FreeBy`, which says without a sum what is free at a date; `ReservationIsCovered` is
stated with it: what is free at the expected start covers the priority job and what remains, and
a backfilled job that goes beyond that date is taken from what remains.  A job that ends early only
adds to it.

*Turns* and *Tried*.  The queue is reconsidered in some messages only.  `Turns` says that as long as no
machine has come back, the priority job is known not to fit; `Tried` that every pending job is
`Stuck`, as are those before the cursor of the loop.  A stuck job stays so: starts, and
the time that passes, only make it worse.  `BackfillIsMaximal` follows between messages, and
`PromiseNeverPostponed` from what the recomputation of the start finds, since
machines are only free earlier than expected.

### fcfs

`FCFSProofs` treats every `Fit` and `Left`: the results are about fcfs with any selector and about
fcfs_fast alike, whereas the run `fcfs` fixes the contiguous selector.  The inductive invariant
`InOrder` adds what `FirstComeFirstServed` does not say: the pending and the released jobs are in
order of submission, every pending job comes before every released one, these are all the
waiting jobs (`QueuesAreInOrder`), jobs still to be submitted come last (`FutureIsLast`),
and only invalid jobs have been rejected (`RejectedAreInvalid`).  `OldestLeaves` is the heart
of the proof: only the oldest waiting job is ever started.  `RInv` is the invariant of the
accounts, as for `easy_bf_fast`; `QueueIsBlocked` needs in addition that between the loops the head of
the queue has been found not to fit and that no machine has come back since.

### Schedule

`Facts` is, in its last part, about any set of jobs, machines and requests.  `IsSound` says that a profile is a partition of the
future (`IsProfile`, `IsContiguous`), that its last slice has no job and that no two neighbours have the
same jobs.  The latter is what makes a slice *begin where something changes*, and with it
where a job is placed: `PlacedAfter` says that the first place found is in the first slice or where another
job ends, since otherwise the job would have fit earlier.

Insertion splits a slice and edits some; removal edits some and merges neighbours.  `Coarsens` relates two
lists of which one has groups of equal neighbours of the other as its slices: splitting and merging
lead from one to the other, and every job has the same `Allocation` (begin, end, machines, whether it is in the
first slice) in both (`CoarserAllocation`).  `Gives` is the edit: machines given to a job, or taken back.
`MergeSlices` is a recursive function; its graph exists (`Recursion`), and the group of each slice is found by
numbering them (`Numbers`).  Four results are what the schedulers need:

* `FirstInsertion`: the profile stays sound, no other job is affected, and the job is placed where another job ends,
  or in the first slice, on machines that no job of the first slice has;
* `RemoveSound`: the profile stays sound, no other job is affected, and the place of the job is free;
* `Reinsertion`: a job that is removed and inserted again is not placed later, because its own place is free and the selector
  finds one there, and the profile does not grow;
* `StartsIfFree`: a job starts at once if the selector finds its place among the machines free until it would end
  (`FreeUntil`, those that no allocation has which begins before then); that is what the intersection of slices in
  `add_job_first_fit` comes to.

### conservative_bf

The inductive invariant `Inv` relates the allocations of the profile to the jobs.  TLC has checked it, too,
with three jobs, with and without an RJMS delay.

* `ProfileMatchesJobs`: the profile is sound and holds the running jobs, the ended ones still to be removed, and the
  `Reserved` ones: those in the queue that are not new, or have been compressed already;
* `RunningArePresent`, `ReservationsAreAhead`: running jobs are in the first slice, on their machines and
  long enough; reservations begin at the present or later, last for the walltime of the job, and are on machines on which the
  selector would place the job again;
* `ReservationsFollow`: a reservation follows another allocation.  This is why none is missed:  when time
  passes from one date to the next, no running job has reached its deadline, so a reservation
  that follows a running job is still ahead, and one that follows another reservation begins later than that one.
  When a job has ended it is only known of the reservations that have been compressed since
  (`Compressed`), and of all of them when Batsim has the hand again;
* `HorizonIsAhead`: the last slice begins `Cardinality(Served) * W` after the last submission at most, where
  `W` bounds the walltimes submitted so far.  Every job enters the profile once, and moves the last slice by its
  walltime at most; so `Infinity` is never reached, and insertion finds a place;
* `JobsAreSound`, `QueuesMatchStatus`, `PointsMatchLocals`: sizes, walltimes and status of the jobs in the lists, and
  what the program points say of the locals of `make_decisions`.

What `update_first_slice` asserts, that the date is in the first slice, follows from the first three and the fact that a slice
that ends is ended by a job (`FirstSliceEnds`, `PresentIsFirst`).  That the machines of a job which starts are
free on the platform follows from `RunningArePresent`: they are in no allocation of the first slice.

### easy_bf

`EasyBF` has the same operations on its schedule, but another difficulty: the schedule is used as a scratch
pad.  A job is inserted to see where it would be, and removed if it does not start at once; the priority job may
change with each sort; and its reservation is made anew in the middle of `make_decisions`.  The invariant
`Inv`, which TLC has checked as well on small instances, says for each program point what the schedule holds.

* `ProfileMatchesJobs`, `RunningArePresent`, `JobsAreSound`, `QueuesMatchStatus`, `PointsMatchLocals` are as for `conservative_bf`;
* `OnlyPriorityIsReserved`: at most one waiting job is in the profile, the one that `Priority` names: the head of the
  queue between messages, the former head (`before`) until the queue is sorted, the new one (`after`) from then on.  It is
  there but for two moments: while it is about to be inserted (`"priority"`), and when the queue is traversed from its head
  (`StillToTry`);
* `ReservationAhead`: the reservation begins at the present or later, not in the first slice, lasts for the walltime, and is on
  machines on which the selector would place the job again;
* `ReservationFollows`: the reservation follows another allocation, as for `conservative_bf`.  It does not when the jobs it followed
  have just been removed; then machines are free and `jobEnded` holds, so that the queue will be traversed
  from its head and the reservation made anew before the reply (`TraversalAhead`, `StillToTry`).  This is what makes the
  condition of `easy_bf.cpp:75` correct, which otherwise looks at new jobs only;
* `HorizonIsAhead`: no allocation ends later than the last submission plus one walltime for each job started, and one for the
  reservation.  Trial insertions do not count: they are removed in the step that made them.

`PresentIsFirst` and `ScheduleUpToDate` show what `update_first_slice` asserts and leaves; `PlacingKeepsSchedule` and `PlacingKeepsJobs` are about
a job taken from the queue and inserted, whether it starts or gets the reservation; `TrialLeavesNoTrace` is about a job inserted
and removed.  `TrialLeavesNoTrace` does not say that the slices are the same as before, only that every job has the
allocation it had.  `ReservationNeverPostponed` rests on `Reinsertion`, since a job that keeps the reservation is removed and inserted
again, at its own place at the latest.

`BackfillIsMaximal` needs an invariant of its own, `BackfillInv`, about the order fcfs; TLC has checked it with three jobs.

* `ArrivalOrder`: the queue is in the order of the jobs' numbers and of their releases, and what is released comes behind it.
  So sorting never replaces the priority job, and only new jobs are untried when no job has ended;
* `NewJobs`: what the locals of `make_decisions` say of this: a message begins without new jobs, and the whole queue is
  traversed only when a job has ended;
* `CountsFree`: the counter with which the loops stop early is never below the number of machines free in the first slice, so
  that a job they leave out is too large for them;
* `TriedInVain`: a job that need not be tried, or has been tried in this message, `CannotStart`: it does not fit on the machines that
  no allocation has from now until the job would end.

`CannotStart` speaks of allocations, not of slices, for two reasons.  A trial insertion changes the slices but no
allocation, by `TrialLeavesNoTrace`.  And it stays true (`StillCannotStart`) as long as the allocations stay, others are added and
time passes, that is until a job ends.  It follows from a trial in vain by `StartsIfFree`, and gives `BackfillIsMaximal` by the same theorem, applied to the
schedule after `update_first_slice`.

### The energy_bf family

`CallsPreventDeadlock` is proved without any fact about the schedule: whatever is planned, Batsim has an event to come if a job waits.
The invariant `CallsInv` has two halves.

* `energy_bf` and `energy_bf_dicho` request a call only when they must (`energy_bf.cpp:609`).  This is enough because the two counters of
  the condition are exact (`CountersAreExact`: the calls under way, requested or still to be heard, and the jobs served, ended ones
  still to be counted included), because a job that waits is not among the served ones
  (`ServedAreFewer`), and because `did_something` tells the truth: after a decision a job runs or a machine switches
  (`DecisionsHaveEffect`).  That a job which starts is one that waits rests on `QueuesAreWaiting`.
* The periodic variants do not ask that question.  The first release launches their calls, and each stage requests the next call
  unless they have been stopped (`CallsGoOn`).  This half holds for any books a handler may leave, so that it uses
  nothing of the stages and of `make_decisions` but that they make no job wait.

`NeverDeadlocks`, without the condition that the calls go on, is false: run `energy_bf_monitoring_calls`.  TLC has
checked `CallsInv` on the instance of the run `energy_bf_family`.

### The run loop with every algorithm

The property of the protocol writer, that no date decreases, is about the decisions of all algorithms, and
some of these are dated in the future or are written by a handler before `make_decisions`
is called.  `IInv == Types /\ Unread /\ DatesInOrder` (of `VariantsProofs`) is inductive:

* `DatesInOrder` says that the events of the inbox are in order and not after the clock; that
  `lastDate` is not after `until` while Batsim is at work, and neither is after the clock while a message is
  handled, because Batsim is silent until the date of the reply; and for `sequencer_dvfs`,
  whose handlers write decisions dated with the event, that the events still to be handled are not
  before `lastDate`;
* `Unread`: the accumulators are empty while Batsim is at work, when a message begins, and when
  `make_decisions` is to be skipped, since the only event then is a requested call, which leaves nothing;
* `Types`: every event, decision, accumulator and member of an algorithm has its type, per
  variant.  This is much more than a formality here: that each list of decisions is a list of
  records with a date needs the types of the queue that is sorted, of the jobs that
  are told to have ended, of what the four loops over machines of `sleeper` return, and
  that `released` and `ended` are jobs that Batsim has submitted.

There is one lemma `...Decides` per `make_decisions`: the decisions are of the right
type, dated in order and not before `lastDate`.
`Facts` has what they need: that `Selection` and `SortQueue` keep the
elements they are given, and that a recursive function over `0 .. n` is what its steps say
(`Recursion`), which the loops of `filler` over its queue and of `sequencer_dvfs` over the released jobs need.

### What the algorithms believe

The other properties of `Variants` relate what an algorithm keeps to a platform that applies its decisions
later and tells of their effects later still.  They all follow from one inductive invariant, `Books`
(in `VariantsBooksProofs`), which says what is true *at any moment*, with what is on its way counted in:

* `JobsOnce`: a waiting job is in exactly one place, an event still to be handled, the accumulator, the queue or a
  decision, and once there.  A decision about a job finds it waiting when its turn comes, or follows its registration if `submitter` does
  not wait for the acknowledgement.  This is what `Types` does not say, and no other part
  could be kept without it: a job told or queued twice would be started twice.
* `HandIsSound`: what was ended is done; nothing is in hand before the simulation begins; while batsched works
  nothing is left in the outbox but what `sequencer_dvfs` wrote in its handlers; and every decision in the outbox is `Legal`: it
  gives the machines that the books of the algorithm hold for the job.
* The books proper, about `InHand`: the jobs that run, that ended unheard, or are about to start.
  `killer`, `filler` and `submitter` have machines for exactly these, which are disjoint, and `available` is
  the rest (`AllocationBooks`).  The sequencers and `energy_watcher` have one or none, as their
  flag says (`OneAtATime`).  `killer2` forgets a job when it decides to kill it: the
  invariant says that a running job without machines is in the kills that Batsim carries out
  or is to be told, that kills come before the execution that waits for them, and that as long as
  one is pending this execution is dated in the future (`Killer2Soon`): so the execution, when applied, finds the machines free.
  Batsim lets time pass only when no kill is pending.
* `SleeperMachines`: `on` and `off` hold the machines that are told to move, move, or arrived unheard
  (`OnWay`), and all others are in the state their set says; one order at most is under way.
  The order is made of machines that were `available` or `asleep`, so it finds them idle.
* `FillerIsSound`: the machines down are those `filler` knows to be, corrected by the outages not yet heard of;
  and with no message to come nothing in its queue fits.  The loop over the queue gives this by
  `FillLeft`: a job that was skipped did not fit among more machines than are left at the end.
  While it decides Batsim is blocked and has told of every outage, so that what it takes away from the machines it may
  give to jobs are exactly the machines down (`GivesNoneUnavailable`).
* `SubmitterIsSound`: a profile in `sent` is registered or is so by a decision on its way, before any
  job that needs it.

The proof follows the shape of the system.  `Kinds` shows that every step is one of five kinds:
Batsim acts, a message is sent, an event is heard, a reply is written, or decisions are skipped.  `BatsimActs`, `Hears` and
`Obeys` then say in terms of jobs and machines what each kind does, over all its actions; `RepliesServe` has one lemma
(`...Serves`) per `make_decisions`.  Each part of `Books` has a lemma `...Step` over these.
`BooksMatchPlatform`, `SleeperSetsMatchPlatform` and `FillerLeavesNothing` (half of `FillerHeedsOutages`) are what `Books` says
when nothing is in the accumulators.  `DecisionsAreLegal` holds because the head of the outbox is `Legal` and
its job is in hand with no other, or apart from the others, by the books of the algorithm.

### Only model-checked

* Liveness (`EveryJobServed`, `EverySimulationEnds`): fairness and ENABLED are out of the prover's reach.
* Of the `Energy` modules everything but `CallsPreventDeadlock`, since the rest is about the schedule.  They also insert after a slice or a date and remove the last run of slices of a job, so that a job is no longer contiguous,
  which the lemmas of `Facts` about `Schedule` assume.  Moreover the program does not survive every order and option (runs `energy_bf_sedatable` and `energy_bf_delay`), so that
  a theorem about the periodic variants would first have to say for which.

## Plan

1. *done* `Batsim`, `ResourceManager`, `EasyBFFast` and its first proofs
2. *done* `FCFS` with the proof of its order, `Schedule`, `ConservativeBF`
3. *done* `RunLoop`, `Protocol`, `Killers`
4. *done* `Queue`, `EasyBF`, which implements `ResourceManager` too
5. *done* `Sleeper`, `Sequencers`, `Filler`, `Submitter`, `Watchers`, composed by `Variants`
6. *done* `EnergyBF`, `EnergyDichotomy`, `EnergyMonitoring`
7. *done* Proofs of all safety properties of `EasyBFFast` and `FCFS`; of the types and dates of `Variants`
8. *done* Proofs: the operations of `Schedule` keep a profile a partition of the future, then the
   properties and the refinement of `ConservativeBF`
9. *done* Proofs: the schedule, the reservation and the refinement of `EasyBF`, over the same facts
10. *done* Proofs: the books of `Variants`, the machine sets of `Sleeper`, and that Batsim can do what it is told
11. *done* Proofs: nothing more can be backfilled by `EasyBF`
12. *done* Proofs: no job of the `energy_bf` family waits in vain
13. Proofs: the schedule of the `Energy` modules, whose jobs are in several runs of slices

## Not modelled

* Of the `energy_bf` family: the metrics and energies of a schedule (`compute_metrics_of_schedule`,
  `estimate_energy_of_schedule`) and the liquid load horizon, sums in floating point of which the models
  keep the outcome of the comparisons; output files.
* Of `Locality`: the sedate and awaken selections of the contiguous selector; its
  selection of machines to awaken for a job fails its own assertions
  (`locality.cpp:112-248`).
* Of `Schedule`: removal of all occurrences and lookups by date, which the models do not need.
* `queueing_theory_waiting_time_estimator.cpp`: a floating-point formula, used by one descendant.
* `network.cpp` (socket I/O), JSON text, command line and creation of objects, the SVG
  and text dumps of schedules, the liquid load horizon plot, `PowerProbe` (cannot be selected as
  a variant), vendored code.
* `_nopped_recently` and the flag of the end of external events, which no algorithm reads.

`InertiaNeverDelaysPriority` is stated of the schedule after the switches: the
assertion at `energy_bf_monitoring_inertial_shutdown.cpp:1030` compares two plans between which no switch
has been entered, so that it holds whatever machines are chosen (it is among the assertions of `failed`).

The comment at `easy_bf.cpp:75`, that without an end one only needs to look at the new jobs,
is true of the order fcfs only (with another the priority job may change);
`BackfillIsMaximal` is therefore stated, and proved, of that order.
