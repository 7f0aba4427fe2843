-------------------------------- MODULE Variants -------------------------------
(***************************************************************************)
(* batsched with the algorithm that the command line selects: main.cpp     *)
(* builds one of them and run calls its handlers.                          *)
(***************************************************************************)
EXTENDS Killers, Sequencers, Filler, Sleeper, Submitter, Watchers

ASSUME VariantsAssumption == Variants \subseteq
  {"killer", "killer2", "sequencer", "crasher", "sequencer_dvfs", "filler",
   "sleeper", "submitter", "rejecter", "random", "waiting_time_estimator",
   "energy_watcher"}

OptionsOf(v) ==
  CASE v = "killer"         -> KillerOptions
    [] v = "killer2"        -> Killer2Options
    [] v = "sequencer"      -> SequencerOptions
    [] v = "crasher"        -> CrasherOptions
    [] v = "sequencer_dvfs" -> DVFSOptions
    [] v = "filler"         -> FillerOptions
    [] v = "sleeper"        -> SleeperOptions
    [] v = "submitter"      -> SubmitterOptions
    [] v = "energy_watcher" -> WatcherOptions
    [] OTHER                -> {<<>>}

\* The queue order matters to these.
Ordered(v) == v \notin {"rejecter", "random", "waiting_time_estimator",
                        "energy_watcher"}

Init ==
  /\ variant \in Variants
  /\ order \in IF Ordered(variant) THEN Orders ELSE {"fcfs"}
  /\ nopCalls \in IF variant = "sequencer_dvfs" THEN BOOLEAN ELSE {TRUE}
  /\ own \in OptionsOf(variant)
  /\ clock = 0
  /\ status = [j \in Jobs |-> "future"]
  /\ size = [j \in Jobs |-> IF j \in Dynamic THEN 1 ELSE 0]
  /\ walltime = [j \in Jobs |-> IF j \in Dynamic THEN DynamicRun ELSE 0]
  /\ placed = [j \in Jobs |-> {}]
  /\ deadline = [j \in Jobs |-> 0]
  /\ kills = <<>>
  /\ pstate = [m \in Machines |-> "fast"]
  /\ target = [m \in Machines |-> "fast"]
  /\ switchBy = [m \in Machines |-> 0]
  /\ calls = <<>>
  /\ down = {}
  /\ submitting = TRUE
  /\ budget = [jobs    |-> IF variant \in Lighter THEN NbStatic - 1 ELSE NbStatic,
               outages |-> IF variant = "filler" THEN MaxOutages ELSE 0,
               queries |-> IF variant = "waiting_time_estimator"
                             THEN MaxQueries ELSE 0]
  /\ registered = [profiles |-> {}, finished |-> 0,
                   expected |-> variant = "submitter",
                   acknowledged |->
                     IF variant = "submitter" THEN own.acknowledged ELSE TRUE]
  /\ ends = FALSE
  /\ pc = "batsim"
  /\ inbox = <<Event("SIMULATION_BEGINS")>>
  /\ handled = 0
  /\ outbox = <<>>
  /\ until = 0
  /\ lastDate = -1
  /\ recent = NothingRecent
  /\ noMoreStatic = FALSE
  /\ queue = <<>>
  /\ available = {}
  /\ allocations = [j \in Jobs |-> {}]

-------------------------------------------------------------------------------
\* What happens on the platform, and what Batsim does with the decisions.
Happening ==
  \/ \E j \in Static, r \in Requests, w \in Walltimes : Submit(j, r, w)
  \/ EndSubmissions
  \/ \E j \in Jobs : Complete(j)
  \/ FinishKill
  \/ \E p \in PStates, ms \in SUBSET Machines : FinishSwitch(ms, p)
  \/ \E k \in DOMAIN calls : Call(k)
  \/ \E m \in Machines : BreakDown(m)
  \/ \E m \in Machines : Repair(m)
  \/ \E j \in Static : AskWaitingTime(j)

Applying ==
  \/ ApplyExecute
  \/ ApplyReject
  \/ ApplyKill
  \/ ApplySetResourceState
  \/ ApplyCallMeLater
  \/ ApplyQueryConsumedEnergy
  \/ ApplyRegisterJob
  \/ ApplyRegisterProfile
  \/ ApplyFinishedSubmitting
  \/ ApplyOther

\* The handler of the next event: the one of the algorithm if it overrides it.
Overridden ==
  \/ CrashesAtEvent
  \/ variant = "sequencer_dvfs" /\ Current.type = "SIMULATION_BEGINS"
  \/ variant = "sequencer_dvfs" /\ Current.type = "REQUESTED_CALL"
  \/ variant = "sleeper" /\ Current.type = "SIMULATION_ENDS"

Receiving ==
  /\ Handling /\ ~Overridden
  /\ \/ ReceiveSimulationBegins
     \/ ReceiveJobSubmitted
     \/ ReceiveJobCompleted
     \/ ReceiveJobKilled
     \/ ReceiveResourceStateChanged
     \/ ReceiveAnswer
     \/ ReceiveQuery
     \/ ReceiveAvailable
     \/ ReceiveUnavailable
     \/ ReceiveNoMoreStaticJob
     \/ ReceiveSimulationEnds

ReceivingOverridden ==
  \/ CrasherCrashesAtEvent
  \/ DVFSReceiveSimulationBegins
  \/ DVFSReceiveRequestedCall
  \/ SleeperReceiveSimulationEnds

MakeDecisions ==
  \/ KillerMakeDecisions
  \/ Killer2MakeDecisions
  \/ SequencerMakeDecisions
  \/ CrasherMakeDecisions
  \/ DVFSMakeDecisions
  \/ FillerMakeDecisions
  \/ SleeperMakeDecisions
  \/ SubmitterMakeDecisions
  \/ RejecterMakeDecisions
  \/ WaitingTimeEstimatorMakeDecisions
  \/ RandomMakeDecisions
  \/ EnergyWatcherMakeDecisions

\* Both processes have stopped.
Stopped == pc \in {"over", "crashed"} /\ UNCHANGED vars

Next ==
  \/ Happening \/ Applying \/ Tick \/ Send \/ EndSimulation
  \/ Receiving \/ ReceivingOverridden
  \/ MakeDecisions \/ SkipDecisions
  \/ Stopped

Spec == Init /\ [][Next]_vars

\* Batsim and the handlers never stop while they can take a step, and
\* make_decisions, which always can, comes to its end: none of them waits for
\* anything but a message, and the loops of make_decisions run through finite
\* lists.
DecisionsEnd == Deciding /\ pc' \in {"batsim", "over", "crashed"}

FairSpec ==
  /\ Spec
  /\ WF_vars(\/ Happening \/ Applying \/ Tick \/ Send \/ EndSimulation
              \/ Receiving \/ ReceivingOverridden)
  /\ WF_pc(DecisionsEnd)

-------------------------------------------------------------------------------
(* Properties.                                                             *)

\* Decisions are written in the order of their dates, across the events and
\* make_decisions of a message and across messages, although some algorithms
\* decide for the future: no "Date inconsistency" assertion of protocol.cpp
\* fails, neither for a decision nor for the message itself.
DatesNeverDecrease ==
  [][ /\ DatesAreConsistent(SubSeq(outbox', Len(outbox) + 1, Len(outbox')),
                            lastDate)
      /\ until' >= until
      /\ until' # until => until' >= lastDate' ]_<<outbox, lastDate, until>>

\* Batsim can do what it is told.  A job is executed once, when it waits, on
\* machines that are awake and not used by another job, even one
\* whose kill was ordered before (random shares machines on purpose); it gets
\* as many machines as it asks for, or fewer with filler.  Only waiting jobs
\* are rejected.  Only idle machines are put to sleep or woken up.
DecisionsAreLegal ==
  [][ /\ \A j \in Jobs : status'[j] = "running" /\ status[j] # "running" =>
           /\ status[j] = "waiting"
           /\ placed'[j] # {}
           /\ IF variant = "filler" THEN Cardinality(placed'[j]) <= size[j]
                                    ELSE Cardinality(placed'[j]) = size[j]
           /\ \A m \in placed'[j] : pstate[m] # "asleep" /\ target[m] # "asleep"
           /\ variant # "random" => \A k \in Jobs : placed[k] \cap placed'[j] = {}
      /\ \A j \in Jobs : status'[j] = "rejected" /\ status[j] # "rejected" =>
           status[j] = "waiting"
      /\ \A m \in Machines :
           target'[m] # target[m] /\ "asleep" \in {target[m], target'[m]} =>
             /\ pstate[m] = target[m]
             /\ \A j \in Jobs : m \notin placed[j] ]_<<status, target>>

\* What an algorithm knows to be under way: a job that Batsim runs or is told
\* to run, or whose completion it has not told yet.
Completes(j) == \E k \in DOMAIN inbox :
  inbox[k].type = "JOB_COMPLETED" /\ inbox[k].jobs = <<j>>
Pending(type, j) == \E k \in DOMAIN outbox :
  outbox[k].type = type /\ outbox[k].job = j
UnderWay == {j \in Jobs : \/ status[j] = "running" \/ Completes(j)
                          \/ Pending("EXECUTE_JOB", j)}

\* Batsim is at work, after the first message.
BetweenMessages ==
  AtWork /\ \A k \in DOMAIN inbox : inbox[k].type # "SIMULATION_BEGINS"

\* Between two messages the books of an algorithm agree with the platform: no
\* machine is lost, none is given twice, no completion is forgotten.  killer2
\* forgets a job as soon as it decides to kill it.
BooksMatchPlatform ==
  BetweenMessages =>
    /\ variant \in {"killer", "filler", "submitter"} =>
         /\ {j \in Jobs : allocations[j] # {}} = UnderWay
         /\ available = Machines \ UNION {allocations[j] : j \in Jobs}
         /\ \A j, k \in Jobs : j # k => allocations[j] \cap allocations[k] = {}
    /\ variant = "killer2" =>
         /\ Cardinality(Occupying) <= 1
         /\ Occupying \subseteq UnderWay
         /\ \A j \in UnderWay \ Occupying : j \in ToSet(kills) \/ Completes(j)
                                             \/ Pending("KILL_JOB", j)
         /\ available = Machines \ UNION {allocations[j] : j \in Jobs}
    /\ variant \in {"sequencer", "crasher", "sequencer_dvfs"} =>
         own.running = (UnderWay # {})
    /\ variant = "energy_watcher" => own.busy = (UnderWay # {})
    /\ variant = "sleeper" => UnderWay = {own.job} \ {NullJob}

\* Between two messages nothing of an earlier message is left to be handled,
\* whether make_decisions was called or skipped.
NothingLeftUnread == AtWork => recent = NothingRecent

\* Batsim's view and sleeper's view of the power states differ only by what
\* was ordered or reported and is still on its way; every machine is in
\* one set, and as the sizes of the sets add up in exactly one.
Reported(p) == UNION {inbox[k].machines : k \in {i \in DOMAIN inbox :
    inbox[i].type = "RESOURCE_STATE_CHANGED" /\ inbox[i].state = p}}
ToldTo(p) == UNION {outbox[k].machines : k \in {i \in DOMAIN outbox :
    outbox[i].type = "SET_RESOURCE_STATE" /\ outbox[i].state = p}}

SleeperSetsMatchPlatform ==
  variant = "sleeper" /\ BetweenMessages =>
    /\ own.on = Switching("fast") \cup Reported("fast") \cup ToldTo("fast")
    /\ own.off = Switching("asleep") \cup Reported("asleep") \cup ToldTo("asleep")
    /\ \A m \in own.asleep : pstate[m] = "asleep"
    /\ available \cup own.computing \cup own.on \cup own.off \cup own.asleep = Machines
    /\ Cardinality(available) + Cardinality(own.computing) + Cardinality(own.on)
         + Cardinality(own.off) + Cardinality(own.asleep) = NbMachines

\* When filler has answered and nothing new is to be told, it knows exactly which
\* machines are unavailable, also when one came back and broke down again in the
\* same message, and no job that could start on the others is left in its queue,
\* whatever part of the machines the jobs before it were given.
FillerLeavesNothing ==
  variant = "filler" /\ BetweenMessages /\ inbox = <<>> =>
    /\ own.unavailable = down
    /\ \A j \in JobsOf(queue) : Fit(available \ down, size[j]) = {}

\* filler gives no job a machine that is unavailable, be it announced in an earlier
\* message or in the one that it answers: Batsim is blocked meanwhile and has told
\* of every outage, so that these machines are those that are down.
FillerSparesUnavailable ==
  [][ variant = "filler" /\ Deciding =>
        \A k \in Len(outbox) + 1 .. Len(outbox') :
          outbox'[k].type = "EXECUTE_JOB" => outbox'[k].machines \cap down = {} ]_outbox

\* filler heeds the outages: what it knows of them, what it gives to jobs and what it
\* leaves idle agree with the machines that are down, through any announcements.
FillerHeedsOutages ==
  /\ []FillerLeavesNothing
  /\ FillerSparesUnavailable

\* Batsim knows the profile of a job that the scheduler registers: it came
\* with the job or before it.
ProfilesAreKnown ==
  [][ \A j \in Dynamic : status[j] = "future" /\ status'[j] # "future" =>
        Decision.profile \in registered'.profiles ]_status

\* sequencer_dvfs.cpp:64 says of the next requested call: "Request a future
\* call at current date + period (unless simulation is about to finish)".  So a
\* call is on its way as long as a job runs.  The code decides before it knows
\* that a job released in the same message is about to run.
MonitoringGoesOn ==
  variant = "sequencer_dvfs" /\ BetweenMessages /\ own.running =>
    \/ calls # <<>>
    \/ \E k \in DOMAIN outbox : outbox[k].type = "CALL_ME_LATER"
    \/ \E k \in DOMAIN inbox : inbox[k].type \in {"REQUESTED_CALL",
                                                  "JOB_COMPLETED"}

\* Whatever happens on the platform, batsched leads the simulation to its end:
\* every job is executed or rejected and nothing is waited for in vain.
EverySimulationEnds == <>(pc \in {"over", "crashed"})
===============================================================================
