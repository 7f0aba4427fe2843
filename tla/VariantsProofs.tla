---------------------------- MODULE VariantsProofs ----------------------------
(***************************************************************************)
(* Proofs about the main loop and the algorithms it runs.  First the type  *)
(* invariant, with what every algorithm relies on about the jobs it is     *)
(* told of: their size is fixed for good, and a job in a queue can run on  *)
(* the platform.  Then what is left unread and the order of the dates.     *)
(***************************************************************************)
EXTENDS Variants, Facts

-------------------------------------------------------------------------------
(* Messages.                                                               *)

\* The jobs of an event: one, or none for a kill without effect.
OneJob == {<<j>> : j \in Jobs} \cup {<<>>}

Events ==
  [type : {"SIMULATION_BEGINS", "NO_MORE_STATIC_JOB", "REQUESTED_CALL",
           "SIMULATION_ENDS"}, date : Nat]
  \cup [type : {"JOB_SUBMITTED", "JOB_COMPLETED", "JOB_KILLED", "QUERY"},
        date : Nat, jobs : OneJob]
  \cup [type : {"RESOURCE_STATE_CHANGED", "AVAILABLE", "UNAVAILABLE"},
        date : Nat, machines : SUBSET Machines, state : PStates]
  \cup [type : {"ANSWER"}, date : Nat, consumed : Nat]

Decisions ==
  [type : {"EXECUTE_JOB"}, date : Nat, job : Jobs, machines : SUBSET Machines]
  \cup [type : {"REJECT_JOB", "KILL_JOB", "SET_JOB_METADATA", "ANSWER"},
        date : Nat, job : Jobs]
  \cup [type : {"SET_RESOURCE_STATE"}, date : Nat, machines : SUBSET Machines,
        state : PStates]
  \cup [type : {"CALL_ME_LATER"}, date : Nat, when : Nat]
  \cup [type : {"NOTIFY", "QUERY"}, date : Nat]
  \cup [type : {"REGISTER_JOB"}, date : Nat, job : Dynamic, profile : Nat,
        inlined : BOOLEAN]
  \cup [type : {"REGISTER_PROFILE"}, date : Nat, profile : Nat]

Accumulators ==
  [released : Seq(Jobs), ended : Seq(Jobs), killed : Seq(Jobs),
   queries : Seq(Jobs), switched : [PStates -> SUBSET Machines],
   backAgain : SUBSET Machines, gone : SUBSET Machines, consumed : Int]

\* The other members of the algorithm.
Members(v) ==
  CASE v = "killer"    -> [kills : Nat, delay : Nat]
    [] v = "sequencer" -> [running : BOOLEAN]
    [] v = "crasher"   -> [running : BOOLEAN, callNumber : Nat,
                           onStart : BOOLEAN, onEnd : BOOLEAN, onCall : Nat]
    [] v = "sequencer_dvfs" -> [running : BOOLEAN, fast : BOOLEAN,
                                machines : SUBSET Machines]
    [] v = "filler"    -> [unavailable : SUBSET Machines, fraction : 1 .. 100,
                           metadata : BOOLEAN]
    [] v = "sleeper"   -> [computing : SUBSET Machines, on : SUBSET Machines,
                           off : SUBSET Machines, asleep : SUBSET Machines,
                           job : Jobs \cup {NullJob}, finished : BOOLEAN]
    [] v = "submitter" -> [submitted : Nat, finishedSent : BOOLEAN,
                           sent : SUBSET Nat, acknowledged : BOOLEAN,
                           increase : BOOLEAN, again : BOOLEAN,
                           separate : BOOLEAN, metadata : BOOLEAN]
    [] v = "energy_watcher" -> [busy : BOOLEAN, previous : Int]
    [] OTHER           -> {<<>>}

-------------------------------------------------------------------------------
(* The invariant.                                                          *)

Statuses == {"future", "potential", "waiting", "running", "done", "rejected"}

PlatformTypes ==
  /\ clock \in Nat
  /\ status \in [Jobs -> Statuses]
  /\ size \in [Jobs -> Nat]
  /\ \A j \in Dynamic : size[j] = 1
  /\ walltime \in [Jobs -> Nat]
  /\ placed \in [Jobs -> SUBSET Machines]
  /\ kills \in Seq(Jobs)
  /\ pstate \in [Machines -> PStates]
  /\ target \in [Machines -> PStates]
  /\ down \in SUBSET Machines

SocketTypes ==
  /\ pc \in {"batsim", "events", "decide", "over", "crashed"}
  /\ inbox \in Seq(Events)
  /\ handled \in 0 .. Len(inbox)
  /\ outbox \in Seq(Decisions)
  /\ until \in Nat

LoopTypes ==
  /\ order \in QueueOrders
  /\ lastDate \in Int
  /\ recent \in Accumulators

AlgorithmTypes ==
  /\ queue \in Seq(Entries(Jobs))
  /\ available \in SUBSET Machines
  /\ allocations \in [Jobs -> SUBSET Machines]
  /\ own \in Members(variant)

\* The job was submitted: its size will not change.
Known(j)  == status[j] # "future" /\ size[j] > 0
Submitted == {j \in Jobs : Known(j)}
Runnable  == {j \in Jobs : Known(j) /\ IsValid(j)}

\* Jobs that are announced, accumulated or queued were submitted; those in
\* the queue can run on the platform.
KnownJobs ==
  /\ \A k \in 1 .. Len(inbox) : \A j \in Jobs :
       inbox[k].type = "JOB_SUBMITTED" /\ inbox[k].jobs = <<j>> => Known(j)
  /\ recent.released \in Seq(Submitted)
  /\ queue \in Seq(Entries(Runnable))

\* The events of a message are handled before anything is decided.
Turns ==
  /\ pc = "batsim" => handled = 0
  /\ pc = "events" => handled < Len(inbox)
  /\ pc = "decide" => inbox # <<>>

Types ==
  /\ PlatformTypes
  /\ SocketTypes
  /\ LoopTypes
  /\ AlgorithmTypes
  /\ KnownJobs
  /\ Turns

-------------------------------------------------------------------------------
(* The shapes of a step: most of what is proved here depends on where the  *)
(* two processes stand and not on what the algorithm decides.              *)

\* Something happens in Batsim: the scheduler does not move.
Quiet == AtWork /\ UNCHANGED <<pc, handled, until, schedVars>>

\* An event is handled; a requested call fills no accumulator.
HandlesEvent ==
  /\ Receives(Current.type)
  /\ recent' = recent \/ Current.type # "REQUESTED_CALL"

\* make_decisions answers.
Answers ==
  /\ Deciding /\ CallsMakeDecisions
  /\ \E decisions : Reply(decisions)

\* Every step has one of these shapes.
LEMMA Shapes ==
  ASSUME [Next]_vars
  PROVE  \/ Quiet
         \/ Send
         \/ HandlesEvent
         \/ Crash /\ pc \in {"events", "decide"}
         \/ Answers
         \/ SkipDecisions
         \/ UNCHANGED vars
<1>1. CASE Happening
  BY <1>1 DEF Happening, Submit, EndSubmissions, Complete, FinishKill,
       FinishSwitch, Call, BreakDown, Repair, AskWaitingTime, Happens, Quiet
<1>2. CASE Applying
  BY <1>2 DEF Applying, ApplyExecute, ApplyReject, ApplyKill,
       ApplySetResourceState, ApplyCallMeLater, ApplyQueryConsumedEnergy,
       ApplyRegisterJob, ApplyRegisterProfile, ApplyFinishedSubmitting,
       ApplyOther, Applies, Quiet
<1>3. CASE Tick \/ EndSimulation
  BY <1>3 DEF Tick, EndSimulation, Quiet, socketVars
<1>4. CASE Send
  BY <1>4
<1>5. CASE Receiving
  <2>1. CASE ReceiveSimulationBegins
    BY <2>1 DEF ReceiveSimulationBegins, loopVars, Receives, HandlesEvent
  <2>2. CASE ReceiveJobSubmitted
    BY <2>2 DEF ReceiveJobSubmitted, Accumulates, Receives, HandlesEvent
  <2>3. CASE ReceiveJobCompleted
    BY <2>3 DEF ReceiveJobCompleted, Accumulates, Receives, HandlesEvent
  <2>4. CASE ReceiveJobKilled
    BY <2>4 DEF ReceiveJobKilled, Accumulates, Receives, HandlesEvent
  <2>5. CASE ReceiveResourceStateChanged
    BY <2>5 DEF ReceiveResourceStateChanged, Accumulates, Receives, HandlesEvent
  <2>6. CASE ReceiveAnswer
    BY <2>6 DEF ReceiveAnswer, Accumulates, Receives, HandlesEvent
  <2>7. CASE ReceiveQuery
    BY <2>7 DEF ReceiveQuery, Accumulates, Receives, HandlesEvent
  <2>8. CASE ReceiveAvailable
    BY <2>8 DEF ReceiveAvailable, Accumulates, Receives, HandlesEvent
  <2>9. CASE ReceiveUnavailable
    BY <2>9 DEF ReceiveUnavailable, Accumulates, Receives, HandlesEvent
  <2>10. CASE ReceiveNoMoreStaticJob
    BY <2>10 DEF ReceiveNoMoreStaticJob, Receives, HandlesEvent
  <2>11. CASE ReceiveSimulationEnds
    BY <2>11 DEF ReceiveSimulationEnds, loopVars, Receives, HandlesEvent
  <2>. QED  BY <1>5, <2>1, <2>2, <2>3, <2>4, <2>5, <2>6, <2>7, <2>8, <2>9, <2>10, <2>11
            DEF Receiving
<1>6. CASE ReceivingOverridden
  <2>1. CASE CrasherCrashesAtEvent
    BY <2>1 DEF CrasherCrashesAtEvent, CrashesAtEvent, Handling
  <2>2. CASE DVFSReceiveSimulationBegins
    BY <2>2 DEF DVFSReceiveSimulationBegins, Receives, HandlesEvent
  <2>3. CASE DVFSReceiveRequestedCall
    BY <2>3 DEF DVFSReceiveRequestedCall, Receives, HandlesEvent
  <2>4. CASE SleeperReceiveSimulationEnds
    BY <2>4 DEF SleeperReceiveSimulationEnds, loopVars, Receives,
         HandlesEvent
  <2>. QED  BY <1>6, <2>1, <2>2, <2>3, <2>4 DEF ReceivingOverridden
<1>7. CASE MakeDecisions
  <2>1. CASE KillerMakeDecisions
    BY <2>1 DEF KillerMakeDecisions, Answers
  <2>2. CASE Killer2MakeDecisions
    BY <2>2 DEF Killer2MakeDecisions, Answers
  <2>3. CASE SequencerMakeDecisions
    BY <2>3 DEF SequencerMakeDecisions, SequencerDecides, Answers
  <2>4. CASE CrasherMakeDecisions
    BY <2>4 DEF CrasherMakeDecisions, SequencerDecides, Answers, Deciding
  <2>5. CASE DVFSMakeDecisions
    BY <2>5 DEF DVFSMakeDecisions, SequencerDecides, Answers
  <2>6. CASE FillerMakeDecisions
    BY <2>6 DEF FillerMakeDecisions, Answers
  <2>7. CASE SleeperMakeDecisions
    <3>1. \E d : Reply(d)
      <4>1. ASSUME NEW s, NEW j, RunFirst(s, j) \/ WakeUpFor(s, j) \/ SleepAll(s)
                                 \/ StayQuiet(s)
            PROVE  \E d : Reply(d)
        BY <4>1 DEF RunFirst, WakeUpFor, SleepAll, StayQuiet
      <4>. DEFINE s == SleeperUpdated
                  j == Head(SortedQueue).job
      <4>2. \/ RunFirst(s, j) \/ WakeUpFor(s, j) \/ SleepAll(s) \/ StayQuiet(s)
        BY <2>7 DEF SleeperMakeDecisions
      <4>. HIDE DEF s, j
      <4>. QED  BY <4>1, <4>2
    <3>. QED  BY <2>7, <3>1 DEF SleeperMakeDecisions, Answers
  <2>8. CASE SubmitterMakeDecisions
    BY <2>8 DEF SubmitterMakeDecisions, Answers
  <2>9. CASE RejecterMakeDecisions
    BY <2>9 DEF RejecterMakeDecisions, Stateless, Answers
  <2>10. CASE WaitingTimeEstimatorMakeDecisions
    BY <2>10 DEF WaitingTimeEstimatorMakeDecisions, Stateless, Answers
  <2>11. CASE RandomMakeDecisions
    BY <2>11 DEF RandomMakeDecisions, Stateless, Answers
  <2>12. CASE EnergyWatcherMakeDecisions
    BY <2>12 DEF EnergyWatcherMakeDecisions, Answers
  <2>. QED  BY <1>7, <2>1, <2>2, <2>3, <2>4, <2>5, <2>6, <2>7, <2>8, <2>9, <2>10,
               <2>11, <2>12 DEF MakeDecisions
<1>8. CASE SkipDecisions
  BY <1>8
<1>9. CASE Stopped \/ UNCHANGED vars
  BY <1>9 DEF Stopped
<1>. QED  BY <1>1, <1>2, <1>3, <1>4, <1>5, <1>6, <1>7, <1>8, <1>9 DEF Next

-------------------------------------------------------------------------------
(* Sequences.                                                              *)

\* Sequences over a larger set.
LEMMA LargerSet ==
  ASSUME NEW S, NEW T, S \subseteq T
  PROVE  Seq(S) \subseteq Seq(T)
  OBVIOUS

\* One or two elements at the end of a sequence.
LEMMA OneMore ==
  ASSUME NEW S, NEW s \in Seq(S), NEW e \in S
  PROVE  /\ s \o <<e>> \in Seq(S) /\ Len(s \o <<e>>) = Len(s) + 1
         /\ \A k \in 1 .. Len(s) : (s \o <<e>>)[k] = s[k]
         /\ (s \o <<e>>)[Len(s) + 1] = e
         /\ Append(s, e) \in Seq(S) /\ Len(Append(s, e)) = Len(s) + 1
         /\ \A k \in 1 .. Len(s) : Append(s, e)[k] = s[k]
         /\ Append(s, e)[Len(s) + 1] = e
  OBVIOUS

\* Two elements at the end of a sequence.
LEMMA TwoMore ==
  ASSUME NEW S, NEW s \in Seq(S), NEW e \in S, NEW f \in S
  PROVE  /\ s \o <<e, f>> \in Seq(S) /\ Len(s \o <<e, f>>) = Len(s) + 2
         /\ \A k \in 1 .. Len(s) : (s \o <<e, f>>)[k] = s[k]
         /\ (s \o <<e, f>>)[Len(s) + 1] = e
         /\ (s \o <<e, f>>)[Len(s) + 2] = f
  OBVIOUS

-------------------------------------------------------------------------------
(* Steps of Batsim.                                                        *)

\* Events are added at the end of the inbox, at the current date, and what
\* they announce as submitted was submitted.
Announces ==
  /\ inbox' \in Seq(Events)
  /\ Len(inbox) <= Len(inbox')
  /\ \A k \in 1 .. Len(inbox) : inbox'[k] = inbox[k]
  /\ \A k \in Len(inbox) + 1 .. Len(inbox') :
       /\ inbox'[k].date = clock
       /\ \A j \in Jobs :
            inbox'[k].type = "JOB_SUBMITTED" /\ inbox'[k].jobs = <<j>> => Known(j)'

\* Decisions are taken from the front of the outbox.
Consumes ==
  \/ UNCHANGED outbox
  \/ outbox # <<>> /\ outbox' = Tail(outbox) /\ outbox' \in Seq(Decisions)

\* The sizes of the submitted jobs are kept.
SizesKept == \A j \in Jobs : Known(j) => Known(j)' /\ size'[j] = size[j]

\* What Batsim does, seen from the scheduler.
BatsimMoves ==
  /\ Quiet
  /\ PlatformTypes'
  /\ clock <= clock'
  /\ SizesKept
  /\ Announces
  /\ Consumes

\* Adding nothing, one event or two.
LEMMA NothingAnnounced ==
  ASSUME inbox \in Seq(Events), UNCHANGED inbox
  PROVE  Announces
  BY LenProperties DEF Announces

\* One event is announced, at the current date.
LEMMA OneAnnounced ==
  ASSUME inbox \in Seq(Events), NEW e \in Events, e.date = clock,
         \/ inbox' = inbox \o <<e>>
         \/ inbox' = Append(inbox, e),
         \A j \in Jobs : e.type = "JOB_SUBMITTED" /\ e.jobs = <<j>> => Known(j)'
  PROVE  Announces
<1>1. /\ inbox' \in Seq(Events) /\ Len(inbox') = Len(inbox) + 1
      /\ \A k \in 1 .. Len(inbox) : inbox'[k] = inbox[k]
      /\ inbox'[Len(inbox) + 1] = e
  BY OneMore
<1>2. Len(inbox) \in Nat
  BY LenProperties
<1>. QED  BY <1>1, <1>2 DEF Announces

\* Two events are announced together: the end and the kill of a job.
LEMMA TwoAnnounced ==
  ASSUME inbox \in Seq(Events), NEW e \in Events, NEW f \in Events,
         e.date = clock, f.date = clock,
         inbox' = inbox \o <<e, f>>,
         e.type # "JOB_SUBMITTED", f.type # "JOB_SUBMITTED"
  PROVE  Announces
<1>1. /\ inbox' \in Seq(Events) /\ Len(inbox') = Len(inbox) + 2
      /\ \A k \in 1 .. Len(inbox) : inbox'[k] = inbox[k]
      /\ inbox'[Len(inbox) + 1] = e
      /\ inbox'[Len(inbox) + 2] = f
  BY TwoMore
<1>2. Len(inbox) \in Nat
  BY LenProperties
<1>3. ASSUME NEW k \in Len(inbox) + 1 .. Len(inbox')
      PROVE  inbox'[k].date = clock /\ inbox'[k].type # "JOB_SUBMITTED"
  <2>1. k = Len(inbox) + 1 \/ k = Len(inbox) + 2
    BY <1>1, <1>2
  <2>. QED  BY <1>1, <2>1
<1>. QED  BY <1>1, <1>2, <1>3 DEF Announces

\* What happens on the platform.
LEMMA HappeningMoves ==
  ASSUME PlatformTypes, SocketTypes, Happening
  PROVE  BatsimMoves
<1>. USE DEF Quiet, Happens, platformVars
<1>. inbox \in Seq(Events) /\ outbox \in Seq(Decisions) /\ clock \in Nat
  BY DEF SocketTypes, PlatformTypes
<1>0. ASSUME UNCHANGED outbox  PROVE Consumes
  BY <1>0 DEF Consumes
<1>a. \A t \in {"SIMULATION_BEGINS", "NO_MORE_STATIC_JOB", "REQUESTED_CALL",
                "SIMULATION_ENDS"} :
        Event(t) \in Events /\ Event(t).date = clock /\ Event(t).type = t
  BY DEF Event, Events
<1>b. \A t \in {"JOB_SUBMITTED", "JOB_COMPLETED", "JOB_KILLED", "QUERY"} :
        \A js \in OneJob :
        /\ JobEvent(t, js) \in Events /\ JobEvent(t, js).date = clock
        /\ JobEvent(t, js).type = t /\ JobEvent(t, js).jobs = js
  BY DEF JobEvent, Events
<1>c. \A t \in {"RESOURCE_STATE_CHANGED", "AVAILABLE", "UNAVAILABLE"} :
        \A ms \in SUBSET Machines, p \in PStates :
        /\ MachineEvent(t, ms, p) \in Events /\ MachineEvent(t, ms, p).date = clock
        /\ MachineEvent(t, ms, p).type = t
  BY DEF MachineEvent, Events
<1>d. \A j \in Jobs : <<j>> \in OneJob
  BY DEF OneJob
<1>1. ASSUME NEW j \in Static, NEW r \in Requests, NEW w \in Walltimes, Submit(j, r, w)
      PROVE  BatsimMoves
  <2>. DEFINE e == JobEvent("JOB_SUBMITTED", <<j>>)
  <2>1. j \in Jobs /\ r \in Nat \ {0} /\ w \in Nat
    BY RunLoopAssumption DEF Jobs
  <2>0. j \notin Dynamic
    BY RunLoopAssumption DEF Static, Dynamic
  <2>2. PlatformTypes'
    BY <1>1, <2>0, <2>1 DEF Submit, PlatformTypes, Statuses, Jobs
  <2>3. SizesKept /\ Known(j)'
    BY <1>1, <2>1 DEF Submit, PlatformTypes, SizesKept, Known
  <2>4. e \in Events /\ e.date = clock /\ e.jobs = <<j>> /\ inbox' = inbox \o <<e>>
    BY <1>1, <1>b, <1>d, <2>1 DEF Submit
  <2>. HIDE DEF e
  <2>5. Announces
    BY <2>3, <2>4, OneAnnounced
  <2>. QED  BY <1>1, <1>0, <2>2, <2>3, <2>5 DEF Submit, BatsimMoves
<1>2. CASE EndSubmissions
  <2>1. PlatformTypes' /\ SizesKept
    BY <1>2 DEF EndSubmissions, jobVars, PlatformTypes, SizesKept, Known
  <2>2. Announces
    BY <1>2, <1>a, OneAnnounced DEF EndSubmissions
  <2>. QED  BY <1>2, <1>0, <2>1, <2>2 DEF EndSubmissions, BatsimMoves
<1>3. ASSUME NEW j \in Jobs, Complete(j)
      PROVE  BatsimMoves
  <2>1. PlatformTypes' /\ SizesKept
    BY <1>3 DEF Complete, PlatformTypes, SizesKept, Known, Statuses
  <2>2. Announces
    BY <1>3, <1>b, <1>d, OneAnnounced DEF Complete
  <2>. QED  BY <1>3, <1>0, <2>1, <2>2 DEF Complete, BatsimMoves
<1>4. CASE FinishKill
  <2>. DEFINE j == Head(kills)
  <2>1. j \in Jobs /\ Tail(kills) \in Seq(Jobs)
    BY <1>4 DEF FinishKill, PlatformTypes
  <2>2. PlatformTypes' /\ SizesKept
    BY <1>4, <2>1 DEF FinishKill, PlatformTypes, SizesKept, Known, Statuses
  <2>3. ASSUME status[j] = "running"  PROVE Announces
    <3>. DEFINE e == JobEvent("JOB_COMPLETED", <<j>>)
                f == JobEvent("JOB_KILLED", <<j>>)
    <3>1. e \in Events /\ e.date = clock /\ e.type # "JOB_SUBMITTED"
      BY <2>1, <1>b, <1>d
    <3>2. f \in Events /\ f.date = clock /\ f.type # "JOB_SUBMITTED"
      BY <2>1, <1>b, <1>d
    <3>3. inbox' = inbox \o <<e, f>>
      BY <1>4, <2>3 DEF FinishKill
    <3>. HIDE DEF e, f
    <3>. QED  BY <3>1, <3>2, <3>3, TwoAnnounced
  <2>4. ASSUME status[j] # "running"  PROVE Announces
    <3>. DEFINE e == JobEvent("JOB_KILLED", <<>>)
    <3>1. e \in Events /\ e.date = clock /\ e.type # "JOB_SUBMITTED"
      BY <1>b DEF OneJob
    <3>2. inbox' = inbox \o <<e>>
      BY <1>4, <2>4 DEF FinishKill
    <3>. HIDE DEF e
    <3>. QED  BY <3>1, <3>2, OneAnnounced
  <2>. QED  BY <1>4, <1>0, <2>2, <2>3, <2>4 DEF FinishKill, BatsimMoves
<1>5. ASSUME NEW p \in PStates, NEW ms \in SUBSET Machines, FinishSwitch(ms, p)
      PROVE  BatsimMoves
  <2>1. PlatformTypes' /\ SizesKept
    BY <1>5 DEF FinishSwitch, jobVars, PlatformTypes, SizesKept, Known
  <2>2. Announces
    BY <1>5, <1>c, OneAnnounced DEF FinishSwitch
  <2>. QED  BY <1>5, <1>0, <2>1, <2>2 DEF FinishSwitch, BatsimMoves
<1>6. ASSUME NEW k \in DOMAIN calls, Call(k)
      PROVE  BatsimMoves
  <2>1. PlatformTypes' /\ SizesKept
    BY <1>6 DEF Call, jobVars, PlatformTypes, SizesKept, Known
  <2>2. Announces
    BY <1>6, <1>a, OneAnnounced DEF Call
  <2>. QED  BY <1>6, <1>0, <2>1, <2>2 DEF Call, BatsimMoves
<1>7. ASSUME NEW m \in Machines, BreakDown(m)
      PROVE  BatsimMoves
  <2>1. PlatformTypes' /\ SizesKept
    BY <1>7 DEF BreakDown, jobVars, PlatformTypes, SizesKept, Known
  <2>2. Announces
    BY <1>7, <1>c, OneAnnounced DEF BreakDown, PStates
  <2>. QED  BY <1>7, <1>0, <2>1, <2>2 DEF BreakDown, BatsimMoves
<1>8. ASSUME NEW m \in Machines, Repair(m)
      PROVE  BatsimMoves
  <2>1. PlatformTypes' /\ SizesKept
    BY <1>8 DEF Repair, jobVars, PlatformTypes, SizesKept, Known
  <2>2. Announces
    BY <1>8, <1>c, OneAnnounced DEF Repair, PStates
  <2>. QED  BY <1>8, <1>0, <2>1, <2>2 DEF Repair, BatsimMoves
<1>9. ASSUME NEW j \in Static, AskWaitingTime(j)
      PROVE  BatsimMoves
  <2>0. j \in Jobs
    BY DEF Jobs
  <2>1. PlatformTypes' /\ SizesKept
    BY <1>9, <2>0 DEF AskWaitingTime, PlatformTypes, SizesKept, Known, Statuses
  <2>2. Announces
    BY <1>9, <2>0, <1>b, <1>d, OneAnnounced DEF AskWaitingTime
  <2>. QED  BY <1>9, <1>0, <2>1, <2>2 DEF AskWaitingTime, BatsimMoves
<1>. QED  BY <1>1, <1>2, <1>3, <1>4, <1>5, <1>6, <1>7, <1>8, <1>9 DEF Happening


\* What Batsim does with the decisions.
LEMMA ApplyingMoves ==
  ASSUME PlatformTypes, SocketTypes, Applying
  PROVE  BatsimMoves
<1>. USE DEF Quiet, Applies, platformVars, Known
<1>. inbox \in Seq(Events) /\ outbox \in Seq(Decisions) /\ clock \in Nat
  BY DEF SocketTypes, PlatformTypes
<1>0. /\ Decision \in Decisions /\ Consumes
      /\ AtWork /\ UNCHANGED <<pc, handled, until, schedVars>>
      /\ Applies(Decision.type)
  <2>1. outbox # <<>> /\ outbox' = Tail(outbox)
        /\ AtWork /\ UNCHANGED <<pc, handled, until, schedVars>>
        /\ Applies(Decision.type)
    BY DEF Applying, ApplyExecute, ApplyReject, ApplyKill, ApplySetResourceState,
           ApplyCallMeLater, ApplyQueryConsumedEnergy, ApplyRegisterJob,
           ApplyRegisterProfile, ApplyFinishedSubmitting, ApplyOther
  <2>. QED  BY <2>1 DEF Decision, Consumes
<1>a. Decision.type \in {"EXECUTE_JOB", "REJECT_JOB", "KILL_JOB", "REGISTER_JOB"}
        => Decision.job \in Jobs
  BY <1>0 DEF Decisions, Jobs
<1>b. Decision.type = "EXECUTE_JOB" => Decision.machines \in SUBSET Machines
  BY <1>0 DEF Decisions
<1>c. Decision.type = "SET_RESOURCE_STATE" =>
        Decision.machines \in SUBSET Machines /\ Decision.state \in PStates
  BY <1>0 DEF Decisions
<1>1. CASE ApplyExecute
  <2>1. PlatformTypes' /\ SizesKept
    BY <1>1, <1>a, <1>b DEF ApplyExecute, PlatformTypes, SizesKept, Statuses
  <2>. QED  BY <1>0, <1>1, <2>1, NothingAnnounced DEF ApplyExecute, BatsimMoves
<1>2. CASE ApplyReject
  <2>1. PlatformTypes' /\ SizesKept
    BY <1>2, <1>a DEF ApplyReject, PlatformTypes, SizesKept, Statuses
  <2>. QED  BY <1>0, <1>2, <2>1, NothingAnnounced DEF ApplyReject, BatsimMoves
<1>3. CASE ApplyKill
  <2>1. PlatformTypes' /\ SizesKept
    BY <1>3, <1>a DEF ApplyKill, PlatformTypes, SizesKept
  <2>. QED  BY <1>0, <1>3, <2>1, NothingAnnounced DEF ApplyKill, BatsimMoves
<1>4. CASE ApplySetResourceState
  <2>. DEFINE e == MachineEvent("RESOURCE_STATE_CHANGED", Decision.machines,
                                Decision.state)
  <2>1. PlatformTypes' /\ SizesKept
    <3>1. /\ target' \in [Machines -> PStates] /\ pstate' \in [Machines -> PStates]
          /\ UNCHANGED <<clock, jobVars, down>>
      BY <1>4, <1>c DEF ApplySetResourceState, PlatformTypes
    <3>. QED  BY <3>1 DEF PlatformTypes, SizesKept, jobVars
  <2>2. inbox' = inbox \/ inbox' = Append(inbox, e)
    BY <1>4 DEF ApplySetResourceState
  <2>3. e \in Events /\ e.date = clock /\ e.type # "JOB_SUBMITTED"
    BY <1>4, <1>c DEF ApplySetResourceState, MachineEvent, Events
  <2>. HIDE DEF e
  <2>4. Announces
    BY <2>2, <2>3, OneAnnounced, NothingAnnounced
  <2>. QED  BY <1>0, <1>4, <2>1, <2>4 DEF ApplySetResourceState, BatsimMoves, PlatformTypes
<1>5. CASE ApplyCallMeLater
  <2>1. PlatformTypes' /\ SizesKept
    BY <1>5 DEF ApplyCallMeLater, jobVars, PlatformTypes, SizesKept
  <2>. QED  BY <1>0, <1>5, <2>1, NothingAnnounced DEF ApplyCallMeLater, BatsimMoves
<1>6. CASE ApplyQueryConsumedEnergy
  <2>1. PlatformTypes' /\ SizesKept
    BY <1>6 DEF ApplyQueryConsumedEnergy, jobVars, PlatformTypes, SizesKept
  <2>2. AnswerEvent(clock) \in Events /\ AnswerEvent(clock).date = clock
        /\ AnswerEvent(clock).type # "JOB_SUBMITTED"
    BY DEF AnswerEvent, Events
  <2>3. inbox' = Append(inbox, AnswerEvent(clock))
    BY <1>6 DEF ApplyQueryConsumedEnergy
  <2>4. Announces
    BY <2>2, <2>3, OneAnnounced
  <2>. QED  BY <1>0, <1>6, <2>1, <2>4 DEF ApplyQueryConsumedEnergy, BatsimMoves
<1>7. CASE ApplyRegisterJob
  <2>0. PICK j \in Dynamic : j = Decision.job
    BY <1>0, <1>7 DEF ApplyRegisterJob, Decisions
  <2>. DEFINE e == JobEvent("JOB_SUBMITTED", <<j>>)
  <2>1. PlatformTypes' /\ SizesKept
    BY <1>7, <1>a DEF ApplyRegisterJob, PlatformTypes, SizesKept, Statuses
  <2>2. e \in Events /\ e.date = clock /\ e.jobs = <<j>> /\ j \in Jobs
    BY DEF JobEvent, Events, OneJob, Jobs
  <2>3. inbox' = inbox \/ inbox' = Append(inbox, e)
    BY <1>7, <2>0 DEF ApplyRegisterJob
  <2>4. Known(j)'
    BY <1>7, <2>0, <2>2 DEF ApplyRegisterJob, PlatformTypes
  <2>5. \A i \in Jobs : e.type = "JOB_SUBMITTED" /\ e.jobs = <<i>> => Known(i)'
    BY <2>2, <2>4
  <2>. HIDE DEF e
  <2>6. Announces
    BY <2>2, <2>3, <2>5, OneAnnounced, NothingAnnounced
  <2>. QED  BY <1>0, <1>7, <2>1, <2>6 DEF ApplyRegisterJob, BatsimMoves
<1>8. CASE ApplyRegisterProfile
  <2>1. PlatformTypes' /\ SizesKept
    BY <1>8 DEF ApplyRegisterProfile, jobVars, PlatformTypes, SizesKept
  <2>. QED  BY <1>0, <1>8, <2>1, NothingAnnounced DEF ApplyRegisterProfile, BatsimMoves
<1>9. CASE ApplyFinishedSubmitting
  <2>1. PlatformTypes' /\ SizesKept
    BY <1>9 DEF ApplyFinishedSubmitting, jobVars, PlatformTypes, SizesKept
  <2>. QED  BY <1>0, <1>9, <2>1, NothingAnnounced DEF ApplyFinishedSubmitting, BatsimMoves
<1>10. CASE ApplyOther
  <2>1. PlatformTypes' /\ SizesKept
    BY <1>10 DEF ApplyOther, batsimVars, jobVars, PlatformTypes, SizesKept
  <2>. QED  BY <1>0, <1>10, <2>1, NothingAnnounced DEF ApplyOther, batsimVars, BatsimMoves
<1>. QED  BY <1>1, <1>2, <1>3, <1>4, <1>5, <1>6, <1>7, <1>8, <1>9, <1>10 DEF Applying

\* Time, and the end of the simulation.
LEMMA OtherMoves ==
  ASSUME PlatformTypes, SocketTypes, Tick \/ EndSimulation
  PROVE  BatsimMoves
<1>. inbox \in Seq(Events) /\ outbox \in Seq(Decisions) /\ clock \in Nat
  BY DEF SocketTypes, PlatformTypes
<1>1. CASE Tick
  <2>1. PlatformTypes' /\ SizesKept /\ clock <= clock'
    BY <1>1 DEF Tick, jobVars, platformVars, PlatformTypes, SizesKept, Known
  <2>. QED  BY <1>1, <2>1, NothingAnnounced
            DEF Tick, socketVars, Quiet, Consumes, BatsimMoves
<1>2. CASE EndSimulation
  <2>1. PlatformTypes' /\ SizesKept
    BY <1>2 DEF EndSimulation, jobVars, platformVars, PlatformTypes, SizesKept, Known
  <2>2. Event("SIMULATION_ENDS") \in Events /\ Event("SIMULATION_ENDS").date = clock
        /\ Event("SIMULATION_ENDS").type # "JOB_SUBMITTED"
    BY DEF Event, Events
  <2>3. inbox' = inbox \o <<Event("SIMULATION_ENDS")>>
    BY <1>2 DEF EndSimulation
  <2>4. Announces
    BY <2>2, <2>3, OneAnnounced
  <2>. QED  BY <1>2, <2>1, <2>4 DEF EndSimulation, Quiet, Consumes, BatsimMoves
<1>. QED  BY <1>1, <1>2


\* Nothing Batsim does takes away what the scheduler relies on.
LEMMA MovesKeepTypes ==
  ASSUME Types, BatsimMoves
  PROVE  Types'
<1>. USE DEF Types, BatsimMoves
<1>1. /\ AtWork /\ UNCHANGED <<pc, handled, until, variant, order, lastDate, recent,
                               queue, available, allocations, own>>
  BY DEF Quiet, schedVars, configVars, loopVars, algoVars
<1>2. /\ inbox' \in Seq(Events) /\ Len(inbox) \in Nat /\ Len(inbox') \in Nat
      /\ Len(inbox) <= Len(inbox')
  BY LenProperties DEF Announces, SocketTypes
<1>3. SocketTypes'
  BY <1>1, <1>2 DEF SocketTypes, Consumes
<1>4. LoopTypes' /\ AlgorithmTypes'
  BY <1>1 DEF LoopTypes, AlgorithmTypes
<1>5. \A j \in Jobs : Known(j) => Known(j)' /\ (IsValid(j) => IsValid(j)')
  BY DEF SizesKept, IsValid
<1>6. \A k \in 1 .. Len(inbox') : \A j \in Jobs :
        inbox'[k].type = "JOB_SUBMITTED" /\ inbox'[k].jobs = <<j>> => Known(j)'
  <2>. SUFFICES ASSUME NEW k \in 1 .. Len(inbox'), NEW j \in Jobs,
                       inbox'[k].type = "JOB_SUBMITTED", inbox'[k].jobs = <<j>>
                PROVE  Known(j)'
    OBVIOUS
  <2>1. CASE k \in 1 .. Len(inbox)
    BY <1>5, <2>1 DEF Announces, KnownJobs
  <2>2. CASE k \in Len(inbox) + 1 .. Len(inbox')
    BY <2>2 DEF Announces
  <2>. QED  BY <1>2, <2>1, <2>2
<1>7. Submitted \subseteq Submitted' /\ Runnable \subseteq Runnable'
  BY <1>5 DEF Submitted, Runnable
<1>8. recent'.released \in Seq(Submitted') /\ queue' \in Seq(Entries(Runnable'))
  <2>1. Entries(Runnable) \subseteq Entries(Runnable')
    BY <1>7 DEF Entries
  <2>2. recent.released \in Seq(Submitted) /\ queue \in Seq(Entries(Runnable))
    BY DEF KnownJobs
  <2>3. Seq(Submitted) \subseteq Seq(Submitted')
    BY <1>7, LargerSet
  <2>4. Seq(Entries(Runnable)) \subseteq Seq(Entries(Runnable'))
    BY <2>1, LargerSet
  <2>. QED  BY <1>1, <2>2, <2>3, <2>4
<1>9. KnownJobs'
  BY <1>6, <1>8 DEF KnownJobs
<1>10. Turns'
  BY <1>1 DEF Turns, AtWork
<1>. QED  BY <1>3, <1>4, <1>9, <1>10

\* Handling an event, for what it does to the accumulators, the outbox and the
\* members of the algorithm.
LEMMA HandlingKeepsTypes ==
  ASSUME Types, Receives(Current.type),
         outbox' \in Seq(Decisions), lastDate' \in Int,
         recent' \in Accumulators, AlgorithmTypes', UNCHANGED queue,
         recent'.released \in Seq(Submitted)
  PROVE  Types'
<1>. USE DEF Types
<1>1. /\ Handling /\ handled' = handled + 1
      /\ pc' = IF handled + 1 = Len(inbox) THEN "decide" ELSE "events"
      /\ UNCHANGED <<clock, status, size, walltime, placed, kills, pstate, target,
                     down, inbox, until, order>>
  BY DEF Receives, batsimVars, jobVars, platformVars, configVars
<1>2. Len(inbox) \in Nat /\ handled \in Nat /\ handled < Len(inbox)
  BY <1>1, LenProperties DEF Handling, SocketTypes
<1>3. PlatformTypes'
  BY <1>1 DEF PlatformTypes
<1>4. SocketTypes' /\ Turns'
  <2>1. pc' # "batsim" /\ inbox # <<>>
    BY <1>1, <1>2
  <2>2. pc' = "events" => handled' < Len(inbox')
    BY <1>1, <1>2
  <2>. QED  BY <1>1, <1>2, <2>1, <2>2 DEF SocketTypes, Turns
<1>5. LoopTypes'
  BY <1>1 DEF LoopTypes
<1>6. KnownJobs'
  <2>1. Submitted' = Submitted /\ Runnable' = Runnable
    BY <1>1 DEF Submitted, Runnable, Known, IsValid
  <2>. QED  BY <1>1, <2>1 DEF KnownJobs, Known
<1>. QED  BY <1>3, <1>4, <1>5, <1>6

\* The event being handled.
LEMMA CurrentEvent ==
  ASSUME Types, Handling
  PROVE  /\ Current \in Events
         /\ Current.date \in Nat
         /\ \A j \in Jobs : Current.type = "JOB_SUBMITTED" /\ Current.jobs = <<j>>
              => Known(j)
         /\ Current.type \in {"JOB_SUBMITTED", "JOB_COMPLETED", "JOB_KILLED", "QUERY"}
              => Current.jobs \in OneJob /\ Current.jobs \in Seq(Jobs)
         /\ Current.type \in {"RESOURCE_STATE_CHANGED", "AVAILABLE", "UNAVAILABLE"}
              => Current.machines \in SUBSET Machines /\ Current.state \in PStates
         /\ Current.type = "ANSWER" => Current.consumed \in Nat
<1>1. handled + 1 \in 1 .. Len(inbox) /\ inbox \in Seq(Events)
  BY LenProperties DEF Types, SocketTypes, Handling
<1>2. Current \in Events
  BY <1>1, ElementOfSeq DEF Current
<1>3. \A js \in OneJob : js \in Seq(Jobs)
  <2>1. \A j \in Jobs : <<j>> \in Seq(Jobs)
    OBVIOUS
  <2>2. <<>> \in Seq(Jobs)
    OBVIOUS
  <2>. QED  BY <2>1, <2>2 DEF OneJob
<1>4. \A j \in Jobs : Current.type = "JOB_SUBMITTED" /\ Current.jobs = <<j>> => Known(j)
  BY <1>1 DEF Current, Types, KnownJobs
<1>5. Current.date \in Nat
  BY <1>2 DEF Events
<1>6. Current.type \in {"JOB_SUBMITTED", "JOB_COMPLETED", "JOB_KILLED", "QUERY"}
        => Current.jobs \in OneJob
  BY <1>2 DEF Events
<1>7. Current.type \in {"RESOURCE_STATE_CHANGED", "AVAILABLE", "UNAVAILABLE"}
        => Current.machines \in SUBSET Machines /\ Current.state \in PStates
  BY <1>2 DEF Events
<1>8. Current.type = "ANSWER" => Current.consumed \in Nat
  BY <1>2 DEF Events
<1>. QED  BY <1>2, <1>3, <1>4, <1>5, <1>6, <1>7, <1>8

\* The handlers leave the members of the algorithm alone, but for the machines
\* given at the start.
LEMMA MembersKept ==
  ASSUME AlgorithmTypes, UNCHANGED <<variant, queue, allocations, own>>,
         available' \in SUBSET Machines
  PROVE  AlgorithmTypes'
  BY DEF AlgorithmTypes

\* The handlers of ISchedulingAlgorithm.
LEMMA ReceivingKeepsTypes ==
  ASSUME Types, Receiving
  PROVE  Types'
<1>. /\ Handling /\ recent \in Accumulators /\ outbox \in Seq(Decisions) /\ lastDate \in Int
     /\ recent.released \in Seq(Submitted)
     /\ AlgorithmTypes /\ available \in SUBSET Machines
  BY DEF Receiving, Types, LoopTypes, SocketTypes, KnownJobs, AlgorithmTypes
<1>1. Receives(Current.type)
  BY DEF Receiving, ReceiveSimulationBegins, ReceiveJobSubmitted, ReceiveJobCompleted,
         ReceiveJobKilled, ReceiveResourceStateChanged, ReceiveAnswer, ReceiveQuery,
         ReceiveAvailable, ReceiveUnavailable, ReceiveNoMoreStaticJob,
         ReceiveSimulationEnds, Receives
<1>2. UNCHANGED variant
  BY <1>1 DEF Receives, configVars
<1>a. ASSUME NEW a \in Accumulators, Accumulates(a),
             a.released = recent.released
      PROVE  Types'
  <2>1. recent' = a /\ UNCHANGED <<outbox, lastDate, queue, available, allocations, own>>
    BY <1>a DEF Accumulates, algoVars
  <2>2. AlgorithmTypes'
    BY <1>2, <2>1, MembersKept
  <2>3. recent'.released \in Seq(Submitted)
    BY <1>a, <2>1
  <2>. QED  BY <1>a, <1>1, <2>1, <2>2, <2>3, HandlingKeepsTypes
<1>b. ASSUME recent' = recent, UNCHANGED <<outbox, lastDate, queue, allocations, own>>,
             available' \in SUBSET Machines
      PROVE  Types'
  <2>1. AlgorithmTypes'
    BY <1>2, <1>b, MembersKept
  <2>2. recent'.released \in Seq(Submitted)
    BY <1>b
  <2>. QED  BY <1>b, <1>1, <2>1, <2>2, HandlingKeepsTypes
<1>3. CASE ReceiveSimulationBegins
  BY <1>3, <1>b DEF ReceiveSimulationBegins, loopVars
<1>4. CASE ReceiveJobSubmitted
  <2>. DEFINE a == [recent EXCEPT !.released = @ \o Current.jobs]
  <2>1. Current.jobs \in OneJob /\ Current.jobs \in Seq(Jobs)
        /\ \A j \in Jobs : Current.jobs = <<j>> => Known(j)
    BY <1>4, CurrentEvent DEF ReceiveJobSubmitted, Receives
  <2>2. recent.released \in Seq(Jobs)
    BY DEF Accumulators
  <2>0. recent.released \o Current.jobs \in Seq(Jobs)
    BY <2>1, <2>2
  <2>3. a \in Accumulators /\ a.released = recent.released \o Current.jobs
    BY <2>0 DEF Accumulators
  <2>4. recent' = a /\ UNCHANGED <<outbox, lastDate, queue, available, allocations, own>>
    BY <1>4 DEF ReceiveJobSubmitted, Accumulates, algoVars
  <2>5. a.released \in Seq(Submitted)
    <3>1. Current.jobs \in Seq(Submitted)
      <4>1. CASE Current.jobs = <<>>
        BY <4>1
      <4>2. ASSUME NEW j \in Jobs, Current.jobs = <<j>>
            PROVE  Current.jobs \in Seq(Submitted)
        <5>1. j \in Submitted
          BY <2>1, <4>2 DEF Submitted
        <5>. QED  BY <4>2, <5>1
      <4>. QED  BY <2>1, <4>1, <4>2 DEF OneJob
    <3>. HIDE DEF a
    <3>. QED  BY <2>3, <3>1
  <2>. HIDE DEF a
  <2>6. AlgorithmTypes'
    BY <1>2, <2>4, MembersKept
  <2>7. recent'.released \in Seq(Submitted)
    BY <2>4, <2>5
  <2>. QED  BY <1>1, <2>3, <2>4, <2>6, <2>7, HandlingKeepsTypes
<1>5. CASE ReceiveJobCompleted
  <2>. DEFINE a == [recent EXCEPT !.ended = @ \o Current.jobs]
  <2>1. Current.jobs \in Seq(Jobs)
    BY <1>5, CurrentEvent DEF ReceiveJobCompleted, Receives
  <2>. recent.ended \in Seq(Jobs)
    BY DEF Accumulators
  <2>3. recent.ended \o Current.jobs \in Seq(Jobs)
    BY <2>1
  <2>2. a \in Accumulators /\ a.released = recent.released
    BY <2>3 DEF Accumulators
  <2>. QED  BY <1>5, <1>a, <2>2 DEF ReceiveJobCompleted
<1>6. CASE ReceiveJobKilled
  <2>. DEFINE a == [recent EXCEPT !.killed = @ \o Current.jobs]
  <2>1. Current.jobs \in Seq(Jobs)
    BY <1>6, CurrentEvent DEF ReceiveJobKilled, Receives
  <2>. recent.killed \in Seq(Jobs)
    BY DEF Accumulators
  <2>3. recent.killed \o Current.jobs \in Seq(Jobs)
    BY <2>1
  <2>2. a \in Accumulators /\ a.released = recent.released
    BY <2>3 DEF Accumulators
  <2>. QED  BY <1>6, <1>a, <2>2 DEF ReceiveJobKilled
<1>7. CASE ReceiveResourceStateChanged
  <2>. DEFINE a == [recent EXCEPT !.switched[Current.state] = @ \cup Current.machines]
  <2>1. Current.machines \in SUBSET Machines /\ Current.state \in PStates
    BY <1>7, CurrentEvent DEF ReceiveResourceStateChanged, Receives
  <2>2. a \in Accumulators /\ a.released = recent.released
    BY <2>1 DEF Accumulators
  <2>. QED  BY <1>7, <1>a, <2>2 DEF ReceiveResourceStateChanged
<1>8. CASE ReceiveAnswer
  <2>. DEFINE a == [recent EXCEPT !.consumed = Current.consumed]
  <2>1. Current.consumed \in Int
    BY <1>8, CurrentEvent DEF ReceiveAnswer, Receives
  <2>2. a \in Accumulators /\ a.released = recent.released
    BY <2>1 DEF Accumulators
  <2>. QED  BY <1>8, <1>a, <2>2 DEF ReceiveAnswer
<1>9. CASE ReceiveQuery
  <2>. DEFINE a == [recent EXCEPT !.queries = @ \o Current.jobs]
  <2>1. Current.jobs \in Seq(Jobs)
    BY <1>9, CurrentEvent DEF ReceiveQuery, Receives
  <2>. recent.queries \in Seq(Jobs)
    BY DEF Accumulators
  <2>3. recent.queries \o Current.jobs \in Seq(Jobs)
    BY <2>1
  <2>2. a \in Accumulators /\ a.released = recent.released
    BY <2>3 DEF Accumulators
  <2>. QED  BY <1>9, <1>a, <2>2 DEF ReceiveQuery
<1>10. CASE ReceiveAvailable
  <2>. DEFINE a == [recent EXCEPT !.backAgain = @ \cup Current.machines]
  <2>1. Current.machines \in SUBSET Machines
    BY <1>10, CurrentEvent DEF ReceiveAvailable, Receives
  <2>2. a \in Accumulators /\ a.released = recent.released
    BY <2>1 DEF Accumulators
  <2>. QED  BY <1>10, <1>a, <2>2 DEF ReceiveAvailable
<1>11. CASE ReceiveUnavailable
  <2>. DEFINE a == [recent EXCEPT !.gone = @ \cup Current.machines]
  <2>1. Current.machines \in SUBSET Machines
    BY <1>11, CurrentEvent DEF ReceiveUnavailable, Receives
  <2>2. a \in Accumulators /\ a.released = recent.released
    BY <2>1 DEF Accumulators
  <2>. QED  BY <1>11, <1>a, <2>2 DEF ReceiveUnavailable
<1>12. CASE ReceiveNoMoreStaticJob
  <2>1. recent' = recent
        /\ UNCHANGED <<outbox, lastDate, queue, available, allocations, own>>
    BY <1>12 DEF ReceiveNoMoreStaticJob, algoVars
  <2>. QED  BY <1>b, <2>1
<1>13. CASE ReceiveSimulationEnds
  <2>1. recent' = recent
        /\ UNCHANGED <<outbox, lastDate, queue, available, allocations, own>>
    BY <1>13 DEF ReceiveSimulationEnds, loopVars, algoVars
  <2>. QED  BY <1>b, <2>1
<1>. QED  BY <1>3, <1>4, <1>5, <1>6, <1>7, <1>8, <1>9, <1>10, <1>11, <1>12, <1>13
          DEF Receiving


-------------------------------------------------------------------------------
(* Decisions and their dates.                                              *)

\* Decisions of a given date.
OnTime(date) == {d \in Decisions : d.date = date}

\* The append functions.
LEMMA DecisionTypes ==
  ASSUME NEW date \in Nat
  PROVE  /\ \A j \in Jobs : \A ms \in SUBSET Machines :
              ExecuteJob(j, ms, date) \in OnTime(date)
         /\ \A j \in Jobs : /\ RejectJob(j, date) \in OnTime(date)
                            /\ KillJob(j, date) \in OnTime(date)
                            /\ SetJobMetadata(j, date) \in OnTime(date)
                            /\ AnswerEstimateWaitingTime(j, date) \in OnTime(date)
         /\ \A ms \in SUBSET Machines : \A p \in PStates :
              SetResourceState(ms, p, date) \in OnTime(date)
         /\ \A when \in Nat : CallMeLater(when, date) \in OnTime(date)
         /\ SchedulerFinishedSubmitting(date) \in OnTime(date)
         /\ QueryConsumedEnergy(date) \in OnTime(date)
         /\ \A j \in Dynamic : \A profile \in Nat : \A inlined \in BOOLEAN :
              RegisterJob(j, profile, inlined, date) \in OnTime(date)
         /\ \A profile \in Nat : RegisterProfile(profile, date) \in OnTime(date)
  BY DEF OnTime, Decisions, ExecuteJob, RejectJob, KillJob, SetJobMetadata,
         AnswerEstimateWaitingTime, SetResourceState, CallMeLater,
         SchedulerFinishedSubmitting, QueryConsumedEnergy, RegisterJob,
         RegisterProfile

\* Decisions of one date, no earlier than the last one written.
LEMMA SameDate ==
  ASSUME NEW date \in Nat, NEW ds \in Seq(OnTime(date)), NEW low \in Int, low <= date
  PROVE  /\ ds \in Seq(Decisions)
         /\ \A k \in 1 .. Len(ds) : ds[k].date = date
         /\ DatesAreConsistent(ds, low)
         /\ DateAfter(ds, low) \in {low, date}
<1>1. Seq(OnTime(date)) \subseteq Seq(Decisions)
  BY LargerSet DEF OnTime
<1>2. \A k \in 1 .. Len(ds) : ds[k].date = date
  <2>1. \A k \in 1 .. Len(ds) : ds[k] \in OnTime(date)
    BY ElementOfSeq
  <2>. QED  BY <2>1 DEF OnTime
<1>3. DOMAIN ds = 1 .. Len(ds) /\ Len(ds) \in Nat /\ (ds # <<>> => Len(ds) \in 1 .. Len(ds))
  BY LenProperties
<1>4. DatesAreConsistent(ds, low)
  <2>. SUFFICES ASSUME NEW k \in 1 .. Len(ds)
                PROVE  ds[k].date >= IF k = 1 THEN low ELSE ds[k - 1].date
    BY <1>3 DEF DatesAreConsistent
  <2>1. ds[k].date = date
    BY <1>2
  <2>2. k # 1 => ds[k - 1].date = date
    BY <1>2, <1>3
  <2>. QED  BY <2>1, <2>2
<1>. QED  BY <1>1, <1>2, <1>3, <1>4 DEF DateAfter

\* Decisions of one date, followed by later ones.
LEMMA ThenLater ==
  ASSUME NEW date \in Nat, NEW a \in Seq(OnTime(date)),
         NEW b \in Seq(Decisions), DatesAreConsistent(b, date),
         NEW low \in Int, low <= date
  PROVE  /\ a \o b \in Seq(Decisions)
         /\ DatesAreConsistent(a \o b, low)
<1>. DEFINE c == a \o b
<1>1. a \in Seq(Decisions) /\ \A k \in 1 .. Len(a) : a[k].date = date
  BY SameDate
<1>2. /\ c \in Seq(Decisions) /\ DOMAIN c = 1 .. Len(a) + Len(b)
      /\ Len(a) \in Nat /\ Len(b) \in Nat /\ DOMAIN b = 1 .. Len(b)
      /\ \A k \in 1 .. Len(a) : c[k] = a[k]
      /\ \A k \in 1 .. Len(b) : c[Len(a) + k] = b[k]
  BY <1>1, ConcatProperties, LenProperties
<1>3. \A k \in 1 .. Len(b) :
        b[k].date >= IF k = 1 THEN date ELSE b[k - 1].date
  BY <1>2 DEF DatesAreConsistent
<1>4. \A k \in 1 .. Len(b) : b[k].date \in Int
  <2>1. \A k \in 1 .. Len(b) : b[k] \in Decisions
    BY ElementOfSeq
  <2>. QED  BY <2>1 DEF Decisions
<1>. HIDE DEF c
<1>5. ASSUME NEW k \in 1 .. Len(a) + Len(b)
      PROVE  c[k].date >= IF k = 1 THEN low ELSE c[k - 1].date
  <2>1. CASE k \in 1 .. Len(a)
    <3>1. c[k].date = date
      BY <1>1, <1>2, <2>1
    <3>2. CASE k = 1
      BY <3>1, <3>2
    <3>3. CASE k # 1
      <4>1. k - 1 \in 1 .. Len(a)
        BY <1>2, <2>1, <3>3
      <4>2. c[k - 1].date = date
        BY <1>1, <1>2, <4>1
      <4>. QED  BY <3>1, <3>3, <4>2
    <3>. QED  BY <3>2, <3>3
  <2>2. CASE k = Len(a) + 1
    <3>1. 1 \in 1 .. Len(b) /\ c[k] = b[1]
      BY <1>2, <2>2
    <3>2. b[1].date >= date /\ b[1].date \in Int
      BY <1>3, <1>4, <3>1
    <3>3. k # 1 => c[k - 1].date = date
      BY <1>1, <1>2, <2>2
    <3>. QED  BY <3>1, <3>2, <3>3
  <2>3. CASE k \in Len(a) + 2 .. Len(a) + Len(b)
    <3>. DEFINE i == k - Len(a)
    <3>1. i \in 2 .. Len(b) /\ k = Len(a) + i /\ k - 1 = Len(a) + (i - 1)
      BY <1>2, <2>3
    <3>2. i \in 1 .. Len(b) /\ i - 1 \in 1 .. Len(b) /\ i # 1 /\ k # 1
      BY <1>2, <2>3, <3>1
    <3>. HIDE DEF i
    <3>3. c[k] = b[i] /\ c[k - 1] = b[i - 1]
      BY <1>2, <3>1, <3>2
    <3>4. b[i].date >= b[i - 1].date
      BY <1>3, <3>2
    <3>. QED  BY <3>2, <3>3, <3>4
  <2>. QED  BY <1>2, <2>1, <2>2, <2>3
<1>6. DatesAreConsistent(c, low)
  BY <1>2, <1>5 DEF DatesAreConsistent
<1>. QED  BY <1>2, <1>6 DEF c

\* The decisions added to a message, and the date of the last one.
LEMMA Emitted ==
  ASSUME outbox \in Seq(Decisions), lastDate \in Int, NEW ds \in Seq(Decisions), Emit(ds)
  PROVE  /\ outbox' \in Seq(Decisions)
         /\ lastDate' \in Int
         /\ SubSeq(outbox', Len(outbox) + 1, Len(outbox')) = ds
<1>1. outbox' = outbox \o ds
  BY DEF Emit
<1>2. /\ outbox \o ds \in Seq(Decisions)
      /\ Len(outbox \o ds) = Len(outbox) + Len(ds)
      /\ Len(outbox) \in Nat /\ Len(ds) \in Nat
      /\ \A k \in 1 .. Len(ds) : (outbox \o ds)[Len(outbox) + k] = ds[k]
  BY ConcatProperties, LenProperties
<1>3. lastDate' \in Int
  <2>1. CASE ds = <<>>
    BY <2>1 DEF Emit, DateAfter
  <2>2. CASE ds # <<>>
    <3>1. ds[Len(ds)] \in Decisions
      BY <2>2, ElementOfSeq, LenProperties
    <3>2. ds[Len(ds)].date \in Int
      BY <3>1 DEF Decisions
    <3>. QED  BY <2>2, <3>2 DEF Emit, DateAfter
  <2>. QED  BY <2>1, <2>2
<1>4. SubSeq(outbox', Len(outbox) + 1, Len(outbox')) = ds
  <2>. DEFINE s == outbox \o ds
              m == Len(outbox)
              n == Len(ds)
              t == SubSeq(s, m + 1, m + n)
  <2>1. /\ s \in Seq(Decisions) /\ Len(s) = m + n /\ m \in Nat /\ n \in Nat
        /\ \A k \in 1 .. n : s[m + k] = ds[k]
    BY <1>2
  <2>. HIDE DEF s, m
  <2>2. t \in Seq(Decisions) /\ Len(t) = n /\ \A k \in 1 .. n : t[k] = ds[k]
    <3>. HIDE DEF n
    <3>. QED  BY <2>1
  <2>3. t = ds
    <3>. HIDE DEF t
    <3>. QED  BY <2>2, SeqEqual
  <2>. QED  BY <1>1, <2>1, <2>3 DEF s, m
<1>. QED  BY <1>1, <1>2, <1>3, <1>4


-------------------------------------------------------------------------------
(* The reply.                                                              *)

\* The later of two dates.
LEMMA LaterOfTwo ==
  ASSUME NEW a \in Int, NEW b \in Int
  PROVE  /\ Max({a, b}) \in {a, b}
         /\ Max({a, b}) >= a
         /\ Max({a, b}) >= b
<1>1. \E x \in {a, b} : \A y \in {a, b} : x >= y
  BY DEF Max
<1>. QED  BY <1>1 DEF Max

\* Nothing of what a reply leaves behind is unexpected, if the algorithm keeps
\* its members in order.
LEMMA AnswerKeepsTypes ==
  ASSUME Types, Deciding, AlgorithmTypes', queue' \in Seq(Entries(Runnable)),
         outbox' \in Seq(Decisions), lastDate' \in Int,
         recent' = NothingRecent, WriteReply
  PROVE  Types'
<1>. USE DEF Types
<1>1. /\ UNCHANGED <<clock, status, size, walltime, placed, kills, pstate, target,
                     down, order>>
      /\ inbox' = <<>> /\ handled' = 0 /\ pc' \in {"batsim", "over"}
      /\ until' = Max({clock, lastDate'})
  BY DEF WriteReply, batsimVars, jobVars, platformVars, configVars
<1>2. PlatformTypes'
  BY <1>1 DEF PlatformTypes
<1>3. until' \in Nat
  <2>1. clock \in Nat /\ lastDate' \in Int
    BY DEF PlatformTypes
  <2>2. clock \in Int
    BY <2>1
  <2>3. Max({clock, lastDate'}) \in {clock, lastDate'} /\ Max({clock, lastDate'}) >= clock
    BY <2>1, <2>2, LaterOfTwo, Zenon
  <2>. QED  BY <1>1, <2>1, <2>3
<1>4. SocketTypes' /\ Turns'
  <2>1. Len(inbox') = 0 /\ inbox' \in Seq(Events)
    BY <1>1
  <2>. QED  BY <1>1, <1>3, <2>1 DEF SocketTypes, Turns
<1>5. NothingRecent \in Accumulators /\ NothingRecent.released = <<>>
  BY DEF NothingRecent, Accumulators
<1>6. LoopTypes'
  BY <1>1, <1>5 DEF LoopTypes
<1>7. KnownJobs'
  <2>1. Submitted' = Submitted /\ Runnable' = Runnable
    BY <1>1 DEF Submitted, Runnable, Known, IsValid
  <2>2. Len(inbox') = 0
    BY <1>1
  <2>. QED  BY <1>5, <2>1, <2>2 DEF KnownJobs
<1>. QED  BY <1>2, <1>4, <1>6, <1>7

\* make_decisions is skipped.
LEMMA SkippingKeepsTypes ==
  ASSUME Types, SkipDecisions, recent = NothingRecent
  PROVE  Types'
<1>1. /\ UNCHANGED <<outbox, lastDate, recent, queue, available, allocations, own, variant>>
      /\ WriteReply /\ Deciding
  BY DEF SkipDecisions, algoVars, WriteReply, configVars
<1>2. /\ outbox' \in Seq(Decisions) /\ lastDate' \in Int
      /\ queue' \in Seq(Entries(Runnable))
  BY <1>1 DEF Types, SocketTypes, LoopTypes, KnownJobs
<1>3. AlgorithmTypes'
  BY <1>1, MembersKept DEF Types, AlgorithmTypes
<1>4. recent' = NothingRecent
  BY <1>1
<1>. QED  BY <1>1, <1>2, <1>3, <1>4, AnswerKeepsTypes

-------------------------------------------------------------------------------
(* What every algorithm has when it decides.                               *)

\* The queue after the removal of a job.
LEMMA Removed ==
  ASSUME NEW J, NEW q \in Seq(Entries(J)), NEW j
  PROVE  RemoveFromQueue(q, j) \in Seq(Entries(J))
<1>. DEFINE K == {k \in DOMAIN q : q[k].job # j}
<1>1. K \in SUBSET (1 .. Len(q))
  BY LenProperties
<1>. HIDE DEF K
<1>2. Selection(q, K) \in Seq(Entries(J))
  BY <1>1, SelectionElements
<1>. QED  BY <1>2 DEF RemoveFromQueue, K

\* The first entry of a queue.
LEMMA FirstOfQueue ==
  ASSUME NEW J, NEW q \in Seq(Entries(J)), q # <<>>
  PROVE  Head(q) \in Entries(J) /\ Head(q).job \in J /\ Tail(q) \in Seq(Entries(J))
<1>1. Head(q) \in Entries(J) /\ Tail(q) \in Seq(Entries(J))
  OBVIOUS
<1>. QED  BY <1>1 DEF Entries

\* A queue over the jobs J.
LEMMA QueueOver ==
  ASSUME NEW J \in SUBSET Jobs, NEW q \in Seq(Entries(Jobs)), JobsOf(q) \subseteq J
  PROVE  q \in Seq(Entries(J))
<1>1. DOMAIN q = 1 .. Len(q)
  BY LenProperties
<1>2. ASSUME NEW k \in 1 .. Len(q)
      PROVE  q[k] \in Entries(J)
  <2>1. q[k] \in Entries(Jobs)
    BY ElementOfSeq
  <2>2. q[k].job \in J
    BY <1>1 DEF JobsOf
  <2>. QED  BY <2>1, <2>2 DEF Entries
<1>. QED  BY <1>2, LenProperties

\* The released jobs, sorted out; the queue they join; the machines of the
\* jobs that ended.
LEMMA WhenDeciding ==
  ASSUME Types, Deciding
  PROVE  /\ EventDate \in Nat
         /\ Rejections(clock) \in Seq(OnTime(clock))
         /\ QueueWithReleased \in Seq(Entries(Runnable))
         /\ SortedQueue \in Seq(Entries(Runnable))
         /\ FreedMachines \in SUBSET Machines
         /\ WithoutEnded \in [Jobs -> SUBSET Machines]
<1>. USE DEF Types
<1>. DEFINE r == recent.released
            D == 1 .. Len(r)
<1>1. r \in Seq(Submitted) /\ DOMAIN r = D /\ Len(r) \in Nat /\ \A k \in D : r[k] \in Submitted
  BY ElementOfSeq, LenProperties DEF KnownJobs
<1>2. EventDate \in Nat
  <2>1. Len(inbox) \in 1 .. Len(inbox) /\ inbox \in Seq(Events)
    BY LenProperties DEF SocketTypes, Turns, Deciding
  <2>2. inbox[Len(inbox)] \in Events
    BY <2>1, ElementOfSeq
  <2>. QED  BY <2>2 DEF EventDate, Events
<1>3. Rejections(clock) \in Seq(OnTime(clock))
  <2>. DEFINE K == {k \in DOMAIN r : ~IsValid(r[k])}
              invalid == Selection(r, K)
  <2>1. K \in SUBSET D
    BY <1>1
  <2>. HIDE DEF r, K
  <2>2. invalid \in Seq(Submitted)
    BY <1>1, <2>1, SelectionElements DEF D
  <2>. HIDE DEF invalid
  <2>3. /\ DOMAIN invalid = 1 .. Len(invalid) /\ Len(invalid) \in Nat
        /\ \A k \in 1 .. Len(invalid) : invalid[k] \in Jobs
    BY <2>2, ElementOfSeq, LenProperties DEF Submitted
  <2>4. \A k \in 1 .. Len(invalid) : RejectJob(invalid[k], clock) \in OnTime(clock)
    BY <2>3, DecisionTypes DEF PlatformTypes
  <2>5. [k \in 1 .. Len(invalid) |-> RejectJob(invalid[k], clock)] \in Seq(OnTime(clock))
    BY <2>3, <2>4
  <2>. QED  BY <2>3, <2>5 DEF Rejections, invalid, K, r
<1>4. QueueWithReleased \in Seq(Entries(Runnable))
  <2>. DEFINE K == {k \in DOMAIN r : IsValid(r[k])}
              valid == Selection(r, K)
              entry(k) == [job |-> valid[k], release |-> EventDate]
  <2>1. K \in SUBSET D /\ \A k \in K : r[k] \in Runnable
    BY <1>1 DEF Submitted, Runnable
  <2>. HIDE DEF r, K
  <2>2. valid \in Seq(Submitted) /\ {valid[i] : i \in 1 .. Len(valid)} = {r[k] : k \in K}
    BY <1>1, <2>1, SelectionElements DEF D
  <2>. HIDE DEF valid
  <2>3. DOMAIN valid = 1 .. Len(valid) /\ Len(valid) \in Nat
    BY <2>2, LenProperties
  <2>4. \A k \in 1 .. Len(valid) : valid[k] \in Runnable
    BY <2>1, <2>2
  <2>5. \A k \in 1 .. Len(valid) : entry(k) \in Entries(Runnable)
    BY <1>2, <2>4 DEF Entries
  <2>6. [k \in 1 .. Len(valid) |-> entry(k)] \in Seq(Entries(Runnable))
    BY <2>3, <2>5
  <2>7. queue \in Seq(Entries(Runnable))
    BY DEF KnownJobs
  <2>8. queue \o [k \in 1 .. Len(valid) |-> entry(k)] \in Seq(Entries(Runnable))
    BY <2>6, <2>7, ConcatProperties
  <2>. QED  BY <2>3, <2>8 DEF QueueWithReleased, AppendJobs, valid, K, r
<1>5. SortedQueue \in Seq(Entries(Runnable))
  <2>. DEFINE q == QueueWithReleased
  <2>1. Runnable \in SUBSET Jobs /\ Jobs \in SUBSET Int
    BY RunLoopAssumption DEF Runnable, Jobs, Static, Dynamic
  <2>2. Entries(Runnable) \subseteq Entries(Jobs)
    BY <2>1 DEF Entries
  <2>3. q \in Seq(Entries(Jobs))
    BY <1>4, <2>2, LargerSet
  <2>4. JobsOf(q) \subseteq Runnable
    <3>1. DOMAIN q = 1 .. Len(q) /\ \A k \in 1 .. Len(q) : q[k] \in Entries(Runnable)
      BY <1>4, ElementOfSeq, LenProperties
    <3>. HIDE DEF q
    <3>. QED  BY <3>1 DEF JobsOf, Entries
  <2>5. order \in QueueOrders /\ size \in [Jobs -> Int] /\ walltime \in [Jobs -> Int]
        /\ EventDate \in Int
    BY <1>2 DEF LoopTypes, PlatformTypes
  <2>. HIDE DEF q
  <2>6. /\ SortQueue(order, size, walltime, EventDate, q) \in Seq(Entries(Jobs))
        /\ JobsOf(SortQueue(order, size, walltime, EventDate, q)) = JobsOf(q)
    BY <2>1, <2>3, <2>5, SortQueueElements
  <2>7. SortQueue(order, size, walltime, EventDate, q) \in Seq(Entries(Runnable))
    BY <2>1, <2>4, <2>6, QueueOver
  <2>. QED  BY <2>7 DEF SortedQueue, q
<1>6. FreedMachines \in SUBSET Machines /\ WithoutEnded \in [Jobs -> SUBSET Machines]
  <2>1. EndedJobs \subseteq Jobs
    <3>1. recent.ended \in Seq(Jobs)
      BY DEF LoopTypes, Accumulators
    <3>2. \A k \in 1 .. Len(recent.ended) : recent.ended[k] \in Jobs
      BY <3>1, ElementOfSeq
    <3>3. DOMAIN recent.ended = 1 .. Len(recent.ended)
      BY <3>1, LenProperties
    <3>. QED  BY <3>2, <3>3 DEF EndedJobs, ToSet
  <2>. QED  BY <2>1 DEF AlgorithmTypes, FreedMachines, WithoutEnded
<1>. QED  BY <1>2, <1>3, <1>4, <1>5, <1>6


-------------------------------------------------------------------------------
(* make_decisions of every algorithm.                                      *)

\* The members of the algorithm and its queue stay in order; its decisions are
\* dated in order, and for the present if it is sequencer_dvfs.
Decides ==
  /\ AlgorithmTypes'
  /\ queue' \in Seq(Entries(Runnable))
  /\ \E ds \in Seq(Decisions) :
       /\ Reply(ds)
       /\ DatesAreConsistent(ds, clock)
       /\ variant = "sequencer_dvfs" => ds \in Seq(OnTime(clock))

\* What an algorithm leaves in its members.
MembersInOrder ==
  /\ queue' \in Seq(Entries(Runnable))
  /\ available' \in SUBSET Machines
  /\ allocations' \in [Jobs -> SUBSET Machines]
  /\ own' \in Members(variant)

\* The types of the members, which hold the jobs of the queue among others.
LEMMA InOrderKeepsTypes ==
  ASSUME MembersInOrder, UNCHANGED variant
  PROVE  AlgorithmTypes'
<1>1. Entries(Runnable) \subseteq Entries(Jobs)
  BY DEF Entries, Runnable
<1>2. queue' \in Seq(Entries(Jobs))
  BY <1>1, LargerSet DEF MembersInOrder
<1>. QED  BY <1>2 DEF AlgorithmTypes, MembersInOrder

\* Decisions for the present only.
LEMMA DecidesNow ==
  ASSUME Types, MembersInOrder, NEW ds \in Seq(OnTime(clock)), Reply(ds)
  PROVE  Decides
<1>1. ds \in Seq(Decisions) /\ DatesAreConsistent(ds, clock)
  BY SameDate DEF Types, PlatformTypes
<1>2. AlgorithmTypes' /\ queue' \in Seq(Entries(Runnable))
  BY InOrderKeepsTypes DEF Reply, WriteReply, configVars, MembersInOrder
<1>. QED  BY <1>1, <1>2 DEF Decides

\* Decisions for the present, then for later.
LEMMA DecidesAhead ==
  ASSUME Types, MembersInOrder, variant # "sequencer_dvfs",
         NEW a \in Seq(OnTime(clock)), NEW b \in Seq(Decisions),
         DatesAreConsistent(b, clock), Reply(a \o b)
  PROVE  Decides
<1>1. a \o b \in Seq(Decisions) /\ DatesAreConsistent(a \o b, clock)
  BY ThenLater DEF Types, PlatformTypes
<1>2. AlgorithmTypes' /\ queue' \in Seq(Entries(Runnable))
  BY InOrderKeepsTypes DEF Reply, WriteReply, configVars, MembersInOrder
<1>. QED  BY <1>1, <1>2 DEF Decides

\* One decision, for the present or for later.
LEMMA OneLater ==
  ASSUME NEW date \in Nat, NEW later \in Nat, date <= later, NEW d \in OnTime(later)
  PROVE  <<d>> \in Seq(Decisions) /\ DatesAreConsistent(<<d>>, date)
<1>1. d \in Decisions /\ d.date = later
  BY DEF OnTime
<1>. QED  BY <1>1 DEF DatesAreConsistent

\* Two lists of decisions for the same date.
LEMMA BothOnTime ==
  ASSUME NEW date, NEW a \in Seq(OnTime(date)), NEW b \in Seq(OnTime(date))
  PROVE  a \o b \in Seq(OnTime(date))
  BY ConcatProperties

\* A job that can run has a size, and a place if the selector finds one.
LEMMA SizeOfRunnable ==
  ASSUME Types, NEW j \in Runnable
  PROVE  /\ j \in Jobs /\ size[j] \in 1 .. NbMachines
         /\ \A ms \in SUBSET Machines : Fit(ms, size[j]) \in SUBSET ms
         /\ Left(Machines, size[j]) \in SUBSET Machines
<1>1. j \in Jobs /\ size[j] \in 1 .. NbMachines
  BY RunLoopAssumption DEF Runnable, Known, IsValid, Types, PlatformTypes
<1>2. \A ms \in SUBSET Machines : Fit(ms, size[j]) \in SUBSET ms
  BY <1>1, FitAssumption
<1>3. Cardinality(Machines) = NbMachines
  <2>1. NbMachines - 1 \in Int /\ 0 \in Int /\ 0 <= NbMachines - 1
    BY RunLoopAssumption
  <2>2. Cardinality(0 .. NbMachines - 1) = (NbMachines - 1) - 0 + 1
    BY <2>1, FS_Interval
  <2>. QED  BY <2>2, RunLoopAssumption DEF Machines
<1>4. Left(Machines, size[j]) \in SUBSET Machines
  BY <1>1, <1>3, LeftAssumption
<1>. QED  BY <1>1, <1>2, <1>4

\* The planned kills are in order.
LEMMA PlannedKillsInOrder ==
  ASSUME Types, variant = "killer", NEW j \in Jobs
  PROVE  /\ PlannedKills(j, clock) \in Seq(Decisions)
         /\ DatesAreConsistent(PlannedKills(j, clock), clock)
<1>1. own.kills \in Nat /\ own.delay \in Nat /\ clock \in Nat
  BY DEF Types, AlgorithmTypes, PlatformTypes, Members
<1>. DEFINE n == own.kills
            d == own.delay
            later(k) == clock + k * d
<1>2. \A k \in Nat : later(k) \in Nat /\ later(k + 1) >= later(k)
  BY <1>1
<1>3. later(0) = clock
  BY <1>1
<1>. HIDE DEF later, n
<1>4. \A k \in 1 .. n : KillJob(j, later(k)) \in Decisions
  BY <1>1, <1>2, DecisionTypes DEF OnTime, n
<1>. DEFINE s == [k \in 1 .. n |-> KillJob(j, later(k))]
<1>5. s \in Seq(Decisions) /\ DOMAIN s = 1 .. n
  BY <1>1, <1>4 DEF n
<1>6. \A k \in 1 .. n : s[k].date = later(k)
  BY DEF KillJob
<1>. HIDE DEF s
<1>7. ASSUME NEW k \in 1 .. n
      PROVE  s[k].date >= IF k = 1 THEN clock ELSE s[k - 1].date
  <2>1. k - 1 \in Nat /\ (k # 1 => k - 1 \in 1 .. n) /\ k = (k - 1) + 1
    BY <1>1 DEF n
  <2>2. later(k) >= later(k - 1)
    BY <1>2, <2>1
  <2>3. s[k].date = later(k) /\ (k # 1 => s[k - 1].date = later(k - 1))
    BY <1>6, <2>1
  <2>4. k = 1 => later(k - 1) = clock
    BY <1>3
  <2>. QED  BY <2>2, <2>3, <2>4
<1>8. DatesAreConsistent(s, clock)
  BY <1>5, <1>7 DEF DatesAreConsistent
<1>9. PlannedKills(j, clock) = s
  BY DEF PlannedKills, s, n, later
<1>. QED  BY <1>5, <1>8, <1>9

\* killer: the kills follow the execution, each later than the one before.
LEMMA KillerDecides ==
  ASSUME Types, KillerMakeDecisions
  PROVE  Decides
<1>0. variant = "killer" /\ Deciding /\ own' = own
  BY DEF KillerMakeDecisions
<1>1. /\ Rejections(clock) \in Seq(OnTime(clock))
      /\ SortedQueue \in Seq(Entries(Runnable))
      /\ FreedMachines \in SUBSET Machines
      /\ WithoutEnded \in [Jobs -> SUBSET Machines]
  BY <1>0, WhenDeciding
<1>2. own' \in Members(variant) /\ clock \in Nat
  BY <1>0 DEF Types, AlgorithmTypes, PlatformTypes
<1>. DEFINE q      == SortedQueue
            first  == Head(q).job
            alloc  == Fit(FreedMachines, size[first])
            starts == q # <<>> /\ alloc # {}
<1>3. CASE starts
  <2>1. first \in Runnable
    BY <1>1, <1>3, FirstOfQueue
  <2>2. first \in Jobs /\ alloc \in SUBSET FreedMachines
    BY <1>1, <2>1, SizeOfRunnable
  <2>3. /\ available' = FreedMachines \ alloc
        /\ allocations' = [WithoutEnded EXCEPT ![first] = alloc]
        /\ queue' = RemoveFromQueue(q, first)
        /\ Reply(Rejections(clock) \o <<ExecuteJob(first, alloc, clock)>>
                   \o PlannedKills(first, clock))
    BY <1>3 DEF KillerMakeDecisions
  <2>. HIDE DEF q, first, alloc
  <2>4. queue' \in Seq(Entries(Runnable))
    BY <1>1, <2>3, Removed DEF q
  <2>5. MembersInOrder
    BY <1>1, <1>2, <2>2, <2>3, <2>4 DEF MembersInOrder
  <2>6. ExecuteJob(first, alloc, clock) \in OnTime(clock)
    BY <1>1, <1>2, <2>2, DecisionTypes
  <2>7. Rejections(clock) \o <<ExecuteJob(first, alloc, clock)>> \in Seq(OnTime(clock))
    BY <1>1, <2>6, OneMore
  <2>. QED  BY <1>0, <2>2, <2>3, <2>5, <2>7, PlannedKillsInOrder, DecidesAhead
<1>4. CASE ~starts
  <2>1. /\ available' = FreedMachines
        /\ allocations' = WithoutEnded
        /\ queue' = q
        /\ Reply(Rejections(clock))
    BY <1>4 DEF KillerMakeDecisions
  <2>2. MembersInOrder
    BY <1>1, <1>2, <2>1 DEF MembersInOrder
  <2>. QED  BY <1>1, <2>1, <2>2, DecidesNow
<1>. QED  BY <1>3, <1>4

\* There are finitely many jobs.
LEMMA JobsFinite == IsFiniteSet(Jobs)
<1>1. IsFiniteSet(Static)
  BY RunLoopAssumption, FS_Interval DEF Static
<1>2. IsFiniteSet(Dynamic)
  BY RunLoopAssumption, FS_Interval DEF Dynamic
<1>. QED  BY <1>1, <1>2, FS_Union DEF Jobs

\* killer2: the kill of the running job, then an execution a few seconds later.
LEMMA Killer2Decides ==
  ASSUME Types, Killer2MakeDecisions
  PROVE  Decides
<1>0. variant = "killer2" /\ Deciding /\ own' = own
  BY DEF Killer2MakeDecisions
<1>1. /\ Rejections(clock) \in Seq(OnTime(clock))
      /\ SortedQueue \in Seq(Entries(Runnable))
      /\ FreedMachines \in SUBSET Machines
      /\ WithoutEnded \in [Jobs -> SUBSET Machines]
  BY <1>0, WhenDeciding
<1>2. own' \in Members(variant) /\ clock \in Nat
  BY <1>0 DEF Types, AlgorithmTypes, PlatformTypes
<1>. DEFINE q         == SortedQueue
            first     == Head(q).job
            reclaimed == FreedMachines \cup UNION {allocations[j] : j \in Occupying}
            alloc     == Fit(reclaimed, size[first])
<1>3. CASE q # <<>>
  <2>1. first \in Runnable
    BY <1>1, <1>3, FirstOfQueue
  <2>2. reclaimed \in SUBSET Machines
    BY <1>1 DEF Types, AlgorithmTypes, Occupying
  <2>3. first \in Jobs /\ alloc \in SUBSET reclaimed
    BY <2>1, <2>2, SizeOfRunnable
  <2>4. /\ available' = reclaimed \ alloc
        /\ allocations' = [j \in Jobs |-> IF j = first THEN alloc ELSE {}]
        /\ queue' = RemoveFromQueue(q, first)
        /\ Reply(Rejections(clock) \o Preempt(clock)
                   \o <<ExecuteJob(first, alloc, ExecutionDate(clock))>>)
    BY <1>3 DEF Killer2MakeDecisions
  <2>. HIDE DEF q, first, alloc, reclaimed
  <2>5. queue' \in Seq(Entries(Runnable))
    BY <1>1, <2>4, Removed DEF q
  <2>6. MembersInOrder
    BY <1>2, <2>2, <2>3, <2>4, <2>5 DEF MembersInOrder
  <2>7. Preempt(clock) \in Seq(OnTime(clock))
    <3>. DEFINE j == CHOOSE j \in Occupying : TRUE
    <3>1. Cardinality(Occupying) \in Nat /\ (Occupying = {} => Cardinality(Occupying) = 0)
      BY JobsFinite, FS_Subset, FS_CardinalityType, FS_EmptySet DEF Occupying
    <3>2. Occupying # {} => j \in Jobs
      BY DEF Occupying
    <3>. HIDE DEF j
    <3>3. \A k \in 1 .. Cardinality(Occupying) : KillJob(j, clock) \in OnTime(clock)
      BY <1>2, <3>1, <3>2, DecisionTypes
    <3>. QED  BY <3>1, <3>3 DEF Preempt, j
  <2>8. ExecutionDate(clock) \in Nat /\ clock <= ExecutionDate(clock)
    BY <1>2, KillersAssumption DEF ExecutionDate
  <2>9. ExecuteJob(first, alloc, ExecutionDate(clock)) \in OnTime(ExecutionDate(clock))
    BY <2>2, <2>3, <2>8, DecisionTypes
  <2>10. /\ <<ExecuteJob(first, alloc, ExecutionDate(clock))>> \in Seq(Decisions)
         /\ DatesAreConsistent(<<ExecuteJob(first, alloc, ExecutionDate(clock))>>, clock)
    BY <1>2, <2>8, <2>9, OneLater
  <2>11. Rejections(clock) \o Preempt(clock) \in Seq(OnTime(clock))
    BY <1>1, <2>7, BothOnTime
  <2>. QED  BY <1>0, <2>4, <2>6, <2>10, <2>11, DecidesAhead
<1>4. CASE q = <<>>
  <2>1. /\ available' = FreedMachines
        /\ allocations' = WithoutEnded
        /\ queue' = <<>>
        /\ Reply(Rejections(clock))
    BY <1>4 DEF Killer2MakeDecisions
  <2>2. MembersInOrder
    BY <1>1, <1>2, <1>4, <2>1 DEF MembersInOrder
  <2>. QED  BY <1>1, <2>1, <2>2, DecidesNow
<1>. QED  BY <1>3, <1>4

\* The make_decisions that the sequencers share: one job at a time, and
\* decisions for the present only.
LEMMA SequencersDecide ==
  ASSUME Types, Deciding, NEW members, SequencerDecides(members),
         \A b \in BOOLEAN : [members EXCEPT !.running = b] \in Members(variant)
  PROVE  Decides
<1>1. /\ Rejections(clock) \in Seq(OnTime(clock))
      /\ SortedQueue \in Seq(Entries(Runnable))
  BY WhenDeciding
<1>2. /\ clock \in Nat
      /\ available \in SUBSET Machines
      /\ allocations \in [Jobs -> SUBSET Machines]
  BY DEF Types, AlgorithmTypes, PlatformTypes
<1>3. own' \in Members(variant) /\ available' = available /\ allocations' = allocations
  <2>1. (StillRunning \/ StartsNext) \in BOOLEAN
    BY DEF StillRunning, StartsNext
  <2>. QED  BY <2>1 DEF SequencerDecides
<1>. DEFINE q     == SortedQueue
            start == ExecuteJob(NextJob, Left(Machines, size[NextJob]), clock)
<1>4. CASE StartsNext
  <2>1. NextJob \in Runnable
    BY <1>1, <1>4, FirstOfQueue DEF StartsNext, NextJob
  <2>2. start \in OnTime(clock)
    BY <1>2, <2>1, SizeOfRunnable, DecisionTypes
  <2>3. queue' = RemoveFromQueue(q, NextJob) /\ Reply(Rejections(clock) \o <<start>>)
    BY <1>4 DEF SequencerDecides
  <2>4. MembersInOrder
    BY <1>1, <1>2, <1>3, <2>3, Removed DEF MembersInOrder
  <2>5. Rejections(clock) \o <<start>> \in Seq(OnTime(clock))
    BY <1>1, <2>2, OneMore
  <2>. QED  BY <2>3, <2>4, <2>5, DecidesNow
<1>5. CASE ~StartsNext
  <2>1. queue' = q /\ Reply(Rejections(clock) \o <<>>)
    BY <1>5 DEF SequencerDecides
  <2>2. Rejections(clock) \o <<>> \in Seq(OnTime(clock))
    BY <1>1
  <2>3. MembersInOrder
    BY <1>1, <1>2, <1>3, <2>1 DEF MembersInOrder
  <2>. QED  BY <2>1, <2>2, <2>3, DecidesNow
<1>. QED  BY <1>4, <1>5

\* sequencer, crasher and sequencer_dvfs.
LEMMA SequencerVariantsDecide ==
  ASSUME Types,
         \/ SequencerMakeDecisions
         \/ CrasherMakeDecisions /\ pc' # "crashed"
         \/ DVFSMakeDecisions
  PROVE  Decides
<1>1. own \in Members(variant)
  BY DEF Types, AlgorithmTypes
<1>2. CASE SequencerMakeDecisions
  <2>1. \A b \in BOOLEAN : [own EXCEPT !.running = b] \in Members(variant)
    BY <1>1, <1>2 DEF SequencerMakeDecisions, Members
  <2>. QED  BY <1>2, <2>1, SequencersDecide DEF SequencerMakeDecisions
<1>3. CASE CrasherMakeDecisions /\ pc' # "crashed"
  <2>. DEFINE members == [own EXCEPT !.callNumber = @ + 1]
  <2>1. Deciding /\ variant = "crasher" /\ SequencerDecides(members)
    BY <1>3 DEF CrasherMakeDecisions, Crash
  <2>2. members \in Members("crasher")
    BY <1>1, <2>1 DEF Members
  <2>. HIDE DEF members
  <2>3. \A b \in BOOLEAN : [members EXCEPT !.running = b] \in Members(variant)
    BY <2>1, <2>2 DEF Members
  <2>. QED  BY <2>1, <2>3, SequencersDecide
<1>4. CASE DVFSMakeDecisions
  <2>. DEFINE members == IF StartsNext
                           THEN [own EXCEPT !.machines = Left(Machines, size[NextJob])]
                           ELSE own
  <2>1. Deciding /\ variant = "sequencer_dvfs" /\ SequencerDecides(members)
    BY <1>4 DEF DVFSMakeDecisions
  <2>2. StartsNext => Left(Machines, size[NextJob]) \in SUBSET Machines
    <3>1. StartsNext => NextJob \in Runnable
      BY <2>1, WhenDeciding, FirstOfQueue DEF StartsNext, NextJob
    <3>. QED  BY <3>1, SizeOfRunnable
  <2>3. members \in Members("sequencer_dvfs")
    BY <1>1, <2>1, <2>2 DEF Members
  <2>. HIDE DEF members
  <2>4. \A b \in BOOLEAN : [members EXCEPT !.running = b] \in Members(variant)
    BY <2>1, <2>3 DEF Members
  <2>. QED  BY <2>1, <2>4, SequencersDecide
<1>. QED  BY <1>2, <1>3, <1>4

\* energy_watcher runs its first job as soon as none runs.
LEMMA WatcherDecides ==
  ASSUME Types, EnergyWatcherMakeDecisions
  PROVE  Decides
<1>0. variant = "energy_watcher" /\ Deciding
  BY DEF EnergyWatcherMakeDecisions
<1>1. /\ Rejections(clock) \in Seq(OnTime(clock))
      /\ QueueWithReleased \in Seq(Entries(Runnable))
  BY <1>0, WhenDeciding
<1>2. /\ clock \in Nat
      /\ available' \in SUBSET Machines
      /\ allocations' \in [Jobs -> SUBSET Machines]
  BY DEF Types, AlgorithmTypes, PlatformTypes, EnergyWatcherMakeDecisions
<1>. DEFINE q     == QueueWithReleased
            first == Head(q).job
            start == ExecuteJob(first, Left(Machines, size[first]), clock)
            runs  == ~BusyAfterEnds /\ q # <<>>
            tell  == Rejections(clock) \o EnergyQuery(clock)
<1>3. own' \in Members(variant)
  <2>1. own \in [busy : BOOLEAN, previous : Int] /\ recent.consumed \in Int
    BY <1>0 DEF Types, AlgorithmTypes, LoopTypes, Accumulators, Members
  <2>2. (BusyAfterEnds \/ runs) \in BOOLEAN
    BY DEF BusyAfterEnds
  <2>3. own' = [busy     |-> BusyAfterEnds \/ runs,
                previous |-> IF recent.consumed = -1 THEN own.previous
                                                     ELSE recent.consumed]
    BY DEF EnergyWatcherMakeDecisions
  <2>4. own' \in [busy : BOOLEAN, previous : Int]
    BY <2>1, <2>2, <2>3
  <2>. QED  BY <1>0, <2>4 DEF Members
<1>4. tell \in Seq(OnTime(clock))
  <2>1. EnergyQuery(clock) \in Seq(OnTime(clock))
    BY <1>2, DecisionTypes DEF EnergyQuery
  <2>. QED  BY <1>1, <2>1, BothOnTime
<1>5. CASE runs
  <2>1. first \in Runnable /\ Tail(q) \in Seq(Entries(Runnable))
    BY <1>1, <1>5, FirstOfQueue
  <2>2. start \in OnTime(clock)
    BY <1>2, <2>1, SizeOfRunnable, DecisionTypes
  <2>3. queue' = Tail(q) /\ Reply(tell \o <<start>>)
    BY <1>5 DEF EnergyWatcherMakeDecisions
  <2>4. MembersInOrder
    BY <1>2, <1>3, <2>1, <2>3 DEF MembersInOrder
  <2>5. tell \o <<start>> \in Seq(OnTime(clock))
    BY <1>4, <2>2, OneMore
  <2>. QED  BY <2>3, <2>4, <2>5, DecidesNow
<1>6. CASE ~runs
  <2>1. queue' = q /\ Reply(tell \o <<>>)
    BY <1>6 DEF EnergyWatcherMakeDecisions
  <2>2. tell \o <<>> \in Seq(OnTime(clock))
    BY <1>4
  <2>3. MembersInOrder
    BY <1>1, <1>2, <1>3, <2>1 DEF MembersInOrder
  <2>. QED  BY <2>1, <2>2, <2>3, DecidesNow
<1>. QED  BY <1>5, <1>6

\* rejecter, random and wt_estimator have no member that changes.
LEMMA StatelessDecide ==
  ASSUME Types, NEW ds \in Seq(OnTime(clock)), Stateless(ds)
  PROVE  Decides
<1>1. MembersInOrder
  BY DEF MembersInOrder, Stateless, algoVars, Types, AlgorithmTypes, KnownJobs
<1>. QED  BY <1>1, DecidesNow DEF Stateless

\* The three of them answer to what was released or asked, and nothing else.
LEMMA StatelessVariantsDecide ==
  ASSUME Types,
         RejecterMakeDecisions \/ WaitingTimeEstimatorMakeDecisions \/ RandomMakeDecisions
  PROVE  Decides
<1>. DEFINE r == recent.released
            w == recent.queries
<1>1. /\ r \in Seq(Submitted) /\ w \in Seq(Jobs) /\ clock \in Nat
  BY DEF Types, KnownJobs, LoopTypes, Accumulators, PlatformTypes
<1>. HIDE DEF r, w
<1>2. /\ DOMAIN r = 1 .. Len(r) /\ Len(r) \in Nat /\ \A k \in 1 .. Len(r) : r[k] \in Jobs
      /\ DOMAIN w = 1 .. Len(w) /\ Len(w) \in Nat /\ \A k \in 1 .. Len(w) : w[k] \in Jobs
  BY <1>1, ElementOfSeq, LenProperties DEF Submitted
<1>3. RejectAll(clock) \in Seq(OnTime(clock))
  <2>1. \A k \in 1 .. Len(r) : RejectJob(r[k], clock) \in OnTime(clock)
    BY <1>1, <1>2, DecisionTypes
  <2>2. [k \in 1 .. Len(r) |-> RejectJob(r[k], clock)] \in Seq(OnTime(clock))
    BY <1>2, <2>1
  <2>. QED  BY <1>2, <2>2 DEF RejectAll, r
<1>4. CASE RejecterMakeDecisions
  BY <1>3, <1>4, StatelessDecide DEF RejecterMakeDecisions
<1>5. CASE WaitingTimeEstimatorMakeDecisions
  <2>1. \A k \in 1 .. Len(w) : AnswerEstimateWaitingTime(w[k], clock) \in OnTime(clock)
    BY <1>1, <1>2, DecisionTypes
  <2>2. [k \in 1 .. Len(w) |-> AnswerEstimateWaitingTime(w[k], clock)] \in Seq(OnTime(clock))
    BY <1>2, <2>1
  <2>3. [k \in DOMAIN w |-> AnswerEstimateWaitingTime(w[k], clock)] \in Seq(OnTime(clock))
    BY <1>2, <2>2
  <2>4. [k \in DOMAIN w |-> AnswerEstimateWaitingTime(w[k], clock)] \o RejectAll(clock)
          \in Seq(OnTime(clock))
    BY <1>3, <2>3, BothOnTime
  <2>5. Stateless([k \in DOMAIN w |-> AnswerEstimateWaitingTime(w[k], clock)]
                    \o RejectAll(clock))
    BY <1>5 DEF WaitingTimeEstimatorMakeDecisions, w
  <2>. QED  BY <2>4, <2>5, StatelessDecide
<1>6. CASE RandomMakeDecisions
  <2>1. PICK pick \in [Jobs -> SUBSET Machines] :
          Stateless([k \in DOMAIN r |->
                       LET j == r[k]
                       IN  IF IsValid(j) THEN ExecuteJob(j, pick[j], clock)
                                         ELSE RejectJob(j, clock)])
    BY <1>6 DEF RandomMakeDecisions, r
  <2>. DEFINE d(k) == IF IsValid(r[k]) THEN ExecuteJob(r[k], pick[r[k]], clock)
                                       ELSE RejectJob(r[k], clock)
  <2>2. \A k \in 1 .. Len(r) : d(k) \in OnTime(clock)
    BY <1>1, <1>2, DecisionTypes
  <2>3. Stateless([k \in 1 .. Len(r) |-> d(k)])
    BY <1>2, <2>1
  <2>. HIDE DEF d
  <2>4. [k \in 1 .. Len(r) |-> d(k)] \in Seq(OnTime(clock))
    BY <1>2, <2>2
  <2>. QED  BY <2>3, <2>4, StatelessDecide
<1>. QED  BY <1>4, <1>5, <1>6


\* filler gives a job no more machines than it asks for.
LEMMA PartOfMachines ==
  ASSUME Types, variant = "filler", NEW j \in Jobs
  PROVE  MachinesToAllocate(j) \in 0 .. size[j]
<1>1. own.fraction \in 1 .. 100 /\ size[j] \in Nat
  BY DEF Types, AlgorithmTypes, PlatformTypes, Members
<1>. DEFINE x == own.fraction * size[j]
<1>2. x \in Nat /\ x <= 100 * size[j]
  <2>1. \A f \in 1 .. 100 : \A n \in Nat : f * n \in Nat /\ f * n <= 100 * n
    OBVIOUS
  <2>. QED  BY <1>1, <2>1
<1>. HIDE DEF x
<1>3. (x + 99) \div 100 \in 0 .. size[j]
  BY <1>1, <1>2
<1>. QED  BY <1>3 DEF MachinesToAllocate, x

\* The state of fill between two jobs of the queue.
Filling ==
  [usable : SUBSET Machines, queue : Seq(Entries(Runnable)),
   started : [Jobs -> SUBSET Machines], decisions : Seq(OnTime(clock))]

\* One job of the queue.
LEMMA FillOneTypes ==
  ASSUME Types, variant = "filler", NEW f \in Filling, NEW e \in Entries(Runnable)
  PROVE  FillOne(f, e) \in Filling
<1>. DEFINE j     == e.job
            found == Fit(f.usable, size[j])
            alloc == Left(found, MachinesToAllocate(j))
<1>1. j \in Runnable /\ j \in Jobs /\ size[j] \in 1 .. NbMachines /\ clock \in Nat
  BY SizeOfRunnable DEF Entries, Types, PlatformTypes
<1>2. /\ f.usable \in SUBSET Machines /\ f.queue \in Seq(Entries(Runnable))
      /\ f.started \in [Jobs -> SUBSET Machines] /\ f.decisions \in Seq(OnTime(clock))
  BY DEF Filling
<1>3. CASE f.usable = {} \/ found = {}
  <2>1. FillOne(f, e) = [f EXCEPT !.queue = Append(f.queue, e)]
    BY <1>3 DEF FillOne
  <2>2. Append(f.queue, e) \in Seq(Entries(Runnable))
    BY <1>2
  <2>. QED  BY <2>1, <2>2 DEF Filling
<1>4. CASE ~(f.usable = {} \/ found = {})
  <2>. DEFINE meta == IF own.metadata THEN <<SetJobMetadata(j, clock)>> ELSE <<>>
              ds == f.decisions \o <<ExecuteJob(j, alloc, clock)>> \o meta
  <2>1. found \in SUBSET f.usable /\ Cardinality(found) = size[j]
    BY <1>1, <1>2, <1>4, FitAssumption
  <2>2. alloc \in SUBSET found
    <3>1. MachinesToAllocate(j) \in 0 .. Cardinality(found)
      BY <1>1, <2>1, PartOfMachines
    <3>2. found \in SUBSET Machines
      BY <1>2, <2>1
    <3>. HIDE DEF found
    <3>. QED  BY <3>1, <3>2, LeftAssumption
  <2>3. alloc \in SUBSET Machines
    BY <1>2, <2>1, <2>2
  <2>4. FillOne(f, e) = [usable |-> f.usable \ alloc, queue |-> f.queue,
                         started |-> [f.started EXCEPT ![j] = alloc], decisions |-> ds]
    BY <1>4 DEF FillOne
  <2>. HIDE DEF alloc, found
  <2>5. ds \in Seq(OnTime(clock))
    <3>1. ExecuteJob(j, alloc, clock) \in OnTime(clock) /\ SetJobMetadata(j, clock) \in OnTime(clock)
      BY <1>1, <2>3, DecisionTypes
    <3>2. meta \in Seq(OnTime(clock))
      BY <3>1
    <3>3. f.decisions \o <<ExecuteJob(j, alloc, clock)>> \in Seq(OnTime(clock))
      BY <1>2, <3>1, OneMore
    <3>. QED  BY <3>2, <3>3, BothOnTime
  <2>6. [f.started EXCEPT ![j] = alloc] \in [Jobs -> SUBSET Machines]
    BY <1>1, <1>2, <2>3
  <2>. HIDE DEF ds
  <2>. QED  BY <1>2, <2>4, <2>5, <2>6 DEF Filling
<1>. QED  BY <1>3, <1>4

\* What fill has done when it starts, and after each job of the queue.
FillStart(usable) ==
  [usable |-> usable, queue |-> <<>>, decisions |-> <<>>, started |-> [j \in Jobs |-> {}]]
Fills(after, usable) ==
  /\ after[0] = FillStart(usable)
  /\ \A k \in 1 .. Len(SortedQueue) : after[k] = FillOne(after[k - 1], SortedQueue[k])
  /\ \A k \in 0 .. Len(SortedQueue) : after[k] \in Filling
  /\ Fill(usable) = after[Len(SortedQueue)]

\* The whole queue.
LEMMA FillPasses ==
  ASSUME Types, Deciding, variant = "filler", NEW usable \in SUBSET Machines
  PROVE  \E after : Fills(after, usable)
<1>. DEFINE q    == SortedQueue
            n    == Len(q)
            base == FillStart(usable)
            step == [k \in 1 .. n |-> [f \in Filling |-> FillOne(f, q[k])]]
            Passes(f) == f = [k \in 0 .. n |-> IF k = 0 THEN base
                                               ELSE FillOne(f[k - 1], q[k])]
            after == CHOOSE f : Passes(f)
<1>1. n \in Nat /\ \A k \in 1 .. n : q[k] \in Entries(Runnable)
  <2>1. q \in Seq(Entries(Runnable))
    BY WhenDeciding
  <2>. QED  BY <2>1, ElementOfSeq, LenProperties
<1>2. base \in Filling
  BY DEF Filling, FillStart
<1>3. Fill(usable) = after[n]
  BY DEF Fill, FillStart
<1>. HIDE DEF base, q, n
<1>4. \A k \in 1 .. n : \A f \in Filling :
        step[k][f] = FillOne(f, q[k]) /\ FillOne(f, q[k]) \in Filling
  BY <1>1, FillOneTypes
<1>. HIDE DEF step
<1>5. \E g : Iterates(g, n, Filling, base, step)
  <2>1. step \in [1 .. n -> [Filling -> Filling]]
    BY <1>4 DEF step
  <2>. QED  BY <1>1, <1>2, <2>1, Recursion
<1>6. \E g : Passes(g)
  <2>1. PICK g \in [0 .. n -> Filling] :
          g[0] = base /\ \A k \in 1 .. n : g[k] = step[k][g[k - 1]]
    BY <1>5 DEF Iterates
  <2>2. \A k \in 1 .. n : g[k - 1] \in Filling
    BY <1>1, <2>1
  <2>3. \A k \in 1 .. n : g[k] = FillOne(g[k - 1], q[k])
    BY <1>4, <2>1, <2>2
  <2>. QED  BY <1>1, <2>1, <2>3
<1>7. Passes(after)
  BY <1>6
<1>. HIDE DEF after
<1>8. after[0] = base /\ \A k \in 1 .. n : after[k] = FillOne(after[k - 1], q[k])
  BY <1>1, <1>7
<1>9. \A k \in 0 .. n : after[k] \in Filling
  <2>. DEFINE T == {k \in 0 .. n : after[k] \in Filling}
  <2>1. 0 \in T
    BY <1>1, <1>2, <1>8
  <2>2. ASSUME NEW k \in 0 .. n - 1, after[k] \in Filling
        PROVE  k + 1 \in T
    <3>1. k + 1 \in 1 .. n /\ k + 1 - 1 = k
      BY <1>1
    <3>2. after[k + 1] = FillOne(after[k], q[k + 1])
      BY <1>8, <3>1
    <3>3. after[k + 1] \in Filling
      BY <1>4, <2>2, <3>1, <3>2
    <3>. QED  BY <3>1, <3>3
  <2>3. \A k \in 0 .. n - 1 : k \in T => k + 1 \in T
    BY <2>2
  <2>. HIDE DEF T
  <2>4. \A k \in 0 .. n : k \in T
    BY <1>1, <2>1, <2>3, IntervalInduction
  <2>. QED  BY <2>4 DEF T
<1>. QED  BY <1>1, <1>3, <1>8, <1>9 DEF Fills, base, q, n

\* What it leaves when it ends.
LEMMA FillTypes ==
  ASSUME Types, Deciding, variant = "filler", NEW usable \in SUBSET Machines
  PROVE  Fill(usable) \in Filling
<1>1. PICK after : Fills(after, usable)
  BY FillPasses
<1>2. Len(SortedQueue) \in Nat
  BY WhenDeciding, LenProperties
<1>. QED  BY <1>1, <1>2 DEF Fills

\* filler: what it starts, it starts now.
LEMMA FillerDecides ==
  ASSUME Types, FillerMakeDecisions
  PROVE  Decides
<1>0. variant = "filler" /\ Deciding
  BY DEF FillerMakeDecisions
<1>1. /\ Rejections(clock) \in Seq(OnTime(clock))
      /\ FreedMachines \in SUBSET Machines
      /\ WithoutEnded \in [Jobs -> SUBSET Machines]
  BY <1>0, WhenDeciding
<1>2. Unavailable \in SUBSET Machines /\ own' \in Members(variant)
  <2>1. own \in Members("filler") /\ recent.gone \in SUBSET Machines
    BY <1>0 DEF Types, AlgorithmTypes, LoopTypes, Accumulators
  <2>2. Unavailable \in SUBSET Machines
    BY <2>1 DEF Members, Unavailable
  <2>3. own' = [own EXCEPT !.unavailable = Unavailable]
    BY DEF FillerMakeDecisions
  <2>. QED  BY <1>0, <2>1, <2>2, <2>3 DEF Members
<1>. DEFINE filled == Fill(UsableMachines)
<1>3. filled \in Filling
  BY <1>0, <1>1, FillTypes DEF UsableMachines
<1>4. /\ allocations' = [j \in Jobs |-> IF filled.started[j] # {} THEN filled.started[j]
                                                                ELSE WithoutEnded[j]]
      /\ available' = FreedMachines \ UNION {filled.started[j] : j \in Jobs}
      /\ queue' = filled.queue
      /\ Reply(Rejections(clock) \o filled.decisions)
  BY DEF FillerMakeDecisions
<1>. HIDE DEF filled
<1>5. MembersInOrder
  BY <1>1, <1>2, <1>3, <1>4 DEF MembersInOrder, Filling
<1>6. Rejections(clock) \o filled.decisions \in Seq(OnTime(clock))
  BY <1>1, <1>3, BothOnTime DEF Filling
<1>. QED  BY <1>4, <1>5, <1>6, DecidesNow


\* The five sets of sleeper, the running job and the end of the simulation.
SleeperSets ==
  [avail : SUBSET Machines, computing : SUBSET Machines, on : SUBSET Machines,
   off : SUBSET Machines, asleep : SUBSET Machines, job : Jobs \cup {NullJob},
   finished : BOOLEAN]

\* What sleeper knows once it has read the message.
LEMMA SleeperUpdatedTypes ==
  ASSUME Types, variant = "sleeper"
  PROVE  SleeperUpdated \in SleeperSets
<1>1. /\ own \in Members("sleeper") /\ available \in SUBSET Machines
      /\ recent.switched \in [PStates -> SUBSET Machines]
  BY DEF Types, AlgorithmTypes, LoopTypes, Accumulators
<1>2. recent.switched["fast"] \in SUBSET Machines /\ recent.switched["asleep"] \in SUBSET Machines
  BY <1>1 DEF PStates
<1>. QED  BY <1>1, <1>2 DEF SleeperUpdated, SleeperSets, Members

\* What it keeps of it.
LEMMA SleeperBecomesTypes ==
  ASSUME Types, variant = "sleeper", NEW s \in SleeperSets, SleeperBecomes(s),
         queue' \in Seq(Entries(Runnable))
  PROVE  MembersInOrder
<1>1. own' \in Members("sleeper")
  BY DEF SleeperBecomes, SleeperSets, Members
<1>2. available' \in SUBSET Machines /\ allocations' \in [Jobs -> SUBSET Machines]
  BY DEF SleeperBecomes, SleeperSets, Types, AlgorithmTypes
<1>. QED  BY <1>1, <1>2 DEF MembersInOrder

\* Putting machines to sleep.
LEMMA SedatedTypes ==
  ASSUME Types, NEW s \in SleeperSets
  PROVE  Sedated(s) \in SleeperSets /\ SedateOrder(s, clock) \in Seq(OnTime(clock))
<1>1. Sedated(s) \in SleeperSets
  BY DEF Sedated, SleeperSets
<1>2. SetResourceState(s.avail, "asleep", clock) \in OnTime(clock)
  BY DecisionTypes DEF Types, PlatformTypes, SleeperSets, PStates
<1>. QED  BY <1>1, <1>2 DEF SedateOrder

\* The smaller of two numbers.
LEMMA SmallerOfTwo ==
  ASSUME NEW a \in Int, NEW b \in Int
  PROVE  Min({a, b}) \in {a, b} /\ Min({a, b}) <= a /\ Min({a, b}) <= b
<1>1. \E x \in {a, b} : \A y \in {a, b} : x <= y
  BY DEF Min
<1>. QED  BY <1>1 DEF Min

\* Every set of machines has a size, the empty set that of 0.
LEMMA MachinesCounted ==
  ASSUME NEW ms \in SUBSET Machines
  PROVE  Cardinality(ms) \in Nat /\ (ms # {} => Cardinality(ms) # 0)
<1>1. IsFiniteSet(Machines)
  BY RunLoopAssumption, FS_Interval DEF Machines
<1>2. IsFiniteSet(ms)
  BY <1>1, FS_Subset
<1>. QED  BY <1>2, FS_EmptySet, FS_CardinalityType

\* sleeper: a job starts, or machines are switched, all of it now.
LEMMA SleeperDecides ==
  ASSUME Types, SleeperMakeDecisions
  PROVE  Decides
<1>0. variant = "sleeper" /\ Deciding
  BY DEF SleeperMakeDecisions
<1>1. /\ Rejections(clock) \in Seq(OnTime(clock))
      /\ SortedQueue \in Seq(Entries(Runnable))
  BY <1>0, WhenDeciding
<1>. clock \in Nat
  BY DEF Types, PlatformTypes
<1>. DEFINE q     == SortedQueue
            s     == SleeperUpdated
            j     == Head(q).job
<1>2. s \in SleeperSets
  BY <1>0, SleeperUpdatedTypes
<1>3. q # <<>> => j \in Jobs /\ size[j] \in Nat
  <2>1. q # <<>> => j \in Runnable
    BY <1>1, FirstOfQueue
  <2>. QED  BY <2>1, SizeOfRunnable
<1>4. \/ q # <<>> /\ Cardinality(s.avail) >= size[j] /\ RunFirst(s, j)
      \/ q # <<>> /\ WakeUpFor(s, j)
      \/ SleepAll(s)
      \/ StayQuiet(s)
  BY DEF SleeperMakeDecisions
<1>. HIDE DEF s, j
<1>5. CASE q # <<>> /\ Cardinality(s.avail) >= size[j] /\ RunFirst(s, j)
  <2>. DEFINE alloc == Left(s.avail, size[j])
              rest  == [s EXCEPT !.avail = @ \ alloc, !.computing = alloc, !.job = j]
  <2>1. alloc \in SUBSET s.avail
    <3>1. s.avail \in SUBSET Machines
      BY <1>2 DEF SleeperSets
    <3>2. size[j] \in 0 .. Cardinality(s.avail)
      BY <1>3, <1>5, <3>1, MachinesCounted
    <3>. QED  BY <3>1, <3>2, LeftAssumption
  <2>2. /\ SleeperBecomes(Sedated(rest))
        /\ queue' = RemoveFromQueue(q, j)
        /\ Reply(Rejections(clock) \o <<ExecuteJob(j, alloc, clock)>>
                   \o SedateOrder(rest, clock))
    BY <1>5 DEF RunFirst
  <2>3. alloc \in SUBSET Machines
    BY <1>2, <2>1 DEF SleeperSets
  <2>. HIDE DEF alloc, q
  <2>4. rest \in SleeperSets
    BY <1>2, <1>3, <1>5, <2>3 DEF SleeperSets, q
  <2>. HIDE DEF rest
  <2>5. queue' \in Seq(Entries(Runnable))
    BY <1>1, <2>2, Removed DEF q
  <2>6. MembersInOrder
    BY <1>0, <2>2, <2>4, <2>5, SedatedTypes, SleeperBecomesTypes
  <2>7. ExecuteJob(j, alloc, clock) \in OnTime(clock)
    BY <1>3, <1>5, <2>3, DecisionTypes DEF q
  <2>8. Rejections(clock) \o <<ExecuteJob(j, alloc, clock)>> \in Seq(OnTime(clock))
    BY <1>1, <2>7, OneMore
  <2>9. Rejections(clock) \o <<ExecuteJob(j, alloc, clock)>> \o SedateOrder(rest, clock)
          \in Seq(OnTime(clock))
    BY <2>4, <2>8, SedatedTypes, BothOnTime
  <2>. QED  BY <2>2, <2>6, <2>9, DecidesNow
<1>6. CASE q # <<>> /\ WakeUpFor(s, j)
  <2>. DEFINE missing == size[j] - Cardinality(s.avail) - Cardinality(s.on)
              count   == Min({missing, Cardinality(s.asleep)})
              woken   == IF missing > 0 THEN Left(s.asleep, count) ELSE {}
              wakeUp  == IF woken = {} THEN <<>>
                                       ELSE <<SetResourceState(woken, "fast", clock)>>
              t == [s EXCEPT !.asleep = @ \ woken, !.on = @ \cup woken]
  <2>1. /\ s.avail \in SUBSET Machines /\ s.on \in SUBSET Machines
        /\ s.asleep \in SUBSET Machines
    BY <1>2 DEF SleeperSets
  <2>2. woken \in SUBSET s.asleep
    <3>1. /\ Cardinality(s.avail) \in Nat /\ Cardinality(s.on) \in Nat
          /\ Cardinality(s.asleep) \in Nat
      BY <2>1, MachinesCounted
    <3>2. missing \in Int
      BY <1>3, <1>6, <3>1
    <3>. HIDE DEF missing
    <3>3. missing > 0 => count \in 0 .. Cardinality(s.asleep)
      <4>1. count \in {missing, Cardinality(s.asleep)} /\ count <= Cardinality(s.asleep)
        <5>1. Cardinality(s.asleep) \in Int
          BY <3>1
        <5>. QED  BY <3>2, <5>1, SmallerOfTwo, Zenon
      <4>. HIDE DEF count
      <4>. QED  BY <3>1, <3>2, <4>1
    <3>. HIDE DEF count
    <3>. QED  BY <2>1, <3>3, LeftAssumption
  <2>3. SleeperBecomes(t) /\ queue' = q /\ Reply(Rejections(clock) \o wakeUp)
    BY <1>6 DEF WakeUpFor
  <2>. HIDE DEF woken
  <2>4. t \in SleeperSets
    BY <1>2, <2>1, <2>2 DEF SleeperSets
  <2>5. wakeUp \in Seq(OnTime(clock))
    <3>1. SetResourceState(woken, "fast", clock) \in OnTime(clock)
      BY <2>1, <2>2, DecisionTypes DEF PStates
    <3>. QED  BY <3>1
  <2>. HIDE DEF t, wakeUp
  <2>6. MembersInOrder
    BY <1>0, <1>1, <2>3, <2>4, SleeperBecomesTypes
  <2>7. Rejections(clock) \o wakeUp \in Seq(OnTime(clock))
    BY <1>1, <2>5, BothOnTime
  <2>. QED  BY <2>3, <2>6, <2>7, DecidesNow
<1>7. CASE SleepAll(s)
  <2>1. /\ SleeperBecomes(Sedated(s)) /\ queue' = q
        /\ Reply(Rejections(clock) \o SedateOrder(s, clock))
    BY <1>7 DEF SleepAll
  <2>2. MembersInOrder
    BY <1>0, <1>1, <1>2, <2>1, SedatedTypes, SleeperBecomesTypes
  <2>3. Rejections(clock) \o SedateOrder(s, clock) \in Seq(OnTime(clock))
    BY <1>1, <1>2, SedatedTypes, BothOnTime
  <2>. QED  BY <2>1, <2>2, <2>3, DecidesNow
<1>8. CASE StayQuiet(s)
  <2>1. SleeperBecomes(s) /\ queue' = q /\ Reply(Rejections(clock))
    BY <1>8 DEF StayQuiet
  <2>2. MembersInOrder
    BY <1>0, <1>1, <1>2, <2>1, SleeperBecomesTypes
  <2>. QED  BY <1>1, <2>1, <2>2, DecidesNow
<1>. QED  BY <1>4, <1>5, <1>6, <1>7, <1>8


\* What submitter answers to one released job.
LEMMA ReleaseDecisionsOfTypes ==
  ASSUME Types, NEW j \in Jobs
  PROVE  ReleaseDecisionsOf(j, clock) \in Seq(OnTime(clock))
<1>1. SetJobMetadata(j, clock) \in OnTime(clock) /\ RejectJob(j, clock) \in OnTime(clock)
  BY DecisionTypes DEF Types, PlatformTypes
<1>. DEFINE a == IF own.metadata THEN <<SetJobMetadata(j, clock)>> ELSE <<>>
            b == IF IsValid(j) THEN <<>> ELSE <<RejectJob(j, clock)>>
<1>2. a \in Seq(OnTime(clock)) /\ b \in Seq(OnTime(clock))
  BY <1>1
<1>3. ReleaseDecisionsOf(j, clock) = a \o b
  BY DEF ReleaseDecisionsOf
<1>. HIDE DEF a, b
<1>. QED  BY <1>2, <1>3, BothOnTime

\* What it answers to all of them is written job after job.
ReleasesInTurn(after) ==
  LET n == Len(recent.released) IN
  /\ after[0] = <<>>
  /\ \A k \in 1 .. n :
       after[k] = after[k - 1] \o ReleaseDecisionsOf(recent.released[k], clock)
  /\ \A k \in 0 .. n : after[k] \in Seq(OnTime(clock))
  /\ ReleaseDecisions(clock) = after[n]

\* There is such a run.
LEMMA ReleasePasses ==
  ASSUME Types
  PROVE  \E after : ReleasesInTurn(after)
<1>. DEFINE js   == recent.released
            n    == Len(js)
            S    == Seq(OnTime(clock))
            More(ds, k) == ds \o ReleaseDecisionsOf(js[k], clock)
            step == [k \in 1 .. n |-> [ds \in S |-> More(ds, k)]]
            Told(f) == f = [k \in 0 .. n |-> IF k = 0 THEN <<>> ELSE More(f[k - 1], k)]
            after == CHOOSE f : Told(f)
<1>1. n \in Nat /\ \A k \in 1 .. n : js[k] \in Jobs
  <2>1. js \in Seq(Submitted)
    BY DEF Types, KnownJobs
  <2>. QED  BY <2>1, ElementOfSeq, LenProperties DEF Submitted
<1>2. ReleaseDecisions(clock) = after[n]
  BY DEF ReleaseDecisions
<1>3. \A k \in 1 .. n : \A ds \in S : More(ds, k) \in S
  BY <1>1, ReleaseDecisionsOfTypes, BothOnTime
<1>4. <<>> \in S
  OBVIOUS
<1>. HIDE DEF js, n, S, More
<1>5. step \in [1 .. n -> [S -> S]]
  BY <1>3
<1>6. \A k \in 1 .. n : \A ds \in S : step[k][ds] = More(ds, k)
  OBVIOUS
<1>. HIDE DEF step
<1>7. \E g : Told(g)
  <2>1. PICK g : Iterates(g, n, S, <<>>, step)
    BY <1>1, <1>4, <1>5, Recursion
  <2>2. \A k \in 1 .. n : g[k - 1] \in S
    BY <1>1, <2>1 DEF Iterates
  <2>3. \A k \in 1 .. n : g[k] = More(g[k - 1], k)
    BY <1>6, <2>1, <2>2 DEF Iterates
  <2>. QED  BY <1>1, <2>1, <2>3 DEF Iterates
<1>8. Told(after)
  BY <1>7
<1>. HIDE DEF after
<1>9. after[0] = <<>> /\ \A k \in 1 .. n : after[k] = More(after[k - 1], k)
  BY <1>1, <1>8
<1>10. \A k \in 0 .. n : after[k] \in S
  <2>. DEFINE T == {k \in 0 .. n : after[k] \in S}
  <2>1. 0 \in T
    BY <1>1, <1>4, <1>9
  <2>2. ASSUME NEW k \in 0 .. n - 1, after[k] \in S
        PROVE  k + 1 \in T
    <3>1. k + 1 \in 1 .. n /\ k + 1 - 1 = k
      BY <1>1
    <3>2. after[k + 1] = More(after[k], k + 1)
      BY <1>9, <3>1
    <3>3. after[k + 1] \in S
      BY <1>3, <2>2, <3>1, <3>2
    <3>. QED  BY <3>1, <3>3
  <2>3. \A k \in 0 .. n - 1 : k \in T => k + 1 \in T
    BY <2>2
  <2>. HIDE DEF T
  <2>4. \A k \in 0 .. n : k \in T
    BY <1>1, <2>1, <2>3, IntervalInduction
  <2>. QED  BY <2>4 DEF T
<1>11. ReleasesInTurn(after)
  BY <1>2, <1>9, <1>10 DEF ReleasesInTurn, js, n, S, More
<1>. QED  BY <1>11

\* It is a list of decisions on time.
LEMMA ReleaseDecisionsTypes ==
  ASSUME Types
  PROVE  ReleaseDecisions(clock) \in Seq(OnTime(clock))
<1>1. PICK after : ReleasesInTurn(after)
  BY ReleasePasses
<1>2. Len(recent.released) \in Nat
  BY LenProperties DEF Types, KnownJobs
<1>. QED  BY <1>1, <1>2 DEF ReleasesInTurn

\* The submission of a job, with its profile and its metadata.
LEMMA SubmitDelayJobTypes ==
  ASSUME Types, NEW j \in Dynamic, NEW profile \in Nat
  PROVE  SubmitDelayJob(j, profile, clock) \in Seq(OnTime(clock))
<1>. DEFINE sends == profile \notin own.sent \/ own.again
            first == IF sends /\ own.separate THEN <<RegisterProfile(profile, clock)>>
                                              ELSE <<>>
            inlined == sends /\ ~own.separate
            job   == RegisterJob(j, profile, inlined, clock)
            last  == IF own.metadata THEN <<SetJobMetadata(j, clock)>> ELSE <<>>
<1>1. inlined \in BOOLEAN
  OBVIOUS
<1>2. SubmitDelayJob(j, profile, clock) = first \o <<job>> \o last
  BY DEF SubmitDelayJob
<1>3. j \in Jobs /\ clock \in Nat
  BY DEF Jobs, Types, PlatformTypes
<1>4. /\ RegisterProfile(profile, clock) \in OnTime(clock)
      /\ SetJobMetadata(j, clock) \in OnTime(clock)
  BY <1>3, DecisionTypes
<1>5. job \in OnTime(clock)
  <2>. HIDE DEF inlined
  <2>. QED  BY <1>1, <1>3, DecisionTypes
<1>6. first \in Seq(OnTime(clock)) /\ last \in Seq(OnTime(clock))
  BY <1>4
<1>. HIDE DEF first, job, last
<1>7. first \o <<job>> \in Seq(OnTime(clock))
  BY <1>5, <1>6, OneMore
<1>. QED  BY <1>2, <1>6, <1>7, BothOnTime

\* submitter: executions that are not acknowledged, and the end of the
\* submissions, come last and may be for later.
LEMMA SubmitterDecides ==
  ASSUME Types, SubmitterMakeDecisions
  PROVE  Decides
<1>0. variant = "submitter" /\ Deciding
  BY DEF SubmitterMakeDecisions
<1>1. /\ SortedQueue \in Seq(Entries(Runnable))
      /\ FreedMachines \in SUBSET Machines
      /\ WithoutEnded \in [Jobs -> SUBSET Machines]
  BY <1>0, WhenDeciding
<1>2. own \in Members("submitter") /\ clock \in Nat
  BY <1>0 DEF Types, AlgorithmTypes, PlatformTypes
<1>. DEFINE first   == Head(SortedQueue).job
            alloc1  == Fit(FreedMachines, size[first])
            starts  == SortedQueue # <<>> /\ alloc1 # {}
            started == IF starts THEN <<ExecuteJob(first, alloc1, clock)>> ELSE <<>>
            queue1  == IF starts THEN RemoveFromQueue(SortedQueue, first)
                                 ELSE SortedQueue
            free1   == IF starts THEN FreedMachines \ alloc1 ELSE FreedMachines
            allocs1 == IF starts THEN [WithoutEnded EXCEPT ![first] = alloc1]
                                 ELSE WithoutEnded
            submits == queue1 = <<>> /\ free1 # {} /\ own.submitted < NbDynamic
            direct  == submits /\ ~own.acknowledged
            later   == IF direct THEN clock + DirectDelay ELSE clock
            alloc2  == Left(free1, 1)
            submit  == IF submits THEN SubmitDelayJob(NewJob, NewProfile, clock)
                                  ELSE <<>>
            execute == IF direct THEN <<ExecuteJob(NewJob, alloc2, later)>> ELSE <<>>
            count   == IF submits THEN own.submitted + 1 ELSE own.submitted
            finish  == count >= NbDynamic /\ ~own.finishedSent
            bye     == IF finish THEN <<SchedulerFinishedSubmitting(later)>> ELSE <<>>
            S       == Seq(OnTime(clock))
<1>3. /\ queue' = queue1
      /\ available' = IF direct THEN free1 \ alloc2 ELSE free1
      /\ allocations' = IF direct THEN [allocs1 EXCEPT ![NewJob] = alloc2] ELSE allocs1
      /\ own' = [own EXCEPT !.submitted = count,
                            !.finishedSent = @ \/ finish,
                            !.sent = IF submits THEN @ \cup {NewProfile} ELSE @]
      /\ Reply(ReleaseDecisions(clock) \o started \o submit \o execute \o bye)
  BY DEF SubmitterMakeDecisions
<1>4. starts => first \in Jobs /\ alloc1 \in SUBSET FreedMachines
  <2>1. starts => first \in Runnable
    BY <1>1, FirstOfQueue
  <2>. QED  BY <1>1, <2>1, SizeOfRunnable
<1>. HIDE DEF first, alloc1
<1>5. /\ queue1 \in Seq(Entries(Runnable))
      /\ free1 \in SUBSET Machines
      /\ allocs1 \in [Jobs -> SUBSET Machines]
  BY <1>1, <1>4, Removed
<1>6. started \in S
  BY <1>1, <1>2, <1>4, DecisionTypes
<1>. HIDE DEF starts, started, queue1, free1, allocs1
<1>7. /\ own.submitted \in Nat /\ own.finishedSent \in BOOLEAN /\ own.sent \in SUBSET Nat
  BY <1>2 DEF Members
<1>8. submits => NewJob \in Dynamic /\ NewJob \in Jobs
  BY <1>7, RunLoopAssumption DEF NewJob, Dynamic, Jobs
<1>9. NewProfile \in Nat
  BY <1>7 DEF NewProfile
<1>10. submits => alloc2 \in SUBSET free1
  <2>1. submits => free1 # {}
    OBVIOUS
  <2>2. Cardinality(free1) \in Nat /\ (free1 # {} => Cardinality(free1) # 0)
    BY <1>5, MachinesCounted
  <2>3. submits => 1 \in 0 .. Cardinality(free1)
    BY <2>1, <2>2
  <2>. QED  BY <1>5, <2>3, LeftAssumption
<1>11. later \in Nat /\ clock <= later
  BY <1>2, SubmitterAssumption
<1>12. submit \in S
  BY <1>8, <1>9, SubmitDelayJobTypes
<1>13. count \in Nat
  BY <1>7
<1>14. execute \o bye \in Seq(OnTime(later))
  <2>. HIDE DEF later, alloc2, submits, count
  <2>1. SchedulerFinishedSubmitting(later) \in OnTime(later)
    BY <1>11, DecisionTypes
  <2>2. direct => ExecuteJob(NewJob, alloc2, later) \in OnTime(later)
    BY <1>5, <1>8, <1>10, <1>11, DecisionTypes
  <2>3. execute \in Seq(OnTime(later)) /\ bye \in Seq(OnTime(later))
    BY <2>1, <2>2
  <2>. HIDE DEF execute, bye
  <2>. QED  BY <2>3, BothOnTime
<1>15. execute \in Seq(Decisions) /\ bye \in Seq(Decisions)
  <2>. HIDE DEF later, alloc2, submits, count
  <2>1. SchedulerFinishedSubmitting(later) \in Decisions
    BY <1>11, DecisionTypes DEF OnTime
  <2>2. direct => ExecuteJob(NewJob, alloc2, later) \in Decisions
    BY <1>5, <1>8, <1>10, <1>11, DecisionTypes DEF OnTime
  <2>. QED  BY <2>1, <2>2
<1>16. own' \in Members(variant)
  <2>1. (own.finishedSent \/ finish) \in BOOLEAN
    BY <1>7
  <2>2. (IF submits THEN own.sent \cup {NewProfile} ELSE own.sent) \in SUBSET Nat
    BY <1>7, <1>9
  <2>. HIDE DEF count, finish, submits
  <2>. QED  BY <1>0, <1>2, <1>3, <1>13, <2>1, <2>2 DEF Members
<1>. HIDE DEF submit, execute, bye, count, finish, later
<1>17. MembersInOrder
  <2>1. available' \in SUBSET Machines
    BY <1>3, <1>5
  <2>2. allocations' \in [Jobs -> SUBSET Machines]
    BY <1>3, <1>5, <1>8, <1>10
  <2>. QED  BY <1>3, <1>5, <1>16, <2>1, <2>2 DEF MembersInOrder
<1>18. DatesAreConsistent(execute \o bye, clock) /\ execute \o bye \in Seq(Decisions)
  <2>1. PICK b \in Seq(OnTime(later)) : b = execute \o bye
    BY <1>14
  <2>2. b \in Seq(Decisions) /\ DatesAreConsistent(b, clock)
    BY <1>2, <1>11, SameDate
  <2>. QED  BY <2>1, <2>2
<1>19. ReleaseDecisions(clock) \o started \o submit \in S
  <2>1. ReleaseDecisions(clock) \in S
    BY ReleaseDecisionsTypes
  <2>2. ReleaseDecisions(clock) \o started \in S
    BY <1>6, <2>1, BothOnTime
  <2>. QED  BY <1>12, <2>2, BothOnTime
<1>. DEFINE now == ReleaseDecisions(clock) \o started \o submit
<1>20. now \o execute \o bye = now \o (execute \o bye)
  <2>1. now \in Seq(Decisions)
    BY <1>2, <1>19, SameDate
  <2>. HIDE DEF now
  <2>. QED  BY <1>15, <2>1, ConcatAssociative
<1>21. Reply(now \o (execute \o bye))
  BY <1>3, <1>20
<1>. HIDE DEF now, S
<1>22. now \in Seq(OnTime(clock))
  BY <1>19 DEF now, S
<1>. QED  BY <1>0, <1>17, <1>18, <1>21, <1>22, DecidesAhead


-------------------------------------------------------------------------------
(* The other steps.                                                        *)


\* Steps that leave nearly everything as it is.
LEMMA StutteringKeepsTypes ==
  ASSUME Types, UNCHANGED vars
  PROVE  Types'
<1>. USE DEF Types, vars, batsimVars, socketVars, schedVars, jobVars, platformVars,
             configVars, loopVars, algoVars
<1>1. PlatformTypes'
  BY DEF PlatformTypes
<1>2. SocketTypes' /\ LoopTypes' /\ AlgorithmTypes' /\ Turns'
  BY DEF SocketTypes, LoopTypes, AlgorithmTypes, Turns
<1>3. Submitted' = Submitted /\ Runnable' = Runnable /\ \A j : Known(j)' = Known(j)
  BY DEF Submitted, Runnable, Known, IsValid
<1>4. KnownJobs'
  BY <1>3 DEF KnownJobs
<1>. QED  BY <1>1, <1>2, <1>4

\* A crash stops batsched where it is.
LEMMA CrashKeepsTypes ==
  ASSUME Types, Crash
  PROVE  Types'
<1>. USE DEF Types, Crash, batsimVars, schedVars, jobVars, platformVars,
             configVars, loopVars, algoVars
<1>1. PlatformTypes'
  BY DEF PlatformTypes
<1>2. SocketTypes' /\ LoopTypes' /\ AlgorithmTypes' /\ Turns'
  BY DEF SocketTypes, LoopTypes, AlgorithmTypes, Turns
<1>3. Submitted' = Submitted /\ Runnable' = Runnable /\ \A j : Known(j)' = Known(j)
  BY DEF Submitted, Runnable, Known, IsValid
<1>4. KnownJobs'
  BY <1>3 DEF KnownJobs
<1>. QED  BY <1>1, <1>2, <1>4

\* A message that is sent holds an event at least.
LEMMA SendKeepsTypes ==
  ASSUME Types, Send
  PROVE  Types'
<1>. USE DEF Types, Send, batsimVars, schedVars, jobVars, platformVars,
             configVars, loopVars, algoVars
<1>1. PlatformTypes'
  BY DEF PlatformTypes
<1>2. SocketTypes' /\ LoopTypes' /\ AlgorithmTypes'
  BY DEF SocketTypes, LoopTypes, AlgorithmTypes
<1>3. Submitted' = Submitted /\ Runnable' = Runnable /\ \A j : Known(j)' = Known(j)
  BY DEF Submitted, Runnable, Known, IsValid
<1>4. KnownJobs'
  BY <1>3 DEF KnownJobs
<1>5. Turns'
  BY LenProperties DEF AtWork, SocketTypes, Turns
<1>. QED  BY <1>1, <1>2, <1>4, <1>5


\* make_decisions of any algorithm, unless it crashes.
LEMMA MakeDecisionsDecides ==
  ASSUME Types, MakeDecisions
  PROVE  Decides \/ (Deciding /\ Crash)
<1>1. CASE KillerMakeDecisions
  BY <1>1, KillerDecides
<1>2. CASE Killer2MakeDecisions
  BY <1>2, Killer2Decides
<1>3. CASE SequencerMakeDecisions \/ DVFSMakeDecisions
  BY <1>3, SequencerVariantsDecide
<1>4. CASE CrasherMakeDecisions
  <2>1. CASE pc' = "crashed"
    <3>1. Deciding /\ ~SequencerDecides([own EXCEPT !.callNumber = @ + 1])
      BY <1>4, <2>1 DEF CrasherMakeDecisions, SequencerDecides, Reply, WriteReply
    <3>. QED  BY <1>4, <3>1 DEF CrasherMakeDecisions
  <2>2. CASE pc' # "crashed"
    BY <1>4, <2>2, SequencerVariantsDecide
  <2>. QED  BY <2>1, <2>2
<1>5. CASE FillerMakeDecisions
  BY <1>5, FillerDecides
<1>6. CASE SleeperMakeDecisions
  BY <1>6, SleeperDecides
<1>7. CASE SubmitterMakeDecisions
  BY <1>7, SubmitterDecides
<1>8. CASE RejecterMakeDecisions \/ WaitingTimeEstimatorMakeDecisions \/ RandomMakeDecisions
  BY <1>8, StatelessVariantsDecide
<1>9. CASE EnergyWatcherMakeDecisions
  BY <1>9, WatcherDecides
<1>. QED  BY <1>1, <1>2, <1>3, <1>4, <1>5, <1>6, <1>7, <1>8, <1>9 DEF MakeDecisions

\* The handlers that sequencer_dvfs overrides decide for the date of the event.
LEMMA DVFSEmits ==
  ASSUME Types, DVFSReceiveSimulationBegins \/ DVFSReceiveRequestedCall
  PROVE  /\ variant = "sequencer_dvfs" /\ Handling
         /\ \E ds \in Seq(OnTime(Current.date)) : Emit(ds)
         /\ AlgorithmTypes'
<1>. DEFINE date == Current.date
            call == CallMeLater(date + MonitoringPeriod, date)
<1>1. variant = "sequencer_dvfs" /\ Handling /\ variant' = variant
  BY DEF DVFSReceiveSimulationBegins, DVFSReceiveRequestedCall, Receives, configVars
<1>2. date \in Nat
  BY <1>1, CurrentEvent
<1>3. own \in [running : BOOLEAN, fast : BOOLEAN, machines : SUBSET Machines]
  BY <1>1 DEF Types, AlgorithmTypes, Members
<1>4. call \in OnTime(date)
  <2>1. date + MonitoringPeriod \in Nat
    BY <1>2, SequencersAssumption
  <2>. QED  BY <1>2, <2>1, DecisionTypes
<1>5. CASE DVFSReceiveSimulationBegins
  <2>1. Emit(<<call>>) /\ available' = Machines /\ UNCHANGED <<queue, allocations, own>>
    BY <1>5 DEF DVFSReceiveSimulationBegins
  <2>2. AlgorithmTypes'
    BY <1>1, <2>1 DEF Types, AlgorithmTypes
  <2>3. <<call>> \in Seq(OnTime(date))
    BY <1>4
  <2>. QED  BY <1>1, <2>1, <2>2, <2>3
<1>6. CASE DVFSReceiveRequestedCall
  <2>. DEFINE next   == IF ContinuesCalls THEN <<call>> ELSE <<>>
              speed  == IF own.fast THEN "slow" ELSE "fast"
              order1 == SetResourceState(own.machines, speed, date)
              toggle == IF own.running THEN <<order1>> ELSE <<>>
  <2>1. /\ Emit(next \o toggle)
        /\ own' = [own EXCEPT !.fast = IF own.running THEN ~@ ELSE @]
        /\ UNCHANGED <<queue, available, allocations>>
    BY <1>6 DEF DVFSReceiveRequestedCall
  <2>2. own' \in Members("sequencer_dvfs")
    <3>1. (IF own.running THEN ~own.fast ELSE own.fast) \in BOOLEAN
      BY <1>3
    <3>. QED  BY <1>3, <2>1, <3>1 DEF Members
  <2>3. AlgorithmTypes'
    BY <1>1, <2>1, <2>2 DEF Types, AlgorithmTypes
  <2>4. order1 \in OnTime(date)
    <3>1. speed \in PStates
      BY DEF PStates
    <3>. HIDE DEF speed
    <3>. QED  BY <1>2, <1>3, <3>1, DecisionTypes
  <2>. HIDE DEF call, order1
  <2>5. next \in Seq(OnTime(date)) /\ toggle \in Seq(OnTime(date))
    <3>1. /\ <<call>> \in Seq(OnTime(date)) /\ <<order1>> \in Seq(OnTime(date))
          /\ <<>> \in Seq(OnTime(date))
      BY <1>4, <2>4
    <3>. QED  BY <3>1
  <2>. HIDE DEF next, toggle, date
  <2>6. next \o toggle \in Seq(OnTime(date))
    BY <2>5, BothOnTime
  <2>. QED  BY <1>1, <2>1, <2>3, <2>6 DEF date
<1>. QED  BY <1>5, <1>6

\* A handler of the algorithm itself, or a crash.
LEMMA OverriddenKeepsTypes ==
  ASSUME Types, ReceivingOverridden
  PROVE  Types'
<1>. /\ recent \in Accumulators /\ outbox \in Seq(Decisions) /\ lastDate \in Int
     /\ recent.released \in Seq(Submitted)
  BY DEF Types, LoopTypes, SocketTypes, KnownJobs
<1>1. CASE CrasherCrashesAtEvent
  BY <1>1, CrashKeepsTypes DEF CrasherCrashesAtEvent
<1>2. CASE DVFSReceiveSimulationBegins \/ DVFSReceiveRequestedCall
  <2>1. Receives(Current.type) /\ UNCHANGED <<recent, queue>>
    BY <1>2 DEF DVFSReceiveSimulationBegins, DVFSReceiveRequestedCall, Receives
  <2>2. PICK ds \in Seq(OnTime(Current.date)) : Emit(ds)
    BY <1>2, DVFSEmits
  <2>3. AlgorithmTypes' /\ Handling
    BY <1>2, DVFSEmits
  <2>4. ds \in Seq(Decisions)
    <3>1. Current.date \in Nat
      BY <2>3, CurrentEvent
    <3>2. OnTime(Current.date) \subseteq Decisions
      BY DEF OnTime
    <3>. QED  BY <3>2, LargerSet
  <2>5. outbox' \in Seq(Decisions) /\ lastDate' \in Int
    BY <2>2, <2>4, Emitted
  <2>. QED  BY <2>1, <2>3, <2>5, HandlingKeepsTypes
<1>3. CASE SleeperReceiveSimulationEnds
  <2>1. /\ Receives(Current.type)
        /\ UNCHANGED <<outbox, lastDate, recent, queue, available, allocations, variant>>
        /\ own' = [own EXCEPT !.finished = TRUE] /\ variant = "sleeper"
    BY <1>3 DEF SleeperReceiveSimulationEnds, Receives, loopVars, configVars
  <2>2. own' \in Members("sleeper")
    BY <2>1 DEF Types, AlgorithmTypes, Members
  <2>3. AlgorithmTypes'
    BY <2>1, <2>2 DEF Types, AlgorithmTypes
  <2>. QED  BY <2>1, <2>3, HandlingKeepsTypes
<1>. QED  BY <1>1, <1>2, <1>3 DEF ReceivingOverridden

\* Every step.
LEMMA NextKeepsTypes ==
  ASSUME Types, [Next]_vars, SkipDecisions => recent = NothingRecent
  PROVE  Types'
<1>1. CASE Happening
  BY <1>1, HappeningMoves, MovesKeepTypes DEF Types
<1>2. CASE Applying
  BY <1>2, ApplyingMoves, MovesKeepTypes DEF Types
<1>3. CASE Tick \/ EndSimulation
  BY <1>3, OtherMoves, MovesKeepTypes DEF Types
<1>4. CASE Send
  BY <1>4, SendKeepsTypes
<1>5. CASE Receiving
  BY <1>5, ReceivingKeepsTypes
<1>6. CASE ReceivingOverridden
  BY <1>6, OverriddenKeepsTypes
<1>7. CASE MakeDecisions
  <2>1. CASE Decides
    <3>1. PICK ds \in Seq(Decisions) : Reply(ds)
      BY <2>1 DEF Decides
    <3>2. outbox' \in Seq(Decisions) /\ lastDate' \in Int
      BY <3>1, Emitted DEF Reply, Types, SocketTypes, LoopTypes
    <3>3. Deciding
      BY <1>7 DEF MakeDecisions, KillerMakeDecisions, Killer2MakeDecisions,
           SequencerMakeDecisions, CrasherMakeDecisions, DVFSMakeDecisions,
           FillerMakeDecisions, SleeperMakeDecisions, SubmitterMakeDecisions,
           RejecterMakeDecisions, WaitingTimeEstimatorMakeDecisions,
           RandomMakeDecisions, EnergyWatcherMakeDecisions
    <3>. QED  BY <2>1, <3>1, <3>2, <3>3, AnswerKeepsTypes DEF Decides, Reply
  <2>2. CASE Deciding /\ Crash
    BY <2>2, CrashKeepsTypes
  <2>. QED  BY <1>7, <2>1, <2>2, MakeDecisionsDecides
<1>8. CASE SkipDecisions
  BY <1>8, SkippingKeepsTypes
<1>9. CASE Stopped \/ UNCHANGED vars
  BY <1>9, StutteringKeepsTypes DEF Stopped
<1>. QED  BY <1>1, <1>2, <1>3, <1>4, <1>5, <1>6, <1>7, <1>8, <1>9 DEF Next


\* Every algorithm starts with members of its own.
LEMMA OptionsAreMembers ==
  ASSUME NEW v
  PROVE  OptionsOf(v) \subseteq Members(v)
<1>1. KillerOptions \subseteq [kills : Nat, delay : Nat]
  BY KillersAssumption DEF KillerOptions
<1>2. CrasherOptions \subseteq [running : BOOLEAN, callNumber : Nat, onStart : BOOLEAN,
                                onEnd : BOOLEAN, onCall : Nat]
  <2>1. \A p \in CrashPlans : p \in [onStart : BOOLEAN, onEnd : BOOLEAN, onCall : Nat]
    BY SequencersAssumption
  <2>2. ASSUME NEW o \in CrasherOptions
        PROVE  o \in [running : BOOLEAN, callNumber : Nat, onStart : BOOLEAN,
                      onEnd : BOOLEAN, onCall : Nat]
    <3>1. PICK p \in CrashPlans :
            o = [running |-> FALSE, callNumber |-> 0, onStart |-> p.onStart,
                 onEnd |-> p.onEnd, onCall |-> p.onCall]
      BY DEF CrasherOptions
    <3>2. p.onStart \in BOOLEAN /\ p.onEnd \in BOOLEAN /\ p.onCall \in Nat
      BY <2>1
    <3>. QED  BY <3>1, <3>2
  <2>. QED  BY <2>2
<1>3. FillerOptions \subseteq [unavailable : SUBSET Machines, fraction : 1 .. 100,
                               metadata : BOOLEAN]
  BY FillerAssumption DEF FillerOptions
<1>4. SubmitterOptions \subseteq [submitted : Nat, finishedSent : BOOLEAN,
                           sent : SUBSET Nat, acknowledged : BOOLEAN,
                           increase : BOOLEAN, again : BOOLEAN,
                           separate : BOOLEAN, metadata : BOOLEAN]
  <2>1. \A p \in SubmissionPlans :
          p \in [acknowledged : BOOLEAN, increase : BOOLEAN, again : BOOLEAN,
                 separate : BOOLEAN, metadata : BOOLEAN]
    BY SubmitterAssumption
  <2>2. ASSUME NEW o \in SubmitterOptions
        PROVE  o \in [submitted : Nat, finishedSent : BOOLEAN, sent : SUBSET Nat,
                      acknowledged : BOOLEAN, increase : BOOLEAN, again : BOOLEAN,
                      separate : BOOLEAN, metadata : BOOLEAN]
    <3>1. PICK p \in SubmissionPlans :
            o = [submitted |-> 0, finishedSent |-> FALSE, sent |-> {},
                 acknowledged |-> p.acknowledged, increase |-> p.increase,
                 again |-> p.again, separate |-> p.separate, metadata |-> p.metadata]
      BY DEF SubmitterOptions
    <3>2. /\ p.acknowledged \in BOOLEAN /\ p.increase \in BOOLEAN /\ p.again \in BOOLEAN
          /\ p.separate \in BOOLEAN /\ p.metadata \in BOOLEAN
      BY <2>1
    <3>. QED  BY <3>1, <3>2
  <2>. QED  BY <2>2
<1>5. /\ Killer2Options \subseteq {<<>>}
      /\ SequencerOptions \subseteq [running : BOOLEAN]
      /\ DVFSOptions \subseteq [running : BOOLEAN, fast : BOOLEAN, machines : SUBSET Machines]
      /\ SleeperOptions \subseteq [computing : SUBSET Machines, on : SUBSET Machines,
                           off : SUBSET Machines, asleep : SUBSET Machines,
                           job : Jobs \cup {NullJob}, finished : BOOLEAN]
      /\ WatcherOptions \subseteq [busy : BOOLEAN, previous : Int]
  BY DEF Killer2Options, SequencerOptions, DVFSOptions, SleeperOptions, WatcherOptions
<1>6. CASE v = "killer"
  BY <1>1, <1>6 DEF OptionsOf, Members
<1>7. CASE v = "crasher"
  BY <1>2, <1>7 DEF OptionsOf, Members
<1>8. CASE v = "filler"
  BY <1>3, <1>8 DEF OptionsOf, Members
<1>9. CASE v = "submitter"
  BY <1>4, <1>9 DEF OptionsOf, Members
<1>10. CASE v \in {"killer2", "sequencer", "sequencer_dvfs", "sleeper", "energy_watcher"}
  BY <1>5, <1>10 DEF OptionsOf, Members
<1>11. CASE v \notin {"killer", "crasher", "filler", "submitter", "killer2", "sequencer",
                      "sequencer_dvfs", "sleeper", "energy_watcher"}
  BY <1>11 DEF OptionsOf, Members
<1>. QED  BY <1>6, <1>7, <1>8, <1>9, <1>10, <1>11

\* The initial states.
LEMMA InitTypes ==
  ASSUME Init
  PROVE  Types
<1>1. PlatformTypes
  <2>1. DynamicRun \in Nat
    BY RunLoopAssumption
  <2>2. /\ clock = 0 /\ kills = <<>> /\ down = {}
        /\ status = [j \in Jobs |-> "future"]
        /\ size = [j \in Jobs |-> IF j \in Dynamic THEN 1 ELSE 0]
        /\ walltime = [j \in Jobs |-> IF j \in Dynamic THEN DynamicRun ELSE 0]
        /\ placed = [j \in Jobs |-> {}]
        /\ pstate = [m \in Machines |-> "fast"] /\ target = [m \in Machines |-> "fast"]
    BY DEF Init
  <2>3. Dynamic \subseteq Jobs
    BY DEF Jobs
  <2>. QED  BY <2>1, <2>2, <2>3 DEF PlatformTypes, Statuses, PStates
<1>2. SocketTypes /\ Turns
  <2>1. Event("SIMULATION_BEGINS") \in Events
    BY DEF Init, Event, Events
  <2>. QED  BY <2>1 DEF Init, SocketTypes, Turns
<1>3. LoopTypes
  <2>1. NothingRecent \in Accumulators
    BY DEF NothingRecent, Accumulators, PStates
  <2>2. order \in QueueOrders
    BY RunLoopAssumption DEF Init, QueueOrders
  <2>. QED  BY <2>1, <2>2 DEF Init, LoopTypes
<1>4. AlgorithmTypes
  BY OptionsAreMembers DEF Init, AlgorithmTypes
<1>5. KnownJobs
  <2>1. inbox = <<Event("SIMULATION_BEGINS")>> /\ recent = NothingRecent /\ queue = <<>>
    BY DEF Init
  <2>2. inbox[1].type = "SIMULATION_BEGINS" /\ Len(inbox) = 1
    BY <2>1 DEF Event
  <2>. QED  BY <2>1, <2>2 DEF KnownJobs, NothingRecent
<1>. QED  BY <1>1, <1>2, <1>3, <1>4, <1>5 DEF Types


-------------------------------------------------------------------------------
(* What is left unread.                                                    *)

\* Before the first event of a message, and when make_decisions is skipped, no
\* accumulator holds anything.  The second part needs the first one: if the
\* only event of a message is a requested call, nothing has been accumulated
\* since the message came.
Unread ==
  /\ handled \in Nat
  /\ AtWork => handled = 0 /\ recent = NothingRecent
  /\ pc = "events" /\ handled = 0 => recent = NothingRecent
  /\ Deciding /\ SingleNop => recent = NothingRecent

\* Every step keeps it.
LEMMA UnreadStep ==
  ASSUME Unread, [Next]_vars
  PROVE  Unread'
<1>1. CASE Quiet
  BY <1>1 DEF Quiet, Unread, AtWork, Deciding, schedVars, loopVars, NothingRecent
<1>2. CASE Send
  BY <1>2 DEF Send, Unread, AtWork, Deciding, schedVars, loopVars, NothingRecent
<1>3. CASE HandlesEvent
  <2>1. /\ Handling /\ handled' = handled + 1 /\ UNCHANGED inbox
        /\ pc' = IF handled + 1 = Len(inbox) THEN "decide" ELSE "events"
        /\ recent' = recent \/ Current.type # "REQUESTED_CALL"
    BY <1>3 DEF HandlesEvent, Receives
  <2>2. ASSUME pc' = "decide", SingleNop'
        PROVE  recent' = NothingRecent
    <3>1. Len(inbox) = 1 /\ inbox[1].type = "REQUESTED_CALL"
      BY <2>1, <2>2 DEF SingleNop
    <3>2. handled = 0
      BY <2>1, <2>2, <3>1 DEF Unread
    <3>. QED  BY <2>1, <3>1, <3>2 DEF Unread, Handling, Current
  <2>. QED  BY <2>1, <2>2 DEF Unread, AtWork, Deciding, NothingRecent
<1>4. CASE Crash
  BY <1>4 DEF Crash, Unread, AtWork, Deciding
<1>5. CASE Answers
  BY <1>5 DEF Answers, Reply, WriteReply, Unread, AtWork, Deciding, NothingRecent
<1>6. CASE SkipDecisions
  BY <1>6 DEF SkipDecisions, CallsMakeDecisions, WriteReply, Unread, AtWork,
       Deciding, NothingRecent
<1>7. CASE UNCHANGED vars
  BY <1>7 DEF vars, socketVars, schedVars, loopVars, Unread, AtWork, Deciding,
       SingleNop, NothingRecent
<1>. QED  BY Shapes, <1>1, <1>2, <1>3, <1>4, <1>5, <1>6, <1>7

\* NothingLeftUnread of RunLoop: between two messages no accumulator of
\* ISchedulingAlgorithm holds anything, although make_decisions, which clears
\* them, is skipped for a message with nothing but a requested call.
THEOREM NothingLeftUnreadHolds == Spec => []NothingLeftUnread
<1>1. Init => Unread
  BY DEF Init, Unread, Deciding
<1>2. Unread /\ [Next]_vars => Unread'
  BY UnreadStep
<1>3. Unread => NothingLeftUnread
  BY DEF Unread, NothingLeftUnread
<1>. QED  BY <1>1, <1>2, <1>3, PTL DEF Spec
-------------------------------------------------------------------------------
(* The dates of what is written.                                           *)

\* Nothing is written for a date later than the one Batsim is silent until;
\* while batsched is at work that date has passed.  Events keep their order.
\* sequencer_dvfs decides at the date of an event, so for it nothing is written
\* later than an event that is still to be handled.
DatesInOrder ==
  /\ AtWork => lastDate <= until
  /\ pc \in {"events", "decide"} => until <= clock /\ lastDate <= clock
  /\ \A k \in 1 .. Len(inbox) : inbox[k].date <= clock
  /\ \A h, k \in 1 .. Len(inbox) : h < k => inbox[h].date <= inbox[k].date
  /\ variant = "sequencer_dvfs" /\ pc \in {"batsim", "events", "decide"} =>
       /\ until <= clock
       /\ \A k \in handled + 1 .. Len(inbox) : lastDate <= inbox[k].date

IInv == Types /\ Unread /\ DatesInOrder
\* What DatesNeverDecrease says of a step.
WrittenInOrder ==
  /\ DatesAreConsistent(SubSeq(outbox', Len(outbox) + 1, Len(outbox')), lastDate)
  /\ until' >= until
  /\ until' # until => until' >= lastDate'

\* The dates that the invariant compares are numbers.
LEMMA DatesAreNumbers ==
  ASSUME Types
  PROVE  /\ clock \in Nat /\ until \in Nat /\ lastDate \in Int
         /\ Len(inbox) \in Nat /\ handled \in 0 .. Len(inbox)
         /\ \A k \in 1 .. Len(inbox) : inbox[k].date \in Nat
<1>1. \A k \in 1 .. Len(inbox) : inbox[k] \in Events
  BY ElementOfSeq DEF Types, SocketTypes
<1>2. \A k \in 1 .. Len(inbox) : inbox[k].date \in Nat
  BY <1>1 DEF Events
<1>. QED  BY <1>2, LenProperties DEF Types, SocketTypes, PlatformTypes, LoopTypes

\* Steps that write nothing.
LEMMA NothingWritten ==
  ASSUME Types, UNCHANGED <<lastDate, until>>, Consumes
  PROVE  WrittenInOrder
<1>1. outbox \in Seq(Decisions) /\ outbox' \in Seq(Decisions)
  BY DEF Consumes, Types, SocketTypes
<1>2. /\ Len(outbox) \in Nat /\ Len(outbox') \in Nat /\ Len(outbox') <= Len(outbox)
  <2>1. CASE UNCHANGED outbox
    BY <1>1, <2>1, LenProperties
  <2>2. CASE outbox # <<>> /\ outbox' = Tail(outbox)
    <3>1. Len(Tail(outbox)) = Len(outbox) - 1
      BY <1>1, <2>2
    <3>. QED  BY <1>1, <2>2, <3>1, LenProperties
  <2>. QED  BY <2>1, <2>2 DEF Consumes
<1>3. \A s \in Seq(Decisions) : \A m, n \in Nat :
        m > n => DOMAIN SubSeq(s, m, n) = {}
  OBVIOUS
<1>4. DOMAIN SubSeq(outbox', Len(outbox) + 1, Len(outbox')) = {}
  BY <1>1, <1>2, <1>3
<1>5. until \in Nat
  BY DatesAreNumbers
<1>. QED  BY <1>4, <1>5 DEF WrittenInOrder, DatesAreConsistent

\* Decisions no earlier than the last one written, with the reply or before.
LEMMA SomethingWritten ==
  ASSUME Types, NEW ds \in Seq(Decisions), NEW low \in Int, lastDate <= low,
         DatesAreConsistent(ds, low), Emit(ds),
         \/ UNCHANGED until
         \/ until <= clock /\ until' = Max({clock, lastDate'})
  PROVE  WrittenInOrder
<1>1. /\ lastDate' \in Int
      /\ SubSeq(outbox', Len(outbox) + 1, Len(outbox')) = ds
  BY Emitted DEF Types, SocketTypes, LoopTypes
<1>2. DatesAreConsistent(ds, lastDate)
  <2>1. lastDate \in Int
    BY DatesAreNumbers
  <2>2. DOMAIN ds = 1 .. Len(ds) /\ \A k \in 1 .. Len(ds) : ds[k].date \in Int
    <3>1. \A k \in 1 .. Len(ds) : ds[k] \in Decisions
      BY ElementOfSeq
    <3>. QED  BY <3>1, LenProperties DEF Decisions
  <2>3. SUFFICES ASSUME NEW k \in 1 .. Len(ds)
                 PROVE  ds[k].date >= IF k = 1 THEN lastDate ELSE ds[k - 1].date
    BY <2>2 DEF DatesAreConsistent
  <2>4. ds[k].date >= IF k = 1 THEN low ELSE ds[k - 1].date
    BY <2>2 DEF DatesAreConsistent
  <2>5. CASE k = 1
    BY <2>1, <2>2, <2>4, <2>5
  <2>6. CASE k # 1
    BY <2>4, <2>6
  <2>. QED  BY <2>5, <2>6
<1>3. until' >= until /\ (until' # until => until' >= lastDate')
  <2>1. clock \in Int /\ until \in Int
    BY DatesAreNumbers
  <2>2. CASE UNCHANGED until
    BY <2>1, <2>2
  <2>3. CASE until <= clock /\ until' = Max({clock, lastDate'})
    <3>1. /\ Max({clock, lastDate'}) \in {clock, lastDate'}
          /\ Max({clock, lastDate'}) >= clock
          /\ Max({clock, lastDate'}) >= lastDate'
      BY <1>1, <2>1, LaterOfTwo, Zenon
    <3>. QED  BY <1>1, <2>1, <2>3, <3>1
  <2>. QED  BY <2>2, <2>3
<1>. QED  BY <1>1, <1>2, <1>3 DEF WrittenInOrder

\* Batsim moves.
LEMMA MovesKeepDates ==
  ASSUME Types, DatesInOrder, BatsimMoves
  PROVE  DatesInOrder' /\ WrittenInOrder
<1>1. /\ AtWork /\ handled = 0
      /\ UNCHANGED <<pc, handled, until, lastDate, variant>>
      /\ clock <= clock'
  BY DEF BatsimMoves, Quiet, schedVars, configVars, loopVars, Types, Turns, AtWork
<1>2. WrittenInOrder
  BY <1>1, NothingWritten DEF BatsimMoves
<1>3. /\ clock \in Nat /\ clock' \in Nat /\ until \in Nat /\ lastDate \in Int
      /\ Len(inbox) \in Nat /\ Len(inbox') \in Nat
      /\ \A k \in 1 .. Len(inbox) : inbox[k].date \in Nat
  BY DatesAreNumbers, LenProperties DEF BatsimMoves, Announces, PlatformTypes
<1>4. /\ Len(inbox) <= Len(inbox')
      /\ \A k \in 1 .. Len(inbox) : inbox'[k].date = inbox[k].date
      /\ \A k \in Len(inbox) + 1 .. Len(inbox') : inbox'[k].date = clock
  BY DEF BatsimMoves, Announces
<1>5. \A k \in 1 .. Len(inbox') :
        \/ k \in 1 .. Len(inbox) /\ inbox'[k].date = inbox[k].date
        \/ k \in Len(inbox) + 1 .. Len(inbox') /\ inbox'[k].date = clock
  BY <1>3, <1>4
<1>6. lastDate <= until /\ \A k \in 1 .. Len(inbox) : inbox[k].date <= clock
  BY <1>1 DEF DatesInOrder
<1>7. \A k \in 1 .. Len(inbox') : inbox'[k].date <= clock /\ inbox'[k].date <= clock'
  BY <1>1, <1>3, <1>5, <1>6
<1>8. \A h, k \in 1 .. Len(inbox') : h < k => inbox'[h].date <= inbox'[k].date
  <2>1. \A h, k \in 1 .. Len(inbox) : h < k => inbox[h].date <= inbox[k].date
    BY DEF DatesInOrder
  <2>2. ASSUME NEW h \in 1 .. Len(inbox'), NEW k \in 1 .. Len(inbox'), h < k
        PROVE  inbox'[h].date <= inbox'[k].date
    <3>1. CASE k \in 1 .. Len(inbox)
      <4>1. h \in 1 .. Len(inbox)
        BY <1>3, <2>2, <3>1
      <4>2. inbox'[h].date = inbox[h].date /\ inbox'[k].date = inbox[k].date
        BY <1>4, <3>1, <4>1
      <4>. QED  BY <2>1, <2>2, <3>1, <4>1, <4>2
    <3>2. CASE k \in Len(inbox) + 1 .. Len(inbox')
      BY <1>4, <1>7, <3>2
    <3>. QED  BY <1>5, <3>1, <3>2
  <2>. QED  BY <2>2
<1>9. ASSUME variant = "sequencer_dvfs"
      PROVE  /\ until <= clock
             /\ \A k \in 1 .. Len(inbox') : lastDate <= inbox'[k].date
  <2>1. until <= clock /\ \A k \in 1 .. Len(inbox) : lastDate <= inbox[k].date
    BY <1>1, <1>9 DEF DatesInOrder, AtWork
  <2>. QED  BY <1>3, <1>5, <1>6, <2>1
<1>10. DatesInOrder'
  BY <1>1, <1>3, <1>6, <1>7, <1>8, <1>9 DEF DatesInOrder, AtWork
<1>. QED  BY <1>2, <1>10

\* The message is sent.
LEMMA SendKeepsDates ==
  ASSUME Types, DatesInOrder, Send
  PROVE  DatesInOrder' /\ WrittenInOrder
<1>1. /\ pc = "batsim" /\ pc' = "events" /\ until <= clock
      /\ UNCHANGED <<inbox, handled, outbox, until, clock, lastDate, variant>>
  BY DatesAreNumbers
     DEF Send, AtWork, batsimVars, schedVars, configVars, loopVars
<1>2. lastDate <= until /\ lastDate <= clock
  BY <1>1, DatesAreNumbers DEF DatesInOrder, AtWork
<1>3. WrittenInOrder
  BY <1>1, NothingWritten DEF Consumes
<1>. QED  BY <1>1, <1>2, <1>3 DEF DatesInOrder, AtWork

\* An event is handled; what is written meanwhile has its date.
LEMMA EventKeepsDates ==
  ASSUME Types, DatesInOrder, Receives(Current.type),
         \/ UNCHANGED <<outbox, lastDate>>
         \/ /\ variant = "sequencer_dvfs"
            /\ \E ds \in Seq(OnTime(Current.date)) : Emit(ds)
  PROVE  DatesInOrder' /\ WrittenInOrder
<1>1. /\ pc = "events" /\ pc' \in {"events", "decide"}
      /\ handled' = handled + 1 /\ handled < Len(inbox)
      /\ UNCHANGED <<inbox, until, clock, variant>>
  BY DEF Receives, Handling, batsimVars, configVars
<1>2. /\ clock \in Nat /\ until \in Nat /\ lastDate \in Int
      /\ Len(inbox) \in Nat /\ handled \in Nat
      /\ \A k \in 1 .. Len(inbox) : inbox[k].date \in Nat
      /\ handled + 1 \in 1 .. Len(inbox)
  BY <1>1, DatesAreNumbers
<1>3. until <= clock /\ lastDate <= clock /\ Current.date <= clock /\ Current.date \in Nat
  BY <1>1, <1>2 DEF DatesInOrder, Current
<1>4. CASE UNCHANGED <<outbox, lastDate>>
  <2>1. WrittenInOrder
    BY <1>1, <1>4, NothingWritten DEF Consumes
  <2>2. DatesInOrder'
    BY <1>1, <1>2, <1>4 DEF DatesInOrder, AtWork
  <2>. QED  BY <2>1, <2>2
<1>5. ASSUME variant = "sequencer_dvfs", NEW ds \in Seq(OnTime(Current.date)), Emit(ds)
      PROVE  DatesInOrder' /\ WrittenInOrder
  <2>. DEFINE date == Current.date
  <2>1. lastDate <= date
    BY <1>1, <1>2, <1>5 DEF DatesInOrder, Current
  <2>2. /\ ds \in Seq(Decisions)
        /\ DatesAreConsistent(ds, date)
        /\ DateAfter(ds, lastDate) \in {lastDate, date}
    <3>1. \A low \in Int : low <= date =>
            /\ ds \in Seq(Decisions) /\ DatesAreConsistent(ds, low)
            /\ DateAfter(ds, low) \in {low, date}
      BY <1>3, <1>5, SameDate
    <3>. QED  BY <1>2, <1>3, <2>1, <3>1
  <2>3. lastDate' \in {lastDate, date}
    BY <1>5, <2>2 DEF Emit
  <2>4. WrittenInOrder
    BY <1>1, <1>3, <1>5, <2>1, <2>2, SomethingWritten
  <2>5. \A k \in handled + 2 .. Len(inbox) : date <= inbox[k].date
    BY <1>2 DEF DatesInOrder, Current
  <2>6. \A k \in handled + 2 .. Len(inbox) : lastDate <= inbox[k].date
    BY <1>1, <1>2, <1>5 DEF DatesInOrder
  <2>. HIDE DEF date
  <2>7. \A k \in handled' + 1 .. Len(inbox) : lastDate' <= inbox[k].date
    BY <1>1, <1>2, <2>3, <2>5, <2>6
  <2>8. lastDate' <= clock
    BY <1>3, <2>3 DEF date
  <2>9. DatesInOrder'
    BY <1>1, <1>3, <2>7, <2>8 DEF DatesInOrder, AtWork
  <2>. QED  BY <2>4, <2>9
<1>. QED  BY <1>4, <1>5

\* The reply.
LEMMA ReplyKeepsDates ==
  ASSUME Types, DatesInOrder, Deciding, WriteReply, lastDate' \in Int,
         variant = "sequencer_dvfs" => lastDate' <= clock
  PROVE  DatesInOrder'
<1>1. /\ pc' \in {"batsim", "over"} /\ until' = Max({clock, lastDate'})
      /\ inbox' = <<>> /\ handled' = 0 /\ UNCHANGED <<clock, variant>>
  BY DEF WriteReply, batsimVars, configVars
<1>2. clock \in Int
  BY DatesAreNumbers
<1>3. /\ Max({clock, lastDate'}) \in {clock, lastDate'}
      /\ Max({clock, lastDate'}) >= clock
      /\ Max({clock, lastDate'}) >= lastDate'
  BY <1>2, LaterOfTwo, Zenon
<1>4. variant = "sequencer_dvfs" => until' <= clock
  BY <1>1, <1>2, <1>3
<1>5. lastDate' <= until'
  BY <1>1, <1>2, <1>3
<1>. QED  BY <1>1, <1>4, <1>5 DEF DatesInOrder, AtWork

\* Decisions of make_decisions.
LEMMA DecidingKeepsDates ==
  ASSUME Types, DatesInOrder, Deciding, Decides
  PROVE  DatesInOrder' /\ WrittenInOrder
<1>1. PICK ds \in Seq(Decisions) :
        /\ Reply(ds)
        /\ DatesAreConsistent(ds, clock)
        /\ variant = "sequencer_dvfs" => ds \in Seq(OnTime(clock))
  BY DEF Decides
<1>2. /\ until <= clock /\ lastDate <= clock /\ clock \in Nat /\ lastDate \in Int
  BY DatesAreNumbers DEF DatesInOrder, Deciding
<1>3. /\ Emit(ds) /\ WriteReply /\ until' = Max({clock, lastDate'})
  BY <1>1 DEF Reply, WriteReply
<1>4. lastDate' \in Int
  BY <1>3, Emitted DEF Types, SocketTypes, LoopTypes
<1>5. variant = "sequencer_dvfs" => lastDate' <= clock
  <2>1. ASSUME ds \in Seq(OnTime(clock))
        PROVE  DateAfter(ds, lastDate) \in {lastDate, clock}
    BY <1>2, <2>1, SameDate
  <2>2. lastDate' = DateAfter(ds, lastDate)
    BY <1>3 DEF Emit
  <2>. QED  BY <1>1, <1>2, <2>1, <2>2
<1>6. WrittenInOrder
  BY <1>1, <1>2, <1>3, SomethingWritten
<1>. QED  BY <1>3, <1>4, <1>5, <1>6, ReplyKeepsDates

\* Every step.
LEMMA DatesStep ==
  ASSUME Types, DatesInOrder, [Next]_vars
  PROVE  DatesInOrder' /\ WrittenInOrder
<1>1. CASE Happening \/ Applying \/ Tick \/ EndSimulation
  <2>1. BatsimMoves
    BY <1>1, HappeningMoves, ApplyingMoves, OtherMoves DEF Types
  <2>. QED  BY <2>1, MovesKeepDates
<1>2. CASE Send
  BY <1>2, SendKeepsDates
<1>3. CASE Receiving
  <2>1. Receives(Current.type) /\ UNCHANGED <<outbox, lastDate>>
    BY <1>3 DEF Receiving, ReceiveSimulationBegins, ReceiveJobSubmitted,
         ReceiveJobCompleted, ReceiveJobKilled, ReceiveResourceStateChanged,
         ReceiveAnswer, ReceiveQuery, ReceiveAvailable, ReceiveUnavailable,
         ReceiveNoMoreStaticJob, ReceiveSimulationEnds, Receives, Accumulates,
         loopVars
  <2>. QED  BY <2>1, EventKeepsDates
<1>4. CASE DVFSReceiveSimulationBegins \/ DVFSReceiveRequestedCall
  <2>1. Receives(Current.type)
    BY <1>4 DEF DVFSReceiveSimulationBegins, DVFSReceiveRequestedCall, Receives
  <2>. QED  BY <1>4, <2>1, DVFSEmits, EventKeepsDates
<1>5. CASE SleeperReceiveSimulationEnds
  <2>1. Receives(Current.type) /\ UNCHANGED <<outbox, lastDate>>
    BY <1>5 DEF SleeperReceiveSimulationEnds, Receives, loopVars
  <2>. QED  BY <2>1, EventKeepsDates
<1>6. CASE Crash
  <2>1. /\ UNCHANGED <<outbox, lastDate, until, inbox, handled, clock>>
        /\ pc' = "crashed"
    BY <1>6 DEF Crash, schedVars, loopVars, batsimVars
  <2>2. WrittenInOrder
    BY <2>1, NothingWritten DEF Consumes
  <2>. QED  BY <2>1, <2>2 DEF DatesInOrder, AtWork
<1>7. CASE MakeDecisions
  <2>1. Deciding
    BY <1>7 DEF MakeDecisions, KillerMakeDecisions, Killer2MakeDecisions,
         SequencerMakeDecisions, CrasherMakeDecisions, DVFSMakeDecisions,
         FillerMakeDecisions, SleeperMakeDecisions, SubmitterMakeDecisions,
         RejecterMakeDecisions, WaitingTimeEstimatorMakeDecisions,
         RandomMakeDecisions, EnergyWatcherMakeDecisions
  <2>. QED  BY <1>6, <1>7, <2>1, MakeDecisionsDecides, DecidingKeepsDates
<1>8. CASE SkipDecisions
  <2>1. /\ Deciding /\ WriteReply /\ UNCHANGED <<outbox, lastDate>>
        /\ until' = Max({clock, lastDate'})
    BY <1>8 DEF SkipDecisions, WriteReply
  <2>2. /\ until <= clock /\ lastDate <= clock /\ clock \in Nat /\ lastDate \in Int
        /\ outbox \in Seq(Decisions)
    BY <2>1, DatesAreNumbers DEF DatesInOrder, Deciding, Types, SocketTypes
  <2>3. PICK ds \in Seq(Decisions) : Emit(ds) /\ DatesAreConsistent(ds, clock)
    <3>1. Emit(<<>>) /\ <<>> \in Seq(Decisions) /\ DatesAreConsistent(<<>>, clock)
      BY <2>1, <2>2 DEF Emit, DateAfter, DatesAreConsistent
    <3>. QED  BY <3>1
  <2>4. WrittenInOrder
    BY <2>1, <2>2, <2>3, SomethingWritten
  <2>. QED  BY <2>1, <2>2, <2>4, ReplyKeepsDates
<1>9. CASE Stopped \/ UNCHANGED vars
  <2>1. UNCHANGED <<pc, outbox, lastDate, until, inbox, handled, clock, variant>>
    BY <1>9 DEF Stopped, vars, socketVars, schedVars, configVars, loopVars, batsimVars
  <2>2. WrittenInOrder
    BY <2>1, NothingWritten DEF Consumes
  <2>. QED  BY <2>1, <2>2 DEF DatesInOrder, AtWork
<1>10. CASE ReceivingOverridden
  BY <1>4, <1>5, <1>6, <1>10 DEF ReceivingOverridden, CrasherCrashesAtEvent
<1>. QED  BY <1>1, <1>2, <1>3, <1>7, <1>8, <1>9, <1>10 DEF Next

\* The initial states.
LEMMA InitIInv ==
  ASSUME Init
  PROVE  IInv
<1>1. Types /\ Unread
  BY InitTypes DEF Init, Unread, Deciding
<1>2. DatesInOrder
  <2>1. /\ pc = "batsim" /\ clock = 0 /\ until = 0 /\ lastDate = -1 /\ handled = 0
        /\ inbox = <<Event("SIMULATION_BEGINS")>>
    BY DEF Init
  <2>2. Len(inbox) = 1 /\ inbox[1].date = 0
    BY <2>1 DEF Event
  <2>. QED  BY <2>1, <2>2 DEF DatesInOrder, AtWork
<1>. QED  BY <1>1, <1>2 DEF IInv

\* The types of the main loop and of its algorithms, and the order of the dates,
\* hold in every reachable state, whatever the platform does and whichever
\* algorithm runs.
THEOREM VariantsInvariant == Spec => []IInv
<1>1. Init => IInv
  BY InitIInv
<1>2. IInv /\ [Next]_vars => IInv'
  <2>. SUFFICES ASSUME IInv, [Next]_vars  PROVE IInv'
    OBVIOUS
  <2>1. SkipDecisions => recent = NothingRecent
    BY DEF SkipDecisions, CallsMakeDecisions, IInv, Unread
  <2>2. Types' /\ Unread' /\ DatesInOrder'
    BY <2>1, NextKeepsTypes, UnreadStep, DatesStep DEF IInv
  <2>. QED  BY <2>2 DEF IInv
<1>. QED  BY <1>1, <1>2, PTL DEF Spec

\* DatesNeverDecrease of Variants: the assertions "Date inconsistency" of
\* protocol.cpp never fail, neither within a message nor from one to the next,
\* although killer, killer2 and submitter decide for later and sequencer_dvfs
\* decides at the dates of the events.
THEOREM DatesNeverDecreaseHolds == Spec => DatesNeverDecrease
<1>1. IInv /\ [Next]_vars => [WrittenInOrder]_<<outbox, lastDate, until>>
  BY DatesStep DEF IInv
<1>. QED  BY <1>1, VariantsInvariant, PTL DEF Spec, DatesNeverDecrease, WrittenInOrder

===============================================================================
