------------------------------ MODULE Sequencers ------------------------------
(***************************************************************************)
(* sequencer, crasher and sequencer_dvfs (src/src/algo): one job at a      *)
(* time, in the order of the queue, on the leftmost machines.  crasher is  *)
(* a sequencer that stops answering at a moment given by its options.      *)
(* sequencer_dvfs changes the speed of the machines of the running job at  *)
(* every requested call, and keeps a chain of requested calls alive.       *)
(***************************************************************************)
EXTENDS RunLoop

CONSTANTS
  CrashPlans,       \* options of crasher: at the start, the end or a call
  MonitoringPeriod  \* option of sequencer_dvfs

ASSUME SequencersAssumption ==
  /\ CrashPlans \subseteq [onStart : BOOLEAN, onEnd : BOOLEAN, onCall : Nat]
  /\ MonitoringPeriod \in Nat \ {0}

SequencerOptions == {[running |-> FALSE]}
CrasherOptions   ==
  {[running |-> FALSE, callNumber |-> 0, onStart |-> p.onStart,
    onEnd |-> p.onEnd, onCall |-> p.onCall] : p \in CrashPlans}
DVFSOptions      == {[running |-> FALSE, fast |-> TRUE, machines |-> {}]}

-------------------------------------------------------------------------------
\* A job ended or none runs: the next one can be executed.
StillRunning == own.running /\ recent.ended = <<>>
NextJob      == Head(SortedQueue).job
StartsNext   == SortedQueue # <<>> /\ ~StillRunning

\* make_decisions of sequencer, for any other change of its members.
SequencerDecides(members) ==
  /\ own' = [members EXCEPT !.running = StillRunning \/ StartsNext]
  /\ queue' = IF StartsNext THEN RemoveFromQueue(SortedQueue, NextJob)
                            ELSE SortedQueue
  /\ Reply(Rejections(clock) \o
           IF StartsNext
             THEN <<ExecuteJob(NextJob, Left(Machines, size[NextJob]), clock)>>
             ELSE <<>>)
  /\ UNCHANGED <<available, allocations>>

SequencerMakeDecisions ==
  /\ variant = "sequencer" /\ Deciding /\ CallsMakeDecisions
  /\ SequencerDecides(own)

-------------------------------------------------------------------------------
\* Whatever the type of the crash, batsched never answers again.
Crash ==
  /\ pc' = "crashed"
  /\ UNCHANGED <<batsimVars, inbox, handled, outbox, until, schedVars>>

CrashesAtEvent ==
  /\ variant = "crasher" /\ Handling
  /\ \/ own.onStart /\ Current.type = "SIMULATION_BEGINS"
     \/ own.onEnd /\ Current.type = "SIMULATION_ENDS"

CrasherCrashesAtEvent == CrashesAtEvent /\ Crash

\* onCall = 0 stands for crash_on_decision_call = false.
CrashesAtCall == own.onCall > 0 /\ own.callNumber + 1 >= own.onCall

CrasherMakeDecisions ==
  /\ variant = "crasher" /\ Deciding /\ CallsMakeDecisions
  /\ IF CrashesAtCall
       THEN Crash
       ELSE SequencerDecides([own EXCEPT !.callNumber = @ + 1])

-------------------------------------------------------------------------------
\* on_simulation_start of sequencer_dvfs: the initial call is requested.
DVFSReceiveSimulationBegins ==
  /\ variant = "sequencer_dvfs"
  /\ Receives("SIMULATION_BEGINS")
  /\ available' = Machines
  /\ Emit(<<CallMeLater(Current.date + MonitoringPeriod, Current.date)>>)
  /\ UNCHANGED <<recent, noMoreStatic, queue, allocations, own>>

\* on_requested_call of sequencer_dvfs.
ContinuesCalls == ~noMoreStatic \/ own.running

DVFSReceiveRequestedCall ==
  LET date == Current.date
      next == IF ContinuesCalls
                THEN <<CallMeLater(date + MonitoringPeriod, date)>> ELSE <<>>
      toggle == IF own.running
                  THEN <<SetResourceState(own.machines,
                           IF own.fast THEN "slow" ELSE "fast", date)>>
                  ELSE <<>>
  IN
  /\ variant = "sequencer_dvfs"
  /\ Receives("REQUESTED_CALL")
  /\ Emit(next \o toggle)
  /\ own' = [own EXCEPT !.fast = IF own.running THEN ~@ ELSE @]
  /\ UNCHANGED <<recent, noMoreStatic, queue, available, allocations>>

DVFSMakeDecisions ==
  /\ variant = "sequencer_dvfs" /\ Deciding /\ CallsMakeDecisions
  /\ SequencerDecides(
       IF StartsNext THEN [own EXCEPT !.machines = Left(Machines, size[NextJob])]
                     ELSE own)
===============================================================================
