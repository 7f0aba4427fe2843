----------------------------- MODULE EnergyProofs -----------------------------
(***************************************************************************)
(* Batsim never waits in vain, for every platform and workload, every      *)
(* variant of the energy_bf family, all selectors and options.             *)
(*                                                                         *)
(* energy_bf requests a call only if it has decided nothing, no call is    *)
(* pending and not all jobs are served.  That this is enough rests on the  *)
(* counters being exact, and on a decision always leaving something under  *)
(* way: a job that runs or a machine that switches.  The variants with a   *)
(* period rely on their calls instead, one of which is always pending.     *)
(* Neither depends on what the schedule says.                              *)
(***************************************************************************)
EXTENDS EnergyMonitoring, Facts

ReleasedJobs == ToSet(released)
WaitingJobs == {j \in Jobs : status[j] = "waiting"}
ServedJobs == {j \in Jobs : status[j] \in {"done", "rejected"}}

IsList(s) == \E S : s \in Seq(S)

Types ==
  /\ now \in Nat
  /\ status \in [Jobs -> Status]
  /\ res \in [Jobs -> Int] /\ walltime \in [Jobs -> Int]
  /\ ended \in Seq(Jobs) /\ released \in Seq(Jobs)
  /\ IsList(calls) /\ IsList(changes)
  /\ called \in Nat

\* energy_bf and energy_bf_dicho: the queues hold jobs that wait, the counters of
\* jobs and of calls are exact, and something is under way when something has been
\* decided.
QueuesAreWaiting ==
  /\ queue \in Seq(Entries(Jobs))
  /\ IsInjective(released)
  /\ JobsOf(queue) \cup ReleasedJobs \subseteq WaitingJobs
  /\ JobsOf(queue) \cap ReleasedJobs = {}

CountersAreExact ==
  /\ nbCalls = Len(calls) + called
  /\ nbCompleted + Len(ended) = Cardinality(ServedJobs)
  /\ nbCompleted \in Int
  /\ pc # "batsim" => called = 0
  /\ pc \notin {"batsim", "events", "ended"} => ended = <<>>

UnderWay ==
  \/ \E j \in Jobs : status[j] = "running"
  \/ \E m \in Machines : Switching(m)

DecisionsHaveEffect ==
  /\ pc = "start" /\ didSomething => UnderWay
  /\ pc = "batsim" /\ NothingToTell /\ WaitingJobs # {}
       => UnderWay \/ calls # <<>>

\* The variants with a period: their calls begin with the first job and go on.
CallsGoOn ==
  /\ launched /\ ~stopCalls => calls # <<>> \/ called > 0
  /\ WaitingJobs # {} /\ ~launched => pc = "batsim" /\ released # <<>>

CallsInv ==
  /\ Types
  /\ ~IsMonitored => QueuesAreWaiting /\ CountersAreExact /\ DecisionsHaveEffect
  /\ IsMonitored => CallsGoOn

KeepsVariant == UNCHANGED <<options, launched, stopCalls>>

-------------------------------------------------------------------------------
(* Lists.                                                                  *)

\* What one more element makes of a list.
LEMMA ListAppend ==
  ASSUME NEW s, IsList(s), NEW e
  PROVE  /\ IsList(Append(s, e)) /\ Append(s, e) # <<>>
         /\ Len(s) \in Nat /\ Len(Append(s, e)) = Len(s) + 1
<1>1. PICK S : s \in Seq(S)
  BY DEF IsList
<1>2. PICK T : T = S \cup {e}
  OBVIOUS
<1>3. s \in Seq(T) /\ e \in T
  <2>1. \A i \in 1 .. Len(s) : s[i] \in T
    BY <1>1, <1>2
  <2>. QED  BY <1>1, <1>2, <2>1
<1>. QED  BY <1>3 DEF IsList

\* And one less.
LEMMA ListShortened ==
  ASSUME NEW s, IsList(s)
  PROVE  /\ DOMAIN s = 1 .. Len(s) /\ Len(s) \in Nat
         /\ s # <<>> <=> Len(s) > 0
         /\ s # <<>> => IsList(Tail(s))
         /\ \A i \in DOMAIN s : /\ IsList(RemoveAt(s, i))
                                /\ Len(RemoveAt(s, i)) = Len(s) - 1
<1>1. PICK S : s \in Seq(S)
  BY DEF IsList
<1>2. DOMAIN s = 1 .. Len(s) /\ Len(s) \in Nat /\ (s # <<>> <=> Len(s) > 0)
  BY <1>1
<1>3. \A i \in DOMAIN s : RemoveAt(s, i) \in Seq(S) /\ Len(RemoveAt(s, i)) = Len(s) - 1
  BY <1>1, <1>2, RemoveAtProperties
<1>4. s # <<>> => Tail(s) \in Seq(S)
  BY <1>1
<1>. QED  BY <1>2, <1>3, <1>4 DEF IsList

\* The jobs by status are finitely many.
LEMMA JobSets ==
  /\ IsFiniteSet(Jobs) /\ IsFiniteSet(ServedJobs) /\ IsFiniteSet(WaitingJobs)
  /\ Cardinality(ServedJobs) \in Nat
<1>1. IsFiniteSet(Jobs)
  BY BoundsAssumption, FS_Interval DEF Jobs
<1>2. ServedJobs \subseteq Jobs /\ WaitingJobs \subseteq Jobs
  BY DEF ServedJobs, WaitingJobs
<1>. QED  BY <1>1, <1>2, FS_Subset, FS_CardinalityType

-------------------------------------------------------------------------------
(* What Batsim does.                                                       *)

\* A job is submitted: it has to be told.
LEMMA SubmitKeeps ==
  ASSUME CallsInv, KeepsVariant, NEW j \in Jobs, NEW r \in Requests,
         NEW w \in Walltimes, Submit(j, r, w), UNCHANGED powerVars, UNCHANGED schedVars
  PROVE  CallsInv'
<1>1. /\ status' = [status EXCEPT ![j] = "waiting"] /\ status[j] = "future"
      /\ released' = Append(released, j)
      /\ pc = "batsim" /\ UNCHANGED <<pc, now, ended, calls, changes, called, queue,
                                      nbCalls, nbCompleted, didSomething>>
  BY DEF Submit, powerVars, schedVars
<1>2. released \in Seq(Jobs) /\ status \in [Jobs -> Status]
  BY DEF CallsInv, Types
<1>3. /\ released' \in Seq(Jobs) /\ released' # <<>>
      /\ ReleasedJobs' = ReleasedJobs \cup {j}
      /\ IsInjective(released) /\ j \notin ReleasedJobs => IsInjective(released')
  BY <1>1, <1>2, AppendToInjective DEF ReleasedJobs
<1>4. Types'
  <2>1. r \in Int /\ w + RjmsDelay \in Int
    BY PlatformAssumption DEF NoWalltime
  <2>. QED  BY <1>1, <1>3, <2>1 DEF CallsInv, Types, Submit, Status
<1>5. /\ WaitingJobs' = WaitingJobs \cup {j} /\ ServedJobs' = ServedJobs
      /\ j \notin WaitingJobs
  BY <1>1, <1>2 DEF WaitingJobs, ServedJobs
<1>6. ~NothingToTell'
  BY <1>3 DEF NothingToTell
<1>7. IsMonitored' <=> IsMonitored
  BY DEF KeepsVariant, IsMonitored
<1>8. ASSUME ~IsMonitored
      PROVE  (QueuesAreWaiting /\ CountersAreExact /\ DecisionsHaveEffect)'
  <2>1. QueuesAreWaiting'
    BY <1>1, <1>3, <1>5, <1>8 DEF CallsInv, QueuesAreWaiting
  <2>2. CountersAreExact'
    BY <1>1, <1>5, <1>8 DEF CallsInv, CountersAreExact
  <2>3. DecisionsHaveEffect'
    BY <1>1, <1>6 DEF DecisionsHaveEffect
  <2>. QED  BY <2>1, <2>2, <2>3
<1>9. ASSUME IsMonitored
      PROVE  CallsGoOn'
  BY <1>1, <1>3, <1>9 DEF CallsInv, CallsGoOn, KeepsVariant
<1>. QED  BY <1>4, <1>7, <1>8, <1>9 DEF CallsInv

\* A job ends: its end has to be told.
LEMMA CompleteKeeps ==
  ASSUME CallsInv, KeepsVariant, NEW j \in Jobs, Complete(j), UNCHANGED powerVars,
         UNCHANGED schedVars
  PROVE  CallsInv'
<1>1. /\ status' = [status EXCEPT ![j] = "done"] /\ status[j] = "running"
      /\ ended' = Append(ended, j)
      /\ pc = "batsim" /\ UNCHANGED <<pc, now, jobVars, released, calls, changes, called,
                                      queue, nbCalls, nbCompleted, didSomething>>
  BY DEF Complete, powerVars, schedVars
<1>2. ended \in Seq(Jobs) /\ status \in [Jobs -> Status]
  BY DEF CallsInv, Types
<1>3. /\ ended' \in Seq(Jobs) /\ ended' # <<>>
      /\ Len(ended') = Len(ended) + 1 /\ Len(ended) \in Nat
  BY <1>1, <1>2
<1>4. Types'
  BY <1>1, <1>3 DEF CallsInv, Types, Status, jobVars
<1>5. /\ WaitingJobs' = WaitingJobs
      /\ ServedJobs' = ServedJobs \cup {j} /\ j \notin ServedJobs
  BY <1>1, <1>2 DEF WaitingJobs, ServedJobs
<1>6. Cardinality(ServedJobs') = Cardinality(ServedJobs) + 1
  BY <1>5, JobSets, FS_AddElement
<1>7. ~NothingToTell'
  BY <1>3 DEF NothingToTell
<1>8. IsMonitored' <=> IsMonitored
  BY DEF KeepsVariant, IsMonitored
<1>9. ASSUME ~IsMonitored
      PROVE  (QueuesAreWaiting /\ CountersAreExact /\ DecisionsHaveEffect)'
  <2>1. QueuesAreWaiting'
    BY <1>1, <1>5, <1>9 DEF CallsInv, QueuesAreWaiting, ReleasedJobs
  <2>2. CountersAreExact'
    BY <1>1, <1>3, <1>6, <1>9, JobSets DEF CallsInv, CountersAreExact
  <2>3. DecisionsHaveEffect'
    BY <1>1, <1>7 DEF DecisionsHaveEffect
  <2>. QED  BY <2>1, <2>2, <2>3
<1>10. ASSUME IsMonitored
       PROVE  CallsGoOn'
  BY <1>1, <1>5, <1>10 DEF CallsInv, CallsGoOn, KeepsVariant
<1>. QED  BY <1>4, <1>8, <1>9, <1>10 DEF CallsInv

\* Machines finish their switch: it has to be told.
LEMMA FinishSwitchKeeps ==
  ASSUME CallsInv, KeepsVariant, NEW M \in SUBSET Machines, FinishSwitch(M),
         UNCHANGED schedVars
  PROVE  CallsInv'
<1>1. /\ \E e : changes' = Append(changes, e)
      /\ pc = "batsim"
      /\ UNCHANGED <<pc, now, status, jobVars, ended, released, calls, called, queue,
                     nbCalls, nbCompleted, didSomething>>
  BY DEF FinishSwitch, worldVars, schedVars
<1>2. IsList(changes') /\ changes' # <<>>
  BY <1>1, ListAppend DEF CallsInv, Types
<1>3. Types'
  BY <1>1, <1>2 DEF CallsInv, Types, jobVars
<1>4. ~NothingToTell'
  BY <1>2 DEF NothingToTell
<1>5. IsMonitored' <=> IsMonitored
  BY DEF KeepsVariant, IsMonitored
<1>6. ASSUME ~IsMonitored
      PROVE  (QueuesAreWaiting /\ CountersAreExact /\ DecisionsHaveEffect)'
  BY <1>1, <1>4, <1>6 DEF CallsInv, QueuesAreWaiting, CountersAreExact,
     DecisionsHaveEffect, ReleasedJobs, WaitingJobs, ServedJobs
<1>7. ASSUME IsMonitored
      PROVE  CallsGoOn'
  BY <1>1, <1>7 DEF CallsInv, CallsGoOn, KeepsVariant, WaitingJobs
<1>. QED  BY <1>3, <1>5, <1>6, <1>7 DEF CallsInv

\* A requested call has to be told: it is not requested any more.
LEMMA CallKeeps ==
  ASSUME CallsInv, KeepsVariant, Call, UNCHANGED schedVars
  PROVE  CallsInv'
<1>1. /\ \E i \in DOMAIN calls : calls' = RemoveAt(calls, i)
      /\ called' = called + 1
      /\ pc = "batsim" /\ UNCHANGED <<pc, now, status, jobVars, ended, released, changes,
                                      queue, nbCalls, nbCompleted, didSomething>>
  BY DEF Call, worldVars, schedVars
<1>2. IsList(calls') /\ Len(calls') = Len(calls) - 1 /\ Len(calls) \in Nat
  BY <1>1, ListShortened DEF CallsInv, Types
<1>3. called \in Nat /\ called' \in Nat /\ called' > 0
  BY <1>1 DEF CallsInv, Types
<1>4. Types'
  BY <1>1, <1>2, <1>3 DEF CallsInv, Types, jobVars
<1>5. ~NothingToTell'
  BY <1>3 DEF NothingToTell
<1>6. IsMonitored' <=> IsMonitored
  BY DEF KeepsVariant, IsMonitored
<1>7. ASSUME ~IsMonitored
      PROVE  (QueuesAreWaiting /\ CountersAreExact /\ DecisionsHaveEffect)'
  <2>1. nbCalls' = Len(calls') + called'
    BY <1>1, <1>2, <1>3, <1>7 DEF CallsInv, CountersAreExact
  <2>. QED
    BY <1>1, <1>5, <1>7, <2>1 DEF CallsInv, QueuesAreWaiting, CountersAreExact,
       DecisionsHaveEffect, ReleasedJobs, WaitingJobs, ServedJobs
<1>8. ASSUME IsMonitored
      PROVE  CallsGoOn'
  BY <1>1, <1>3, <1>8 DEF CallsInv, CallsGoOn, KeepsVariant, WaitingJobs
<1>. QED  BY <1>4, <1>6, <1>7, <1>8 DEF CallsInv

\* Time passes: nothing else changes.
LEMMA TickKeeps ==
  ASSUME CallsInv, KeepsVariant, EnergyTick, UNCHANGED schedVars
  PROVE  CallsInv'
<1>1. /\ now' = now + 1
      /\ UNCHANGED <<pc, status, jobVars, ended, released, powerVars,
                     queue, nbCalls, nbCompleted, didSomething>>
  BY DEF EnergyTick, schedVars
<1>2. Types'
  BY <1>1 DEF CallsInv, Types, jobVars, powerVars
<1>3. IsMonitored' <=> IsMonitored
  BY DEF KeepsVariant, IsMonitored
<1>4. ASSUME ~IsMonitored
      PROVE  (QueuesAreWaiting /\ CountersAreExact /\ DecisionsHaveEffect)'
  BY <1>1, <1>4 DEF CallsInv, QueuesAreWaiting, CountersAreExact, DecisionsHaveEffect,
     ReleasedJobs, WaitingJobs, ServedJobs, powerVars, NothingToTell, UnderWay, Switching
<1>5. ASSUME IsMonitored
      PROVE  CallsGoOn'
  BY <1>1, <1>5 DEF CallsInv, CallsGoOn, KeepsVariant, WaitingJobs, powerVars
<1>. QED  BY <1>2, <1>3, <1>4, <1>5 DEF CallsInv

-------------------------------------------------------------------------------
(* What the scheduler does.                                                *)

\* The events of a message are heard.
LEMMA HearingKeeps ==
  ASSUME CallsInv, KeepsVariant,
         HandleSwitchedOn \/ HandleSwitchedOff \/ EventsHandled
  PROVE  CallsInv'
<1>1. pc = "events" /\ pc' \in {"events", "ended"}
  BY DEF HandleSwitchedOn, HandleSwitchedOff, EventsHandled
<1>2. UNCHANGED <<now, status, jobVars, ended, released, calls, called, queue,
                  nbCalls, nbCompleted>>
  BY DEF HandleSwitchedOn, HandleSwitchedOff, EventsHandled, worldVars, powerVars,
     schedVars
<1>3. IsList(changes')
  <2>1. changes' = changes \/ (changes # <<>> /\ changes' = Tail(changes))
    BY DEF HandleSwitchedOn, HandleSwitchedOff, EventsHandled, powerVars
  <2>. QED  BY <2>1, ListShortened DEF CallsInv, Types
<1>4. Types'
  BY <1>2, <1>3 DEF CallsInv, Types, jobVars
<1>5. IsMonitored' <=> IsMonitored
  BY DEF KeepsVariant, IsMonitored
<1>6. ASSUME ~IsMonitored
      PROVE  (QueuesAreWaiting /\ CountersAreExact /\ DecisionsHaveEffect)'
  BY <1>1, <1>2, <1>6 DEF CallsInv, QueuesAreWaiting, CountersAreExact,
     DecisionsHaveEffect, ReleasedJobs, WaitingJobs, ServedJobs
<1>7. ASSUME IsMonitored
      PROVE  CallsGoOn'
  BY <1>1, <1>2, <1>7 DEF CallsInv, CallsGoOn, KeepsVariant, WaitingJobs
<1>. QED  BY <1>4, <1>5, <1>6, <1>7 DEF CallsInv

\* The future is planned: the plan has no part in it.
LEMMA PlanKeeps ==
  ASSUME CallsInv, KeepsVariant, Plan \/ PlanByDichotomy
  PROVE  CallsInv'
<1>1. pc = "plan" /\ pc' = "switch"
  BY DEF Plan, PlanByDichotomy
<1>2. UNCHANGED <<now, status, jobVars, ended, released, calls, called, changes, queue,
                  nbCalls, nbCompleted>>
  BY DEF Plan, PlanByDichotomy, worldVars, powerVars
<1>3. Types'
  BY <1>2 DEF CallsInv, Types, jobVars
<1>4. IsMonitored' <=> IsMonitored
  BY DEF KeepsVariant, IsMonitored
<1>5. ASSUME ~IsMonitored
      PROVE  (QueuesAreWaiting /\ CountersAreExact /\ DecisionsHaveEffect)'
  BY <1>1, <1>2, <1>5 DEF CallsInv, QueuesAreWaiting, CountersAreExact,
     DecisionsHaveEffect, ReleasedJobs, WaitingJobs, ServedJobs
<1>6. ASSUME IsMonitored
      PROVE  CallsGoOn'
  BY <1>1, <1>2, <1>6 DEF CallsInv, CallsGoOn, KeepsVariant, WaitingJobs
<1>. QED  BY <1>3, <1>4, <1>5, <1>6 DEF CallsInv

\* A message is taken in by energy_bf.
LEMMA ReceiveKeeps ==
  ASSUME CallsInv, KeepsVariant, ~IsMonitored, Receive
  PROVE  CallsInv'
<1>1. /\ pc = "batsim" /\ pc' = "events" /\ called' = 0 /\ nbCalls' = nbCalls - called
      /\ UNCHANGED <<now, status, jobVars, ended, released, calls, changes, queue,
                     nbCompleted>>
  BY DEF Receive, worldVars
<1>2. Types'
  BY <1>1 DEF CallsInv, Types, jobVars
<1>3. IsMonitored' <=> IsMonitored
  BY DEF KeepsVariant, IsMonitored
<1>4. nbCalls' = Len(calls') + called'
  BY <1>1, ListShortened DEF CallsInv, Types, CountersAreExact
<1>. QED
  BY <1>1, <1>2, <1>3, <1>4 DEF CallsInv, QueuesAreWaiting, CountersAreExact,
     DecisionsHaveEffect, ReleasedJobs, WaitingJobs, ServedJobs

\* The jobs that have ended are counted.
LEMMA RemoveEndedKeeps ==
  ASSUME CallsInv, KeepsVariant, RemoveEnded
  PROVE  CallsInv'
<1>1. /\ pc = "ended" /\ pc' = "released" /\ ended' = <<>>
      /\ nbCompleted' = nbCompleted + Len(ended)
      /\ UNCHANGED <<now, status, jobVars, released, calls, called, changes, queue,
                     nbCalls>>
  BY DEF RemoveEnded, worldVars, powerVars
<1>2. Types'
  BY <1>1 DEF CallsInv, Types, jobVars
<1>3. IsMonitored' <=> IsMonitored
  BY DEF KeepsVariant, IsMonitored
<1>4. ASSUME ~IsMonitored
      PROVE  CountersAreExact'
  <2>1. Len(ended) \in Nat /\ Len(ended') = 0
    BY <1>1 DEF CallsInv, Types
  <2>. QED  BY <1>1, <1>4, <2>1 DEF CallsInv, CountersAreExact, ServedJobs
<1>5. ASSUME ~IsMonitored
      PROVE  (QueuesAreWaiting /\ DecisionsHaveEffect)'
  BY <1>1, <1>5 DEF CallsInv, QueuesAreWaiting, DecisionsHaveEffect, ReleasedJobs,
     WaitingJobs
<1>6. ASSUME IsMonitored
      PROVE  CallsGoOn'
  BY <1>1, <1>6 DEF CallsInv, CallsGoOn, KeepsVariant, WaitingJobs
<1>. QED  BY <1>2, <1>3, <1>4, <1>5, <1>6 DEF CallsInv

\* A job that is too large is rejected and counted.
LEMMA RejectKeeps ==
  ASSUME CallsInv, KeepsVariant, RejectReleased
  PROVE  CallsInv'
<1>1. PICK j : j = Head(released)
  OBVIOUS
<1>2. /\ pc = "released" /\ released # <<>> /\ pc' = pc /\ released' = Tail(released)
      /\ status' = [status EXCEPT ![j] = "rejected"]
      /\ nbCompleted' = nbCompleted + 1
      /\ UNCHANGED <<now, jobVars, ended, calls, called, changes, queue, nbCalls>>
  BY <1>1 DEF RejectReleased, RejectJob, powerVars
<1>3. released \in Seq(Jobs) /\ status \in [Jobs -> Status]
  BY DEF CallsInv, Types
<1>4. j \in Jobs /\ released' \in Seq(Jobs)
  BY <1>1, <1>2, <1>3
<1>5. Types'
  BY <1>2, <1>3, <1>4 DEF CallsInv, Types, jobVars, Status
<1>6. IsMonitored' <=> IsMonitored
  BY DEF KeepsVariant, IsMonitored
<1>7. WaitingJobs' = WaitingJobs \ {j} /\ ServedJobs' = ServedJobs \cup {j}
  BY <1>2, <1>3, <1>4 DEF WaitingJobs, ServedJobs
<1>8. ASSUME ~IsMonitored
      PROVE  (QueuesAreWaiting /\ CountersAreExact /\ DecisionsHaveEffect)'
  <2>1. /\ IsInjective(released') /\ ReleasedJobs' = ReleasedJobs \ {j}
        /\ j \in ReleasedJobs
    BY <1>1, <1>2, <1>3, <1>8, TailOfInjective
       DEF CallsInv, QueuesAreWaiting, ReleasedJobs
  <2>2. QueuesAreWaiting'
    BY <1>2, <1>7, <1>8, <2>1 DEF CallsInv, QueuesAreWaiting
  <2>3. j \notin ServedJobs
    BY <1>8, <2>1 DEF CallsInv, QueuesAreWaiting, WaitingJobs, ServedJobs
  <2>4. Cardinality(ServedJobs') = Cardinality(ServedJobs) + 1
    BY <1>7, <2>3, JobSets, FS_AddElement
  <2>5. CountersAreExact'
    BY <1>2, <1>8, <2>4 DEF CallsInv, CountersAreExact, Types
  <2>. QED  BY <1>2, <2>2, <2>5 DEF DecisionsHaveEffect
<1>9. ASSUME IsMonitored
      PROVE  CallsGoOn'
  BY <1>2, <1>7, <1>9 DEF CallsInv, CallsGoOn, KeepsVariant
<1>. QED  BY <1>5, <1>6, <1>8, <1>9 DEF CallsInv

\* Another one enters the queue.
LEMMA QueueKeeps ==
  ASSUME CallsInv, KeepsVariant, QueueReleased
  PROVE  CallsInv'
<1>1. PICK j : j = Head(released)
  OBVIOUS
<1>2. /\ pc = "released" /\ released # <<>> /\ pc' = pc /\ released' = Tail(released)
      /\ queue' = AppendJobs(queue, <<j>>, now)
      /\ UNCHANGED <<now, status, jobVars, ended, calls, called, changes, nbCalls,
                     nbCompleted>>
  BY <1>1 DEF QueueReleased, worldVars, powerVars
<1>3. released \in Seq(Jobs) /\ now \in Int
  BY DEF CallsInv, Types
<1>4. j \in Jobs /\ released' \in Seq(Jobs)
  BY <1>1, <1>2, <1>3
<1>5. Types'
  BY <1>2, <1>4 DEF CallsInv, Types, jobVars
<1>6. IsMonitored' <=> IsMonitored
  BY DEF KeepsVariant, IsMonitored
<1>7. ASSUME ~IsMonitored
      PROVE  (QueuesAreWaiting /\ CountersAreExact /\ DecisionsHaveEffect)'
  <2>1. /\ IsInjective(released') /\ ReleasedJobs' = ReleasedJobs \ {j}
        /\ j \in ReleasedJobs
    BY <1>1, <1>2, <1>3, <1>7, TailOfInjective
       DEF CallsInv, QueuesAreWaiting, ReleasedJobs
  <2>2. <<j>> \in Seq(Jobs) /\ ToSet(<<j>>) = {j}
    BY <1>4 DEF ToSet
  <2>3. queue' \in Seq(Entries(Jobs)) /\ JobsOf(queue') = JobsOf(queue) \cup {j}
    <3>1. PICK js : js = <<j>>
      OBVIOUS
    <3>2. queue \in Seq(Entries(Jobs)) /\ js \in Seq(Jobs)
      BY <1>7, <2>2, <3>1 DEF CallsInv, QueuesAreWaiting
    <3>3. /\ AppendJobs(queue, js, now) \in Seq(Entries(Jobs))
          /\ JobsOf(AppendJobs(queue, js, now)) = JobsOf(queue) \cup ToSet(js)
      BY <1>3, <3>2, AppendJobsElements
    <3>. QED  BY <1>2, <2>2, <3>1, <3>3
  <2>4. QueuesAreWaiting'
    BY <1>2, <1>7, <2>1, <2>3 DEF CallsInv, QueuesAreWaiting, WaitingJobs
  <2>. QED
    BY <1>2, <1>7, <2>4 DEF CallsInv, CountersAreExact, DecisionsHaveEffect, ServedJobs
<1>8. ASSUME IsMonitored
      PROVE  CallsGoOn'
  BY <1>2, <1>8 DEF CallsInv, CallsGoOn, KeepsVariant, WaitingJobs
<1>. QED  BY <1>5, <1>6, <1>7, <1>8 DEF CallsInv

\* The queue is sorted.
LEMMA UpdatePresentKeeps ==
  ASSUME CallsInv, KeepsVariant, UpdatePresent
  PROVE  CallsInv'
<1>1. /\ pc = "released" /\ pc' = "plan"
      /\ queue' = SortQueue(Order, res, walltime, now, queue)
      /\ UNCHANGED <<now, status, jobVars, ended, released, calls, called, changes,
                     nbCalls, nbCompleted>>
  BY DEF UpdatePresent, worldVars, powerVars
<1>2. Types'
  BY <1>1 DEF CallsInv, Types, jobVars
<1>3. IsMonitored' <=> IsMonitored
  BY DEF KeepsVariant, IsMonitored
<1>4. ASSUME ~IsMonitored
      PROVE  (QueuesAreWaiting /\ CountersAreExact /\ DecisionsHaveEffect)'
  <2>1. Jobs \in SUBSET Int /\ Order \in QueueOrders /\ now \in Int
    BY EnergyAssumption DEF Jobs, CallsInv, Types
  <2>2. queue' \in Seq(Entries(Jobs)) /\ JobsOf(queue') = JobsOf(queue)
    <3>1. /\ queue \in Seq(Entries(Jobs))
          /\ res \in [Jobs -> Int] /\ walltime \in [Jobs -> Int]
      BY <1>4 DEF CallsInv, QueuesAreWaiting, Types
    <3>. QED  BY <1>1, <2>1, <3>1, SortQueueElements
  <2>. QED
    BY <1>1, <1>4, <2>2 DEF CallsInv, QueuesAreWaiting, CountersAreExact,
       DecisionsHaveEffect, ReleasedJobs, WaitingJobs, ServedJobs
<1>5. ASSUME IsMonitored
      PROVE  CallsGoOn'
  BY <1>1, <1>5 DEF CallsInv, CallsGoOn, KeepsVariant, WaitingJobs
<1>. QED  BY <1>2, <1>3, <1>4, <1>5 DEF CallsInv

\* Machines are switched: something has been decided if some are.
LEMMA SwitchKeeps ==
  ASSUME CallsInv, KeepsVariant, SwitchMachines
  PROVE  CallsInv'
<1>1. PICK on, off :
        /\ on = NewSwitches(plan, profile, SwitchOnJob)
        /\ off = NewSwitches(plan, profile, SwitchOffJob)
  OBVIOUS
<1>2. /\ pc = "switch" /\ pc' = "start"
      /\ UNCHANGED <<now, status, jobVars, ended, released, calls, called, changes, queue,
                     nbCalls, nbCompleted>>
      /\ didSomething' = (on \cup off # {})
      /\ pstate' = [m \in Machines |-> IF m \in on THEN "switching on"
                                       ELSE IF m \in off THEN "switching off"
                                       ELSE pstate[m]]
  BY <1>1 DEF SwitchMachines, worldVars
<1>3. on \subseteq Machines /\ off \subseteq Machines
  BY <1>1 DEF NewSwitches, MachinesWith
<1>4. didSomething' => UnderWay'
  BY <1>2, <1>3 DEF UnderWay, Switching
<1>5. Types'
  BY <1>2 DEF CallsInv, Types, jobVars
<1>6. IsMonitored' <=> IsMonitored
  BY DEF KeepsVariant, IsMonitored
<1>7. ASSUME ~IsMonitored
      PROVE  (QueuesAreWaiting /\ CountersAreExact /\ DecisionsHaveEffect)'
  BY <1>2, <1>4, <1>7 DEF CallsInv, QueuesAreWaiting, CountersAreExact,
     DecisionsHaveEffect, ReleasedJobs, WaitingJobs, ServedJobs
<1>8. ASSUME IsMonitored
      PROVE  CallsGoOn'
  BY <1>2, <1>8 DEF CallsInv, CallsGoOn, KeepsVariant, WaitingJobs
<1>. QED  BY <1>5, <1>6, <1>7, <1>8 DEF CallsInv

\* A job starts: it runs.
LEMMA StartKeeps ==
  ASSUME CallsInv, KeepsVariant, StartJob
  PROVE  CallsInv'
<1>1. PICK j : j = Min(JobsToStart)
  OBVIOUS
<1>2. /\ pc = "start" /\ pc' = pc /\ JobsToStart # {}
      /\ status' = [status EXCEPT ![j] = "running"]
      /\ queue' = RemoveFromQueue(queue, j)
      /\ UNCHANGED <<now, jobVars, ended, released, calls, called, changes, nbCalls,
                     nbCompleted>>
  BY <1>1 DEF StartJob, ExecuteJob, powerVars
<1>3. status \in [Jobs -> Status]
  BY DEF CallsInv, Types
<1>4. Types'
  BY <1>2, <1>3 DEF CallsInv, Types, jobVars, Status
<1>5. IsMonitored' <=> IsMonitored
  BY DEF KeepsVariant, IsMonitored
<1>6. ASSUME ~IsMonitored
      PROVE  (QueuesAreWaiting /\ CountersAreExact /\ DecisionsHaveEffect)'
  <2>1. queue \in Seq(Entries(Jobs)) /\ JobsOf(queue) \subseteq WaitingJobs
    BY <1>6 DEF CallsInv, QueuesAreWaiting
  <2>2. JobsToStart \subseteq JobsOf(queue) /\ JobsToStart \in SUBSET Nat
    BY <2>1 DEF JobsToStart, WaitingJobs, Jobs
  <2>3. j \in JobsToStart
    BY <1>1, <1>2, <2>2, LeastElement DEF Min
  <2>4. j \in Jobs /\ status[j] = "waiting" /\ j \in JobsOf(queue)
    BY <2>1, <2>2, <2>3 DEF WaitingJobs
  <2>5. /\ queue' \in Seq(Entries(Jobs))
        /\ JobsOf(queue') = JobsOf(queue) \ {j}
    BY <1>2, <2>1, RemoveFromQueueElements
  <2>6. WaitingJobs' = WaitingJobs \ {j} /\ ServedJobs' = ServedJobs /\ UnderWay'
    BY <1>2, <1>3, <2>4 DEF WaitingJobs, ServedJobs, UnderWay
  <2>7. QueuesAreWaiting'
    BY <1>2, <1>6, <2>4, <2>5, <2>6 DEF CallsInv, QueuesAreWaiting, ReleasedJobs
  <2>8. CountersAreExact'
    BY <1>2, <1>6, <2>6 DEF CallsInv, CountersAreExact
  <2>. QED  BY <1>2, <2>6, <2>7, <2>8 DEF DecisionsHaveEffect
<1>7. ASSUME IsMonitored
      PROVE  CallsGoOn'
  <2>1. WaitingJobs' \subseteq WaitingJobs
    BY <1>2, <1>3 DEF WaitingJobs
  <2>. QED  BY <1>2, <1>7, <2>1 DEF CallsInv, CallsGoOn, KeepsVariant
<1>. QED  BY <1>4, <1>5, <1>6, <1>7 DEF CallsInv

\* If a job waits, fewer are served than have been submitted.
LEMMA ServedAreFewer ==
  ASSUME Types, WaitingJobs # {}
  PROVE  Cardinality(ServedJobs) < NbJobsInWorkload
<1>1. PICK S, j : S = {k \in Jobs : status[k] # "future"} /\ j \in WaitingJobs
  OBVIOUS
<1>2. S \subseteq Jobs /\ ServedJobs \cup {j} \subseteq S /\ j \notin ServedJobs
  BY <1>1 DEF WaitingJobs, ServedJobs
<1>3. IsFiniteSet(S)
  BY <1>2, JobSets, FS_Subset
<1>4. Cardinality(ServedJobs \cup {j}) = Cardinality(ServedJobs) + 1
  BY <1>2, JobSets, FS_AddElement
<1>5. Cardinality(ServedJobs \cup {j}) <= Cardinality(S)
  BY <1>2, <1>3, CountMonotonic
<1>6. Cardinality(S) \in Nat
  BY <1>3, FS_CardinalityType
<1>. QED  BY <1>1, <1>4, <1>5, <1>6, JobSets DEF NbJobsInWorkload

\* The reply: a call is requested if nothing is under way and a job waits.
LEMMA ReplyKeeps ==
  ASSUME CallsInv, KeepsVariant, Reply
  PROVE  CallsInv'
<1>1. /\ pc = "start" /\ pc' = "batsim"
      /\ UNCHANGED <<now, status, jobVars, ended, released, called, changes, queue,
                     nbCompleted, pstate>>
      /\ \/ /\ NeedsCall
            /\ calls' = Append(calls, profile[1].end + 1) /\ nbCalls' = nbCalls + 1
         \/ ~NeedsCall /\ UNCHANGED <<calls, nbCalls>>
  BY DEF Reply, worldVars
<1>2. IsList(calls') /\ (NeedsCall => calls' # <<>> /\ Len(calls') = Len(calls) + 1)
  BY <1>1, ListAppend DEF CallsInv, Types
<1>3. Len(calls) \in Nat /\ (calls # <<>> <=> Len(calls) > 0)
  BY ListShortened DEF CallsInv, Types
<1>4. Types'
  BY <1>1, <1>2 DEF CallsInv, Types, jobVars
<1>5. IsMonitored' <=> IsMonitored
  BY DEF KeepsVariant, IsMonitored
<1>6. WaitingJobs' = WaitingJobs /\ ServedJobs' = ServedJobs /\ (UnderWay' <=> UnderWay)
  BY <1>1 DEF WaitingJobs, ServedJobs, UnderWay, Switching
<1>7. ASSUME ~IsMonitored
      PROVE  (QueuesAreWaiting /\ CountersAreExact /\ DecisionsHaveEffect)'
  <2>1. /\ nbCalls = Len(calls) /\ called = 0 /\ ended = <<>>
        /\ nbCompleted = Cardinality(ServedJobs)
    <3>1. /\ nbCalls = Len(calls) + called /\ called = 0 /\ ended = <<>>
          /\ nbCompleted + Len(ended) = Cardinality(ServedJobs) /\ nbCompleted \in Int
      BY <1>1, <1>7 DEF CallsInv, CountersAreExact
    <3>2. Len(ended) = 0
      BY <3>1
    <3>. QED  BY <1>3, <3>1, <3>2, JobSets
  <2>2. CountersAreExact'
    <3>1. nbCalls' = Len(calls') + called'
      BY <1>1, <1>2, <1>3, <2>1
    <3>. QED
      BY <1>1, <1>6, <1>7, <3>1 DEF CallsInv, CountersAreExact
  <2>3. ASSUME WaitingJobs # {}
        PROVE  UnderWay \/ calls' # <<>>
    <3>1. CASE didSomething
      BY <1>1, <1>7, <3>1 DEF CallsInv, DecisionsHaveEffect
    <3>2. CASE nbCalls # 0
      BY <1>1, <1>2, <1>3, <2>1, <3>2
    <3>3. CASE ~didSomething /\ nbCalls = 0
      <4>1. NeedsCall
        BY <2>1, <2>3, <3>3, ServedAreFewer DEF NeedsCall, CallsInv
      <4>. QED  BY <1>2, <4>1
    <3>. QED  BY <3>1, <3>2, <3>3
  <2>4. DecisionsHaveEffect'
    BY <1>1, <1>6, <2>3 DEF DecisionsHaveEffect
  <2>5. QueuesAreWaiting'
    BY <1>1, <1>6, <1>7 DEF CallsInv, QueuesAreWaiting, ReleasedJobs
  <2>. QED  BY <2>2, <2>4, <2>5
<1>8. ASSUME IsMonitored
      PROVE  CallsGoOn'
  BY <1>1, <1>2, <1>6, <1>8 DEF CallsInv, CallsGoOn, KeepsVariant
<1>. QED  BY <1>4, <1>5, <1>7, <1>8 DEF CallsInv

-------------------------------------------------------------------------------
(* What only the variants with a period do.                                *)

\* A message is taken in: the first release launches the calls.
LEMMA ReceiveMonitoredKeeps ==
  ASSUME CallsInv, IsMonitored, ReceiveMonitored
  PROVE  CallsInv'
<1>1. /\ pc' = "events" /\ launched' = (launched \/ released # <<>>)
      /\ UNCHANGED <<now, status, jobVars, ended, released, called, changes, options,
                     stopCalls>>
      /\ \/ /\ launched' /\ ~launched /\ calls' = Append(calls, now + Period)
         \/ (launched' => launched) /\ calls' = calls
  BY DEF ReceiveMonitored, worldVars
<1>2. IsList(calls') /\ (calls' = calls \/ calls' # <<>>)
  BY <1>1, ListAppend DEF CallsInv, Types
<1>3. Types'
  BY <1>1, <1>2 DEF CallsInv, Types, jobVars
<1>4. IsMonitored'
  BY <1>1 DEF IsMonitored
<1>5. launched' => launched \/ calls' # <<>>
  BY <1>1, ListAppend DEF CallsInv, Types
<1>6. CallsGoOn'
  BY <1>1, <1>2, <1>5 DEF CallsInv, CallsGoOn, WaitingJobs
<1>. QED  BY <1>3, <1>4, <1>6 DEF CallsInv

\* What a handler leaves makes no job wait.
LEMMA NoJobWaitsAgain ==
  ASSUME Types, NEW b, NEW rejected, LeaveRejecting(b, rejected)
  PROVE  status' \in [Jobs -> Status] /\ WaitingJobs' \subseteq WaitingJobs
<1>1. status' = [j \in Jobs |-> IF j \in rejected THEN "rejected"
                                ELSE IF j \in DOMAIN b.started THEN "running"
                                ELSE status[j]]
  BY DEF LeaveRejecting
<1>. QED  BY <1>1 DEF Types, WaitingJobs, Status

\* A stage: the next call is requested.
LEMMA StageKeeps ==
  ASSUME CallsInv, IsMonitored, MonitoringStage
  PROVE  CallsInv'
<1>1. /\ \E b : LeaveRejecting(b, {})
      /\ pc' = "events" /\ pc = "events" /\ called > 0 /\ called' = called - 1
      /\ UNCHANGED <<now, jobVars, ended, released, changes, options, launched,
                     stopCalls>>
      /\ ~stopCalls => calls' = Append(calls, now + Period)
      /\ stopCalls => calls' = calls
  BY DEF MonitoringStage, monitoringVars
<1>2. status' \in [Jobs -> Status] /\ WaitingJobs' \subseteq WaitingJobs
  BY <1>1, NoJobWaitsAgain DEF CallsInv
<1>3. IsList(calls') /\ (~stopCalls => calls' # <<>>)
  BY <1>1, ListAppend DEF CallsInv, Types
<1>4. Types'
  BY <1>1, <1>2, <1>3 DEF CallsInv, Types, jobVars
<1>5. IsMonitored'
  BY <1>1 DEF IsMonitored
<1>6. CallsGoOn'
  BY <1>1, <1>2, <1>3 DEF CallsInv, CallsGoOn
<1>. QED  BY <1>4, <1>5, <1>6 DEF CallsInv

\* make_decisions: the calls stop, or go on.
LEMMA DecideKeeps ==
  ASSUME CallsInv, IsMonitored, Decide
  PROVE  CallsInv'
<1>1. /\ \E b, rejected : LeaveRejecting(b, rejected)
      /\ pc = "ended" /\ pc' = "batsim" /\ ended' = <<>> /\ released' = <<>>
      /\ UNCHANGED <<now, jobVars, calls, changes, called, options, launched>>
      /\ stopCalls => stopCalls'
  BY DEF Decide
<1>2. status' \in [Jobs -> Status] /\ WaitingJobs' \subseteq WaitingJobs
  BY <1>1, NoJobWaitsAgain DEF CallsInv
<1>3. Types'
  BY <1>1, <1>2 DEF CallsInv, Types, jobVars
<1>4. IsMonitored'
  BY <1>1 DEF IsMonitored
<1>5. CallsGoOn'
  BY <1>1, <1>2 DEF CallsInv, CallsGoOn
<1>. QED  BY <1>3, <1>4, <1>5 DEF CallsInv

\* That all jobs have been submitted is about to be told.
LEMMA StutterKeeps ==
  ASSUME CallsInv, UNCHANGED <<vars, options, launched, stopCalls>>
  PROVE  CallsInv'
<1>1. UNCHANGED <<pc, now, status, res, walltime, ended, released, calls, called, changes,
                  pstate, begun, queue, nbCalls, nbCompleted, didSomething, options,
                  launched, stopCalls>>
  BY DEF vars, batsimVars, worldVars, jobVars, powerVars, schedVars
<1>2. Types'
  BY <1>1 DEF CallsInv, Types
<1>3. IsMonitored' <=> IsMonitored
  BY <1>1 DEF IsMonitored
<1>4. ASSUME ~IsMonitored
      PROVE  (QueuesAreWaiting /\ CountersAreExact /\ DecisionsHaveEffect)'
  BY <1>1, <1>4 DEF CallsInv, QueuesAreWaiting, CountersAreExact, DecisionsHaveEffect,
     ReleasedJobs, WaitingJobs, ServedJobs, NothingToTell, UnderWay, Switching
<1>5. ASSUME IsMonitored
      PROVE  CallsGoOn'
  BY <1>1, <1>5 DEF CallsInv, CallsGoOn, WaitingJobs
<1>. QED  BY <1>2, <1>3, <1>4, <1>5 DEF CallsInv

-------------------------------------------------------------------------------
(* The invariant.                                                          *)

\* At first no job has been submitted.
LEMMA InitEstablishesCalls ==
  ASSUME MonitoringInit
  PROVE  CallsInv
<1>1. Init /\ launched = FALSE
  BY DEF MonitoringInit
<1>2. /\ pc = "batsim" /\ now = 0 /\ status = [j \in Jobs |-> "future"]
      /\ res = [j \in Jobs |-> 0] /\ walltime = [j \in Jobs |-> 0]
      /\ ended = <<>> /\ released = <<>> /\ calls = <<>> /\ changes = <<>>
      /\ called = 0 /\ queue = <<>> /\ nbCompleted = 0 /\ nbCalls = 0
  BY <1>1 DEF Init, BatsimInit
<1>3. IsList(<<>>) /\ \A S : <<>> \in Seq(S)
  BY DEF IsList
<1>4. Types
  BY <1>2, <1>3 DEF Types, Status
<1>5. WaitingJobs = {} /\ ServedJobs = {} /\ ReleasedJobs = {} /\ JobsOf(queue) = {}
  BY <1>2 DEF WaitingJobs, ServedJobs, ReleasedJobs, JobsOf, ToSet
<1>6. QueuesAreWaiting
  BY <1>2, <1>3, <1>5 DEF QueuesAreWaiting, IsInjective
<1>7. CountersAreExact
  BY <1>2, <1>5, FS_EmptySet DEF CountersAreExact
<1>8. DecisionsHaveEffect /\ CallsGoOn
  BY <1>1, <1>2, <1>5 DEF DecisionsHaveEffect, CallsGoOn
<1>. QED  BY <1>4, <1>6, <1>7, <1>8 DEF CallsInv

\* Every step is one of those above.
LEMMA NextKeepsCalls ==
  ASSUME CallsInv, [FamilyNext]_allVars
  PROVE  CallsInv'
<1>1. CASE UNCHANGED allVars
  BY <1>1, StutterKeeps DEF allVars, monitoringVars
<1>2. CASE EnergyBackfilling
  <2>1. /\ ~IsMonitored /\ KeepsVariant
        /\ StepButPlan \/ Plan \/ PlanByDichotomy
    BY <1>2 DEF EnergyBackfilling, KeepsVariant, monitoringVars
  <2>2. CASE Platform
    BY <2>1, <2>2, SubmitKeeps, CompleteKeeps, FinishSwitchKeeps, CallKeeps, TickKeeps
       DEF Platform
  <2>3. CASE Receive
    BY <2>1, <2>3, ReceiveKeeps
  <2>4. CASE HandleSwitchedOn \/ HandleSwitchedOff \/ EventsHandled
    BY <2>1, <2>4, HearingKeeps
  <2>5. CASE DecideButPlan
    BY <2>1, <2>5, RemoveEndedKeeps, RejectKeeps, QueueKeeps, UpdatePresentKeeps,
       SwitchKeeps, StartKeeps, ReplyKeeps DEF DecideButPlan
  <2>6. CASE Plan \/ PlanByDichotomy
    BY <2>1, <2>6, PlanKeeps
  <2>7. CASE Terminated
    BY <2>1, <2>7, StutterKeeps DEF Terminated, KeepsVariant
  <2>. QED  BY <2>1, <2>2, <2>3, <2>4, <2>5, <2>6, <2>7 DEF StepButPlan
<1>3. CASE IsMonitored /\ MonitoredPlatform
  <2>1. CASE TellNoMore
    BY <2>1, StutterKeeps DEF TellNoMore
  <2>2. CASE UNCHANGED <<schedVars, monitoringVars, sleepVars>>
    <3>1. KeepsVariant /\ UNCHANGED schedVars
      BY <2>2 DEF KeepsVariant, monitoringVars
    <3>2. CASE SubmitMonitored
      <4>1. 1 .. NbMonitored \subseteq Jobs
        BY MonitoringAssumption, BoundsAssumption DEF Jobs
      <4>. QED  BY <3>1, <3>2, <4>1, SubmitKeeps DEF SubmitMonitored
    <3>3. CASE \E j \in Jobs : Complete(j) /\ UNCHANGED powerVars
      BY <3>1, <3>3, CompleteKeeps
    <3>4. CASE \E M \in SUBSET Machines : FinishSwitch(M)
      BY <3>1, <3>4, FinishSwitchKeeps
    <3>5. CASE Call
      BY <3>1, <3>5, CallKeeps
    <3>6. CASE TickMonitored
      BY <3>1, <3>6, TickKeeps DEF TickMonitored
    <3>7. MonitoredPlatform => \/ TellNoMore \/ SubmitMonitored \/ Call \/ TickMonitored
                               \/ \E j \in Jobs : Complete(j) /\ UNCHANGED powerVars
                               \/ \E M \in SUBSET Machines : FinishSwitch(M)
      BY DEF MonitoredPlatform
    <3>. QED  BY <1>3, <2>1, <3>2, <3>3, <3>4, <3>5, <3>6, <3>7
  <2>. QED  BY <1>3, <2>1, <2>2 DEF MonitoredPlatform
<1>4. CASE IsMonitored /\ MonitoringHandlers
  <2>1. CASE ReceiveMonitored \/ MonitoringStage \/ Decide
    BY <1>4, <2>1, ReceiveMonitoredKeeps, StageKeeps, DecideKeeps
  <2>2. CASE MachinesSwitched \/ AllEventsHandled
    BY <2>2, HearingKeeps
       DEF MachinesSwitched, AllEventsHandled, KeepsVariant, monitoringVars
  <2>3. CASE DecideAsEnergyBF
    <3>1. KeepsVariant /\ (DecideButPlan \/ Plan)
      BY <2>3 DEF DecideAsEnergyBF, KeepsVariant, monitoringVars
    <3>. QED
      BY <3>1, RemoveEndedKeeps, RejectKeeps, QueueKeeps, UpdatePresentKeeps,
         SwitchKeeps, StartKeeps, ReplyKeeps, PlanKeeps DEF DecideButPlan
  <2>. QED  BY <1>4, <2>1, <2>2, <2>3 DEF MonitoringHandlers
<1>5. CASE IsMonitored /\ MonitoringTerminated
  BY <1>5, StutterKeeps DEF MonitoringTerminated, Terminated, monitoringVars
<1>. QED  BY <1>1, <1>2, <1>3, <1>4, <1>5 DEF FamilyNext, FamilyStep

LEMMA CallsInvHolds == FamilySpec => []CallsInv
<1>. QED  BY InitEstablishesCalls, NextKeepsCalls, PTL DEF FamilySpec

\* As long as the calls go on, and for energy_bf itself always, a job that waits
\* has an event of Batsim to come: the reply requests a call when nothing is under
\* way (energy_bf.cpp:609), and the calls of the variants, launched by the first
\* release, request each other.
THEOREM CallsPreventDeadlockHolds == FamilySpec => []CallsPreventDeadlock
<1>1. CallsInv => CallsPreventDeadlock
  <2>. SUFFICES ASSUME CallsInv, ~stopCalls, pc = "batsim", NothingToTell,
                       NEW j \in Jobs, status[j] = "waiting"
                PROVE  SomethingElseToCome
    BY DEF CallsPreventDeadlock, BatsimNeverDeadlocks
  <2>1. WaitingJobs # {}
    BY DEF WaitingJobs
  <2>2. CASE ~IsMonitored
    BY <2>1, <2>2 DEF CallsInv, DecisionsHaveEffect, UnderWay, SomethingElseToCome,
       SomethingToCome
  <2>3. CASE IsMonitored
    BY <2>1, <2>3 DEF CallsInv, CallsGoOn, NothingToTell, SomethingElseToCome
  <2>. QED  BY <2>2, <2>3
<1>. QED  BY <1>1, CallsInvHolds, PTL
===============================================================================
