-------------------------- MODULE VariantsBooksProofs --------------------------
(***************************************************************************)
(* Proofs about what the algorithms run by the main loop believe: that     *)
(* their books agree with the platform, although Batsim applies decisions, *)
(* possibly later, and tells of what happened, possibly much later.  A job *)
(* is followed from its announcement to its end: at any moment it is in    *)
(* one place only (an event, an accumulator, the queue, a decision).  What *)
(* Batsim does and what an event changes is summed up first; then each     *)
(* part of the invariant is shown to be kept by each kind of step.         *)
(***************************************************************************)
EXTENDS VariantsProofs

-------------------------------------------------------------------------------
(* What is still to be told.                                               *)

\* The events that batsched has not handled.
Untold == handled + 1 .. Len(inbox)

TellsOf(e, type, j) == e.type = type /\ e.jobs = <<j>>

\* The jobs, and the machines, that these events are about.
ToTell(type) == {j \in Jobs : \E k \in Untold : TellsOf(inbox[k], type, j)}
Announced == ToTell("JOB_SUBMITTED")
Completed == ToTell("JOB_COMPLETED")

MachinesToTell(type) == {m \in Machines : \E k \in Untold :
  inbox[k].type = type /\ m \in inbox[k].machines}
SwitchesToTell(p) == {m \in Machines : \E k \in Untold :
  /\ inbox[k].type = "RESOURCE_STATE_CHANGED"
  /\ inbox[k].state = p /\ m \in inbox[k].machines}

\* The simulation has begun for batsched.
Begun == \A k \in Untold : inbox[k].type # "SIMULATION_BEGINS"

\* A job is announced by one event.
AnnouncedOnce == \A h, k \in Untold : \A j \in Jobs :
  TellsOf(inbox[h], "JOB_SUBMITTED", j) /\ TellsOf(inbox[k], "JOB_SUBMITTED", j)
    => h = k

-------------------------------------------------------------------------------
(* News: the events of S, and no others, join the inbox.                   *)

News(S) ==
  /\ Untold \subseteq Untold'
  /\ \A k \in Untold : inbox'[k] = inbox[k]
  /\ \A k \in Untold' \ Untold : inbox'[k] \in S
  /\ \A e \in S : \E k \in Untold' \ Untold : inbox'[k] = e

\* What they add to what is still to be told.
Informs(S) ==
  /\ \A type : ToTell(type)' =
       ToTell(type) \cup {j \in Jobs : \E e \in S : TellsOf(e, type, j)}
  /\ \A type : MachinesToTell(type)' = MachinesToTell(type)
       \cup {m \in Machines : \E e \in S : e.type = type /\ m \in e.machines}
  /\ \A p : SwitchesToTell(p)' = SwitchesToTell(p)
       \cup {m \in Machines : \E e \in S :
               /\ e.type = "RESOURCE_STATE_CHANGED"
               /\ e.state = p /\ m \in e.machines}
  /\ Begun' <=> Begun /\ \A e \in S : e.type # "SIMULATION_BEGINS"

\* News informs.
LEMMA NewsInforms ==
  ASSUME NEW S, News(S)
  PROVE  Informs(S)
<1>1. ASSUME NEW type
      PROVE  ToTell(type)' =
               ToTell(type) \cup {j \in Jobs : \E e \in S : TellsOf(e, type, j)}
  BY DEF News, ToTell, TellsOf
<1>2. ASSUME NEW type
      PROVE  MachinesToTell(type)' = MachinesToTell(type)
               \cup {m \in Machines : \E e \in S : e.type = type /\ m \in e.machines}
  BY DEF News, MachinesToTell
<1>3. ASSUME NEW p
      PROVE  SwitchesToTell(p)' = SwitchesToTell(p)
               \cup {m \in Machines : \E e \in S :
                       /\ e.type = "RESOURCE_STATE_CHANGED"
                       /\ e.state = p /\ m \in e.machines}
  BY DEF News, SwitchesToTell
<1>4. Begun' <=> Begun /\ \A e \in S : e.type # "SIMULATION_BEGINS"
  BY DEF News, Begun
<1>. QED  BY <1>1, <1>2, <1>3, <1>4 DEF Informs

\* No event.
LEMMA NoNews ==
  ASSUME UNCHANGED <<inbox, handled>>
  PROVE  News({}) /\ (AnnouncedOnce => AnnouncedOnce')
  BY DEF News, Untold, AnnouncedOnce

\* One event.
LEMMA OneEvent ==
  ASSUME Types, NEW e \in Events, UNCHANGED handled,
         inbox' = inbox \o <<e>> \/ inbox' = Append(inbox, e)
  PROVE  /\ News({e})
         /\ AnnouncedOnce /\ (\A j \in Announced : ~TellsOf(e, "JOB_SUBMITTED", j))
              => AnnouncedOnce'
<1>1. /\ inbox \in Seq(Events) /\ Len(inbox) \in Nat /\ handled \in 0 .. Len(inbox)
  BY LenProperties DEF Types, SocketTypes
<1>2. /\ Len(inbox') = Len(inbox) + 1
      /\ \A k \in 1 .. Len(inbox) : inbox'[k] = inbox[k]
      /\ inbox'[Len(inbox) + 1] = e
  BY <1>1, OneMore
<1>3. Untold' = Untold \cup {Len(inbox) + 1} /\ Len(inbox) + 1 \notin Untold
      /\ Untold \subseteq 1 .. Len(inbox)
  BY <1>1, <1>2 DEF Untold
<1>4. News({e})
  BY <1>2, <1>3 DEF News
<1>5. ASSUME AnnouncedOnce, \A j \in Announced : ~TellsOf(e, "JOB_SUBMITTED", j)
      PROVE  AnnouncedOnce'
  <2>. SUFFICES ASSUME NEW h \in Untold', NEW k \in Untold', NEW j \in Jobs,
                       TellsOf(inbox'[h], "JOB_SUBMITTED", j),
                       TellsOf(inbox'[k], "JOB_SUBMITTED", j)
                PROVE  h = k
    BY DEF AnnouncedOnce, TellsOf
  <2>1. ASSUME NEW i \in Untold, TellsOf(inbox'[i], "JOB_SUBMITTED", j)
        PROVE  j \in Announced
    <3>1. inbox'[i] = inbox[i]
      BY <1>2, <1>3
    <3>. QED  BY <2>1, <3>1 DEF Announced, ToTell
  <2>2. CASE h \in Untold /\ k \in Untold
    <3>1. inbox'[h] = inbox[h] /\ inbox'[k] = inbox[k]
      BY <1>2, <1>3, <2>2
    <3>. QED  BY <1>5, <2>2, <3>1 DEF AnnouncedOnce
  <2>3. CASE h \notin Untold \/ k \notin Untold
    <3>1. TellsOf(e, "JOB_SUBMITTED", j)
      BY <1>2, <1>3, <2>3
    <3>2. j \notin Announced
      BY <1>5, <3>1
    <3>. QED  BY <1>3, <2>1, <3>2
  <2>. QED  BY <2>2, <2>3
<1>. QED  BY <1>4, <1>5

\* Two events, none of which announces a job.
LEMMA TwoEvents ==
  ASSUME Types, NEW e \in Events, NEW f \in Events, UNCHANGED handled,
         inbox' = inbox \o <<e, f>>,
         e.type # "JOB_SUBMITTED", f.type # "JOB_SUBMITTED"
  PROVE  News({e, f}) /\ (AnnouncedOnce => AnnouncedOnce')
<1>1. /\ inbox \in Seq(Events) /\ Len(inbox) \in Nat /\ handled \in 0 .. Len(inbox)
  BY LenProperties DEF Types, SocketTypes
<1>2. /\ Len(inbox') = Len(inbox) + 2
      /\ \A k \in 1 .. Len(inbox) : inbox'[k] = inbox[k]
      /\ inbox'[Len(inbox) + 1] = e
      /\ inbox'[Len(inbox) + 2] = f
  BY <1>1, TwoMore
<1>3. Untold' = Untold \cup {Len(inbox) + 1, Len(inbox) + 2}
      /\ Len(inbox) + 1 \notin Untold /\ Len(inbox) + 2 \notin Untold
      /\ Untold \subseteq 1 .. Len(inbox)
  BY <1>1, <1>2 DEF Untold
<1>4. News({e, f})
  BY <1>2, <1>3 DEF News
<1>5. AnnouncedOnce => AnnouncedOnce'
  <2>1. \A k \in Untold' : \A j \in Jobs :
          TellsOf(inbox'[k], "JOB_SUBMITTED", j) => k \in Untold /\ inbox'[k] = inbox[k]
    <3>1. \A k \in Untold : inbox'[k] = inbox[k]
      BY <1>2, <1>3
    <3>2. /\ inbox'[Len(inbox) + 1].type # "JOB_SUBMITTED"
          /\ inbox'[Len(inbox) + 2].type # "JOB_SUBMITTED"
      BY <1>2
    <3>3. ASSUME NEW k \in Untold', k \notin Untold
          PROVE  inbox'[k].type # "JOB_SUBMITTED"
      <4>1. k = Len(inbox) + 1 \/ k = Len(inbox) + 2
        BY <1>3, <3>3
      <4>. QED  BY <3>2, <4>1
    <3>. QED  BY <3>1, <3>3 DEF TellsOf
  <2>. SUFFICES ASSUME AnnouncedOnce, NEW h \in Untold', NEW k \in Untold', NEW j \in Jobs,
                       TellsOf(inbox'[h], "JOB_SUBMITTED", j),
                       TellsOf(inbox'[k], "JOB_SUBMITTED", j)
                PROVE  h = k
    BY DEF AnnouncedOnce, TellsOf
  <2>2. h \in Untold /\ k \in Untold /\ inbox'[h] = inbox[h] /\ inbox'[k] = inbox[k]
    BY <2>1
  <2>. QED  BY <2>2 DEF AnnouncedOnce
<1>. QED  BY <1>4, <1>5

\* An event is handled: what it told of is told, the rest is not.
LEMMA Hearing ==
  ASSUME Types, Handling, UNCHANGED inbox, handled' = handled + 1
  PROVE  /\ \A type : ToTell(type) = ToTell(type)' \cup
              {j \in Jobs : TellsOf(Current, type, j)}
         /\ \A type : MachinesToTell(type) = MachinesToTell(type)' \cup
              {m \in Machines : Current.type = type /\ m \in Current.machines}
         /\ \A p : SwitchesToTell(p) = SwitchesToTell(p)' \cup
              {m \in Machines : /\ Current.type = "RESOURCE_STATE_CHANGED"
                                /\ Current.state = p /\ m \in Current.machines}
         /\ Begun <=> Begun' /\ Current.type # "SIMULATION_BEGINS"
         /\ AnnouncedOnce =>
              /\ AnnouncedOnce'
              /\ \A j \in Jobs : TellsOf(Current, "JOB_SUBMITTED", j) => j \notin Announced'
<1>1. /\ Len(inbox) \in Nat /\ handled \in Nat /\ handled < Len(inbox)
  BY LenProperties DEF Types, SocketTypes, Handling
<1>2. Untold = Untold' \cup {handled + 1} /\ handled + 1 \notin Untold'
  BY <1>1 DEF Untold
<1>3. inbox' = inbox /\ Current = inbox[handled + 1]
  BY DEF Current
<1>4. ASSUME NEW type
      PROVE  ToTell(type) = ToTell(type)' \cup {j \in Jobs : TellsOf(Current, type, j)}
  BY <1>2, <1>3 DEF ToTell, TellsOf
<1>5. ASSUME NEW type
      PROVE  MachinesToTell(type) = MachinesToTell(type)' \cup
               {m \in Machines : Current.type = type /\ m \in Current.machines}
  BY <1>2, <1>3 DEF MachinesToTell
<1>6. ASSUME NEW p
      PROVE  SwitchesToTell(p) = SwitchesToTell(p)' \cup
              {m \in Machines : /\ Current.type = "RESOURCE_STATE_CHANGED"
                                /\ Current.state = p /\ m \in Current.machines}
  BY <1>2, <1>3 DEF SwitchesToTell
<1>7. Begun <=> Begun' /\ Current.type # "SIMULATION_BEGINS"
  BY <1>2, <1>3 DEF Begun
<1>8. ASSUME AnnouncedOnce
      PROVE  /\ AnnouncedOnce'
             /\ \A j \in Jobs : TellsOf(Current, "JOB_SUBMITTED", j) => j \notin Announced'
  <2>1. AnnouncedOnce'
    BY <1>2, <1>3, <1>8 DEF AnnouncedOnce, TellsOf
  <2>2. ASSUME NEW j \in Jobs, TellsOf(Current, "JOB_SUBMITTED", j), j \in Announced'
        PROVE  FALSE
    <3>1. PICK k \in Untold' : TellsOf(inbox[k], "JOB_SUBMITTED", j)
      BY <1>3, <2>2 DEF Announced, ToTell, TellsOf
    <3>2. k = handled + 1
      BY <1>2, <1>3, <1>8, <2>2, <3>1 DEF AnnouncedOnce
    <3>. QED  BY <1>2, <3>2
  <2>. QED  BY <2>1, <2>2
<1>. QED  BY <1>4, <1>5, <1>6, <1>7, <1>8

\* Once batsched decides, everything has been told, and it is so after the
\* reply too.
LEMMA AllTold ==
  ASSUME Types, Deciding, handled = Len(inbox)
  PROVE  /\ Untold = {} /\ Announced = {} /\ Completed = {} /\ Begun
         /\ \A type : MachinesToTell(type) = {}
         /\ \A p : SwitchesToTell(p) = {}
<1>1. Len(inbox) \in Nat
  BY LenProperties DEF Types, SocketTypes
<1>2. Untold = {}
  BY <1>1 DEF Untold
<1>. QED  BY <1>2 DEF Announced, Completed, ToTell, Begun, MachinesToTell, SwitchesToTell

\* The same after the reply.
LEMMA NothingToTell ==
  ASSUME WriteReply
  PROVE  /\ Untold' = {} /\ Announced' = {} /\ Completed' = {} /\ Begun'
         /\ \A type : MachinesToTell(type)' = {}
         /\ \A p : SwitchesToTell(p)' = {}
         /\ AnnouncedOnce'
<1>1. Untold' = {}
  BY DEF WriteReply, Untold
<1>. QED  BY <1>1 DEF Announced, Completed, ToTell, Begun, MachinesToTell, SwitchesToTell,
                     AnnouncedOnce

-------------------------------------------------------------------------------
(* Where a job is.                                                         *)

\* The decisions that settle the fate of a waiting job.
IsChoice(d) == d.type \in {"EXECUTE_JOB", "REJECT_JOB"}
Registers(d, j) == d.type = "REGISTER_JOB" /\ d.job = j

ChosenIn(ds) == {j \in Jobs : \E k \in 1 .. Len(ds) :
  IsChoice(ds[k]) /\ ds[k].job = j}
StartedIn(ds) == {j \in Jobs : \E k \in 1 .. Len(ds) :
  ds[k].type = "EXECUTE_JOB" /\ ds[k].job = j}
EachOnce(ds) == \A h, k \in 1 .. Len(ds) :
  IsChoice(ds[h]) /\ IsChoice(ds[k]) /\ ds[h].job = ds[k].job => h = k

\* The jobs that wait, as far as batsched is or will be told.
Released == ToSet(recent.released)
Queued   == JobsOf(queue)
Waiters  == Announced \cup Released \cup Queued

\* The jobs that run, those that are over but whose end batsched has not
\* reacted to, and those that are about to start: what an algorithm has in
\* hand.
Running == {j \in Jobs : status[j] = "running"}
Ended   == Completed \cup EndedJobs
InHand  == Running \cup Ended \cup StartedIn(outbox)

-------------------------------------------------------------------------------
(* What Batsim does, seen from the jobs.                                   *)

\* The machines whose outage or return is still to be told.
Lost  == MachinesToTell("UNAVAILABLE")
Found == MachinesToTell("AVAILABLE")

\* Nothing is announced or reported as completed; no outage ends or begins; no
\* machine has switched.
NoJobNews ==
  /\ UNCHANGED <<Announced, Completed>>
  /\ AnnouncedOnce => AnnouncedOnce'
NoOutageNews == UNCHANGED <<Lost, Found>>
NoSwitchNews == \A p \in PStates : SwitchesToTell(p)' = SwitchesToTell(p)

KeepsDecisions == UNCHANGED outbox
TakesDecision  == outbox # <<>> /\ outbox' = Tail(outbox) /\ Decision.date <= clock

Arrives(j) ==
  /\ j \in Static /\ status[j] = "future"
  /\ status' = [status EXCEPT ![j] = "waiting"]
  /\ \A i \in Jobs \ {j} : size'[i] = size[i]
  /\ Announced' = Announced \cup {j}
  /\ AnnouncedOnce /\ j \notin Announced => AnnouncedOnce'
  /\ KeepsDecisions
  /\ UNCHANGED <<placed, Completed, kills, registered>>

IsAskedAbout(j) ==
  /\ j \in Static /\ status[j] = "future"
  /\ status' = [status EXCEPT ![j] = "potential"]
  /\ NoJobNews
  /\ KeepsDecisions
  /\ UNCHANGED <<placed, size, kills, registered>>

Finishes(j) ==
  /\ status[j] = "running"
  /\ status' = [status EXCEPT ![j] = "done"]
  /\ placed' = [placed EXCEPT ![j] = {}]
  /\ Completed' = Completed \cup {j}
  /\ AnnouncedOnce => AnnouncedOnce'
  /\ kills' = kills \/ (kills # <<>> /\ j = Head(kills) /\ kills' = Tail(kills))
  /\ KeepsDecisions
  /\ UNCHANGED <<Announced, size, registered>>

Starts(j) ==
  /\ TakesDecision /\ Decision.type = "EXECUTE_JOB" /\ Decision.job = j
  /\ status' = [status EXCEPT ![j] = "running"]
  /\ placed' = [placed EXCEPT ![j] = Decision.machines]
  /\ NoJobNews
  /\ UNCHANGED <<size, kills, registered>>

IsRejected(j) ==
  /\ TakesDecision /\ Decision.type = "REJECT_JOB" /\ Decision.job = j
  /\ status' = [status EXCEPT ![j] = "rejected"]
  /\ NoJobNews
  /\ UNCHANGED <<size, placed, kills, registered>>

\* A job registered by the scheduler.
IsRegistered(j) ==
  /\ TakesDecision /\ Registers(Decision, j) /\ j \in Dynamic
  /\ status' = [status EXCEPT ![j] = "waiting"]
  /\ Announced' = IF registered.acknowledged THEN Announced \cup {j} ELSE Announced
  /\ AnnouncedOnce /\ j \notin Announced => AnnouncedOnce'
  /\ registered' = IF Decision.inlined
                     THEN [registered EXCEPT !.profiles = @ \cup {Decision.profile}]
                     ELSE registered
  /\ UNCHANGED <<size, placed, Completed, kills>>

\* Nothing changes for any job.
NoJobMoves ==
  /\ NoJobNews
  /\ UNCHANGED <<status, size, placed>>
  /\ \/ /\ KeepsDecisions /\ UNCHANGED registered
        /\ \/ UNCHANGED kills
           \/ kills # <<>> /\ status[Head(kills)] # "running" /\ kills' = Tail(kills)
     \/ /\ TakesDecision /\ ~IsChoice(Decision) /\ Decision.type # "REGISTER_JOB"
        /\ IF Decision.type = "KILL_JOB" THEN kills' = Append(kills, Decision.job)
                                         ELSE UNCHANGED kills
        /\ UNCHANGED registered.acknowledged
        /\ registered'.profiles =
             IF Decision.type = "REGISTER_PROFILE"
               THEN registered.profiles \cup {Decision.profile}
               ELSE registered.profiles

JobMoves ==
  \/ \E j \in Jobs : \/ Arrives(j) \/ IsAskedAbout(j) \/ Finishes(j)
                     \/ Starts(j) \/ IsRejected(j) \/ IsRegistered(j)
  \/ NoJobMoves

\* Outages, each of which is told in a message before the one that tells its end.
OutageMoves ==
  \/ NoOutageNews /\ UNCHANGED down
  \/ \E m \in Machines :
       \/ /\ down' = down \cup {m} /\ Lost' = Lost \cup {m}
          /\ UNCHANGED Found
       \/ /\ down' = down \ {m} /\ Found' = Found \cup {m}
          /\ m \notin Lost
          /\ UNCHANGED Lost

\* Power states: a switch is over, or is ordered.
Switched(ms, p) ==
  /\ pstate' = [m \in Machines |-> IF m \in ms THEN p ELSE pstate[m]]
  /\ SwitchesToTell(p)' = SwitchesToTell(p) \cup ms
  /\ \A q \in PStates \ {p} : SwitchesToTell(q)' = SwitchesToTell(q)

IsSwitched(ms, p) ==
  /\ ms \subseteq Switching(p) /\ Switched(ms, p)
  /\ KeepsDecisions /\ UNCHANGED target

AtOnce(ms, p) == p # "asleep" /\ \A m \in ms : pstate[m] # "asleep"

IsOrdered(ms, p) ==
  /\ TakesDecision /\ Decision.type = "SET_RESOURCE_STATE"
  /\ Decision.machines = ms /\ Decision.state = p
  /\ target' = [m \in Machines |-> IF m \in ms THEN p ELSE target[m]]
  /\ IF AtOnce(ms, p) THEN Switched(ms, p) ELSE NoSwitchNews /\ UNCHANGED pstate

SwitchMoves ==
  \/ /\ NoSwitchNews /\ UNCHANGED <<pstate, target>>
     /\ KeepsDecisions \/ (TakesDecision /\ Decision.type # "SET_RESOURCE_STATE")
  \/ \E ms \in SUBSET Machines, p \in PStates : IsSwitched(ms, p) \/ IsOrdered(ms, p)

\* Time passes only when no decision is due and no job is being killed.
TimePasses ==
  \/ clock' = clock
  \/ clock' = clock + 1 /\ kills = <<>> /\ (outbox # <<>> => Decision.date > clock)

\* What Batsim does; the algorithm does not move.
BatsimActs ==
  /\ Quiet
  /\ Begun' <=> Begun
  /\ inbox' = <<>> => inbox = <<>> /\ UNCHANGED <<size, down>>
  /\ TimePasses
  /\ JobMoves
  /\ OutageMoves
  /\ SwitchMoves

\* News of other kinds.
LEMMA NewsLeave ==
  ASSUME NEW S, Informs(S)
  PROVE  /\ (\A e \in S : e.type \notin {"JOB_SUBMITTED", "JOB_COMPLETED"})
              => UNCHANGED <<Announced, Completed>>
         /\ (\A e \in S : e.type \notin {"AVAILABLE", "UNAVAILABLE"}) => NoOutageNews
         /\ (\A e \in S : e.type # "RESOURCE_STATE_CHANGED") => NoSwitchNews
         /\ (\A e \in S : e.type # "SIMULATION_BEGINS") => (Begun' <=> Begun)
<1>1. ASSUME NEW type, \A e \in S : e.type # type
      PROVE  ToTell(type)' = ToTell(type) /\ MachinesToTell(type)' = MachinesToTell(type)
  BY <1>1 DEF Informs, TellsOf
<1>2. ASSUME \A e \in S : e.type # "RESOURCE_STATE_CHANGED"  PROVE NoSwitchNews
  BY <1>2 DEF Informs, NoSwitchNews
<1>3. ASSUME \A e \in S : e.type # "SIMULATION_BEGINS"  PROVE Begun' <=> Begun
  BY <1>3 DEF Informs
<1>4. ASSUME \A e \in S : e.type \notin {"JOB_SUBMITTED", "JOB_COMPLETED"}
      PROVE  UNCHANGED <<Announced, Completed>>
  BY <1>1, <1>4 DEF Announced, Completed
<1>5. ASSUME \A e \in S : e.type \notin {"AVAILABLE", "UNAVAILABLE"}
      PROVE  NoOutageNews
  BY <1>1, <1>5 DEF NoOutageNews, Lost, Found
<1>. QED  BY <1>2, <1>3, <1>4, <1>5

\* Nothing is told.
Silent ==
  NoJobNews /\ NoOutageNews /\ NoSwitchNews /\ (Begun' <=> Begun)

\* No event, nothing told.
LEMMA Silence ==
  ASSUME UNCHANGED <<inbox, handled>>
  PROVE  Silent
<1>1. Informs({}) /\ (AnnouncedOnce => AnnouncedOnce')
  BY NoNews, NewsInforms
<1>2. /\ UNCHANGED <<Announced, Completed>> /\ NoOutageNews /\ NoSwitchNews
      /\ (Begun' <=> Begun)
  BY <1>1, NewsLeave
<1>. QED  BY <1>1, <1>2 DEF Silent, NoJobNews

\* One event about no job.
LEMMA OtherEvent ==
  ASSUME Types, NEW e \in Events, UNCHANGED handled,
         inbox' = inbox \o <<e>> \/ inbox' = Append(inbox, e),
         e.type \notin {"JOB_SUBMITTED", "JOB_COMPLETED", "SIMULATION_BEGINS"}
  PROVE  /\ Informs({e}) /\ NoJobNews /\ (Begun' <=> Begun) /\ inbox' # <<>>
         /\ e.type \notin {"AVAILABLE", "UNAVAILABLE"} => NoOutageNews
         /\ e.type # "RESOURCE_STATE_CHANGED" => NoSwitchNews
<1>1. Informs({e}) /\ (AnnouncedOnce => AnnouncedOnce')
  BY OneEvent, NewsInforms DEF TellsOf
<1>2. UNCHANGED <<Announced, Completed>> /\ (Begun' <=> Begun)
  BY <1>1, NewsLeave
<1>3. inbox' # <<>>
  <2>1. Len(inbox') = Len(inbox) + 1 /\ Len(inbox) \in Nat
    BY OneMore, LenProperties DEF Types, SocketTypes
  <2>. QED  BY <2>1
<1>4. /\ e.type \notin {"AVAILABLE", "UNAVAILABLE"} => NoOutageNews
      /\ e.type # "RESOURCE_STATE_CHANGED" => NoSwitchNews
  BY <1>1, NewsLeave
<1>. QED  BY <1>1, <1>2, <1>3, <1>4 DEF NoJobNews

\* The events that Batsim makes.
LEMMA EventKinds ==
  ASSUME clock \in Nat
  PROVE  /\ \A t \in {"NO_MORE_STATIC_JOB", "REQUESTED_CALL", "SIMULATION_ENDS"} :
              Event(t) \in Events /\ Event(t).type = t
         /\ \A t \in {"JOB_SUBMITTED", "JOB_COMPLETED", "JOB_KILLED", "QUERY"} :
              /\ JobEvent(t, <<>>) \in Events /\ JobEvent(t, <<>>).type = t
              /\ JobEvent(t, <<>>).jobs = <<>>
              /\ \A j \in Jobs : /\ JobEvent(t, <<j>>) \in Events
                                 /\ JobEvent(t, <<j>>).type = t
                                 /\ JobEvent(t, <<j>>).jobs = <<j>>
         /\ \A t \in {"RESOURCE_STATE_CHANGED", "AVAILABLE", "UNAVAILABLE"} :
              \A ms \in SUBSET Machines, p \in PStates :
                /\ MachineEvent(t, ms, p) \in Events
                /\ MachineEvent(t, ms, p).type = t
                /\ MachineEvent(t, ms, p).machines = ms
                /\ MachineEvent(t, ms, p).state = p
         /\ AnswerEvent(clock) \in Events /\ AnswerEvent(clock).type = "ANSWER"
<1>1. \A t \in {"NO_MORE_STATIC_JOB", "REQUESTED_CALL", "SIMULATION_ENDS"} :
        Event(t) \in Events /\ Event(t).type = t
  BY DEF Event, Events
<1>2. \A t \in {"JOB_SUBMITTED", "JOB_COMPLETED", "JOB_KILLED", "QUERY"} :
        \A js \in OneJob : /\ JobEvent(t, js) \in Events
                           /\ JobEvent(t, js).type = t /\ JobEvent(t, js).jobs = js
  BY DEF JobEvent, Events
<1>3. <<>> \in OneJob /\ \A j \in Jobs : <<j>> \in OneJob
  BY DEF OneJob
<1>4. \A t \in {"RESOURCE_STATE_CHANGED", "AVAILABLE", "UNAVAILABLE"} :
        \A ms \in SUBSET Machines, p \in PStates :
          /\ MachineEvent(t, ms, p) \in Events /\ MachineEvent(t, ms, p).type = t
          /\ MachineEvent(t, ms, p).machines = ms
          /\ MachineEvent(t, ms, p).state = p
  BY DEF MachineEvent, Events
<1>5. AnswerEvent(clock) \in Events /\ AnswerEvent(clock).type = "ANSWER"
  BY DEF AnswerEvent, Events
<1>. QED  BY <1>1, <1>2, <1>3, <1>4, <1>5

\* An event about one job.
LEMMA JobEventTold ==
  ASSUME Types, NEW j \in Jobs, NEW e \in Events, UNCHANGED handled,
         inbox' = inbox \o <<e>> \/ inbox' = Append(inbox, e),
         e.jobs = <<j>>, e.type \in {"JOB_SUBMITTED", "JOB_COMPLETED"}
  PROVE  /\ Announced' = IF e.type = "JOB_SUBMITTED" THEN Announced \cup {j} ELSE Announced
         /\ Completed' = IF e.type = "JOB_COMPLETED" THEN Completed \cup {j} ELSE Completed
         /\ AnnouncedOnce /\ (e.type = "JOB_SUBMITTED" => j \notin Announced)
              => AnnouncedOnce'
         /\ (Begun' <=> Begun) /\ NoOutageNews /\ NoSwitchNews /\ inbox' # <<>>
<1>0. /\ Informs({e})
      /\ AnnouncedOnce /\ (\A i \in Announced : ~TellsOf(e, "JOB_SUBMITTED", i))
           => AnnouncedOnce'
  BY OneEvent, NewsInforms
<1>1. \A type : {i \in Jobs : \E x \in {e} : TellsOf(x, type, i)}
                  = IF e.type = type THEN {j} ELSE {}
  BY DEF TellsOf
<1>2. \A type : ToTell(type)' = ToTell(type) \cup IF e.type = type THEN {j} ELSE {}
  BY <1>0, <1>1 DEF Informs
<1>3. (Begun' <=> Begun) /\ NoOutageNews /\ NoSwitchNews
  BY <1>0, NewsLeave
<1>4. (e.type = "JOB_SUBMITTED" => j \notin Announced)
        => \A i \in Announced : ~TellsOf(e, "JOB_SUBMITTED", i)
  BY DEF TellsOf
<1>5. inbox' # <<>>
  <2>1. Len(inbox') = Len(inbox) + 1 /\ Len(inbox) \in Nat
    BY OneMore, LenProperties DEF Types, SocketTypes
  <2>. QED  BY <2>1
<1>. QED  BY <1>0, <1>2, <1>3, <1>4, <1>5 DEF Announced, Completed


\* A step that changes neither the machines nor what is known of them.
LEMMA MachinesLeftAlone ==
  ASSUME NoOutageNews, NoSwitchNews, UNCHANGED <<down, pstate, target>>,
         KeepsDecisions \/ (TakesDecision /\ Decision.type # "SET_RESOURCE_STATE")
  PROVE  OutageMoves /\ SwitchMoves
BY DEF OutageMoves, SwitchMoves

\* What happens on the platform.
LEMMA HappeningActs ==
  ASSUME Types, Happening
  PROVE  BatsimActs
<1>. USE DEF Happens
<1>0. /\ Quiet /\ UNCHANGED <<outbox, handled>> /\ KeepsDecisions
      /\ Len(inbox) \in Nat /\ inbox \in Seq(Events)
  BY HappeningMoves, LenProperties
     DEF Types, BatsimMoves, KeepsDecisions, Happening, Submit, EndSubmissions,
         Complete, FinishKill, FinishSwitch, Call, BreakDown, Repair, AskWaitingTime,
         SocketTypes
<1>a. clock \in Nat
  BY DEF Types, PlatformTypes
<1>b. handled = 0
  BY <1>0 DEF Types, Turns, Quiet, AtWork
<1>1. ASSUME NEW j \in Static, NEW r \in Requests, NEW w \in Walltimes, Submit(j, r, w)
      PROVE  BatsimActs
  <2>. DEFINE e == JobEvent("JOB_SUBMITTED", <<j>>)
  <2>1. j \in Jobs
    BY DEF Jobs
  <2>2. e \in Events /\ e.type = "JOB_SUBMITTED" /\ e.jobs = <<j>>
        /\ inbox' = inbox \o <<e>>
    BY <1>a, <1>1, <2>1, EventKinds DEF Submit
  <2>. HIDE DEF e
  <2>3. /\ Announced' = Announced \cup {j} /\ Completed' = Completed
        /\ AnnouncedOnce /\ j \notin Announced => AnnouncedOnce'
        /\ (Begun' <=> Begun) /\ NoOutageNews /\ NoSwitchNews /\ inbox' # <<>>
    BY <1>0, <2>1, <2>2, JobEventTold
  <2>4. Arrives(j)
    BY <1>0, <1>1, <2>3 DEF Submit, Arrives, Types, PlatformTypes
  <2>5. OutageMoves /\ SwitchMoves
    BY <1>0, <1>1, <2>3, MachinesLeftAlone DEF Submit, platformVars
  <2>6. TimePasses
    BY <1>1 DEF Submit, TimePasses
  <2>. QED  BY <1>0, <2>1, <2>3, <2>4, <2>5, <2>6 DEF BatsimActs, JobMoves
<1>2. ASSUME EndSubmissions \/ \E k \in DOMAIN calls : Call(k)
      PROVE  BatsimActs
  <2>. DEFINE t == IF EndSubmissions THEN "NO_MORE_STATIC_JOB" ELSE "REQUESTED_CALL"
              e == Event(t)
  <2>1. /\ t \in {"NO_MORE_STATIC_JOB", "REQUESTED_CALL"}
        /\ inbox' = inbox \o <<e>> /\ UNCHANGED <<clock, jobVars, platformVars, registered>>
    BY <1>2 DEF EndSubmissions, Call
  <2>2. e \in Events /\ e.type = t
    BY <1>a, <2>1, EventKinds
  <2>. HIDE DEF e, t
  <2>3. /\ NoJobNews /\ (Begun' <=> Begun) /\ NoOutageNews /\ NoSwitchNews
        /\ inbox' # <<>>
    BY <1>0, <2>1, <2>2, OtherEvent
  <2>4. NoJobMoves
    BY <1>0, <2>1, <2>3 DEF NoJobMoves, jobVars
  <2>5. OutageMoves /\ SwitchMoves
    BY <1>0, <2>1, <2>3, MachinesLeftAlone DEF platformVars
  <2>6. TimePasses
    BY <2>1 DEF TimePasses
  <2>. QED  BY <1>0, <2>3, <2>4, <2>5, <2>6 DEF BatsimActs, JobMoves
<1>3. ASSUME NEW j \in Jobs, Complete(j)
      PROVE  BatsimActs
  <2>. DEFINE e == JobEvent("JOB_COMPLETED", <<j>>)
  <2>2. e \in Events /\ e.type = "JOB_COMPLETED" /\ e.jobs = <<j>>
        /\ inbox' = inbox \o <<e>>
    BY <1>a, <1>3, EventKinds DEF Complete
  <2>. HIDE DEF e
  <2>3. /\ Announced' = Announced /\ Completed' = Completed \cup {j}
        /\ AnnouncedOnce => AnnouncedOnce'
        /\ (Begun' <=> Begun) /\ NoOutageNews /\ NoSwitchNews /\ inbox' # <<>>
    BY <1>0, <2>2, JobEventTold
  <2>4. Finishes(j)
    BY <1>0, <1>3, <2>3 DEF Complete, Finishes
  <2>5. OutageMoves /\ SwitchMoves
    BY <1>0, <1>3, <2>3, MachinesLeftAlone DEF Complete, platformVars
  <2>6. TimePasses
    BY <1>3 DEF Complete, TimePasses
  <2>. QED  BY <1>0, <2>3, <2>4, <2>5, <2>6 DEF BatsimActs, JobMoves
<1>4. CASE FinishKill
  <2>. DEFINE j == Head(kills)
  <2>0. kills # <<>> /\ kills' = Tail(kills) /\ j \in Jobs
        /\ UNCHANGED <<clock, size, platformVars, registered>>
    BY <1>4 DEF FinishKill, Types, PlatformTypes
  <2>6. TimePasses
    BY <2>0 DEF TimePasses
  <2>1. CASE status[j] = "running"
    <3>. DEFINE e == JobEvent("JOB_COMPLETED", <<j>>)
                f == JobEvent("JOB_KILLED", <<j>>)
    <3>1. e \in Events /\ e.type = "JOB_COMPLETED" /\ e.jobs = <<j>>
          /\ f \in Events /\ f.type = "JOB_KILLED"
      BY <1>a, <2>0, EventKinds
    <3>2. inbox' = inbox \o <<e, f>>
      BY <1>4, <2>1 DEF FinishKill
    <3>. HIDE DEF e, f
    <3>3. Informs({e, f}) /\ (AnnouncedOnce => AnnouncedOnce')
      BY <1>0, <3>1, <3>2, TwoEvents, NewsInforms
    <3>4. (Begun' <=> Begun) /\ NoOutageNews /\ NoSwitchNews
      BY <3>1, <3>3, NewsLeave
    <3>5. \A type : {i \in Jobs : \E x \in {e, f} : TellsOf(x, type, i)}
            = IF type = "JOB_COMPLETED" THEN {j}
              ELSE {i \in Jobs : TellsOf(f, type, i)}
      BY <2>0, <3>1 DEF TellsOf
    <3>6. Announced' = Announced /\ Completed' = Completed \cup {j}
      <4>1. \A type : ToTell(type)' = ToTell(type) \cup
              {i \in Jobs : \E x \in {e, f} : TellsOf(x, type, i)}
        BY <3>3 DEF Informs
      <4>2. {i \in Jobs : TellsOf(f, "JOB_SUBMITTED", i)} = {}
        BY <3>1 DEF TellsOf
      <4>. QED  BY <3>5, <4>1, <4>2 DEF Announced, Completed
    <3>7. inbox' # <<>>
      <4>1. Len(inbox') = Len(inbox) + 2
        BY <1>0, <3>1, <3>2, TwoMore
      <4>. QED  BY <1>0, <4>1
    <3>8. Finishes(j)
      BY <1>0, <1>4, <2>0, <2>1, <3>3, <3>6 DEF FinishKill, Finishes
    <3>9. OutageMoves /\ SwitchMoves
      BY <1>0, <2>0, <3>4, MachinesLeftAlone DEF platformVars
    <3>. QED  BY <1>0, <2>0, <2>6, <3>4, <3>7, <3>8, <3>9 DEF BatsimActs, JobMoves
  <2>2. CASE status[j] # "running"
    <3>. DEFINE f == JobEvent("JOB_KILLED", <<>>)
    <3>1. f \in Events /\ f.type = "JOB_KILLED"
      BY <1>a, EventKinds
    <3>2. inbox' = inbox \o <<f>> /\ UNCHANGED <<status, placed>>
      BY <1>4, <2>2 DEF FinishKill
    <3>. HIDE DEF f
    <3>3. /\ NoJobNews /\ (Begun' <=> Begun) /\ NoOutageNews /\ NoSwitchNews
          /\ inbox' # <<>>
      BY <1>0, <3>1, <3>2, OtherEvent
    <3>4. NoJobMoves
      BY <1>0, <2>0, <2>2, <3>2, <3>3 DEF NoJobMoves
    <3>5. OutageMoves /\ SwitchMoves
      BY <1>0, <2>0, <3>3, MachinesLeftAlone DEF platformVars
    <3>. QED  BY <1>0, <2>0, <2>6, <3>3, <3>4, <3>5 DEF BatsimActs, JobMoves
  <2>. QED  BY <2>1, <2>2
<1>5. ASSUME NEW p \in PStates, NEW ms \in SUBSET Machines, FinishSwitch(ms, p)
      PROVE  BatsimActs
  <2>. DEFINE e == MachineEvent("RESOURCE_STATE_CHANGED", ms, p)
  <2>1. /\ e \in Events /\ e.type = "RESOURCE_STATE_CHANGED"
        /\ e.machines = ms /\ e.state = p /\ inbox' = inbox \o <<e>>
    BY <1>a, <1>5, EventKinds DEF FinishSwitch
  <2>0. UNCHANGED <<clock, jobVars, target, down, registered>>
    BY <1>5 DEF FinishSwitch
  <2>. HIDE DEF e
  <2>2. /\ Informs({e}) /\ NoJobNews /\ (Begun' <=> Begun) /\ NoOutageNews
        /\ inbox' # <<>>
    BY <1>0, <2>1, OtherEvent
  <2>3. \A q : SwitchesToTell(q)' = SwitchesToTell(q) \cup IF q = p THEN ms ELSE {}
    BY <2>1, <2>2 DEF Informs
  <2>4. IsSwitched(ms, p)
    BY <1>0, <1>5, <2>3 DEF FinishSwitch, IsSwitched, Switched
  <2>5. NoJobMoves
    BY <1>0, <2>0, <2>2 DEF NoJobMoves, jobVars
  <2>6. OutageMoves /\ TimePasses
    BY <2>0, <2>2 DEF OutageMoves, TimePasses
  <2>. QED  BY <1>0, <2>2, <2>4, <2>5, <2>6 DEF BatsimActs, JobMoves, SwitchMoves
<1>6. ASSUME NEW m \in Machines, BreakDown(m) \/ Repair(m)
      PROVE  BatsimActs
  <2>. DEFINE t == IF BreakDown(m) THEN "UNAVAILABLE" ELSE "AVAILABLE"
              e == MachineEvent(t, {m}, "fast")
  <2>1. /\ t \in {"UNAVAILABLE", "AVAILABLE"} /\ inbox' = inbox \o <<e>>
        /\ UNCHANGED <<clock, jobVars, pstate, target, registered>>
        /\ down' = IF t = "UNAVAILABLE" THEN down \cup {m} ELSE down \ {m}
        /\ t = "AVAILABLE" => ~JustGone(m)
    BY <1>6 DEF BreakDown, Repair
  <2>2. e \in Events /\ e.type = t /\ e.machines = {m}
    BY <1>a, <2>1, EventKinds DEF PStates
  <2>. HIDE DEF e, t
  <2>3. /\ Informs({e}) /\ NoJobNews /\ (Begun' <=> Begun) /\ NoSwitchNews
        /\ inbox' # <<>>
    BY <1>0, <2>1, <2>2, OtherEvent
  <2>4. \A type : MachinesToTell(type)' =
          MachinesToTell(type) \cup IF type = t THEN {m} ELSE {}
    BY <2>2, <2>3 DEF Informs
  <2>5. t = "AVAILABLE" => m \notin Lost
    BY <1>0, <1>b, <2>1 DEF JustGone, Lost, MachinesToTell, Untold
  <2>6. OutageMoves
    BY <2>1, <2>4, <2>5 DEF OutageMoves, Lost, Found
  <2>7. NoJobMoves
    BY <1>0, <2>1, <2>3 DEF NoJobMoves, jobVars
  <2>8. SwitchMoves /\ TimePasses
    BY <1>0, <2>1, <2>3 DEF SwitchMoves, TimePasses
  <2>. QED  BY <1>0, <2>3, <2>6, <2>7, <2>8 DEF BatsimActs, JobMoves
<1>7. ASSUME NEW j \in Static, AskWaitingTime(j)
      PROVE  BatsimActs
  <2>. DEFINE e == JobEvent("QUERY", <<j>>)
  <2>0. j \in Jobs
    BY DEF Jobs
  <2>1. e \in Events /\ e.type = "QUERY" /\ inbox' = inbox \o <<e>>
    BY <1>a, <1>7, <2>0, EventKinds DEF AskWaitingTime
  <2>. HIDE DEF e
  <2>2. /\ NoJobNews /\ (Begun' <=> Begun) /\ NoOutageNews /\ NoSwitchNews
        /\ inbox' # <<>>
    BY <1>0, <2>1, OtherEvent
  <2>3. IsAskedAbout(j)
    BY <1>0, <1>7, <2>2 DEF AskWaitingTime, IsAskedAbout
  <2>4. OutageMoves /\ SwitchMoves
    BY <1>0, <1>7, <2>2, MachinesLeftAlone DEF AskWaitingTime, platformVars
  <2>5. TimePasses
    BY <1>7 DEF AskWaitingTime, TimePasses
  <2>. QED  BY <1>0, <2>0, <2>2, <2>3, <2>4, <2>5 DEF BatsimActs, JobMoves
<1>. QED  BY <1>1, <1>2, <1>3, <1>4, <1>5, <1>6, <1>7 DEF Happening


\* What the scheduler has registered.
Registry ==
  registered \in [profiles : SUBSET Nat, finished : Nat, expected : BOOLEAN,
                  acknowledged : BOOLEAN]

\* What Batsim does with a decision, for the jobs: it starts, rejects or
\* registers one, or none is concerned.
LEMMA ApplyingActs ==
  ASSUME Types, Registry, Applying
  PROVE  BatsimActs
<1>. USE DEF Applies
<1>0. /\ Quiet /\ TakesDecision /\ Decision \in Decisions
      /\ UNCHANGED <<clock, down, size, handled>> /\ clock \in Nat
  <2>1. Quiet /\ TakesDecision /\ UNCHANGED <<clock, down, size, handled>>
    BY ApplyingMoves
       DEF Types, BatsimMoves, TakesDecision, Applying, ApplyExecute, ApplyReject,
           ApplyKill, ApplySetResourceState, ApplyCallMeLater,
           ApplyQueryConsumedEnergy, ApplyRegisterJob, ApplyRegisterProfile,
           ApplyFinishedSubmitting, ApplyOther, jobVars, platformVars, batsimVars
  <2>. QED  BY <2>1 DEF TakesDecision, Decision, Types, SocketTypes, PlatformTypes
<1>a. /\ Decision.type \in {"EXECUTE_JOB", "REJECT_JOB", "KILL_JOB"}
           => Decision.job \in Jobs
      /\ Decision.type = "REGISTER_JOB" => Decision.job \in Dynamic
      /\ Decision.type = "SET_RESOURCE_STATE" =>
           Decision.machines \in SUBSET Machines /\ Decision.state \in PStates
  BY <1>0 DEF Decisions, Jobs
<1>b. TimePasses
  BY <1>0 DEF TimePasses
<1>c. ASSUME UNCHANGED <<inbox, pstate, target>>, Decision.type # "SET_RESOURCE_STATE"
      PROVE  /\ NoJobNews /\ (Begun' <=> Begun) /\ OutageMoves /\ SwitchMoves
             /\ inbox' = <<>> => inbox = <<>> /\ UNCHANGED <<size, down>>
  <2>1. Silent
    BY <1>0, <1>c, Silence
  <2>. QED  BY <1>0, <1>c, <2>1, MachinesLeftAlone DEF Silent
<1>1. CASE ApplyExecute
  <2>1. UNCHANGED <<inbox, pstate, target>> /\ Decision.type = "EXECUTE_JOB"
    BY <1>1 DEF ApplyExecute, platformVars
  <2>2. Starts(Decision.job)
    BY <1>0, <1>1, <1>c, <2>1 DEF ApplyExecute, Starts
  <2>. QED  BY <1>0, <1>a, <1>b, <1>c, <2>1, <2>2 DEF BatsimActs, JobMoves
<1>2. CASE ApplyReject
  <2>1. UNCHANGED <<inbox, pstate, target>> /\ Decision.type = "REJECT_JOB"
    BY <1>2 DEF ApplyReject, platformVars
  <2>2. IsRejected(Decision.job)
    BY <1>0, <1>2, <1>c, <2>1 DEF ApplyReject, IsRejected
  <2>. QED  BY <1>0, <1>a, <1>b, <1>c, <2>1, <2>2 DEF BatsimActs, JobMoves
<1>3. CASE ApplyKill
  <2>1. UNCHANGED <<inbox, pstate, target>> /\ Decision.type = "KILL_JOB"
        /\ UNCHANGED <<status, size, placed, registered>>
        /\ kills' = Append(kills, Decision.job)
    BY <1>3 DEF ApplyKill, platformVars
  <2>2. NoJobMoves
    BY <1>0, <1>c, <2>1 DEF NoJobMoves, IsChoice
  <2>. QED  BY <1>0, <1>b, <1>c, <2>1, <2>2 DEF BatsimActs, JobMoves
<1>4. CASE ApplySetResourceState
  <2>0. PICK ms \in SUBSET Machines, p \in PStates :
          Decision.machines = ms /\ Decision.state = p
    BY <1>4, <1>a DEF ApplySetResourceState
  <2>. DEFINE e  == MachineEvent("RESOURCE_STATE_CHANGED", ms, p)
  <2>1. /\ Decision.type = "SET_RESOURCE_STATE"
        /\ target' = [m \in Machines |-> IF m \in ms THEN p ELSE target[m]]
        /\ UNCHANGED <<jobVars, registered>>
    BY <1>4, <2>0 DEF ApplySetResourceState
  <2>2. CASE AtOnce(ms, p)
    <3>1. /\ pstate' = [m \in Machines |-> IF m \in ms THEN p ELSE pstate[m]]
          /\ inbox' = Append(inbox, e)
      BY <1>4, <2>0, <2>2 DEF ApplySetResourceState, AtOnce
    <3>2. /\ e \in Events /\ e.type = "RESOURCE_STATE_CHANGED"
          /\ e.machines = ms /\ e.state = p
      BY <1>0, <2>1, EventKinds
    <3>. HIDE DEF e
    <3>3. /\ Informs({e}) /\ NoJobNews /\ (Begun' <=> Begun) /\ NoOutageNews
          /\ inbox' # <<>>
      BY <1>0, <3>1, <3>2, OtherEvent
    <3>4. \A q : SwitchesToTell(q)' = SwitchesToTell(q) \cup IF q = p THEN ms ELSE {}
      BY <2>1, <3>2, <3>3 DEF Informs
    <3>5. IsOrdered(ms, p)
      BY <1>0, <2>0, <2>1, <2>2, <3>1, <3>4 DEF IsOrdered, Switched
    <3>6. NoJobMoves
      BY <1>0, <2>1, <3>3 DEF NoJobMoves, jobVars, IsChoice
    <3>7. OutageMoves
      BY <1>0, <3>3 DEF OutageMoves
    <3>. QED  BY <1>0, <1>b, <2>1, <3>3, <3>5, <3>6, <3>7
              DEF BatsimActs, JobMoves, SwitchMoves
  <2>3. CASE ~AtOnce(ms, p)
    <3>1. UNCHANGED <<pstate, inbox>>
      BY <1>4, <2>0, <2>3 DEF ApplySetResourceState, AtOnce
    <3>2. Silent
      BY <1>0, <3>1, Silence
    <3>3. IsOrdered(ms, p)
      BY <1>0, <2>0, <2>1, <2>3, <3>1, <3>2 DEF IsOrdered, Silent
    <3>4. NoJobMoves
      BY <1>0, <2>1, <3>2 DEF NoJobMoves, jobVars, IsChoice, Silent
    <3>5. OutageMoves
      BY <1>0, <3>2 DEF OutageMoves, Silent
    <3>. QED  BY <1>0, <1>b, <2>1, <3>1, <3>2, <3>3, <3>4, <3>5
              DEF BatsimActs, JobMoves, SwitchMoves, Silent
  <2>. QED  BY <2>2, <2>3
<1>5. CASE ApplyQueryConsumedEnergy
  <2>. DEFINE e == AnswerEvent(clock)
  <2>1. /\ Decision.type = "QUERY" /\ inbox' = Append(inbox, e)
        /\ UNCHANGED <<jobVars, pstate, target, registered>>
    BY <1>5 DEF ApplyQueryConsumedEnergy, platformVars
  <2>2. e \in Events /\ e.type = "ANSWER"
    BY <1>0, EventKinds
  <2>. HIDE DEF e
  <2>3. /\ NoJobNews /\ (Begun' <=> Begun) /\ NoOutageNews /\ NoSwitchNews
        /\ inbox' # <<>>
    BY <1>0, <2>1, <2>2, OtherEvent
  <2>4. NoJobMoves
    BY <1>0, <2>1, <2>3 DEF NoJobMoves, jobVars, IsChoice
  <2>5. OutageMoves /\ SwitchMoves
    BY <1>0, <2>1, <2>3, MachinesLeftAlone
  <2>. QED  BY <1>0, <1>b, <2>3, <2>4, <2>5 DEF BatsimActs, JobMoves
<1>6. CASE ApplyRegisterJob
  <2>. DEFINE j == Decision.job
              e == JobEvent("JOB_SUBMITTED", <<j>>)
  <2>1. /\ Decision.type = "REGISTER_JOB" /\ j \in Dynamic /\ j \in Jobs
        /\ inbox' = IF registered.acknowledged THEN Append(inbox, e) ELSE inbox
        /\ UNCHANGED <<size, placed, kills, pstate, target>>
    BY <1>6, <1>a DEF ApplyRegisterJob, platformVars, Jobs
  <2>2. /\ status' = [status EXCEPT ![j] = "waiting"]
        /\ registered' = IF Decision.inlined
                          THEN [registered EXCEPT !.profiles = @ \cup {Decision.profile}]
                          ELSE registered
    BY <1>6 DEF ApplyRegisterJob
  <2>3. e \in Events /\ e.type = "JOB_SUBMITTED" /\ e.jobs = <<j>>
    BY <1>0, <2>1, EventKinds
  <2>. HIDE DEF e
  <2>4. /\ Announced' = IF registered.acknowledged THEN Announced \cup {j} ELSE Announced
        /\ Completed' = Completed
        /\ AnnouncedOnce /\ j \notin Announced => AnnouncedOnce'
        /\ (Begun' <=> Begun) /\ NoOutageNews /\ NoSwitchNews
        /\ inbox' = <<>> => inbox = <<>>
    <3>1. CASE registered.acknowledged
      BY <1>0, <2>1, <2>3, <3>1, JobEventTold
    <3>2. CASE ~registered.acknowledged
      <4>1. Silent
        BY <1>0, <2>1, <3>2, Silence
      <4>. QED  BY <2>1, <3>2, <4>1 DEF Silent, NoJobNews
    <3>. QED  BY <3>1, <3>2
  <2>5. IsRegistered(j)
    BY <1>0, <2>1, <2>2, <2>4 DEF IsRegistered, Registers
  <2>6. OutageMoves /\ SwitchMoves
    BY <1>0, <2>1, <2>4, MachinesLeftAlone
  <2>. QED  BY <1>0, <1>b, <2>1, <2>4, <2>5, <2>6 DEF BatsimActs, JobMoves
<1>7. CASE ApplyRegisterProfile
  <2>1. UNCHANGED <<inbox, pstate, target>> /\ Decision.type = "REGISTER_PROFILE"
        /\ UNCHANGED <<status, size, placed, kills>>
        /\ registered' = [registered EXCEPT !.profiles = @ \cup {Decision.profile}]
    BY <1>7 DEF ApplyRegisterProfile, platformVars, jobVars
  <2>2. /\ registered'.acknowledged = registered.acknowledged
        /\ registered'.profiles = registered.profiles \cup {Decision.profile}
    BY <2>1 DEF Registry
  <2>3. NoJobMoves
    BY <1>0, <1>c, <2>1, <2>2 DEF NoJobMoves, IsChoice
  <2>. QED  BY <1>0, <1>b, <1>c, <2>1, <2>3 DEF BatsimActs, JobMoves
<1>8. CASE ApplyFinishedSubmitting
  <2>1. UNCHANGED <<inbox, pstate, target>> /\ Decision.type = "NOTIFY"
        /\ UNCHANGED <<status, size, placed, kills>>
        /\ registered' = [registered EXCEPT !.finished = @ + 1]
    BY <1>8 DEF ApplyFinishedSubmitting, platformVars, jobVars
  <2>2. /\ registered'.acknowledged = registered.acknowledged
        /\ registered'.profiles = registered.profiles
    BY <2>1 DEF Registry
  <2>3. NoJobMoves
    BY <1>0, <1>c, <2>1, <2>2 DEF NoJobMoves, IsChoice
  <2>. QED  BY <1>0, <1>b, <1>c, <2>1, <2>3 DEF BatsimActs, JobMoves
<1>9. CASE ApplyCallMeLater \/ ApplyOther
  <2>1. UNCHANGED <<inbox, pstate, target, status, size, placed, kills, registered>>
        /\ Decision.type \in {"CALL_ME_LATER", "SET_JOB_METADATA", "ANSWER"}
    BY <1>9 DEF ApplyCallMeLater, ApplyOther, platformVars, jobVars, batsimVars
  <2>2. NoJobMoves
    BY <1>0, <1>c, <2>1 DEF NoJobMoves, IsChoice
  <2>. QED  BY <1>0, <1>b, <1>c, <2>1, <2>2 DEF BatsimActs, JobMoves
<1>. QED  BY <1>1, <1>2, <1>3, <1>4, <1>5, <1>6, <1>7, <1>8, <1>9 DEF Applying

\* Time, and the end of the simulation.
LEMMA TimeActs ==
  ASSUME Types, Tick \/ EndSimulation
  PROVE  BatsimActs
<1>0. Quiet /\ KeepsDecisions /\ UNCHANGED <<jobVars, platformVars, registered>>
  BY OtherMoves DEF Types, BatsimMoves, Tick, EndSimulation, KeepsDecisions, socketVars
<1>1. TimePasses
  BY DEF Tick, EndSimulation, TimePasses
<1>2. /\ NoJobNews /\ (Begun' <=> Begun) /\ NoOutageNews /\ NoSwitchNews
      /\ inbox' = <<>> => inbox = <<>>
  <2>1. CASE Tick
    <3>1. UNCHANGED <<inbox, handled>>
      BY <2>1 DEF Tick, socketVars
    <3>. QED  BY <3>1, Silence DEF Silent
  <2>2. CASE EndSimulation
    <3>. DEFINE e == Event("SIMULATION_ENDS")
    <3>1. e \in Events /\ e.type = "SIMULATION_ENDS"
      BY EventKinds DEF Types, PlatformTypes
    <3>2. inbox' = <<>> \o <<e>> /\ inbox = <<>> /\ UNCHANGED handled
      BY <2>2, <3>1 DEF EndSimulation
    <3>. HIDE DEF e
    <3>. QED  BY <3>1, <3>2, OtherEvent
  <2>. QED  BY <2>1, <2>2
<1>3. NoJobMoves
  BY <1>0, <1>2 DEF NoJobMoves, jobVars
<1>4. OutageMoves /\ SwitchMoves
  BY <1>0, <1>2, MachinesLeftAlone DEF platformVars
<1>. QED  BY <1>0, <1>1, <1>2, <1>3, <1>4 DEF BatsimActs, JobMoves, jobVars, platformVars


\* What Batsim registers.
LEMMA RegistryKept ==
  ASSUME Types, Registry, Happening \/ Applying \/ Tick \/ EndSimulation
  PROVE  Registry'
<1>1. CASE ApplyRegisterJob \/ ApplyRegisterProfile \/ ApplyFinishedSubmitting
  <2>1. Decision \in Decisions
    BY <1>1 DEF ApplyRegisterJob, ApplyRegisterProfile, ApplyFinishedSubmitting, Applies,
                Decision, Types, SocketTypes
  <2>2. Decision.type \in {"REGISTER_JOB", "REGISTER_PROFILE"} => Decision.profile \in Nat
    BY <2>1 DEF Decisions
  <2>. QED  BY <1>1, <2>2 DEF Registry, ApplyRegisterJob, ApplyRegisterProfile,
                          ApplyFinishedSubmitting, Applies
<1>2. CASE UNCHANGED registered
  BY <1>2 DEF Registry
<1>3. CASE Happening \/ Tick \/ EndSimulation
  BY <1>2, <1>3 DEF Happening, Submit, EndSubmissions, Complete, FinishKill, FinishSwitch,
         Call, BreakDown, Repair, AskWaitingTime, Tick, EndSimulation
<1>4. CASE Applying
  BY <1>1, <1>2, <1>4 DEF Applying, ApplyExecute, ApplyReject, ApplyKill,
       ApplySetResourceState, ApplyCallMeLater, ApplyQueryConsumedEnergy, ApplyOther,
       batsimVars
<1>. QED  BY <1>3, <1>4

-------------------------------------------------------------------------------
(* What an event changes.                                                  *)

\* The accumulated switches to a state, with those to be told; likewise for
\* the outages and the returns of machines.
Arrived(p) == SwitchesToTell(p) \cup recent.switched[p]
Gone       == Lost \cup recent.gone
BackAgain  == Found \cup recent.backAgain

\* A submitted job moves on to the accumulator, or none is concerned.
JobsHeard ==
  \/ UNCHANGED <<Announced, recent.released>>
  \/ \E j \in Announced :
       /\ Announced = Announced' \cup {j} /\ (AnnouncedOnce => j \notin Announced')
       /\ recent'.released = Append(recent.released, j)

\* The same for the machines: what is told is accumulated.
MachinesHeard ==
  /\ UNCHANGED <<Gone, BackAgain>>
  /\ \A p \in PStates : Arrived(p)' = Arrived(p)

\* What sequencer_dvfs decides when it is called.
Asides == {d \in Decisions :
  d.type = "CALL_ME_LATER" \/ (d.type = "SET_RESOURCE_STATE" /\ d.state # "asleep")}
OutboxHeard ==
  IF variant = "sequencer_dvfs" THEN \E ds \in Seq(Asides) : outbox' = outbox \o ds
                                ELSE UNCHANGED outbox

OwnHeard ==
  /\ variant = "sequencer_dvfs" => UNCHANGED own.running
  /\ variant = "sleeper" => \E b \in BOOLEAN : own' = [own EXCEPT !.finished = b]
  /\ variant \notin {"sequencer_dvfs", "sleeper"} => UNCHANGED own

\* An event is handled.
Hears ==
  /\ Receives(Current.type)
  /\ UNCHANGED <<queue, allocations>>
  /\ available' = IF Current.type = "SIMULATION_BEGINS" THEN Machines ELSE available
  /\ Begun <=> Begun' /\ Current.type # "SIMULATION_BEGINS"
  /\ AnnouncedOnce => AnnouncedOnce'
  /\ JobsHeard /\ UNCHANGED Ended /\ MachinesHeard
  /\ OutboxHeard /\ OwnHeard

\* A sequence with one job more, or none.
LEMMA JobsAdded ==
  ASSUME NEW s \in Seq(Jobs), NEW js \in OneJob
  PROVE  /\ s \o js \in Seq(Jobs)
         /\ ToSet(s \o js) = ToSet(s) \cup {j \in Jobs : js = <<j>>}
         /\ \A j \in Jobs : js = <<j>> => s \o js = Append(s, j)
         /\ js = <<>> => s \o js = s
<1>1. CASE js = <<>>
  <2>1. s \o js = s /\ \A j \in Jobs : js # <<j>>
    BY <1>1
  <2>. QED  BY <1>1, <2>1
<1>2. ASSUME NEW j \in Jobs, js = <<j>>
      PROVE  /\ s \o js = Append(s, j) /\ Append(s, j) \in Seq(Jobs)
             /\ ToSet(s \o js) = ToSet(s) \cup {j}
             /\ {i \in Jobs : js = <<i>>} = {j}
  <2>1. s \o js = Append(s, j)
    BY <1>2
  <2>2. ToSet(Append(s, j)) = ToSet(s) \cup {j} /\ Append(s, j) \in Seq(Jobs)
    BY AppendToInjective
  <2>3. {i \in Jobs : js = <<i>>} = {j}
    BY <1>2
  <2>. QED  BY <2>1, <2>2, <2>3
<1>3. js # <<>> => \E j \in Jobs : js = <<j>>
  BY DEF OneJob
<1>4. \A j \in Jobs : <<j>> # <<>>
  OBVIOUS
<1>. QED  BY <1>1, <1>2, <1>3, <1>4

\* The accumulators, before an event and after it.
RecentHeard(before, after) ==
  /\ after.released = IF Current.type = "JOB_SUBMITTED"
                        THEN before.released \o Current.jobs ELSE before.released
  /\ after.ended = IF Current.type = "JOB_COMPLETED"
                     THEN before.ended \o Current.jobs ELSE before.ended
  /\ \A p \in PStates : after.switched[p] =
       before.switched[p] \cup IF Current.type = "RESOURCE_STATE_CHANGED" /\ Current.state = p
                                 THEN Current.machines ELSE {}
  /\ after.gone = before.gone \cup IF Current.type = "UNAVAILABLE" THEN Current.machines
                                                                   ELSE {}
  /\ after.backAgain = before.backAgain
       \cup IF Current.type = "AVAILABLE" THEN Current.machines ELSE {}

\* Nothing accumulates.
LEMMA NothingHeard ==
  ASSUME Current.type \notin {"JOB_SUBMITTED", "JOB_COMPLETED", "RESOURCE_STATE_CHANGED",
                              "AVAILABLE", "UNAVAILABLE"}
  PROVE  RecentHeard(recent, recent)
BY DEF RecentHeard

\* What an event adds to the accumulators is what it takes from what is to be
\* told.
LEMMA HeardOnce ==
  ASSUME Types, Receives(Current.type), RecentHeard(recent, recent')
  PROVE  /\ Begun <=> Begun' /\ Current.type # "SIMULATION_BEGINS"
         /\ AnnouncedOnce => AnnouncedOnce'
         /\ JobsHeard /\ UNCHANGED Ended /\ MachinesHeard
<1>0. /\ Handling /\ UNCHANGED inbox /\ handled' = handled + 1
      /\ recent \in Accumulators
  BY DEF Receives, batsimVars, Types, LoopTypes
<1>1. /\ \A type : ToTell(type) = ToTell(type)' \cup
              {j \in Jobs : TellsOf(Current, type, j)}
      /\ \A type : MachinesToTell(type) = MachinesToTell(type)' \cup
              {m \in Machines : Current.type = type /\ m \in Current.machines}
      /\ \A p : SwitchesToTell(p) = SwitchesToTell(p)' \cup
              {m \in Machines : /\ Current.type = "RESOURCE_STATE_CHANGED"
                                /\ Current.state = p /\ m \in Current.machines}
      /\ Begun <=> Begun' /\ Current.type # "SIMULATION_BEGINS"
      /\ AnnouncedOnce =>
              /\ AnnouncedOnce'
              /\ \A j \in Jobs : TellsOf(Current, "JOB_SUBMITTED", j) => j \notin Announced'
  BY <1>0, Hearing
<1>2. /\ Current.type \in {"JOB_SUBMITTED", "JOB_COMPLETED"}
           => Current.jobs \in OneJob
      /\ Current.type \in {"RESOURCE_STATE_CHANGED", "AVAILABLE", "UNAVAILABLE"}
           => Current.machines \in SUBSET Machines
  BY <1>0, CurrentEvent
<1>3. /\ recent.released \in Seq(Jobs) /\ recent.ended \in Seq(Jobs)
  BY <1>0 DEF Accumulators
<1>4. JobsHeard
  <2>1. CASE \E j \in Jobs : TellsOf(Current, "JOB_SUBMITTED", j)
    <3>1. PICK j \in Jobs : Current.type = "JOB_SUBMITTED" /\ Current.jobs = <<j>>
      BY <2>1 DEF TellsOf
    <3>2. {i \in Jobs : TellsOf(Current, "JOB_SUBMITTED", i)} = {j}
      BY <3>1 DEF TellsOf
    <3>3. Announced = Announced' \cup {j} /\ (AnnouncedOnce => j \notin Announced')
      BY <1>1, <3>1, <3>2 DEF Announced, TellsOf
    <3>4. recent'.released = Append(recent.released, j)
      BY <1>2, <1>3, <3>1, JobsAdded DEF RecentHeard
    <3>. QED  BY <3>3, <3>4 DEF JobsHeard
  <2>2. CASE ~\E j \in Jobs : TellsOf(Current, "JOB_SUBMITTED", j)
    <3>1. Announced = Announced'
      BY <1>1, <2>2 DEF Announced
    <3>2. recent'.released = recent.released
      <4>1. CASE Current.type = "JOB_SUBMITTED"
        <5>1. Current.jobs = <<>>
          BY <1>2, <2>2, <4>1 DEF OneJob, TellsOf
        <5>. QED  BY <1>2, <1>3, <4>1, <5>1, JobsAdded DEF RecentHeard
      <4>. QED  BY <4>1 DEF RecentHeard
    <3>. QED  BY <3>1, <3>2 DEF JobsHeard
  <2>. QED  BY <2>1, <2>2
<1>5. UNCHANGED Ended
  <2>1. ToSet(recent'.ended) = ToSet(recent.ended) \cup
          {j \in Jobs : TellsOf(Current, "JOB_COMPLETED", j)}
    <3>1. CASE Current.type = "JOB_COMPLETED"
      <4>1. {j \in Jobs : TellsOf(Current, "JOB_COMPLETED", j)}
              = {j \in Jobs : Current.jobs = <<j>>}
        BY <3>1 DEF TellsOf
      <4>2. recent'.ended = recent.ended \o Current.jobs
        BY <3>1 DEF RecentHeard
      <4>3. ToSet(recent.ended \o Current.jobs)
              = ToSet(recent.ended) \cup {j \in Jobs : Current.jobs = <<j>>}
        BY <1>2, <1>3, <3>1, JobsAdded
      <4>. QED  BY <4>1, <4>2, <4>3
    <3>2. CASE Current.type # "JOB_COMPLETED"
      BY <3>2 DEF RecentHeard, TellsOf
    <3>. QED  BY <3>1, <3>2
  <2>. QED  BY <1>1, <2>1 DEF Ended, Completed, EndedJobs
<1>6. MachinesHeard
  <2>1. ASSUME NEW type, type \in {"RESOURCE_STATE_CHANGED", "AVAILABLE", "UNAVAILABLE"}
        PROVE  {m \in Machines : Current.type = type /\ m \in Current.machines}
                 = IF Current.type = type THEN Current.machines ELSE {}
    BY <1>2, <2>1
  <2>2. ASSUME NEW p \in PStates
        PROVE  Arrived(p)' = Arrived(p)
    <3>1. {m \in Machines : /\ Current.type = "RESOURCE_STATE_CHANGED"
                            /\ Current.state = p /\ m \in Current.machines}
            = IF Current.type = "RESOURCE_STATE_CHANGED" /\ Current.state = p
                THEN Current.machines ELSE {}
      BY <1>2
    <3>. QED  BY <1>1, <3>1 DEF Arrived, RecentHeard
  <2>3. Gone' = Gone
    BY <1>1, <2>1 DEF Gone, Lost, RecentHeard
  <2>4. BackAgain' = BackAgain
    BY <1>1, <2>1 DEF BackAgain, Found, RecentHeard
  <2>. QED  BY <2>2, <2>3, <2>4 DEF MachinesHeard
<1>. QED  BY <1>1, <1>4, <1>5, <1>6


\* The handlers of ISchedulingAlgorithm.
LEMMA ReceivingHears ==
  ASSUME Types, Receiving
  PROVE  Hears
<1>0. Handling /\ Receives(Current.type) /\ recent \in Accumulators
      /\ ~(variant = "sequencer_dvfs" /\ Current.type \in {"SIMULATION_BEGINS", "REQUESTED_CALL"})
  BY DEF Receiving, Overridden, Receives, ReceiveSimulationBegins, ReceiveJobSubmitted,
         ReceiveJobCompleted, ReceiveJobKilled, ReceiveResourceStateChanged,
         ReceiveAnswer, ReceiveQuery, ReceiveAvailable, ReceiveUnavailable,
         ReceiveNoMoreStaticJob, ReceiveSimulationEnds, Types, LoopTypes
<1>1. CASE \/ ReceiveSimulationBegins \/ ReceiveNoMoreStaticJob
           \/ ReceiveSimulationEnds
  <2>1. /\ UNCHANGED <<recent, outbox, queue, allocations, own>>
        /\ Current.type \in {"SIMULATION_BEGINS", "NO_MORE_STATIC_JOB", "SIMULATION_ENDS"}
        /\ available' = IF Current.type = "SIMULATION_BEGINS" THEN Machines ELSE available
    BY <1>1 DEF ReceiveSimulationBegins, ReceiveNoMoreStaticJob, ReceiveSimulationEnds,
                Receives, loopVars, algoVars
  <2>2. RecentHeard(recent, recent')
    BY <2>1, NothingHeard
  <2>3. OutboxHeard /\ OwnHeard
    <3>1. OutboxHeard
      <4>1. <<>> \in Seq(Asides) /\ outbox \o <<>> = outbox
        BY DEF Types, SocketTypes
      <4>. QED  BY <2>1, <4>1 DEF OutboxHeard
    <3>2. OwnHeard
      BY <2>1 DEF OwnHeard, Types, AlgorithmTypes, Members
    <3>. QED  BY <3>1, <3>2
  <2>. QED  BY <1>0, <2>1, <2>2, <2>3, HeardOnce DEF Hears
<1>2. CASE \/ ReceiveJobSubmitted \/ ReceiveJobCompleted \/ ReceiveJobKilled
           \/ ReceiveResourceStateChanged \/ ReceiveAnswer \/ ReceiveQuery
           \/ ReceiveAvailable \/ ReceiveUnavailable
  <2>1. /\ UNCHANGED <<outbox, queue, allocations, own, available>>
        /\ Current.type # "SIMULATION_BEGINS"
    BY <1>2 DEF ReceiveJobSubmitted, ReceiveJobCompleted, ReceiveJobKilled,
           ReceiveResourceStateChanged, ReceiveAnswer, ReceiveQuery,
           ReceiveAvailable, ReceiveUnavailable, Receives, Accumulates, algoVars
  <2>2. RecentHeard(recent, recent')
    <3>1. CASE ReceiveJobSubmitted
      BY <1>0, <3>1 DEF ReceiveJobSubmitted, Receives, Accumulates, RecentHeard, Accumulators
    <3>2. CASE ReceiveJobCompleted
      BY <1>0, <3>2 DEF ReceiveJobCompleted, Receives, Accumulates, RecentHeard, Accumulators
    <3>3. CASE ReceiveJobKilled
      BY <1>0, <3>3 DEF ReceiveJobKilled, Receives, Accumulates, RecentHeard, Accumulators
    <3>4. CASE ReceiveResourceStateChanged
      <4>1. Current.state \in PStates
        BY <1>0, <3>4, CurrentEvent DEF ReceiveResourceStateChanged, Receives
      <4>. QED  BY <1>0, <3>4, <4>1 DEF ReceiveResourceStateChanged, Receives, Accumulates,
                                       RecentHeard, Accumulators
    <3>5. CASE ReceiveAnswer
      BY <1>0, <3>5 DEF ReceiveAnswer, Receives, Accumulates, RecentHeard, Accumulators
    <3>6. CASE ReceiveQuery
      BY <1>0, <3>6 DEF ReceiveQuery, Receives, Accumulates, RecentHeard, Accumulators
    <3>7. CASE ReceiveAvailable
      BY <1>0, <3>7 DEF ReceiveAvailable, Receives, Accumulates, RecentHeard, Accumulators
    <3>8. CASE ReceiveUnavailable
      BY <1>0, <3>8 DEF ReceiveUnavailable, Receives, Accumulates, RecentHeard, Accumulators
    <3>. QED  BY <1>2, <3>1, <3>2, <3>3, <3>4, <3>5, <3>6, <3>7, <3>8
  <2>3. OutboxHeard
    <3>1. <<>> \in Seq(Asides) /\ outbox \o <<>> = outbox
      BY DEF Types, SocketTypes
    <3>. QED  BY <2>1, <3>1 DEF OutboxHeard
  <2>4. OwnHeard
    BY <2>1 DEF OwnHeard, Types, AlgorithmTypes, Members
  <2>. QED  BY <1>0, <2>1, <2>2, <2>3, <2>4, HeardOnce DEF Hears
<1>. QED  BY <1>1, <1>2 DEF Receiving

\* The handlers that sequencer_dvfs and sleeper override.
LEMMA OverriddenHears ==
  ASSUME Types, ReceivingOverridden
  PROVE  Hears \/ (Handling /\ Crash)
<1>1. CASE CrasherCrashesAtEvent
  BY <1>1 DEF CrasherCrashesAtEvent, CrashesAtEvent
<1>2. CASE SleeperReceiveSimulationEnds
  <2>1. /\ variant = "sleeper" /\ Receives(Current.type) /\ Current.type = "SIMULATION_ENDS"
        /\ UNCHANGED <<recent, outbox, queue, available, allocations>>
        /\ own' = [own EXCEPT !.finished = TRUE]
    BY <1>2 DEF SleeperReceiveSimulationEnds, Receives, loopVars
  <2>2. RecentHeard(recent, recent')
    BY <2>1, NothingHeard
  <2>3. OutboxHeard /\ OwnHeard
    BY <2>1 DEF OutboxHeard, OwnHeard
  <2>. QED  BY <2>1, <2>2, <2>3, HeardOnce DEF Hears
<1>3. CASE DVFSReceiveSimulationBegins
  <2>1. /\ variant = "sequencer_dvfs" /\ Receives(Current.type) /\ Handling
        /\ Current.type = "SIMULATION_BEGINS" /\ available' = Machines
        /\ UNCHANGED <<recent, queue, allocations, own>>
        /\ outbox' = outbox \o <<CallMeLater(Current.date + MonitoringPeriod, Current.date)>>
    BY <1>3 DEF DVFSReceiveSimulationBegins, Receives, Emit
  <2>2. CallMeLater(Current.date + MonitoringPeriod, Current.date) \in Asides
    BY <2>1, CurrentEvent, DecisionTypes, SequencersAssumption
       DEF Asides, OnTime, CallMeLater
  <2>3. RecentHeard(recent, recent')
    BY <2>1, NothingHeard
  <2>4. <<CallMeLater(Current.date + MonitoringPeriod, Current.date)>> \in Seq(Asides)
    BY <2>2
  <2>5. OutboxHeard /\ OwnHeard
    BY <2>1, <2>4 DEF OutboxHeard, OwnHeard
  <2>. QED  BY <2>1, <2>3, <2>5, HeardOnce DEF Hears
<1>4. CASE DVFSReceiveRequestedCall
  <2>. DEFINE date   == Current.date
              next   == IF ContinuesCalls
                          THEN <<CallMeLater(date + MonitoringPeriod, date)>> ELSE <<>>
              toggle == IF own.running
                          THEN <<SetResourceState(own.machines,
                                   IF own.fast THEN "slow" ELSE "fast", date)>>
                          ELSE <<>>
  <2>1. /\ variant = "sequencer_dvfs" /\ Receives(Current.type) /\ Handling
        /\ Current.type = "REQUESTED_CALL"
        /\ UNCHANGED <<recent, queue, available, allocations>>
        /\ outbox' = outbox \o (next \o toggle)
        /\ own' = [own EXCEPT !.fast = IF own.running THEN ~@ ELSE @]
    BY <1>4 DEF DVFSReceiveRequestedCall, Receives, Emit
  <2>0. own \in Members(variant) /\ own.machines \in SUBSET Machines
    BY <2>1 DEF Types, AlgorithmTypes, Members
  <2>2. next \in Seq(Asides)
    <3>1. CallMeLater(date + MonitoringPeriod, date) \in Asides
      BY <2>1, CurrentEvent, DecisionTypes, SequencersAssumption
         DEF Asides, OnTime, CallMeLater
    <3>. QED  BY <3>1
  <2>3. toggle \in Seq(Asides)
    <3>1. \A p \in {"slow", "fast"} : SetResourceState(own.machines, p, date) \in Asides
      <4>1. \A p \in {"slow", "fast"} : p \in PStates
        BY DEF PStates
      <4>2. \A p \in {"slow", "fast"} : SetResourceState(own.machines, p, date) \in Decisions
        BY <2>0, <2>1, <4>1, CurrentEvent, DecisionTypes DEF OnTime
      <4>. QED  BY <4>2 DEF Asides, SetResourceState
    <3>. QED  BY <3>1
  <2>4. next \o toggle \in Seq(Asides)
    BY <2>2, <2>3, ConcatProperties
  <2>. HIDE DEF next, toggle
  <2>5. OutboxHeard
    BY <2>1, <2>4 DEF OutboxHeard
  <2>6. OwnHeard
    BY <2>0, <2>1 DEF OwnHeard, Members
  <2>7. RecentHeard(recent, recent')
    BY <2>1, NothingHeard
  <2>. QED  BY <2>1, <2>5, <2>6, <2>7, HeardOnce DEF Hears
<1>. QED  BY <1>1, <1>2, <1>3, <1>4 DEF ReceivingOverridden

-------------------------------------------------------------------------------
(* The steps, from one kind to the next.                                   *)

\* What holds of the loop whatever the algorithm does: only sequencer_dvfs can
\* be told not to make decisions; all has been heard when they are made.
LoopIsSound ==
  /\ Registry
  /\ variant # "sequencer_dvfs" => nopCalls
  /\ Deciding => handled = Len(inbox)

\* make_decisions that answers.
Replies == MakeDecisions /\ Deciding /\ CallsMakeDecisions /\ WriteReply

\* A message is sent, once every decision is applied, or batsched has crashed:
\* nothing else changes.
Stands ==
  /\ UNCHANGED <<batsimVars, inbox, handled, outbox, until, schedVars>>
  /\ pc' \in {"batsim", "decide"} => pc' = pc
  /\ pc' = "events" => pc = "events" \/ outbox = <<>>

\* Every step has one of these kinds.
LEMMA Kinds ==
  ASSUME Types, LoopIsSound, [Next]_vars
  PROVE  \/ BatsimActs /\ Registry'
         \/ Stands
         \/ Hears
         \/ Replies
         \/ SkipDecisions
<1>1. CASE Happening \/ Applying \/ Tick \/ EndSimulation
  BY <1>1, HappeningActs, ApplyingActs, TimeActs, RegistryKept DEF LoopIsSound
<1>2. CASE Send \/ Stopped \/ UNCHANGED vars
  BY <1>2 DEF Send, Stopped, Stands, vars, socketVars
<1>3. CASE Receiving \/ ReceivingOverridden
  BY <1>3, ReceivingHears, OverriddenHears DEF Crash, Stands
<1>4. CASE MakeDecisions
  <2>1. CASE Deciding /\ Crash
    BY <2>1 DEF Crash, Stands
  <2>2. CASE Decides
    <3>1. WriteReply
      BY <2>2 DEF Decides, Reply
    <3>2. Deciding /\ CallsMakeDecisions
      BY <1>4, Zenon DEF MakeDecisions, KillerMakeDecisions, Killer2MakeDecisions,
           SequencerMakeDecisions, CrasherMakeDecisions, DVFSMakeDecisions,
           FillerMakeDecisions, SleeperMakeDecisions, SubmitterMakeDecisions,
           RejecterMakeDecisions, WaitingTimeEstimatorMakeDecisions,
           RandomMakeDecisions, EnergyWatcherMakeDecisions
    <3>. QED  BY <1>4, <3>1, <3>2 DEF Replies
  <2>. QED  BY <1>4, <2>1, <2>2, MakeDecisionsDecides
<1>5. CASE SkipDecisions
  BY <1>5
<1>. QED  BY <1>1, <1>2, <1>3, <1>4, <1>5 DEF Next


\* The step for LoopIsSound.
LEMMA LoopStep ==
  ASSUME Types, LoopIsSound, [Next]_vars
  PROVE  LoopIsSound'
<1>1. UNCHANGED <<variant, nopCalls>> /\ (Deciding' => handled' = Len(inbox)')
  <2>1. CASE BatsimActs
    BY <2>1 DEF BatsimActs, Quiet, AtWork, Deciding, schedVars, configVars, LoopIsSound
  <2>2. CASE Stands
    BY <2>2 DEF Stands, Deciding, schedVars, configVars, LoopIsSound
  <2>3. CASE Hears
    BY <2>3 DEF Hears, Receives, Deciding, configVars, batsimVars
  <2>4. CASE Replies \/ SkipDecisions
    BY <2>4 DEF Replies, SkipDecisions, WriteReply, Deciding, configVars
  <2>. QED  BY <2>1, <2>2, <2>3, <2>4, Kinds
<1>2. Registry'
  <2>1. CASE Stands \/ Hears \/ Replies \/ SkipDecisions
    <3>1. UNCHANGED registered
      BY <2>1 DEF Stands, Hears, Receives, Replies, SkipDecisions, WriteReply, batsimVars
    <3>. QED  BY <3>1 DEF LoopIsSound, Registry
  <2>. QED  BY <2>1, Kinds
<1>. QED  BY <1>1, <1>2 DEF LoopIsSound

-------------------------------------------------------------------------------
(* Lists of decisions.                                                     *)

\* A list settles the fate of the jobs of S, which it starts, and of those of
\* R, which it rejects; it registers no job.
Settles(ds, S, R) ==
  /\ ds \in Seq(Decisions) /\ EachOnce(ds)
  /\ StartedIn(ds) = S /\ ChosenIn(ds) = S \cup R
  /\ \A k \in 1 .. Len(ds) : ds[k].type # "REGISTER_JOB"

\* The list c is a followed by b.
Follows(c, a, b) ==
  /\ Len(a) \in Nat /\ Len(b) \in Nat
  /\ \A k \in 1 .. Len(a) : k \in 1 .. Len(c) /\ c[k] = a[k]
  /\ \A k \in 1 .. Len(b) : Len(a) + k \in 1 .. Len(c) /\ c[Len(a) + k] = b[k]
  /\ \A k \in 1 .. Len(c) : k \in 1 .. Len(a) \/ \E i \in 1 .. Len(b) : k = Len(a) + i

\* Two lists that are joined.
LEMMA ListsFollow ==
  ASSUME NEW a \in Seq(Decisions), NEW b \in Seq(Decisions)
  PROVE  a \o b \in Seq(Decisions) /\ Follows(a \o b, a, b)
<1>1. /\ Len(a) \in Nat /\ Len(b) \in Nat
      /\ \A k \in 1 .. Len(a) : k \in 1 .. Len(a \o b) /\ (a \o b)[k] = a[k]
  BY ConcatPositions
<1>2. \A k \in 1 .. Len(b) :
        Len(a) + k \in 1 .. Len(a \o b) /\ (a \o b)[Len(a) + k] = b[k]
  BY ConcatPositions
<1>3. \A k \in 1 .. Len(a \o b) :
        k \in 1 .. Len(a) \/ \E i \in 1 .. Len(b) : k = Len(a) + i
  BY ConcatPositions
<1>4. a \o b \in Seq(Decisions)
  BY ConcatProperties
<1>. QED  BY <1>1, <1>2, <1>3, <1>4 DEF Follows

\* The jobs of two lists.
LEMMA JobsOfLists ==
  ASSUME NEW a \in Seq(Decisions), NEW b \in Seq(Decisions)
  PROVE  /\ a \o b \in Seq(Decisions)
         /\ StartedIn(a \o b) = StartedIn(a) \cup StartedIn(b)
         /\ ChosenIn(a \o b) = ChosenIn(a) \cup ChosenIn(b)
         /\ EachOnce(a) /\ EachOnce(b) /\ ChosenIn(a) \cap ChosenIn(b) = {}
              => EachOnce(a \o b)
<1>1. PICK c : c = a \o b
  OBVIOUS
<1>2. /\ c \in Seq(Decisions) /\ Len(a) \in Nat
      /\ \A k \in 1 .. Len(a) : k \in 1 .. Len(c) /\ c[k] = a[k]
      /\ \A k \in 1 .. Len(b) : Len(a) + k \in 1 .. Len(c) /\ c[Len(a) + k] = b[k]
      /\ \A k \in 1 .. Len(c) : k \in 1 .. Len(a) \/ \E i \in 1 .. Len(b) : k = Len(a) + i
  <2>1. c \in Seq(Decisions) /\ Follows(c, a, b)
    BY <1>1, ListsFollow
  <2>. QED  BY <2>1 DEF Follows
<1>3. StartedIn(c) = StartedIn(a) \cup StartedIn(b)
  <2>1. ASSUME NEW j \in StartedIn(c)  PROVE j \in StartedIn(a) \cup StartedIn(b)
    <3>1. PICK k \in 1 .. Len(c) : c[k].type = "EXECUTE_JOB" /\ c[k].job = j
      BY <2>1 DEF StartedIn
    <3>2. CASE k \in 1 .. Len(a)
      BY <1>2, <2>1, <3>1, <3>2 DEF StartedIn
    <3>3. ASSUME NEW i \in 1 .. Len(b), k = Len(a) + i  PROVE j \in StartedIn(b)
      BY <1>2, <2>1, <3>1, <3>3 DEF StartedIn
    <3>. QED  BY <1>2, <3>2, <3>3
  <2>2. ASSUME NEW j \in StartedIn(a)  PROVE j \in StartedIn(c)
    <3>1. PICK k \in 1 .. Len(a) : a[k].type = "EXECUTE_JOB" /\ a[k].job = j
      BY <2>2 DEF StartedIn
    <3>. QED  BY <1>2, <2>2, <3>1 DEF StartedIn
  <2>3. ASSUME NEW j \in StartedIn(b)  PROVE j \in StartedIn(c)
    <3>1. PICK k \in 1 .. Len(b) : b[k].type = "EXECUTE_JOB" /\ b[k].job = j
      BY <2>3 DEF StartedIn
    <3>. QED  BY <1>2, <2>3, <3>1 DEF StartedIn
  <2>. QED  BY <2>1, <2>2, <2>3
<1>4. ChosenIn(c) = ChosenIn(a) \cup ChosenIn(b)
  <2>1. ASSUME NEW j \in ChosenIn(c)  PROVE j \in ChosenIn(a) \cup ChosenIn(b)
    <3>1. PICK k \in 1 .. Len(c) : IsChoice(c[k]) /\ c[k].job = j
      BY <2>1 DEF ChosenIn
    <3>2. CASE k \in 1 .. Len(a)
      BY <1>2, <2>1, <3>1, <3>2 DEF ChosenIn
    <3>3. ASSUME NEW i \in 1 .. Len(b), k = Len(a) + i  PROVE j \in ChosenIn(b)
      BY <1>2, <2>1, <3>1, <3>3 DEF ChosenIn
    <3>. QED  BY <1>2, <3>2, <3>3
  <2>2. ASSUME NEW j \in ChosenIn(a)  PROVE j \in ChosenIn(c)
    <3>1. PICK k \in 1 .. Len(a) : IsChoice(a[k]) /\ a[k].job = j
      BY <2>2 DEF ChosenIn
    <3>. QED  BY <1>2, <2>2, <3>1 DEF ChosenIn
  <2>3. ASSUME NEW j \in ChosenIn(b)  PROVE j \in ChosenIn(c)
    <3>1. PICK k \in 1 .. Len(b) : IsChoice(b[k]) /\ b[k].job = j
      BY <2>3 DEF ChosenIn
    <3>. QED  BY <1>2, <2>3, <3>1 DEF ChosenIn
  <2>. QED  BY <2>1, <2>2, <2>3
<1>5. ASSUME EachOnce(a), EachOnce(b), ChosenIn(a) \cap ChosenIn(b) = {}
      PROVE  EachOnce(c)
  <2>. SUFFICES ASSUME NEW h \in 1 .. Len(c), NEW k \in 1 .. Len(c),
                       IsChoice(c[h]), IsChoice(c[k]), c[h].job = c[k].job
                PROVE  h = k
    BY DEF EachOnce
  <2>1. c[h].job \in Jobs
    <3>1. c[h] \in Decisions
      BY <1>2, ElementOfSeq
    <3>. QED  BY <3>1 DEF Decisions, IsChoice
  <2>2. ASSUME h \in 1 .. Len(a), k \in 1 .. Len(a)  PROVE h = k
    BY <1>2, <1>5, <2>2 DEF EachOnce
  <2>. HIDE DEF IsChoice
  <2>3. ASSUME h \in 1 .. Len(a), NEW i \in 1 .. Len(b), k = Len(a) + i  PROVE FALSE
    <3>1. c[h] = a[h] /\ c[k] = b[i]
      BY <1>2, <2>3
    <3>2. c[h].job \in ChosenIn(a)
      BY <2>1, <2>3, <3>1 DEF ChosenIn
    <3>3. c[h].job \in ChosenIn(b)
      BY <2>1, <2>3, <3>1 DEF ChosenIn
    <3>. QED  BY <1>5, <3>2, <3>3
  <2>4. ASSUME NEW g \in 1 .. Len(b), h = Len(a) + g, k \in 1 .. Len(a)  PROVE FALSE
    <3>1. c[h] = b[g] /\ c[k] = a[k]
      BY <1>2, <2>4
    <3>2. c[h].job \in ChosenIn(a)
      BY <2>1, <2>4, <3>1 DEF ChosenIn
    <3>3. c[h].job \in ChosenIn(b)
      BY <2>1, <2>4, <3>1 DEF ChosenIn
    <3>. QED  BY <1>5, <3>2, <3>3
  <2>5. ASSUME NEW g \in 1 .. Len(b), h = Len(a) + g, NEW i \in 1 .. Len(b), k = Len(a) + i
        PROVE  h = k
    <3>1. b[g] = c[h] /\ b[i] = c[k]
      BY <1>2, <2>5
    <3>. QED  BY <1>5, <2>5, <3>1 DEF EachOnce
  <2>. QED  BY <1>2, <2>2, <2>3, <2>4, <2>5
<1>. QED  BY <1>1, <1>2, <1>3, <1>4, <1>5

\* A list with one decision.
LEMMA OneDecision ==
  ASSUME NEW d \in Decisions
  PROVE  /\ <<d>> \in Seq(Decisions) /\ EachOnce(<<d>>)
         /\ StartedIn(<<d>>) = IF d.type = "EXECUTE_JOB" THEN {d.job} ELSE {}
         /\ ChosenIn(<<d>>) = IF IsChoice(d) THEN {d.job} ELSE {}
<1>1. /\ <<d>> \in Seq(Decisions) /\ Len(<<d>>) = 1 /\ <<d>>[1] = d
      /\ \A k : k \in 1 .. Len(<<d>>) <=> k = 1
  OBVIOUS
<1>2. IsChoice(d) => d.job \in Jobs
  BY DEF Decisions, IsChoice
<1>3. d.type = "EXECUTE_JOB" => IsChoice(d)
  BY DEF IsChoice
<1>4. PICK s : s = <<d>>
  OBVIOUS
<1>5. s \in Seq(Decisions) /\ s[1] = d /\ \A k : k \in 1 .. Len(s) <=> k = 1
  BY <1>1, <1>4
<1>6. EachOnce(s)
  BY <1>5 DEF EachOnce
<1>7. StartedIn(s) = IF d.type = "EXECUTE_JOB" THEN {d.job} ELSE {}
  BY <1>2, <1>3, <1>5 DEF StartedIn
<1>8. ChosenIn(s) = IF IsChoice(d) THEN {d.job} ELSE {}
  BY <1>2, <1>5 DEF ChosenIn
<1>. QED  BY <1>1, <1>4, <1>6, <1>7, <1>8

\* A list without choices.
LEMMA NoChoice ==
  ASSUME NEW ds \in Seq(Decisions), \A k \in 1 .. Len(ds) : ~IsChoice(ds[k])
  PROVE  EachOnce(ds) /\ StartedIn(ds) = {} /\ ChosenIn(ds) = {}
BY DEF EachOnce, StartedIn, ChosenIn, IsChoice

\* The same for lists that settle the fate of jobs.
LEMMA BothSettle ==
  ASSUME NEW a, NEW b, NEW S, NEW R, NEW S2, NEW R2,
         Settles(a, S, R), Settles(b, S2, R2), (S \cup R) \cap (S2 \cup R2) = {}
  PROVE  Settles(a \o b, S \cup S2, R \cup R2)
<1>1. a \in Seq(Decisions) /\ b \in Seq(Decisions)
  BY DEF Settles
<1>2. /\ a \o b \in Seq(Decisions) /\ EachOnce(a \o b)
      /\ StartedIn(a \o b) = S \cup S2
      /\ ChosenIn(a \o b) = S \cup R \cup S2 \cup R2
  BY <1>1, JobsOfLists DEF Settles
<1>3. PICK c : c = a \o b
  OBVIOUS
<1>4. /\ \A k \in 1 .. Len(a) : c[k] = a[k]
      /\ \A k \in 1 .. Len(b) : c[Len(a) + k] = b[k]
      /\ \A k \in 1 .. Len(c) : k \in 1 .. Len(a) \/ \E i \in 1 .. Len(b) : k = Len(a) + i
  <2>1. Follows(c, a, b)
    BY <1>1, <1>3, ListsFollow
  <2>. QED  BY <2>1 DEF Follows
<1>5. \A k \in 1 .. Len(c) : c[k].type # "REGISTER_JOB"
  <2>1. /\ \A k \in 1 .. Len(a) : a[k].type # "REGISTER_JOB"
        /\ \A k \in 1 .. Len(b) : b[k].type # "REGISTER_JOB"
    BY DEF Settles
  <2>. SUFFICES ASSUME NEW k \in 1 .. Len(c) PROVE c[k].type # "REGISTER_JOB"
    OBVIOUS
  <2>2. CASE k \in 1 .. Len(a)
    BY <1>4, <2>1, <2>2
  <2>3. ASSUME NEW i \in 1 .. Len(b), k = Len(a) + i PROVE c[k].type # "REGISTER_JOB"
    BY <1>4, <2>1, <2>3
  <2>. QED  BY <1>4, <2>2, <2>3
<1>. QED  BY <1>2, <1>3, <1>5 DEF Settles

\* Nothing, an execution, and decisions that settle nothing.
LEMMA SimplySettle ==
  /\ Settles(<<>>, {}, {})
  /\ \A j \in Jobs : \A ms \in SUBSET Machines : \A date \in Nat :
       Settles(<<ExecuteJob(j, ms, date)>>, {j}, {})
  /\ \A ds \in Seq(Decisions) :
       (\A k \in 1 .. Len(ds) : ~IsChoice(ds[k]) /\ ds[k].type # "REGISTER_JOB")
         => Settles(ds, {}, {})
<1>1. \A ds \in Seq(Decisions) :
       (\A k \in 1 .. Len(ds) : ~IsChoice(ds[k]) /\ ds[k].type # "REGISTER_JOB")
         => Settles(ds, {}, {})
  BY NoChoice DEF Settles
<1>2. Settles(<<>>, {}, {})
  <2>0. <<>> \in Seq(Decisions)
    OBVIOUS
  <2>1. PICK ds \in Seq(Decisions) : ds = <<>>
    BY <2>0
  <2>2. \A k : k \notin 1 .. Len(ds)
    BY <2>1
  <2>. QED  BY <1>1, <2>1, <2>2
<1>3. ASSUME NEW j \in Jobs, NEW ms \in SUBSET Machines, NEW date \in Nat
      PROVE  Settles(<<ExecuteJob(j, ms, date)>>, {j}, {})
  <2>1. PICK d \in Decisions : d = ExecuteJob(j, ms, date)
    BY DecisionTypes DEF OnTime
  <2>2. d.type = "EXECUTE_JOB" /\ d.job = j
    BY <2>1 DEF ExecuteJob
  <2>3. \A k \in 1 .. Len(<<d>>) : <<d>>[k].type # "REGISTER_JOB"
    BY <2>2
  <2>4. Settles(<<d>>, {j}, {})
    BY <2>2, <2>3, OneDecision DEF Settles, IsChoice
  <2>. QED  BY <2>1, <2>4
<1>. QED  BY <1>1, <1>2, <1>3


\* A list with one choice for each job of a sequence without repetition.
LEMMA ChoiceForEach ==
  ASSUME NEW js \in Seq(Jobs), IsInjective(js), NEW ds \in Seq(Decisions),
         Len(ds) = Len(js),
         \A k \in 1 .. Len(js) : IsChoice(ds[k]) /\ ds[k].job = js[k]
  PROVE  /\ EachOnce(ds) /\ ChosenIn(ds) = ToSet(js)
         /\ \A k \in 1 .. Len(ds) : ds[k].type # "REGISTER_JOB"
         /\ (\A k \in 1 .. Len(ds) : ds[k].type = "REJECT_JOB") => Settles(ds, {}, ToSet(js))
<1>1. /\ DOMAIN js = 1 .. Len(js) /\ \A k \in 1 .. Len(js) : js[k] \in Jobs
      /\ \A x : x \in ToSet(js) <=> \E k \in 1 .. Len(js) : x = js[k]
  BY LenProperties, ElementOfSeq DEF ToSet
<1>2. EachOnce(ds)
  BY <1>1 DEF EachOnce, IsInjective
<1>3. ChosenIn(ds) = ToSet(js)
  BY <1>1 DEF ChosenIn
<1>4. \A k \in 1 .. Len(ds) : ds[k].type # "REGISTER_JOB"
  BY DEF IsChoice
<1>5. (\A k \in 1 .. Len(ds) : ds[k].type = "REJECT_JOB") => StartedIn(ds) = {}
  BY DEF StartedIn
<1>. QED  BY <1>2, <1>3, <1>4, <1>5 DEF Settles

\* The same jobs are rejected.
LEMMA RejectionsSettle ==
  ASSUME NEW js \in Seq(Jobs), IsInjective(js), NEW date \in Nat
  PROVE  Settles([k \in DOMAIN js |-> RejectJob(js[k], date)], {}, ToSet(js))
<1>1. /\ DOMAIN js = 1 .. Len(js) /\ Len(js) \in Nat
      /\ \A k \in 1 .. Len(js) : js[k] \in Jobs
  BY LenProperties, ElementOfSeq
<1>2. \A k \in 1 .. Len(js) : RejectJob(js[k], date) \in Decisions
  BY <1>1, DecisionTypes DEF OnTime
<1>3. \A j : RejectJob(j, date).type = "REJECT_JOB" /\ RejectJob(j, date).job = j
  BY DEF RejectJob
<1>4. PICK ds : ds = [k \in 1 .. Len(js) |-> RejectJob(js[k], date)]
  OBVIOUS
<1>5. ds \in Seq(Decisions) /\ Len(ds) = Len(js)
  <2>1. ds \in Seq(Decisions)
    BY <1>1, <1>2, <1>4
  <2>2. DOMAIN ds = 1 .. Len(js)
    BY <1>4
  <2>. QED  BY <1>1, <2>1, <2>2, LenProperties
<1>6. \A k \in 1 .. Len(js) : IsChoice(ds[k]) /\ ds[k].job = js[k] /\ ds[k].type = "REJECT_JOB"
  BY <1>3, <1>4 DEF IsChoice
<1>7. Settles(ds, {}, ToSet(js))
  BY <1>5, <1>6, ChoiceForEach
<1>. QED  BY <1>1, <1>4, <1>7

-------------------------------------------------------------------------------
(* What make_decisions has to decide about.                                *)

\* The released jobs that can never run, and the jobs that wait to run.
Invalid    == {j \in Released : ~IsValid(j)}
Candidates == Queued \cup {j \in Released : IsValid(j)}

\* Every waiting job is known once.
WaitingOnce ==
  IsInjective(recent.released) /\ OnePerJob(queue) /\ Released \cap Queued = {}

\* The released jobs, sorted out; the queue they join.
LEMMA SortedOut ==
  ASSUME Types, Deciding, WaitingOnce
  PROVE  /\ Settles(Rejections(clock), {}, Invalid)
         /\ QueueWithReleased \in Seq(Entries(Runnable))
         /\ OnePerJob(QueueWithReleased) /\ JobsOf(QueueWithReleased) = Candidates
         /\ SortedQueue \in Seq(Entries(Runnable))
         /\ OnePerJob(SortedQueue) /\ JobsOf(SortedQueue) = Candidates
<1>. DEFINE r == recent.released
            D == 1 .. Len(r)
            K == {k \in D : ~IsValid(r[k])}
            V == {k \in D : IsValid(r[k])}
<1>1. /\ r \in Seq(Submitted) /\ r \in Seq(Jobs) /\ DOMAIN r = D
      /\ \A k \in D : r[k] \in Submitted
      /\ \A x : x \in Released <=> \E k \in D : x = r[k]
  <2>1. r \in Seq(Submitted) /\ r \in Seq(Jobs)
    BY DEF Types, KnownJobs, LoopTypes, Accumulators
  <2>. QED  BY <2>1, LenProperties, ElementOfSeq DEF Released, ToSet
<1>2. /\ QueueWithReleased \in Seq(Entries(Runnable))
      /\ SortedQueue \in Seq(Entries(Runnable)) /\ EventDate \in Nat /\ clock \in Nat
  BY WhenDeciding DEF Types, PlatformTypes
<1>3. K \in SUBSET D /\ V \in SUBSET D
  OBVIOUS
<1>4. PICK no : no = Selection(r, K)
  OBVIOUS
<1>5. PICK yes : yes = Selection(r, V)
  OBVIOUS
<1>6. /\ no \in Seq(Jobs) /\ IsInjective(no)
      /\ {no[i] : i \in 1 .. Len(no)} = {r[k] : k \in K}
  <2>1. IsInjective(r)
    BY DEF WaitingOnce
  <2>. HIDE DEF r, K
  <2>2. r \in Seq(Jobs) /\ K \in SUBSET (1 .. Len(r))
    BY <1>1, <1>3 DEF D
  <2>. HIDE DEF D
  <2>3. /\ Selection(r, K) \in Seq(Jobs) /\ IsInjective(Selection(r, K))
        /\ {Selection(r, K)[i] : i \in 1 .. Len(Selection(r, K))} = {r[k] : k \in K}
    BY <2>1, <2>2, SelectionElements
  <2>. QED  BY <1>4, <2>3
<1>7. /\ yes \in Seq(Submitted) /\ IsInjective(yes)
      /\ {yes[i] : i \in 1 .. Len(yes)} = {r[k] : k \in V}
  <2>1. IsInjective(r)
    BY DEF WaitingOnce
  <2>. HIDE DEF r, V
  <2>2. r \in Seq(Submitted) /\ V \in SUBSET (1 .. Len(r))
    BY <1>1, <1>3 DEF D
  <2>. HIDE DEF D
  <2>3. /\ Selection(r, V) \in Seq(Submitted) /\ IsInjective(Selection(r, V))
        /\ {Selection(r, V)[i] : i \in 1 .. Len(Selection(r, V))} = {r[k] : k \in V}
    BY <2>1, <2>2, SelectionElements
  <2>. QED  BY <1>5, <2>3
<1>8. ToSet(no) = Invalid
  <2>1. ToSet(no) = {no[i] : i \in 1 .. Len(no)}
    BY <1>6, LenProperties DEF ToSet
  <2>2. {r[k] : k \in K} = Invalid
    BY <1>1 DEF Invalid
  <2>. QED  BY <1>6, <2>1, <2>2
<1>9. ToSet(yes) = {j \in Released : IsValid(j)}
  <2>1. ToSet(yes) = {yes[i] : i \in 1 .. Len(yes)}
    BY <1>7, LenProperties DEF ToSet
  <2>2. {r[k] : k \in V} = {j \in Released : IsValid(j)}
    BY <1>1
  <2>. QED  BY <1>7, <2>1, <2>2
<1>10. Settles(Rejections(clock), {}, Invalid)
  <2>1. Rejections(clock) = [k \in DOMAIN no |-> RejectJob(no[k], clock)]
    BY <1>1, <1>4 DEF Rejections
  <2>. QED  BY <1>2, <1>6, <1>8, <2>1, RejectionsSettle
<1>11. yes \in Seq(Runnable)
  <2>1. Len(yes) \in Nat /\ DOMAIN yes = 1 .. Len(yes)
        /\ \A i \in 1 .. Len(yes) : yes[i] \in Submitted
    BY <1>7, LenProperties, ElementOfSeq
  <2>2. \A i \in 1 .. Len(yes) : IsValid(yes[i])
    BY <1>7
  <2>3. \A i \in 1 .. Len(yes) : yes[i] \in Runnable
    BY <2>1, <2>2 DEF Submitted, Runnable
  <2>4. yes = [i \in 1 .. Len(yes) |-> yes[i]]
    BY <1>7, <2>1
  <2>. QED  BY <2>1, <2>3, <2>4
<1>12. OnePerJob(QueueWithReleased) /\ JobsOf(QueueWithReleased) = Candidates
  <2>1. QueueWithReleased = AppendJobs(queue, yes, EventDate)
    BY <1>1, <1>5 DEF QueueWithReleased
  <2>2. queue \in Seq(Entries(Runnable)) /\ OnePerJob(queue) /\ EventDate \in Int
        /\ JobsOf(queue) \cap ToSet(yes) = {}
    BY <1>2, <1>9 DEF Types, KnownJobs, WaitingOnce, Queued
  <2>3. PICK q, d, J : q = queue /\ d = EventDate /\ J = Runnable
    OBVIOUS
  <2>4. q \in Seq(Entries(J)) /\ yes \in Seq(J) /\ d \in Int /\ IsInjective(yes)
        /\ OnePerJob(q) /\ JobsOf(q) \cap ToSet(yes) = {}
    BY <1>7, <1>11, <2>2, <2>3
  <2>5. JobsOf(AppendJobs(q, yes, d)) = JobsOf(q) \cup ToSet(yes)
    <3>1. q \in Seq(Entries(J)) /\ yes \in Seq(J) /\ d \in Int
      BY <2>4
    <3>. QED  BY <3>1, AppendJobsElements
  <2>6. OnePerJob(AppendJobs(q, yes, d))
    BY <2>4, AppendJobsElements
  <2>. QED  BY <1>9, <2>1, <2>3, <2>5, <2>6 DEF Candidates, Queued
<1>13. OnePerJob(SortedQueue) /\ JobsOf(SortedQueue) = Candidates
  <2>1. /\ order \in QueueOrders /\ size \in [Jobs -> Int] /\ walltime \in [Jobs -> Int]
        /\ Jobs \subseteq Int
    BY RunLoopAssumption DEF Types, PlatformTypes, LoopTypes, Jobs, Static, Dynamic
  <2>2. QueueWithReleased \in Seq(Entries(Jobs))
    <3>1. Entries(Runnable) \subseteq Entries(Jobs)
      BY DEF Runnable, Entries
    <3>. QED  BY <1>2, <3>1, LargerSet
  <2>. QED  BY <1>2, <1>12, <2>1, <2>2, SortQueueElements DEF SortedQueue
<1>. QED  BY <1>2, <1>10, <1>12, <1>13


-------------------------------------------------------------------------------
(* A job is in one place only.                                             *)

\* A waiting job is announced, accumulated, queued or chosen, and once.
InOnePlace ==
  /\ AnnouncedOnce /\ WaitingOnce /\ EachOnce(outbox)
  /\ Announced \cap (Released \cup Queued) = {}
  /\ Waiters \cap ChosenIn(outbox) = {}
  /\ \A j \in Waiters : status[j] = "waiting"

\* What is decided about a job finds it waiting, or comes after its registration
\* if that is not acknowledged.
ChoicesAreReady ==
  \A k \in 1 .. Len(outbox) : IsChoice(outbox[k]) =>
    \/ status[outbox[k].job] = "waiting"
    \/ /\ status[outbox[k].job] = "future" /\ ~registered.acknowledged
       /\ \E h \in 1 .. k - 1 : Registers(outbox[h], outbox[k].job)

\* A job is registered once.
RegisteredOnce ==
  \A k \in 1 .. Len(outbox) : outbox[k].type = "REGISTER_JOB" =>
    /\ status[outbox[k].job] = "future"
    /\ \A h \in 1 .. Len(outbox) : Registers(outbox[h], outbox[k].job) => h = k

\* Only submitter registers jobs, in the order of their numbers.
Fresh(j) == j \in Dynamic /\ j > NbStatic + own.submitted
FreshJobs ==
  /\ variant # "submitter" =>
       \A k \in 1 .. Len(outbox) : outbox[k].type # "REGISTER_JOB"
  /\ variant = "submitter" =>
       /\ registered.acknowledged = own.acknowledged
       /\ \A j \in Jobs : Fresh(j) =>
            status[j] = "future" /\ \A k \in 1 .. Len(outbox) : ~Registers(outbox[k], j)

OnlyRunningPlaced == \A j \in Jobs : status[j] # "running" => placed[j] = {}

JobsOnce ==
  InOnePlace /\ ChoicesAreReady /\ RegisteredOnce /\ FreshJobs /\ OnlyRunningPlaced

\* The decision that Batsim takes.
LEMMA Taken ==
  ASSUME Types, TakesDecision
  PROVE  /\ Len(outbox) \in Nat \ {0} /\ Len(outbox') = Len(outbox) - 1
         /\ outbox' \in Seq(Decisions)
         /\ Decision = outbox[1] /\ Decision \in Decisions
         /\ \A k \in 1 .. Len(outbox') :
              k + 1 \in 1 .. Len(outbox) /\ outbox'[k] = outbox[k + 1]
         /\ \A k \in 1 .. Len(outbox) :
              k = 1 \/ (k - 1 \in 1 .. Len(outbox') /\ outbox'[k - 1] = outbox[k])
<1>1. outbox \in Seq(Decisions) /\ outbox # <<>> /\ outbox' = Tail(outbox)
  BY DEF Types, SocketTypes, TakesDecision
<1>2. PICK s \in Seq(Decisions) : s = outbox
  BY <1>1
<1>3. /\ Len(s) \in Nat \ {0} /\ Tail(s) \in Seq(Decisions) /\ Len(Tail(s)) = Len(s) - 1
      /\ Head(s) = s[1]
      /\ \A k \in 1 .. Len(Tail(s)) : Tail(s)[k] = s[k + 1]
  BY <1>1, <1>2
<1>4. s[1] \in Decisions
  BY <1>3, ElementOfSeq
<1>5. \A k \in 1 .. Len(Tail(s)) : k + 1 \in 1 .. Len(s)
  BY <1>3
<1>6. \A k \in 1 .. Len(s) : k = 1 \/ (k - 1 \in 1 .. Len(Tail(s)) /\ Tail(s)[k - 1] = s[k])
  <2>. SUFFICES ASSUME NEW k \in 1 .. Len(s), k # 1
                PROVE  k - 1 \in 1 .. Len(Tail(s)) /\ Tail(s)[k - 1] = s[k]
    OBVIOUS
  <2>1. k - 1 \in 1 .. Len(Tail(s)) /\ (k - 1) + 1 = k
    BY <1>3
  <2>. QED  BY <1>3, <2>1
<1>. QED  BY <1>1, <1>2, <1>3, <1>4, <1>5, <1>6 DEF Decision

\* What it leaves.
LEMMA TakenOnce ==
  ASSUME Types, TakesDecision
  PROVE  /\ EachOnce(outbox) =>
              /\ EachOnce(outbox)'
              /\ IsChoice(Decision) =>
                   Decision.job \in ChosenIn(outbox) /\ Decision.job \notin ChosenIn(outbox)'
         /\ ChosenIn(outbox)' \subseteq ChosenIn(outbox)
         /\ StartedIn(outbox)
              = StartedIn(outbox)' \cup IF Decision.type = "EXECUTE_JOB" THEN {Decision.job} ELSE {}
<1>0. PICK s, t, d : s = outbox /\ t = outbox' /\ d = Decision
  OBVIOUS
<1>1. /\ Len(s) \in Nat \ {0} /\ d = s[1] /\ d \in Decisions /\ Len(t) \in Nat
      /\ \A k \in 1 .. Len(t) : k + 1 \in 1 .. Len(s) /\ t[k] = s[k + 1]
      /\ \A k \in 1 .. Len(s) : k = 1 \/ (k - 1 \in 1 .. Len(t) /\ t[k - 1] = s[k])
  <2>1. Len(t) \in Nat
    BY <1>0, Taken, LenProperties
  <2>. QED  BY <1>0, <2>1, Taken
<1>2. IsChoice(d) => d.job \in Jobs
  BY <1>1 DEF Decisions, IsChoice
<1>3. ASSUME EachOnce(s)
      PROVE  EachOnce(t) /\ (IsChoice(d) => d.job \in ChosenIn(s) /\ d.job \notin ChosenIn(t))
  <2>1. EachOnce(t)
    <3>. SUFFICES ASSUME NEW h \in 1 .. Len(t), NEW k \in 1 .. Len(t),
                         IsChoice(t[h]), IsChoice(t[k]), t[h].job = t[k].job
                  PROVE  h = k
      BY DEF EachOnce
    <3>1. h + 1 = k + 1
      BY <1>1, <1>3, SMTT(30) DEF EachOnce
    <3>. QED  BY <3>1
  <2>2. ASSUME IsChoice(d)  PROVE d.job \in ChosenIn(s)
    <3>1. 1 \in 1 .. Len(s)
      BY <1>1
    <3>. QED  BY <1>1, <1>2, <2>2, <3>1 DEF ChosenIn
  <2>3. ASSUME IsChoice(d), d.job \in ChosenIn(t)  PROVE FALSE
    <3>1. PICK k \in 1 .. Len(t) : IsChoice(t[k]) /\ t[k].job = d.job
      BY <2>3 DEF ChosenIn
    <3>2. k + 1 \in 1 .. Len(s) /\ IsChoice(s[k + 1]) /\ s[k + 1].job = s[1].job /\ 1 \in 1 .. Len(s)
      BY <1>1, <3>1
    <3>3. k + 1 = 1
      BY <1>1, <1>3, <2>3, <3>2 DEF EachOnce
    <3>. QED  BY <3>3
  <2>. QED  BY <2>1, <2>2, <2>3
<1>4. ChosenIn(t) \subseteq ChosenIn(s)
  <2>. SUFFICES ASSUME NEW j \in ChosenIn(t)  PROVE j \in ChosenIn(s)
    OBVIOUS
  <2>1. PICK k \in 1 .. Len(t) : IsChoice(t[k]) /\ t[k].job = j
    BY DEF ChosenIn
  <2>2. k + 1 \in 1 .. Len(s) /\ IsChoice(s[k + 1]) /\ s[k + 1].job = j /\ j \in Jobs
    BY <1>1, <2>1 DEF ChosenIn
  <2>. QED  BY <2>2 DEF ChosenIn
<1>5. StartedIn(s) = StartedIn(t) \cup IF d.type = "EXECUTE_JOB" THEN {d.job} ELSE {}
  <2>1. ASSUME NEW j \in StartedIn(t)  PROVE j \in StartedIn(s)
    <3>1. PICK k \in 1 .. Len(t) : t[k].type = "EXECUTE_JOB" /\ t[k].job = j
      BY <2>1 DEF StartedIn
    <3>2. k + 1 \in 1 .. Len(s) /\ s[k + 1] = t[k] /\ j \in Jobs
      BY <1>1, <2>1 DEF StartedIn
    <3>. QED  BY <3>1, <3>2 DEF StartedIn
  <2>2. ASSUME d.type = "EXECUTE_JOB"  PROVE d.job \in StartedIn(s)
    <3>1. 1 \in 1 .. Len(s) /\ d.job \in Jobs
      BY <1>1, <1>2, <2>2 DEF IsChoice
    <3>. QED  BY <1>1, <2>2, <3>1 DEF StartedIn
  <2>3. ASSUME NEW j \in StartedIn(s), j \notin StartedIn(t)
        PROVE  d.type = "EXECUTE_JOB" /\ j = d.job
    <3>1. PICK k \in 1 .. Len(s) : s[k].type = "EXECUTE_JOB" /\ s[k].job = j
      BY <2>3 DEF StartedIn
    <3>2. CASE k = 1
      BY <1>1, <3>1, <3>2
    <3>3. CASE k - 1 \in 1 .. Len(t) /\ t[k - 1] = s[k]
      BY <2>3, <3>1, <3>3 DEF StartedIn
    <3>. QED  BY <1>1, <3>2, <3>3
  <2>. QED  BY <2>1, <2>2, <2>3
<1>6. /\ ChosenIn(outbox)' = ChosenIn(t) /\ StartedIn(outbox)' = StartedIn(t)
      /\ EachOnce(outbox)' <=> EachOnce(t)
  BY <1>0 DEF ChosenIn, StartedIn, EachOnce, IsChoice
<1>. QED  BY <1>0, <1>3, <1>4, <1>5, <1>6


\* The decisions concern no job j.
Unconcerned(j) == \A k \in 1 .. Len(outbox) :
  IsChoice(outbox[k]) \/ outbox[k].type = "REGISTER_JOB" => outbox[k].job # j

\* One job moves, and perhaps a decision about it is taken.
MovesAlone(j, s) ==
  /\ status' = [status EXCEPT ![j] = s]
  /\ \/ KeepsDecisions /\ Unconcerned(j)
     \/ TakesDecision /\ IsChoice(Decision) /\ Decision.job = j
     \/ TakesDecision /\ Registers(Decision, j) /\ s = "waiting"
  /\ \/ Announced' = Announced
     \/ Announced' = Announced \cup {j} /\ s = "waiting" /\ j \notin ChosenIn(outbox)
  /\ AnnouncedOnce'
  /\ j \notin Waiters
  /\ variant = "submitter" => ~Fresh(j)

\* The other jobs stay where they are.
LEMMA MovingAlone ==
  ASSUME Types, JobsOnce, Quiet, UNCHANGED registered.acknowledged,
         NEW j \in Jobs, NEW s, MovesAlone(j, s)
  PROVE  InOnePlace' /\ ChoicesAreReady' /\ RegisteredOnce' /\ FreshJobs'
<1>. USE DEF JobsOnce
<1>0. /\ UNCHANGED <<queue, recent, own, variant>>
      /\ Released' = Released /\ Queued' = Queued /\ (WaitingOnce' <=> WaitingOnce)
  BY DEF Quiet, schedVars, configVars, loopVars, algoVars, Released, Queued, WaitingOnce
<1>1. \A i \in Jobs : status'[i] = IF i = j THEN s ELSE status[i]
  BY DEF MovesAlone, Types, PlatformTypes
<1>2. /\ outbox \in Seq(Decisions)
      /\ \A k \in 1 .. Len(outbox) : IsChoice(outbox[k]) => outbox[k].job \in Jobs
      /\ \A k \in 1 .. Len(outbox) :
           outbox[k].type = "REGISTER_JOB" => outbox[k].job \in Jobs
  <2>1. outbox \in Seq(Decisions)
    BY DEF Types, SocketTypes
  <2>2. \A k \in 1 .. Len(outbox) : outbox[k] \in Decisions
    BY <2>1, ElementOfSeq
  <2>3. Dynamic \subseteq Jobs
    BY DEF Jobs
  <2>4. ASSUME NEW k \in 1 .. Len(outbox)
        PROVE  /\ IsChoice(outbox[k]) => outbox[k].job \in Jobs
               /\ outbox[k].type = "REGISTER_JOB" => outbox[k].job \in Dynamic
    BY <2>2 DEF Decisions, IsChoice
  <2>. QED  BY <2>1, <2>3, <2>4
<1>3. Waiters \subseteq Jobs /\ (\A i \in Waiters : i # j)
  <2>1. Released \subseteq Jobs
    BY ElementOfSeq, LenProperties DEF Types, LoopTypes, Accumulators, Released, ToSet
  <2>2. queue \in Seq(Entries(Jobs))
    BY DEF Types, AlgorithmTypes
  <2>3. Queued \subseteq Jobs
    BY <2>2, JobsByPosition DEF Queued
  <2>. QED  BY <2>1, <2>3 DEF MovesAlone, Waiters, Announced, ToTell
<1>5. EachOnce(outbox)' /\ ChosenIn(outbox)' \subseteq ChosenIn(outbox)
  <2>1. CASE KeepsDecisions
    BY <2>1 DEF KeepsDecisions, InOnePlace, EachOnce, ChosenIn, IsChoice
  <2>2. CASE TakesDecision
    BY <2>2, TakenOnce DEF InOnePlace
  <2>. QED  BY <2>1, <2>2 DEF MovesAlone
<1>6. InOnePlace'
  <2>1. Waiters' = Waiters \/ (Waiters' = Waiters \cup {j} /\ s = "waiting" /\ j \notin ChosenIn(outbox))
    BY <1>0 DEF MovesAlone, Waiters
  <2>2. \A i \in Waiters' : status'[i] = "waiting"
    BY <1>1, <1>3, <2>1 DEF InOnePlace
  <2>3. Waiters' \cap ChosenIn(outbox)' = {}
    BY <1>5, <2>1 DEF InOnePlace
  <2>4. Announced' \cap (Released' \cup Queued') = {}
    BY <1>0, <1>3 DEF MovesAlone, InOnePlace, Waiters
  <2>5. AnnouncedOnce' /\ WaitingOnce'
    BY <1>0 DEF MovesAlone, InOnePlace
  <2>. QED  BY <1>5, <2>2, <2>3, <2>4, <2>5 DEF InOnePlace
<1>7. CASE KeepsDecisions /\ Unconcerned(j)
  <2>1. outbox' = outbox /\ registered'.acknowledged = registered.acknowledged
    BY <1>7 DEF KeepsDecisions
  <2>2. ChoicesAreReady'
    <3>. SUFFICES ASSUME NEW k \in 1 .. Len(outbox), IsChoice(outbox[k])
                  PROVE  \/ status'[outbox[k].job] = "waiting"
                         \/ /\ status'[outbox[k].job] = "future" /\ ~registered.acknowledged
                            /\ \E h \in 1 .. k - 1 : Registers(outbox[h], outbox[k].job)
      BY <2>1 DEF ChoicesAreReady, IsChoice, Registers
    <3>1. outbox[k].job \in Jobs /\ outbox[k].job # j
      BY <1>2, <1>7 DEF Unconcerned
    <3>. QED  BY <1>1, <3>1 DEF ChoicesAreReady
  <2>3. RegisteredOnce'
    <3>. SUFFICES ASSUME NEW k \in 1 .. Len(outbox), outbox[k].type = "REGISTER_JOB"
                  PROVE  /\ status'[outbox[k].job] = "future"
                         /\ \A h \in 1 .. Len(outbox) : Registers(outbox[h], outbox[k].job) => h = k
      BY <2>1 DEF RegisteredOnce, Registers
    <3>1. outbox[k].job \in Jobs /\ outbox[k].job # j
      BY <1>2, <1>7 DEF Unconcerned
    <3>. QED  BY <1>1, <3>1 DEF RegisteredOnce
  <2>4. FreshJobs'
    BY <1>0, <1>1, <2>1 DEF FreshJobs, Fresh, Registers, MovesAlone
  <2>. QED  BY <1>6, <2>2, <2>3, <2>4
<1>8. CASE /\ TakesDecision /\ Decision.job = j
           /\ IsChoice(Decision) \/ (Decision.type = "REGISTER_JOB" /\ s = "waiting")
  <2>. DEFINE t == outbox'
  <2>1. /\ Decision = outbox[1] /\ 1 \in 1 .. Len(outbox) /\ Len(t) \in Nat
        /\ \A k \in 1 .. Len(t) : k + 1 \in 1 .. Len(outbox) /\ t[k] = outbox[k + 1]
    BY <1>8, Taken
  <2>2. \A k \in 1 .. Len(t) : k \in Nat /\ k >= 1
    BY <2>1
  <2>3. ChoicesAreReady'
    <3>. SUFFICES ASSUME NEW k \in 1 .. Len(t), IsChoice(t[k])
                  PROVE  \/ status'[t[k].job] = "waiting"
                         \/ /\ status'[t[k].job] = "future" /\ ~registered.acknowledged
                            /\ \E h \in 1 .. k - 1 : Registers(t[h], t[k].job)
      BY DEF ChoicesAreReady, IsChoice, Registers
    <3>1. /\ k + 1 \in 1 .. Len(outbox) /\ t[k] = outbox[k + 1] /\ t[k].job \in Jobs
      BY <1>2, <2>1
    <3>2. CASE t[k].job = j
      <4>1. ~IsChoice(Decision)
        <5>1. 1 # k + 1
          BY <2>2
        <5>. QED  BY <1>8, <2>1, <3>1, <3>2, <5>1 DEF InOnePlace, EachOnce
      <4>. QED  BY <1>1, <1>8, <3>1, <3>2, <4>1
    <3>3. CASE t[k].job # j
      <4>1. \/ status[t[k].job] = "waiting"
            \/ /\ status[t[k].job] = "future" /\ ~registered.acknowledged
               /\ \E h \in 1 .. (k + 1) - 1 : Registers(outbox[h], t[k].job)
        BY <3>1 DEF ChoicesAreReady
      <4>2. ASSUME NEW h \in 1 .. (k + 1) - 1, Registers(outbox[h], t[k].job)
            PROVE  \E i \in 1 .. k - 1 : Registers(t[i], t[k].job)
        <5>1. h # 1
          BY <1>8, <2>1, <3>3, <4>2 DEF Registers
        <5>2. h - 1 \in 1 .. k - 1 /\ h - 1 \in 1 .. Len(t) /\ (h - 1) + 1 = h
          BY <2>1, <2>2, <5>1
        <5>3. t[h - 1] = outbox[h]
          BY <2>1, <5>2
        <5>. QED  BY <4>2, <5>2, <5>3
      <4>. QED  BY <1>1, <3>1, <3>3, <4>1, <4>2
    <3>. QED  BY <3>2, <3>3
  <2>4. RegisteredOnce'
    <3>. SUFFICES ASSUME NEW k \in 1 .. Len(t), t[k].type = "REGISTER_JOB"
                  PROVE  /\ status'[t[k].job] = "future"
                         /\ \A h \in 1 .. Len(t) : Registers(t[h], t[k].job) => h = k
      BY DEF RegisteredOnce, Registers
    <3>1. /\ k + 1 \in 1 .. Len(outbox) /\ t[k] = outbox[k + 1] /\ t[k].job \in Jobs
          /\ k + 1 # 1
      BY <1>2, <2>1, <2>2
    <3>2. /\ status[t[k].job] = "future"
          /\ \A h \in 1 .. Len(outbox) : Registers(outbox[h], t[k].job) => h = k + 1
      BY <3>1 DEF RegisteredOnce
    <3>3. t[k].job # j
      <4>1. CASE Decision.type = "REGISTER_JOB"
        BY <1>8, <2>1, <3>1, <3>2, <4>1 DEF Registers
      <4>2. CASE IsChoice(Decision)
        <5>1. \A h : h \notin 1 .. 1 - 1
          OBVIOUS
        <5>2. status[j] = "waiting"
          BY <1>8, <2>1, <4>2, <5>1 DEF ChoicesAreReady
        <5>. QED  BY <3>2, <5>2
      <4>. QED  BY <1>8, <4>1, <4>2
    <3>4. ASSUME NEW h \in 1 .. Len(t), Registers(t[h], t[k].job)  PROVE h = k
      <4>1. h + 1 = k + 1
        BY <2>1, <3>2, <3>4
      <4>. QED  BY <2>2, <4>1
    <3>. QED  BY <1>1, <3>1, <3>2, <3>3, <3>4
  <2>5. FreshJobs'
    <3>1. ASSUME variant = "submitter", NEW i \in Jobs, Fresh(i)
          PROVE  status'[i] = "future" /\ \A k \in 1 .. Len(t) : ~Registers(t[k], i)
      <4>1. i # j
        BY <3>1 DEF MovesAlone
      <4>2. status[i] = "future" /\ \A k \in 1 .. Len(outbox) : ~Registers(outbox[k], i)
        BY <3>1 DEF FreshJobs
      <4>. QED  BY <1>1, <2>1, <4>1, <4>2
    <3>2. variant # "submitter" => \A k \in 1 .. Len(t) : t[k].type # "REGISTER_JOB"
      BY <2>1 DEF FreshJobs
    <3>. QED  BY <1>0, <3>1, <3>2 DEF FreshJobs, Fresh, Registers
  <2>. QED  BY <1>6, <2>3, <2>4, <2>5
<1>. QED  BY <1>7, <1>8 DEF MovesAlone, Registers


\* A job that has moved on is not waited for, nor is anything decided about it.
LEMMA Elsewhere ==
  ASSUME Types, JobsOnce, NEW j \in Jobs, status[j] # "waiting",
         status[j] = "future" => j \in Static
  PROVE  j \notin Waiters /\ Unconcerned(j) /\ (variant = "submitter" => ~Fresh(j))
<1>1. j \notin Waiters
  BY DEF JobsOnce, InOnePlace
<1>2. ASSUME NEW k \in 1 .. Len(outbox), outbox[k].type = "REGISTER_JOB"
      PROVE  outbox[k].job # j
  <2>1. outbox[k] \in Decisions
    BY ElementOfSeq DEF Types, SocketTypes
  <2>2. outbox[k].job \in Dynamic
    BY <1>2, <2>1 DEF Decisions
  <2>3. Static \cap Dynamic = {}
    BY RunLoopAssumption DEF Static, Dynamic
  <2>. QED  BY <1>2, <2>2, <2>3 DEF JobsOnce, RegisteredOnce
<1>3. ASSUME NEW k \in 1 .. Len(outbox), IsChoice(outbox[k]), outbox[k].job = j
      PROVE  FALSE
  <2>1. PICK h \in 1 .. k - 1 : Registers(outbox[h], j)
    BY <1>3 DEF JobsOnce, ChoicesAreReady
  <2>2. h \in 1 .. Len(outbox)
    <3>1. Len(outbox) \in Nat
      BY LenProperties DEF Types, SocketTypes
    <3>. QED  BY <3>1
  <2>. QED  BY <1>2, <2>1, <2>2 DEF Registers
<1>4. ASSUME variant = "submitter"  PROVE ~Fresh(j)
  <2>1. Static \cap Dynamic = {}
    BY RunLoopAssumption DEF Static, Dynamic
  <2>. QED  BY <1>4, <2>1 DEF JobsOnce, FreshJobs, Fresh
<1>. QED  BY <1>1, <1>2, <1>3, <1>4 DEF Unconcerned

\* No job moves.
LEMMA MovingNone ==
  ASSUME Types, JobsOnce, Quiet, NoJobMoves
  PROVE  JobsOnce'
<1>. USE DEF JobsOnce
<1>0. /\ UNCHANGED <<queue, recent, own, variant, status, placed>>
      /\ Released' = Released /\ Queued' = Queued /\ Announced' = Announced
      /\ (WaitingOnce' <=> WaitingOnce) /\ AnnouncedOnce'
      /\ registered'.acknowledged = registered.acknowledged
      /\ KeepsDecisions \/ (TakesDecision /\ ~IsChoice(Decision) /\ Decision.type # "REGISTER_JOB")
  BY DEF Quiet, schedVars, configVars, loopVars, algoVars, Released, Queued, WaitingOnce,
         NoJobMoves, NoJobNews, InOnePlace
<1>1. EachOnce(outbox)' /\ ChosenIn(outbox)' \subseteq ChosenIn(outbox)
  <2>1. CASE KeepsDecisions
    BY <2>1 DEF KeepsDecisions, InOnePlace, EachOnce, ChosenIn, IsChoice
  <2>2. CASE TakesDecision
    BY <2>2, TakenOnce DEF InOnePlace
  <2>. QED  BY <1>0, <2>1, <2>2
<1>2. InOnePlace'
  <2>1. Waiters' = Waiters
    BY <1>0 DEF Waiters
  <2>. QED  BY <1>0, <1>1, <2>1 DEF InOnePlace
<1>3. OnlyRunningPlaced'
  BY <1>0 DEF OnlyRunningPlaced
<1>4. CASE KeepsDecisions
  BY <1>0, <1>2, <1>3, <1>4
     DEF KeepsDecisions, ChoicesAreReady, RegisteredOnce, FreshJobs, Fresh, IsChoice, Registers
<1>5. CASE TakesDecision /\ ~IsChoice(Decision) /\ Decision.type # "REGISTER_JOB"
  <2>. DEFINE t == outbox'
  <2>1. /\ Decision = outbox[1] /\ 1 \in 1 .. Len(outbox) /\ Len(t) \in Nat
        /\ \A k \in 1 .. Len(t) : k + 1 \in 1 .. Len(outbox) /\ t[k] = outbox[k + 1]
    BY <1>5, Taken
  <2>2. \A k \in 1 .. Len(t) : k \in Nat /\ k >= 1
    BY <2>1
  <2>3. ChoicesAreReady'
    <3>. SUFFICES ASSUME NEW k \in 1 .. Len(t), IsChoice(t[k])
                  PROVE  \/ status[t[k].job] = "waiting"
                         \/ /\ status[t[k].job] = "future" /\ ~registered.acknowledged
                            /\ \E h \in 1 .. k - 1 : Registers(t[h], t[k].job)
      BY <1>0 DEF ChoicesAreReady, IsChoice, Registers
    <3>1. /\ k + 1 \in 1 .. Len(outbox) /\ t[k] = outbox[k + 1]
      BY <2>1
    <3>2. \/ status[t[k].job] = "waiting"
          \/ /\ status[t[k].job] = "future" /\ ~registered.acknowledged
             /\ \E h \in 1 .. (k + 1) - 1 : Registers(outbox[h], t[k].job)
      BY <3>1 DEF ChoicesAreReady
    <3>3. ASSUME NEW h \in 1 .. (k + 1) - 1, Registers(outbox[h], t[k].job)
          PROVE  \E i \in 1 .. k - 1 : Registers(t[i], t[k].job)
      <4>1. h # 1
        BY <1>5, <2>1, <3>3 DEF Registers
      <4>2. h - 1 \in 1 .. k - 1 /\ h - 1 \in 1 .. Len(t) /\ (h - 1) + 1 = h
        BY <2>1, <2>2, <4>1
      <4>3. t[h - 1] = outbox[h]
        BY <2>1, <4>2
      <4>. QED  BY <3>3, <4>2, <4>3
    <3>. QED  BY <3>2, <3>3
  <2>4. RegisteredOnce'
    <3>. SUFFICES ASSUME NEW k \in 1 .. Len(t), t[k].type = "REGISTER_JOB"
                  PROVE  /\ status[t[k].job] = "future"
                         /\ \A h \in 1 .. Len(t) : Registers(t[h], t[k].job) => h = k
      BY <1>0 DEF RegisteredOnce, Registers
    <3>1. k + 1 \in 1 .. Len(outbox) /\ t[k] = outbox[k + 1]
      BY <2>1
    <3>2. /\ status[t[k].job] = "future"
          /\ \A h \in 1 .. Len(outbox) : Registers(outbox[h], t[k].job) => h = k + 1
      BY <3>1 DEF RegisteredOnce
    <3>3. ASSUME NEW h \in 1 .. Len(t), Registers(t[h], t[k].job)  PROVE h = k
      <4>1. h + 1 = k + 1
        BY <2>1, <3>2, <3>3
      <4>. QED  BY <2>2, <4>1
    <3>. QED  BY <3>2, <3>3
  <2>5. FreshJobs'
    <3>1. ASSUME variant = "submitter", NEW i \in Jobs, Fresh(i)
          PROVE  status[i] = "future" /\ \A k \in 1 .. Len(t) : ~Registers(t[k], i)
      <4>1. status[i] = "future" /\ \A k \in 1 .. Len(outbox) : ~Registers(outbox[k], i)
        BY <3>1 DEF FreshJobs
      <4>. QED  BY <2>1, <4>1
    <3>2. variant # "submitter" => \A k \in 1 .. Len(t) : t[k].type # "REGISTER_JOB"
      BY <2>1 DEF FreshJobs
    <3>. QED  BY <1>0, <3>1, <3>2 DEF FreshJobs, Fresh, Registers
  <2>. QED  BY <1>2, <1>3, <2>3, <2>4, <2>5
<1>. QED  BY <1>0, <1>4, <1>5

\* What Batsim does.
LEMMA BatsimKeepsJobsOnce ==
  ASSUME Types, JobsOnce, BatsimActs
  PROVE  JobsOnce'
<1>. USE DEF BatsimActs
<1>0. /\ status \in [Jobs -> Statuses] /\ placed \in [Jobs -> SUBSET Machines]
      /\ OnlyRunningPlaced /\ AnnouncedOnce
  BY DEF Types, PlatformTypes, JobsOnce, InOnePlace
<1>1. ASSUME NEW j \in Jobs, Arrives(j)
      PROVE  JobsOnce'
  <2>1. j \notin Waiters /\ Unconcerned(j) /\ (variant = "submitter" => ~Fresh(j))
    BY <1>1, Elsewhere DEF Arrives
  <2>2. MovesAlone(j, "waiting")
    <3>1. j \notin ChosenIn(outbox)
      BY <2>1 DEF ChosenIn, Unconcerned
    <3>2. AnnouncedOnce'
      BY <1>0, <1>1, <2>1 DEF Arrives, Waiters
    <3>. QED  BY <1>1, <2>1, <3>1, <3>2 DEF MovesAlone, Arrives
  <2>3. OnlyRunningPlaced'
    BY <1>0, <1>1 DEF OnlyRunningPlaced, Arrives
  <2>4. UNCHANGED registered.acknowledged
    BY <1>1 DEF Arrives
  <2>. QED  BY <2>2, <2>3, <2>4, MovingAlone DEF JobsOnce
<1>2. ASSUME NEW j \in Jobs, IsAskedAbout(j)
      PROVE  JobsOnce'
  <2>1. j \notin Waiters /\ Unconcerned(j) /\ (variant = "submitter" => ~Fresh(j))
    BY <1>2, Elsewhere DEF IsAskedAbout
  <2>2. MovesAlone(j, "potential") /\ UNCHANGED registered.acknowledged
    BY <1>0, <1>2, <2>1 DEF MovesAlone, IsAskedAbout, NoJobNews
  <2>3. OnlyRunningPlaced'
    BY <1>0, <1>2 DEF OnlyRunningPlaced, IsAskedAbout
  <2>. QED  BY <2>2, <2>3, MovingAlone DEF JobsOnce
<1>3. ASSUME NEW j \in Jobs, Finishes(j)
      PROVE  JobsOnce'
  <2>1. j \notin Waiters /\ Unconcerned(j) /\ (variant = "submitter" => ~Fresh(j))
    BY <1>3, Elsewhere DEF Finishes
  <2>2. MovesAlone(j, "done") /\ UNCHANGED registered.acknowledged
    BY <1>0, <1>3, <2>1 DEF MovesAlone, Finishes
  <2>3. OnlyRunningPlaced'
    BY <1>0, <1>3 DEF OnlyRunningPlaced, Finishes
  <2>. QED  BY <2>2, <2>3, MovingAlone DEF JobsOnce
<1>4. ASSUME NEW j \in Jobs, Starts(j) \/ IsRejected(j)
      PROVE  JobsOnce'
  <2>1. TakesDecision /\ IsChoice(Decision) /\ Decision.job = j
    BY <1>4 DEF Starts, IsRejected, IsChoice
  <2>2. j \in ChosenIn(outbox)
    BY <2>1, TakenOnce DEF JobsOnce, InOnePlace
  <2>3. j \notin Waiters
    BY <2>2 DEF JobsOnce, InOnePlace
  <2>4. status[j] = "waiting"
    <3>1. Decision = outbox[1] /\ 1 \in 1 .. Len(outbox)
      BY <2>1, Taken
    <3>2. \A h : h \notin 1 .. 1 - 1
      OBVIOUS
    <3>. QED  BY <2>1, <3>1, <3>2 DEF JobsOnce, ChoicesAreReady
  <2>5. variant = "submitter" => ~Fresh(j)
    BY <2>4 DEF JobsOnce, FreshJobs
  <2>6. UNCHANGED registered.acknowledged /\ Announced' = Announced /\ AnnouncedOnce'
    BY <1>0, <1>4 DEF Starts, IsRejected, NoJobNews
  <2>7. MovesAlone(j, IF Decision.type = "EXECUTE_JOB" THEN "running" ELSE "rejected")
    BY <1>4, <2>1, <2>3, <2>5, <2>6 DEF MovesAlone, Starts, IsRejected
  <2>8. OnlyRunningPlaced'
    BY <1>0, <1>4, <2>4 DEF OnlyRunningPlaced, Starts, IsRejected
  <2>. QED  BY <2>6, <2>7, <2>8, MovingAlone DEF JobsOnce
<1>5. ASSUME NEW j \in Jobs, IsRegistered(j)
      PROVE  JobsOnce'
  <2>1. Decision = outbox[1] /\ 1 \in 1 .. Len(outbox) /\ Registers(Decision, j)
    BY <1>5, Taken DEF IsRegistered
  <2>2. status[j] = "future" /\ (variant = "submitter" => ~Fresh(j))
    BY <2>1 DEF JobsOnce, RegisteredOnce, FreshJobs, Registers
  <2>3. j \notin Waiters
    BY <2>2 DEF JobsOnce, InOnePlace
  <2>4. registered.acknowledged => j \notin ChosenIn(outbox)
    BY <2>2 DEF JobsOnce, ChoicesAreReady, ChosenIn
  <2>5. AnnouncedOnce'
    BY <1>0, <1>5, <2>3 DEF IsRegistered, Waiters
  <2>6. UNCHANGED registered.acknowledged
    BY <1>5 DEF IsRegistered, Types, Registry
  <2>7. MovesAlone(j, "waiting")
    BY <1>5, <2>1, <2>2, <2>3, <2>4, <2>5 DEF MovesAlone, IsRegistered
  <2>8. OnlyRunningPlaced'
    BY <1>0, <1>5, <2>2 DEF OnlyRunningPlaced, IsRegistered
  <2>. QED  BY <2>6, <2>7, <2>8, MovingAlone DEF JobsOnce
<1>6. CASE NoJobMoves
  BY <1>6, MovingNone
<1>. QED  BY <1>1, <1>2, <1>3, <1>4, <1>5, <1>6 DEF JobMoves


\* What make_decisions does, for the jobs to be in one place only: it chooses
\* among the jobs that wait and those it registers at the same time.
ChoosesWell(ds) == \A k \in 1 .. Len(ds) : IsChoice(ds[k]) =>
  \/ ds[k].job \in Released \cup Queued
  \/ /\ variant = "submitter" /\ Fresh(ds[k].job) /\ ~registered.acknowledged
     /\ \E h \in 1 .. k - 1 : Registers(ds[h], ds[k].job)
RegistersFresh(ds) == \A k \in 1 .. Len(ds) : ds[k].type = "REGISTER_JOB" =>
  /\ variant = "submitter" /\ Fresh(ds[k].job) /\ ~Fresh(ds[k].job)'
  /\ \A h \in 1 .. Len(ds) : Registers(ds[h], ds[k].job) => h = k
CountsOn == variant = "submitter" =>
  own'.acknowledged = own.acknowledged /\ \A j \in Jobs : Fresh(j)' => Fresh(j)

Writes(ds) ==
  /\ ds \in Seq(Decisions) /\ outbox' = outbox \o ds
  /\ EachOnce(ds) /\ ChoosesWell(ds) /\ RegistersFresh(ds) /\ CountsOn

Serves(ds) ==
  /\ Writes(ds)
  /\ OnePerJob(queue)' /\ Queued' \subseteq (Released \cup Queued) \ ChosenIn(ds)

\* Decisions are written.
LEMMA Written ==
  ASSUME Types, JobsOnce, UNCHANGED <<status, registered, variant>>,
         NEW ds, Writes(ds)
  PROVE  /\ EachOnce(outbox)' /\ ChosenIn(outbox)' = ChosenIn(outbox) \cup ChosenIn(ds)
         /\ ChoicesAreReady' /\ RegisteredOnce' /\ FreshJobs'
<1>1. PICK a, c : a = outbox /\ c = outbox'
  OBVIOUS
<1>2. a \in Seq(Decisions) /\ ds \in Seq(Decisions) /\ c = a \o ds
  BY <1>1 DEF Types, SocketTypes, Writes
<1>3. /\ Len(a) \in Nat /\ Len(ds) \in Nat
      /\ \A k \in 1 .. Len(a) : k \in 1 .. Len(c) /\ c[k] = a[k]
      /\ \A k \in 1 .. Len(ds) : Len(a) + k \in 1 .. Len(c) /\ c[Len(a) + k] = ds[k]
      /\ \A k \in 1 .. Len(c) : k \in 1 .. Len(a) \/ \E i \in 1 .. Len(ds) : k = Len(a) + i
  <2>1. Follows(c, a, ds)
    BY <1>2, ListsFollow
  <2>. QED  BY <2>1 DEF Follows
<1>. USE DEF JobsOnce, Writes
<1>4. /\ \A k \in 1 .. Len(a) : a[k] \in Decisions
      /\ \A k \in 1 .. Len(ds) : ds[k] \in Decisions
  BY <1>2, ElementOfSeq
<1>5. \A d \in Decisions : IsChoice(d) \/ d.type = "REGISTER_JOB" => d.job \in Jobs
  BY DEF Decisions, IsChoice, Jobs
<1>6. ASSUME NEW j \in Jobs, Fresh(j), variant = "submitter"
      PROVE  status[j] = "future" /\ \A k \in 1 .. Len(a) : ~Registers(a[k], j)
  BY <1>1, <1>6 DEF FreshJobs
<1>7. ChosenIn(ds) \cap ChosenIn(a) = {}
  <2>. SUFFICES ASSUME NEW k \in 1 .. Len(ds), IsChoice(ds[k]),
                       NEW h \in 1 .. Len(a), IsChoice(a[h]), a[h].job = ds[k].job
                PROVE  FALSE
    BY DEF ChosenIn
  <2>1. ds[k].job \in Jobs
    BY <1>4, <1>5
  <2>2. CASE ds[k].job \in Released \cup Queued
    <3>1. ds[k].job \in ChosenIn(a)
      BY <2>1 DEF ChosenIn
    <3>. QED  BY <1>1, <2>2, <3>1 DEF InOnePlace, Waiters
  <2>3. CASE variant = "submitter" /\ Fresh(ds[k].job)
    <3>1. status[a[h].job] = "waiting" \/ \E i \in 1 .. h - 1 : Registers(a[i], a[h].job)
      BY <1>1 DEF ChoicesAreReady
    <3>2. 1 .. h - 1 \subseteq 1 .. Len(a)
      BY <1>3
    <3>. QED  BY <1>6, <2>1, <2>3, <3>1, <3>2
  <2>. QED  BY <2>2, <2>3 DEF ChoosesWell
<1>8. EachOnce(c) /\ ChosenIn(c) = ChosenIn(a) \cup ChosenIn(ds)
  <2>1. EachOnce(a)
    BY <1>1 DEF InOnePlace
  <2>. QED  BY <1>2, <1>7, <2>1, JobsOfLists
<1>9. /\ EachOnce(outbox)' <=> EachOnce(c)
      /\ ChosenIn(outbox)' = ChosenIn(c)
  BY <1>1 DEF EachOnce, ChosenIn, IsChoice
<1>10. ChoicesAreReady'
  <2>. DEFINE Fine(s, k) == \/ status[s[k].job] = "waiting"
                            \/ /\ status[s[k].job] = "future" /\ ~registered.acknowledged
                               /\ \E h \in 1 .. k - 1 : Registers(s[h], s[k].job)
  <2>1. ASSUME NEW k \in 1 .. Len(a), IsChoice(a[k])
        PROVE  Fine(c, k)
    <3>1. Fine(a, k)
      BY <1>1, <2>1 DEF ChoicesAreReady
    <3>2. 1 .. k - 1 \subseteq 1 .. Len(a)
      BY <1>3
    <3>. QED  BY <1>3, <3>1, <3>2
  <2>2. ASSUME NEW i \in 1 .. Len(ds), IsChoice(ds[i])
        PROVE  Fine(c, Len(a) + i)
    <3>1. ds[i].job \in Jobs /\ c[Len(a) + i] = ds[i]
      BY <1>3, <1>4, <1>5, <2>2
    <3>2. CASE ds[i].job \in Released \cup Queued
      BY <3>1, <3>2 DEF InOnePlace, Waiters
    <3>3. ASSUME variant = "submitter", Fresh(ds[i].job), ~registered.acknowledged,
                 NEW h \in 1 .. i - 1, Registers(ds[h], ds[i].job)
          PROVE  Fine(c, Len(a) + i)
      <4>1. status[ds[i].job] = "future"
        BY <1>6, <3>1, <3>3
      <4>2. h \in 1 .. Len(ds) /\ Len(a) + h \in 1 .. (Len(a) + i) - 1
        BY <1>3
      <4>3. Registers(c[Len(a) + h], ds[i].job)
        BY <1>3, <3>3, <4>2
      <4>. QED  BY <3>1, <3>3, <4>1, <4>2, <4>3
    <3>. QED  BY <2>2, <3>2, <3>3 DEF ChoosesWell
  <2>. SUFFICES ASSUME NEW k \in 1 .. Len(c), IsChoice(c[k])
                PROVE  Fine(c, k)
    BY <1>1, SMTT(30) DEF ChoicesAreReady, IsChoice, Registers
  <2>. HIDE DEF Fine
  <2>. QED  BY <1>3, <2>1, <2>2
<1>11. RegisteredOnce'
  <2>. SUFFICES ASSUME NEW k \in 1 .. Len(c), c[k].type = "REGISTER_JOB"
                PROVE  /\ status[c[k].job] = "future"
                       /\ \A h \in 1 .. Len(c) : Registers(c[h], c[k].job) => h = k
    BY <1>1 DEF RegisteredOnce, Registers
  <2>1. ASSUME NEW i \in 1 .. Len(ds), ds[i].type = "REGISTER_JOB"
        PROVE  /\ ds[i].job \in Jobs /\ variant = "submitter" /\ Fresh(ds[i].job)
               /\ status[ds[i].job] = "future"
               /\ \A h \in 1 .. Len(a) : ~Registers(a[h], ds[i].job)
               /\ \A h \in 1 .. Len(ds) : Registers(ds[h], ds[i].job) => h = i
    BY <1>4, <1>5, <1>6, <2>1 DEF RegistersFresh
  <2>2. ASSUME NEW h \in 1 .. Len(a), a[h].type = "REGISTER_JOB"
        PROVE  /\ status[a[h].job] = "future"
               /\ \A g \in 1 .. Len(a) : Registers(a[g], a[h].job) => g = h
               /\ \A i \in 1 .. Len(ds) : ~Registers(ds[i], a[h].job)
    <3>1. ASSUME NEW i \in 1 .. Len(ds), Registers(ds[i], a[h].job)  PROVE FALSE
      <4>1. Registers(a[h], ds[i].job) /\ ds[i].type = "REGISTER_JOB"
        BY <2>2, <3>1 DEF Registers
      <4>. QED  BY <2>1, <4>1
    <3>. QED  BY <1>1, <2>2, <3>1 DEF RegisteredOnce
  <2>3. CASE k \in 1 .. Len(a)
    <3>1. c[k] = a[k]
      BY <1>3, <2>3
    <3>2. ASSUME NEW h \in 1 .. Len(c), Registers(c[h], a[k].job)  PROVE h = k
      <4>1. CASE h \in 1 .. Len(a)
        BY <1>3, <2>2, <2>3, <3>1, <3>2, <4>1
      <4>2. ASSUME NEW i \in 1 .. Len(ds), h = Len(a) + i  PROVE FALSE
        BY <1>3, <2>2, <2>3, <3>1, <3>2, <4>2
      <4>. QED  BY <1>3, <4>1, <4>2
    <3>. QED  BY <2>2, <2>3, <3>1, <3>2
  <2>4. ASSUME NEW i \in 1 .. Len(ds), k = Len(a) + i
        PROVE  /\ status[c[k].job] = "future"
               /\ \A h \in 1 .. Len(c) : Registers(c[h], c[k].job) => h = k
    <3>1. c[k] = ds[i] /\ ds[i].type = "REGISTER_JOB"
      BY <1>3, <2>4
    <3>2. ASSUME NEW h \in 1 .. Len(c), Registers(c[h], ds[i].job)  PROVE h = k
      <4>1. CASE h \in 1 .. Len(a)
        BY <1>3, <2>1, <3>1, <3>2, <4>1
      <4>2. ASSUME NEW g \in 1 .. Len(ds), h = Len(a) + g  PROVE h = k
        BY <1>3, <2>1, <2>4, <3>1, <3>2, <4>2
      <4>. QED  BY <1>3, <4>1, <4>2
    <3>. QED  BY <2>1, <3>1, <3>2
  <2>. QED  BY <1>3, <2>3, <2>4
<1>12. FreshJobs'
  <2>1. ASSUME variant # "submitter", NEW k \in 1 .. Len(c)  PROVE c[k].type # "REGISTER_JOB"
    <3>1. \A h \in 1 .. Len(a) : a[h].type # "REGISTER_JOB"
      BY <1>1, <2>1 DEF FreshJobs
    <3>. QED  BY <1>3, <2>1, <3>1 DEF RegistersFresh
  <2>2. ASSUME variant = "submitter", NEW j \in Jobs, Fresh(j)'
        PROVE  status[j] = "future" /\ \A k \in 1 .. Len(c) : ~Registers(c[k], j)
    <3>1. Fresh(j)
      BY <2>2 DEF CountsOn
    <3>2. ASSUME NEW i \in 1 .. Len(ds), Registers(ds[i], j)  PROVE FALSE
      BY <2>2, <3>2 DEF RegistersFresh, Registers
    <3>. QED  BY <1>3, <1>6, <2>2, <3>1, <3>2
  <2>3. variant = "submitter" => registered'.acknowledged = own'.acknowledged
    BY DEF FreshJobs, CountsOn
  <2>. QED  BY <1>1, <2>1, <2>2, <2>3 DEF FreshJobs, Registers
<1>. QED  BY <1>1, <1>8, <1>9, <1>10, <1>11, <1>12


\* Asides settle nothing.
LEMMA AsidesSettleNothing ==
  ASSUME NEW ds \in Seq(Asides)
  PROVE  Settles(ds, {}, {})
<1>1. Asides \subseteq Decisions
  BY DEF Asides
<1>2. ds \in Seq(Decisions) /\ \A k \in 1 .. Len(ds) : ds[k] \in Asides
  BY <1>1, LargerSet, ElementOfSeq
<1>3. \A k \in 1 .. Len(ds) : ~IsChoice(ds[k]) /\ ds[k].type # "REGISTER_JOB"
  BY <1>2 DEF Asides, IsChoice
<1>. QED  BY <1>2, <1>3, SimplySettle

\* A message is sent, or batsched has crashed.
LEMMA StandingKeepsJobsOnce ==
  ASSUME JobsOnce, Stands
  PROVE  JobsOnce'
<1>1. UNCHANGED <<status, placed, registered, inbox, handled, outbox, queue, recent, own, variant>>
  BY DEF Stands, batsimVars, jobVars, schedVars, configVars, loopVars, algoVars
<1>2. /\ Announced' = Announced /\ (AnnouncedOnce' <=> AnnouncedOnce)
      /\ Released' = Released /\ Queued' = Queued /\ (WaitingOnce' <=> WaitingOnce)
  BY <1>1 DEF Announced, ToTell, Untold, AnnouncedOnce, Released, Queued, WaitingOnce, TellsOf
<1>3. ChosenIn(outbox)' = ChosenIn(outbox) /\ (EachOnce(outbox)' <=> EachOnce(outbox))
  BY <1>1 DEF ChosenIn, EachOnce, IsChoice
<1>4. InOnePlace'
  BY <1>1, <1>2, <1>3 DEF JobsOnce, InOnePlace, Waiters
<1>5. ChoicesAreReady' /\ RegisteredOnce' /\ FreshJobs' /\ OnlyRunningPlaced'
  BY <1>1 DEF JobsOnce, ChoicesAreReady, RegisteredOnce, FreshJobs, OnlyRunningPlaced,
              IsChoice, Registers, Fresh
<1>. QED  BY <1>4, <1>5 DEF JobsOnce

\* An event is handled.
LEMMA HearingKeepsJobsOnce ==
  ASSUME Types, JobsOnce, Hears
  PROVE  JobsOnce'
<1>1. UNCHANGED <<status, placed, registered, variant, queue>>
  BY DEF Hears, Receives, batsimVars, jobVars, configVars
<1>2. PICK ds \in Seq(Asides) : outbox' = outbox \o ds
  <2>1. outbox \in Seq(Decisions) /\ <<>> \in Seq(Asides) /\ outbox \o <<>> = outbox
    BY DEF Types, SocketTypes
  <2>. QED  BY <2>1 DEF Hears, OutboxHeard
<1>3. /\ ds \in Seq(Decisions) /\ EachOnce(ds) /\ ChosenIn(ds) = {}
      /\ \A k \in 1 .. Len(ds) : ds[k].type # "REGISTER_JOB" /\ ~IsChoice(ds[k])
  <2>1. Settles(ds, {}, {})
    BY AsidesSettleNothing
  <2>2. \A k \in 1 .. Len(ds) : ds[k] \in Asides
    BY ElementOfSeq
  <2>. QED  BY <2>1, <2>2 DEF Settles, Asides, IsChoice
<1>4. Writes(ds)
  <2>1. CountsOn
    BY DEF Hears, OwnHeard, CountsOn, Fresh
  <2>. QED  BY <1>2, <1>3, <2>1 DEF Writes, ChoosesWell, RegistersFresh
<1>5. /\ EachOnce(outbox)' /\ ChosenIn(outbox)' = ChosenIn(outbox)
      /\ ChoicesAreReady' /\ RegisteredOnce' /\ FreshJobs'
  BY <1>1, <1>3, <1>4, Written
<1>6. OnlyRunningPlaced'
  BY <1>1 DEF JobsOnce, OnlyRunningPlaced
<1>7. InOnePlace'
  <2>1. Queued' = Queued /\ AnnouncedOnce' /\ AnnouncedOnce
    BY <1>1 DEF Queued, Hears, JobsOnce, InOnePlace
  <2>2. CASE UNCHANGED <<Announced, recent.released>>
    <3>1. Released' = Released
      BY <2>2 DEF Released
    <3>. QED  BY <1>1, <1>5, <2>1, <2>2, <3>1
              DEF JobsOnce, InOnePlace, WaitingOnce, Waiters
  <2>3. ASSUME NEW j \in Announced, Announced = Announced' \cup {j}, j \notin Announced',
               recent'.released = Append(recent.released, j)
        PROVE  InOnePlace'
    <3>1. /\ recent.released \in Seq(Jobs) /\ j \in Jobs
          /\ IsInjective(recent.released) /\ j \notin Released \cup Queued
      BY <2>3 DEF Types, LoopTypes, Accumulators, Announced, ToTell, JobsOnce, InOnePlace,
                  WaitingOnce
    <3>2. PICK r : r = recent.released
      OBVIOUS
    <3>3. ToSet(Append(r, j)) = ToSet(r) \cup {j} /\ IsInjective(Append(r, j))
      BY <3>1, <3>2, AppendToInjective DEF Released
    <3>4. Released' = Released \cup {j} /\ IsInjective(recent.released)'
      BY <2>3, <3>2, <3>3 DEF Released
    <3>5. Waiters' = Waiters
      BY <2>1, <2>3, <3>4 DEF Waiters
    <3>6. WaitingOnce'
      BY <1>1, <2>1, <3>1, <3>4 DEF WaitingOnce, JobsOnce, InOnePlace
    <3>. QED  BY <1>1, <1>5, <2>1, <2>3, <3>1, <3>4, <3>5, <3>6 DEF JobsOnce, InOnePlace
  <2>. QED  BY <2>1, <2>2, <2>3 DEF Hears, JobsHeard
<1>. QED  BY <1>5, <1>6, <1>7 DEF JobsOnce

\* make_decisions is skipped.
LEMMA SkippingKeepsJobsOnce ==
  ASSUME JobsOnce, SkipDecisions
  PROVE  JobsOnce'
<1>1. UNCHANGED <<status, placed, registered, variant, queue, recent, own, outbox>>
  BY DEF SkipDecisions, WriteReply, batsimVars, jobVars, configVars, algoVars
<1>2. Announced' = {} /\ AnnouncedOnce'
  BY NothingToTell DEF SkipDecisions
<1>3. Released' = Released /\ Queued' = Queued /\ (WaitingOnce' <=> WaitingOnce)
  BY <1>1 DEF Released, Queued, WaitingOnce
<1>4. ChosenIn(outbox)' = ChosenIn(outbox) /\ (EachOnce(outbox)' <=> EachOnce(outbox))
  BY <1>1 DEF ChosenIn, EachOnce, IsChoice
<1>5. InOnePlace'
  BY <1>1, <1>2, <1>3, <1>4 DEF JobsOnce, InOnePlace, Waiters
<1>6. ChoicesAreReady' /\ RegisteredOnce' /\ FreshJobs' /\ OnlyRunningPlaced'
  BY <1>1 DEF JobsOnce, ChoicesAreReady, RegisteredOnce, FreshJobs, OnlyRunningPlaced,
              IsChoice, Registers, Fresh
<1>. QED  BY <1>5, <1>6 DEF JobsOnce

\* make_decisions answers.
LEMMA ServingKeepsJobsOnce ==
  ASSUME Types, JobsOnce, WriteReply, recent' = NothingRecent, NEW ds, Serves(ds)
  PROVE  JobsOnce'
<1>1. UNCHANGED <<status, placed, registered, variant>>
  BY DEF WriteReply, batsimVars, jobVars, configVars
<1>2. Announced' = {} /\ AnnouncedOnce'
  BY NothingToTell
<1>3. Released' = {} /\ IsInjective(recent'.released)
  BY DEF NothingRecent, Released, ToSet, IsInjective
<1>4. /\ EachOnce(outbox)' /\ ChosenIn(outbox)' = ChosenIn(outbox) \cup ChosenIn(ds)
      /\ ChoicesAreReady' /\ RegisteredOnce' /\ FreshJobs'
  BY <1>1, Written DEF Serves
<1>5. OnlyRunningPlaced'
  BY <1>1 DEF JobsOnce, OnlyRunningPlaced
<1>6. /\ WaitingOnce' /\ Waiters' = Queued'
      /\ Queued' \subseteq Waiters /\ Queued' \cap ChosenIn(ds) = {}
  BY <1>2, <1>3 DEF Serves, WaitingOnce, Waiters
<1>7. InOnePlace'
  BY <1>1, <1>2, <1>3, <1>4, <1>6 DEF JobsOnce, InOnePlace
<1>. QED  BY <1>4, <1>5, <1>7 DEF JobsOnce


-------------------------------------------------------------------------------
(* What every algorithm decides.                                           *)

\* The jobs of S are started, the invalid ones rejected, the others wait.
Runs(ds, S) ==
  /\ outbox' = outbox \o ds /\ Settles(ds, S, Invalid)
  /\ S \subseteq Candidates
  /\ OnePerJob(queue)' /\ Queued' = Candidates \ S

\* Decisions that settle the fate of waiting jobs serve them.
LEMMA SettlingServes ==
  ASSUME CountsOn, NEW ds, NEW S, NEW R, Settles(ds, S, R), outbox' = outbox \o ds,
         S \cup R \subseteq Released \cup Queued, OnePerJob(queue)',
         Queued' \subseteq (Released \cup Queued) \ (S \cup R)
  PROVE  Serves(ds)
<1>1. /\ ds \in Seq(Decisions) /\ EachOnce(ds) /\ ChosenIn(ds) = S \cup R
      /\ \A k \in 1 .. Len(ds) : ds[k].type # "REGISTER_JOB"
  BY DEF Settles
<1>2. ChoosesWell(ds)
  <2>1. \A k \in 1 .. Len(ds) : IsChoice(ds[k]) => ds[k].job \in Jobs
    <3>1. \A k \in 1 .. Len(ds) : ds[k] \in Decisions
      BY <1>1, ElementOfSeq
    <3>. QED  BY <3>1 DEF Decisions, IsChoice
  <2>2. \A k \in 1 .. Len(ds) : IsChoice(ds[k]) => ds[k].job \in ChosenIn(ds)
    BY <2>1 DEF ChosenIn
  <2>. QED  BY <1>1, <2>2 DEF ChoosesWell
<1>3. RegistersFresh(ds)
  BY <1>1 DEF RegistersFresh
<1>. QED  BY <1>1, <1>2, <1>3 DEF Serves, Writes

\* Such a reply serves the waiting jobs.
LEMMA RunningServes ==
  ASSUME JobsOnce, CountsOn, NEW ds, NEW S, Runs(ds, S)
  PROVE  Serves(ds)
<1>1. Candidates \cap Invalid = {}
  BY DEF Candidates, Invalid, JobsOnce, InOnePlace, WaitingOnce
<1>2. S \cup Invalid \subseteq Released \cup Queued /\ Candidates \subseteq Released \cup Queued
  BY DEF Runs, Candidates, Invalid
<1>3. Queued' \subseteq (Released \cup Queued) \ (S \cup Invalid)
  BY <1>1, <1>2 DEF Runs
<1>. QED  BY <1>2, <1>3, SettlingServes DEF Runs

\* Lists of decisions after the rejections.
LEMMA AfterRejections ==
  ASSUME Types, Deciding, WaitingOnce,
         NEW a, NEW b, NEW S, NEW T, Settles(a, S, {}), Settles(b, T, {}),
         S \cap T = {}, S \cup T \subseteq Candidates
  PROVE  /\ Settles(Rejections(clock) \o a, S, Invalid)
         /\ Settles(Rejections(clock) \o a \o b, S \cup T, Invalid)
<1>1. Candidates \cap Invalid = {}
  BY DEF Candidates, Invalid, WaitingOnce
<1>2. PICK r : r = Rejections(clock)
  OBVIOUS
<1>3. Settles(r, {}, Invalid)
  BY <1>2, SortedOut
<1>4. Settles(r \o a, {} \cup S, Invalid \cup {})
  BY <1>1, <1>3, BothSettle
<1>5. {} \cup S = S /\ Invalid \cup {} = Invalid
  OBVIOUS
<1>6. Settles(r \o a, S, Invalid)
  BY <1>4, <1>5
<1>7. Settles(r \o a \o b, S \cup T, Invalid \cup {})
  BY <1>1, <1>6, BothSettle
<1>. QED  BY <1>2, <1>5, <1>6, <1>7

\* The first job of a queue is taken from it.
LEMMA FirstTaken ==
  ASSUME NEW J, NEW q \in Seq(Entries(J)), q # <<>>, OnePerJob(q)
  PROVE  /\ Head(q).job \in JobsOf(q) /\ Head(q).job \in J
         /\ OnePerJob(RemoveFromQueue(q, Head(q).job))
         /\ JobsOf(RemoveFromQueue(q, Head(q).job)) = JobsOf(q) \ {Head(q).job}
         /\ OnePerJob(Tail(q)) /\ JobsOf(Tail(q)) = JobsOf(q) \ {Head(q).job}
<1>1. /\ Len(q) \in Nat \ {0} /\ DOMAIN q = 1 .. Len(q) /\ Head(q) = q[1]
      /\ Tail(q) \in Seq(Entries(J)) /\ Len(Tail(q)) = Len(q) - 1
      /\ \A k \in 1 .. Len(q) - 1 : Tail(q)[k] = q[k + 1]
  BY LenProperties, EmptySeq, HeadTailProperties
<1>2. Head(q).job \in J /\ Head(q).job \in JobsOf(q)
  <2>1. q[1].job \in J
    BY <1>1, JobsByPosition
  <2>. QED  BY <1>1, <2>1, JobsByPosition
<1>3. PICK t : t = Tail(q)
  OBVIOUS
<1>4. /\ t \in Seq(Entries(J)) /\ DOMAIN t = 1 .. Len(t) /\ Len(t) = Len(q) - 1
      /\ \A k \in 1 .. Len(t) : t[k] = q[k + 1]
  BY <1>1, <1>3, LenProperties
<1>5. \A h, k \in 1 .. Len(q) : h # k => q[h].job # q[k].job
  BY <1>1 DEF OnePerJob
<1>6. OnePerJob(t)
  BY <1>1, <1>4, <1>5 DEF OnePerJob
<1>7. JobsOf(t) = JobsOf(q) \ {q[1].job}
  <2>1. \A x : x \in JobsOf(t) <=> \E k \in 1 .. Len(t) : x = q[k + 1].job
    BY <1>4, JobsByPosition
  <2>2. \A x : x \in JobsOf(q) <=> \E k \in 1 .. Len(q) : x = q[k].job
    BY JobsByPosition
  <2>3. \A k \in 1 .. Len(q) : k = 1 \/ \E h \in 1 .. Len(t) : k = h + 1
    <3>1. \A k \in 1 .. Len(q) : k # 1 => k - 1 \in 1 .. Len(t) /\ k = (k - 1) + 1
      BY <1>1, <1>4
    <3>. QED  BY <3>1
  <2>4. \A h \in 1 .. Len(t) : h + 1 \in 1 .. Len(q) /\ h + 1 # 1
    BY <1>1, <1>4
  <2>5. 1 \in 1 .. Len(q)
    BY <1>1
  <2>6. \A x : x \in JobsOf(t) => x \in JobsOf(q) /\ x # q[1].job
    BY <1>5, <2>1, <2>2, <2>4, <2>5
  <2>7. \A x : x \in JobsOf(q) /\ x # q[1].job => x \in JobsOf(t)
    BY <2>1, <2>2, <2>3
  <2>. QED  BY <2>6, <2>7
<1>. QED  BY <1>1, <1>2, <1>3, <1>6, <1>7, RemoveFromQueueElements


-------------------------------------------------------------------------------
(* What Batsim can be told to do.                                          *)

\* An execution gives a job its machines, those of the books if there are any;
\* only sleeper orders machines to sleep or to wake up.
ChecksAllocations == variant \in {"killer", "killer2", "filler", "submitter"}
LegalExecution(d) ==
  /\ d.machines # {}
  /\ variant \notin {"rejecter", "waiting_time_estimator"}
  /\ IF variant = "filler" THEN Cardinality(d.machines) <= size[d.job]
                           ELSE Cardinality(d.machines) = size[d.job]
  /\ ChecksAllocations => d.machines = allocations[d.job]
  /\ variant = "sleeper" => d.machines \subseteq own.computing
LegalSwitch(d) ==
  /\ variant \in {"sequencer_dvfs", "sleeper"}
  /\ variant = "sequencer_dvfs" => d.state # "asleep"
  /\ variant = "sleeper" => d.machines # {} /\ d.state # "slow"
Legal(d) ==
  /\ d.type = "EXECUTE_JOB" => LegalExecution(d)
  /\ d.type = "SET_RESOURCE_STATE" => LegalSwitch(d)
Lawful(ds) == \A k \in 1 .. Len(ds) : Legal(ds[k])'

\* Two lists, and lists of other decisions.
LEMMA BothLawful ==
  ASSUME NEW a \in Seq(Decisions), NEW b \in Seq(Decisions), Lawful(a), Lawful(b)
  PROVE  a \o b \in Seq(Decisions) /\ Lawful(a \o b)
<1>1. PICK c : c = a \o b
  OBVIOUS
<1>2. /\ c \in Seq(Decisions)
      /\ \A k \in 1 .. Len(a) : c[k] = a[k]
      /\ \A k \in 1 .. Len(b) : c[Len(a) + k] = b[k]
      /\ \A k \in 1 .. Len(c) : k \in 1 .. Len(a) \/ \E i \in 1 .. Len(b) : k = Len(a) + i
  BY <1>1, ConcatPositions
<1>3. Lawful(c)
  BY <1>2 DEF Lawful
<1>. QED  BY <1>1, <1>2, <1>3

\* Decisions that are neither executions nor orders.
LEMMA OthersLawful ==
  ASSUME NEW ds, \A k \in 1 .. Len(ds) : ds[k].type \notin {"EXECUTE_JOB", "SET_RESOURCE_STATE"}
  PROVE  Lawful(ds)
BY DEF Lawful, Legal

\* One decision.
LEMMA OneLawful ==
  ASSUME NEW d, Legal(d)'
  PROVE  Lawful(<<d>>)
<1>1. PICK c : c = <<d>>
  OBVIOUS
<1>2. Len(c) = 1 /\ c[1] = d
  BY <1>1
<1>3. \A k \in 1 .. Len(c) : c[k] = d
  BY <1>2
<1>4. Lawful(c)
  BY <1>3 DEF Lawful
<1>. QED  BY <1>1, <1>4

\* The rejections come first.
LEMMA RejectionsLawful ==
  ASSUME Types, Deciding
  PROVE  /\ Rejections(clock) \in Seq(Decisions) /\ Lawful(Rejections(clock))
         /\ \A k \in 1 .. Len(Rejections(clock)) : Rejections(clock)[k].type = "REJECT_JOB"
<1>1. Rejections(clock) \in Seq(Decisions)
  <2>1. OnTime(clock) \subseteq Decisions
    BY DEF OnTime
  <2>. QED  BY <2>1, WhenDeciding, LargerSet
<1>2. \A k \in 1 .. Len(Rejections(clock)) : Rejections(clock)[k].type = "REJECT_JOB"
  <2>1. PICK no : no = Selection(recent.released,
                         {k \in DOMAIN recent.released : ~IsValid(recent.released[k])})
    OBVIOUS
  <2>2. Rejections(clock) = [k \in DOMAIN no |-> RejectJob(no[k], clock)]
    BY <2>1 DEF Rejections
  <2>3. DOMAIN Rejections(clock) = 1 .. Len(Rejections(clock))
    BY <1>1, LenProperties
  <2>. QED  BY <2>2, <2>3 DEF RejectJob
<1>3. PICK r : r = Rejections(clock)
  OBVIOUS
<1>4. Lawful(r)
  BY <1>2, <1>3, OthersLawful
<1>. QED  BY <1>1, <1>2, <1>3, <1>4

\* A list of decisions of one type.
AllOfType(ds, type) == ds \in Seq(Decisions) /\ \A k \in 1 .. Len(ds) : ds[k].type = type

\* Lists that start and reject nothing.
LEMMA SideDecisions ==
  ASSUME NEW ds, NEW type, AllOfType(ds, type),
         type \notin {"EXECUTE_JOB", "REJECT_JOB", "REGISTER_JOB"}
  PROVE  Settles(ds, {}, {}) /\ (type # "SET_RESOURCE_STATE" => Lawful(ds))
<1>1. Settles(ds, {}, {})
  BY SimplySettle DEF AllOfType, IsChoice
<1>2. type # "SET_RESOURCE_STATE" => Lawful(ds)
  BY OthersLawful DEF AllOfType
<1>. QED  BY <1>1, <1>2

\* None at all.
LEMMA NoDecision == Settles(<<>>, {}, {}) /\ <<>> \in Seq(Decisions) /\ Lawful(<<>>)
<1>1. PICK c : c = <<>>
  OBVIOUS
<1>2. Len(c) = 0
  BY <1>1
<1>3. Lawful(c)
  BY <1>2, OthersLawful
<1>4. <<>> \in Seq(Decisions)
  OBVIOUS
<1>. QED  BY <1>1, <1>3, <1>4, SimplySettle

\* An execution.
LEMMA OneExecution ==
  ASSUME NEW j \in Jobs, NEW ms \in SUBSET Machines, NEW date \in Nat
  PROVE  /\ Settles(<<ExecuteJob(j, ms, date)>>, {j}, {})
         /\ <<ExecuteJob(j, ms, date)>> \in Seq(Decisions)
         /\ LegalExecution(ExecuteJob(j, ms, date))' => Lawful(<<ExecuteJob(j, ms, date)>>)
<1>1. Settles(<<ExecuteJob(j, ms, date)>>, {j}, {})
  BY SimplySettle
<1>2. PICK d : d = ExecuteJob(j, ms, date)
  OBVIOUS
<1>3. LegalExecution(d)' => Legal(d)'
  BY <1>2 DEF Legal, ExecuteJob
<1>. QED  BY <1>1, <1>2, <1>3, OneLawful DEF Settles


-------------------------------------------------------------------------------
(* killer and killer2.                                                     *)

\* Decisions that serve the jobs and that Batsim can follow.
Obeys(ds) == Serves(ds) /\ Lawful(ds) /\ recent' = NothingRecent

\* The jobs that start get free machines, each its own.
Allots(S) ==
  /\ \A j \in Jobs : allocations'[j] = IF j \in S THEN allocations'[j] ELSE WithoutEnded[j]
  /\ \A j \in S : allocations'[j] # {} /\ allocations'[j] \subseteq FreedMachines
  /\ \A i, j \in S : i # j => allocations'[i] \cap allocations'[j] = {}
  /\ available' = FreedMachines \ UNION {allocations'[j] : j \in S}

\* No job starts, or one does.
LEMMA AllotsNone ==
  ASSUME allocations' = WithoutEnded, available' = FreedMachines
  PROVE  Allots({})
BY DEF Allots

\* The machines of one job are given.
LEMMA AllotsOne ==
  ASSUME WithoutEnded \in [Jobs -> SUBSET Machines], NEW j \in Jobs, NEW ms,
         ms # {}, ms \subseteq FreedMachines, ms \in SUBSET Machines,
         allocations' = [WithoutEnded EXCEPT ![j] = ms],
         available' = FreedMachines \ ms
  PROVE  Allots({j}) /\ allocations'[j] = ms
BY DEF Allots

\* The decisions about the first job of the queue, or none but the rejections.
LEMMA KillerServes ==
  ASSUME Types, JobsOnce, KillerMakeDecisions
  PROVE  \E ds : Obeys(ds) /\ Allots(StartedIn(ds))
<1>0. variant = "killer" /\ Deciding /\ own' = own /\ UNCHANGED <<variant, size>>
  BY DEF KillerMakeDecisions, Reply, WriteReply, batsimVars, jobVars, configVars
<1>1. /\ SortedQueue \in Seq(Entries(Runnable))
      /\ FreedMachines \in SUBSET Machines
      /\ WithoutEnded \in [Jobs -> SUBSET Machines] /\ clock \in Nat
  BY <1>0, WhenDeciding DEF Types, PlatformTypes
<1>2. WaitingOnce
  BY DEF JobsOnce, InOnePlace
<1>3. OnePerJob(SortedQueue) /\ JobsOf(SortedQueue) = Candidates
  BY <1>0, <1>2, SortedOut
<1>4. CountsOn
  BY <1>0 DEF CountsOn
<1>. DEFINE first  == Head(SortedQueue).job
            alloc  == Fit(FreedMachines, size[first])
            starts == SortedQueue # <<>> /\ alloc # {}
<1>5. CASE starts
  <2>1. /\ first \in Candidates /\ first \in Runnable
        /\ OnePerJob(RemoveFromQueue(SortedQueue, first))
        /\ JobsOf(RemoveFromQueue(SortedQueue, first)) = Candidates \ {first}
    <3>1. PICK q, J : q = SortedQueue /\ J = Runnable
      OBVIOUS
    <3>. QED  BY <1>1, <1>3, <1>5, <3>1, FirstTaken
  <2>2. first \in Jobs /\ alloc \subseteq FreedMachines /\ Cardinality(alloc) = size[first]
    BY <1>1, <1>5, <2>1, SizeOfRunnable, FitAssumption
  <2>3. /\ available' = FreedMachines \ alloc
        /\ allocations' = [WithoutEnded EXCEPT ![first] = alloc]
        /\ queue' = RemoveFromQueue(SortedQueue, first)
        /\ Reply(Rejections(clock) \o <<ExecuteJob(first, alloc, clock)>>
                   \o PlannedKills(first, clock))
    BY <1>5 DEF KillerMakeDecisions
  <2>4. alloc # {}
    BY <1>5
  <2>5. PICK j, ms, x, y : /\ j = first /\ ms = alloc /\ x = <<ExecuteJob(first, alloc, clock)>>
                           /\ y = PlannedKills(first, clock)
    OBVIOUS
  <2>. HIDE DEF first, alloc
  <2>6. Allots({j}) /\ allocations'[j] = ms
    BY <1>1, <2>2, <2>3, <2>4, <2>5, AllotsOne
  <2>7. LegalExecution(ExecuteJob(j, ms, clock))'
    BY <1>0, <2>2, <2>4, <2>5, <2>6 DEF LegalExecution, ExecuteJob, Reply, WriteReply, batsimVars
  <2>8. Settles(x, {j}, {}) /\ x \in Seq(Decisions) /\ Lawful(x)
    <3>1. clock' = clock
      BY <2>3 DEF Reply, WriteReply, batsimVars
    <3>. QED  BY <1>1, <2>2, <2>5, <2>7, <3>1, OneExecution
  <2>9. AllOfType(y, "KILL_JOB")
    <3>1. y \in Seq(Decisions)
      BY <1>0, <2>2, <2>5, PlannedKillsInOrder
    <3>2. DOMAIN y = 1 .. Len(y)
      BY <3>1, LenProperties
    <3>. QED  BY <2>5, <3>1, <3>2 DEF AllOfType, PlannedKills, KillJob
  <2>10. Settles(y, {}, {}) /\ Lawful(y)
    BY <2>9, SideDecisions
  <2>11. PICK ds : ds = Rejections(clock) \o x \o y
    OBVIOUS
  <2>12. Settles(ds, {j}, Invalid)
    <3>1. {j} \cap {} = {} /\ {j} \cup {} = {j}
      OBVIOUS
    <3>. QED  BY <1>0, <1>2, <2>1, <2>5, <2>8, <2>10, <2>11, <3>1, AfterRejections
  <2>13. Lawful(ds)
    <3>1. PICK r : r = Rejections(clock)
      OBVIOUS
    <3>2. r \o x \in Seq(Decisions) /\ Lawful(r \o x)
      BY <1>0, <2>8, <3>1, RejectionsLawful, BothLawful
    <3>. QED  BY <2>9, <2>10, <2>11, <3>1, <3>2, BothLawful DEF AllOfType
  <2>14. Runs(ds, {j})
    BY <2>1, <2>3, <2>5, <2>11, <2>12 DEF Runs, Queued, Reply, Emit
  <2>15. Serves(ds)
    BY <1>4, <2>14, RunningServes
  <2>16. StartedIn(ds) = {j}
    BY <2>12 DEF Settles
  <2>17. recent' = NothingRecent
    BY <2>3 DEF Reply
  <2>. QED  BY <2>6, <2>13, <2>15, <2>16, <2>17 DEF Obeys
<1>6. CASE ~starts
  <2>1. /\ available' = FreedMachines
        /\ allocations' = WithoutEnded
        /\ queue' = SortedQueue
        /\ Reply(Rejections(clock))
    BY <1>6 DEF KillerMakeDecisions
  <2>2. PICK ds : ds = Rejections(clock)
    OBVIOUS
  <2>3. Settles(ds, {}, Invalid)
    BY <1>0, <1>2, <2>2, SortedOut
  <2>4. Runs(ds, {})
    BY <1>3, <2>1, <2>2, <2>3 DEF Runs, Queued, Reply, Emit
  <2>5. Serves(ds)
    BY <1>4, <2>4, RunningServes
  <2>6. Lawful(ds)
    BY <1>0, <2>2, RejectionsLawful
  <2>7. Allots(StartedIn(ds))
    BY <2>1, <2>3, AllotsNone DEF Settles
  <2>. QED  BY <2>1, <2>5, <2>6, <2>7 DEF Obeys, Reply
<1>. QED  BY <1>5, <1>6


\* Every machine is available or given to a job.
NoMachineLost == available \cup UNION {allocations[j] : j \in Jobs} = Machines

\* What killer2 decides: nothing but rejections; or the kill of the job that
\* occupies machines, if there is one, and then, for the date that goes with it,
\* the execution of another job on some of the machines.
Kills(d, j) == d.type = "KILL_JOB" /\ d.job = j
Waits(ds) ==
  /\ StartedIn(ds) = {} /\ \A k \in 1 .. Len(ds) : ds[k].type = "REJECT_JOB" /\ ds[k].date = clock
  /\ allocations' = WithoutEnded /\ available' = FreedMachines
Preempts(ds, first) ==
  /\ StartedIn(ds) = {first} /\ allocations'[first] # {}
  /\ \A j \in Jobs \ {first} : allocations'[j] = {}
  /\ available' = Machines \ allocations'[first]
  /\ Len(ds) > 0 /\ ds[Len(ds)].type = "EXECUTE_JOB" /\ ds[Len(ds)].date = ExecutionDate(clock)
  /\ \A k \in 1 .. Len(ds) - 1 : ds[k].type \in {"REJECT_JOB", "KILL_JOB"} /\ ds[k].date = clock
  /\ \A k \in 1 .. Len(ds) : ds[k].type = "KILL_JOB" => Occupying # {}
  /\ \A o \in Occupying : (\A j \in Occupying : j = o) =>
       \E k \in 1 .. Len(ds) : Kills(ds[k], o)

\* The kills come with an occupant, now, and one of them is for it if it is alone.
LEMMA PreemptKills ==
  ASSUME Types
  PROVE  /\ AllOfType(Preempt(clock), "KILL_JOB")
         /\ \A k \in 1 .. Len(Preempt(clock)) :
              Preempt(clock)[k].date = clock /\ Occupying # {}
         /\ \A o \in Occupying : (\A j \in Occupying : j = o) =>
              \E k \in 1 .. Len(Preempt(clock)) : Kills(Preempt(clock)[k], o)
<1>. DEFINE j == CHOOSE j \in Occupying : TRUE
            n == Cardinality(Occupying)
<1>1. n \in Nat /\ (Occupying = {} <=> n = 0) /\ clock \in Nat
  BY JobsFinite, FS_Subset, FS_CardinalityType, FS_EmptySet DEF Occupying, Types, PlatformTypes
<1>2. Occupying # {} => j \in Occupying /\ j \in Jobs
  BY DEF Occupying
<1>3. Preempt(clock) = [k \in 1 .. n |-> KillJob(j, clock)]
  BY DEF Preempt
<1>. HIDE DEF j, n
<1>4. \A k \in 1 .. n : Occupying # {} /\ KillJob(j, clock) \in Decisions
  <2>1. \A k \in 1 .. n : Occupying # {}
    BY <1>1
  <2>. QED  BY <1>1, <1>2, <2>1, DecisionTypes DEF OnTime
<1>5. PICK p : p = Preempt(clock)
  OBVIOUS
<1>6. p \in Seq(Decisions) /\ Len(p) = n /\ \A k \in 1 .. n : p[k] = KillJob(j, clock)
  <2>1. p \in Seq(Decisions)
    BY <1>1, <1>3, <1>4, <1>5
  <2>2. DOMAIN p = 1 .. n
    BY <1>3, <1>5
  <2>. QED  BY <1>1, <1>3, <1>5, <2>1, <2>2, LenProperties
<1>7. \A o \in Occupying : (\A i \in Occupying : i = o) => \E k \in 1 .. Len(p) : Kills(p[k], o)
  <2>. SUFFICES ASSUME NEW o \in Occupying, \A i \in Occupying : i = o
                PROVE  \E k \in 1 .. Len(p) : Kills(p[k], o)
    OBVIOUS
  <2>1. j = o /\ 1 \in 1 .. Len(p)
    BY <1>1, <1>2, <1>6
  <2>2. Kills(p[1], o)
    BY <1>6, <2>1 DEF Kills, KillJob
  <2>. QED  BY <2>1, <2>2
<1>8. \A k \in 1 .. Len(p) : p[k].type = "KILL_JOB" /\ p[k].date = clock /\ Occupying # {}
  BY <1>4, <1>6 DEF KillJob
<1>. QED  BY <1>5, <1>6, <1>7, <1>8 DEF AllOfType

\* killer2 reclaims every machine.
LEMMA Killer2Serves ==
  ASSUME Types, JobsOnce, NoMachineLost, Killer2MakeDecisions
  PROVE  \E ds : Obeys(ds) /\ (Waits(ds) \/ \E first \in Jobs : Preempts(ds, first))
<1>0. variant = "killer2" /\ Deciding /\ own' = own /\ UNCHANGED <<variant, size, clock>>
  BY DEF Killer2MakeDecisions, Reply, WriteReply, batsimVars, jobVars, configVars
<1>1. /\ SortedQueue \in Seq(Entries(Runnable)) /\ clock \in Nat
      /\ Rejections(clock) \in Seq(OnTime(clock))
      /\ FreedMachines \in SUBSET Machines
  BY <1>0, WhenDeciding DEF Types, PlatformTypes
<1>2. WaitingOnce
  BY DEF JobsOnce, InOnePlace
<1>3. OnePerJob(SortedQueue) /\ JobsOf(SortedQueue) = Candidates
  BY <1>0, <1>2, SortedOut
<1>4. CountsOn
  BY <1>0 DEF CountsOn
<1>5. /\ Rejections(clock) \in Seq(Decisions) /\ Lawful(Rejections(clock))
      /\ \A k \in 1 .. Len(Rejections(clock)) :
           Rejections(clock)[k].type = "REJECT_JOB" /\ Rejections(clock)[k].date = clock
  <2>1. \A k \in 1 .. Len(Rejections(clock)) : Rejections(clock)[k].date = clock
    <3>1. \A k \in 1 .. Len(Rejections(clock)) : Rejections(clock)[k] \in OnTime(clock)
      BY <1>1, ElementOfSeq
    <3>. QED  BY <3>1 DEF OnTime
  <2>. QED  BY <1>0, <2>1, RejectionsLawful
<1>. DEFINE first     == Head(SortedQueue).job
            reclaimed == FreedMachines \cup UNION {allocations[j] : j \in Occupying}
            alloc     == Fit(reclaimed, size[first])
<1>6. CASE SortedQueue # <<>>
  <2>1. /\ first \in Candidates /\ first \in Runnable
        /\ OnePerJob(RemoveFromQueue(SortedQueue, first))
        /\ JobsOf(RemoveFromQueue(SortedQueue, first)) = Candidates \ {first}
    <3>1. PICK q, J : q = SortedQueue /\ J = Runnable
      OBVIOUS
    <3>. QED  BY <1>1, <1>3, <1>6, <3>1, FirstTaken
  <2>2. reclaimed = Machines
    <3>1. \A j \in Jobs : allocations[j] \subseteq reclaimed
      <4>. SUFFICES ASSUME NEW j \in Jobs PROVE allocations[j] \subseteq reclaimed
        OBVIOUS
      <4>1. CASE j \in EndedJobs
        BY <4>1 DEF FreedMachines
      <4>2. CASE j \notin EndedJobs /\ allocations[j] # {}
        BY <4>2 DEF Occupying, WithoutEnded
      <4>. QED  BY <4>1, <4>2
    <3>2. available \subseteq reclaimed /\ reclaimed \subseteq Machines
      BY <1>1 DEF FreedMachines, Occupying, Types, AlgorithmTypes
    <3>. QED  BY <3>1, <3>2 DEF NoMachineLost
  <2>3. first \in Jobs /\ alloc \in SUBSET Machines /\ alloc # {} /\ Cardinality(alloc) = size[first]
    <3>1. first \in Jobs /\ size[first] \in 1 .. NbMachines
      BY <2>1, SizeOfRunnable
    <3>. HIDE DEF first, reclaimed
    <3>2. /\ Fit(Machines, size[first]) # {} /\ Fit(Machines, size[first]) \subseteq Machines
          /\ Cardinality(Fit(Machines, size[first])) = size[first]
      BY <3>1, FitAssumption
    <3>. QED  BY <2>2, <3>1, <3>2
  <2>4. /\ available' = Machines \ alloc
        /\ allocations' = [j \in Jobs |-> IF j = first THEN alloc ELSE {}]
        /\ queue' = RemoveFromQueue(SortedQueue, first)
        /\ Reply(Rejections(clock) \o Preempt(clock)
                   \o <<ExecuteJob(first, alloc, ExecutionDate(clock))>>)
    BY <1>6, <2>2 DEF Killer2MakeDecisions
  <2>5. PICK j, ms, date, x, y, r :
          /\ j = first /\ ms = alloc /\ date = ExecutionDate(clock) /\ x = Preempt(clock)
          /\ y = <<ExecuteJob(first, alloc, ExecutionDate(clock))>> /\ r = Rejections(clock)
    OBVIOUS
  <2>. HIDE DEF first, alloc
  <2>6. date \in Nat
    BY <1>1, <2>5, KillersAssumption DEF ExecutionDate
  <2>7. /\ allocations'[j] = ms /\ \A i \in Jobs \ {j} : allocations'[i] = {}
        /\ j \in Jobs /\ ms \in SUBSET Machines /\ ms # {} /\ Cardinality(ms) = size[j]
    BY <2>3, <2>4, <2>5
  <2>8. LegalExecution(ExecuteJob(j, ms, date))'
    BY <1>0, <2>7 DEF LegalExecution, ExecuteJob
  <2>9. y = <<ExecuteJob(j, ms, date)>> /\ Settles(y, {j}, {}) /\ y \in Seq(Decisions) /\ Lawful(y)
    BY <2>5, <2>6, <2>7, <2>8, OneExecution
  <2>10. /\ AllOfType(x, "KILL_JOB") /\ Settles(x, {}, {}) /\ Lawful(x) /\ x \in Seq(Decisions)
         /\ \A k \in 1 .. Len(x) : x[k].date = clock /\ Occupying # {}
         /\ \A o \in Occupying : (\A i \in Occupying : i = o) => \E k \in 1 .. Len(x) : Kills(x[k], o)
    <3>1. /\ AllOfType(x, "KILL_JOB")
          /\ \A k \in 1 .. Len(x) : x[k].date = clock /\ Occupying # {}
          /\ \A o \in Occupying : (\A i \in Occupying : i = o) => \E k \in 1 .. Len(x) : Kills(x[k], o)
      BY <2>5, PreemptKills
    <3>. QED  BY <3>1, SideDecisions DEF AllOfType
  <2>11. PICK z, ds : z = r \o x /\ ds = z \o y
    OBVIOUS
  <2>12. Settles(ds, {j}, Invalid)
    <3>1. {} \cap {j} = {} /\ {} \cup {j} = {j} /\ {j} \subseteq Candidates
      BY <2>1, <2>5
    <3>. QED  BY <1>0, <1>2, <2>5, <2>9, <2>10, <2>11, <3>1, AfterRejections
  <2>13. z \in Seq(Decisions) /\ Lawful(z) /\ Lawful(ds) /\ ds \in Seq(Decisions)
    <3>1. z \in Seq(Decisions) /\ Lawful(z)
      BY <1>5, <2>5, <2>10, <2>11, BothLawful
    <3>. QED  BY <2>9, <2>11, <3>1, BothLawful
  <2>14. Runs(ds, {j})
    BY <2>1, <2>4, <2>5, <2>11, <2>12 DEF Runs, Queued, Reply, Emit
  <2>15. Obeys(ds)
    BY <1>4, <2>4, <2>13, <2>14, RunningServes DEF Obeys, Reply
  <2>16. Preempts(ds, j)
    <3>1. r \in Seq(Decisions)
      BY <1>5, <2>5
    <3>2. /\ Len(z) \in Nat /\ Len(r) \in Nat /\ Len(x) \in Nat
          /\ \A k \in 1 .. Len(z) : \/ k \in 1 .. Len(r) /\ z[k] = r[k]
                                    \/ \E i \in 1 .. Len(x) : z[k] = x[i]
          /\ \A i \in 1 .. Len(x) : Len(r) + i \in 1 .. Len(z) /\ z[Len(r) + i] = x[i]
      <4>1. z \in Seq(Decisions) /\ Len(z) \in Nat
        BY <2>13, LenProperties
      <4>. QED  BY <2>10, <2>11, <3>1, <4>1, ConcatPositions
    <3>3. /\ Len(y) = 1 /\ y[1].type = "EXECUTE_JOB" /\ y[1].date = date
      BY <2>9 DEF ExecuteJob
    <3>4. /\ Len(ds) = Len(z) + 1 /\ ds[Len(z) + 1] = y[1]
          /\ \A k \in 1 .. Len(z) : ds[k] = z[k] /\ k \in 1 .. Len(ds)
      <4>1. /\ Len(ds) = Len(z) + Len(y)
            /\ \A k \in 1 .. Len(y) : ds[Len(z) + k] = y[k]
            /\ \A k \in 1 .. Len(z) : ds[k] = z[k] /\ k \in 1 .. Len(ds)
        BY <2>9, <2>11, <2>13, ConcatPositions
      <4>. QED  BY <3>3, <4>1
    <3>5. \A k \in 1 .. Len(z) : /\ z[k].type \in {"REJECT_JOB", "KILL_JOB"} /\ z[k].date = clock
                                 /\ z[k].type = "KILL_JOB" => Occupying # {}
      BY <1>5, <2>5, <2>10, <3>2 DEF AllOfType
    <3>6. \A o \in Occupying : (\A i \in Occupying : i = o) => \E k \in 1 .. Len(ds) : Kills(ds[k], o)
      <4>1. \A i \in 1 .. Len(x) : Len(r) + i \in 1 .. Len(ds) /\ ds[Len(r) + i] = x[i]
        BY <3>2, <3>4
      <4>. QED  BY <2>10, <4>1
    <3>7. /\ Len(ds) > 0 /\ ds[Len(ds)].type = "EXECUTE_JOB" /\ ds[Len(ds)].date = ExecutionDate(clock)
          /\ \A k \in 1 .. Len(ds) - 1 : k \in 1 .. Len(z)
          /\ \A k \in 1 .. Len(ds) : k \in 1 .. Len(z) \/ ds[k].type = "EXECUTE_JOB"
      <4>1. \A k \in 1 .. Len(ds) : k \in 1 .. Len(z) \/ k = Len(z) + 1
        BY <3>2, <3>4
      <4>. QED  BY <2>5, <3>2, <3>3, <3>4, <4>1
    <3>8. \A k \in 1 .. Len(ds) : ds[k].type = "KILL_JOB" => Occupying # {}
      BY <3>4, <3>5, <3>7
    <3>9. \A k \in 1 .. Len(ds) - 1 : ds[k].type \in {"REJECT_JOB", "KILL_JOB"} /\ ds[k].date = clock
      BY <3>4, <3>5, <3>7
    <3>10. StartedIn(ds) = {j} /\ available' = Machines \ allocations'[j]
      BY <2>4, <2>5, <2>7, <2>12 DEF Settles
    <3>. QED  BY <2>7, <3>6, <3>7, <3>8, <3>9, <3>10 DEF Preempts
  <2>. QED  BY <2>7, <2>15, <2>16
<1>7. CASE SortedQueue = <<>>
  <2>1. /\ available' = FreedMachines
        /\ allocations' = WithoutEnded
        /\ queue' = SortedQueue
        /\ Reply(Rejections(clock))
    BY <1>7 DEF Killer2MakeDecisions
  <2>2. PICK ds : ds = Rejections(clock)
    OBVIOUS
  <2>3. Settles(ds, {}, Invalid)
    BY <1>0, <1>2, <2>2, SortedOut
  <2>4. Runs(ds, {})
    BY <1>3, <2>1, <2>2, <2>3 DEF Runs, Queued, Reply, Emit
  <2>5. Obeys(ds)
    BY <1>4, <1>5, <2>1, <2>2, <2>4, RunningServes DEF Obeys, Reply
  <2>6. Waits(ds)
    BY <1>5, <2>1, <2>2, <2>3 DEF Waits, Settles
  <2>. QED  BY <2>5, <2>6
<1>. QED  BY <1>6, <1>7


-------------------------------------------------------------------------------
(* One job at a time: the sequencers and energy_watcher.                   *)

\* A job starts if the algorithm did not think itself busy, and then it does.
OneAtMost(ds, before, after) ==
  \/ StartedIn(ds) = {} /\ (after <=> before)
  \/ ~before /\ after /\ \E j \in Jobs : StartedIn(ds) = {j}

\* The leftmost machines are enough for a job that can run.
LEMMA Leftmost ==
  ASSUME Types, NEW j \in Runnable
  PROVE  /\ j \in Jobs /\ Left(Machines, size[j]) \in SUBSET Machines
         /\ Left(Machines, size[j]) # {} /\ Cardinality(Left(Machines, size[j])) = size[j]
<1>1. j \in Jobs /\ size[j] \in 1 .. NbMachines
  BY SizeOfRunnable
<1>2. Cardinality(Machines) = NbMachines
  <2>1. NbMachines - 1 \in Int /\ 0 \in Int /\ 0 <= NbMachines - 1
    BY RunLoopAssumption
  <2>2. Cardinality(0 .. NbMachines - 1) = (NbMachines - 1) - 0 + 1
    BY <2>1, FS_Interval
  <2>. QED  BY <2>2, RunLoopAssumption DEF Machines
<1>3. size[j] \in 0 .. Cardinality(Machines) /\ Machines \in SUBSET Machines
  BY <1>1, <1>2
<1>4. Left(Machines, size[j]) \subseteq Machines /\ Cardinality(Left(Machines, size[j])) = size[j]
  BY <1>3, LeftAssumption
<1>5. Cardinality({}) = 0
  BY FS_EmptySet
<1>. QED  BY <1>1, <1>4, <1>5

\* What they have in common: the first job of the queue, or none.
RunsFirst(q, j, a, x, ds) ==
  /\ q \in Seq(Entries(Runnable)) /\ OnePerJob(q) /\ JobsOf(q) = Candidates
  /\ q # <<>> /\ j = Head(q).job
  /\ x = <<ExecuteJob(j, Left(Machines, size[j]), clock)>>
  /\ Settles(a, {}, {}) /\ Lawful(a)
  /\ queue' \in {RemoveFromQueue(q, Head(q).job), Tail(q)}
  /\ ds \in {Rejections(clock) \o a \o x, Rejections(clock) \o x}
  /\ outbox' = outbox \o ds /\ recent' = NothingRecent

\* The first job starts.
LEMMA OneStarts ==
  ASSUME Types, Deciding, JobsOnce, CountsOn, UNCHANGED <<variant, size, clock>>,
         variant \notin {"rejecter", "waiting_time_estimator", "filler", "sleeper"},
         ~ChecksAllocations,
         NEW q, NEW j, NEW a, NEW x, NEW ds, RunsFirst(q, j, a, x, ds)
  PROVE  Obeys(ds) /\ StartedIn(ds) = {j} /\ j \in Jobs
<1>. WaitingOnce
  BY DEF JobsOnce, InOnePlace
<1>. USE DEF RunsFirst
<1>1. /\ j \in Candidates /\ j \in Runnable
      /\ OnePerJob(queue') /\ JobsOf(queue') = Candidates \ {j}
  <2>1. PICK J, i, rest : J = Runnable /\ i = Head(q).job /\ rest = RemoveFromQueue(q, i)
    OBVIOUS
  <2>2. /\ i \in JobsOf(q) /\ i \in J
        /\ OnePerJob(rest) /\ JobsOf(rest) = JobsOf(q) \ {i}
        /\ OnePerJob(Tail(q)) /\ JobsOf(Tail(q)) = JobsOf(q) \ {i}
    BY <2>1, FirstTaken
  <2>. QED  BY <2>1, <2>2
<1>2. PICK ms, date : ms = Left(Machines, size[j]) /\ date = clock
  OBVIOUS
<1>3. /\ j \in Jobs /\ ms \in SUBSET Machines /\ ms # {} /\ Cardinality(ms) = size[j] /\ date \in Nat
  BY <1>1, <1>2, Leftmost DEF Types, PlatformTypes
<1>4. LegalExecution(ExecuteJob(j, ms, date))'
  BY <1>3 DEF LegalExecution, ExecuteJob, ChecksAllocations
<1>5. Settles(x, {j}, {}) /\ x \in Seq(Decisions) /\ Lawful(x)
  BY <1>2, <1>3, <1>4, OneExecution
<1>6. PICK r : r = Rejections(clock)
  OBVIOUS
<1>7. r \in Seq(Decisions) /\ Lawful(r) /\ a \in Seq(Decisions)
  BY <1>6, RejectionsLawful DEF Settles
<1>8. Settles(ds, {j}, Invalid)
  <2>1. {} \cap {j} = {} /\ {} \cup {j} = {j} /\ {j} \cap {} = {} /\ {j} \cup {} = {j}
    OBVIOUS
  <2>2. Settles(<<>>, {}, {}) /\ {j} \subseteq Candidates
    BY <1>1, NoDecision
  <2>3. Settles(Rejections(clock) \o a \o x, {j}, Invalid)
    <3>1. {} \cap {j} = {} /\ {} \cup {j} \subseteq Candidates
      BY <2>2
    <3>2. Settles(Rejections(clock) \o a \o x, {} \cup {j}, Invalid)
      BY <1>5, <3>1, AfterRejections
    <3>. QED  BY <2>1, <3>2
  <2>4. Settles(Rejections(clock) \o x, {j}, Invalid)
    <3>1. {j} \cap {} = {} /\ {j} \cup {} \subseteq Candidates
      BY <2>2
    <3>. QED  BY <1>5, <2>2, <3>1, AfterRejections
  <2>. QED  BY <2>3, <2>4
<1>9. Lawful(ds)
  <2>1. r \o a \in Seq(Decisions) /\ Lawful(r \o a)
    BY <1>7, BothLawful
  <2>2. Lawful(r \o a \o x) /\ Lawful(r \o x)
    BY <1>5, <1>7, <2>1, BothLawful
  <2>. QED  BY <1>6, <2>2
<1>10. Runs(ds, {j})
  BY <1>1, <1>8 DEF Runs, Queued
<1>. QED  BY <1>3, <1>8, <1>9, <1>10, RunningServes DEF Obeys, Settles

\* No job starts; the others are rejected or wait.
LEMMA NoneStarts ==
  ASSUME Types, Deciding, JobsOnce, CountsOn, recent' = NothingRecent, clock' = clock,
         NEW q, OnePerJob(q), JobsOf(q) = Candidates, queue' = q,
         NEW a, Settles(a, {}, {}), Lawful(a),
         NEW ds, outbox' = outbox \o ds, ds \in {Rejections(clock) \o a, Rejections(clock)}
  PROVE  Obeys(ds) /\ StartedIn(ds) = {}
<1>1. WaitingOnce
  BY DEF JobsOnce, InOnePlace
<1>2. PICK r : r = Rejections(clock)
  OBVIOUS
<1>3. r \in Seq(Decisions) /\ Lawful(r) /\ a \in Seq(Decisions) /\ Settles(r, {}, Invalid)
  BY <1>1, <1>2, RejectionsLawful, SortedOut DEF Settles
<1>4. Settles(ds, {}, Invalid)
  <2>1. {} \cap {} = {} /\ {} \cup {} = {} /\ {} \subseteq Candidates
    OBVIOUS
  <2>2. Settles(Rejections(clock) \o a, {}, Invalid)
    BY <1>1, <2>1, NoDecision, AfterRejections
  <2>. QED  BY <1>2, <1>3, <2>2
<1>5. Lawful(ds)
  BY <1>2, <1>3, BothLawful
<1>6. Runs(ds, {})
  BY <1>4 DEF Runs, Queued
<1>. QED  BY <1>4, <1>5, <1>6, RunningServes DEF Obeys, Settles

\* sequencer, crasher and sequencer_dvfs.
Sequencing == variant \in {"sequencer", "crasher", "sequencer_dvfs"}

\* The three algorithms that run one job after another.
LEMMA SequencersServe ==
  ASSUME Types, JobsOnce, Deciding, Sequencing, NEW members, SequencerDecides(members),
         \A b \in BOOLEAN : [members EXCEPT !.running = b].running = b
  PROVE  \E ds : Obeys(ds) /\ OneAtMost(ds, StillRunning, own'.running)
<1>1. UNCHANGED <<variant, size, clock>> /\ own.running \in BOOLEAN
  BY DEF SequencerDecides, Reply, WriteReply, batsimVars, jobVars, configVars, Sequencing,
         Types, AlgorithmTypes, Members
<1>2. WaitingOnce
  BY DEF JobsOnce, InOnePlace
<1>3. SortedQueue \in Seq(Entries(Runnable)) /\ OnePerJob(SortedQueue) /\ JobsOf(SortedQueue) = Candidates
  BY <1>2, SortedOut
<1>4. /\ CountsOn /\ ~ChecksAllocations
      /\ variant \notin {"rejecter", "waiting_time_estimator", "filler", "sleeper"}
  BY DEF CountsOn, ChecksAllocations, Sequencing
<1>5. recent' = NothingRecent /\ own'.running = (StillRunning \/ StartsNext)
  BY <1>1 DEF SequencerDecides, Reply, StillRunning, StartsNext
<1>6. CASE StartsNext
  <2>. DEFINE x == <<ExecuteJob(NextJob, Left(Machines, size[NextJob]), clock)>>
  <2>1. /\ queue' = RemoveFromQueue(SortedQueue, Head(SortedQueue).job)
        /\ outbox' = outbox \o (Rejections(clock) \o x)
    BY <1>6 DEF SequencerDecides, Reply, Emit, NextJob
  <2>2. PICK q, j, ds, y : /\ q = SortedQueue /\ j = NextJob /\ ds = Rejections(clock) \o x
                           /\ y = x
    OBVIOUS
  <2>3. j = Head(q).job /\ y = <<ExecuteJob(j, Left(Machines, size[j]), clock)>> /\ q # <<>>
    BY <1>6, <2>2 DEF NextJob, StartsNext
  <2>. HIDE DEF x
  <2>4. Settles(<<>>, {}, {}) /\ Lawful(<<>>)
    BY NoDecision
  <2>5. Obeys(ds) /\ StartedIn(ds) = {j} /\ j \in Jobs
    <3>1. RunsFirst(q, j, <<>>, y, ds)
      BY <1>3, <1>5, <2>1, <2>2, <2>3, <2>4 DEF RunsFirst
    <3>. QED  BY <1>1, <1>4, <3>1, OneStarts
  <2>. QED  BY <1>5, <1>6, <2>5 DEF OneAtMost, StartsNext
<1>7. CASE ~StartsNext
  <2>1. queue' = SortedQueue /\ outbox' = outbox \o (Rejections(clock) \o <<>>)
    BY <1>7 DEF SequencerDecides, Reply, Emit
  <2>2. PICK q, ds : q = SortedQueue /\ ds = Rejections(clock) \o <<>>
    OBVIOUS
  <2>3. Obeys(ds) /\ StartedIn(ds) = {}
    BY <1>1, <1>3, <1>4, <1>5, <2>1, <2>2, NoDecision, NoneStarts
  <2>. QED  BY <1>5, <1>7, <2>3 DEF OneAtMost
<1>. QED  BY <1>6, <1>7


\* What each of the three adds to its members does not matter here.
LEMMA SequencerVariantsServe ==
  ASSUME Types, JobsOnce,
         \/ SequencerMakeDecisions
         \/ CrasherMakeDecisions /\ pc' # "crashed"
         \/ DVFSMakeDecisions
  PROVE  \E ds : Obeys(ds) /\ OneAtMost(ds, StillRunning, own'.running)
<1>1. CASE SequencerMakeDecisions
  <2>1. Sequencing /\ Deciding /\ SequencerDecides(own) /\ own \in [running : BOOLEAN]
    BY <1>1 DEF SequencerMakeDecisions, Sequencing, Types, AlgorithmTypes, Members
  <2>2. \A b \in BOOLEAN : [own EXCEPT !.running = b].running = b
    BY <2>1
  <2>. QED  BY <2>1, <2>2, SequencersServe
<1>2. CASE CrasherMakeDecisions /\ pc' # "crashed"
  <2>. DEFINE m == [own EXCEPT !.callNumber = @ + 1]
  <2>1. Sequencing /\ Deciding /\ SequencerDecides(m) /\ own \in Members("crasher")
    BY <1>2 DEF CrasherMakeDecisions, Sequencing, Types, AlgorithmTypes, Crash
  <2>2. \A b \in BOOLEAN : [m EXCEPT !.running = b].running = b
    BY <2>1 DEF Members
  <2>3. PICK members : members = m
    OBVIOUS
  <2>. HIDE DEF m
  <2>. QED  BY <2>1, <2>2, <2>3, SequencersServe
<1>3. CASE DVFSMakeDecisions
  <2>. DEFINE m == IF StartsNext THEN [own EXCEPT !.machines = Left(Machines, size[NextJob])]
                                 ELSE own
  <2>1. Sequencing /\ Deciding /\ SequencerDecides(m) /\ own \in Members("sequencer_dvfs")
    BY <1>3 DEF DVFSMakeDecisions, Sequencing, Types, AlgorithmTypes
  <2>2. \A b \in BOOLEAN : [m EXCEPT !.running = b].running = b
    BY <2>1 DEF Members
  <2>3. PICK members : members = m
    OBVIOUS
  <2>. HIDE DEF m
  <2>. QED  BY <2>1, <2>2, <2>3, SequencersServe
<1>. QED  BY <1>1, <1>2, <1>3

\* energy_watcher.
LEMMA WatcherServes ==
  ASSUME Types, JobsOnce, EnergyWatcherMakeDecisions
  PROVE  \E ds : Obeys(ds) /\ OneAtMost(ds, BusyAfterEnds, own'.busy)
<1>. DEFINE q    == QueueWithReleased
            runs == ~BusyAfterEnds /\ q # <<>>
            a    == EnergyQuery(clock)
<1>1. /\ variant = "energy_watcher" /\ Deciding /\ UNCHANGED <<variant, size, clock>>
      /\ own.busy \in BOOLEAN
  BY DEF EnergyWatcherMakeDecisions, Reply, WriteReply, batsimVars, jobVars, configVars,
         Types, AlgorithmTypes, Members
<1>2. q \in Seq(Entries(Runnable)) /\ OnePerJob(q) /\ JobsOf(q) = Candidates
  BY <1>1, SortedOut DEF JobsOnce, InOnePlace
<1>3. /\ CountsOn /\ ~ChecksAllocations
      /\ variant \notin {"rejecter", "waiting_time_estimator", "filler", "sleeper"}
  BY <1>1 DEF CountsOn, ChecksAllocations
<1>4. recent' = NothingRecent /\ own'.busy = (BusyAfterEnds \/ runs)
  BY DEF EnergyWatcherMakeDecisions, Reply
<1>5. Settles(a, {}, {}) /\ Lawful(a)
  <2>1. PICK b : b = a
    OBVIOUS
  <2>2. AllOfType(b, "QUERY")
    <3>1. clock \in Nat
      BY DEF Types, PlatformTypes
    <3>2. PICK d : d = QueryConsumedEnergy(clock)
      OBVIOUS
    <3>3. d \in Decisions /\ d.type = "QUERY"
      BY <3>1, <3>2, DecisionTypes DEF OnTime, QueryConsumedEnergy
    <3>4. b = <<>> \/ b = <<d>>
      BY <2>1, <3>2 DEF EnergyQuery
    <3>5. CASE b = <<>>
      BY <3>5 DEF AllOfType
    <3>6. CASE b = <<d>>
      <4>1. b \in Seq(Decisions) /\ Len(b) = 1 /\ b[1] = d
        BY <3>3, <3>6
      <4>. QED  BY <3>3, <4>1 DEF AllOfType
    <3>. QED  BY <3>4, <3>5, <3>6
  <2>. QED  BY <2>1, <2>2, SideDecisions
<1>. HIDE DEF a
<1>6. CASE runs
  <2>. DEFINE j == Head(q).job
              x == <<ExecuteJob(j, Left(Machines, size[j]), clock)>>
  <2>1. queue' = Tail(q) /\ outbox' = outbox \o (Rejections(clock) \o a \o x)
    BY <1>6 DEF EnergyWatcherMakeDecisions, Reply, Emit, a
  <2>2. PICK p, i, b, y, ds : p = q /\ i = j /\ b = a /\ y = x /\ ds = Rejections(clock) \o a \o x
    OBVIOUS
  <2>3. RunsFirst(p, i, b, y, ds)
    BY <1>2, <1>4, <1>5, <1>6, <2>1, <2>2 DEF RunsFirst
  <2>4. Obeys(ds) /\ StartedIn(ds) = {i} /\ i \in Jobs
    BY <1>1, <1>3, <2>3, OneStarts
  <2>. QED  BY <1>4, <1>6, <2>4 DEF OneAtMost
<1>7. CASE ~runs
  <2>1. queue' = q /\ outbox' = outbox \o (Rejections(clock) \o a \o <<>>)
    BY <1>7 DEF EnergyWatcherMakeDecisions, Reply, Emit, a
  <2>2. Rejections(clock) \o a \o <<>> = Rejections(clock) \o a
    <3>1. PICK r, b : r = Rejections(clock) /\ b = a
      OBVIOUS
    <3>2. r \in Seq(Decisions) /\ b \in Seq(Decisions)
      BY <1>1, <1>5, <3>1, RejectionsLawful DEF Settles
    <3>. QED  BY <3>1, <3>2
  <2>3. PICK p, b, ds : p = q /\ b = a /\ ds = Rejections(clock) \o a
    OBVIOUS
  <2>4. Obeys(ds) /\ StartedIn(ds) = {}
    BY <1>1, <1>2, <1>3, <1>4, <1>5, <2>1, <2>2, <2>3, NoneStarts
  <2>. QED  BY <1>4, <1>7, <2>4 DEF OneAtMost
<1>. QED  BY <1>6, <1>7


-------------------------------------------------------------------------------
(* sleeper.                                                                *)

\* The only order is that the machines ms, if any, move to the state p.
OrdersOnly(ds, ms, p) ==
  /\ \A k \in 1 .. Len(ds) : ds[k].type = "SET_RESOURCE_STATE" =>
       ds[k].machines = ms /\ ds[k].state = p /\ ms # {}
  /\ \A h, k \in 1 .. Len(ds) :
       ds[h].type = "SET_RESOURCE_STATE" /\ ds[k].type = "SET_RESOURCE_STATE" => h = k
  /\ ms # {} => \E k \in 1 .. Len(ds) : ds[k].type = "SET_RESOURCE_STATE"

\* A list of other decisions, with the order at its end.
LEMMA OrderLast ==
  ASSUME NEW a \in Seq(Decisions), \A k \in 1 .. Len(a) : a[k].type # "SET_RESOURCE_STATE",
         NEW ms \in SUBSET Machines, NEW p \in {"fast", "asleep"}, NEW date \in Nat,
         variant' = "sleeper",
         NEW b, b = IF ms = {} THEN <<>> ELSE <<SetResourceState(ms, p, date)>>
  PROVE  /\ Settles(b, {}, {}) /\ b \in Seq(Decisions) /\ Lawful(b)
         /\ OrdersOnly(a \o b, ms, p)
<1>1. PICK d : d = SetResourceState(ms, p, date)
  OBVIOUS
<1>2. /\ d \in Decisions /\ d.type = "SET_RESOURCE_STATE" /\ d.machines = ms /\ d.state = p
  BY <1>1, DecisionTypes DEF OnTime, SetResourceState, PStates
<1>3. PICK c : c = a \o b
  OBVIOUS
<1>4. CASE ms = {}
  <2>1. b = <<>> /\ c = a
    BY <1>3, <1>4
  <2>2. OrdersOnly(c, ms, p)
    BY <1>4, <2>1 DEF OrdersOnly
  <2>. QED  BY <1>3, <2>1, <2>2, NoDecision
<1>5. CASE ms # {}
  <2>1. b = <<d>> /\ b \in Seq(Decisions) /\ Len(b) = 1 /\ b[1] = d
    BY <1>1, <1>2, <1>5
  <2>2. AllOfType(b, "SET_RESOURCE_STATE")
    BY <1>2, <2>1 DEF AllOfType
  <2>3. Settles(b, {}, {})
    BY <2>2, SideDecisions
  <2>4. Legal(d)'
    BY <1>2, <1>5 DEF Legal, LegalSwitch
  <2>5. Lawful(b)
    BY <2>1, <2>4, OneLawful
  <2>6. /\ Len(c) = Len(a) + 1 /\ Len(a) \in Nat /\ c[Len(a) + 1] = d
        /\ \A k \in 1 .. Len(a) : c[k] = a[k]
    BY <1>2, <1>3, <2>1, OneMore, LenProperties
  <2>7. \A k \in 1 .. Len(c) : k \in 1 .. Len(a) \/ k = Len(a) + 1
    BY <2>6
  <2>8. \A k \in 1 .. Len(c) : c[k].type = "SET_RESOURCE_STATE" => k = Len(a) + 1
    BY <2>6, <2>7
  <2>9. Len(a) + 1 \in 1 .. Len(c)
    BY <2>6
  <2>10. OrdersOnly(c, ms, p)
    BY <1>2, <1>5, <2>6, <2>8, <2>9 DEF OrdersOnly
  <2>. QED  BY <1>3, <2>1, <2>3, <2>5, <2>10
<1>. QED  BY <1>4, <1>5

\* The available machines that get no job go to sleep.
Sedates(ds) ==
  LET s == SleeperUpdated IN
  \E alloc \in SUBSET s.avail : \E rest :
    /\ rest = s.avail \ alloc /\ OrdersOnly(ds, rest, "asleep")
    /\ available' = {} /\ own'.off = s.off \cup rest
    /\ own'.on = s.on /\ own'.asleep = s.asleep
    /\ \/ /\ StartedIn(ds) = {} /\ alloc = {}
          /\ own'.job = s.job /\ own'.computing = s.computing
       \/ /\ s.job = NullJob /\ own'.job # NullJob
          /\ StartedIn(ds) = {own'.job} /\ own'.computing = alloc

\* Sleeping machines are woken up, maybe none.
WakesUp(ds) ==
  LET s == SleeperUpdated IN
  \E woken \in SUBSET s.asleep :
    /\ OrdersOnly(ds, woken, "fast") /\ StartedIn(ds) = {}
    /\ available' = s.avail /\ own'.on = s.on \cup woken
    /\ own'.asleep = s.asleep \ woken /\ own'.off = s.off
    /\ own'.job = s.job /\ own'.computing = s.computing

\* sleeper starts its first job, puts machines to sleep or wakes some up.
LEMMA SleeperServes ==
  ASSUME Types, JobsOnce, SleeperMakeDecisions
  PROVE  \E ds : Obeys(ds) /\ (Sedates(ds) \/ WakesUp(ds))
<1>0. variant = "sleeper" /\ Deciding /\ UNCHANGED <<variant, size, clock>>
  <2>1. \E ds : Reply(ds)
    BY DEF SleeperMakeDecisions, RunFirst, WakeUpFor, SleepAll, StayQuiet
  <2>. QED  BY <2>1 DEF SleeperMakeDecisions, Reply, WriteReply, batsimVars, jobVars, configVars
<1>1. SortedQueue \in Seq(Entries(Runnable)) /\ clock \in Nat
  BY <1>0, WhenDeciding DEF Types, PlatformTypes
<1>2. WaitingOnce
  BY DEF JobsOnce, InOnePlace
<1>3. OnePerJob(SortedQueue) /\ JobsOf(SortedQueue) = Candidates
  BY <1>0, <1>2, SortedOut
<1>4. CountsOn /\ ~ChecksAllocations
  BY <1>0 DEF CountsOn, ChecksAllocations
<1>5. PICK r : r = Rejections(clock)
  OBVIOUS
<1>6. /\ r \in Seq(Decisions) /\ Lawful(r) /\ Settles(r, {}, Invalid)
      /\ \A k \in 1 .. Len(r) : r[k].type # "SET_RESOURCE_STATE"
  BY <1>0, <1>2, <1>5, RejectionsLawful, SortedOut
<1>. DEFINE q == SortedQueue
            s == SleeperUpdated
            j == Head(q).job
<1>7. s \in SleeperSets
  BY <1>0, SleeperUpdatedTypes
<1>8. s.avail \in SUBSET Machines /\ s.on \in SUBSET Machines /\ s.asleep \in SUBSET Machines
  BY <1>7 DEF SleeperSets
<1>9. \/ q # <<>> /\ s.job = NullJob /\ Cardinality(s.avail) >= size[j] /\ RunFirst(s, j)
      \/ q # <<>> /\ WakeUpFor(s, j)
      \/ SleepAll(s)
      \/ StayQuiet(s)
  BY DEF SleeperMakeDecisions
<1>10. q # <<>> => j \in Jobs /\ size[j] \in 1 .. NbMachines
  <2>1. q # <<>> => j \in Runnable
    BY <1>1, FirstOfQueue
  <2>. QED  BY <2>1, SizeOfRunnable
<1>. HIDE DEF s, j
<1>11. ASSUME NEW b, Settles(b, {}, {}), Lawful(b), NEW ds, ds = r \o b,
              queue' = SortedQueue, Reply(ds)
       PROVE  Obeys(ds) /\ StartedIn(ds) = {}
  <2>1. PICK p : p = SortedQueue
    OBVIOUS
  <2>2. recent' = NothingRecent /\ outbox' = outbox \o ds
    BY <1>11 DEF Reply, Emit
  <2>3. ds \in {Rejections(clock) \o b, Rejections(clock)}
    BY <1>5, <1>11
  <2>4. OnePerJob(p) /\ JobsOf(p) = Candidates /\ queue' = p
    BY <1>3, <1>11, <2>1
  <2>. QED  BY <1>0, <1>4, <1>11, <2>2, <2>3, <2>4, NoneStarts
<1>12. CASE q # <<>> /\ s.job = NullJob /\ Cardinality(s.avail) >= size[j] /\ RunFirst(s, j)
  <2>. DEFINE alloc == Left(s.avail, size[j])
              rest  == [s EXCEPT !.avail = @ \ alloc, !.computing = alloc, !.job = j]
  <2>1. alloc \in SUBSET s.avail /\ Cardinality(alloc) = size[j] /\ alloc # {}
    <3>1. Cardinality(s.avail) \in Nat
      BY <1>8, MachinesCounted
    <3>2. size[j] \in 0 .. Cardinality(s.avail) /\ size[j] # 0
      BY <1>10, <1>12, <3>1
    <3>3. Cardinality({}) = 0
      BY FS_EmptySet
    <3>. QED  BY <1>8, <3>2, <3>3, LeftAssumption
  <2>2. /\ SleeperBecomes(Sedated(rest))
        /\ queue' = RemoveFromQueue(q, j)
        /\ Reply(Rejections(clock) \o <<ExecuteJob(j, alloc, clock)>>
                   \o SedateOrder(rest, clock))
    BY <1>12 DEF RunFirst
  <2>. HIDE DEF alloc
  <2>3. /\ rest.avail = s.avail \ alloc /\ rest.computing = alloc /\ rest.job = j
        /\ rest.on = s.on /\ rest.off = s.off /\ rest.asleep = s.asleep
    BY <1>7 DEF SleeperSets
  <2>4. rest \in SleeperSets
    BY <1>7, <1>8, <1>10, <1>12, <2>1 DEF SleeperSets
  <2>. HIDE DEF rest
  <2>5. /\ available' = {} /\ own'.off = s.off \cup (s.avail \ alloc)
        /\ own'.on = s.on /\ own'.asleep = s.asleep /\ own'.job = j /\ own'.computing = alloc
    BY <2>2, <2>3, <2>4 DEF SleeperBecomes, Sedated, SleeperSets
  <2>6. PICK i, ms, idle, x, b, z, ds :
          /\ i = j /\ ms = alloc /\ idle = s.avail \ alloc
          /\ x = <<ExecuteJob(j, alloc, clock)>> /\ b = SedateOrder(rest, clock)
          /\ z = r \o x /\ ds = z \o b
    OBVIOUS
  <2>7. /\ i \in Jobs /\ ms \in SUBSET Machines /\ ms # {} /\ Cardinality(ms) = size[i]
        /\ own'.computing = ms /\ idle \in SUBSET Machines /\ i # NullJob
    BY <1>8, <1>10, <1>12, <2>1, <2>5, <2>6, RunLoopAssumption DEF Jobs, Static, Dynamic, NullJob
  <2>8. LegalExecution(ExecuteJob(i, ms, clock))'
    BY <1>0, <2>7 DEF LegalExecution, ExecuteJob, ChecksAllocations
  <2>9. Settles(x, {i}, {}) /\ x \in Seq(Decisions) /\ Lawful(x)
    BY <1>0, <1>1, <2>6, <2>7, <2>8, OneExecution
  <2>10. z \in Seq(Decisions) /\ Lawful(z) /\ \A k \in 1 .. Len(z) : z[k].type # "SET_RESOURCE_STATE"
    <3>1. Len(x) = 1 /\ x[1].type = "EXECUTE_JOB"
      BY <2>6 DEF ExecuteJob
    <3>2. z \in Seq(Decisions) /\ Lawful(z)
      BY <1>6, <2>6, <2>9, BothLawful
    <3>3. /\ \A k \in 1 .. Len(r) : z[k] = r[k]
          /\ \A k \in 1 .. Len(x) : z[Len(r) + k] = x[k]
          /\ \A k \in 1 .. Len(z) : k \in 1 .. Len(r) \/ \E h \in 1 .. Len(x) : k = Len(r) + h
      BY <1>6, <2>6, <2>9, ConcatPositions
    <3>4. \A h \in 1 .. Len(x) : x[h].type # "SET_RESOURCE_STATE"
      BY <3>1
    <3>. QED  BY <1>6, <3>2, <3>3, <3>4
  <2>11. b = IF idle = {} THEN <<>> ELSE <<SetResourceState(idle, "asleep", clock)>>
    BY <2>3, <2>6 DEF SedateOrder
  <2>12. Settles(b, {}, {}) /\ b \in Seq(Decisions) /\ Lawful(b) /\ OrdersOnly(ds, idle, "asleep")
    BY <1>0, <1>1, <2>6, <2>7, <2>10, <2>11, OrderLast
  <2>13. i \in Candidates /\ OnePerJob(queue') /\ JobsOf(queue') = Candidates \ {i}
    <3>1. PICK p, J : p = SortedQueue /\ J = Runnable
      OBVIOUS
    <3>2. i = Head(p).job /\ queue' = RemoveFromQueue(p, Head(p).job) /\ p # <<>>
      BY <1>12, <2>2, <2>6, <3>1 DEF j
    <3>. QED  BY <1>1, <1>3, <3>1, <3>2, FirstTaken
  <2>14. Settles(ds, {i}, Invalid)
    <3>1. {i} \cap {} = {} /\ {i} \cup {} = {i} /\ {i} \subseteq Candidates
      BY <2>13
    <3>2. Settles(Rejections(clock) \o x \o b, {i} \cup {}, Invalid)
      BY <1>0, <1>2, <2>9, <2>12, <3>1, AfterRejections
    <3>. QED  BY <1>5, <2>6, <3>1, <3>2
  <2>15. Runs(ds, {i})
    BY <1>5, <2>2, <2>6, <2>13, <2>14 DEF Runs, Queued, Reply, Emit
  <2>16. Obeys(ds)
    <3>1. Lawful(ds)
      BY <2>6, <2>10, <2>12, BothLawful
    <3>. QED  BY <1>4, <2>2, <2>15, <3>1, RunningServes DEF Obeys, Reply
  <2>17. Sedates(ds)
    <3>1. ms \in SUBSET s.avail /\ idle = s.avail \ ms /\ StartedIn(ds) = {own'.job}
      BY <2>1, <2>5, <2>6, <2>14 DEF Settles
    <3>2. own'.job # NullJob /\ own'.off = s.off \cup idle
      BY <2>5, <2>6, <2>7
    <3>3. s.job = NullJob
      BY <1>12
    <3>. QED  BY <2>5, <2>7, <2>12, <3>1, <3>2, <3>3 DEF Sedates, s
  <2>. QED  BY <2>16, <2>17
<1>13. CASE q # <<>> /\ WakeUpFor(s, j)
  <2>. DEFINE missing == size[j] - Cardinality(s.avail) - Cardinality(s.on)
              count   == Min({missing, Cardinality(s.asleep)})
              woken   == IF missing > 0 THEN Left(s.asleep, count) ELSE {}
              wakeUp  == IF woken = {} THEN <<>>
                                       ELSE <<SetResourceState(woken, "fast", clock)>>
              t == [s EXCEPT !.asleep = @ \ woken, !.on = @ \cup woken]
  <2>1. woken \in SUBSET s.asleep
    <3>1. /\ Cardinality(s.avail) \in Nat /\ Cardinality(s.on) \in Nat
          /\ Cardinality(s.asleep) \in Nat
      BY <1>8, MachinesCounted
    <3>2. missing \in Int
      BY <1>10, <1>13, <3>1
    <3>. HIDE DEF missing
    <3>3. missing > 0 => count \in 0 .. Cardinality(s.asleep)
      <4>1. count \in {missing, Cardinality(s.asleep)} /\ count <= Cardinality(s.asleep)
        <5>1. Cardinality(s.asleep) \in Int
          BY <3>1
        <5>. QED  BY <3>2, <5>1, SmallerOfTwo, Zenon
      <4>. HIDE DEF count
      <4>. QED  BY <3>1, <3>2, <4>1
    <3>. HIDE DEF count
    <3>. QED  BY <1>8, <3>3, LeftAssumption
  <2>2. SleeperBecomes(t) /\ queue' = SortedQueue /\ Reply(Rejections(clock) \o wakeUp)
    BY <1>13 DEF WakeUpFor
  <2>. HIDE DEF woken
  <2>3. /\ available' = s.avail /\ own'.on = s.on \cup woken
        /\ own'.asleep = s.asleep \ woken /\ own'.off = s.off
        /\ own'.job = s.job /\ own'.computing = s.computing
    BY <1>7, <2>2 DEF SleeperBecomes, SleeperSets
  <2>4. PICK ms, b, ds : ms = woken /\ b = wakeUp /\ ds = r \o b
    OBVIOUS
  <2>5. b = IF ms = {} THEN <<>> ELSE <<SetResourceState(ms, "fast", clock)>>
    BY <2>4
  <2>6. Settles(b, {}, {}) /\ Lawful(b) /\ OrdersOnly(ds, ms, "fast")
    BY <1>0, <1>1, <1>6, <1>8, <2>1, <2>4, <2>5, OrderLast
  <2>7. Obeys(ds) /\ StartedIn(ds) = {}
    BY <1>5, <1>11, <2>2, <2>4, <2>6
  <2>8. WakesUp(ds)
    BY <2>1, <2>3, <2>4, <2>6, <2>7 DEF WakesUp, s
  <2>. QED  BY <2>7, <2>8
<1>14. CASE SleepAll(s)
  <2>1. /\ SleeperBecomes(Sedated(s)) /\ queue' = SortedQueue
        /\ Reply(Rejections(clock) \o SedateOrder(s, clock))
    BY <1>14 DEF SleepAll
  <2>2. /\ available' = {} /\ own'.off = s.off \cup s.avail
        /\ own'.on = s.on /\ own'.asleep = s.asleep
        /\ own'.job = s.job /\ own'.computing = s.computing
    BY <1>7, <2>1 DEF SleeperBecomes, Sedated, SleeperSets
  <2>3. PICK ms, b, ds : ms = s.avail /\ b = SedateOrder(s, clock) /\ ds = r \o b
    OBVIOUS
  <2>4. b = IF ms = {} THEN <<>> ELSE <<SetResourceState(ms, "asleep", clock)>>
    BY <2>3 DEF SedateOrder
  <2>5. Settles(b, {}, {}) /\ Lawful(b) /\ OrdersOnly(ds, ms, "asleep")
    BY <1>0, <1>1, <1>6, <1>8, <2>3, <2>4, OrderLast
  <2>6. Obeys(ds) /\ StartedIn(ds) = {}
    BY <1>5, <1>11, <2>1, <2>3, <2>5
  <2>7. Sedates(ds)
    <3>1. {} \in SUBSET s.avail /\ ms = s.avail \ {}
      BY <2>3
    <3>. QED  BY <2>2, <2>3, <2>5, <2>6, <3>1 DEF Sedates, s
  <2>. QED  BY <2>6, <2>7
<1>15. CASE StayQuiet(s)
  <2>1. SleeperBecomes(s) /\ queue' = SortedQueue /\ Reply(Rejections(clock))
    BY <1>15 DEF StayQuiet
  <2>2. /\ available' = s.avail /\ own'.on = s.on \cup {} /\ own'.asleep = s.asleep \ {}
        /\ own'.off = s.off /\ own'.job = s.job /\ own'.computing = s.computing
    BY <1>7, <2>1 DEF SleeperBecomes, SleeperSets
  <2>3. PICK b, ds : b = <<>> /\ ds = r \o b
    OBVIOUS
  <2>4. ds = r
    BY <1>6, <2>3
  <2>5. Settles(b, {}, {}) /\ Lawful(b) /\ OrdersOnly(ds, {}, "fast")
    <3>1. {} \in SUBSET Machines /\ b = IF {} = {} THEN <<>> ELSE <<SetResourceState({}, "fast", clock)>>
      BY <2>3
    <3>. QED  BY <1>0, <1>1, <1>6, <2>3, <3>1, OrderLast
  <2>6. Obeys(ds) /\ StartedIn(ds) = {}
    BY <1>5, <1>11, <2>1, <2>3, <2>4, <2>5
  <2>7. WakesUp(ds)
    <3>1. {} \in SUBSET s.asleep
      OBVIOUS
    <3>. QED  BY <2>2, <2>5, <2>6, <3>1 DEF WakesUp, s
  <2>. QED  BY <2>6, <2>7
<1>. QED  BY <1>9, <1>12, <1>13, <1>14, <1>15


-------------------------------------------------------------------------------
(* rejecter, waiting_time_estimator and random.                            *)

\* All the released jobs are settled, the queue stays as it is.
LEMMA ReleasedSettled ==
  ASSUME JobsOnce, UNCHANGED algoVars, NEW ds, NEW S, NEW R, Settles(ds, S, R),
         S \cup R = Released, outbox' = outbox \o ds
  PROVE  Serves(ds)
<1>1. OnePerJob(queue)' /\ Queued' = Queued /\ own' = own
  BY DEF algoVars, JobsOnce, InOnePlace, WaitingOnce, Queued, OnePerJob
<1>2. Queued' \subseteq (Released \cup Queued) \ (S \cup R)
  BY <1>1 DEF JobsOnce, InOnePlace, WaitingOnce
<1>3. CountsOn
  BY <1>1 DEF CountsOn, Fresh
<1>. QED  BY <1>1, <1>2, <1>3, SettlingServes

\* The released jobs are distinct and were submitted.
LEMMA ReleasedList ==
  ASSUME Types, JobsOnce
  PROVE  /\ recent.released \in Seq(Jobs) /\ IsInjective(recent.released)
         /\ DOMAIN recent.released = 1 .. Len(recent.released)
         /\ Len(recent.released) \in Nat
         /\ \A k \in 1 .. Len(recent.released) :
              /\ recent.released[k] \in Jobs /\ recent.released[k] \in Released
              /\ size[recent.released[k]] > 0 /\ size[recent.released[k]] \in Nat
<1>1. recent.released \in Seq(Submitted) /\ recent.released \in Seq(Jobs)
  BY DEF Types, KnownJobs, LoopTypes, Accumulators
<1>2. /\ DOMAIN recent.released = 1 .. Len(recent.released) /\ Len(recent.released) \in Nat
      /\ \A k \in 1 .. Len(recent.released) : recent.released[k] \in Submitted
  BY <1>1, LenProperties, ElementOfSeq
<1>3. IsInjective(recent.released)
  BY DEF JobsOnce, InOnePlace, WaitingOnce
<1>4. \A k \in 1 .. Len(recent.released) : recent.released[k] \in Released
  BY <1>2 DEF Released, ToSet
<1>. QED  BY <1>1, <1>2, <1>3, <1>4 DEF Submitted, Known, Types, PlatformTypes

\* All of them are rejected.
LEMMA AllRejected ==
  ASSUME Types, JobsOnce
  PROVE  /\ Settles(RejectAll(clock), {}, Released) /\ Lawful(RejectAll(clock))
<1>1. PICK js, date, ds : js = recent.released /\ date = clock /\ ds = RejectAll(clock)
  OBVIOUS
<1>2. js \in Seq(Jobs) /\ IsInjective(js) /\ date \in Nat
  BY <1>1, ReleasedList DEF Types, PlatformTypes
<1>3. ds = [k \in DOMAIN js |-> RejectJob(js[k], date)]
  BY <1>1 DEF RejectAll
<1>4. Settles(ds, {}, ToSet(js))
  BY <1>2, <1>3, RejectionsSettle
<1>5. \A k \in 1 .. Len(ds) : ds[k].type = "REJECT_JOB"
  <2>1. DOMAIN ds = 1 .. Len(ds)
    BY <1>4, LenProperties DEF Settles
  <2>. QED  BY <1>3, <2>1 DEF RejectJob
<1>6. Lawful(ds)
  BY <1>5, OthersLawful
<1>. QED  BY <1>1, <1>4, <1>6 DEF Released

\* The algorithms that reject every job.
LEMMA RejectingServes ==
  ASSUME Types, JobsOnce, RejecterMakeDecisions \/ WaitingTimeEstimatorMakeDecisions
  PROVE  \E ds : Obeys(ds)
<1>1. CASE RejecterMakeDecisions
  <2>1. PICK ds : ds = RejectAll(clock)
    OBVIOUS
  <2>2. UNCHANGED algoVars /\ outbox' = outbox \o ds /\ recent' = NothingRecent
    BY <1>1, <2>1 DEF RejecterMakeDecisions, Stateless, Reply, Emit
  <2>3. Settles(ds, {}, Released) /\ Lawful(ds) /\ {} \cup Released = Released
    BY <2>1, AllRejected
  <2>4. Serves(ds)
    BY <2>2, <2>3, ReleasedSettled
  <2>. QED  BY <2>2, <2>3, <2>4 DEF Obeys
<1>2. CASE WaitingTimeEstimatorMakeDecisions
  <2>1. PICK b, a, ds : /\ b = RejectAll(clock) /\ ds = a \o b
                        /\ a = [k \in DOMAIN recent.queries |->
                                  AnswerEstimateWaitingTime(recent.queries[k], clock)]
    OBVIOUS
  <2>2. UNCHANGED algoVars /\ outbox' = outbox \o ds /\ recent' = NothingRecent
    BY <1>2, <2>1 DEF WaitingTimeEstimatorMakeDecisions, Stateless, Reply, Emit
  <2>3. Settles(b, {}, Released) /\ Lawful(b) /\ b \in Seq(Decisions)
    BY <2>1, AllRejected DEF Settles
  <2>4. AllOfType(a, "ANSWER")
    <3>1. recent.queries \in Seq(Jobs) /\ clock \in Nat
      BY DEF Types, LoopTypes, PlatformTypes, Accumulators
    <3>2. /\ DOMAIN recent.queries = 1 .. Len(recent.queries) /\ Len(recent.queries) \in Nat
          /\ \A k \in 1 .. Len(recent.queries) : recent.queries[k] \in Jobs
      BY <3>1, LenProperties, ElementOfSeq
    <3>3. \A k \in 1 .. Len(recent.queries) :
            AnswerEstimateWaitingTime(recent.queries[k], clock) \in Decisions
      BY <3>1, <3>2, DecisionTypes DEF OnTime
    <3>4. a \in Seq(Decisions)
      BY <2>1, <3>2, <3>3
    <3>5. DOMAIN a = 1 .. Len(a)
      BY <3>4, LenProperties
    <3>. QED  BY <2>1, <3>4, <3>5 DEF AllOfType, AnswerEstimateWaitingTime
  <2>5. Settles(a, {}, {}) /\ Lawful(a) /\ a \in Seq(Decisions)
    BY <2>4, SideDecisions DEF AllOfType
  <2>6. Settles(ds, {} \cup {}, {} \cup Released)
    <3>1. ({} \cup {}) \cap ({} \cup Released) = {}
      OBVIOUS
    <3>. QED  BY <2>1, <2>3, <2>5, <3>1, BothSettle
  <2>7. ({} \cup {}) \cup ({} \cup Released) = Released
    OBVIOUS
  <2>8. Serves(ds)
    BY <2>2, <2>6, <2>7, ReleasedSettled
  <2>9. Lawful(ds)
    BY <2>1, <2>3, <2>5, BothLawful
  <2>. QED  BY <2>2, <2>8, <2>9 DEF Obeys
<1>. QED  BY <1>1, <1>2

\* random starts a job on any machines, as many as it asks for.
LEMMA RandomServes ==
  ASSUME Types, JobsOnce, RandomMakeDecisions
  PROVE  \E ds : Obeys(ds)
<1>. DEFINE js == recent.released
            Choice(pick, k) == IF IsValid(js[k]) THEN ExecuteJob(js[k], pick[js[k]], clock)
                                                 ELSE RejectJob(js[k], clock)
<1>1. PICK pick \in [Jobs -> SUBSET Machines] :
        /\ \A j \in Jobs : IF j \in ToSet(js) /\ IsValid(j)
                             THEN Cardinality(pick[j]) = size[j] ELSE pick[j] = {}
        /\ Stateless([k \in DOMAIN js |-> LET j == js[k] IN
                        IF IsValid(j) THEN ExecuteJob(j, pick[j], clock)
                                      ELSE RejectJob(j, clock)])
  BY DEF RandomMakeDecisions
<1>2. variant = "random" /\ UNCHANGED <<variant, size, clock>> /\ clock \in Nat
  BY <1>1 DEF RandomMakeDecisions, Stateless, Reply, WriteReply, batsimVars, jobVars, configVars,
     Types, PlatformTypes
<1>3. PICK ds : ds = [k \in 1 .. Len(js) |-> Choice(pick, k)]
  OBVIOUS
<1>4. /\ DOMAIN js = 1 .. Len(js) /\ js \in Seq(Jobs) /\ IsInjective(js) /\ Len(js) \in Nat
      /\ \A k \in 1 .. Len(js) : js[k] \in Jobs /\ js[k] \in Released /\ size[js[k]] > 0
  BY ReleasedList
<1>5. UNCHANGED algoVars /\ outbox' = outbox \o ds /\ recent' = NothingRecent
  BY <1>1, <1>3, <1>4 DEF Stateless, Reply, Emit
<1>6. \A k \in 1 .. Len(js) : Choice(pick, k) \in Decisions
  BY <1>2, <1>4, DecisionTypes DEF OnTime
<1>7. ds \in Seq(Decisions) /\ Len(ds) = Len(js)
  <2>1. ds \in Seq(Decisions)
    <3>. HIDE DEF Choice, js
    <3>. QED  BY <1>3, <1>4, <1>6
  <2>2. DOMAIN ds = 1 .. Len(js)
    BY <1>3
  <2>. QED  BY <1>4, <2>1, <2>2, LenProperties
<1>8. \A k \in 1 .. Len(js) : IsChoice(ds[k]) /\ ds[k].job = js[k]
  BY <1>3 DEF IsChoice, ExecuteJob, RejectJob
<1>9. /\ EachOnce(ds) /\ ChosenIn(ds) = ToSet(js)
      /\ \A k \in 1 .. Len(ds) : ds[k].type # "REGISTER_JOB"
  <2>1. PICK l : l = js
    OBVIOUS
  <2>2. l \in Seq(Jobs) /\ IsInjective(l) /\ Len(ds) = Len(l)
        /\ \A k \in 1 .. Len(l) : IsChoice(ds[k]) /\ ds[k].job = l[k]
    BY <1>4, <1>7, <1>8, <2>1
  <2>. QED  BY <1>7, <2>1, <2>2, ChoiceForEach
<1>10. StartedIn(ds) \subseteq ChosenIn(ds)
  BY DEF StartedIn, ChosenIn, IsChoice
<1>11. PICK S, R : S = StartedIn(ds) /\ R = Released \ S
  OBVIOUS
<1>12. S \cup R = Released /\ Settles(ds, S, R)
  BY <1>7, <1>9, <1>10, <1>11 DEF Released, Settles
<1>13. Serves(ds)
  BY <1>5, <1>12, ReleasedSettled
<1>14. Lawful(ds)
  <2>. SUFFICES ASSUME NEW k \in 1 .. Len(ds) PROVE Legal(ds[k])'
    BY DEF Lawful
  <2>. DEFINE j == js[k]
  <2>1. j \in Jobs /\ j \in ToSet(js) /\ size[j] > 0 /\ size[j] \in Nat
    BY <1>4, <1>7, ReleasedList DEF Released
  <2>2. PICK i, ms, d : i = j /\ ms = pick[j] /\ d = ds[k]
    OBVIOUS
  <2>3. CASE IsValid(i)
    <3>1. Cardinality(ms) = size[i] /\ d = ExecuteJob(i, ms, clock) /\ size[i] > 0 /\ size[i] \in Nat
      BY <1>1, <1>3, <1>7, <2>1, <2>2, <2>3
    <3>2. ms # {}
      <4>1. Cardinality({}) = 0
        BY FS_EmptySet
      <4>2. Cardinality(ms) # 0
        BY <3>1
      <4>. QED  BY <4>1, <4>2
    <3>3. d.type = "EXECUTE_JOB" /\ d.machines = ms /\ d.job = i
      BY <3>1 DEF ExecuteJob
    <3>4. LegalExecution(d)'
      BY <1>2, <3>1, <3>2, <3>3 DEF LegalExecution, ChecksAllocations
    <3>. QED  BY <2>2, <3>3, <3>4 DEF Legal
  <2>4. CASE ~IsValid(i)
    <3>1. d = RejectJob(i, clock)
      BY <1>3, <1>7, <2>2, <2>4
    <3>. QED  BY <2>2, <3>1 DEF Legal, RejectJob
  <2>. QED  BY <2>3, <2>4
<1>. QED  BY <1>5, <1>13, <1>14 DEF Obeys


-------------------------------------------------------------------------------
(* filler.                                                                 *)

\* The jobs of the queue that fill has looked at, and those it has started.
Seen(k)      == {SortedQueue[i].job : i \in 1 .. k}
StartedBy(f) == {j \in Jobs : f.started[j] # {}}

\* What it has told Batsim.
FillTold(f) ==
  /\ Settles(f.decisions, StartedBy(f), {})
  /\ \A k \in 1 .. Len(f.decisions) :
       /\ f.decisions[k].type \in {"EXECUTE_JOB", "SET_JOB_METADATA"}
       /\ f.decisions[k].type = "EXECUTE_JOB" =>
            /\ f.decisions[k].machines = f.started[f.decisions[k].job]
            /\ f.decisions[k].machines # {}
            /\ Cardinality(f.decisions[k].machines) <= size[f.decisions[k].job]

\* The machines it has given; no job left in the queue can have what remains.
FillGave(f, usable) ==
  /\ \A j \in Jobs : f.started[j] \subseteq usable
  /\ \A i, j \in Jobs : i # j => f.started[i] \cap f.started[j] = {}
  /\ f.usable = usable \ UNION {f.started[j] : j \in Jobs}
FillLeft(f, k) ==
  /\ OnePerJob(f.queue) /\ JobsOf(f.queue) = Seen(k) \ StartedBy(f)
  /\ StartedBy(f) \subseteq Seen(k)
  /\ \A j \in JobsOf(f.queue) : Fit(f.usable, size[j]) = {}
FillIsSound(f, k, usable) == FillTold(f) /\ FillGave(f, usable) /\ FillLeft(f, k)

\* An entry at the end of a queue.
LEMMA OneMoreEntry ==
  ASSUME NEW J, NEW q \in Seq(Entries(J)), NEW e \in Entries(J), OnePerJob(q),
         e.job \notin JobsOf(q)
  PROVE  OnePerJob(Append(q, e)) /\ JobsOf(Append(q, e)) = JobsOf(q) \cup {e.job}
<1>1. PICK a : a = Append(q, e)
  OBVIOUS
<1>2. /\ a \in Seq(Entries(J)) /\ Len(a) = Len(q) + 1 /\ Len(q) \in Nat
      /\ \A k \in 1 .. Len(q) : a[k] = q[k]
      /\ a[Len(q) + 1] = e
  BY <1>1, OneMore, LenProperties
<1>3. \A k \in 1 .. Len(a) : k \in 1 .. Len(q) \/ k = Len(q) + 1
  BY <1>2
<1>4. \A x : x \in JobsOf(q) <=> \E k \in 1 .. Len(q) : x = q[k].job
  BY JobsByPosition
<1>5. \A x : x \in JobsOf(a) <=> \E k \in 1 .. Len(a) : x = a[k].job
  BY <1>2, JobsByPosition
<1>6. \A k \in 1 .. Len(q) : k \in 1 .. Len(a)
  BY <1>2
<1>7. Len(q) + 1 \in 1 .. Len(a)
  BY <1>2
<1>8. JobsOf(a) = JobsOf(q) \cup {e.job}
  <2>1. \A x : x \in JobsOf(a) => x \in JobsOf(q) \/ x = e.job
    BY <1>2, <1>3, <1>4, <1>5
  <2>2. \A x : x \in JobsOf(q) => x \in JobsOf(a)
    BY <1>2, <1>4, <1>5, <1>6
  <2>3. e.job \in JobsOf(a)
    BY <1>2, <1>5, <1>7
  <2>. QED  BY <2>1, <2>2, <2>3
<1>9. OnePerJob(a)
  <2>1. DOMAIN a = 1 .. Len(a) /\ DOMAIN q = 1 .. Len(q)
    BY <1>2, LenProperties
  <2>. SUFFICES ASSUME NEW h \in 1 .. Len(a), NEW k \in 1 .. Len(a), h # k
                PROVE  a[h].job # a[k].job
    BY <2>1 DEF OnePerJob
  <2>2. CASE h \in 1 .. Len(q) /\ k \in 1 .. Len(q)
    BY <1>2, <2>1, <2>2 DEF OnePerJob
  <2>3. CASE h \in 1 .. Len(q) /\ k = Len(q) + 1
    <3>1. a[h].job \in JobsOf(q) /\ a[k] = e
      BY <1>2, <1>4, <2>3
    <3>. QED  BY <3>1
  <2>4. CASE k \in 1 .. Len(q) /\ h = Len(q) + 1
    <3>1. a[k].job \in JobsOf(q) /\ a[h] = e
      BY <1>2, <1>4, <2>4
    <3>. QED  BY <3>1
  <2>. QED  BY <1>3, <2>2, <2>3, <2>4
<1>. QED  BY <1>1, <1>8, <1>9

\* A job is given at least one machine, and no more than it asks for.
LEMMA FillGives ==
  ASSUME Types, variant = "filler", NEW j \in Runnable, NEW usable \in SUBSET Machines,
         NEW found, found = Fit(usable, size[j]), found # {}
  PROVE  /\ Left(found, MachinesToAllocate(j)) # {}
         /\ Left(found, MachinesToAllocate(j)) \subseteq usable
         /\ Cardinality(Left(found, MachinesToAllocate(j))) <= size[j]
<1>1. j \in Jobs /\ size[j] \in 1 .. NbMachines
  BY SizeOfRunnable
<1>2. found \in SUBSET usable /\ found \in SUBSET Machines /\ Cardinality(found) = size[j]
  BY <1>1, FitAssumption
<1>3. PICK n : n = MachinesToAllocate(j)
  OBVIOUS
<1>4. n \in 1 .. size[j]
  <2>1. n \in 0 .. size[j]
    BY <1>1, <1>3, PartOfMachines
  <2>2. own.fraction \in 1 .. 100
    BY DEF Types, AlgorithmTypes, Members
  <2>3. \A f \in 1 .. 100 : \A m \in Nat \ {0} : f * m \in Nat \ {0}
    OBVIOUS
  <2>4. PICK x : x = own.fraction * size[j]
    OBVIOUS
  <2>5. x \in Nat \ {0} /\ n = (x + 99) \div 100
    BY <1>1, <1>3, <2>2, <2>3, <2>4 DEF MachinesToAllocate
  <2>6. n >= 1
    BY <2>5
  <2>. QED  BY <2>1, <2>6
<1>5. n \in 0 .. Cardinality(found)
  BY <1>1, <1>2, <1>4
<1>6. Left(found, n) \subseteq found /\ Cardinality(Left(found, n)) = n
  BY <1>2, <1>5, LeftAssumption
<1>7. Cardinality({}) = 0
  BY FS_EmptySet
<1>. QED  BY <1>1, <1>2, <1>3, <1>4, <1>6, <1>7


\* An element of two lists is in either of them.
FromEither(c, a, b) == \A i \in 1 .. Len(c) : \/ \E h \in 1 .. Len(a) : c[i] = a[h]
                                             \/ \E h \in 1 .. Len(b) : c[i] = b[h]

\* Two lists that are joined.
LEMMA EitherElement ==
  ASSUME NEW a \in Seq(Decisions), NEW b \in Seq(Decisions)
  PROVE  a \o b \in Seq(Decisions) /\ FromEither(a \o b, a, b)
<1>1. PICK c : c = a \o b
  OBVIOUS
<1>2. c \in Seq(Decisions) /\ Follows(c, a, b)
  BY <1>1, ListsFollow
<1>3. FromEither(c, a, b)
  BY <1>2 DEF Follows, FromEither
<1>. QED  BY <1>1, <1>2, <1>3

\* One job of the queue.
LEMMA FillOneSound ==
  ASSUME Types, Deciding, WaitingOnce, variant = "filler", NEW usable \in SUBSET Machines,
         NEW k \in 1 .. Len(SortedQueue), NEW f \in Filling, FillIsSound(f, k - 1, usable)
  PROVE  FillIsSound(FillOne(f, SortedQueue[k]), k, usable)
<1>1. /\ SortedQueue \in Seq(Entries(Runnable)) /\ OnePerJob(SortedQueue)
      /\ Len(SortedQueue) \in Nat /\ DOMAIN SortedQueue = 1 .. Len(SortedQueue)
  BY SortedOut, LenProperties
<1>2. PICK e, j : e = SortedQueue[k] /\ j = e.job
  OBVIOUS
<1>3. e \in Entries(Runnable) /\ j \in Runnable /\ j \in Jobs
  <2>1. e \in Entries(Runnable)
    BY <1>1, <1>2, ElementOfSeq
  <2>2. j \in Runnable
    BY <1>2, <2>1 DEF Entries
  <2>. QED  BY <2>1, <2>2 DEF Runnable
<1>4. size[j] \in 1 .. NbMachines /\ clock \in Nat
  BY <1>3, SizeOfRunnable DEF Types, PlatformTypes
<1>5. Seen(k) = Seen(k - 1) \cup {j} /\ j \notin Seen(k - 1)
  <2>1. \A i \in 1 .. k : i \in 1 .. k - 1 \/ i = k
    BY <1>1
  <2>2. k \in 1 .. k /\ \A i \in 1 .. k - 1 : i \in 1 .. k /\ i # k /\ i \in 1 .. Len(SortedQueue)
    BY <1>1
  <2>3. \A i \in 1 .. k - 1 : SortedQueue[i].job # j
    BY <1>1, <1>2, <2>2 DEF OnePerJob
  <2>. QED  BY <1>2, <2>1, <2>2, <2>3 DEF Seen
<1>6. /\ f.usable \in SUBSET Machines /\ f.queue \in Seq(Entries(Runnable))
      /\ f.started \in [Jobs -> SUBSET Machines] /\ f.decisions \in Seq(OnTime(clock))
  BY DEF Filling
<1>7. j \notin StartedBy(f) /\ j \notin JobsOf(f.queue)
  BY <1>5 DEF FillIsSound, FillLeft
<1>8. f.started[j] = {}
  BY <1>3, <1>7 DEF StartedBy
<1>. DEFINE found == Fit(f.usable, size[j])
            alloc == Left(found, MachinesToAllocate(j))
<1>9. CASE f.usable = {} \/ found = {}
  <2>1. PICK g, q : g = FillOne(f, e) /\ q = Append(f.queue, e)
    OBVIOUS
  <2>2. g = [f EXCEPT !.queue = Append(f.queue, e)]
    BY <1>2, <1>9, <2>1 DEF FillOne
  <2>3. /\ g.queue = q /\ g.started = f.started /\ g.usable = f.usable
        /\ g.decisions = f.decisions
    BY <2>1, <2>2 DEF Filling
  <2>4. found = {}
    <3>1. found \subseteq f.usable
      BY <1>3, <1>6, SizeOfRunnable
    <3>. QED  BY <1>9, <3>1
  <2>5. StartedBy(g) = StartedBy(f)
    BY <2>3 DEF StartedBy
  <2>6. OnePerJob(q) /\ JobsOf(q) = JobsOf(f.queue) \cup {j}
    <3>1. PICK fq, J : fq = f.queue /\ J = Runnable
      OBVIOUS
    <3>2. fq \in Seq(Entries(J)) /\ e \in Entries(J) /\ OnePerJob(fq) /\ e.job \notin JobsOf(fq)
      BY <1>2, <1>3, <1>6, <1>7, <3>1 DEF FillIsSound, FillLeft
    <3>. QED  BY <1>2, <2>1, <3>1, <3>2, OneMoreEntry
  <2>7. FillLeft(g, k)
    <3>1. JobsOf(g.queue) = Seen(k) \ StartedBy(g)
      BY <1>5, <1>7, <2>3, <2>5, <2>6 DEF FillIsSound, FillLeft
    <3>2. \A i \in JobsOf(g.queue) : Fit(g.usable, size[i]) = {}
      BY <2>3, <2>4, <2>6 DEF FillIsSound, FillLeft
    <3>3. StartedBy(g) \subseteq Seen(k)
      BY <1>5, <2>5 DEF FillIsSound, FillLeft
    <3>. QED  BY <2>3, <2>6, <3>1, <3>2, <3>3 DEF FillLeft
  <2>8. FillTold(g) /\ FillGave(g, usable)
    BY <2>3, <2>5 DEF FillIsSound, FillTold, FillGave
  <2>. QED  BY <1>2, <2>1, <2>7, <2>8 DEF FillIsSound
<1>10. CASE ~(f.usable = {} \/ found = {})
  <2>1. PICK ms : ms = alloc
    OBVIOUS
  <2>2. /\ ms # {} /\ ms \subseteq f.usable /\ Cardinality(ms) <= size[j]
        /\ ms \in SUBSET Machines
    <3>1. PICK place, u : place = found /\ u = f.usable
      OBVIOUS
    <3>2. place = Fit(u, size[j]) /\ place # {} /\ u \in SUBSET Machines
          /\ ms = Left(place, MachinesToAllocate(j))
      BY <1>6, <1>10, <2>1, <3>1
    <3>3. ms # {} /\ ms \subseteq u /\ Cardinality(ms) <= size[j]
      BY <1>3, <3>2, FillGives
    <3>. QED  BY <3>1, <3>2, <3>3
  <2>3. PICK x, meta, y, ds :
          /\ x = <<ExecuteJob(j, ms, clock)>>
          /\ meta = (IF own.metadata THEN <<SetJobMetadata(j, clock)>> ELSE <<>>)
          /\ y = f.decisions \o x /\ ds = y \o meta
    OBVIOUS
  <2>4. PICK g : g = FillOne(f, e)
    OBVIOUS
  <2>5. g = [usable |-> f.usable \ ms, queue |-> f.queue,
             started |-> [f.started EXCEPT ![j] = ms], decisions |-> ds]
    BY <1>2, <1>10, <2>1, <2>3, <2>4 DEF FillOne
  <2>6. /\ g.usable = f.usable \ ms /\ g.queue = f.queue /\ g.decisions = ds
        /\ \A i \in Jobs : g.started[i] = IF i = j THEN ms ELSE f.started[i]
    BY <1>3, <1>6, <2>5
  <2>. HIDE DEF found, alloc
  <2>7. StartedBy(g) = StartedBy(f) \cup {j}
    BY <1>3, <2>2, <2>6 DEF StartedBy
  <2>8. f.decisions \in Seq(Decisions) /\ Settles(f.decisions, StartedBy(f), {})
    BY DEF FillIsSound, FillTold, Settles
  <2>9. Settles(x, {j}, {}) /\ x \in Seq(Decisions)
    <3>1. PICK date : date = clock
      OBVIOUS
    <3>. QED  BY <1>3, <1>4, <2>2, <2>3, <3>1, OneExecution
  <2>10. AllOfType(meta, "SET_JOB_METADATA")
    <3>1. PICK d : d = SetJobMetadata(j, clock)
      OBVIOUS
    <3>2. d \in Decisions /\ d.type = "SET_JOB_METADATA"
      BY <1>3, <1>4, <3>1, DecisionTypes DEF OnTime, SetJobMetadata
    <3>3. meta = <<>> \/ meta = <<d>>
      BY <2>3, <3>1
    <3>4. CASE meta = <<>>
      BY <3>4 DEF AllOfType
    <3>5. CASE meta = <<d>>
      <4>1. meta \in Seq(Decisions) /\ Len(meta) = 1 /\ meta[1] = d
        BY <3>2, <3>5
      <4>. QED  BY <3>2, <4>1 DEF AllOfType
    <3>. QED  BY <3>3, <3>4, <3>5
  <2>11. Settles(meta, {}, {}) /\ meta \in Seq(Decisions)
    BY <2>10, SideDecisions DEF AllOfType
  <2>12. Settles(ds, StartedBy(g), {})
    <3>1. PICK S, T : S = StartedBy(f) /\ T = S \cup {j}
      OBVIOUS
    <3>2. (S \cup {}) \cap ({j} \cup {}) = {}
      BY <1>7, <3>1
    <3>3. Settles(y, S \cup {j}, {} \cup {})
      BY <2>3, <2>8, <2>9, <3>1, <3>2, BothSettle
    <3>4. Settles(y, T, {}) /\ (T \cup {}) \cap ({} \cup {}) = {}
      BY <3>1, <3>3
    <3>5. Settles(ds, T \cup {}, {} \cup {})
      BY <2>3, <2>11, <3>4, BothSettle
    <3>6. T \cup {} = T
      OBVIOUS
    <3>. QED  BY <2>7, <3>1, <3>5, <3>6
  <2>13. \A i \in 1 .. Len(ds) : \/ \E h \in 1 .. Len(f.decisions) : ds[i] = f.decisions[h]
                                 \/ ds[i] = ExecuteJob(j, ms, clock)
                                 \/ ds[i].type = "SET_JOB_METADATA"
    <3>1. Len(x) = 1 /\ x[1] = ExecuteJob(j, ms, clock)
      BY <2>3
    <3>2. y \in Seq(Decisions)
          /\ \A i \in 1 .. Len(y) : \/ \E h \in 1 .. Len(f.decisions) : y[i] = f.decisions[h]
                                    \/ \E h \in 1 .. Len(x) : y[i] = x[h]
      <4>1. y \in Seq(Decisions) /\ FromEither(y, f.decisions, x)
        BY <2>3, <2>8, <2>9, EitherElement
      <4>. QED  BY <4>1 DEF FromEither
    <3>3. \A i \in 1 .. Len(ds) : \/ \E h \in 1 .. Len(y) : ds[i] = y[h]
                                  \/ \E h \in 1 .. Len(meta) : ds[i] = meta[h]
      <4>1. y \in Seq(Decisions) /\ meta \in Seq(Decisions) /\ ds = y \o meta
        BY <2>3, <2>11, <3>2
      <4>2. FromEither(ds, y, meta)
        BY <4>1, EitherElement
      <4>. QED  BY <4>2 DEF FromEither
    <3>4. \A h \in 1 .. Len(x) : x[h] = ExecuteJob(j, ms, clock)
      BY <3>1
    <3>5. \A h \in 1 .. Len(meta) : meta[h].type = "SET_JOB_METADATA"
      BY <2>10 DEF AllOfType
    <3>6. \A i \in 1 .. Len(y) : \/ \E h \in 1 .. Len(f.decisions) : y[i] = f.decisions[h]
                                \/ y[i] = ExecuteJob(j, ms, clock)
      BY <3>2, <3>4
    <3>. QED  BY <3>3, <3>5, <3>6
  <2>14. FillTold(g)
    <3>. SUFFICES ASSUME NEW i \in 1 .. Len(ds)
                  PROVE  /\ ds[i].type \in {"EXECUTE_JOB", "SET_JOB_METADATA"}
                         /\ ds[i].type = "EXECUTE_JOB" =>
                              /\ ds[i].machines = g.started[ds[i].job]
                              /\ ds[i].machines # {}
                              /\ Cardinality(ds[i].machines) <= size[ds[i].job]
      BY <2>6, <2>12 DEF FillTold
    <3>1. CASE ds[i] = ExecuteJob(j, ms, clock)
      BY <1>3, <2>2, <2>6, <3>1 DEF ExecuteJob
    <3>2. CASE ds[i].type = "SET_JOB_METADATA"
      BY <3>2
    <3>3. ASSUME NEW h \in 1 .. Len(f.decisions), ds[i] = f.decisions[h]
          PROVE  /\ ds[i].type \in {"EXECUTE_JOB", "SET_JOB_METADATA"}
                 /\ ds[i].type = "EXECUTE_JOB" =>
                      /\ ds[i].machines = g.started[ds[i].job]
                      /\ ds[i].machines # {}
                      /\ Cardinality(ds[i].machines) <= size[ds[i].job]
      <4>1. /\ ds[i].type \in {"EXECUTE_JOB", "SET_JOB_METADATA"}
            /\ ds[i].type = "EXECUTE_JOB" =>
                 /\ ds[i].machines = f.started[ds[i].job]
                 /\ ds[i].machines # {}
                 /\ Cardinality(ds[i].machines) <= size[ds[i].job]
        BY <3>3 DEF FillIsSound, FillTold
      <4>2. ds[i].type = "EXECUTE_JOB" => ds[i].job \in Jobs
        <5>1. ds[i] \in Decisions
          BY <2>8, <3>3, ElementOfSeq
        <5>. QED  BY <5>1 DEF Decisions
      <4>3. ds[i].type = "EXECUTE_JOB" => ds[i].job # j
        BY <1>8, <4>1
      <4>. QED  BY <2>6, <4>1, <4>2, <4>3
    <3>. QED  BY <2>13, <3>1, <3>2, <3>3
  <2>15. FillGave(g, usable)
    <3>1. \A i \in Jobs : f.started[i] \cap ms = {}
      BY <2>2 DEF FillIsSound, FillGave
    <3>2. \A h, i \in Jobs : h # i => g.started[h] \cap g.started[i] = {}
      BY <2>6, <3>1 DEF FillIsSound, FillGave
    <3>3. UNION {g.started[i] : i \in Jobs} = (UNION {f.started[i] : i \in Jobs}) \cup ms
      BY <1>3, <1>8, <2>6
    <3>4. g.usable = usable \ UNION {g.started[i] : i \in Jobs}
      BY <2>6, <3>3 DEF FillIsSound, FillGave
    <3>5. \A i \in Jobs : g.started[i] \subseteq usable
      BY <2>2, <2>6 DEF FillIsSound, FillGave
    <3>. QED  BY <3>2, <3>4, <3>5 DEF FillGave
  <2>16. FillLeft(g, k)
    <3>1. OnePerJob(g.queue)
      BY <2>6 DEF FillIsSound, FillLeft
    <3>2. JobsOf(g.queue) = Seen(k) \ StartedBy(g) /\ StartedBy(g) \subseteq Seen(k)
      BY <1>5, <2>6, <2>7 DEF FillIsSound, FillLeft
    <3>3. \A i \in JobsOf(g.queue) : Fit(g.usable, size[i]) = {}
      <4>. SUFFICES ASSUME NEW i \in JobsOf(f.queue) PROVE Fit(g.usable, size[i]) = {}
        BY <2>6
      <4>1. i \in Runnable
        <5>1. PICK fq, J : fq = f.queue /\ J = Runnable
          OBVIOUS
        <5>. QED  BY <1>6, <5>1, JobsByPosition
      <4>2. size[i] \in 1 .. NbMachines
        BY <4>1, SizeOfRunnable
      <4>3. Fit(f.usable, size[i]) = {}
        BY DEF FillIsSound, FillLeft
      <4>4. g.usable \in SUBSET Machines /\ g.usable \subseteq f.usable
        BY <1>6, <2>6
      <4>. QED  BY <1>6, <4>2, <4>3, <4>4, FitAssumption
    <3>. QED  BY <3>1, <3>2, <3>3 DEF FillLeft
  <2>. QED  BY <1>2, <2>4, <2>14, <2>15, <2>16 DEF FillIsSound
<1>. QED  BY <1>9, <1>10


\* The whole queue.
LEMMA FillSound ==
  ASSUME Types, Deciding, WaitingOnce, variant = "filler", NEW usable \in SUBSET Machines
  PROVE  FillIsSound(Fill(usable), Len(SortedQueue), usable)
<1>1. PICK after : Fills(after, usable)
  BY FillPasses
<1>2. PICK n : n = Len(SortedQueue)
  OBVIOUS
<1>3. n \in Nat
  BY <1>2, WhenDeciding, LenProperties
<1>4. FillIsSound(after[0], 0, usable)
  <2>1. PICK f : f = after[0]
    OBVIOUS
  <2>2. /\ f.usable = usable /\ f.queue = <<>> /\ f.decisions = <<>>
        /\ f.started = [j \in Jobs |-> {}]
    BY <1>1, <2>1 DEF Fills, FillStart
  <2>3. StartedBy(f) = {} /\ JobsOf(f.queue) = {} /\ Seen(0) = {}
    <3>1. \A i \in 1 .. 0 : FALSE
      OBVIOUS
    <3>. QED  BY <2>2, <3>1 DEF StartedBy, JobsOf, Seen
  <2>4. FillTold(f)
    <3>1. Settles(f.decisions, StartedBy(f), {})
      BY <2>2, <2>3, NoDecision
    <3>2. Len(f.decisions) = 0
      BY <2>2
    <3>. QED  BY <3>1, <3>2 DEF FillTold
  <2>5. FillGave(f, usable)
    BY <2>2 DEF FillGave
  <2>6. OnePerJob(f.queue)
    BY <2>2 DEF OnePerJob
  <2>7. FillLeft(f, 0)
    BY <2>3, <2>6 DEF FillLeft
  <2>. QED  BY <2>1, <2>4, <2>5, <2>7 DEF FillIsSound
<1>. DEFINE T == {k \in 0 .. n : FillIsSound(after[k], k, usable)}
<1>5. 0 \in T
  BY <1>3, <1>4
<1>6. ASSUME NEW k \in 0 .. n - 1, k \in T
      PROVE  k + 1 \in T
  <2>1. k + 1 \in 1 .. Len(SortedQueue) /\ (k + 1) - 1 = k /\ k + 1 \in 0 .. n /\ k \in 0 .. n
    BY <1>2, <1>3
  <2>2. /\ after[k + 1] = FillOne(after[k], SortedQueue[k + 1])
        /\ after[k] \in Filling
    BY <1>1, <1>2, <2>1 DEF Fills
  <2>3. PICK i, f : i = k + 1 /\ f = after[k]
    OBVIOUS
  <2>4. FillIsSound(f, i - 1, usable)
    BY <1>6, <2>1, <2>3
  <2>5. FillIsSound(FillOne(f, SortedQueue[i]), i, usable)
    BY <2>1, <2>2, <2>3, <2>4, FillOneSound
  <2>. QED  BY <2>1, <2>2, <2>3, <2>5
<1>7. \A k \in 0 .. n - 1 : k \in T => k + 1 \in T
  BY <1>6
<1>. HIDE DEF T
<1>8. \A k \in 0 .. n : k \in T
  BY <1>3, <1>5, <1>7, IntervalInduction
<1>9. n \in T /\ Fill(usable) = after[n]
  BY <1>1, <1>2, <1>3, <1>8 DEF Fills
<1>. QED  BY <1>2, <1>9 DEF T

\* What filler leaves when it has answered, and that it has given no machine that
\* is unavailable.
Spares(ds) == \A k \in 1 .. Len(ds) :
  ds[k].type = "EXECUTE_JOB" => ds[k].machines \cap Unavailable = {}
FillerLeaves ==
  /\ own'.unavailable = Unavailable
  /\ \A j \in Queued' : Fit(available' \ Unavailable, size[j]) = {}

\* filler obeys, and leaves no job that could start.
LEMMA FillerServes ==
  ASSUME Types, JobsOnce, FillerMakeDecisions
  PROVE  \E ds : /\ Obeys(ds) /\ Allots(StartedIn(ds)) /\ FillerLeaves
                 /\ ds \in Seq(Decisions) /\ outbox' = outbox \o ds /\ Spares(ds)
<1>1. /\ variant = "filler" /\ Deciding /\ UNCHANGED <<variant, size, clock>>
      /\ own \in Members("filler")
  BY DEF FillerMakeDecisions, Reply, WriteReply, batsimVars, jobVars, configVars, Types, AlgorithmTypes
<1>2. WaitingOnce
  BY DEF JobsOnce, InOnePlace
<1>3. PICK usable : usable = UsableMachines
  OBVIOUS
<1>4. usable \in SUBSET Machines /\ FreedMachines \in SUBSET Machines
      /\ WithoutEnded \in [Jobs -> SUBSET Machines]
  BY <1>1, <1>3, WhenDeciding DEF UsableMachines
<1>5. PICK f : f = Fill(usable)
  OBVIOUS
<1>6. f \in Filling /\ FillIsSound(f, Len(SortedQueue), usable)
  BY <1>1, <1>2, <1>4, <1>5, FillTypes, FillSound
<1>7. /\ own' = [own EXCEPT !.unavailable = Unavailable]
      /\ allocations' = [j \in Jobs |-> IF f.started[j] # {} THEN f.started[j]
                                                            ELSE WithoutEnded[j]]
      /\ available' = FreedMachines \ UNION {f.started[j] : j \in Jobs}
      /\ queue' = f.queue
      /\ Reply(Rejections(clock) \o f.decisions)
  BY <1>3, <1>5 DEF FillerMakeDecisions
<1>8. PICK S, r, ds : S = StartedBy(f) /\ r = Rejections(clock) /\ ds = r \o f.decisions
  OBVIOUS
<1>9. Seen(Len(SortedQueue)) = Candidates
  <2>1. PICK q, J : q = SortedQueue /\ J = Runnable
    OBVIOUS
  <2>2. q \in Seq(Entries(J)) /\ JobsOf(q) = Candidates
    BY <1>1, <1>2, <2>1, SortedOut
  <2>3. JobsOf(q) = {q[i].job : i \in 1 .. Len(q)}
    BY <2>2, JobsByPosition
  <2>. QED  BY <2>1, <2>2, <2>3 DEF Seen
<1>10. /\ S \subseteq Candidates /\ OnePerJob(queue)' /\ Queued' = Candidates \ S
  BY <1>6, <1>7, <1>8, <1>9 DEF FillIsSound, FillLeft, Queued, OnePerJob
<1>11. Settles(f.decisions, S, {}) /\ f.decisions \in Seq(Decisions)
  BY <1>6, <1>8 DEF FillIsSound, FillTold, Settles
<1>12. Settles(ds, S, Invalid) /\ StartedIn(ds) = S
  <2>1. PICK x : x = f.decisions
    OBVIOUS
  <2>2. S \cap {} = {} /\ S \cup {} \subseteq Candidates /\ Settles(x, S, {})
    BY <1>10, <1>11, <2>1
  <2>3. Settles(Rejections(clock) \o x, S, Invalid)
    BY <1>1, <1>2, <2>2, NoDecision, AfterRejections
  <2>. QED  BY <1>8, <2>1, <2>3 DEF Settles
<1>13. Serves(ds)
  <2>1. CountsOn
    BY <1>1 DEF CountsOn
  <2>2. Runs(ds, S)
    BY <1>7, <1>8, <1>10, <1>12 DEF Runs, Reply, Emit
  <2>. QED  BY <2>1, <2>2, RunningServes
<1>14. \A j \in S : j \in Jobs /\ allocations'[j] = f.started[j] /\ f.started[j] # {}
  BY <1>7, <1>8 DEF StartedBy
<1>15. Lawful(f.decisions)
  <2>1. PICK x : x = f.decisions
    OBVIOUS
  <2>. SUFFICES ASSUME NEW k \in 1 .. Len(x) PROVE Legal(x[k])'
    BY <2>1 DEF Lawful
  <2>2. PICK d : d = x[k]
    OBVIOUS
  <2>3. d \in Decisions
    BY <1>11, <2>1, <2>2, ElementOfSeq
  <2>4. /\ d.type \in {"EXECUTE_JOB", "SET_JOB_METADATA"}
        /\ d.type = "EXECUTE_JOB" =>
             d.machines = f.started[d.job] /\ d.machines # {} /\ Cardinality(d.machines) <= size[d.job]
    BY <1>6, <2>1, <2>2 DEF FillIsSound, FillTold
  <2>5. d.type = "EXECUTE_JOB" => d.job \in Jobs
    BY <2>3 DEF Decisions
  <2>6. d.type = "EXECUTE_JOB" => d.machines = allocations'[d.job]
    BY <1>7, <2>4, <2>5
  <2>7. d.type = "EXECUTE_JOB" => LegalExecution(d)'
    BY <1>1, <2>4, <2>6 DEF LegalExecution
  <2>8. Legal(d)'
    BY <2>4, <2>7 DEF Legal
  <2>. QED  BY <2>2, <2>8
<1>16. Lawful(ds)
  <2>1. PICK x : x = f.decisions
    OBVIOUS
  <2>2. r \in Seq(Decisions) /\ Lawful(r)
    BY <1>1, <1>8, RejectionsLawful
  <2>. QED  BY <1>8, <1>11, <1>15, <2>1, <2>2, BothLawful
<1>17. Allots(S)
  <2>1. \A j \in Jobs : allocations'[j] = IF j \in S THEN allocations'[j] ELSE WithoutEnded[j]
    BY <1>7, <1>8 DEF StartedBy
  <2>2. \A j \in S : allocations'[j] # {} /\ allocations'[j] \subseteq FreedMachines
    BY <1>3, <1>6, <1>14 DEF FillIsSound, FillGave, UsableMachines
  <2>3. \A i, j \in S : i # j => allocations'[i] \cap allocations'[j] = {}
    BY <1>6, <1>14 DEF FillIsSound, FillGave
  <2>4. UNION {f.started[j] : j \in Jobs} = UNION {allocations'[j] : j \in S}
    <3>1. \A j \in Jobs : j \in S \/ f.started[j] = {}
      BY <1>8 DEF StartedBy
    <3>. QED  BY <1>14, <3>1
  <2>. QED  BY <1>7, <2>1, <2>2, <2>3, <2>4 DEF Allots
<1>18. FillerLeaves
  <2>1. own'.unavailable = Unavailable
    BY <1>1, <1>7 DEF Members
  <2>2. f.usable = available' \ Unavailable
    BY <1>3, <1>6, <1>7 DEF FillIsSound, FillGave, UsableMachines
  <2>3. \A j \in JobsOf(f.queue) : Fit(f.usable, size[j]) = {}
    BY <1>6 DEF FillIsSound, FillLeft
  <2>. QED  BY <1>7, <2>1, <2>2, <2>3 DEF FillerLeaves, Queued
<1>19. Spares(f.decisions)
  <2>1. PICK x : x = f.decisions
    OBVIOUS
  <2>. SUFFICES ASSUME NEW k \in 1 .. Len(x), x[k].type = "EXECUTE_JOB"
                PROVE  x[k].machines \cap Unavailable = {}
    BY <2>1 DEF Spares
  <2>2. PICK d : d = x[k]
    OBVIOUS
  <2>3. d \in Decisions
    BY <1>11, <2>1, <2>2, ElementOfSeq
  <2>4. d.type = "EXECUTE_JOB" /\ d.machines = f.started[d.job] /\ d.job \in Jobs
    BY <1>6, <2>1, <2>2, <2>3 DEF FillIsSound, FillTold, Decisions
  <2>5. d.machines \subseteq usable
    BY <1>6, <2>4 DEF FillIsSound, FillGave
  <2>. QED  BY <1>3, <2>2, <2>5 DEF UsableMachines
<1>20. Spares(ds)
  <2>1. PICK x : x = f.decisions
    OBVIOUS
  <2>2. r \in Seq(Decisions) /\ \A k \in 1 .. Len(r) : r[k].type = "REJECT_JOB"
    BY <1>1, <1>8, RejectionsLawful
  <2>3. x \in Seq(Decisions) /\ Spares(x) /\ ds = r \o x
    BY <1>8, <1>11, <1>19, <2>1
  <2>. SUFFICES ASSUME NEW k \in 1 .. Len(ds), ds[k].type = "EXECUTE_JOB"
                PROVE  ds[k].machines \cap Unavailable = {}
    BY DEF Spares
  <2>4. \/ k \in 1 .. Len(r) /\ ds[k] = r[k]
        \/ k - Len(r) \in 1 .. Len(x) /\ ds[k] = x[k - Len(r)]
    BY <2>2, <2>3
  <2>5. CASE k \in 1 .. Len(r) /\ ds[k] = r[k]
    BY <2>2, <2>5
  <2>6. CASE k - Len(r) \in 1 .. Len(x) /\ ds[k] = x[k - Len(r)]
    BY <2>3, <2>6 DEF Spares
  <2>. QED  BY <2>4, <2>5, <2>6
<1>21. ds \in Seq(Decisions) /\ outbox' = outbox \o ds /\ recent' = NothingRecent
  BY <1>7, <1>8, <1>12 DEF Settles, Reply, Emit
<1>. QED  BY <1>12, <1>13, <1>16, <1>17, <1>18, <1>20, <1>21 DEF Obeys


-------------------------------------------------------------------------------
(* submitter.                                                              *)

\* The types of its decisions about released jobs.
Sorts(ds) == \A k \in 1 .. Len(ds) : ds[k].type \in {"SET_JOB_METADATA", "REJECT_JOB"}

\* What it decides about one released job: it is rejected, if it can never run.
LEMMA ReleaseOneSettles ==
  ASSUME Types, NEW j \in Jobs
  PROVE  /\ Settles(ReleaseDecisionsOf(j, clock), {}, IF IsValid(j) THEN {} ELSE {j})
         /\ Sorts(ReleaseDecisionsOf(j, clock))
<1>1. PICK a, b : /\ a = IF own.metadata THEN <<SetJobMetadata(j, clock)>> ELSE <<>>
                  /\ b = IF IsValid(j) THEN <<>> ELSE <<RejectJob(j, clock)>>
  OBVIOUS
<1>2. /\ SetJobMetadata(j, clock) \in Decisions /\ RejectJob(j, clock) \in Decisions
      /\ clock \in Nat
  BY DecisionTypes DEF OnTime, Types, PlatformTypes
<1>3. Settles(a, {}, {}) /\ Sorts(a)
  <2>1. CASE a = <<>>
    BY <2>1, NoDecision DEF Sorts
  <2>2. CASE a = <<SetJobMetadata(j, clock)>>
    <3>1. a \in Seq(Decisions) /\ Len(a) = 1 /\ a[1] = SetJobMetadata(j, clock)
      BY <1>2, <2>2
    <3>2. \A k \in 1 .. Len(a) : a[k].type = "SET_JOB_METADATA"
      BY <3>1 DEF SetJobMetadata
    <3>3. AllOfType(a, "SET_JOB_METADATA")
      BY <3>1, <3>2 DEF AllOfType
    <3>. QED  BY <3>2, <3>3, SideDecisions DEF Sorts
  <2>. QED  BY <1>1, <2>1, <2>2
<1>4. Settles(b, {}, IF IsValid(j) THEN {} ELSE {j}) /\ Sorts(b)
  <2>1. CASE IsValid(j)
    BY <1>1, <2>1, NoDecision DEF Sorts
  <2>2. CASE ~IsValid(j)
    <3>1. b = <<RejectJob(j, clock)>>
      BY <1>1, <2>2
    <3>2. b \in Seq(Decisions) /\ Len(b) = 1 /\ b[1] = RejectJob(j, clock)
      BY <1>2, <3>1
    <3>3. RejectJob(j, clock).type = "REJECT_JOB" /\ RejectJob(j, clock).job = j
      BY DEF RejectJob
    <3>4. EachOnce(b) /\ StartedIn(b) = {} /\ ChosenIn(b) = {j}
      BY <1>2, <3>1, <3>3, OneDecision DEF IsChoice
    <3>5. Settles(b, {}, {j})
      BY <3>2, <3>3, <3>4 DEF Settles
    <3>. QED  BY <2>2, <3>2, <3>3, <3>5 DEF Sorts
  <2>. QED  BY <2>1, <2>2
<1>5. ReleaseDecisionsOf(j, clock) = a \o b
  BY <1>1 DEF ReleaseDecisionsOf
<1>6. PICK R : R = IF IsValid(j) THEN {} ELSE {j}
  OBVIOUS
<1>7. Settles(a \o b, {} \cup {}, {} \cup R)
  BY <1>3, <1>4, <1>6, BothSettle
<1>8. Sorts(a \o b)
  <2>1. a \in Seq(Decisions) /\ b \in Seq(Decisions)
    BY <1>3, <1>4 DEF Settles
  <2>2. FromEither(a \o b, a, b)
    BY <2>1, EitherElement
  <2>. QED  BY <1>3, <1>4, <2>2 DEF Sorts, FromEither
<1>. QED  BY <1>5, <1>6, <1>7, <1>8

\* What it decides about all of them.
LEMMA ReleasesSettle ==
  ASSUME Types, JobsOnce
  PROVE  Settles(ReleaseDecisions(clock), {}, Invalid) /\ Sorts(ReleaseDecisions(clock))
<1>1. PICK after : ReleasesInTurn(after)
  BY ReleasePasses
<1>2. PICK n, js : n = Len(recent.released) /\ js = recent.released
  OBVIOUS
<1>3. /\ n \in Nat /\ js \in Seq(Jobs) /\ IsInjective(js) /\ DOMAIN js = 1 .. n
      /\ \A k \in 1 .. n : js[k] \in Jobs
  BY <1>2, ReleasedList
<1>. DEFINE Unfit(k) == {j \in Jobs : ~IsValid(j) /\ \E i \in 1 .. k : js[i] = j}
            Good(k)  == Settles(after[k], {}, Unfit(k)) /\ Sorts(after[k])
            T        == {k \in 0 .. n : Good(k)}
<1>4. 0 \in T
  <2>1. after[0] = <<>> /\ Unfit(0) = {}
    BY <1>1 DEF ReleasesInTurn
  <2>2. Good(0)
    BY <2>1, NoDecision DEF Sorts
  <2>3. 0 \in 0 .. n
    BY <1>3
  <2>. HIDE DEF Good
  <2>. QED  BY <2>2, <2>3
<1>5. ASSUME NEW k \in 0 .. n - 1, k \in T
      PROVE  k + 1 \in T
  <2>1. k + 1 \in 1 .. n /\ (k + 1) - 1 = k /\ k + 1 \in 0 .. n
    BY <1>3
  <2>2. PICK j, R, a, b : /\ j = js[k + 1] /\ R = (IF IsValid(j) THEN {} ELSE {j})
                          /\ a = after[k] /\ b = ReleaseDecisionsOf(j, clock)
    OBVIOUS
  <2>3. j \in Jobs /\ after[k + 1] = a \o b
    BY <1>1, <1>2, <1>3, <2>1, <2>2 DEF ReleasesInTurn
  <2>4. Settles(b, {}, R) /\ Sorts(b)
    BY <2>2, <2>3, ReleaseOneSettles
  <2>5. Settles(a, {}, Unfit(k)) /\ Sorts(a)
    BY <1>5, <2>2
  <2>6. j \notin Unfit(k)
    <3>1. \A i \in 1 .. k : i \in DOMAIN js /\ k + 1 \in DOMAIN js /\ i # k + 1
      BY <1>3, <2>1
    <3>. QED  BY <1>3, <2>2, <3>1 DEF IsInjective
  <2>7. ({} \cup Unfit(k)) \cap ({} \cup R) = {}
    BY <2>2, <2>6
  <2>8. Settles(a \o b, {} \cup {}, Unfit(k) \cup R)
    <3>1. PICK U : U = Unfit(k)
      OBVIOUS
    <3>2. Settles(a, {}, U) /\ ({} \cup U) \cap ({} \cup R) = {}
      BY <2>5, <2>7, <3>1
    <3>3. Settles(a \o b, {} \cup {}, U \cup R)
      <4>. HIDE DEF Unfit
      <4>. QED  BY <2>4, <3>2, BothSettle
    <3>. QED  BY <3>1, <3>3
  <2>9. Unfit(k + 1) = Unfit(k) \cup R
    <3>1. \A i : i \in 1 .. k + 1 <=> i \in 1 .. k \/ i = k + 1
      BY <1>3, <2>1
    <3>2. PICK l : l = k + 1
      OBVIOUS
    <3>3. \A i \in Jobs : (\E h \in 1 .. l : js[h] = i) <=> (\E h \in 1 .. k : js[h] = i) \/ js[l] = i
      BY <3>1, <3>2
    <3>. QED  BY <2>2, <2>3, <3>2, <3>3
  <2>10. Sorts(a \o b)
    <3>1. a \in Seq(Decisions) /\ b \in Seq(Decisions)
      BY <2>4, <2>5 DEF Settles
    <3>2. FromEither(a \o b, a, b)
      BY <3>1, EitherElement
    <3>. QED  BY <2>4, <2>5, <3>2 DEF Sorts, FromEither
  <2>11. Good(k + 1)
    <3>1. {} \cup {} = {}
      OBVIOUS
    <3>. HIDE DEF Unfit
    <3>. QED  BY <2>3, <2>8, <2>9, <2>10, <3>1
  <2>. QED  BY <2>1, <2>11
<1>6. \A k \in 0 .. n - 1 : k \in T => k + 1 \in T
  BY <1>5
<1>. HIDE DEF T
<1>7. \A k \in 0 .. n : k \in T
  BY <1>3, <1>4, <1>6, IntervalInduction
<1>8. Good(n)
  <2>1. n \in T
    BY <1>3, <1>7
  <2>. HIDE DEF Good
  <2>. QED  BY <2>1 DEF T
<1>9. Unfit(n) = Invalid
  <2>1. \A j : j \in Released <=> \E i \in 1 .. n : js[i] = j
    BY <1>2, <1>3 DEF Released, ToSet
  <2>2. Released \subseteq Jobs
    BY <1>3, <2>1
  <2>. QED  BY <2>1, <2>2 DEF Invalid
<1>10. ReleaseDecisions(clock) = after[n]
  BY <1>1, <1>2 DEF ReleasesInTurn
<1>. QED  BY <1>8, <1>9, <1>10


\* A registration among other decisions.
OneRegistered(ds, d, S, T, R) ==
  /\ ds \in Seq(Decisions) /\ EachOnce(ds)
  /\ StartedIn(ds) = S \cup T /\ ChosenIn(ds) = S \cup T \cup R
  /\ \E at \in 1 .. Len(ds) :
       /\ ds[at] = d
       /\ \A k \in 1 .. Len(ds) : ds[k].type = "REGISTER_JOB" => k = at
       /\ \A k \in 1 .. Len(ds) : IsChoice(ds[k]) =>
            ds[k].job \in S \cup R \/ (ds[k].job \in T /\ at < k)

\* Two lists around a registration, the second of which may start its job.
LEMMA OneRegistration ==
  ASSUME NEW d \in Decisions, d.type = "REGISTER_JOB",
         NEW a, NEW S, NEW R, Settles(a, S, R),
         NEW b, NEW T, Settles(b, T, {}), T \cap (S \cup R) = {}
  PROVE  OneRegistered((a \o <<d>>) \o b, d, S, T, R)
<1>1. PICK m, c : m = <<d>> /\ c = a \o m
  OBVIOUS
<1>2. /\ m \in Seq(Decisions) /\ Len(m) = 1 /\ m[1] = d /\ EachOnce(m)
      /\ StartedIn(m) = {} /\ ChosenIn(m) = {}
  BY <1>1, OneDecision DEF IsChoice
<1>3. a \in Seq(Decisions) /\ b \in Seq(Decisions)
  BY DEF Settles
<1>4. c \in Seq(Decisions) /\ EachOnce(c) /\ StartedIn(c) = S /\ ChosenIn(c) = S \cup R
  <2>1. ChosenIn(a) \cap ChosenIn(m) = {} /\ EachOnce(a)
    BY <1>2 DEF Settles
  <2>2. /\ a \o m \in Seq(Decisions) /\ EachOnce(a \o m)
        /\ StartedIn(a \o m) = StartedIn(a) \cup StartedIn(m)
        /\ ChosenIn(a \o m) = ChosenIn(a) \cup ChosenIn(m)
    BY <1>2, <1>3, <2>1, JobsOfLists
  <2>3. StartedIn(a) = S /\ ChosenIn(a) = S \cup R
    BY DEF Settles
  <2>. QED  BY <1>1, <1>2, <2>2, <2>3
<1>5. PICK ds : ds = c \o b
  OBVIOUS
<1>6. /\ ds \in Seq(Decisions) /\ EachOnce(ds)
      /\ StartedIn(ds) = S \cup T /\ ChosenIn(ds) = S \cup T \cup R
  <2>1. ChosenIn(b) = T /\ StartedIn(b) = T /\ EachOnce(b)
    BY DEF Settles
  <2>2. ChosenIn(c) \cap ChosenIn(b) = {}
    BY <1>4, <2>1
  <2>. QED  BY <1>3, <1>4, <1>5, <2>1, <2>2, JobsOfLists
<1>7. PICK at : at = Len(a) + 1
  OBVIOUS
<1>8. Len(a) \in Nat /\ Len(b) \in Nat /\ Len(c) = at /\ Len(ds) = at + Len(b) /\ at \in Nat
  BY <1>1, <1>2, <1>3, <1>4, <1>5, <1>7, LenProperties, ConcatProperties
<1>9. /\ \A k \in 1 .. Len(a) : ds[k] = a[k]
      /\ ds[at] = d
      /\ \A k \in 1 .. Len(ds) : k > at => k - at \in 1 .. Len(b) /\ ds[k] = b[k - at]
  <2>1. \A k \in 1 .. at : ds[k] = c[k]
    BY <1>3, <1>4, <1>5, <1>8, ConcatProperties
  <2>2. \A k \in 1 .. Len(a) : c[k] = a[k] /\ k \in 1 .. at
    BY <1>1, <1>2, <1>3, <1>7, <1>8, ConcatProperties
  <2>3. c[at] = m[at - Len(a)] /\ at - Len(a) = 1
    BY <1>1, <1>2, <1>3, <1>7, <1>8, ConcatProperties
  <2>4. \A k \in 1 .. Len(ds) : k > at => k - at \in 1 .. Len(b) /\ ds[k] = b[k - at]
    BY <1>3, <1>4, <1>5, <1>8, ConcatProperties
  <2>. QED  BY <1>2, <1>8, <2>1, <2>2, <2>3, <2>4
<1>10. ASSUME NEW k \in 1 .. Len(ds)
       PROVE  k \in 1 .. Len(a) \/ k = at \/ k > at
  BY <1>7, <1>8
<1>11. at \in 1 .. Len(ds)
  BY <1>7, <1>8
<1>12. ASSUME NEW k \in 1 .. Len(ds), ds[k].type = "REGISTER_JOB"
       PROVE  k = at
  BY <1>8, <1>9, <1>10, <1>12 DEF Settles
<1>13. ASSUME NEW k \in 1 .. Len(ds), IsChoice(ds[k])
       PROVE  ds[k].job \in S \cup R \/ (ds[k].job \in T /\ at < k)
  <2>1. CASE k \in 1 .. Len(a)
    <3>1. ds[k] = a[k] /\ a[k] \in Decisions
      BY <1>3, <1>9, <2>1, ElementOfSeq
    <3>2. a[k].job \in Jobs
      BY <1>13, <3>1 DEF IsChoice, Decisions
    <3>3. a[k].job \in ChosenIn(a)
      BY <1>13, <2>1, <3>1, <3>2 DEF ChosenIn
    <3>. QED  BY <3>1, <3>3 DEF Settles
  <2>2. CASE k = at
    BY <1>9, <1>13, <2>2 DEF IsChoice
  <2>3. CASE k > at
    <3>1. k - at \in 1 .. Len(b) /\ ds[k] = b[k - at] /\ b[k - at] \in Decisions
      BY <1>3, <1>9, <2>3, ElementOfSeq
    <3>2. b[k - at].job \in Jobs
      BY <1>13, <3>1 DEF IsChoice, Decisions
    <3>3. b[k - at].job \in ChosenIn(b)
      BY <1>13, <3>1, <3>2 DEF ChosenIn
    <3>. QED  BY <1>8, <2>3, <3>1, <3>3 DEF Settles
  <2>. QED  BY <1>10, <2>1, <2>2, <2>3
<1>14. OneRegistered(ds, d, S, T, R)
  BY <1>6, <1>9, <1>11, <1>12, <1>13 DEF OneRegistered
<1>. QED  BY <1>1, <1>5, <1>14

\* What brings a profile to Batsim; that of a registered job comes with it or
\* before it, or was sent by an earlier message.
Brings(d, p) ==
  \/ d.type = "REGISTER_PROFILE" /\ d.profile = p
  \/ d.type = "REGISTER_JOB" /\ d.inlined /\ d.profile = p
Introduces(ds) ==
  /\ \A p \in own'.sent : p \in own.sent \/ \E k \in 1 .. Len(ds) : Brings(ds[k], p)
  /\ \A k \in 1 .. Len(ds) : ds[k].type = "REGISTER_JOB" =>
       \/ ds[k].inlined \/ ds[k].profile \in own.sent
       \/ \E h \in 1 .. k - 1 : Brings(ds[h], ds[k].profile)

\* The submission of a job, after other decisions and before others: first, the
\* registration of its profile or nothing; last, its metadata or nothing.
Submission(d, first, last, profile) ==
  /\ first \in Seq(Decisions) /\ last \in Seq(Decisions) /\ d \in Decisions
  /\ SubmitDelayJob(NewJob, profile, clock) = (first \o <<d>>) \o last
  /\ d.type = "REGISTER_JOB" /\ d.job = NewJob /\ d.profile = profile
  /\ Settles(first, {}, {}) /\ Settles(last, {}, {}) /\ Lawful(first) /\ Lawful(last)
  /\ \/ d.inlined \/ profile \in own.sent
     \/ Len(first) > 0 /\ Brings(first[Len(first)], profile)

\* submitter submits in this order.
LEMMA SubmissionInOrder ==
  ASSUME Types, NewJob \in Dynamic, NEW profile \in Nat
  PROVE  \E d, first, last : Submission(d, first, last, profile)
<1>1. PICK sends, inlined : /\ sends = (profile \notin own.sent \/ own.again)
                            /\ inlined = (sends /\ ~own.separate)
  OBVIOUS
<1>2. PICK j, first, d, last :
        /\ j = NewJob
        /\ first = IF sends /\ own.separate THEN <<RegisterProfile(profile, clock)>> ELSE <<>>
        /\ d = RegisterJob(j, profile, inlined, clock)
        /\ last = IF own.metadata THEN <<SetJobMetadata(j, clock)>> ELSE <<>>
  OBVIOUS
<1>3. SubmitDelayJob(NewJob, profile, clock) = (first \o <<d>>) \o last
  BY <1>1, <1>2 DEF SubmitDelayJob
<1>4. j \in Jobs /\ j \in Dynamic /\ clock \in Nat /\ inlined \in BOOLEAN
  BY <1>1, <1>2 DEF Jobs, Types, PlatformTypes
<1>5. /\ RegisterProfile(profile, clock) \in Decisions
      /\ SetJobMetadata(j, clock) \in Decisions /\ d \in Decisions
  BY <1>2, <1>4, DecisionTypes DEF OnTime
<1>6. d.type = "REGISTER_JOB" /\ d.job = NewJob /\ d.profile = profile /\ d.inlined = inlined
  BY <1>2 DEF RegisterJob
<1>7. Settles(first, {}, {}) /\ Lawful(first) /\ first \in Seq(Decisions)
  <2>1. CASE first = <<>>
    BY <2>1, NoDecision
  <2>2. CASE first = <<RegisterProfile(profile, clock)>>
    <3>1. first \in Seq(Decisions) /\ Len(first) = 1 /\ first[1] = RegisterProfile(profile, clock)
      BY <1>5, <2>2
    <3>2. AllOfType(first, "REGISTER_PROFILE")
      BY <3>1 DEF AllOfType, RegisterProfile
    <3>. QED  BY <3>1, <3>2, SideDecisions
  <2>. QED  BY <1>2, <2>1, <2>2
<1>8. Settles(last, {}, {}) /\ Lawful(last) /\ last \in Seq(Decisions)
  <2>1. CASE last = <<>>
    BY <2>1, NoDecision
  <2>2. CASE last = <<SetJobMetadata(j, clock)>>
    <3>1. last \in Seq(Decisions) /\ Len(last) = 1 /\ last[1] = SetJobMetadata(j, clock)
      BY <1>5, <2>2
    <3>2. AllOfType(last, "SET_JOB_METADATA")
      BY <3>1 DEF AllOfType, SetJobMetadata
    <3>. QED  BY <3>1, <3>2, SideDecisions
  <2>. QED  BY <1>2, <2>1, <2>2
<1>9. \/ d.inlined \/ profile \in own.sent
      \/ Len(first) > 0 /\ Brings(first[Len(first)], profile)
  <2>1. CASE sends /\ own.separate
    <3>1. first = <<RegisterProfile(profile, clock)>>
      BY <1>2, <2>1
    <3>2. Len(first) = 1 /\ first[1] = RegisterProfile(profile, clock)
      BY <3>1
    <3>. QED  BY <3>2 DEF Brings, RegisterProfile
  <2>2. CASE ~(sends /\ own.separate)
    BY <1>1, <1>6, <2>2
  <2>. QED  BY <2>1, <2>2
<1>. QED  BY <1>3, <1>5, <1>6, <1>7, <1>8, <1>9 DEF Submission


\* Candidates can run, the invalid jobs cannot.
LEMMA Separate ==
  ASSUME Types, JobsOnce, NEW S, S \subseteq Candidates
  PROVE  S \cap Invalid = {} /\ S \subseteq Released \cup Queued
<1>1. Released \cap Queued = {}
  BY DEF JobsOnce, InOnePlace, WaitingOnce
<1>. QED  BY <1>1 DEF Candidates, Invalid

\* First, submitter starts the first job of its queue, or none.
SubmitterStarts(S, q, free, allocs, x) ==
  /\ S \subseteq Candidates /\ S \subseteq Jobs /\ \A i, j \in S : i = j
  /\ OnePerJob(q) /\ JobsOf(q) = Candidates \ S
  /\ free \in SUBSET FreedMachines /\ allocs \in [Jobs -> SUBSET Machines]
  /\ free = FreedMachines \ UNION {allocs[j] : j \in S}
  /\ \A j \in Jobs \ S : allocs[j] = WithoutEnded[j]
  /\ \A j \in S : /\ allocs[j] # {} /\ allocs[j] \subseteq FreedMachines
                  /\ Cardinality(allocs[j]) = size[j]
                  /\ x = <<ExecuteJob(j, allocs[j], clock)>>
  /\ x \in Seq(Decisions) /\ Settles(x, S, {}) /\ (S = {} => x = <<>>)

\* Then it submits a job, or none.
SubmitterSubmits(q, free, allocs, x) ==
  LET submits == q = <<>> /\ free # {} /\ own.submitted < NbDynamic
      direct  == submits /\ ~own.acknowledged
      later   == IF direct THEN clock + DirectDelay ELSE clock
      alloc   == Left(free, 1)
      submit  == IF submits THEN SubmitDelayJob(NewJob, NewProfile, clock) ELSE <<>>
      execute == IF direct THEN <<ExecuteJob(NewJob, alloc, later)>> ELSE <<>>
      count   == IF submits THEN own.submitted + 1 ELSE own.submitted
      finish  == count >= NbDynamic /\ ~own.finishedSent
      bye     == IF finish THEN <<SchedulerFinishedSubmitting(later)>> ELSE <<>>
  IN
  /\ queue' = q
  /\ available' = IF direct THEN free \ alloc ELSE free
  /\ allocations' = IF direct THEN [allocs EXCEPT ![NewJob] = alloc] ELSE allocs
  /\ own' = [own EXCEPT !.submitted = count,
                        !.finishedSent = @ \/ finish,
                        !.sent = IF submits THEN @ \cup {NewProfile} ELSE @]
  /\ Reply(ReleaseDecisions(clock) \o x \o submit \o execute \o bye)

\* A decision of submitter takes these two steps.
LEMMA SubmitterTwice ==
  ASSUME Types, JobsOnce, SubmitterMakeDecisions
  PROVE  \E S, q, free, allocs, x :
           SubmitterStarts(S, q, free, allocs, x) /\ SubmitterSubmits(q, free, allocs, x)
<1>0. variant = "submitter" /\ Deciding
  BY Zenon DEF SubmitterMakeDecisions
<1>1. /\ SortedQueue \in Seq(Entries(Runnable))
      /\ FreedMachines \in SUBSET Machines
      /\ WithoutEnded \in [Jobs -> SUBSET Machines] /\ clock \in Nat
  BY <1>0, WhenDeciding DEF Types, PlatformTypes
<1>2. WaitingOnce
  BY DEF JobsOnce, InOnePlace
<1>3. OnePerJob(SortedQueue) /\ JobsOf(SortedQueue) = Candidates
  BY <1>0, <1>2, SortedOut
<1>. DEFINE first  == Head(SortedQueue).job
            alloc  == Fit(FreedMachines, size[first])
            starts == SortedQueue # <<>> /\ alloc # {}
<1>4. CASE starts
  <2>1. /\ first \in Candidates /\ first \in Runnable
        /\ OnePerJob(RemoveFromQueue(SortedQueue, first))
        /\ JobsOf(RemoveFromQueue(SortedQueue, first)) = Candidates \ {first}
    <3>1. PICK q, J : q = SortedQueue /\ J = Runnable
      OBVIOUS
    <3>. QED  BY <1>1, <1>3, <1>4, <3>1, FirstTaken
  <2>2. first \in Jobs /\ alloc \subseteq FreedMachines /\ Cardinality(alloc) = size[first]
    BY <1>1, <1>4, <2>1, SizeOfRunnable, FitAssumption
  <2>3. SubmitterSubmits(RemoveFromQueue(SortedQueue, first), FreedMachines \ alloc,
                         [WithoutEnded EXCEPT ![first] = alloc],
                         <<ExecuteJob(first, alloc, clock)>>)
    BY <1>4 DEF SubmitterMakeDecisions, SubmitterSubmits
  <2>4. alloc # {}
    BY <1>4
  <2>5. PICK j, ms, q, free, allocs, x :
          /\ j = first /\ ms = alloc /\ x = <<ExecuteJob(first, alloc, clock)>>
          /\ q = RemoveFromQueue(SortedQueue, first) /\ free = FreedMachines \ alloc
          /\ allocs = [WithoutEnded EXCEPT ![first] = alloc]
    OBVIOUS
  <2>6. SubmitterSubmits(q, free, allocs, x)
    BY <2>3, <2>5
  <2>. HIDE DEF first, alloc
  <2>7. j \in Jobs /\ ms \in SUBSET Machines /\ ms # {} /\ ms \subseteq FreedMachines
        /\ Cardinality(ms) = size[j] /\ j \in Candidates
        /\ x = <<ExecuteJob(j, ms, clock)>> /\ free = FreedMachines \ ms
        /\ allocs = [WithoutEnded EXCEPT ![j] = ms]
        /\ OnePerJob(q) /\ JobsOf(q) = Candidates \ {j}
    BY <1>1, <2>1, <2>2, <2>4, <2>5
  <2>8. Settles(x, {j}, {}) /\ x \in Seq(Decisions)
    BY <1>1, <2>7, OneExecution
  <2>9. allocs \in [Jobs -> SUBSET Machines] /\ allocs[j] = ms
        /\ \A i \in Jobs \ {j} : allocs[i] = WithoutEnded[i]
    BY <1>1, <2>7
  <2>10. UNION {allocs[i] : i \in {j}} = ms
    BY <2>9
  <2>11. SubmitterStarts({j}, q, free, allocs, x)
    BY <2>7, <2>8, <2>9, <2>10 DEF SubmitterStarts
  <2>. QED  BY <2>6, <2>11
<1>5. CASE ~starts
  <2>1. SubmitterSubmits(SortedQueue, FreedMachines, WithoutEnded, <<>>)
    BY <1>5, Zenon DEF SubmitterMakeDecisions, SubmitterSubmits
  <2>2. FreedMachines = FreedMachines \ UNION {WithoutEnded[j] : j \in {}}
    OBVIOUS
  <2>3. SubmitterStarts({}, SortedQueue, FreedMachines, WithoutEnded, <<>>)
    BY <1>1, <1>3, <2>2, NoDecision DEF SubmitterStarts
  <2>. QED  BY <2>1, <2>3
<1>. QED  BY <1>4, <1>5

\* What submitter decides.
SubmitterAnswers(ds) == Obeys(ds) /\ Allots(StartedIn(ds)) /\ Introduces(ds)

\* If no job is submitted.
LEMMA SubmitterOnlyRuns ==
  ASSUME Types, JobsOnce, Deciding, variant = "submitter",
         NEW S, NEW q, NEW free, NEW allocs, NEW x,
         SubmitterStarts(S, q, free, allocs, x), SubmitterSubmits(q, free, allocs, x),
         ~(q = <<>> /\ free # {} /\ own.submitted < NbDynamic)
  PROVE  \E ds : SubmitterAnswers(ds)
<1>1. PICK r, bye :
        /\ r = ReleaseDecisions(clock)
        /\ bye = (IF own.submitted >= NbDynamic /\ ~own.finishedSent
                   THEN <<SchedulerFinishedSubmitting(clock)>> ELSE <<>>)
        /\ Reply(r \o x \o <<>> \o <<>> \o bye)
        /\ queue' = q /\ available' = free /\ allocations' = allocs
        /\ own' = [own EXCEPT !.submitted = own.submitted,
                     !.finishedSent = @ \/ (own.submitted >= NbDynamic /\ ~own.finishedSent),
                     !.sent = own.sent]
  BY DEF SubmitterSubmits
<1>2. UNCHANGED <<variant, size, clock>> /\ recent' = NothingRecent
  BY <1>1 DEF Reply, WriteReply, batsimVars, jobVars, configVars
<1>3. own \in Members("submitter") /\ clock \in Nat
  BY DEF Types, AlgorithmTypes, PlatformTypes
<1>4. own'.submitted = own.submitted /\ own'.acknowledged = own.acknowledged
      /\ own'.sent = own.sent
  BY <1>1, <1>3 DEF Members
<1>5. CountsOn
  BY <1>2, <1>4 DEF CountsOn, Fresh
<1>6. Settles(r, {}, Invalid) /\ Sorts(r) /\ r \in Seq(Decisions)
  BY <1>1, ReleasesSettle DEF Settles
<1>7. Settles(bye, {}, {}) /\ Lawful(bye) /\ bye \in Seq(Decisions)
  <2>1. CASE bye = <<>>
    BY <2>1, NoDecision
  <2>2. CASE bye = <<SchedulerFinishedSubmitting(clock)>>
    <3>1. SchedulerFinishedSubmitting(clock) \in Decisions
      BY <1>3, DecisionTypes DEF OnTime
    <3>2. bye \in Seq(Decisions) /\ Len(bye) = 1 /\ bye[1] = SchedulerFinishedSubmitting(clock)
      BY <2>2, <3>1
    <3>3. AllOfType(bye, "NOTIFY")
      BY <3>2 DEF AllOfType, SchedulerFinishedSubmitting
    <3>. QED  BY <3>2, <3>3, SideDecisions
  <2>. QED  BY <1>1, <2>1, <2>2
<1>8. x \in Seq(Decisions) /\ Settles(x, S, {}) /\ S \subseteq Candidates
  BY DEF SubmitterStarts
<1>9. PICK ds : ds = (r \o x) \o bye
  OBVIOUS
<1>10. r \o x \o <<>> \o <<>> \o bye = ds
  <2>1. r \o x \in Seq(Decisions)
    BY <1>6, <1>8
  <2>. QED  BY <1>9, <2>1
<1>11. Settles(ds, S, Invalid)
  <2>1. S \cap Invalid = {}
    BY <1>8, Separate
  <2>2. Settles(r \o x, {} \cup S, Invalid \cup {})
    BY <1>6, <1>8, <2>1, BothSettle
  <2>3. {} \cup S = S /\ Invalid \cup {} = Invalid
    OBVIOUS
  <2>4. Settles(r \o x, S, Invalid)
    BY <2>2, <2>3
  <2>5. Settles(ds, S \cup {}, Invalid \cup {})
    BY <1>7, <1>9, <2>4, BothSettle
  <2>. QED  BY <2>3, <2>5
<1>12. Runs(ds, S)
  BY <1>1, <1>8, <1>10, <1>11 DEF Runs, Queued, Reply, Emit, SubmitterStarts
<1>13. Serves(ds)
  BY <1>5, <1>12, RunningServes
<1>14. Lawful(x)
  <2>1. CASE S = {}
    BY <2>1, NoDecision DEF SubmitterStarts
  <2>2. ASSUME NEW j \in S PROVE Lawful(x)
    <3>1. PICK ms : ms = allocs[j]
      OBVIOUS
    <3>2. /\ ms # {} /\ Cardinality(ms) = size[j] /\ x = <<ExecuteJob(j, ms, clock)>>
          /\ allocations'[j] = ms /\ j \in Jobs /\ ms \in SUBSET Machines
      BY <1>1, <3>1 DEF SubmitterStarts
    <3>3. LegalExecution(ExecuteJob(j, ms, clock))'
      BY <1>2, <3>2 DEF LegalExecution, ExecuteJob
    <3>. QED  BY <1>2, <1>3, <3>2, <3>3, OneExecution
  <2>. QED  BY <2>1, <2>2
<1>15. Lawful(ds)
  <2>1. Lawful(r)
    BY <1>6, OthersLawful DEF Sorts
  <2>2. r \o x \in Seq(Decisions) /\ Lawful(r \o x)
    BY <1>6, <1>8, <1>14, <2>1, BothLawful
  <2>. QED  BY <1>7, <1>9, <2>2, BothLawful
<1>16. Allots(S)
  BY <1>1 DEF SubmitterStarts, Allots
<1>17. StartedIn(ds) = S
  BY <1>11 DEF Settles
<1>18. Introduces(ds)
  BY <1>4, <1>11 DEF Introduces, Settles
<1>. QED  BY <1>2, <1>13, <1>15, <1>16, <1>17, <1>18 DEF SubmitterAnswers, Obeys


\* Concatenation is associative.
Regroups(a, b, c) == a \o (b \o c) = (a \o b) \o c
\* Any three lists of decisions.
LEMMA Associative ==
  ASSUME NEW a \in Seq(Decisions), NEW b \in Seq(Decisions), NEW c \in Seq(Decisions)
  PROVE  Regroups(a, b, c)
BY DEF Regroups

\* The parts of a list of decisions.
IsJoined(y, f, m, l, e, b) ==
  (y \o ((f \o m) \o l)) \o e \o b = ((y \o f) \o m) \o ((l \o e) \o b)
\* They can be joined in any order of the joins.
LEMMA JoinedLists ==
  ASSUME NEW y \in Seq(Decisions), NEW f \in Seq(Decisions), NEW m \in Seq(Decisions),
         NEW l \in Seq(Decisions), NEW e \in Seq(Decisions), NEW b \in Seq(Decisions)
  PROVE  IsJoined(y, f, m, l, e, b)
<1>1. PICK p, r, c : p = f \o m /\ r = l \o e /\ c = (y \o f) \o m
  OBVIOUS
<1>2. p \in Seq(Decisions) /\ r \in Seq(Decisions) /\ c \in Seq(Decisions)
  BY <1>1
<1>3. Regroups(y, p, l) /\ Regroups(y, f, m) /\ Regroups(c, r, b) /\ Regroups(c, l, e)
  BY <1>2, Associative
<1>4. (y \o (p \o l)) \o e \o b = ((c \o l) \o e) \o b
  BY <1>1, <1>3, Zenon DEF Regroups
<1>5. c \o (r \o b) = ((c \o l) \o e) \o b
  BY <1>1, <1>3, Zenon DEF Regroups
<1>. QED  BY <1>1, <1>4, <1>5, Zenon DEF IsJoined

\* The new job was never heard of.
LEMMA NewJobIsFresh ==
  ASSUME Types, JobsOnce, variant = "submitter", own.submitted < NbDynamic
  PROVE  /\ NewJob \in Jobs /\ NewJob \in Dynamic /\ Fresh(NewJob)
         /\ NewJob \notin Released \cup Queued /\ NewProfile \in Nat
         /\ size[NewJob] = 1 /\ own.submitted \in Nat
         /\ registered.acknowledged = own.acknowledged
<1>1. own.submitted \in Nat
  BY DEF Types, AlgorithmTypes, Members
<1>2. NewJob \in Dynamic /\ NewJob \in Jobs /\ NewJob > NbStatic + own.submitted
  BY <1>1, RunLoopAssumption DEF NewJob, Dynamic, Jobs
<1>3. size[NewJob] = 1
  BY <1>2 DEF Types, PlatformTypes
<1>4. status[NewJob] = "future" /\ registered.acknowledged = own.acknowledged
  BY <1>2 DEF JobsOnce, FreshJobs, Fresh
<1>5. NewJob \notin Released \cup Queued
  BY <1>4 DEF JobsOnce, InOnePlace, Waiters
<1>6. NewProfile \in Nat
  BY <1>1 DEF NewProfile
<1>. QED  BY <1>1, <1>2, <1>3, <1>4, <1>5, <1>6 DEF Fresh

\* If a job is submitted, and perhaps started at once.
LEMMA SubmitterSubmitsOne ==
  ASSUME Types, JobsOnce, Deciding, variant = "submitter",
         NEW S, NEW q, NEW free, NEW allocs, NEW x,
         SubmitterStarts(S, q, free, allocs, x), SubmitterSubmits(q, free, allocs, x),
         q = <<>> /\ free # {} /\ own.submitted < NbDynamic
  PROVE  \E ds : SubmitterAnswers(ds)
<1>1. PICK r, n, profile, direct, ms, later, count, execute, bye :
        /\ r = ReleaseDecisions(clock) /\ n = NewJob /\ profile = NewProfile
        /\ direct = ~own.acknowledged /\ ms = Left(free, 1)
        /\ later = (IF direct THEN clock + DirectDelay ELSE clock)
        /\ count = own.submitted + 1
        /\ execute = (IF direct THEN <<ExecuteJob(n, ms, later)>> ELSE <<>>)
        /\ bye = (IF count >= NbDynamic /\ ~own.finishedSent
                   THEN <<SchedulerFinishedSubmitting(later)>> ELSE <<>>)
  OBVIOUS
<1>2. /\ Reply(r \o x \o SubmitDelayJob(n, profile, clock) \o execute \o bye)
      /\ queue' = q /\ available' = (IF direct THEN free \ ms ELSE free)
      /\ allocations' = (IF direct THEN [allocs EXCEPT ![n] = ms] ELSE allocs)
      /\ own' = [own EXCEPT !.submitted = count,
                   !.finishedSent = @ \/ (count >= NbDynamic /\ ~own.finishedSent),
                   !.sent = @ \cup {profile}]
  BY <1>1 DEF SubmitterSubmits
<1>3. /\ n \in Jobs /\ n \in Dynamic /\ Fresh(n) /\ n \notin Released \cup Queued
      /\ profile \in Nat /\ size[n] = 1 /\ own.submitted \in Nat
      /\ registered.acknowledged = own.acknowledged
  BY <1>1, NewJobIsFresh
<1>4. own \in Members("submitter") /\ clock \in Nat
  BY DEF Types, AlgorithmTypes, PlatformTypes
<1>5. direct \in BOOLEAN /\ later \in Nat
  BY <1>1, <1>4, SubmitterAssumption DEF Members
<1>6. UNCHANGED <<variant, size, clock>> /\ recent' = NothingRecent
  BY <1>2 DEF Reply, WriteReply, batsimVars, jobVars, configVars
<1>7. own'.submitted = count /\ own'.acknowledged = own.acknowledged
      /\ own'.sent = own.sent \cup {profile}
  BY <1>2, <1>4 DEF Members
<1>8. CountsOn /\ ~Fresh(n)'
  <2>1. \A j : Fresh(j)' <=> j \in Dynamic /\ j > NbStatic + count
    BY <1>7 DEF Fresh
  <2>2. \A j \in Dynamic : j \in Int
    BY RunLoopAssumption DEF Dynamic
  <2>3. \A j \in Jobs : Fresh(j)' => Fresh(j)
    BY <1>1, <1>3, <2>1, <2>2, RunLoopAssumption DEF Fresh
  <2>4. ~Fresh(n)'
    BY <1>1, <1>3, <2>1, RunLoopAssumption DEF NewJob
  <2>. QED  BY <1>6, <1>7, <2>3, <2>4 DEF CountsOn
<1>9. Settles(r, {}, Invalid) /\ Sorts(r) /\ r \in Seq(Decisions)
  BY <1>1, ReleasesSettle DEF Settles
<1>10. x \in Seq(Decisions) /\ Settles(x, S, {}) /\ S \subseteq Candidates /\ S \subseteq Jobs
       /\ n \notin S /\ n \notin Invalid /\ S \cap Invalid = {}
       /\ S \cup Invalid \subseteq Released \cup Queued
  <2>1. x \in Seq(Decisions) /\ Settles(x, S, {}) /\ S \subseteq Candidates /\ S \subseteq Jobs
    BY DEF SubmitterStarts
  <2>2. S \cap Invalid = {} /\ S \subseteq Released \cup Queued
    BY <2>1, Separate
  <2>3. Invalid \subseteq Released
    BY DEF Invalid
  <2>. QED  BY <1>3, <2>1, <2>2, <2>3
<1>11. /\ ms \subseteq free /\ ms # {} /\ Cardinality(ms) = 1 /\ ms \in SUBSET Machines
  <2>1. free \in SUBSET Machines
    <3>1. FreedMachines \in SUBSET Machines
      BY WhenDeciding
    <3>. QED  BY <3>1 DEF SubmitterStarts
  <2>2. Cardinality(free) \in Nat /\ Cardinality(free) # 0
    BY <2>1, MachinesCounted
  <2>3. 1 \in 0 .. Cardinality(free)
    BY <2>2
  <2>4. ms \subseteq free /\ Cardinality(ms) = 1
    BY <1>1, <2>1, <2>3, LeftAssumption
  <2>5. Cardinality({}) = 0
    BY FS_EmptySet
  <2>6. ASSUME ms = {} PROVE FALSE
    <3>1. Cardinality(ms) = Cardinality({})
      BY <2>6
    <3>. QED  BY <2>4, <2>5, <3>1
  <2>. QED  BY <2>1, <2>4, <2>6
<1>12. PICK d, first, last : Submission(d, first, last, profile)
  BY <1>1, <1>3, SubmissionInOrder
<1>13. /\ first \in Seq(Decisions) /\ last \in Seq(Decisions) /\ d \in Decisions
       /\ SubmitDelayJob(n, profile, clock) = (first \o <<d>>) \o last
       /\ d.type = "REGISTER_JOB" /\ d.job = n /\ d.profile = profile
       /\ Settles(first, {}, {}) /\ Settles(last, {}, {}) /\ Lawful(first) /\ Lawful(last)
  BY <1>1, <1>12 DEF Submission
<1>14. PICK T : T = IF direct THEN {n} ELSE {}
  OBVIOUS
<1>15. Settles(execute, T, {}) /\ execute \in Seq(Decisions) /\ Lawful(execute)
  <2>1. CASE direct
    <3>1. LegalExecution(ExecuteJob(n, ms, later))'
      <4>1. allocations'[n] = ms
        BY <1>2, <1>3, <2>1 DEF SubmitterStarts
      <4>. QED  BY <1>1, <1>3, <1>6, <1>11, <4>1 DEF LegalExecution, ExecuteJob
    <3>2. execute = <<ExecuteJob(n, ms, later)>> /\ T = {n}
      BY <1>1, <1>14, <2>1
    <3>3. later' = later
      OBVIOUS
    <3>. QED  BY <1>3, <1>5, <1>11, <3>1, <3>2, OneExecution
  <2>2. CASE ~direct
    BY <1>1, <1>14, <2>2, NoDecision
  <2>. QED  BY <2>1, <2>2
<1>16. Settles(bye, {}, {}) /\ Lawful(bye) /\ bye \in Seq(Decisions)
  <2>1. CASE bye = <<>>
    BY <2>1, NoDecision
  <2>2. CASE bye = <<SchedulerFinishedSubmitting(later)>>
    <3>1. SchedulerFinishedSubmitting(later) \in Decisions
      BY <1>5, DecisionTypes DEF OnTime
    <3>2. bye \in Seq(Decisions) /\ Len(bye) = 1 /\ bye[1] = SchedulerFinishedSubmitting(later)
      BY <2>2, <3>1
    <3>3. AllOfType(bye, "NOTIFY")
      BY <3>2 DEF AllOfType, SchedulerFinishedSubmitting
    <3>. QED  BY <3>2, <3>3, SideDecisions
  <2>. QED  BY <1>1, <2>1, <2>2
<1>17. PICK a, b, ds : /\ a = (r \o x) \o first /\ b = (last \o execute) \o bye
                       /\ ds = (a \o <<d>>) \o b
  OBVIOUS
<1>18. r \o x \o SubmitDelayJob(n, profile, clock) \o execute \o bye = ds
  <2>1. PICK m, y : m = <<d>> /\ y = r \o x
    OBVIOUS
  <2>2. m \in Seq(Decisions) /\ y \in Seq(Decisions)
    BY <1>9, <1>10, <1>13, <2>1
  <2>3. IsJoined(y, first, m, last, execute, bye)
    BY <1>13, <1>15, <1>16, <2>2, JoinedLists
  <2>. QED  BY <1>13, <1>17, <2>1, <2>3, Zenon DEF IsJoined
<1>19. Settles(a, S, Invalid) /\ a \in Seq(Decisions)
  <2>1. Settles(r \o x, {} \cup S, Invalid \cup {})
    BY <1>9, <1>10, BothSettle
  <2>2. {} \cup S = S /\ Invalid \cup {} = Invalid /\ S \cup {} = S
    OBVIOUS
  <2>3. Settles(r \o x, S, Invalid)
    BY <2>1, <2>2
  <2>4. Settles(a, S \cup {}, Invalid \cup {})
    BY <1>13, <1>17, <2>3, BothSettle
  <2>. QED  BY <2>2, <2>4 DEF Settles
<1>20. Settles(b, T, {}) /\ b \in Seq(Decisions)
  <2>1. Settles(last \o execute, {} \cup T, {} \cup {})
    BY <1>13, <1>15, BothSettle
  <2>2. {} \cup T = T /\ T \cup {} = T /\ {} \cup {} = {}
    OBVIOUS
  <2>3. Settles(last \o execute, T, {})
    BY <2>1, <2>2
  <2>4. Settles(b, T \cup {}, {} \cup {})
    BY <1>16, <1>17, <2>3, BothSettle
  <2>. QED  BY <2>2, <2>4 DEF Settles
<1>21. OneRegistered(ds, d, S, T, Invalid)
  <2>1. T \cap (S \cup Invalid) = {}
    BY <1>10, <1>14
  <2>. QED  BY <1>13, <1>17, <1>19, <1>20, <2>1, OneRegistration
<1>22. PICK at \in 1 .. Len(ds) :
         /\ ds[at] = d
         /\ \A k \in 1 .. Len(ds) : ds[k].type = "REGISTER_JOB" => k = at
         /\ \A k \in 1 .. Len(ds) : IsChoice(ds[k]) =>
              ds[k].job \in S \cup Invalid \/ (ds[k].job \in T /\ at < k)
  BY <1>21 DEF OneRegistered
<1>23. /\ ds \in Seq(Decisions) /\ EachOnce(ds) /\ Len(ds) \in Nat
       /\ StartedIn(ds) = S \cup T /\ ChosenIn(ds) = S \cup T \cup Invalid
  BY <1>21, LenProperties DEF OneRegistered
<1>24. ChoosesWell(ds)
  <2>. SUFFICES ASSUME NEW k \in 1 .. Len(ds), IsChoice(ds[k]),
                       ds[k].job \notin Released \cup Queued
                PROVE  /\ Fresh(ds[k].job) /\ ~registered.acknowledged
                       /\ \E h \in 1 .. k - 1 : Registers(ds[h], ds[k].job)
    BY DEF ChoosesWell
  <2>1. ds[k].job \in T /\ at < k
    BY <1>10, <1>22
  <2>2. ds[k].job = n /\ direct
    BY <1>14, <2>1
  <2>3. at \in 1 .. k - 1
    BY <1>23, <2>1
  <2>. QED  BY <1>1, <1>3, <1>13, <1>22, <2>2, <2>3 DEF Registers
<1>25. RegistersFresh(ds)
  BY <1>3, <1>8, <1>13, <1>22 DEF RegistersFresh, Registers
<1>26. Serves(ds)
  <2>1. outbox' = outbox \o ds
    BY <1>2, <1>18 DEF Reply, Emit
  <2>2. OnePerJob(queue)' /\ Queued' = {}
    BY <1>2 DEF OnePerJob, Queued, JobsOf
  <2>. QED  BY <1>8, <1>23, <1>24, <1>25, <2>1, <2>2 DEF Serves, Writes
<1>27. Lawful(x)
  <2>1. CASE S = {}
    BY <2>1, NoDecision DEF SubmitterStarts
  <2>2. ASSUME NEW j \in S PROVE Lawful(x)
    <3>1. PICK mj : mj = allocs[j]
      OBVIOUS
    <3>2. /\ mj # {} /\ Cardinality(mj) = size[j] /\ x = <<ExecuteJob(j, mj, clock)>>
          /\ j \in Jobs /\ mj \in SUBSET Machines
      BY <3>1 DEF SubmitterStarts
    <3>3. allocations'[j] = mj
      BY <1>2, <1>10, <2>2, <3>1 DEF SubmitterStarts
    <3>4. LegalExecution(ExecuteJob(j, mj, clock))'
      BY <1>6, <3>2, <3>3 DEF LegalExecution, ExecuteJob
    <3>. QED  BY <1>4, <1>6, <3>2, <3>4, OneExecution
  <2>. QED  BY <2>1, <2>2
<1>28. Lawful(ds)
  <2>1. Lawful(r)
    BY <1>9, OthersLawful DEF Sorts
  <2>2. r \o x \in Seq(Decisions) /\ Lawful(r \o x)
    BY <1>9, <1>10, <1>27, <2>1, BothLawful
  <2>3. Lawful(a)
    BY <1>13, <1>17, <2>2, BothLawful
  <2>4. last \o execute \in Seq(Decisions) /\ Lawful(last \o execute)
    BY <1>13, <1>15, BothLawful
  <2>5. Lawful(b)
    BY <1>16, <1>17, <2>4, BothLawful
  <2>6. PICK m : m = <<d>>
    OBVIOUS
  <2>7. m \in Seq(Decisions) /\ Lawful(m)
    <3>1. m \in Seq(Decisions) /\ Len(m) = 1 /\ m[1] = d
      BY <1>13, <2>6
    <3>. QED  BY <1>13, <3>1, OthersLawful
  <2>8. a \o m \in Seq(Decisions) /\ Lawful(a \o m)
    BY <1>19, <2>3, <2>7, BothLawful
  <2>. QED  BY <1>17, <1>20, <2>5, <2>6, <2>8, BothLawful
<1>29. Allots(S \cup T)
  <2>1. /\ FreedMachines \in SUBSET Machines /\ free = FreedMachines \ UNION {allocs[j] : j \in S}
        /\ allocs \in [Jobs -> SUBSET Machines] /\ \A i, j \in S : i = j
        /\ \A j \in Jobs \ S : allocs[j] = WithoutEnded[j]
        /\ \A j \in S : allocs[j] # {} /\ allocs[j] \subseteq FreedMachines
    BY WhenDeciding DEF SubmitterStarts
  <2>2. CASE direct
    <3>1. T = {n} /\ available' = free \ ms /\ allocations' = [allocs EXCEPT ![n] = ms]
      BY <1>2, <1>14, <2>2
    <3>2. /\ allocations'[n] = ms
          /\ \A j \in Jobs \ {n} : allocations'[j] = allocs[j]
      BY <1>3, <2>1, <3>1
    <3>3. \A j \in S : j \in Jobs /\ j # n /\ allocations'[j] = allocs[j]
      BY <1>10, <3>2
    <3>4. UNION {allocations'[j] : j \in S \cup T} = ms \cup UNION {allocs[j] : j \in S}
      BY <3>1, <3>2, <3>3
    <3>5. available' = FreedMachines \ UNION {allocations'[j] : j \in S \cup T}
      BY <2>1, <3>1, <3>4
    <3>6. \A i, j \in S \cup T : i # j => allocations'[i] \cap allocations'[j] = {}
      <4>1. \A j \in S : allocations'[j] \cap ms = {}
        BY <1>11, <2>1, <3>3
      <4>. QED  BY <2>1, <3>1, <3>2, <4>1
    <3>7. \A j \in S \cup T : allocations'[j] # {} /\ allocations'[j] \subseteq FreedMachines
      BY <1>11, <2>1, <3>1, <3>2, <3>3
    <3>8. \A j \in Jobs \ (S \cup T) : allocations'[j] = WithoutEnded[j]
      BY <2>1, <3>1, <3>2
    <3>. QED  BY <3>5, <3>6, <3>7, <3>8 DEF Allots
  <2>3. CASE ~direct
    <3>1. T = {} /\ available' = free /\ allocations' = allocs /\ S \cup T = S
      BY <1>2, <1>14, <2>3
    <3>. QED  BY <2>1, <3>1 DEF Allots
  <2>. QED  BY <1>5, <2>2, <2>3
<1>30. Introduces(ds)
  <2>1. \A p \in own'.sent : p \in own.sent \/ p = profile
    BY <1>7
  <2>2. \/ d.inlined \/ profile \in own.sent
        \/ \E h \in 1 .. at - 1 : Brings(ds[h], profile)
    <3>1. \/ d.inlined \/ profile \in own.sent
          \/ Len(first) > 0 /\ Brings(first[Len(first)], profile)
      BY <1>12 DEF Submission
    <3>2. CASE Len(first) > 0 /\ Brings(first[Len(first)], profile)
      <4>1. PICK y, m, c : y = r \o x /\ m = <<d>> /\ c = a \o m
        OBVIOUS
      <4>2. /\ y \in Seq(Decisions) /\ a = y \o first /\ ds = c \o b
            /\ m \in Seq(Decisions) /\ Len(m) = 1 /\ m[1] = d /\ c \in Seq(Decisions)
        BY <1>9, <1>10, <1>13, <1>17, <1>19, <4>1
      <4>3. /\ Len(y) \in Nat /\ Len(first) \in Nat /\ Len(a) = Len(y) + Len(first)
            /\ Len(c) = Len(a) + 1 /\ Len(b) \in Nat /\ Len(ds) = Len(c) + Len(b)
        <5>1. Len(y) \in Nat /\ Len(first) \in Nat /\ Len(a) = Len(y) + Len(first)
          BY <1>13, <4>2, LenProperties, ConcatProperties
        <5>2. Len(c) = Len(a) + 1
          BY <1>19, <4>1, <4>2, LenProperties, ConcatProperties
        <5>3. Len(b) \in Nat /\ Len(ds) = Len(c) + Len(b)
          BY <1>20, <4>2, LenProperties, ConcatProperties
        <5>. QED  BY <5>1, <5>2, <5>3
      <4>4. a[Len(a)] = first[Len(first)]
        <5>1. Len(a) \in 1 .. Len(y) + Len(first) /\ Len(a) > Len(y) /\ Len(a) - Len(y) = Len(first)
          BY <3>2, <4>3
        <5>. QED  BY <1>13, <4>2, <5>1, ConcatProperties
      <4>5. c[Len(a)] = a[Len(a)] /\ c[Len(a) + 1] = d
        <5>1. Len(a) \in 1 .. Len(a) + Len(m) /\ Len(a) <= Len(a)
              /\ Len(a) + 1 \in 1 .. Len(a) + Len(m) /\ Len(a) + 1 > Len(a)
              /\ Len(a) + 1 - Len(a) = 1
          BY <3>2, <4>2, <4>3
        <5>. QED  BY <1>19, <4>1, <4>2, <5>1, ConcatProperties
      <4>6. ds[Len(a)] = c[Len(a)] /\ ds[Len(a) + 1] = c[Len(a) + 1]
        <5>1. \A k \in {Len(a), Len(a) + 1} : k \in 1 .. Len(c) + Len(b) /\ k <= Len(c)
          BY <3>2, <4>3
        <5>. QED  BY <1>20, <4>2, <5>1, ConcatProperties
      <4>7. at = Len(a) + 1
        <5>1. Len(a) + 1 \in 1 .. Len(ds)
          BY <3>2, <4>3
        <5>. QED  BY <1>13, <1>22, <4>5, <4>6, <5>1
      <4>8. Len(a) \in 1 .. at - 1
        BY <3>2, <4>3, <4>7
      <4>. QED  BY <3>2, <4>4, <4>5, <4>6, <4>8
    <3>. QED  BY <3>1, <3>2
  <2>3. profile \in own.sent \/ \E k \in 1 .. Len(ds) : Brings(ds[k], profile)
    <3>1. CASE d.inlined
      BY <1>13, <1>22, <3>1 DEF Brings
    <3>2. \A h \in 1 .. at - 1 : h \in 1 .. Len(ds)
      BY <1>23
    <3>. QED  BY <2>2, <3>1, <3>2
  <2>. QED  BY <1>13, <1>22, <2>1, <2>2, <2>3 DEF Introduces
<1>. QED  BY <1>6, <1>23, <1>26, <1>28, <1>29, <1>30 DEF SubmitterAnswers, Obeys

\* submitter, whatever it submits.
LEMMA SubmitterServes ==
  ASSUME Types, JobsOnce, SubmitterMakeDecisions
  PROVE  \E ds : SubmitterAnswers(ds)
<1>1. variant = "submitter" /\ Deciding
  BY DEF SubmitterMakeDecisions
<1>. QED  BY <1>1, SubmitterTwice, SubmitterOnlyRuns, SubmitterSubmitsOne

-------------------------------------------------------------------------------
(* Jobs are in one place only, whatever the algorithm.                     *)

\* What make_decisions does.
LEMMA RepliesServe ==
  ASSUME Types, JobsOnce, Replies, variant = "killer2" => NoMachineLost
  PROVE  \E ds : Obeys(ds)
<1>1. MakeDecisions /\ Deciding /\ pc' # "crashed"
  BY DEF Replies, WriteReply
<1>2. CASE KillerMakeDecisions
  BY <1>2, KillerServes
<1>3. CASE Killer2MakeDecisions
  BY <1>3, Killer2Serves DEF Killer2MakeDecisions
<1>4. CASE SequencerMakeDecisions \/ CrasherMakeDecisions \/ DVFSMakeDecisions
  BY <1>1, <1>4, SequencerVariantsServe
<1>5. CASE FillerMakeDecisions
  BY <1>5, FillerServes
<1>6. CASE SleeperMakeDecisions
  BY <1>6, SleeperServes
<1>7. CASE SubmitterMakeDecisions
  BY <1>7, SubmitterServes DEF SubmitterAnswers
<1>8. CASE RejecterMakeDecisions \/ WaitingTimeEstimatorMakeDecisions
  BY <1>8, RejectingServes
<1>9. CASE RandomMakeDecisions
  BY <1>9, RandomServes
<1>10. CASE EnergyWatcherMakeDecisions
  BY <1>10, WatcherServes
<1>. QED  BY <1>1, <1>2, <1>3, <1>4, <1>5, <1>6, <1>7, <1>8, <1>9, <1>10 DEF MakeDecisions

\* Jobs stay in one place.
LEMMA JobsOnceStep ==
  ASSUME Types, LoopIsSound, JobsOnce, [Next]_vars,
         variant = "killer2" /\ Deciding => NoMachineLost
  PROVE  JobsOnce'
<1>1. CASE BatsimActs
  BY <1>1, BatsimKeepsJobsOnce
<1>2. CASE Stands
  BY <1>2, StandingKeepsJobsOnce
<1>3. CASE Hears
  BY <1>3, HearingKeepsJobsOnce
<1>4. CASE Replies
  <2>1. PICK ds : Obeys(ds)
    BY <1>4, RepliesServe DEF Replies
  <2>. QED  BY <1>4, <2>1, ServingKeepsJobsOnce DEF Obeys, Replies
<1>5. CASE SkipDecisions
  BY <1>5, SkippingKeepsJobsOnce
<1>. QED  BY <1>1, <1>2, <1>3, <1>4, <1>5, Kinds

\* At the beginning.
LEMMA JobsOnceInit ==
  ASSUME Init
  PROVE  JobsOnce /\ LoopIsSound
<1>1. /\ Len(inbox) = 1 /\ inbox[1] = Event("SIMULATION_BEGINS") /\ handled = 0
      /\ Len(outbox) = 0 /\ recent = NothingRecent /\ queue = <<>> /\ pc = "batsim"
  BY DEF Init
<1>2. /\ \A j \in Jobs : status[j] = "future" /\ placed[j] = {}
      /\ registered = [profiles |-> {}, finished |-> 0, expected |-> variant = "submitter",
                   acknowledged |-> IF variant = "submitter" THEN own.acknowledged ELSE TRUE]
      /\ variant # "sequencer_dvfs" => nopCalls
  BY DEF Init
<1>3. \A type : type # "SIMULATION_BEGINS" => ToTell(type) = {}
  <2>1. \A k \in Untold : inbox[k].type = "SIMULATION_BEGINS"
    <3>1. \A k \in Untold : k = 1
      BY <1>1 DEF Untold
    <3>. QED  BY <1>1, <3>1 DEF Event
  <2>. QED  BY <2>1 DEF ToTell, TellsOf
<1>4. Announced = {} /\ Released = {} /\ Queued = {} /\ Waiters = {}
  <2>1. Announced = {}
    BY <1>3 DEF Announced
  <2>2. recent.released = <<>>
    BY <1>1 DEF NothingRecent
  <2>3. Released = {} /\ Queued = {}
    BY <1>1, <2>2 DEF Released, ToSet, Queued, JobsOf
  <2>. QED  BY <2>1, <2>3 DEF Waiters
<1>5. AnnouncedOnce /\ EachOnce(outbox) /\ OnePerJob(queue) /\ IsInjective(recent.released)
  <2>1. AnnouncedOnce
    <3>1. \A k \in Untold : k = 1
      BY <1>1 DEF Untold
    <3>. QED  BY <3>1 DEF AnnouncedOnce
  <2>2. recent.released = <<>>
    BY <1>1 DEF NothingRecent
  <2>. QED  BY <1>1, <2>1, <2>2 DEF EachOnce, OnePerJob, IsInjective
<1>6. registered \in [profiles : SUBSET Nat, finished : Nat, expected : BOOLEAN,
                      acknowledged : BOOLEAN]
      /\ (variant = "submitter" => registered.acknowledged = own.acknowledged)
  <2>1. variant = "submitter" => own.acknowledged \in BOOLEAN
    <3>1. variant = "submitter" => own \in SubmitterOptions
      BY DEF Init, OptionsOf
    <3>2. \A o \in SubmitterOptions : o.acknowledged \in BOOLEAN
      BY SubmitterAssumption DEF SubmitterOptions
    <3>. QED  BY <3>1, <3>2
  <2>. QED  BY <1>2, <2>1
<1>7. LoopIsSound
  BY <1>1, <1>2, <1>6 DEF LoopIsSound, Registry, Deciding
<1>8. InOnePlace
  BY <1>4, <1>5 DEF InOnePlace, WaitingOnce
<1>9. ChoicesAreReady /\ RegisteredOnce /\ FreshJobs /\ OnlyRunningPlaced
  <2>1. \A k \in 1 .. Len(outbox) : FALSE
    BY <1>1
  <2>2. ChoicesAreReady /\ RegisteredOnce
    BY <2>1 DEF ChoicesAreReady, RegisteredOnce
  <2>3. FreshJobs
    BY <1>2, <1>6, <2>1 DEF FreshJobs
  <2>. QED  BY <1>2, <2>2, <2>3 DEF OnlyRunningPlaced
<1>. QED  BY <1>7, <1>8, <1>9 DEF JobsOnce

-------------------------------------------------------------------------------
(* What is in hand.                                                        *)

\* Between the messages only sequencer_dvfs decides anything, and then it starts
\* nothing.
Plain(d) == d.type \in {"CALL_ME_LATER", "SET_RESOURCE_STATE"}
Alternation == pc \in {"events", "decide"} =>
  /\ \A k \in 1 .. Len(outbox) : Plain(outbox[k])
  /\ variant # "sequencer_dvfs" => outbox = <<>>

EndedAreDone == \A j \in Ended : status[j] = "done"

\* No job is in hand, nor has any machine, before the simulation begins.
FirstBegins == ~Begun => InHand = {} /\ \A j \in Jobs : allocations[j] = {}

\* The decisions that Batsim has to apply.
LegalOutbox == \A k \in 1 .. Len(outbox) : Legal(outbox[k])

\* What holds for every algorithm.
HandIsSound == Alternation /\ EndedAreDone /\ FirstBegins /\ LegalOutbox

\* What is decided about a job finds it waiting, at the head of the decisions.
LEMMA ReadyAtHead ==
  ASSUME Types, JobsOnce, TakesDecision, IsChoice(Decision)
  PROVE  Decision.job \in Jobs /\ status[Decision.job] = "waiting"
<1>1. Len(outbox) \in Nat \ {0} /\ Decision = outbox[1] /\ Decision \in Decisions
  BY Taken
<1>2. Decision.job \in Jobs
  BY <1>1 DEF Decisions, IsChoice
<1>3. \A h \in 1 .. 1 - 1 : FALSE
  OBVIOUS
<1>. QED  BY <1>1, <1>2, <1>3 DEF JobsOnce, ChoicesAreReady

\* What Batsim does leaves in hand what is in hand: a job starts or ends.
LEMMA BatsimLeavesInHand ==
  ASSUME Types, JobsOnce, EndedAreDone, BatsimActs
  PROVE  UNCHANGED InHand /\ EndedAreDone'
<1>1. UNCHANGED EndedJobs
  BY DEF BatsimActs, Quiet, schedVars, loopVars, EndedJobs
<1>2. status \in [Jobs -> Statuses]
  BY DEF Types, PlatformTypes
<1>3. EndedJobs \subseteq Jobs /\ Completed \subseteq Jobs
  <2>1. recent.ended \in Seq(Jobs)
    BY DEF Types, LoopTypes, Accumulators
  <2>2. \A k \in DOMAIN recent.ended : recent.ended[k] \in Jobs
    BY <2>1, ElementOfSeq, LenProperties
  <2>. QED  BY <2>2 DEF EndedJobs, ToSet, Completed, ToTell
<1>4. KeepsDecisions => UNCHANGED StartedIn(outbox)
  BY DEF KeepsDecisions
<1>5. TakesDecision => StartedIn(outbox)
        = StartedIn(outbox)' \cup IF Decision.type = "EXECUTE_JOB" THEN {Decision.job} ELSE {}
  BY TakenOnce
<1>6. ASSUME NEW j \in Jobs, Arrives(j) \/ IsAskedAbout(j)
      PROVE  UNCHANGED InHand /\ EndedAreDone'
  <2>1. /\ status[j] = "future" /\ KeepsDecisions /\ Completed' = Completed
        /\ \E s \in {"waiting", "potential"} : status' = [status EXCEPT ![j] = s]
    BY <1>6 DEF Arrives, IsAskedAbout, NoJobNews
  <2>2. Running' = Running
    BY <1>2, <2>1 DEF Running
  <2>3. j \notin Ended
    BY <2>1 DEF EndedAreDone
  <2>. QED  BY <1>1, <1>2, <1>3, <1>4, <2>1, <2>2, <2>3 DEF InHand, Ended, EndedAreDone
<1>7. ASSUME NEW j \in Jobs, Finishes(j)
      PROVE  UNCHANGED InHand /\ EndedAreDone'
  <2>1. /\ status[j] = "running" /\ KeepsDecisions /\ Completed' = Completed \cup {j}
        /\ status' = [status EXCEPT ![j] = "done"]
    BY <1>7 DEF Finishes
  <2>2. Running' \cup {j} = Running
    BY <1>2, <2>1 DEF Running
  <2>3. Running' \cup Completed' = Running \cup Completed
    BY <2>1, <2>2
  <2>. QED  BY <1>1, <1>2, <1>3, <1>4, <2>1, <2>3 DEF InHand, Ended, EndedAreDone
<1>8. ASSUME NEW j \in Jobs, Starts(j)
      PROVE  UNCHANGED InHand /\ EndedAreDone'
  <2>1. /\ TakesDecision /\ Decision.type = "EXECUTE_JOB" /\ Decision.job = j
        /\ Completed' = Completed /\ status' = [status EXCEPT ![j] = "running"]
    BY <1>8 DEF Starts, NoJobNews
  <2>2. status[j] = "waiting"
    BY <2>1, ReadyAtHead DEF IsChoice
  <2>3. Running' = Running \cup {j} /\ StartedIn(outbox) = StartedIn(outbox)' \cup {j}
    BY <1>2, <1>5, <2>1 DEF Running
  <2>4. j \notin Ended
    BY <2>2 DEF EndedAreDone
  <2>. QED  BY <1>1, <1>2, <1>3, <2>1, <2>3, <2>4 DEF InHand, Ended, EndedAreDone
<1>9. ASSUME NEW j \in Jobs, IsRejected(j) \/ IsRegistered(j)
      PROVE  UNCHANGED InHand /\ EndedAreDone'
  <2>1. /\ TakesDecision /\ Decision.type # "EXECUTE_JOB" /\ Completed' = Completed
        /\ Decision.job = j
        /\ \E s \in {"rejected", "waiting"} : status' = [status EXCEPT ![j] = s]
    BY <1>9 DEF IsRejected, IsRegistered, Registers, NoJobNews
  <2>2. status[j] \in {"waiting", "future"}
    <3>1. CASE IsRejected(j)
      BY <2>1, <3>1, ReadyAtHead DEF IsRejected, IsChoice
    <3>2. CASE IsRegistered(j)
      <4>1. Decision.type = "REGISTER_JOB" /\ TakesDecision
        BY <3>2 DEF IsRegistered, Registers
      <4>2. 1 \in 1 .. Len(outbox) /\ Decision = outbox[1]
        BY <4>1, Taken
      <4>. QED  BY <2>1, <4>1, <4>2 DEF JobsOnce, RegisteredOnce
    <3>. QED  BY <1>9, <3>1, <3>2
  <2>3. Running' = Running /\ StartedIn(outbox) = StartedIn(outbox)'
    BY <1>2, <1>5, <2>1, <2>2 DEF Running
  <2>4. j \notin Ended
    BY <2>2 DEF EndedAreDone
  <2>. QED  BY <1>1, <1>2, <1>3, <2>1, <2>3, <2>4 DEF InHand, Ended, EndedAreDone
<1>10. CASE NoJobMoves
  <2>1. Running' = Running /\ Completed' = Completed /\ UNCHANGED status
    BY <1>10 DEF NoJobMoves, NoJobNews, Running
  <2>2. StartedIn(outbox) = StartedIn(outbox)'
    <3>1. CASE TakesDecision /\ ~IsChoice(Decision)
      BY <1>5, <3>1 DEF IsChoice
    <3>. QED  BY <1>4, <1>10, <3>1 DEF NoJobMoves
  <2>. QED  BY <1>1, <2>1, <2>2 DEF InHand, Ended, EndedAreDone
<1>. QED  BY <1>6, <1>7, <1>8, <1>9, <1>10 DEF BatsimActs, JobMoves


\* Before the reply, nothing that is decided starts a job.
LEMMA PlainStartsNone ==
  ASSUME Types, \A k \in 1 .. Len(outbox) : Plain(outbox[k])
  PROVE  StartedIn(outbox) = {} /\ ChosenIn(outbox) = {}
BY DEF Plain, StartedIn, ChosenIn, IsChoice

\* A message is sent, an event is handled, or make_decisions is skipped.
Listens == Stands \/ Hears \/ (SkipDecisions /\ handled = Len(inbox))

\* While batsched listens, no job comes in hand or leaves it.
LEMMA ListeningLeavesInHand ==
  ASSUME Types, LoopIsSound, Listens
  PROVE  UNCHANGED <<InHand, Running, Ended, status, size, placed, kills, clock>>
         /\ UNCHANGED <<variant, queue, allocations, registered>>
<1>1. CASE Stands
  BY <1>1 DEF Stands, schedVars, configVars, algoVars, loopVars, batsimVars, jobVars, InHand,
     Running, Ended, EndedJobs, Completed, ToTell, Untold, TellsOf
<1>2. CASE Hears
  <2>1. /\ UNCHANGED <<Ended, status, size, placed, kills, clock, variant, queue, allocations,
                       registered>>
    BY <1>2 DEF Hears, Receives, batsimVars, jobVars, configVars
  <2>2. Running' = Running
    BY <2>1 DEF Running
  <2>3. StartedIn(outbox') = StartedIn(outbox)
    <3>1. CASE UNCHANGED outbox
      BY <3>1
    <3>2. ASSUME NEW ds \in Seq(Asides), outbox' = outbox \o ds
          PROVE  StartedIn(outbox') = StartedIn(outbox)
      <4>1. StartedIn(ds) = {} /\ ds \in Seq(Decisions)
        BY AsidesSettleNothing DEF Settles
      <4>2. outbox \in Seq(Decisions)
        BY DEF Types, SocketTypes
      <4>3. StartedIn(outbox \o ds) = StartedIn(outbox) \cup StartedIn(ds)
        BY <4>1, <4>2, JobsOfLists
      <4>. QED  BY <3>2, <4>1, <4>3
    <3>. QED  BY <1>2, <3>1, <3>2 DEF Hears, OutboxHeard
  <2>4. StartedIn(outbox)' = StartedIn(outbox)
    BY <2>3 DEF StartedIn
  <2>. QED  BY <2>1, <2>2, <2>4 DEF InHand
<1>3. CASE SkipDecisions /\ handled = Len(inbox)
  <2>1. UNCHANGED <<status, size, placed, kills, clock, variant, queue, allocations,
                    registered, outbox, recent>>
    BY <1>3 DEF SkipDecisions, WriteReply, batsimVars, jobVars, configVars, algoVars
  <2>2. Completed = {} /\ Completed' = {}
    BY <1>3, AllTold, NothingToTell DEF SkipDecisions
  <2>3. Running' = Running /\ Ended' = Ended
    BY <2>1, <2>2 DEF Running, Ended, EndedJobs
  <2>. QED  BY <2>1, <2>3 DEF InHand
<1>. QED  BY <1>1, <1>2, <1>3 DEF Listens

\* A decision stays legal as long as what it relies on stays.
LEMMA LegalStill ==
  ASSUME NEW d, Legal(d), UNCHANGED <<variant, allocations>>,
         d.type = "EXECUTE_JOB" => size'[d.job] = size[d.job],
         variant = "sleeper" => UNCHANGED own.computing
  PROVE  Legal(d)'
BY DEF Legal, LegalExecution, LegalSwitch, ChecksAllocations

\* So the decisions stay legal while Batsim applies them.
LEMMA BatsimKeepsLegal ==
  ASSUME Types, JobsOnce, LegalOutbox, BatsimActs
  PROVE  LegalOutbox'
<1>1. UNCHANGED <<variant, allocations, own>>
  BY DEF BatsimActs, Quiet, schedVars, configVars, algoVars
<1>2. KeepsDecisions \/ TakesDecision
  BY DEF BatsimActs, SwitchMoves, IsSwitched, IsOrdered
<1>3. ASSUME NEW k \in 1 .. Len(outbox)
      PROVE  outbox[k].type = "EXECUTE_JOB" => size'[outbox[k].job] = size[outbox[k].job]
  <2>. SUFFICES ASSUME outbox[k].type = "EXECUTE_JOB"
                PROVE  size'[outbox[k].job] = size[outbox[k].job]
    OBVIOUS
  <2>1. outbox[k].job \in Jobs
    <3>1. outbox[k] \in Decisions
      BY ElementOfSeq DEF Types, SocketTypes
    <3>. QED  BY <3>1 DEF Decisions
  <2>2. ASSUME NEW j \in Jobs, Arrives(j)
        PROVE  size'[outbox[k].job] = size[outbox[k].job]
    <3>1. Unconcerned(j) /\ \A i \in Jobs \ {j} : size'[i] = size[i]
      BY <2>2, Elsewhere DEF Arrives
    <3>. QED  BY <2>1, <3>1 DEF Unconcerned, IsChoice
  <2>3. CASE UNCHANGED size
    BY <2>3
  <2>. QED  BY <2>2, <2>3 DEF BatsimActs, JobMoves, IsAskedAbout, Finishes, Starts, IsRejected,
            IsRegistered, NoJobMoves
<1>4. ASSUME NEW d, NEW k \in 1 .. Len(outbox), d = outbox[k]
      PROVE  Legal(d)'
  <2>1. Legal(d) /\ (d.type = "EXECUTE_JOB" => size'[d.job] = size[d.job])
    BY <1>3, <1>4 DEF LegalOutbox
  <2>. QED  BY <1>1, <2>1, LegalStill
<1>5. ASSUME NEW k \in 1 .. Len(outbox')
      PROVE  Legal(outbox[k])'
  <2>1. PICK d : d = outbox'[k]
    OBVIOUS
  <2>2. \E h \in 1 .. Len(outbox) : d = outbox[h]
    <3>1. CASE KeepsDecisions
      BY <2>1, <3>1 DEF KeepsDecisions
    <3>2. CASE TakesDecision
      BY <2>1, <3>2, Taken
    <3>. QED  BY <1>2, <3>1, <3>2
  <2>3. Legal(d)'
    BY <1>4, <2>2
  <2>. QED  BY <2>1, <2>3 DEF Legal, LegalExecution, LegalSwitch, ChecksAllocations
<1>. QED  BY <1>5 DEF LegalOutbox

\* They stay legal while batsched listens.
LEMMA ListeningKeepsLegal ==
  ASSUME Types, LoopIsSound, LegalOutbox, Listens
  PROVE  LegalOutbox'
<1>1. UNCHANGED <<variant, allocations, size>>
  BY ListeningLeavesInHand
<1>2. variant = "sleeper" => UNCHANGED own.computing
  <2>. SUFFICES ASSUME variant = "sleeper" PROVE UNCHANGED own.computing
    OBVIOUS
  <2>1. CASE UNCHANGED own
    BY <2>1
  <2>2. CASE \E b \in BOOLEAN : own' = [own EXCEPT !.finished = b]
    <3>1. own \in Members("sleeper")
      BY DEF Types, AlgorithmTypes
    <3>. QED  BY <2>2, <3>1 DEF Members
  <2>. QED  BY <2>1, <2>2 DEF Listens, Stands, schedVars, algoVars, Hears, OwnHeard, SkipDecisions
<1>3. ASSUME NEW d, NEW k \in 1 .. Len(outbox), d = outbox[k]
      PROVE  Legal(d)'
  <2>1. Legal(d)
    BY <1>3 DEF LegalOutbox
  <2>. QED  BY <1>1, <1>2, <2>1, LegalStill
<1>4. ASSUME NEW d \in Asides, variant = "sequencer_dvfs"
      PROVE  Legal(d)'
  BY <1>1, <1>4 DEF Asides, Legal, LegalSwitch
<1>5. ASSUME NEW k \in 1 .. Len(outbox')
      PROVE  Legal(outbox[k])'
  <2>1. PICK d : d = outbox'[k]
    OBVIOUS
  <2>2. Legal(d)'
    <3>1. CASE outbox' = outbox
      BY <1>3, <2>1, <3>1
    <3>2. ASSUME NEW ds \in Seq(Asides), outbox' = outbox \o ds, variant = "sequencer_dvfs"
          PROVE  Legal(d)'
      <4>1. ds \in Seq(Decisions) /\ outbox \in Seq(Decisions)
        BY AsidesSettleNothing DEF Settles, Types, SocketTypes
      <4>2. PICK c : c = outbox'
        OBVIOUS
      <4>3. \/ \E h \in 1 .. Len(outbox) : c[k] = outbox[h]
            \/ \E h \in 1 .. Len(ds) : c[k] = ds[h]
        <5>1. FromEither(c, outbox, ds)
          BY <3>2, <4>1, <4>2, EitherElement
        <5>2. k \in 1 .. Len(c)
          BY <4>2
        <5>. QED  BY <5>1, <5>2 DEF FromEither
      <4>4. \A h \in 1 .. Len(ds) : ds[h] \in Asides
        BY ElementOfSeq
      <4>. QED  BY <1>3, <1>4, <2>1, <3>2, <4>2, <4>3, <4>4
    <3>. QED  BY <3>1, <3>2 DEF Listens, Stands, Hears, OutboxHeard, SkipDecisions
  <2>. QED  BY <2>1, <2>2 DEF Legal, LegalExecution, LegalSwitch, ChecksAllocations
<1>. QED  BY <1>5 DEF LegalOutbox


\* The alternation, from one step to the next.
LEMMA AlternationStep ==
  ASSUME Types, LoopIsSound, Alternation, [Next]_vars
  PROVE  Alternation'
<1>1. CASE BatsimActs \/ Replies \/ SkipDecisions
  BY <1>1 DEF BatsimActs, Quiet, AtWork, Replies, SkipDecisions, WriteReply, Alternation
<1>2. CASE Stands
  <2>1. CASE outbox = <<>>
    <3>1. outbox' = <<>> /\ Len(outbox') = 0
      BY <1>2, <2>1 DEF Stands
    <3>. QED  BY <3>1 DEF Alternation
  <2>2. CASE outbox # <<>>
    BY <1>2, <2>2 DEF Stands, Alternation, schedVars, configVars
  <2>. QED  BY <2>1, <2>2
<1>3. CASE Hears
  <2>1. pc = "events" /\ variant' = variant
    BY <1>3 DEF Hears, Receives, Handling, configVars
  <2>2. (\A k \in 1 .. Len(outbox) : Plain(outbox[k]))
        /\ (variant # "sequencer_dvfs" => outbox = <<>>)
    BY <2>1 DEF Alternation
  <2>3. CASE UNCHANGED outbox
    BY <2>1, <2>2, <2>3 DEF Alternation
  <2>4. ASSUME NEW ds \in Seq(Asides), outbox' = outbox \o ds, variant = "sequencer_dvfs"
        PROVE  Alternation'
    <3>1. ds \in Seq(Decisions) /\ outbox \in Seq(Decisions)
      BY AsidesSettleNothing DEF Settles, Types, SocketTypes
    <3>2. PICK c : c = outbox'
      OBVIOUS
    <3>3. \A k \in 1 .. Len(c) : \/ \E h \in 1 .. Len(outbox) : c[k] = outbox[h]
                                 \/ \E h \in 1 .. Len(ds) : c[k] = ds[h]
      <4>1. FromEither(c, outbox, ds)
        BY <2>4, <3>1, <3>2, EitherElement
      <4>. QED  BY <4>1 DEF FromEither
    <3>4. \A h \in 1 .. Len(ds) : ds[h] \in Asides
      BY ElementOfSeq
    <3>5. \A k \in 1 .. Len(c) : Plain(c[k])
      BY <2>2, <3>3, <3>4 DEF Plain, Asides
    <3>. QED  BY <2>1, <2>4, <3>2, <3>5 DEF Alternation, Plain
  <2>. QED  BY <1>3, <2>3, <2>4 DEF Hears, OutboxHeard
<1>. QED  BY <1>1, <1>2, <1>3, Kinds

\* Every step but the reply.
LEMMA HandKept ==
  ASSUME Types, LoopIsSound, JobsOnce, HandIsSound, BatsimActs \/ Listens, [Next]_vars
  PROVE  HandIsSound' /\ UNCHANGED InHand
<1>1. Alternation'
  BY AlternationStep DEF HandIsSound
<1>2. UNCHANGED InHand /\ EndedAreDone' /\ UNCHANGED allocations /\ (Begun => Begun')
  <2>1. CASE BatsimActs
    BY <2>1, BatsimLeavesInHand DEF HandIsSound, BatsimActs, Quiet, schedVars, algoVars
  <2>2. CASE Listens
    <3>1. UNCHANGED <<InHand, Ended, status, allocations>>
      BY <2>2, ListeningLeavesInHand
    <3>2. Begun => Begun'
      BY <2>2, NothingToTell DEF Listens, Stands, Hears, SkipDecisions, Begun, Untold
    <3>. QED  BY <3>1, <3>2 DEF HandIsSound, EndedAreDone
  <2>. QED  BY <2>1, <2>2
<1>3. FirstBegins'
  BY <1>2 DEF HandIsSound, FirstBegins
<1>4. LegalOutbox'
  BY BatsimKeepsLegal, ListeningKeepsLegal DEF HandIsSound
<1>. QED  BY <1>1, <1>2, <1>3, <1>4 DEF HandIsSound

\* The reply, seen from the jobs in hand.
Answered(ds) ==
  /\ Begun /\ Begun' /\ InHand = Running \cup EndedJobs /\ Running \cap EndedJobs = {}
  /\ Running' = Running /\ InHand' = Running \cup StartedIn(ds)
  /\ StartedIn(ds) \subseteq Jobs /\ StartedIn(ds) \cap Running = {}
  /\ StartedIn(outbox) = {} /\ StartedIn(outbox)' = StartedIn(ds)

\* What starts waited until then.
LEMMA StartsWaited ==
  ASSUME JobsOnce, NEW ds, Writes(ds)
  PROVE  \A j \in StartedIn(ds) : status[j] \in {"waiting", "future"}
<1>. SUFFICES ASSUME NEW j \in StartedIn(ds) PROVE status[j] \in {"waiting", "future"}
  OBVIOUS
<1>1. PICK k \in 1 .. Len(ds) : ds[k].type = "EXECUTE_JOB" /\ ds[k].job = j
  BY DEF StartedIn
<1>2. j \in Released \cup Queued \/ (variant = "submitter" /\ Fresh(j))
  BY <1>1 DEF Writes, ChoosesWell, IsChoice
<1>3. CASE j \in Released \cup Queued
  BY <1>3 DEF JobsOnce, InOnePlace, Waiters
<1>4. CASE variant = "submitter" /\ Fresh(j)
  BY <1>4 DEF JobsOnce, FreshJobs, StartedIn
<1>. QED  BY <1>2, <1>3, <1>4

\* A reply puts in hand the jobs it starts, and lets go of those that ended.
LEMMA HandAnswered ==
  ASSUME Types, LoopIsSound, JobsOnce, HandIsSound, Replies, NEW ds, Obeys(ds)
  PROVE  HandIsSound' /\ Answered(ds)
<1>1. /\ Deciding /\ WriteReply /\ UNCHANGED <<status, variant>> /\ pc' \in {"over", "batsim"}
  BY DEF Replies, WriteReply, batsimVars, jobVars, configVars
<1>2. /\ outbox \in Seq(Decisions) /\ ds \in Seq(Decisions) /\ outbox' = outbox \o ds
      /\ Lawful(ds) /\ recent' = NothingRecent /\ Writes(ds)
  BY DEF Obeys, Serves, Writes, Types, SocketTypes
<1>3. (\A k \in 1 .. Len(outbox) : Plain(outbox[k]))
      /\ (variant # "sequencer_dvfs" => outbox = <<>>)
  BY <1>1 DEF HandIsSound, Alternation, Deciding
<1>4. Completed = {} /\ Completed' = {} /\ Begun /\ Begun'
  <2>1. handled = Len(inbox)
    BY <1>1 DEF LoopIsSound
  <2>. QED  BY <1>1, <2>1, AllTold, NothingToTell
<1>5. StartedIn(outbox) = {}
  BY <1>3, PlainStartsNone
<1>6. StartedIn(outbox)' = StartedIn(ds) /\ StartedIn(ds) \subseteq Jobs
  <2>1. StartedIn(outbox \o ds) = StartedIn(outbox) \cup StartedIn(ds)
    BY <1>2, JobsOfLists
  <2>2. StartedIn(outbox') = StartedIn(ds)
    BY <1>2, <1>5, <2>1
  <2>3. StartedIn(outbox)' = StartedIn(outbox')
    BY DEF StartedIn
  <2>. QED  BY <2>2, <2>3 DEF StartedIn
<1>7. Ended = EndedJobs /\ Ended' = {}
  <2>1. recent'.ended = <<>>
    BY <1>2 DEF NothingRecent
  <2>2. EndedJobs' = {}
    BY <2>1 DEF EndedJobs, ToSet
  <2>. QED  BY <1>4, <2>2 DEF Ended
<1>8. Running' = Running
  BY <1>1 DEF Running
<1>9. Running \cap EndedJobs = {}
  BY <1>7 DEF HandIsSound, EndedAreDone, Running
<1>10. StartedIn(ds) \cap Running = {}
  BY <1>2, StartsWaited DEF Running
<1>11. Answered(ds)
  BY <1>4, <1>5, <1>6, <1>7, <1>8, <1>9, <1>10 DEF Answered, InHand
<1>12. ASSUME NEW k \in 1 .. Len(outbox')
       PROVE  Legal(outbox[k])'
  <2>1. PICK c, d : c = outbox' /\ d = c[k]
    OBVIOUS
  <2>2. \/ \E h \in 1 .. Len(outbox) : d = outbox[h]
        \/ \E h \in 1 .. Len(ds) : d = ds[h]
    <3>1. c = outbox \o ds /\ k \in 1 .. Len(c)
      BY <1>2, <2>1
    <3>2. \/ \E h \in 1 .. Len(outbox) : c[k] = outbox[h]
          \/ \E h \in 1 .. Len(ds) : c[k] = ds[h]
      <4>1. FromEither(c, outbox, ds)
        BY <1>2, <3>1, EitherElement
      <4>. QED  BY <3>1, <4>1 DEF FromEither
    <3>. QED  BY <2>1, <3>2
  <2>3. ASSUME NEW h \in 1 .. Len(outbox), d = outbox[h] PROVE Legal(d)'
    <3>1. variant = "sequencer_dvfs"
      BY <1>3
    <3>2. Legal(d) /\ Plain(d)
      BY <1>3, <2>3 DEF HandIsSound, LegalOutbox
    <3>. QED  BY <1>1, <3>1, <3>2 DEF Legal, LegalSwitch, Plain
  <2>4. ASSUME NEW h \in 1 .. Len(ds), d = ds[h] PROVE Legal(d)'
    <3>1. Legal(ds[h])'
      BY <1>2 DEF Lawful
    <3>. QED  BY <2>4, <3>1 DEF Legal, LegalExecution, LegalSwitch, ChecksAllocations
  <2>5. Legal(d)'
    BY <2>2, <2>3, <2>4
  <2>. QED  BY <2>1, <2>5 DEF Legal, LegalExecution, LegalSwitch, ChecksAllocations
<1>13. HandIsSound'
  <2>1. EndedAreDone' /\ FirstBegins'
    BY <1>4, <1>7 DEF EndedAreDone, FirstBegins
  <2>2. Alternation' /\ LegalOutbox'
    BY <1>1, <1>12 DEF Alternation, LegalOutbox
  <2>. QED  BY <2>1, <2>2 DEF HandIsSound
<1>. QED  BY <1>11, <1>13

\* At the beginning.
LEMMA HandInit ==
  ASSUME Init
  PROVE  HandIsSound
<1>1. /\ pc = "batsim" /\ outbox = <<>> /\ Len(outbox) = 0 /\ recent = NothingRecent
      /\ inbox = <<Event("SIMULATION_BEGINS")>> /\ handled = 0
      /\ \A j \in Jobs : status[j] = "future" /\ allocations[j] = {}
  BY DEF Init
<1>2. Completed = {}
  <2>1. \A k \in Untold : k = 1
    BY <1>1 DEF Untold
  <2>2. inbox[1].type = "SIMULATION_BEGINS"
    BY <1>1 DEF Event
  <2>. QED  BY <2>1, <2>2 DEF Completed, ToTell, TellsOf
<1>3. EndedJobs = {} /\ Running = {} /\ StartedIn(outbox) = {}
  <2>1. recent.ended = <<>>
    BY <1>1 DEF NothingRecent
  <2>. QED  BY <1>1, <2>1 DEF EndedJobs, ToSet, Running, StartedIn
<1>. QED  BY <1>1, <1>2, <1>3 DEF HandIsSound, Alternation, EndedAreDone, FirstBegins,
          LegalOutbox, InHand, Ended

-------------------------------------------------------------------------------
(* The books of the algorithms that keep allocations.                      *)

HasAllocation == {j \in Jobs : allocations[j] # {}}
Disjoint      == \A i, j \in Jobs : i # j => allocations[i] \cap allocations[j] = {}
AvailableRest == Begun => available = Machines \ UNION {allocations[j] : j \in Jobs}
PlacedThere   == \A j \in Running : placed[j] = allocations[j]

\* killer, filler and submitter give machines to the jobs that they have in
\* hand, each its own, and know the others to be available.
Allocates == variant \in {"killer", "filler", "submitter"}
AllocationBooks ==
  Allocates => HasAllocation = InHand /\ Disjoint /\ AvailableRest /\ PlacedThere

\* The machines that a job is started on are those of the books.
LEMMA StartsThere ==
  ASSUME Types, JobsOnce, LegalOutbox, ChecksAllocations, BatsimActs,
         \A j \in Running : allocations[j] # {} => placed[j] = allocations[j]
  PROVE  \A j \in Running' : allocations'[j] # {} => placed'[j] = allocations'[j]
<1>. SUFFICES ASSUME NEW i \in Running', allocations'[i] # {} PROVE placed'[i] = allocations'[i]
  OBVIOUS
<1>1. UNCHANGED allocations
  BY DEF BatsimActs, Quiet, schedVars, algoVars
<1>2. status \in [Jobs -> Statuses] /\ placed \in [Jobs -> SUBSET Machines]
      /\ i \in Jobs /\ status'[i] = "running"
  BY DEF Types, PlatformTypes, Running
<1>3. ASSUME NEW j \in Jobs, Starts(j) PROVE placed'[i] = allocations'[i]
  <2>1. placed' = [placed EXCEPT ![j] = Decision.machines]
        /\ status' = [status EXCEPT ![j] = "running"]
    BY <1>3 DEF Starts
  <2>2. CASE i = j
    <3>1. 1 \in 1 .. Len(outbox) /\ Decision = outbox[1] /\ Decision.type = "EXECUTE_JOB"
          /\ Decision.job = j
      BY <1>3, Taken DEF Starts
    <3>2. Legal(Decision)
      BY <3>1 DEF LegalOutbox
    <3>3. Decision.machines = allocations[j]
      BY <3>1, <3>2 DEF Legal, LegalExecution
    <3>. QED  BY <1>1, <1>2, <2>1, <2>2, <3>3
  <2>3. CASE i # j
    BY <1>1, <1>2, <2>1, <2>3 DEF Running
  <2>. QED  BY <2>2, <2>3
<1>4. ASSUME NEW j \in Jobs, Arrives(j) \/ IsAskedAbout(j) \/ IsRejected(j) \/ IsRegistered(j)
      PROVE  placed'[i] = allocations'[i]
  <2>1. placed' = placed /\ \E s \in {"waiting", "potential", "rejected"} :
                              status' = [status EXCEPT ![j] = s]
    BY <1>4 DEF Arrives, IsAskedAbout, IsRejected, IsRegistered
  <2>. QED  BY <1>1, <1>2, <2>1 DEF Running
<1>5. ASSUME NEW j \in Jobs, Finishes(j)
      PROVE  placed'[i] = allocations'[i]
  <2>1. placed' = [placed EXCEPT ![j] = {}] /\ status' = [status EXCEPT ![j] = "done"]
    BY <1>5 DEF Finishes
  <2>. QED  BY <1>1, <1>2, <2>1 DEF Running
<1>6. CASE NoJobMoves
  BY <1>1, <1>2, <1>6 DEF NoJobMoves, Running
<1>. QED  BY <1>3, <1>4, <1>5, <1>6 DEF BatsimActs, JobMoves

\* What batsched is told leaves the machines alone, but for the first message.
LEMMA ListeningKeepsAvailable ==
  ASSUME Types, LoopIsSound, FirstBegins, AvailableRest, Listens, variant # "sleeper"
  PROVE  AvailableRest'
<1>1. UNCHANGED allocations
  BY ListeningLeavesInHand
<1>2. CASE Stands
  BY <1>2 DEF Stands, schedVars, algoVars, AvailableRest, Begun, Untold
<1>3. CASE Hears
  <2>1. CASE Current.type = "SIMULATION_BEGINS"
    <3>1. ~Begun /\ available' = Machines
      BY <1>3, <2>1 DEF Hears
    <3>2. \A j \in Jobs : allocations'[j] = {}
      BY <1>1, <3>1 DEF FirstBegins
    <3>. QED  BY <3>1, <3>2 DEF AvailableRest
  <2>2. CASE Current.type # "SIMULATION_BEGINS"
    BY <1>1, <1>3, <2>2 DEF Hears, AvailableRest
  <2>. QED  BY <2>1, <2>2
<1>4. CASE SkipDecisions /\ handled = Len(inbox)
  <2>1. Begun /\ available' = available
    BY <1>4, AllTold DEF SkipDecisions, algoVars
  <2>. QED  BY <1>1, <2>1 DEF AvailableRest
<1>. QED  BY <1>2, <1>3, <1>4 DEF Listens

\* The reply gives free machines to the jobs that start.
LEMMA AllottingKeepsBooks ==
  ASSUME Types, HasAllocation = InHand, Disjoint, AvailableRest,
         NEW ds, Answered(ds), Allots(StartedIn(ds))
  PROVE  HasAllocation' = InHand' /\ Disjoint' /\ AvailableRest'
<1>1. PICK S : S = StartedIn(ds)
  OBVIOUS
<1>2. /\ Begun /\ InHand = Running \cup EndedJobs /\ Running \cap EndedJobs = {}
      /\ InHand' = Running \cup S /\ S \subseteq Jobs /\ S \cap Running = {}
      /\ Running \subseteq Jobs
  BY <1>1 DEF Answered, Running
<1>3. allocations \in [Jobs -> SUBSET Machines] /\ available \in SUBSET Machines
      /\ FreedMachines = available \cup UNION {allocations[j] : j \in EndedJobs}
  BY DEF Types, AlgorithmTypes, FreedMachines
<1>4. EndedJobs \subseteq Jobs
  BY <1>2 DEF HasAllocation
<1>5. /\ \A j \in Jobs \ (S \cup EndedJobs) : allocations'[j] = allocations[j]
      /\ \A j \in EndedJobs \ S : allocations'[j] = {}
      /\ \A j \in S : allocations'[j] # {} /\ allocations'[j] \subseteq FreedMachines
      /\ \A i, j \in S : i # j => allocations'[i] \cap allocations'[j] = {}
      /\ available' = FreedMachines \ UNION {allocations'[j] : j \in S}
  BY <1>1, <1>4 DEF Allots, WithoutEnded
<1>6. HasAllocation' = InHand'
  BY <1>2, <1>4, <1>5 DEF HasAllocation
<1>7. \A j \in Jobs \ EndedJobs : allocations[j] \cap FreedMachines = {}
  BY <1>2, <1>3, <1>4 DEF Disjoint, AvailableRest
<1>8. Disjoint'
  <2>. SUFFICES ASSUME NEW i \in Jobs, NEW j \in Jobs, i # j
                PROVE  allocations'[i] \cap allocations'[j] = {}
    BY DEF Disjoint
  <2>1. CASE i \in S /\ j \in S
    BY <1>5, <2>1
  <2>2. CASE i \in S /\ j \notin S
    BY <1>5, <1>7, <2>2
  <2>3. CASE i \notin S /\ j \in S
    BY <1>5, <1>7, <2>3
  <2>4. CASE i \notin S /\ j \notin S
    BY <1>5, <2>4 DEF Disjoint
  <2>. QED  BY <2>1, <2>2, <2>3, <2>4
<1>9. available' = Machines \ UNION {allocations'[j] : j \in Jobs}
  <2>1. ASSUME NEW m \in Machines
        PROVE  m \in available' <=> \A j \in Jobs : m \notin allocations'[j]
    <3>1. m \in available <=> \A j \in Jobs : m \notin allocations[j]
      BY <1>2 DEF AvailableRest
    <3>2. m \in FreedMachines <=> \A j \in Jobs \ EndedJobs : m \notin allocations[j]
      <4>1. ASSUME m \in FreedMachines PROVE \A j \in Jobs \ EndedJobs : m \notin allocations[j]
        BY <1>7, <4>1
      <4>2. ASSUME \A j \in Jobs \ EndedJobs : m \notin allocations[j] PROVE m \in FreedMachines
        BY <1>3, <3>1, <4>2
      <4>. QED  BY <4>1, <4>2
    <3>3. m \in available' <=> m \in FreedMachines /\ \A j \in S : m \notin allocations'[j]
      BY <1>5
    <3>4. S \cap (Jobs \ EndedJobs) \subseteq Jobs
      OBVIOUS
    <3>5. \A j \in Jobs \ EndedJobs : j \in S => allocations[j] = {}
      BY <1>2 DEF HasAllocation
    <3>. QED  BY <1>2, <1>5, <3>2, <3>3, <3>5
  <2>2. available' \subseteq Machines
    <3>1. FreedMachines \subseteq Machines
      BY <1>3, <1>4
    <3>. QED  BY <1>5, <3>1
  <2>. QED  BY <2>1, <2>2
<1>. QED  BY <1>6, <1>8, <1>9 DEF AvailableRest

\* The step for the allocations.
LEMMA AllocationStep ==
  ASSUME Types, LoopIsSound, JobsOnce, HandIsSound, AllocationBooks, [Next]_vars
  PROVE  AllocationBooks'
<1>. SUFFICES ASSUME Allocates' PROVE (HasAllocation = InHand /\ Disjoint /\ AvailableRest /\ PlacedThere)'
  BY DEF AllocationBooks
<1>1. variant' = variant
  BY Kinds DEF BatsimActs, Quiet, Stands, Hears, Receives, Replies, SkipDecisions, WriteReply,
     schedVars, configVars
<1>2. Allocates /\ HasAllocation = InHand /\ Disjoint /\ AvailableRest /\ PlacedThere
  BY <1>1 DEF Allocates, AllocationBooks
<1>3. CASE BatsimActs
  <2>1. UNCHANGED <<allocations, available>> /\ (Begun' <=> Begun)
    BY <1>3 DEF BatsimActs, Quiet, schedVars, algoVars
  <2>2. UNCHANGED InHand
    BY <1>3, HandKept
  <2>3. HasAllocation' = InHand' /\ Disjoint' /\ AvailableRest'
    BY <1>2, <2>1, <2>2 DEF HasAllocation, Disjoint, AvailableRest
  <2>4. \A j \in Running' : allocations'[j] # {} => placed'[j] = allocations'[j]
    BY <1>2, <1>3, StartsThere DEF HandIsSound, PlacedThere, ChecksAllocations, Allocates
  <2>5. Running' \subseteq HasAllocation'
    BY <2>3 DEF InHand
  <2>. QED  BY <2>3, <2>4, <2>5 DEF PlacedThere, HasAllocation
<1>4. CASE Listens
  <2>1. UNCHANGED <<InHand, Running, placed, allocations>>
    BY <1>4, ListeningLeavesInHand
  <2>2. AvailableRest'
    BY <1>2, <1>4, ListeningKeepsAvailable DEF HandIsSound, Allocates
  <2>. QED  BY <1>2, <2>1, <2>2 DEF HasAllocation, Disjoint, PlacedThere
<1>5. CASE Replies
  <2>1. PICK ds : Obeys(ds) /\ Allots(StartedIn(ds))
    BY <1>2, <1>5, KillerServes, FillerServes, SubmitterServes DEF Replies, MakeDecisions, Allocates,
       Killer2MakeDecisions, SequencerMakeDecisions, CrasherMakeDecisions, DVFSMakeDecisions,
       SleeperMakeDecisions, RejecterMakeDecisions, WaitingTimeEstimatorMakeDecisions,
       RandomMakeDecisions, EnergyWatcherMakeDecisions, SubmitterAnswers
  <2>2. Answered(ds)
    BY <1>5, <2>1, HandAnswered
  <2>3. HasAllocation' = InHand' /\ Disjoint' /\ AvailableRest'
    BY <1>2, <2>1, <2>2, AllottingKeepsBooks
  <2>4. \A j \in Running' : j \in Running /\ allocations'[j] = allocations[j]
    BY <2>1, <2>2 DEF Answered, Allots, WithoutEnded, Running
  <2>5. placed' = placed
    BY <1>5 DEF Replies, WriteReply, batsimVars, jobVars
  <2>. QED  BY <1>2, <2>3, <2>4, <2>5 DEF PlacedThere
<1>6. CASE SkipDecisions
  BY <1>4, <1>6 DEF Listens, LoopIsSound, SkipDecisions
<1>. QED  BY <1>3, <1>4, <1>5, <1>6, Kinds DEF Listens


-------------------------------------------------------------------------------
(* The books of the algorithms that run one job at a time.                 *)

OneInHand == \A i, j \in InHand : i = j
SequencerBooks == Sequencing => OneInHand /\ (own.running <=> InHand # {})
WatcherBooks   == variant = "energy_watcher" => OneInHand /\ (own.busy <=> InHand # {})
OneAtATime     == SequencerBooks /\ WatcherBooks

\* The reply starts one job at most, if nothing runs any more.
LEMMA OneStaysAlone ==
  ASSUME Types, OneInHand, NEW before, before \in BOOLEAN, NEW after, NEW left, NEW ds,
         before <=> InHand # {}, left <=> before /\ recent.ended = <<>>,
         Answered(ds), OneAtMost(ds, left, after)
  PROVE  OneInHand' /\ (after <=> InHand' # {})
<1>1. recent.ended = <<>> <=> EndedJobs = {}
  <2>1. recent.ended \in Seq(Jobs)
    BY DEF Types, LoopTypes, Accumulators
  <2>2. CASE recent.ended = <<>>
    BY <2>2 DEF EndedJobs, ToSet
  <2>3. CASE recent.ended # <<>>
    <3>1. 1 \in DOMAIN recent.ended
      BY <2>1, <2>3, LenProperties
    <3>. QED  BY <2>3, <3>1 DEF EndedJobs, ToSet
  <2>. QED  BY <2>2, <2>3
<1>2. /\ InHand = Running \cup EndedJobs /\ Running \cap EndedJobs = {}
      /\ InHand' = Running \cup StartedIn(ds)
  BY DEF Answered
<1>3. left <=> Running # {}
  BY <1>1, <1>2 DEF OneInHand
<1>4. CASE StartedIn(ds) = {} /\ (after <=> left)
  BY <1>2, <1>3, <1>4 DEF OneInHand
<1>5. CASE ~left /\ after /\ \E j \in Jobs : StartedIn(ds) = {j}
  BY <1>2, <1>3, <1>5 DEF OneInHand
<1>. QED  BY <1>4, <1>5 DEF OneAtMost

\* The variant is the same all along.
LEMMA SameVariant ==
  ASSUME Types, LoopIsSound, [Next]_vars
  PROVE  variant' = variant
BY Kinds DEF BatsimActs, Quiet, Stands, Hears, Receives, Replies, SkipDecisions, WriteReply,
     schedVars, configVars

\* The step for the algorithms with one job at a time.
LEMMA OneAtATimeStep ==
  ASSUME Types, LoopIsSound, JobsOnce, HandIsSound, OneAtATime, [Next]_vars
  PROVE  OneAtATime'
<1>1. variant' = variant
  BY SameVariant
<1>2. CASE BatsimActs \/ Listens
  <2>1. UNCHANGED InHand
    BY <1>2, HandKept
  <2>2. (Sequencing => own'.running = own.running) /\ (variant = "energy_watcher" => own' = own)
    <3>1. CASE UNCHANGED own
      BY <3>1
    <3>2. CASE OwnHeard
      <4>1. variant = "sequencer_dvfs" => own'.running = own.running
        BY <3>2 DEF OwnHeard
      <4>. QED  BY <3>2, <4>1 DEF OwnHeard, Sequencing
    <3>. QED  BY <1>2, <3>1, <3>2 DEF BatsimActs, Quiet, Listens, Stands, schedVars, algoVars, Hears,
                  SkipDecisions
  <2>. QED  BY <1>1, <2>1, <2>2 DEF OneAtATime, SequencerBooks, WatcherBooks, OneInHand, Sequencing
<1>3. CASE Replies
  <2>1. own \in Members(variant)
    BY DEF Types, AlgorithmTypes
  <2>2. CASE Sequencing
    <3>1. OneInHand /\ (own.running <=> InHand # {})
      BY <2>2 DEF OneAtATime, SequencerBooks
    <3>2. own.running \in BOOLEAN
      BY <2>1, <2>2 DEF Sequencing, Members
    <3>3. PICK ds : Obeys(ds) /\ OneAtMost(ds, StillRunning, own'.running)
      <4>1. \/ SequencerMakeDecisions \/ DVFSMakeDecisions
            \/ CrasherMakeDecisions /\ pc' # "crashed"
        BY <1>3, <2>2, Zenon DEF Replies, MakeDecisions, Sequencing, WriteReply, KillerMakeDecisions,
           Killer2MakeDecisions, FillerMakeDecisions, SleeperMakeDecisions,
           SubmitterMakeDecisions, RejecterMakeDecisions, WaitingTimeEstimatorMakeDecisions,
           RandomMakeDecisions, EnergyWatcherMakeDecisions
      <4>. QED  BY <4>1, SequencerVariantsServe
    <3>4. Answered(ds)
      BY <1>3, <3>3, HandAnswered
    <3>5. PICK before, left, after : /\ before = own.running /\ left = StillRunning
                                     /\ after = own'.running
      OBVIOUS
    <3>6. left <=> before /\ recent.ended = <<>>
      BY <3>5 DEF StillRunning
    <3>7. OneInHand' /\ (after <=> InHand' # {})
      BY <3>1, <3>2, <3>3, <3>4, <3>5, <3>6, OneStaysAlone
    <3>. QED  BY <1>1, <2>2, <3>5, <3>7 DEF OneAtATime, SequencerBooks, WatcherBooks, Sequencing
  <2>3. CASE variant = "energy_watcher"
    <3>1. OneInHand /\ (own.busy <=> InHand # {})
      BY <2>3 DEF OneAtATime, WatcherBooks
    <3>2. own.busy \in BOOLEAN
      BY <2>1, <2>3 DEF Members
    <3>3. PICK ds : Obeys(ds) /\ OneAtMost(ds, BusyAfterEnds, own'.busy)
      <4>1. EnergyWatcherMakeDecisions
        BY <1>3, <2>3 DEF Replies, MakeDecisions, KillerMakeDecisions,
           Killer2MakeDecisions, FillerMakeDecisions, SleeperMakeDecisions,
           SubmitterMakeDecisions, RejecterMakeDecisions, WaitingTimeEstimatorMakeDecisions,
           RandomMakeDecisions, SequencerMakeDecisions, CrasherMakeDecisions, DVFSMakeDecisions
      <4>. QED  BY <4>1, WatcherServes
    <3>4. Answered(ds)
      BY <1>3, <3>3, HandAnswered
    <3>5. PICK before, left, after : /\ before = own.busy /\ left = BusyAfterEnds
                                     /\ after = own'.busy
      OBVIOUS
    <3>6. left <=> before /\ recent.ended = <<>>
      BY <3>5 DEF BusyAfterEnds
    <3>7. OneInHand' /\ (after <=> InHand' # {})
      BY <3>1, <3>2, <3>3, <3>4, <3>5, <3>6, OneStaysAlone
    <3>. QED  BY <1>1, <2>3, <3>5, <3>7 DEF OneAtATime, SequencerBooks, WatcherBooks, Sequencing
  <2>4. CASE ~Sequencing /\ variant # "energy_watcher"
    BY <1>1, <2>4 DEF OneAtATime, SequencerBooks, WatcherBooks, Sequencing
  <2>. QED  BY <2>2, <2>3, <2>4
<1>4. CASE SkipDecisions
  BY <1>2, <1>4 DEF Listens, LoopIsSound, SkipDecisions
<1>. QED  BY <1>2, <1>3, <1>4, Kinds DEF Listens

-------------------------------------------------------------------------------
(* The books of killer2, which forgets a job as soon as it decides to kill it. *)

HoldsType(ds, type) == \E k \in 1 .. Len(ds) : ds[k].type = type
IsToBeKilled(r) == \E k \in 1 .. Len(outbox) : Kills(outbox[k], r)

\* One job has machines.  What runs without an allocation is about to be killed;
\* until then there is an execution to come, and it is for later.
OneAllocation == \A i, j \in HasAllocation : i = j
GivenInHand   == HasAllocation \subseteq InHand /\ StartedIn(outbox) \subseteq HasAllocation
ForgottenIsKilled == \A r \in Running : r \in HasAllocation \cup ToSet(kills) \/ IsToBeKilled(r)
KillsFirst    == \A h, k \in 1 .. Len(outbox) :
  outbox[h].type = "KILL_JOB" /\ outbox[k].type = "EXECUTE_JOB" => h < k
SoonApplied   == \A k \in 1 .. Len(outbox) :
  outbox[k].type # "EXECUTE_JOB" => outbox[k].date <= clock
KillsPending  == kills # <<>> \/ HoldsType(outbox, "KILL_JOB") =>
  /\ HoldsType(outbox, "EXECUTE_JOB")
  /\ \A k \in 1 .. Len(outbox) : outbox[k].type = "EXECUTE_JOB" => outbox[k].date > clock

Killer2Soon == KillsFirst /\ SoonApplied /\ KillsPending
Killer2IsSound ==
  OneAllocation /\ GivenInHand /\ AvailableRest /\ ForgottenIsKilled /\ Killer2Soon
Killer2Books == variant = "killer2" => Killer2IsSound

\* Batsim applies the kills before the time of the execution comes.
LEMMA BatsimKeepsSoon ==
  ASSUME Types, Killer2Soon, BatsimActs
  PROVE  Killer2Soon'
<1>1. \/ KeepsDecisions
      \/ TakesDecision
  BY DEF BatsimActs, JobMoves, Arrives, IsAskedAbout, Finishes, Starts, IsRejected, IsRegistered,
     NoJobMoves
<1>2. /\ outbox \in Seq(Decisions) /\ Len(outbox) \in Nat /\ clock \in Nat
      /\ \A k \in 1 .. Len(outbox) : outbox[k].date \in Nat
  <2>1. outbox \in Seq(Decisions) /\ clock \in Nat
    BY DEF Types, PlatformTypes, SocketTypes
  <2>. QED  BY <2>1, LenProperties, ElementOfSeq DEF Decisions
<1>. DEFINE Kept(k, h) == h \in 1 .. Len(outbox) /\ outbox'[k] = outbox[h]
<1>3. PICK n \in {0, 1} : /\ \A k \in 1 .. Len(outbox') : Kept(k, k + n)
                          /\ Len(outbox') = Len(outbox) - n
                          /\ n = 1 <=> TakesDecision
                          /\ n = 1 => Len(outbox) > 0 /\ Decision = outbox[1]
                                      /\ outbox[1].date <= clock
  <2>1. CASE TakesDecision
    <3>1. /\ Len(outbox) \in Nat \ {0} /\ Len(outbox') = Len(outbox) - 1 /\ Decision = outbox[1]
          /\ \A k \in 1 .. Len(outbox') : k + 1 \in 1 .. Len(outbox) /\ outbox'[k] = outbox[k + 1]
      BY <2>1, Taken
    <3>2. outbox[1].date <= clock
      BY <2>1, <3>1 DEF TakesDecision
    <3>. QED  BY <2>1, <3>1, <3>2
  <2>2. CASE ~TakesDecision
    BY <1>1, <1>2, <2>2 DEF KeepsDecisions
  <2>. QED  BY <2>1, <2>2
<1>4. kills' = kills \/ HoldsType(outbox, "KILL_JOB") \/ (kills # <<>>)
  <2>1. CASE \E j \in Jobs : \/ Arrives(j) \/ IsAskedAbout(j) \/ Finishes(j)
                             \/ Starts(j) \/ IsRejected(j) \/ IsRegistered(j)
    BY <2>1 DEF Arrives, IsAskedAbout, Finishes, Starts, IsRejected, IsRegistered
  <2>2. CASE NoJobMoves
    <3>1. CASE TakesDecision /\ Decision.type = "KILL_JOB"
      <4>1. 1 \in 1 .. Len(outbox) /\ Decision = outbox[1]
        BY <3>1, Taken
      <4>. QED  BY <3>1, <4>1 DEF HoldsType
    <3>2. CASE ~(TakesDecision /\ Decision.type = "KILL_JOB")
      BY <2>2, <3>2 DEF NoJobMoves
    <3>. QED  BY <3>1, <3>2
  <2>. QED  BY <2>1, <2>2 DEF BatsimActs, JobMoves
<1>5. HoldsType(outbox', "KILL_JOB") => HoldsType(outbox, "KILL_JOB")
  BY <1>2, <1>3 DEF HoldsType
<1>6. kills # <<>> \/ HoldsType(outbox, "KILL_JOB") => clock' = clock
  <2>. SUFFICES ASSUME kills # <<>> \/ HoldsType(outbox, "KILL_JOB"), clock' # clock
                PROVE  FALSE
    OBVIOUS
  <2>1. kills = <<>> /\ (outbox # <<>> => Decision.date > clock)
    BY DEF BatsimActs, TimePasses
  <2>2. PICK h \in 1 .. Len(outbox) : outbox[h].type = "KILL_JOB"
    BY <2>1 DEF HoldsType
  <2>3. outbox # <<>> /\ 1 \in 1 .. Len(outbox) /\ Decision = outbox[1]
    <3>1. outbox # <<>> /\ 1 \in 1 .. Len(outbox)
      BY <1>2, <2>2
    <3>. QED  BY <1>2, <3>1, HeadTailProperties DEF Decision
  <2>4. outbox[1].type = "EXECUTE_JOB"
    <3>1. ~(outbox[1].date <= clock)
      BY <1>2, <2>1, <2>3
    <3>. QED  BY <2>3, <3>1 DEF Killer2Soon, SoonApplied
  <2>5. h < 1
    BY <2>2, <2>3, <2>4 DEF Killer2Soon, KillsFirst
  <2>. QED  BY <1>2, <2>2, <2>5
<1>7. clock' \in Nat /\ clock' >= clock
  BY <1>2 DEF BatsimActs, TimePasses
<1>8. KillsFirst'
  <2>. SUFFICES ASSUME NEW h \in 1 .. Len(outbox'), NEW k \in 1 .. Len(outbox'),
                       outbox'[h].type = "KILL_JOB", outbox'[k].type = "EXECUTE_JOB"
                PROVE  h < k
    BY DEF KillsFirst
  <2>1. /\ h + n \in 1 .. Len(outbox) /\ outbox'[h] = outbox[h + n]
        /\ k + n \in 1 .. Len(outbox) /\ outbox'[k] = outbox[k + n]
    BY <1>3
  <2>2. h + n < k + n
    BY <2>1 DEF Killer2Soon, KillsFirst
  <2>. QED  BY <1>2, <2>2
<1>9. SoonApplied'
  <2>. SUFFICES ASSUME NEW k \in 1 .. Len(outbox'), outbox'[k].type # "EXECUTE_JOB"
                PROVE  outbox'[k].date <= clock'
    BY DEF SoonApplied
  <2>1. k + n \in 1 .. Len(outbox) /\ outbox'[k] = outbox[k + n]
    BY <1>3
  <2>2. outbox[k + n].date <= clock /\ outbox[k + n].date \in Nat
    BY <1>2, <2>1 DEF Killer2Soon, SoonApplied
  <2>. QED  BY <1>2, <1>7, <2>1, <2>2
<1>10. KillsPending'
  <2>. SUFFICES ASSUME kills' # <<>> \/ HoldsType(outbox', "KILL_JOB")
                PROVE  /\ HoldsType(outbox', "EXECUTE_JOB")
                       /\ \A k \in 1 .. Len(outbox') :
                            outbox'[k].type = "EXECUTE_JOB" => outbox'[k].date > clock'
    BY DEF KillsPending, HoldsType
  <2>1. kills # <<>> \/ HoldsType(outbox, "KILL_JOB")
    BY <1>4, <1>5
  <2>2. /\ HoldsType(outbox, "EXECUTE_JOB") /\ clock' = clock
        /\ \A k \in 1 .. Len(outbox) : outbox[k].type = "EXECUTE_JOB" => outbox[k].date > clock
    BY <1>6, <2>1 DEF Killer2Soon, KillsPending
  <2>3. PICK e \in 1 .. Len(outbox) : outbox[e].type = "EXECUTE_JOB" /\ outbox[e].date > clock
    BY <2>2 DEF HoldsType
  <2>4. e - n \in 1 .. Len(outbox') /\ outbox'[e - n] = outbox[e]
    <3>1. CASE n = 1
      <4>1. ~(outbox[e].date <= clock)
        BY <1>2, <2>3
      <4>2. e # 1
        BY <1>3, <3>1, <4>1
      <4>3. e - 1 \in 1 .. Len(outbox')
        BY <1>2, <1>3, <3>1, <4>2
      <4>. QED  BY <1>2, <1>3, <3>1, <4>3
    <3>2. CASE n = 0
      <4>1. e \in 1 .. Len(outbox')
        BY <1>2, <1>3, <3>2
      <4>. QED  BY <1>2, <1>3, <3>2, <4>1
    <3>. QED  BY <3>1, <3>2
  <2>. QED  BY <1>2, <1>3, <2>2, <2>3, <2>4 DEF HoldsType
<1>. QED  BY <1>8, <1>9, <1>10 DEF Killer2Soon

\* An element of a sequence other than its head is in its tail.
LEMMA LeavesHead ==
  ASSUME NEW S, NEW s \in Seq(S), s # <<>>, NEW e \in ToSet(s), e # Head(s)
  PROVE  e \in ToSet(Tail(s))
<1>1. PICK i \in 1 .. Len(s) : s[i] = e
  BY DEF ToSet
<1>2. i # 1
  BY <1>1, HeadTailProperties
<1>3. Len(s) \in Nat /\ Len(Tail(s)) = Len(s) - 1
  BY HeadTailProperties, LenProperties
<1>4. i - 1 \in 1 .. Len(Tail(s)) /\ i - 1 \in DOMAIN Tail(s) /\ Tail(s)[i - 1] = s[(i - 1) + 1]
  BY <1>2, <1>3, HeadTailProperties, LenProperties
<1>5. (i - 1) + 1 = i
  OBVIOUS
<1>6. Tail(s)[i - 1] = e
  BY <1>1, <1>4, <1>5
<1>. QED  BY <1>4, <1>6 DEF ToSet

\* What Batsim does: the forgotten jobs are killed.
LEMMA BatsimKeepsKiller2 ==
  ASSUME Types, JobsOnce, HandIsSound, Killer2IsSound, BatsimActs
  PROVE  Killer2IsSound'
<1>1. UNCHANGED <<allocations, available>> /\ (Begun' <=> Begun)
  BY DEF BatsimActs, Quiet, schedVars, algoVars
<1>2. UNCHANGED InHand
  BY BatsimLeavesInHand DEF HandIsSound
<1>3. OneAllocation' /\ AvailableRest' /\ UNCHANGED HasAllocation
  BY <1>1 DEF Killer2IsSound, OneAllocation, AvailableRest, HasAllocation
<1>4. \/ KeepsDecisions
      \/ TakesDecision
  BY DEF BatsimActs, JobMoves, Arrives, IsAskedAbout, Finishes, Starts, IsRejected, IsRegistered,
     NoJobMoves
<1>5. StartedIn(outbox)' \subseteq StartedIn(outbox)
  <2>1. CASE KeepsDecisions
    BY <2>1 DEF KeepsDecisions, StartedIn
  <2>2. CASE TakesDecision
    BY <2>2, TakenOnce
  <2>. QED  BY <1>4, <2>1, <2>2
<1>6. GivenInHand'
  BY <1>2, <1>3, <1>5 DEF Killer2IsSound, GivenInHand
<1>7. Killer2Soon'
  BY BatsimKeepsSoon DEF Killer2IsSound
<1>8. ForgottenIsKilled'
  <2>. SUFFICES ASSUME NEW r \in Running', r \notin HasAllocation, r \notin ToSet(kills)',
                       ~IsToBeKilled(r)'
                PROVE  FALSE
    BY <1>3 DEF ForgottenIsKilled
  <2>1. status \in [Jobs -> Statuses] /\ r \in Jobs /\ status'[r] = "running"
        /\ kills \in Seq(Jobs)
    BY DEF Types, PlatformTypes, Running
  <2>2. r \in Running => r \in ToSet(kills) \/ IsToBeKilled(r)
    BY DEF Killer2IsSound, ForgottenIsKilled
  <2>3. ASSUME KeepsDecisions PROVE ~IsToBeKilled(r)
    BY <2>3 DEF KeepsDecisions, IsToBeKilled
  <2>4. ASSUME TakesDecision, IsToBeKilled(r)
        PROVE  Kills(Decision, r)
    <3>1. /\ Decision = outbox[1] /\ Len(outbox') = Len(outbox) - 1 /\ Len(outbox) \in Nat \ {0}
          /\ \A k \in 1 .. Len(outbox) :
               k = 1 \/ (k - 1 \in 1 .. Len(outbox') /\ outbox'[k - 1] = outbox[k])
      BY <2>4, Taken
    <3>2. PICK k \in 1 .. Len(outbox) : Kills(outbox[k], r)
      BY <2>4 DEF IsToBeKilled
    <3>3. k = 1
      <4>1. ASSUME k # 1 PROVE IsToBeKilled(r)'
        BY <3>1, <3>2, <4>1 DEF IsToBeKilled, Kills
      <4>. QED  BY <4>1
    <3>. QED  BY <3>1, <3>2, <3>3
  <2>5. ASSUME r \in ToSet(kills) PROVE kills' # kills
    BY <2>5
  <2>6. ASSUME NEW j \in Jobs, Starts(j) PROVE FALSE
    <3>1. /\ TakesDecision /\ Decision.type = "EXECUTE_JOB" /\ Decision.job = j /\ kills' = kills
          /\ status' = [status EXCEPT ![j] = "running"]
      BY <2>6 DEF Starts
    <3>2. j \in StartedIn(outbox)
      <4>1. Decision = outbox[1] /\ 1 \in 1 .. Len(outbox)
        BY <3>1, Taken
      <4>. QED  BY <3>1, <4>1 DEF StartedIn
    <3>3. j \in HasAllocation
      BY <3>2 DEF Killer2IsSound, GivenInHand
    <3>4. r \in Running
      BY <2>1, <3>1, <3>3 DEF Running
    <3>. QED  BY <2>2, <2>4, <2>5, <3>1, <3>4 DEF Kills
  <2>7. ASSUME NEW j \in Jobs, Arrives(j) \/ IsAskedAbout(j) \/ IsRejected(j) \/ IsRegistered(j)
        PROVE  FALSE
    <3>1. kills' = kills /\ \E s \in {"waiting", "potential", "rejected"} :
                              status' = [status EXCEPT ![j] = s]
      BY <2>7 DEF Arrives, IsAskedAbout, IsRejected, IsRegistered
    <3>2. r \in Running
      BY <2>1, <3>1 DEF Running
    <3>3. KeepsDecisions \/ (TakesDecision /\ Decision.type # "KILL_JOB")
      BY <2>7 DEF Arrives, IsAskedAbout, IsRejected, IsRegistered, Registers
    <3>. QED  BY <2>2, <2>3, <2>4, <2>5, <3>1, <3>2, <3>3 DEF Kills
  <2>8. ASSUME NEW j \in Jobs, Finishes(j)
        PROVE  FALSE
    <3>1. /\ KeepsDecisions /\ status' = [status EXCEPT ![j] = "done"]
          /\ kills' = kills \/ (kills # <<>> /\ j = Head(kills) /\ kills' = Tail(kills))
      BY <2>8 DEF Finishes
    <3>2. r \in Running /\ r # j
      BY <2>1, <3>1 DEF Running
    <3>3. kills # <<>> /\ j = Head(kills) /\ kills' = Tail(kills) /\ r \in ToSet(kills)
      BY <2>2, <2>3, <2>5, <3>1, <3>2
    <3>4. r \in ToSet(Tail(kills))
      BY <2>1, <3>2, <3>3, LeavesHead
    <3>. QED  BY <3>3, <3>4
  <2>9. CASE NoJobMoves
    <3>1. r \in Running
      BY <2>1, <2>9 DEF NoJobMoves, Running
    <3>2. CASE KeepsDecisions /\ kills # <<>> /\ status[Head(kills)] # "running"
               /\ kills' = Tail(kills)
      <4>1. r # Head(kills) /\ r \in ToSet(kills)
        BY <2>2, <2>3, <3>1, <3>2 DEF Running
      <4>2. r \in ToSet(Tail(kills))
        BY <2>1, <3>2, <4>1, LeavesHead
      <4>. QED  BY <3>2, <4>2
    <3>3. CASE TakesDecision /\ Decision.type = "KILL_JOB" /\ kills' = Append(kills, Decision.job)
      <4>1. Decision.job \in Jobs
        BY <3>3, Taken DEF Decisions
      <4>2. ToSet(kills') = ToSet(kills) \cup {Decision.job}
        BY <2>1, <3>3, <4>1, AppendToInjective
      <4>. QED  BY <2>2, <2>4, <3>1, <3>3, <4>2 DEF Kills
    <3>4. CASE kills' = kills /\ (KeepsDecisions \/ (TakesDecision /\ Decision.type # "KILL_JOB"))
      BY <2>2, <2>3, <2>4, <2>5, <3>1, <3>4 DEF Kills
    <3>. QED  BY <2>9, <3>2, <3>3, <3>4 DEF NoJobMoves
  <2>. QED  BY <2>6, <2>7, <2>8, <2>9 DEF BatsimActs, JobMoves
<1>. QED  BY <1>3, <1>6, <1>7, <1>8 DEF Killer2IsSound

\* The reply of killer2: it forgets the job that it kills, and starts another.
LEMMA ReplyKeepsKiller2 ==
  ASSUME Types, LoopIsSound, JobsOnce, HandIsSound, Killer2IsSound, Replies, variant = "killer2",
         Killer2MakeDecisions
  PROVE  Killer2IsSound'
<1>1. /\ handled = Len(inbox) /\ Deciding /\ Begun
  BY AllTold DEF LoopIsSound, Replies
<1>2. NoMachineLost
  <2>1. allocations \in [Jobs -> SUBSET Machines] /\ available \in SUBSET Machines
    BY DEF Types, AlgorithmTypes
  <2>2. available = Machines \ UNION {allocations[j] : j \in Jobs}
    BY <1>1 DEF Killer2IsSound, AvailableRest
  <2>. QED  BY <2>1, <2>2 DEF NoMachineLost
<1>3. PICK ds : Obeys(ds) /\ (Waits(ds) \/ \E first \in Jobs : Preempts(ds, first))
  BY <1>2, Killer2Serves
<1>4. Answered(ds)
  BY <1>3, HandAnswered
<1>5. outbox = <<>> /\ outbox' = ds /\ ds \in Seq(Decisions)
  <2>1. pc = "decide"
    BY <1>1 DEF Deciding
  <2>2. outbox = <<>> /\ outbox' = outbox \o ds /\ ds \in Seq(Decisions)
    BY <1>3, <2>1 DEF HandIsSound, Alternation, Obeys, Serves, Writes
  <2>. QED  BY <2>2, ConcatEmptySeq
<1>6. kills = <<>>
  <2>1. ~HoldsType(outbox, "EXECUTE_JOB")
    BY <1>5 DEF HoldsType
  <2>. QED  BY <2>1 DEF Killer2IsSound, Killer2Soon, KillsPending
<1>7. UNCHANGED <<kills, clock>> /\ clock \in Nat
  BY DEF Replies, WriteReply, batsimVars, jobVars, Types, PlatformTypes
<1>8. Running \subseteq HasAllocation /\ EndedJobs \subseteq Jobs
  <2>1. \A r : r \notin ToSet(kills)
    BY <1>6 DEF ToSet
  <2>2. \A r : ~IsToBeKilled(r)
    BY <1>5 DEF IsToBeKilled
  <2>3. EndedJobs \subseteq Jobs
    <3>1. recent.ended \in Seq(Jobs)
      BY DEF Types, LoopTypes, Accumulators
    <3>2. \A k \in DOMAIN recent.ended : recent.ended[k] \in Jobs
      BY <3>1, ElementOfSeq
    <3>. QED  BY <3>2 DEF EndedJobs, ToSet
  <2>. QED  BY <2>1, <2>2, <2>3 DEF Killer2IsSound, ForgottenIsKilled
<1>9. /\ Running' = Running /\ InHand = Running \cup EndedJobs /\ Running \cap EndedJobs = {}
      /\ InHand' = Running \cup StartedIn(ds) /\ StartedIn(ds) \cap Running = {}
      /\ StartedIn(outbox)' = StartedIn(ds) /\ Begun'
  BY <1>4 DEF Answered
<1>10. HasAllocation \subseteq InHand /\ (\A i, j \in HasAllocation : i = j)
  BY DEF Killer2IsSound, GivenInHand, OneAllocation
<1>11. \A j \in Jobs : WithoutEnded[j] = IF j \in EndedJobs THEN {} ELSE allocations[j]
  BY DEF WithoutEnded
<1>12. Len(ds) \in Nat
  BY <1>5, LenProperties
<1>13. CASE Waits(ds)
  <2>1. /\ StartedIn(ds) = {} /\ \A k \in 1 .. Len(ds) : ds[k].type = "REJECT_JOB" /\ ds[k].date = clock
        /\ allocations' = WithoutEnded /\ available' = FreedMachines
    BY <1>13 DEF Waits
  <2>2. HasAllocation' = HasAllocation \ EndedJobs
    BY <1>11, <2>1 DEF HasAllocation
  <2>3. OneAllocation' /\ GivenInHand'
    BY <1>9, <1>10, <2>1, <2>2 DEF OneAllocation, GivenInHand
  <2>4. AvailableRest'
    <3>1. /\ allocations \in [Jobs -> SUBSET Machines]
          /\ FreedMachines = available \cup UNION {allocations[j] : j \in EndedJobs}
          /\ available = Machines \ UNION {allocations[j] : j \in Jobs}
      BY <1>1 DEF Types, AlgorithmTypes, FreedMachines, Killer2IsSound, AvailableRest
    <3>2. \A i, j \in Jobs : i # j => allocations[i] = {} \/ allocations[j] = {}
      BY <1>10 DEF HasAllocation
    <3>3. FreedMachines = Machines \ UNION {WithoutEnded[j] : j \in Jobs}
      BY <1>8, <1>11, <3>1, <3>2
    <3>. QED  BY <2>1, <3>3 DEF AvailableRest
  <2>5. ForgottenIsKilled'
    BY <1>8, <1>9, <2>2 DEF ForgottenIsKilled
  <2>6. Killer2Soon'
    BY <1>5, <1>6, <1>7, <2>1 DEF Killer2Soon, KillsFirst, SoonApplied, KillsPending, HoldsType
  <2>. QED  BY <2>3, <2>4, <2>5, <2>6 DEF Killer2IsSound
<1>14. ASSUME NEW first \in Jobs, Preempts(ds, first)
       PROVE  Killer2IsSound'
  <2>1. /\ StartedIn(ds) = {first} /\ allocations'[first] # {}
        /\ \A j \in Jobs \ {first} : allocations'[j] = {}
        /\ available' = Machines \ allocations'[first]
        /\ Len(ds) > 0 /\ ds[Len(ds)].type = "EXECUTE_JOB" /\ ds[Len(ds)].date = ExecutionDate(clock)
        /\ \A k \in 1 .. Len(ds) - 1 : ds[k].type \in {"REJECT_JOB", "KILL_JOB"} /\ ds[k].date = clock
        /\ \A k \in 1 .. Len(ds) : ds[k].type = "KILL_JOB" => Occupying # {}
        /\ \A o \in Occupying : (\A j \in Occupying : j = o) =>
             \E k \in 1 .. Len(ds) : Kills(ds[k], o)
    BY <1>14 DEF Preempts
  <2>2. HasAllocation' = {first}
    BY <2>1 DEF HasAllocation
  <2>3. OneAllocation' /\ GivenInHand'
    BY <1>9, <2>1, <2>2 DEF OneAllocation, GivenInHand
  <2>4. AvailableRest'
    BY <2>1 DEF AvailableRest
  <2>5. ForgottenIsKilled'
    <3>. SUFFICES ASSUME NEW r \in Running PROVE IsToBeKilled(r)'
      BY <1>9 DEF ForgottenIsKilled
    <3>1. r \in Occupying
      BY <1>8, <1>9, <1>11 DEF HasAllocation, Occupying
    <3>2. Occupying \subseteq HasAllocation
      BY <1>11 DEF HasAllocation, Occupying
    <3>3. \E k \in 1 .. Len(ds) : Kills(ds[k], r)
      BY <1>10, <2>1, <3>1, <3>2
    <3>. QED  BY <1>5, <3>3 DEF IsToBeKilled
  <2>6. \A k \in 1 .. Len(ds) : /\ ds[k].type = "EXECUTE_JOB" <=> k = Len(ds)
                                /\ k # Len(ds) => ds[k].date = clock
    BY <1>12, <2>1
  <2>7. KillsFirst'
    BY <1>5, <1>12, <2>6 DEF KillsFirst
  <2>8. SoonApplied'
    BY <1>5, <1>7, <2>6 DEF SoonApplied
  <2>9. KillsPending'
    <3>. SUFFICES ASSUME HoldsType(ds, "KILL_JOB")
                  PROVE  /\ HoldsType(ds, "EXECUTE_JOB")
                         /\ \A k \in 1 .. Len(ds) : ds[k].type = "EXECUTE_JOB" => ds[k].date > clock
      BY <1>5, <1>6, <1>7 DEF KillsPending, HoldsType
    <3>1. ExecutionDate(clock) = clock + KillMargin
      BY <2>1 DEF HoldsType, ExecutionDate
    <3>2. ExecutionDate(clock) > clock
      BY <1>7, <3>1, KillersAssumption
    <3>3. Len(ds) \in 1 .. Len(ds)
      BY <1>12, <2>1
    <3>. QED  BY <2>1, <2>6, <3>2, <3>3 DEF HoldsType
  <2>. QED  BY <2>3, <2>4, <2>5, <2>7, <2>8, <2>9 DEF Killer2IsSound, Killer2Soon
<1>. QED  BY <1>3, <1>13, <1>14

\* The step for killer2.
LEMMA Killer2Step ==
  ASSUME Types, LoopIsSound, JobsOnce, HandIsSound, Killer2Books, [Next]_vars
  PROVE  Killer2Books'
<1>. SUFFICES ASSUME variant' = "killer2" PROVE Killer2IsSound'
  BY DEF Killer2Books
<1>1. variant = "killer2" /\ Killer2IsSound
  BY SameVariant DEF Killer2Books
<1>2. CASE BatsimActs
  BY <1>1, <1>2, BatsimKeepsKiller2
<1>3. CASE Listens
  <2>1. UNCHANGED <<InHand, Running, kills, clock, allocations>>
    BY <1>3, ListeningLeavesInHand
  <2>2. AvailableRest'
    BY <1>1, <1>3, ListeningKeepsAvailable DEF HandIsSound, Killer2IsSound
  <2>3. UNCHANGED outbox
    BY <1>1, <1>3 DEF Listens, Stands, Hears, OutboxHeard, SkipDecisions
  <2>. QED  BY <1>1, <2>1, <2>2, <2>3 DEF Killer2IsSound, OneAllocation, GivenInHand, HasAllocation,
         ForgottenIsKilled, IsToBeKilled, Killer2Soon, KillsFirst, SoonApplied, KillsPending,
         HoldsType, StartedIn
<1>4. CASE Replies
  <2>1. Killer2MakeDecisions
    BY <1>1, <1>4 DEF Replies, MakeDecisions, KillerMakeDecisions, FillerMakeDecisions,
       SubmitterMakeDecisions, SequencerMakeDecisions, CrasherMakeDecisions, DVFSMakeDecisions,
       SleeperMakeDecisions, RejecterMakeDecisions, WaitingTimeEstimatorMakeDecisions,
       RandomMakeDecisions, EnergyWatcherMakeDecisions
  <2>. QED  BY <1>1, <1>4, <2>1, ReplyKeepsKiller2
<1>5. CASE SkipDecisions
  BY <1>3, <1>5 DEF Listens, LoopIsSound, SkipDecisions
<1>. QED  BY <1>2, <1>3, <1>4, <1>5, Kinds DEF Listens

-------------------------------------------------------------------------------
(* The machines that filler believes to be unavailable.                    *)

\* The outages and the returns that filler has not reacted to make up for the
\* difference with the platform.
OutagesKnown == down = (own.unavailable \ BackAgain) \cup Gone
NoneCanStart == AtWork /\ inbox = <<>> =>
  \A j \in Queued : Fit(available \ down, size[j]) = {}
FillerIsSound == OutagesKnown /\ NoneCanStart
FillerBooks == variant = "filler" => FillerIsSound

\* The step for filler.
LEMMA FillerStep ==
  ASSUME Types, LoopIsSound, JobsOnce, HandIsSound, Unread, FillerBooks, [Next]_vars
  PROVE  FillerBooks'
<1>. SUFFICES ASSUME variant' = "filler" PROVE FillerIsSound'
  BY DEF FillerBooks
<1>1. variant = "filler" /\ OutagesKnown /\ NoneCanStart
  BY SameVariant DEF FillerBooks, FillerIsSound
<1>2. CASE BatsimActs
  <2>1. UNCHANGED <<own, queue, available, recent, pc>> /\ AtWork
    BY <1>2 DEF BatsimActs, Quiet, schedVars, loopVars, algoVars
  <2>2. recent.gone = {} /\ recent.backAgain = {}
    BY <2>1 DEF Unread, NothingRecent
  <2>3. OutagesKnown'
    <3>1. CASE NoOutageNews /\ UNCHANGED down
      BY <1>1, <2>1, <3>1 DEF NoOutageNews, OutagesKnown, Gone, BackAgain
    <3>2. ASSUME NEW m \in Machines, down' = down \cup {m}, Lost' = Lost \cup {m}, UNCHANGED Found
          PROVE  OutagesKnown'
      BY <1>1, <2>1, <3>2 DEF OutagesKnown, Gone, BackAgain
    <3>3. ASSUME NEW m \in Machines, m \notin Lost, down' = down \ {m},
                 Found' = Found \cup {m}, UNCHANGED Lost
          PROVE  OutagesKnown'
      BY <1>1, <2>1, <2>2, <3>3 DEF OutagesKnown, Gone, BackAgain
    <3>. QED  BY <1>2, <3>1, <3>2, <3>3 DEF BatsimActs, OutageMoves
  <2>4. NoneCanStart'
    <3>. SUFFICES ASSUME AtWork', inbox' = <<>>, NEW j \in Queued'
                  PROVE  Fit(available' \ down', size'[j]) = {}
      BY DEF NoneCanStart
    <3>1. inbox = <<>> /\ UNCHANGED <<size, down>>
      BY <1>2 DEF BatsimActs
    <3>2. j \in Queued
      BY <2>1 DEF Queued
    <3>3. Fit(available \ down, size[j]) = {}
      BY <1>1, <2>1, <3>1, <3>2 DEF NoneCanStart
    <3>. QED  BY <2>1, <3>1, <3>3
  <2>. QED  BY <2>3, <2>4 DEF FillerIsSound
<1>3. CASE Stands
  <2>1. UNCHANGED <<own, queue, available, recent, down, size, inbox, handled>>
        /\ (pc' = "batsim" => pc = "batsim")
    BY <1>3 DEF Stands, schedVars, loopVars, algoVars, batsimVars, platformVars, jobVars
  <2>2. UNCHANGED <<Lost, Found>>
    BY <2>1 DEF Lost, Found, MachinesToTell, Untold
  <2>3. OutagesKnown'
    BY <1>1, <2>1, <2>2 DEF OutagesKnown, Gone, BackAgain
  <2>4. NoneCanStart'
    <3>. SUFFICES ASSUME AtWork', inbox' = <<>>, NEW j \in Queued'
                  PROVE  Fit(available' \ down', size'[j]) = {}
      BY DEF NoneCanStart
    <3>1. j \in Queued /\ AtWork /\ inbox = <<>>
      BY <2>1 DEF Queued, AtWork
    <3>2. Fit(available \ down, size[j]) = {}
      BY <1>1, <3>1 DEF NoneCanStart
    <3>. QED  BY <2>1, <3>2
  <2>. QED  BY <2>3, <2>4 DEF FillerIsSound
<1>4. CASE Hears
  <2>1. UNCHANGED <<own, down, Gone, BackAgain>> /\ pc' # "batsim"
    BY <1>1, <1>4 DEF Hears, Receives, OwnHeard, MachinesHeard, batsimVars, platformVars
  <2>. QED  BY <1>1, <2>1 DEF FillerIsSound, OutagesKnown, NoneCanStart, AtWork
<1>5. CASE Replies
  <2>1. PICK ds : Obeys(ds) /\ FillerLeaves
    BY <1>1, <1>5, FillerServes DEF Replies, MakeDecisions, KillerMakeDecisions, Killer2MakeDecisions,
       SubmitterMakeDecisions, SequencerMakeDecisions, CrasherMakeDecisions, DVFSMakeDecisions,
       SleeperMakeDecisions, RejecterMakeDecisions, WaitingTimeEstimatorMakeDecisions,
       RandomMakeDecisions, EnergyWatcherMakeDecisions
  <2>2. Lost = {} /\ Found = {} /\ Lost' = {} /\ Found' = {}
    BY <1>5, AllTold, NothingToTell DEF Replies, LoopIsSound, Lost, Found
  <2>3. recent'.gone = {} /\ recent'.backAgain = {} /\ UNCHANGED <<down, size>>
    BY <1>5, <2>1 DEF Obeys, NothingRecent, Replies, WriteReply, batsimVars, platformVars, jobVars
  <2>4. down = Unavailable
    BY <1>1, <2>2 DEF OutagesKnown, Gone, BackAgain, Unavailable
  <2>5. OutagesKnown'
    BY <2>1, <2>2, <2>3, <2>4 DEF OutagesKnown, Gone, BackAgain, FillerLeaves
  <2>6. NoneCanStart'
    BY <2>1, <2>3, <2>4 DEF NoneCanStart, FillerLeaves
  <2>. QED  BY <2>5, <2>6 DEF FillerIsSound
<1>6. CASE SkipDecisions
  BY <1>1, <1>6 DEF SkipDecisions, CallsMakeDecisions, LoopIsSound
<1>. QED  BY <1>2, <1>3, <1>4, <1>5, <1>6, Kinds

-------------------------------------------------------------------------------
(* The profiles that submitter registers.                                  *)

\* The profiles that it has sent are known to Batsim or on their way; that of a
\* job to be registered comes with it or before it.
SentIsKnown == \A p \in own.sent :
  p \in registered.profiles \/ \E k \in 1 .. Len(outbox) : Brings(outbox[k], p)
ProfilesFirst == \A k \in 1 .. Len(outbox) : outbox[k].type = "REGISTER_JOB" =>
  \/ outbox[k].inlined \/ outbox[k].profile \in registered.profiles
  \/ \E h \in 1 .. k - 1 : Brings(outbox[h], outbox[k].profile)
SubmitterIsSound == SentIsKnown /\ ProfilesFirst
SubmitterBooks == variant = "submitter" => SubmitterIsSound

\* Batsim knows the profile that a decision brings as soon as it applies it.
LEMMA ProfilesLearnt ==
  ASSUME Types, BatsimActs
  PROVE  /\ KeepsDecisions \/ TakesDecision
         /\ registered.profiles \subseteq registered'.profiles
         /\ TakesDecision => \A p : Brings(Decision, p) => p \in registered'.profiles
<1>1. CASE \E j \in Jobs : Arrives(j) \/ IsAskedAbout(j) \/ Finishes(j)
  BY <1>1 DEF Arrives, IsAskedAbout, Finishes, KeepsDecisions, TakesDecision
<1>2. CASE \E j \in Jobs : Starts(j) \/ IsRejected(j)
  BY <1>2 DEF Starts, IsRejected, Brings
<1>3. ASSUME NEW j \in Jobs, IsRegistered(j)
      PROVE  /\ TakesDecision
             /\ registered.profiles \subseteq registered'.profiles
             /\ \A p : Brings(Decision, p) => p \in registered'.profiles
  BY <1>3 DEF IsRegistered, Registers, Brings, Types, PlatformTypes
<1>4. CASE NoJobMoves
  <2>1. CASE KeepsDecisions /\ UNCHANGED registered
    BY <2>1 DEF KeepsDecisions, TakesDecision
  <2>2. CASE /\ TakesDecision /\ Decision.type # "REGISTER_JOB"
             /\ registered'.profiles =
                  IF Decision.type = "REGISTER_PROFILE"
                    THEN registered.profiles \cup {Decision.profile}
                    ELSE registered.profiles
    BY <2>2 DEF Brings
  <2>. QED  BY <1>4, <2>1, <2>2 DEF NoJobMoves
<1>. QED  BY <1>1, <1>2, <1>3, <1>4 DEF BatsimActs, JobMoves

\* The step for submitter.
LEMMA SubmitterStep ==
  ASSUME Types, LoopIsSound, JobsOnce, HandIsSound, SubmitterBooks, [Next]_vars
  PROVE  SubmitterBooks'
<1>. SUFFICES ASSUME variant' = "submitter" PROVE SubmitterIsSound'
  BY DEF SubmitterBooks
<1>1. variant = "submitter" /\ SentIsKnown /\ ProfilesFirst
  BY SameVariant DEF SubmitterBooks, SubmitterIsSound
<1>2. CASE BatsimActs
  <2>1. UNCHANGED own
    BY <1>2 DEF BatsimActs, Quiet, schedVars, algoVars
  <2>2. registered.profiles \subseteq registered'.profiles
    BY <1>2, ProfilesLearnt
  <2>3. CASE KeepsDecisions
    BY <1>1, <2>1, <2>2, <2>3 DEF KeepsDecisions, SubmitterIsSound, SentIsKnown, ProfilesFirst
  <2>4. CASE TakesDecision
    <3>1. /\ Len(outbox) \in Nat \ {0} /\ Len(outbox') = Len(outbox) - 1 /\ Decision = outbox[1]
          /\ \A k \in 1 .. Len(outbox') :
               k + 1 \in 1 .. Len(outbox) /\ outbox'[k] = outbox[k + 1]
          /\ \A k \in 1 .. Len(outbox) :
               k = 1 \/ (k - 1 \in 1 .. Len(outbox') /\ outbox'[k - 1] = outbox[k])
      BY <2>4, Taken
    <3>2. \A p : Brings(Decision, p) => p \in registered'.profiles
      BY <1>2, <2>4, ProfilesLearnt
    <3>3. ASSUME NEW k \in 1 .. Len(outbox), NEW p, Brings(outbox[k], p)
          PROVE  p \in registered'.profiles
                   \/ (k - 1 \in 1 .. Len(outbox') /\ Brings(outbox'[k - 1], p))
      BY <3>1, <3>2, <3>3
    <3>4. SentIsKnown'
      <4>. SUFFICES ASSUME NEW p \in own.sent, p \notin registered'.profiles
                    PROVE  \E k \in 1 .. Len(outbox') : Brings(outbox'[k], p)
        BY <2>1 DEF SentIsKnown
      <4>1. PICK k \in 1 .. Len(outbox) : Brings(outbox[k], p)
        BY <1>1, <2>2 DEF SentIsKnown
      <4>. QED  BY <3>3, <4>1
    <3>5. ProfilesFirst'
      <4>. SUFFICES ASSUME NEW k \in 1 .. Len(outbox'), outbox'[k].type = "REGISTER_JOB",
                           ~outbox'[k].inlined, outbox'[k].profile \notin registered'.profiles
                    PROVE  \E h \in 1 .. k - 1 : Brings(outbox'[h], outbox'[k].profile)
        BY DEF ProfilesFirst
      <4>1. k + 1 \in 1 .. Len(outbox) /\ outbox'[k] = outbox[k + 1]
        BY <3>1
      <4>2. PICK h \in 1 .. (k + 1) - 1 : Brings(outbox[h], outbox[k + 1].profile)
        BY <1>1, <2>2, <4>1 DEF ProfilesFirst
      <4>3. h \in 1 .. Len(outbox)
        BY <3>1, <4>1
      <4>4. h - 1 \in 1 .. Len(outbox') /\ Brings(outbox'[h - 1], outbox'[k].profile)
        BY <3>3, <4>1, <4>2, <4>3
      <4>. QED  BY <3>1, <4>2, <4>4
    <3>. QED  BY <3>4, <3>5 DEF SubmitterIsSound
  <2>. QED  BY <1>2, <2>3, <2>4, ProfilesLearnt
<1>3. CASE Listens
  <2>1. UNCHANGED registered
    BY <1>3, ListeningLeavesInHand
  <2>2. UNCHANGED <<own, outbox>>
    BY <1>1, <1>3 DEF Listens, Stands, Hears, OutboxHeard, OwnHeard, SkipDecisions, schedVars, algoVars
  <2>. QED  BY <1>1, <2>1, <2>2 DEF SubmitterIsSound, SentIsKnown, ProfilesFirst
<1>4. CASE Replies
  <2>1. PICK ds : SubmitterAnswers(ds)
    BY <1>1, <1>4, SubmitterServes DEF Replies, MakeDecisions, KillerMakeDecisions,
       Killer2MakeDecisions, FillerMakeDecisions, SequencerMakeDecisions, CrasherMakeDecisions,
       DVFSMakeDecisions, SleeperMakeDecisions, RejecterMakeDecisions,
       WaitingTimeEstimatorMakeDecisions, RandomMakeDecisions, EnergyWatcherMakeDecisions
  <2>2. outbox = <<>> /\ outbox' = outbox \o ds /\ ds \in Seq(Decisions)
    <3>1. pc = "decide"
      BY <1>4 DEF Replies, Deciding
    <3>. QED  BY <1>1, <2>1, <3>1 DEF HandIsSound, Alternation, SubmitterAnswers, Obeys, Serves, Writes
  <2>3. outbox' = ds /\ Len(outbox) = 0
    BY <2>2, ConcatEmptySeq, LenProperties
  <2>4. UNCHANGED registered
    BY <1>4 DEF Replies, WriteReply, batsimVars
  <2>5. \A p \in own.sent : p \in registered.profiles
    BY <1>1, <2>3 DEF SentIsKnown
  <2>6. Introduces(ds)
    BY <2>1 DEF SubmitterAnswers
  <2>7. SentIsKnown'
    BY <2>3, <2>4, <2>5, <2>6 DEF SentIsKnown, Introduces
  <2>8. ProfilesFirst'
    BY <2>3, <2>4, <2>5, <2>6 DEF ProfilesFirst, Introduces
  <2>. QED  BY <2>7, <2>8 DEF SubmitterIsSound
<1>5. CASE SkipDecisions
  BY <1>3, <1>5 DEF Listens, LoopIsSound, SkipDecisions
<1>. QED  BY <1>2, <1>3, <1>4, <1>5, Kinds DEF Listens

\* A job is registered with a profile that Batsim knows.
RegistersKnown == \A j \in Dynamic : status[j] = "future" /\ status'[j] # "future" =>
  Decision.profile \in registered'.profiles

\* The step: a registration refers to a profile that Batsim knows.
LEMMA RegistersKnownStep ==
  ASSUME Types, LoopIsSound, JobsOnce, SubmitterBooks, [Next]_vars
  PROVE  RegistersKnown
<1>. SUFFICES ASSUME NEW i \in Dynamic, status[i] = "future", status'[i] # "future"
              PROVE  Decision.profile \in registered'.profiles
  BY DEF RegistersKnown
<1>1. status \in [Jobs -> Statuses] /\ Static \cap Dynamic = {} /\ i \in Jobs
  BY RunLoopAssumption DEF Types, PlatformTypes, Static, Dynamic, Jobs
<1>2. BatsimActs
  <2>1. Stands \/ Hears \/ Replies \/ SkipDecisions => status' = status
    BY DEF Stands, Hears, Receives, Replies, SkipDecisions, WriteReply, batsimVars, jobVars
  <2>. QED  BY <2>1, Kinds
<1>3. ASSUME NEW j \in Jobs, Arrives(j) \/ IsAskedAbout(j) PROVE FALSE
  BY <1>1, <1>3 DEF Arrives, IsAskedAbout
<1>4. ASSUME NEW j \in Jobs, Finishes(j) PROVE FALSE
  BY <1>1, <1>4 DEF Finishes
<1>5. ASSUME NEW j \in Jobs, Starts(j) \/ IsRejected(j) PROVE FALSE
  BY <1>1, <1>5, ReadyAtHead DEF Starts, IsRejected, IsChoice
<1>6. ~NoJobMoves
  BY DEF NoJobMoves
<1>7. PICK j \in Jobs : IsRegistered(j)
  BY <1>2, <1>3, <1>4, <1>5, <1>6 DEF BatsimActs, JobMoves
<1>8. /\ TakesDecision /\ Decision.type = "REGISTER_JOB"
      /\ registered' = IF Decision.inlined
                         THEN [registered EXCEPT !.profiles = @ \cup {Decision.profile}]
                         ELSE registered
  BY <1>7 DEF IsRegistered, Registers
<1>9. 1 \in 1 .. Len(outbox) /\ Decision = outbox[1]
  BY <1>8, Taken
<1>10. ProfilesFirst
  BY <1>8, <1>9 DEF JobsOnce, FreshJobs, SubmitterBooks, SubmitterIsSound
<1>11. Decision.inlined \/ Decision.profile \in registered.profiles
  BY <1>8, <1>9, <1>10 DEF ProfilesFirst
<1>12. registered.profiles \subseteq registered'.profiles
  BY <1>2, ProfilesLearnt
<1>13. Decision.inlined => Decision.profile \in registered'.profiles
  BY <1>2, <1>8, ProfilesLearnt DEF Brings
<1>. QED  BY <1>11, <1>12, <1>13

-------------------------------------------------------------------------------
(* The books of sleeper: first the job, then the machines.                 *)

\* It has one job in hand, the one it computes, and knows its machines.
OwnJobInHand == InHand = {own.job} \ {NullJob}
NoJobNoMachine == own.job = NullJob => own.computing = {}
JobOnItsMachines == \A j \in Running : placed[j] \subseteq own.computing
SleeperJob == OwnJobInHand /\ NoJobNoMachine /\ JobOnItsMachines

\* Its members.
LEMMA SleeperMembers ==
  ASSUME Types, variant = "sleeper"
  PROVE  /\ own \in Members("sleeper")
         /\ own.computing \in SUBSET Machines /\ own.on \in SUBSET Machines
         /\ own.off \in SUBSET Machines /\ own.asleep \in SUBSET Machines
         /\ own.job \in Jobs \cup {NullJob}
         /\ available \in SUBSET Machines
         /\ \A p \in PStates : recent.switched[p] \in SUBSET Machines
<1>1. own \in Members("sleeper") /\ available \in SUBSET Machines /\ recent \in Accumulators
  BY DEF Types, AlgorithmTypes, LoopTypes
<1>2. own \in [computing : SUBSET Machines, on : SUBSET Machines,
               off : SUBSET Machines, asleep : SUBSET Machines,
               job : Jobs \cup {NullJob}, finished : BOOLEAN]
  BY <1>1 DEF Members
<1>3. recent.switched \in [PStates -> SUBSET Machines]
  BY <1>1 DEF Accumulators
<1>. QED  BY <1>1, <1>2, <1>3

\* NullJob is no job.
LEMMA NullIsNoJob == NullJob \notin Jobs
  BY RunLoopAssumption DEF NullJob, Jobs, Static, Dynamic

\* What batsched is told leaves its members alone.
LEMMA ListeningLeavesSleeper ==
  ASSUME Types, LoopIsSound, variant = "sleeper", Listens
  PROVE  /\ UNCHANGED <<own.computing, own.on, own.off, own.asleep, own.job, outbox>>
         /\ \A p \in PStates : Arrived(p)' = Arrived(p)
         /\ UNCHANGED <<pstate, target>>
         /\ \/ UNCHANGED available /\ (Begun => Begun')
               /\ (Begun' => Begun)
            \/ ~Begun /\ available' = Machines
<1>1. CASE Stands \/ (SkipDecisions /\ handled = Len(inbox))
  <2>1. UNCHANGED <<own, outbox, pstate, target, available>>
    BY <1>1 DEF Stands, SkipDecisions, WriteReply, schedVars, algoVars, batsimVars, platformVars
  <2>2. ~SkipDecisions
    BY DEF SkipDecisions, CallsMakeDecisions, LoopIsSound
  <2>3. UNCHANGED <<inbox, handled, recent>>
    BY <1>1, <2>2 DEF Stands, schedVars, loopVars
  <2>4. (\A p \in PStates : Arrived(p)' = Arrived(p)) /\ (Begun' <=> Begun)
    BY <2>3 DEF Arrived, SwitchesToTell, Untold, Begun
  <2>. QED  BY <2>1, <2>4
<1>2. CASE Hears
  <2>1. PICK b \in BOOLEAN : own' = [own EXCEPT !.finished = b]
    BY <1>2 DEF Hears, OwnHeard
  <2>2. own \in [computing : SUBSET Machines, on : SUBSET Machines,
                 off : SUBSET Machines, asleep : SUBSET Machines,
                 job : Jobs \cup {NullJob}, finished : BOOLEAN]
    BY SleeperMembers DEF Members
  <2>3. UNCHANGED <<own.computing, own.on, own.off, own.asleep, own.job>>
    BY <2>1, <2>2
  <2>4. UNCHANGED outbox /\ \A p \in PStates : Arrived(p)' = Arrived(p)
    BY <1>2 DEF Hears, OutboxHeard, MachinesHeard
  <2>5. UNCHANGED <<pstate, target>>
    BY <1>2 DEF Hears, Receives, batsimVars, platformVars
  <2>6. \/ UNCHANGED available /\ (Begun => Begun') /\ (Begun' => Begun)
        \/ ~Begun /\ available' = Machines
    BY <1>2 DEF Hears
  <2>. QED  BY <2>3, <2>4, <2>5, <2>6
<1>. QED  BY <1>1, <1>2 DEF Listens

\* The reply, for the job: the ended one is forgotten, another may start.
LEMMA ReplyKeepsSleeperJob ==
  ASSUME Types, LoopIsSound, JobsOnce, HandIsSound, SleeperJob, variant = "sleeper", Replies,
         NEW ds, Answered(ds), Sedates(ds) \/ WakesUp(ds)
  PROVE  SleeperJob'
<1>1. PICK s : s = SleeperUpdated
  OBVIOUS
<1>2. /\ Running' = Running /\ InHand = Running \cup EndedJobs /\ Running \cap EndedJobs = {}
      /\ InHand' = Running \cup StartedIn(ds) /\ InHand = {own.job} \ {NullJob}
      /\ own.job = NullJob => own.computing = {}
      /\ \A j \in Running : placed[j] \subseteq own.computing
      /\ placed' = placed
  BY DEF Answered, SleeperJob, OwnJobInHand, NoJobNoMachine, JobOnItsMachines, Replies, WriteReply,
     batsimVars, jobVars
<1>3. recent.ended # <<>> <=> EndedJobs # {}
  <2>1. recent.ended \in Seq(Jobs)
    BY DEF Types, LoopTypes, Accumulators
  <2>2. CASE recent.ended = <<>>
    BY <2>2 DEF EndedJobs, ToSet
  <2>3. CASE recent.ended # <<>>
    <3>1. 1 \in DOMAIN recent.ended
      BY <2>1, <2>3
    <3>. QED  BY <2>3, <3>1 DEF EndedJobs, ToSet
  <2>. QED  BY <2>2, <2>3
<1>4. /\ s.job = IF recent.ended # <<>> THEN NullJob ELSE own.job
      /\ s.computing = IF recent.ended # <<>> THEN {} ELSE own.computing
  BY <1>1 DEF SleeperUpdated
<1>5. /\ Running = {s.job} \ {NullJob}
      /\ s.job = NullJob => s.computing = {}
      /\ \A j \in Running : placed[j] \subseteq s.computing
  <2>1. CASE recent.ended # <<>>
    BY <1>2, <1>3, <1>4, <2>1
  <2>2. CASE recent.ended = <<>>
    BY <1>2, <1>3, <1>4, <2>2
  <2>. QED  BY <2>1, <2>2
<1>6. \/ StartedIn(ds) = {} /\ own'.job = s.job /\ own'.computing = s.computing
      \/ s.job = NullJob /\ own'.job # NullJob /\ StartedIn(ds) = {own'.job}
  BY <1>1 DEF Sedates, WakesUp
<1>7. CASE StartedIn(ds) = {} /\ own'.job = s.job /\ own'.computing = s.computing
  BY <1>2, <1>5, <1>7 DEF SleeperJob, OwnJobInHand, NoJobNoMachine, JobOnItsMachines
<1>8. CASE s.job = NullJob /\ own'.job # NullJob /\ StartedIn(ds) = {own'.job}
  BY <1>2, <1>5, <1>8 DEF SleeperJob, OwnJobInHand, NoJobNoMachine, JobOnItsMachines
<1>. QED  BY <1>6, <1>7, <1>8

\* What Batsim does, for the job.
LEMMA BatsimKeepsSleeperJob ==
  ASSUME Types, JobsOnce, HandIsSound, SleeperJob, variant = "sleeper", BatsimActs
  PROVE  SleeperJob'
<1>1. UNCHANGED own
  BY DEF BatsimActs, Quiet, schedVars, algoVars
<1>2. UNCHANGED InHand
  BY BatsimLeavesInHand DEF HandIsSound
<1>3. status \in [Jobs -> Statuses] /\ placed \in [Jobs -> SUBSET Machines]
  BY DEF Types, PlatformTypes
<1>4. JobOnItsMachines'
  <2>. SUFFICES ASSUME NEW i \in Running' PROVE placed'[i] \subseteq own.computing
    BY <1>1 DEF JobOnItsMachines
  <2>1. i \in Jobs /\ status'[i] = "running"
    BY DEF Running
  <2>2. i \in Running => placed[i] \subseteq own.computing
    BY DEF SleeperJob, JobOnItsMachines
  <2>3. ASSUME NEW j \in Jobs, Starts(j) PROVE placed'[i] \subseteq own.computing
    <3>1. /\ TakesDecision /\ Decision.type = "EXECUTE_JOB"
          /\ placed' = [placed EXCEPT ![j] = Decision.machines]
          /\ status' = [status EXCEPT ![j] = "running"]
      BY <2>3 DEF Starts
    <3>2. 1 \in 1 .. Len(outbox) /\ Decision = outbox[1]
      BY <3>1, Taken
    <3>3. Legal(Decision)
      BY <3>2 DEF HandIsSound, LegalOutbox
    <3>4. Decision.machines \subseteq own.computing
      BY <3>1, <3>3 DEF Legal, LegalExecution
    <3>5. i # j => i \in Running
      BY <1>3, <2>1, <3>1 DEF Running
    <3>. QED  BY <1>3, <2>1, <2>2, <3>1, <3>4, <3>5
  <2>4. ASSUME NEW j \in Jobs, Arrives(j) \/ IsAskedAbout(j) \/ IsRejected(j) \/ IsRegistered(j)
        PROVE  placed'[i] \subseteq own.computing
    <3>1. placed' = placed /\ \E t \in {"waiting", "potential", "rejected"} :
                                status' = [status EXCEPT ![j] = t]
      BY <2>4 DEF Arrives, IsAskedAbout, IsRejected, IsRegistered
    <3>. QED  BY <1>3, <2>1, <2>2, <3>1 DEF Running
  <2>5. ASSUME NEW j \in Jobs, Finishes(j)
        PROVE  placed'[i] \subseteq own.computing
    <3>1. placed' = [placed EXCEPT ![j] = {}] /\ status' = [status EXCEPT ![j] = "done"]
      BY <2>5 DEF Finishes
    <3>. QED  BY <1>3, <2>1, <2>2, <3>1 DEF Running
  <2>6. CASE NoJobMoves
    BY <2>1, <2>2, <2>6 DEF NoJobMoves, Running
  <2>. QED  BY <2>3, <2>4, <2>5, <2>6 DEF BatsimActs, JobMoves
<1>. QED  BY <1>1, <1>2, <1>4 DEF SleeperJob, OwnJobInHand, NoJobNoMachine

\* The machines: those on their way to a state were ordered to move there, are
\* moving, or have arrived as batsched has not reacted to yet.
OnWay(p) == ToldTo(p) \cup Switching(p) \cup Arrived(p)
InState(ms, p) == \A m \in ms : pstate[m] = p /\ target[m] = p

\* One order at most is on its way to Batsim.
OneOrder == \E ms \in SUBSET Machines, p \in {"fast", "asleep"} : OrdersOnly(outbox, ms, p)
MovesKnown == own.on = OnWay("fast") /\ own.off = OnWay("asleep")
StatesKnown ==
  /\ InState(available \cup own.computing \cup ToldTo("asleep") \cup Arrived("fast"), "fast")
  /\ InState(own.asleep \cup ToldTo("fast") \cup Arrived("asleep"), "asleep")
  /\ \A m \in Machines : target[m] # "slow"

\* Every machine is in one set; at first in none.
Apart(a, b, c, d, e) ==
  /\ a \cap b = {} /\ a \cap c = {} /\ a \cap d = {} /\ a \cap e = {}
  /\ b \cap c = {} /\ b \cap d = {} /\ b \cap e = {}
  /\ c \cap d = {} /\ c \cap e = {} /\ d \cap e = {}
InOneSet == Apart(available, own.computing, own.on, own.off, own.asleep)
InSomeSet == Begun =>
  Machines = available \cup own.computing \cup own.on \cup own.off \cup own.asleep
AllFastAtFirst == ~Begun =>
  /\ own.computing = {} /\ own.on = {} /\ own.off = {} /\ own.asleep = {}
  /\ InState(Machines, "fast")

SleeperMachines ==
  OneOrder /\ MovesKnown /\ StatesKnown /\ InOneSet /\ InSomeSet /\ AllFastAtFirst
SleeperBooks == variant = "sleeper" => SleeperJob /\ SleeperMachines

\* The machines that the orders are about.
LEMMA OrderedSets ==
  ASSUME NEW ds \in Seq(Decisions), NEW ms \in SUBSET Machines, NEW p, OrdersOnly(ds, ms, p),
         outbox = ds
  PROVE  ToldTo(p) = ms /\ \A q : q # p => ToldTo(q) = {}
<1>1. DOMAIN outbox = 1 .. Len(ds)
  BY LenProperties
<1>2. \A k \in 1 .. Len(ds) : ds[k].type = "SET_RESOURCE_STATE" => ds[k].machines = ms /\ ds[k].state = p
  BY DEF OrdersOnly
<1>3. ms # {} => \E k \in 1 .. Len(ds) : ds[k].type = "SET_RESOURCE_STATE"
  BY DEF OrdersOnly
<1>4. ToldTo(p) \subseteq ms /\ \A q : q # p => ToldTo(q) = {}
  BY <1>1, <1>2 DEF ToldTo
<1>5. ms \subseteq ToldTo(p)
  <2>. SUFFICES ASSUME NEW m \in ms PROVE m \in ToldTo(p)
    OBVIOUS
  <2>1. PICK k \in 1 .. Len(ds) : ds[k].type = "SET_RESOURCE_STATE"
    BY <1>3
  <2>. QED  BY <1>1, <1>2, <2>1 DEF ToldTo
<1>. QED  BY <1>4, <1>5

\* After Batsim has taken a decision: it was the order, or the order is left.
LEMMA OrderTaken ==
  ASSUME Types, TakesDecision, OneOrder
  PROVE  /\ OneOrder'
         /\ Decision.type = "SET_RESOURCE_STATE" =>
              /\ ToldTo(Decision.state) = Decision.machines
              /\ \A q : q # Decision.state => ToldTo(q) = {}
              /\ \A q : ToldTo(q)' = {}
              /\ Decision.machines # {} /\ Decision.state \in {"fast", "asleep"}
         /\ Decision.type # "SET_RESOURCE_STATE" => \A q : ToldTo(q)' = ToldTo(q)
<1>1. PICK ms \in SUBSET Machines, p \in {"fast", "asleep"} : OrdersOnly(outbox, ms, p)
  BY DEF OneOrder
<1>2. /\ Len(outbox) \in Nat \ {0} /\ Len(outbox') = Len(outbox) - 1 /\ Decision = outbox[1]
      /\ outbox' \in Seq(Decisions) /\ outbox \in Seq(Decisions)
      /\ \A k \in 1 .. Len(outbox') :
           k + 1 \in 1 .. Len(outbox) /\ outbox'[k] = outbox[k + 1]
      /\ \A k \in 1 .. Len(outbox) :
           k = 1 \/ (k - 1 \in 1 .. Len(outbox') /\ outbox'[k - 1] = outbox[k])
  BY Taken DEF Types, SocketTypes
<1>3. /\ \A k \in 1 .. Len(outbox) : outbox[k].type = "SET_RESOURCE_STATE" =>
           outbox[k].machines = ms /\ outbox[k].state = p /\ ms # {}
      /\ \A h, k \in 1 .. Len(outbox) :
           outbox[h].type = "SET_RESOURCE_STATE" /\ outbox[k].type = "SET_RESOURCE_STATE" => h = k
      /\ ms # {} => \E k \in 1 .. Len(outbox) : outbox[k].type = "SET_RESOURCE_STATE"
  BY <1>1 DEF OrdersOnly
<1>4. ToldTo(p) = ms /\ \A q : q # p => ToldTo(q) = {}
  BY <1>1, <1>2, OrderedSets
<1>5. CASE Decision.type = "SET_RESOURCE_STATE"
  <2>1. Decision.machines = ms /\ Decision.state = p /\ ms # {}
    BY <1>2, <1>3, <1>5
  <2>2. \A k \in 1 .. Len(outbox') : outbox'[k].type # "SET_RESOURCE_STATE"
    <3>. SUFFICES ASSUME NEW k \in 1 .. Len(outbox'), outbox'[k].type = "SET_RESOURCE_STATE"
                  PROVE  FALSE
      OBVIOUS
    <3>1. k + 1 \in 1 .. Len(outbox) /\ outbox[k + 1].type = "SET_RESOURCE_STATE"
      BY <1>2
    <3>2. 1 \in 1 .. Len(outbox) /\ outbox[1].type = "SET_RESOURCE_STATE"
      BY <1>2, <1>5
    <3>3. k + 1 = 1
      BY <1>3, <3>1, <3>2
    <3>. QED  BY <3>3
  <2>3. OrdersOnly(outbox', {}, "fast")
    BY <2>2 DEF OrdersOnly
  <2>4. OneOrder'
    BY <2>3 DEF OneOrder
  <2>5. DOMAIN outbox' = 1 .. Len(outbox')
    BY <1>2, LenProperties
  <2>6. \A q : ToldTo(q)' = {}
    BY <2>2, <2>5 DEF ToldTo
  <2>. QED  BY <1>4, <1>5, <2>1, <2>4, <2>6
<1>6. CASE Decision.type # "SET_RESOURCE_STATE"
  <2>1. OrdersOnly(outbox', ms, p)
    <3>1. \A k \in 1 .. Len(outbox') : outbox'[k].type = "SET_RESOURCE_STATE" =>
            outbox'[k].machines = ms /\ outbox'[k].state = p /\ ms # {}
      BY <1>2, <1>3
    <3>2. ASSUME NEW h \in 1 .. Len(outbox'), NEW k \in 1 .. Len(outbox'),
                 outbox'[h].type = "SET_RESOURCE_STATE", outbox'[k].type = "SET_RESOURCE_STATE"
          PROVE  h = k
      <4>1. /\ h + 1 \in 1 .. Len(outbox) /\ outbox[h + 1].type = "SET_RESOURCE_STATE"
            /\ k + 1 \in 1 .. Len(outbox) /\ outbox[k + 1].type = "SET_RESOURCE_STATE"
        BY <1>2, <3>2
      <4>2. h + 1 = k + 1
        BY <1>3, <4>1
      <4>. QED  BY <4>2
    <3>3. ms # {} => \E k \in 1 .. Len(outbox') : outbox'[k].type = "SET_RESOURCE_STATE"
      <4>. SUFFICES ASSUME ms # {}
                    PROVE  \E k \in 1 .. Len(outbox') : outbox'[k].type = "SET_RESOURCE_STATE"
        OBVIOUS
      <4>1. PICK k \in 1 .. Len(outbox) : outbox[k].type = "SET_RESOURCE_STATE"
        BY <1>3
      <4>2. k # 1
        BY <1>2, <1>6, <4>1
      <4>3. k - 1 \in 1 .. Len(outbox') /\ outbox'[k - 1] = outbox[k]
        BY <1>2, <4>2
      <4>. QED  BY <4>1, <4>3
    <3>. QED  BY <3>1, <3>2, <3>3 DEF OrdersOnly
  <2>2. OneOrder'
    BY <2>1 DEF OneOrder
  <2>3. PICK ds : ds = outbox'
    OBVIOUS
  <2>4. ToldTo(p)' = ms /\ \A q : q # p => ToldTo(q)' = {}
    <3>1. ds \in Seq(Decisions) /\ OrdersOnly(ds, ms, p)
      BY <1>2, <2>1, <2>3
    <3>2. DOMAIN outbox' = 1 .. Len(outbox')
      BY <1>2, LenProperties
    <3>3. ToldTo(p)' \subseteq ms /\ \A q : q # p => ToldTo(q)' = {}
      BY <2>1, <3>2 DEF ToldTo, OrdersOnly
    <3>4. ms \subseteq ToldTo(p)'
      <4>. SUFFICES ASSUME NEW m \in ms PROVE m \in ToldTo(p)'
        OBVIOUS
      <4>1. PICK k \in 1 .. Len(outbox') : outbox'[k].type = "SET_RESOURCE_STATE"
        BY <2>1 DEF OrdersOnly
      <4>. QED  BY <2>1, <3>2, <4>1 DEF ToldTo, OrdersOnly
    <3>. QED  BY <3>3, <3>4
  <2>5. ASSUME NEW q PROVE ToldTo(q)' = ToldTo(q)
    BY <1>4, <2>4
  <2>. QED  BY <1>6, <2>2, <2>5
<1>. QED  BY <1>5, <1>6

\* The machines, after a switch that is over.
LEMMA SwitchedSets ==
  ASSUME Types, variant = "sleeper", SleeperMachines, UNCHANGED <<own, available, target, outbox>>,
         Begun' <=> Begun, recent' = recent,
         NEW ms \in SUBSET Machines, NEW p \in PStates, ms \subseteq Switching(p), Switched(ms, p)
  PROVE  SleeperMachines'
<1>1. /\ pstate' = [m \in Machines |-> IF m \in ms THEN p ELSE pstate[m]]
      /\ Arrived(p)' = Arrived(p) \cup ms
      /\ \A q \in PStates \ {p} : Arrived(q)' = Arrived(q)
  BY DEF Switched, Arrived
<1>2. /\ \A m \in ms : pstate[m] # p /\ target[m] = p
      /\ \A q : ToldTo(q)' = ToldTo(q)
      /\ pstate \in [Machines -> PStates] /\ target \in [Machines -> PStates]
  BY DEF Switching, ToldTo, Types, PlatformTypes
<1>3. PICK inFast : inFast = available \cup own.computing \cup ToldTo("asleep") \cup Arrived("fast")
  OBVIOUS
<1>4. PICK inSleep : inSleep = own.asleep \cup ToldTo("fast") \cup Arrived("asleep")
  OBVIOUS
<1>5. /\ \A m \in inFast : pstate[m] = "fast" /\ target[m] = "fast"
      /\ \A m \in inSleep : pstate[m] = "asleep" /\ target[m] = "asleep"
      /\ \A m \in Machines : target[m] # "slow"
  BY <1>3, <1>4 DEF SleeperMachines, StatesKnown, InState
<1>6. inFast \subseteq Machines /\ inSleep \subseteq Machines
  <2>1. \A q \in {"fast", "asleep"} : Arrived(q) \subseteq Machines
    BY SleeperMembers DEF Arrived, SwitchesToTell, MachinesToTell, PStates
  <2>2. PICK os \in SUBSET Machines, q \in {"fast", "asleep"} : OrdersOnly(outbox, os, q)
    BY DEF SleeperMachines, OneOrder
  <2>3. \A r : ToldTo(r) \subseteq Machines
    BY <2>2, OrderedSets DEF Types, SocketTypes
  <2>. QED  BY <1>3, <1>4, <2>1, <2>3, SleeperMembers
<1>7. p \in {"fast", "asleep"} \/ ms = {}
  BY <1>2, <1>5 DEF PStates
<1>8. Switching(p)' = Switching(p) \ ms /\ \A q \in PStates \ {p} : Switching(q)' = Switching(q)
  BY <1>1, <1>2 DEF Switching
<1>9. MovesKnown'
  <2>1. \A q \in {"fast", "asleep"} : OnWay(q)' = OnWay(q)
    BY <1>1, <1>2, <1>8 DEF OnWay, PStates
  <2>. QED  BY <2>1 DEF SleeperMachines, MovesKnown
<1>10. StatesKnown'
  <2>1. \A m \in inFast : pstate'[m] = "fast" /\ target[m] = "fast"
    BY <1>1, <1>2, <1>5, <1>6
  <2>2. \A m \in inSleep : pstate'[m] = "asleep" /\ target[m] = "asleep"
    BY <1>1, <1>2, <1>5, <1>6
  <2>3. \A m \in ms : pstate'[m] = p /\ target[m] = p
    BY <1>1, <1>2
  <2>4. InState(available \cup own.computing \cup ToldTo("asleep") \cup Arrived("fast"), "fast")'
    <3>1. CASE p = "fast"
      BY <1>1, <1>2, <1>3, <2>1, <2>3, <3>1 DEF InState
    <3>2. CASE p # "fast"
      BY <1>1, <1>2, <1>3, <2>1, <3>2 DEF InState, PStates
    <3>. QED  BY <3>1, <3>2
  <2>5. InState(own.asleep \cup ToldTo("fast") \cup Arrived("asleep"), "asleep")'
    <3>1. CASE p = "asleep"
      BY <1>1, <1>2, <1>4, <2>2, <2>3, <3>1 DEF InState
    <3>2. CASE p # "asleep"
      BY <1>1, <1>2, <1>4, <2>2, <3>2 DEF InState, PStates
    <3>. QED  BY <3>1, <3>2
  <2>. QED  BY <1>5, <2>4, <2>5 DEF StatesKnown
<1>11. OneOrder' /\ InOneSet' /\ InSomeSet'
  <2>1. OneOrder'
    BY DEF SleeperMachines, OneOrder, OrdersOnly
  <2>2. InOneSet'
    BY DEF SleeperMachines, InOneSet
  <2>3. InSomeSet'
    BY DEF SleeperMachines, InSomeSet
  <2>. QED  BY <2>1, <2>2, <2>3
<1>12. AllFastAtFirst'
  <2>. SUFFICES ASSUME ~Begun
                PROVE  /\ own.computing = {} /\ own.on = {} /\ own.off = {} /\ own.asleep = {}
                       /\ \A m \in Machines : pstate'[m] = "fast" /\ target[m] = "fast"
    BY DEF AllFastAtFirst, InState
  <2>1. \A m \in Machines : pstate[m] = "fast" /\ target[m] = "fast"
    BY DEF SleeperMachines, AllFastAtFirst, InState
  <2>2. ms = {}
    BY <1>2, <2>1
  <2>. QED  BY <1>1, <2>1, <2>2 DEF SleeperMachines, AllFastAtFirst
<1>. QED  BY <1>9, <1>10, <1>11, <1>12 DEF SleeperMachines

\* The machines, after an order.
LEMMA OrderedMachines ==
  ASSUME Types, variant = "sleeper", SleeperMachines, UNCHANGED <<own, available>>,
         Begun' <=> Begun, recent' = recent,
         NEW ms \in SUBSET Machines, NEW p \in PStates, IsOrdered(ms, p)
  PROVE  SleeperMachines'
<1>1. /\ TakesDecision /\ Decision.type = "SET_RESOURCE_STATE"
      /\ Decision.machines = ms /\ Decision.state = p
      /\ target' = [m \in Machines |-> IF m \in ms THEN p ELSE target[m]]
      /\ AtOnce(ms, p) \/ (NoSwitchNews /\ UNCHANGED pstate)
  BY DEF IsOrdered
<1>2. /\ OneOrder' /\ ToldTo(p) = ms /\ (\A q : q # p => ToldTo(q) = {}) /\ (\A q : ToldTo(q)' = {})
      /\ ms # {} /\ p \in {"fast", "asleep"}
  BY <1>1, OrderTaken DEF SleeperMachines
<1>3. /\ pstate \in [Machines -> PStates] /\ target \in [Machines -> PStates]
      /\ own.off \subseteq Machines /\ own.on \subseteq Machines /\ own.asleep \subseteq Machines
      /\ available \subseteq Machines /\ own.computing \subseteq Machines
  BY SleeperMembers DEF Types, PlatformTypes
<1>4. /\ own.on = ToldTo("fast") \cup Switching("fast") \cup Arrived("fast")
      /\ own.off = ToldTo("asleep") \cup Switching("asleep") \cup Arrived("asleep")
  BY DEF SleeperMachines, MovesKnown, OnWay
<1>5. /\ \A m \in available \cup own.computing \cup ToldTo("asleep") \cup Arrived("fast") :
           pstate[m] = "fast" /\ target[m] = "fast"
      /\ \A m \in own.asleep \cup ToldTo("fast") \cup Arrived("asleep") :
           pstate[m] = "asleep" /\ target[m] = "asleep"
      /\ \A m \in Machines : target[m] # "slow"
  BY DEF SleeperMachines, StatesKnown, InState
<1>6. /\ own.on \cap (available \cup own.computing \cup own.off \cup own.asleep) = {}
      /\ own.off \cap (available \cup own.computing \cup own.on \cup own.asleep) = {}
  BY DEF SleeperMachines, InOneSet, Apart
<1>7. p = "fast" => \A m \in ms : pstate[m] = "asleep" /\ target[m] = "asleep"
  BY <1>2, <1>5
<1>8. p = "asleep" => \A m \in ms : pstate[m] = "fast" /\ target[m] = "fast"
  BY <1>2, <1>5
<1>9. UNCHANGED pstate /\ \A q \in PStates : Arrived(q)' = Arrived(q)
  <2>1. ~AtOnce(ms, p)
    BY <1>2, <1>7 DEF AtOnce
  <2>. QED  BY <1>1, <2>1 DEF NoSwitchNews, Arrived
<1>10. /\ Switching(p)' = Switching(p) \cup ms
       /\ \A q \in PStates \ {p, "slow"} : Switching(q)' = Switching(q)
  BY <1>1, <1>2, <1>3, <1>7, <1>8, <1>9 DEF Switching, PStates
<1>11. MovesKnown'
  <2>1. \A q \in {"fast", "asleep"} : OnWay(q)' = OnWay(q)
    BY <1>2, <1>9, <1>10 DEF OnWay, PStates
  <2>. QED  BY <2>1 DEF SleeperMachines, MovesKnown
<1>12. Arrived("fast") \cup Arrived("asleep") \subseteq Machines
  BY <1>3, <1>4
<1>13. StatesKnown'
  <2>1. CASE p = "fast"
    <3>1. ms \cap (available \cup own.computing) = {}
      BY <1>2, <1>4, <1>6, <2>1
    <3>2. InState(available \cup own.computing \cup ToldTo("asleep") \cup Arrived("fast"), "fast")'
      BY <1>1, <1>2, <1>3, <1>5, <1>9, <1>12, <2>1 DEF InState, PStates
    <3>3. ms \cap (own.asleep \cup Arrived("asleep")) = {}
      BY <1>2, <1>4, <1>6, <2>1
    <3>4. InState(own.asleep \cup ToldTo("fast") \cup Arrived("asleep"), "asleep")'
      BY <1>1, <1>2, <1>3, <1>5, <1>9, <1>12, <3>3 DEF InState, PStates
    <3>. QED  BY <1>1, <1>2, <1>5, <3>2, <3>4 DEF StatesKnown
  <2>2. CASE p = "asleep"
    <3>1. ms \cap (available \cup own.computing \cup Arrived("fast")) = {}
      BY <1>2, <1>4, <1>6, <2>2
    <3>2. InState(available \cup own.computing \cup ToldTo("asleep") \cup Arrived("fast"), "fast")'
      BY <1>1, <1>2, <1>3, <1>5, <1>9, <1>12, <3>1 DEF InState, PStates
    <3>4. InState(own.asleep \cup ToldTo("fast") \cup Arrived("asleep"), "asleep")'
      BY <1>1, <1>2, <1>3, <1>5, <1>9, <1>12, <2>2 DEF InState, PStates
    <3>. QED  BY <1>1, <1>2, <1>5, <3>2, <3>4 DEF StatesKnown
  <2>. QED  BY <1>2, <2>1, <2>2
<1>14. InOneSet' /\ InSomeSet'
  BY DEF SleeperMachines, InOneSet, InSomeSet
<1>15. Begun
  BY <1>2, <1>4 DEF SleeperMachines, AllFastAtFirst
<1>. QED  BY <1>2, <1>11, <1>13, <1>14, <1>15 DEF SleeperMachines, AllFastAtFirst

\* What Batsim does, for the machines.
LEMMA BatsimKeepsMachines ==
  ASSUME Types, variant = "sleeper", SleeperMachines, BatsimActs
  PROVE  SleeperMachines'
<1>1. UNCHANGED <<own, available, recent>> /\ (Begun' <=> Begun)
  BY DEF BatsimActs, Quiet, schedVars, algoVars, loopVars
<1>2. CASE /\ NoSwitchNews /\ UNCHANGED <<pstate, target>>
           /\ KeepsDecisions \/ (TakesDecision /\ Decision.type # "SET_RESOURCE_STATE")
  <2>1. OneOrder' /\ \A q : ToldTo(q)' = ToldTo(q)
    <3>1. CASE KeepsDecisions
      BY <3>1 DEF KeepsDecisions, SleeperMachines, OneOrder, OrdersOnly, ToldTo
    <3>2. CASE TakesDecision /\ Decision.type # "SET_RESOURCE_STATE"
      BY <3>2, OrderTaken DEF SleeperMachines
    <3>. QED  BY <1>2, <3>1, <3>2
  <2>2. \A q \in PStates : Arrived(q)' = Arrived(q) /\ Switching(q)' = Switching(q)
    BY <1>1, <1>2 DEF NoSwitchNews, Arrived, Switching
  <2>3. MovesKnown' /\ StatesKnown'
    BY <1>1, <1>2, <2>1, <2>2 DEF SleeperMachines, MovesKnown, OnWay, StatesKnown, InState, PStates
  <2>4. InOneSet' /\ InSomeSet' /\ AllFastAtFirst'
    BY <1>1, <1>2 DEF SleeperMachines, InOneSet, InSomeSet, AllFastAtFirst, InState
  <2>. QED  BY <2>1, <2>3, <2>4 DEF SleeperMachines
<1>3. ASSUME NEW ms \in SUBSET Machines, NEW p \in PStates, IsSwitched(ms, p)
      PROVE  SleeperMachines'
  <2>1. ms \subseteq Switching(p) /\ Switched(ms, p) /\ UNCHANGED <<outbox, target>>
    BY <1>3 DEF IsSwitched, KeepsDecisions
  <2>. QED  BY <1>1, <2>1, SwitchedSets
<1>4. ASSUME NEW ms \in SUBSET Machines, NEW p \in PStates, IsOrdered(ms, p)
      PROVE  SleeperMachines'
  BY <1>1, <1>4, OrderedMachines
<1>. QED  BY <1>2, <1>3, <1>4 DEF BatsimActs, SwitchMoves

\* What batsched is told, for the machines.
LEMMA ListeningKeepsMachines ==
  ASSUME Types, LoopIsSound, variant = "sleeper", SleeperMachines, Listens
  PROVE  SleeperMachines'
<1>1. /\ UNCHANGED <<own.computing, own.on, own.off, own.asleep, outbox, pstate, target>>
      /\ \A p \in PStates : Arrived(p)' = Arrived(p)
      /\ \/ UNCHANGED available /\ (Begun => Begun') /\ (Begun' => Begun)
         \/ ~Begun /\ available' = Machines
  BY ListeningLeavesSleeper
<1>2. OneOrder'
  BY <1>1 DEF SleeperMachines, OneOrder, OrdersOnly
<1>3. /\ \A q : ToldTo(q)' = ToldTo(q)
      /\ \A q \in PStates : Switching(q)' = Switching(q)
  BY <1>1 DEF ToldTo, Switching
<1>4. MovesKnown'
  BY <1>1, <1>3 DEF SleeperMachines, MovesKnown, OnWay, PStates
<1>5. CASE UNCHANGED available /\ (Begun => Begun') /\ (Begun' => Begun)
  <2>1. StatesKnown'
    BY <1>1, <1>3, <1>5 DEF SleeperMachines, StatesKnown, InState, PStates
  <2>2. InOneSet'
    BY <1>1, <1>5 DEF SleeperMachines, InOneSet
  <2>3. InSomeSet'
    BY <1>1, <1>5 DEF SleeperMachines, InSomeSet
  <2>4. AllFastAtFirst'
    BY <1>1, <1>5 DEF SleeperMachines, AllFastAtFirst, InState
  <2>. QED  BY <1>2, <1>4, <2>1, <2>2, <2>3, <2>4 DEF SleeperMachines
<1>6. CASE ~Begun /\ available' = Machines
  <2>1. /\ own.computing = {} /\ own.on = {} /\ own.off = {} /\ own.asleep = {}
        /\ \A m \in Machines : pstate[m] = "fast" /\ target[m] = "fast"
    BY <1>6 DEF SleeperMachines, AllFastAtFirst, InState
  <2>2. \A p \in {"fast", "asleep"} : ToldTo(p) = {} /\ Arrived(p) = {}
    BY <2>1 DEF SleeperMachines, MovesKnown, OnWay
  <2>3. StatesKnown'
    <3>1. \A m \in Machines : target[m] # "slow"
      BY DEF SleeperMachines, StatesKnown
    <3>. QED  BY <1>1, <1>3, <1>6, <2>1, <2>2, <3>1 DEF StatesKnown, InState, PStates
  <2>4. InOneSet' /\ InSomeSet'
    BY <1>1, <1>6, <2>1 DEF InOneSet, Apart, InSomeSet
  <2>5. AllFastAtFirst'
    BY <1>1, <2>1 DEF AllFastAtFirst, InState
  <2>. QED  BY <1>2, <1>4, <2>3, <2>4, <2>5 DEF SleeperMachines
<1>. QED  BY <1>1, <1>5, <1>6

\* The sets when the algorithm decides: the machines that have arrived are where
\* they belong, those of the ended job are available.
UpToDate(s) ==
  /\ Apart(s.avail, s.computing, s.on, s.off, s.asleep)
  /\ Machines = s.avail \cup s.computing \cup s.on \cup s.off \cup s.asleep
  /\ s.on = Switching("fast") /\ s.off = Switching("asleep")
  /\ InState(s.avail \cup s.computing, "fast") /\ InState(s.asleep, "asleep")

\* sleeper's sets are so when it decides.
LEMMA UpdatedSets ==
  ASSUME Types, LoopIsSound, HandIsSound, variant = "sleeper", SleeperMachines, Replies
  PROVE  UpToDate(SleeperUpdated)
<1>1. /\ Begun /\ \A p : SwitchesToTell(p) = {}
  BY AllTold DEF Replies, LoopIsSound
<1>2. \A q : ToldTo(q) = {}
  <2>1. pc = "decide"
    BY DEF Replies, Deciding
  <2>2. outbox = <<>>
    BY <2>1 DEF HandIsSound, Alternation
  <2>. QED  BY <2>2 DEF ToldTo
<1>3. PICK s : s = SleeperUpdated
  OBVIOUS
<1>4. PICK c : c = own.computing
  OBVIOUS
<1>5. PICK woken : woken = recent.switched["fast"]
  OBVIOUS
<1>6. PICK slept : slept = recent.switched["asleep"]
  OBVIOUS
<1>7. /\ s.avail = available \cup woken \cup IF recent.ended # <<>> THEN c ELSE {}
      /\ s.computing = IF recent.ended # <<>> THEN {} ELSE c
      /\ s.on = own.on \ woken /\ s.off = own.off \ slept
      /\ s.asleep = own.asleep \cup slept
  BY <1>3, <1>4, <1>5, <1>6 DEF SleeperUpdated
<1>8. own.on = Switching("fast") \cup woken /\ own.off = Switching("asleep") \cup slept
  BY <1>1, <1>2, <1>5, <1>6 DEF SleeperMachines, MovesKnown, OnWay, Arrived
<1>9. /\ \A m \in available \cup c \cup woken : pstate[m] = "fast" /\ target[m] = "fast"
      /\ \A m \in own.asleep \cup slept : pstate[m] = "asleep" /\ target[m] = "asleep"
  BY <1>1, <1>2, <1>4, <1>5, <1>6 DEF SleeperMachines, StatesKnown, InState, Arrived
<1>10. /\ Apart(available, c, own.on, own.off, own.asleep)
       /\ Machines = available \cup c \cup own.on \cup own.off \cup own.asleep
  BY <1>1, <1>4 DEF SleeperMachines, InOneSet, InSomeSet
<1>11. s.on = Switching("fast") /\ s.off = Switching("asleep")
  <2>1. Switching("fast") \cap woken = {} /\ Switching("asleep") \cap slept = {}
    BY <1>9 DEF Switching
  <2>. QED  BY <1>7, <1>8, <2>1
<1>12. InState(s.avail \cup s.computing, "fast") /\ InState(s.asleep, "asleep")
  BY <1>7, <1>9 DEF InState
<1>13. woken \subseteq own.on /\ slept \subseteq own.off
  BY <1>8
<1>14. /\ Apart(s.avail, s.computing, s.on, s.off, s.asleep)
       /\ Machines = s.avail \cup s.computing \cup s.on \cup s.off \cup s.asleep
  <2>1. CASE recent.ended # <<>>
    <3>1. s.avail = available \cup woken \cup c /\ s.computing = {}
      BY <1>7, <2>1
    <3>. QED  BY <1>7, <1>10, <1>13, <3>1 DEF Apart
  <2>2. CASE recent.ended = <<>>
    <3>1. s.avail = available \cup woken /\ s.computing = c
      BY <1>7, <2>2
    <3>. QED  BY <1>7, <1>10, <1>13, <3>1 DEF Apart
  <2>. QED  BY <2>1, <2>2
<1>. QED  BY <1>3, <1>11, <1>12, <1>14 DEF UpToDate

\* The reply, for the machines.
LEMMA ReplyKeepsMachines ==
  ASSUME Types, LoopIsSound, HandIsSound, SleeperJob, variant = "sleeper", SleeperMachines, Replies,
         NEW ds, Obeys(ds), Sedates(ds) \/ WakesUp(ds)
  PROVE  SleeperMachines'
<1>1. PICK s : s = SleeperUpdated
  OBVIOUS
<1>2. /\ Apart(s.avail, s.computing, s.on, s.off, s.asleep)
      /\ Machines = s.avail \cup s.computing \cup s.on \cup s.off \cup s.asleep
      /\ s.on = Switching("fast") /\ s.off = Switching("asleep")
      /\ \A m \in s.avail \cup s.computing : pstate[m] = "fast" /\ target[m] = "fast"
      /\ \A m \in s.asleep : pstate[m] = "asleep" /\ target[m] = "asleep"
  BY <1>1, UpdatedSets DEF UpToDate, InState
<1>3. outbox' = ds /\ ds \in Seq(Decisions)
  <2>1. pc = "decide"
    BY DEF Replies, Deciding
  <2>2. outbox = <<>> /\ outbox' = outbox \o ds /\ ds \in Seq(Decisions)
    BY <2>1 DEF HandIsSound, Alternation, Obeys, Serves, Writes
  <2>. QED  BY <2>2, ConcatEmptySeq
<1>4. UNCHANGED <<pstate, target>> /\ \A p \in PStates : Switching(p)' = Switching(p)
  BY DEF Replies, WriteReply, batsimVars, platformVars, Switching
<1>5. Begun' /\ \A p \in PStates : Arrived(p)' = {}
  <2>1. Begun' /\ \A p : SwitchesToTell(p)' = {}
    BY NothingToTell DEF Replies
  <2>2. \A p \in PStates : recent'.switched[p] = {}
    BY DEF Obeys, NothingRecent
  <2>. QED  BY <2>1, <2>2 DEF Arrived
<1>6. \A m \in Machines : target[m] # "slow"
  BY DEF SleeperMachines, StatesKnown
<1>7. s.job = NullJob => s.computing = {}
  BY <1>1 DEF SleeperUpdated, SleeperJob, NoJobNoMachine
<1>8. ASSUME NEW ms \in SUBSET Machines, NEW p \in {"fast", "asleep"}, OrdersOnly(ds, ms, p)
      PROVE  /\ OneOrder' /\ ToldTo(p)' = ms
             /\ ToldTo(IF p = "fast" THEN "asleep" ELSE "fast")' = {}
  <2>1. OneOrder'
    BY <1>3, <1>8 DEF OneOrder
  <2>2. DOMAIN ds = 1 .. Len(ds)
    BY <1>3, LenProperties
  <2>3. /\ \A k \in 1 .. Len(ds) : ds[k].type = "SET_RESOURCE_STATE" =>
             ds[k].machines = ms /\ ds[k].state = p
        /\ ms # {} => \E k \in 1 .. Len(ds) : ds[k].type = "SET_RESOURCE_STATE"
    BY <1>8 DEF OrdersOnly
  <2>4. ToldTo(p)' \subseteq ms /\ \A q : q # p => ToldTo(q)' = {}
    BY <1>3, <2>2, <2>3 DEF ToldTo
  <2>5. ms \subseteq ToldTo(p)'
    <3>. SUFFICES ASSUME NEW m \in ms PROVE m \in ToldTo(p)'
      OBVIOUS
    <3>1. PICK k \in 1 .. Len(ds) : ds[k].type = "SET_RESOURCE_STATE"
      BY <2>3
    <3>. QED  BY <1>3, <2>2, <2>3, <3>1 DEF ToldTo
  <2>. QED  BY <2>1, <2>4, <2>5
<1>9. CASE Sedates(ds)
  <2>1. PICK alloc \in SUBSET s.avail : \E rest :
    /\ rest = s.avail \ alloc /\ OrdersOnly(ds, rest, "asleep")
    /\ available' = {} /\ own'.off = s.off \cup rest
    /\ own'.on = s.on /\ own'.asleep = s.asleep
    /\ \/ StartedIn(ds) = {} /\ alloc = {} /\ own'.computing = s.computing
       \/ s.job = NullJob /\ own'.computing = alloc
    BY <1>1, <1>9 DEF Sedates
  <2>2. PICK rest : /\ rest = s.avail \ alloc /\ OrdersOnly(ds, rest, "asleep")
                    /\ available' = {} /\ own'.off = s.off \cup rest
                    /\ own'.on = s.on /\ own'.asleep = s.asleep
    BY <2>1
  <2>3. own'.computing = s.computing \cup alloc
    BY <1>7, <2>1
  <2>4. OneOrder' /\ ToldTo("asleep")' = rest /\ ToldTo("fast")' = {}
    <3>1. rest \in SUBSET Machines
      BY <1>2, <2>2
    <3>. QED  BY <1>8, <2>2, <3>1
  <2>5. MovesKnown'
    BY <1>2, <1>4, <1>5, <2>2, <2>4 DEF MovesKnown, OnWay, PStates
  <2>6. StatesKnown'
    BY <1>2, <1>4, <1>5, <1>6, <2>2, <2>3, <2>4 DEF StatesKnown, InState, PStates
  <2>7. InOneSet' /\ InSomeSet'
    BY <1>2, <2>2, <2>3 DEF InOneSet, InSomeSet, Apart
  <2>. QED  BY <1>5, <2>4, <2>5, <2>6, <2>7 DEF SleeperMachines, AllFastAtFirst
<1>10. CASE WakesUp(ds)
  <2>1. PICK woken \in SUBSET s.asleep :
    /\ OrdersOnly(ds, woken, "fast")
    /\ available' = s.avail /\ own'.on = s.on \cup woken
    /\ own'.asleep = s.asleep \ woken /\ own'.off = s.off
    /\ own'.computing = s.computing
    BY <1>1, <1>10 DEF WakesUp
  <2>2. OneOrder' /\ ToldTo("fast")' = woken /\ ToldTo("asleep")' = {}
    <3>1. woken \in SUBSET Machines
      BY <1>2
    <3>. QED  BY <1>8, <2>1, <3>1
  <2>3. MovesKnown'
    BY <1>2, <1>4, <1>5, <2>1, <2>2 DEF MovesKnown, OnWay, PStates
  <2>4. StatesKnown'
    BY <1>2, <1>4, <1>5, <1>6, <2>1, <2>2 DEF StatesKnown, InState, PStates
  <2>5. InOneSet' /\ InSomeSet'
    BY <1>2, <2>1 DEF InOneSet, InSomeSet, Apart
  <2>. QED  BY <1>5, <2>2, <2>3, <2>4, <2>5 DEF SleeperMachines, AllFastAtFirst
<1>. QED  BY <1>9, <1>10

\* The step for sleeper.
LEMMA SleeperStep ==
  ASSUME Types, LoopIsSound, JobsOnce, HandIsSound, SleeperBooks, [Next]_vars
  PROVE  SleeperBooks'
<1>. SUFFICES ASSUME variant' = "sleeper" PROVE SleeperJob' /\ SleeperMachines'
  BY DEF SleeperBooks
<1>1. variant = "sleeper" /\ SleeperJob /\ SleeperMachines
  BY SameVariant DEF SleeperBooks
<1>2. CASE BatsimActs
  BY <1>1, <1>2, BatsimKeepsSleeperJob, BatsimKeepsMachines
<1>3. CASE Listens
  <2>1. UNCHANGED <<InHand, Running, placed>>
    BY <1>3, ListeningLeavesInHand
  <2>2. UNCHANGED <<own.computing, own.job>>
    BY <1>1, <1>3, ListeningLeavesSleeper
  <2>3. SleeperJob'
    BY <1>1, <2>1, <2>2 DEF SleeperJob, OwnJobInHand, NoJobNoMachine, JobOnItsMachines
  <2>. QED  BY <1>1, <1>3, <2>3, ListeningKeepsMachines
<1>4. CASE Replies
  <2>1. PICK ds : Obeys(ds) /\ (Sedates(ds) \/ WakesUp(ds))
    BY <1>1, <1>4, SleeperServes DEF Replies, MakeDecisions, KillerMakeDecisions,
       Killer2MakeDecisions, FillerMakeDecisions, SequencerMakeDecisions, CrasherMakeDecisions,
       DVFSMakeDecisions, SubmitterMakeDecisions, RejecterMakeDecisions,
       WaitingTimeEstimatorMakeDecisions, RandomMakeDecisions, EnergyWatcherMakeDecisions
  <2>2. Answered(ds)
    BY <1>4, <2>1, HandAnswered
  <2>. QED  BY <1>1, <1>4, <2>1, <2>2, ReplyKeepsSleeperJob, ReplyKeepsMachines
<1>5. CASE SkipDecisions
  BY <1>3, <1>5 DEF Listens, LoopIsSound, SkipDecisions
<1>. QED  BY <1>2, <1>3, <1>4, <1>5, Kinds DEF Listens

-------------------------------------------------------------------------------
(* The whole invariant.                                                    *)

\* Only sleeper puts machines to sleep.
Awake == variant # "sleeper" =>
  \A m \in Machines : pstate[m] # "asleep" /\ target[m] # "asleep"

\* The step: no other algorithm orders a machine to sleep.
LEMMA AwakeStep ==
  ASSUME Types, LoopIsSound, HandIsSound, Awake, [Next]_vars
  PROVE  Awake'
<1>. SUFFICES ASSUME variant' # "sleeper", NEW m \in Machines
              PROVE  pstate'[m] # "asleep" /\ target'[m] # "asleep"
  BY DEF Awake
<1>1. variant # "sleeper" /\ \A i \in Machines : pstate[i] # "asleep" /\ target[i] # "asleep"
  BY SameVariant DEF Awake
<1>2. pstate \in [Machines -> PStates] /\ target \in [Machines -> PStates]
  BY DEF Types, PlatformTypes
<1>3. CASE BatsimActs
  <2>1. ASSUME NEW ms \in SUBSET Machines, NEW p \in PStates, IsSwitched(ms, p)
        PROVE  pstate'[m] # "asleep" /\ target'[m] # "asleep"
    <3>1. /\ target' = target /\ ms \subseteq Switching(p)
          /\ pstate' = [i \in Machines |-> IF i \in ms THEN p ELSE pstate[i]]
      BY <2>1 DEF IsSwitched, Switched
    <3>2. m \in ms => target[m] = p
      BY <3>1 DEF Switching
    <3>. QED  BY <1>1, <1>2, <3>1, <3>2
  <2>2. ASSUME NEW ms \in SUBSET Machines, NEW p \in PStates, IsOrdered(ms, p)
        PROVE  pstate'[m] # "asleep" /\ target'[m] # "asleep"
    <3>1. /\ TakesDecision /\ Decision.type = "SET_RESOURCE_STATE" /\ Decision.state = p
          /\ target' = [i \in Machines |-> IF i \in ms THEN p ELSE target[i]]
          /\ \/ pstate' = [i \in Machines |-> IF i \in ms THEN p ELSE pstate[i]]
             \/ pstate' = pstate
      BY <2>2 DEF IsOrdered, Switched
    <3>2. 1 \in 1 .. Len(outbox) /\ Decision = outbox[1]
      BY <3>1, Taken
    <3>3. Legal(Decision)
      BY <3>2 DEF HandIsSound, LegalOutbox
    <3>4. p # "asleep"
      BY <1>1, <3>1, <3>3 DEF Legal, LegalSwitch
    <3>. QED  BY <1>1, <1>2, <3>1, <3>4
  <2>3. CASE UNCHANGED <<pstate, target>>
    BY <1>1, <2>3
  <2>. QED  BY <1>3, <2>1, <2>2, <2>3 DEF BatsimActs, SwitchMoves
<1>4. CASE Stands \/ Hears \/ Replies \/ SkipDecisions
  <2>1. UNCHANGED <<pstate, target>>
    BY <1>4 DEF Stands, Hears, Receives, Replies, SkipDecisions, WriteReply, batsimVars, platformVars
  <2>. QED  BY <1>1, <2>1
<1>. QED  BY <1>3, <1>4, Kinds

\* What each algorithm knows.
BooksOfAll ==
  /\ AllocationBooks /\ OneAtATime /\ Killer2Books /\ FillerBooks /\ SubmitterBooks
  /\ SleeperBooks

Books ==
  /\ Types /\ Unread /\ LoopIsSound /\ JobsOnce /\ HandIsSound
  /\ variant \in Variants
  /\ Awake /\ BooksOfAll

\* At the beginning.
LEMMA BooksInit ==
  ASSUME Init
  PROVE  Books
<1>1. Types /\ Unread /\ LoopIsSound /\ JobsOnce /\ HandIsSound
  BY InitIInv, JobsOnceInit, HandInit DEF IInv
<1>2. /\ variant \in Variants /\ own \in OptionsOf(variant)
      /\ pc = "batsim" /\ outbox = <<>> /\ Len(outbox) = 0 /\ recent = NothingRecent
      /\ inbox = <<Event("SIMULATION_BEGINS")>> /\ handled = 0 /\ available = {} /\ kills = <<>>
      /\ \A j \in Jobs : status[j] = "future" /\ allocations[j] = {}
      /\ \A m \in Machines : pstate[m] = "fast" /\ target[m] = "fast"
      /\ down = {} /\ registered.profiles = {}
  BY DEF Init
<1>3. /\ ~Begun /\ Lost = {} /\ Found = {} /\ \A p : SwitchesToTell(p) = {}
  <2>1. \A k \in Untold : k = 1
    BY <1>2 DEF Untold
  <2>2. 1 \in Untold /\ inbox[1].type = "SIMULATION_BEGINS"
    BY <1>2 DEF Untold, Event
  <2>. QED  BY <2>1, <2>2 DEF Begun, Lost, Found, MachinesToTell, SwitchesToTell
<1>4. InHand = {} /\ HasAllocation = {} /\ Running = {} /\ StartedIn(outbox) = {}
  <2>1. InHand = {}
    BY <1>1, <1>3 DEF HandIsSound, FirstBegins
  <2>. QED  BY <1>2, <2>1 DEF InHand, HasAllocation
<1>5. /\ \A q : ToldTo(q) = {}
      /\ \A q \in {"fast", "asleep"} : Switching(q) = {} /\ Arrived(q) = {}
      /\ recent.gone = {} /\ recent.backAgain = {}
  BY <1>2, <1>3 DEF ToldTo, Switching, Arrived, NothingRecent, PStates
<1>6. Awake
  BY <1>2 DEF Awake
<1>7. AllocationBooks
  BY <1>2, <1>3, <1>4 DEF AllocationBooks, Disjoint, AvailableRest, PlacedThere
<1>8. OneAtATime
  <2>1. Sequencing => ~own.running
    BY <1>2 DEF Sequencing, OptionsOf, SequencerOptions, CrasherOptions, DVFSOptions
  <2>2. variant = "energy_watcher" => ~own.busy
    BY <1>2 DEF OptionsOf, WatcherOptions
  <2>. QED  BY <1>4, <2>1, <2>2 DEF OneAtATime, SequencerBooks, WatcherBooks, OneInHand
<1>9. Killer2Books
  <2>1. \A k \in 1 .. Len(outbox) : FALSE
    BY <1>2
  <2>2. Killer2Soon
    BY <1>2, <2>1 DEF Killer2Soon, KillsFirst, SoonApplied, KillsPending, HoldsType
  <2>. QED  BY <1>3, <1>4, <2>2 DEF Killer2Books, Killer2IsSound, OneAllocation, GivenInHand,
         AvailableRest, ForgottenIsKilled
<1>10. FillerBooks
  <2>1. variant = "filler" => own.unavailable = {}
    BY <1>2 DEF OptionsOf, FillerOptions
  <2>2. inbox # <<>>
    BY <1>2
  <2>. QED  BY <1>2, <1>3, <1>5, <2>1, <2>2 DEF FillerBooks, FillerIsSound, OutagesKnown, NoneCanStart,
         Gone, BackAgain
<1>11. SubmitterBooks
  <2>1. variant = "submitter" => own.sent = {}
    BY <1>2 DEF OptionsOf, SubmitterOptions
  <2>2. \A k \in 1 .. Len(outbox) : FALSE
    BY <1>2
  <2>. QED  BY <2>1, <2>2 DEF SubmitterBooks, SubmitterIsSound, SentIsKnown, ProfilesFirst
<1>12. SleeperBooks
  <2>. SUFFICES ASSUME variant = "sleeper" PROVE SleeperJob /\ SleeperMachines
    BY DEF SleeperBooks
  <2>1. own = [computing |-> {}, on |-> {}, off |-> {}, asleep |-> {}, job |-> NullJob,
               finished |-> FALSE]
    BY <1>2 DEF OptionsOf, SleeperOptions
  <2>2. SleeperJob
    BY <1>4, <2>1 DEF SleeperJob, OwnJobInHand, NoJobNoMachine, JobOnItsMachines
  <2>3. OneOrder
    <3>1. \A k \in 1 .. Len(outbox) : FALSE
      BY <1>2
    <3>2. OrdersOnly(outbox, {}, "fast")
      BY <3>1 DEF OrdersOnly
    <3>. QED  BY <3>2 DEF OneOrder
  <2>4. MovesKnown /\ StatesKnown
    BY <1>2, <1>5, <2>1 DEF MovesKnown, OnWay, StatesKnown, InState
  <2>5. InOneSet /\ InSomeSet /\ AllFastAtFirst
    BY <1>2, <1>3, <2>1 DEF InOneSet, Apart, InSomeSet, AllFastAtFirst, InState
  <2>. QED  BY <2>2, <2>3, <2>4, <2>5 DEF SleeperMachines
<1>. QED  BY <1>1, <1>2, <1>6, <1>7, <1>8, <1>9, <1>10, <1>11, <1>12 DEF Books, BooksOfAll

\* Every step keeps it.
LEMMA BooksStep ==
  ASSUME Books, [Next]_vars
  PROVE  Books'
<1>1. Types /\ Unread /\ LoopIsSound /\ JobsOnce /\ HandIsSound /\ variant \in Variants /\ Awake
  BY DEF Books
<1>2. AllocationBooks /\ OneAtATime /\ Killer2Books /\ FillerBooks /\ SubmitterBooks /\ SleeperBooks
  BY DEF Books, BooksOfAll
<1>3. SkipDecisions => recent = NothingRecent
  BY <1>1 DEF SkipDecisions, CallsMakeDecisions, Unread
<1>4. Types' /\ Unread' /\ LoopIsSound'
  BY <1>1, <1>3, NextKeepsTypes, UnreadStep, LoopStep
<1>5. variant = "killer2" /\ Deciding => NoMachineLost
  <2>. SUFFICES ASSUME variant = "killer2", Deciding PROVE NoMachineLost
    OBVIOUS
  <2>1. Begun /\ available = Machines \ UNION {allocations[j] : j \in Jobs}
    BY <1>1, <1>2, AllTold DEF LoopIsSound, Killer2Books, Killer2IsSound, AvailableRest
  <2>2. allocations \in [Jobs -> SUBSET Machines]
    BY <1>1 DEF Types, AlgorithmTypes
  <2>. QED  BY <2>1, <2>2 DEF NoMachineLost
<1>6. JobsOnce'
  BY <1>1, <1>5, JobsOnceStep
<1>7. HandIsSound'
  <2>1. CASE BatsimActs \/ Listens
    BY <1>1, <2>1, HandKept
  <2>2. CASE Replies
    <3>1. \E ds : Obeys(ds)
      <4>1. Deciding
        BY <2>2 DEF Replies
      <4>. QED  BY <1>1, <1>5, <2>2, <4>1, RepliesServe
    <3>. QED  BY <1>1, <2>2, <3>1, HandAnswered
  <2>3. SkipDecisions => Listens
    BY <1>1 DEF SkipDecisions, LoopIsSound, Listens
  <2>. QED  BY <1>1, <2>1, <2>2, <2>3, Kinds DEF Listens
<1>8. variant' \in Variants /\ Awake'
  BY <1>1, SameVariant, AwakeStep
<1>9. AllocationBooks' /\ OneAtATime' /\ Killer2Books'
  BY <1>1, <1>2, AllocationStep, OneAtATimeStep, Killer2Step
<1>10. FillerBooks' /\ SubmitterBooks' /\ SleeperBooks'
  BY <1>1, <1>2, FillerStep, SubmitterStep, SleeperStep
<1>. QED  BY <1>4, <1>6, <1>7, <1>8, <1>9, <1>10 DEF Books, BooksOfAll

\* The invariant: what the algorithms believe agrees with the platform, but for
\* what is still to be applied or to be told.
THEOREM BooksInvariant == Spec => []Books
<1>1. Init => Books
  BY BooksInit
<1>2. Books /\ [Next]_vars => Books'
  BY BooksStep
<1>. QED  BY <1>1, <1>2, PTL DEF Spec

-------------------------------------------------------------------------------
(* What follows from it.                                                   *)

\* Between two messages nothing is pending: what Batsim has to tell is in the
\* message to come.
LEMMA WhileBatsimWorks ==
  ASSUME Books, AtWork
  PROVE  /\ Untold = DOMAIN inbox /\ DOMAIN inbox = 1 .. Len(inbox)
         /\ recent = NothingRecent /\ EndedJobs = {}
         /\ BetweenMessages => Begun
         /\ UnderWay = InHand
<1>1. handled = 0 /\ recent = NothingRecent
  BY DEF Books, Unread
<1>2. inbox \in Seq(Events) /\ outbox \in Seq(Decisions)
  BY DEF Books, Types, SocketTypes
<1>3. Untold = DOMAIN inbox /\ DOMAIN inbox = 1 .. Len(inbox) /\ DOMAIN outbox = 1 .. Len(outbox)
  BY <1>1, <1>2, LenProperties DEF Untold
<1>4. EndedJobs = {}
  <2>1. recent.ended = <<>>
    BY <1>1 DEF NothingRecent
  <2>. QED  BY <2>1 DEF EndedJobs, ToSet
<1>5. BetweenMessages => Begun
  BY <1>3 DEF BetweenMessages, Begun
<1>6. UnderWay = InHand
  BY <1>3, <1>4 DEF UnderWay, Completes, Pending, InHand, Running, Ended, Completed, ToTell, TellsOf,
     StartedIn
<1>. QED  BY <1>1, <1>3, <1>4, <1>5, <1>6

\* BooksMatchPlatform, from the invariant.
LEMMA BooksAgree ==
  ASSUME Books
  PROVE  BooksMatchPlatform
<1>. SUFFICES ASSUME BetweenMessages
              PROVE  /\ variant \in {"killer", "filler", "submitter"} =>
                          /\ {j \in Jobs : allocations[j] # {}} = UnderWay
                          /\ available = Machines \ UNION {allocations[j] : j \in Jobs}
                          /\ \A j, k \in Jobs : j # k => allocations[j] \cap allocations[k] = {}
                     /\ variant = "killer2" =>
                          /\ Cardinality(Occupying) <= 1
                          /\ Occupying \subseteq UnderWay
                          /\ \A j \in UnderWay \ Occupying :
                               j \in ToSet(kills) \/ Completes(j) \/ Pending("KILL_JOB", j)
                          /\ available = Machines \ UNION {allocations[j] : j \in Jobs}
                     /\ variant \in {"sequencer", "crasher", "sequencer_dvfs"} =>
                          own.running = (UnderWay # {})
                     /\ variant = "energy_watcher" => own.busy = (UnderWay # {})
                     /\ variant = "sleeper" => UnderWay = {own.job} \ {NullJob}
  BY DEF BooksMatchPlatform
<1>1. /\ Begun /\ UnderWay = InHand /\ EndedJobs = {}
      /\ Untold = DOMAIN inbox /\ DOMAIN outbox = 1 .. Len(outbox)
  <2>1. AtWork
    BY DEF BetweenMessages
  <2>2. outbox \in Seq(Decisions)
    BY DEF Books, Types, SocketTypes
  <2>. QED  BY <2>1, <2>2, WhileBatsimWorks, LenProperties
<1>2. AllocationBooks /\ OneAtATime /\ Killer2Books /\ SleeperBooks /\ Types
  BY DEF Books, BooksOfAll
<1>3. ASSUME variant \in {"killer", "filler", "submitter"}
      PROVE  /\ {j \in Jobs : allocations[j] # {}} = UnderWay
             /\ available = Machines \ UNION {allocations[j] : j \in Jobs}
             /\ \A j, k \in Jobs : j # k => allocations[j] \cap allocations[k] = {}
  BY <1>1, <1>2, <1>3 DEF AllocationBooks, Allocates, HasAllocation, AvailableRest, Disjoint
<1>4. ASSUME variant = "killer2"
      PROVE  /\ Cardinality(Occupying) <= 1
             /\ Occupying \subseteq UnderWay
             /\ \A j \in UnderWay \ Occupying :
                  j \in ToSet(kills) \/ Completes(j) \/ Pending("KILL_JOB", j)
             /\ available = Machines \ UNION {allocations[j] : j \in Jobs}
  <2>1. Killer2IsSound
    BY <1>2, <1>4 DEF Killer2Books
  <2>2. Occupying = HasAllocation
    BY <1>1 DEF Occupying, HasAllocation, WithoutEnded
  <2>3. Cardinality(Occupying) <= 1
    <3>1. CASE HasAllocation = {}
      <4>1. Cardinality({}) = 0
        BY FS_EmptySet
      <4>. QED  BY <2>2, <3>1, <4>1
    <3>2. CASE HasAllocation # {}
      <4>1. PICK j : HasAllocation = {j}
        BY <2>1, <3>2 DEF Killer2IsSound, OneAllocation
      <4>2. Cardinality({j}) = 1
        BY FS_Singleton
      <4>. QED  BY <2>2, <4>1, <4>2
    <3>. QED  BY <3>1, <3>2
  <2>4. ASSUME NEW j \in UnderWay \ Occupying
        PROVE  j \in ToSet(kills) \/ Completes(j) \/ Pending("KILL_JOB", j)
    <3>1. j \in InHand /\ j \notin HasAllocation /\ j \notin StartedIn(outbox)
      BY <1>1, <2>1, <2>2 DEF Killer2IsSound, GivenInHand
    <3>2. CASE j \in Running
      <4>1. j \in ToSet(kills) \/ IsToBeKilled(j)
        BY <2>1, <3>1, <3>2 DEF Killer2IsSound, ForgottenIsKilled
      <4>. QED  BY <1>1, <4>1 DEF IsToBeKilled, Kills, Pending
    <3>3. CASE j \in Completed
      BY <1>1, <3>3 DEF Completed, ToTell, TellsOf, Completes
    <3>. QED  BY <1>1, <3>1, <3>2, <3>3 DEF InHand, Ended
  <2>. QED  BY <1>1, <2>1, <2>2, <2>3, <2>4 DEF Killer2IsSound, GivenInHand, AvailableRest
<1>5. ASSUME variant \in {"sequencer", "crasher", "sequencer_dvfs"}
      PROVE  own.running = (UnderWay # {})
  <2>1. own.running \in BOOLEAN
    BY <1>2, <1>5 DEF Types, AlgorithmTypes, Members
  <2>2. own.running <=> InHand # {}
    BY <1>2, <1>5 DEF OneAtATime, SequencerBooks, Sequencing
  <2>. QED  BY <1>1, <2>1, <2>2
<1>6. ASSUME variant = "energy_watcher"
      PROVE  own.busy = (UnderWay # {})
  <2>1. own.busy \in BOOLEAN
    BY <1>2, <1>6 DEF Types, AlgorithmTypes, Members
  <2>2. own.busy <=> InHand # {}
    BY <1>2, <1>6 DEF OneAtATime, WatcherBooks
  <2>. QED  BY <1>1, <2>1, <2>2
<1>7. ASSUME variant = "sleeper" PROVE UnderWay = {own.job} \ {NullJob}
  BY <1>1, <1>2, <1>7 DEF SleeperBooks, SleeperJob, OwnJobInHand
<1>. QED  BY <1>3, <1>4, <1>5, <1>6, <1>7

\* BooksMatchPlatform of Variants: between two messages no algorithm has lost a
\* machine, given one twice or forgotten the end of a job.
THEOREM BooksMatchPlatformHolds == Spec => []BooksMatchPlatform
<1>1. Books => BooksMatchPlatform
  BY BooksAgree
<1>. QED  BY <1>1, BooksInvariant, PTL

\* Disjoint sets that make up the machines.
LEMMA FiveSetsCounted ==
  ASSUME NEW a, NEW b, NEW c, NEW d, NEW e, Apart(a, b, c, d, e),
         Machines = a \cup b \cup c \cup d \cup e
  PROVE  Cardinality(a) + Cardinality(b) + Cardinality(c) + Cardinality(d) + Cardinality(e)
           = NbMachines
<1>1. IsFiniteSet(Machines) /\ Cardinality(Machines) = NbMachines
  <2>1. NbMachines - 1 \in Int /\ 0 \in Int /\ 0 <= NbMachines - 1
    BY RunLoopAssumption
  <2>2. /\ IsFiniteSet(0 .. NbMachines - 1)
        /\ Cardinality(0 .. NbMachines - 1) = (NbMachines - 1) - 0 + 1
    BY <2>1, FS_Interval
  <2>3. (NbMachines - 1) - 0 + 1 = NbMachines
    BY RunLoopAssumption
  <2>. QED  BY <2>2, <2>3 DEF Machines
<1>2. /\ IsFiniteSet(a) /\ IsFiniteSet(b) /\ IsFiniteSet(c) /\ IsFiniteSet(d) /\ IsFiniteSet(e)
      /\ IsFiniteSet(a \cup b) /\ IsFiniteSet(a \cup b \cup c) /\ IsFiniteSet(a \cup b \cup c \cup d)
  <2>1. \A x \in SUBSET Machines : IsFiniteSet(x)
    BY <1>1, FS_Subset
  <2>. QED  BY <2>1
<1>3. Cardinality(a \cup b) = Cardinality(a) + Cardinality(b)
  BY <1>2, CountAdded DEF Apart
<1>4. Cardinality((a \cup b) \cup c) = Cardinality(a \cup b) + Cardinality(c)
  <2>1. (a \cup b) \cap c = {}
    BY DEF Apart
  <2>. QED  BY <1>2, <2>1, CountAdded
<1>5. Cardinality((a \cup b \cup c) \cup d) = Cardinality(a \cup b \cup c) + Cardinality(d)
  <2>1. (a \cup b \cup c) \cap d = {}
    BY DEF Apart
  <2>. QED  BY <1>2, <2>1, CountAdded
<1>6. Cardinality((a \cup b \cup c \cup d) \cup e) = Cardinality(a \cup b \cup c \cup d) + Cardinality(e)
  <2>1. (a \cup b \cup c \cup d) \cap e = {}
    BY DEF Apart
  <2>. QED  BY <1>2, <2>1, CountAdded
<1>7. /\ Cardinality(a) \in Nat /\ Cardinality(b) \in Nat /\ Cardinality(c) \in Nat
      /\ Cardinality(d) \in Nat /\ Cardinality(e) \in Nat
  BY <1>2, FS_CardinalityType
<1>. QED  BY <1>1, <1>3, <1>4, <1>5, <1>6, <1>7

\* SleeperSetsMatchPlatform, from the invariant.
LEMMA SetsAgree ==
  ASSUME Books
  PROVE  SleeperSetsMatchPlatform
<1>. SUFFICES ASSUME variant = "sleeper", BetweenMessages
              PROVE  /\ own.on = Switching("fast") \cup Reported("fast") \cup ToldTo("fast")
                     /\ own.off = Switching("asleep") \cup Reported("asleep") \cup ToldTo("asleep")
                     /\ \A m \in own.asleep : pstate[m] = "asleep"
                     /\ available \cup own.computing \cup own.on \cup own.off \cup own.asleep = Machines
                     /\ Cardinality(available) + Cardinality(own.computing) + Cardinality(own.on)
                          + Cardinality(own.off) + Cardinality(own.asleep) = NbMachines
  BY DEF SleeperSetsMatchPlatform
<1>1. Begun /\ Untold = DOMAIN inbox /\ recent = NothingRecent
  <2>1. AtWork
    BY DEF BetweenMessages
  <2>. QED  BY <2>1, WhileBatsimWorks
<1>2. SleeperMachines
  BY DEF Books, BooksOfAll, SleeperBooks
<1>3. \A p \in {"fast", "asleep"} : Arrived(p) = Reported(p)
  <2>. SUFFICES ASSUME NEW p \in {"fast", "asleep"} PROVE Arrived(p) = Reported(p)
    OBVIOUS
  <2>1. recent.switched[p] = {}
    BY <1>1 DEF NothingRecent, PStates
  <2>2. \A k \in DOMAIN inbox : inbox[k] \in Events
    <3>1. inbox \in Seq(Events)
      BY DEF Books, Types, SocketTypes
    <3>. QED  BY <3>1, ElementOfSeq
  <2>3. \A k \in DOMAIN inbox : inbox[k].type = "RESOURCE_STATE_CHANGED" =>
          inbox[k].machines \subseteq Machines
    BY <2>2 DEF Events
  <2>4. SwitchesToTell(p) = Reported(p)
    BY <1>1, <2>3 DEF SwitchesToTell, Reported
  <2>. QED  BY <2>1, <2>4 DEF Arrived
<1>4. \A m \in own.asleep : pstate[m] = "asleep"
  BY <1>2 DEF SleeperMachines, StatesKnown, InState
<1>5. /\ available \cup own.computing \cup own.on \cup own.off \cup own.asleep = Machines
      /\ Cardinality(available) + Cardinality(own.computing) + Cardinality(own.on)
           + Cardinality(own.off) + Cardinality(own.asleep) = NbMachines
  <2>1. /\ Apart(available, own.computing, own.on, own.off, own.asleep)
        /\ Machines = available \cup own.computing \cup own.on \cup own.off \cup own.asleep
    BY <1>1, <1>2 DEF SleeperMachines, InOneSet, InSomeSet
  <2>. QED  BY <2>1, FiveSetsCounted
<1>. QED  BY <1>2, <1>3, <1>4, <1>5 DEF SleeperMachines, MovesKnown, OnWay

\* SleeperSetsMatchPlatform of Variants: sleeper's sets of machines and their
\* power states differ only by what is on its way, and no machine is lost.
THEOREM SleeperSetsMatchPlatformHolds == Spec => []SleeperSetsMatchPlatform
<1>1. Books => SleeperSetsMatchPlatform
  BY SetsAgree
<1>. QED  BY <1>1, BooksInvariant, PTL

\* FillerLeavesNothing of Variants: once filler has answered and nothing new has
\* happened, it knows which machines are unavailable and no job of its queue
\* could start.
THEOREM FillerLeavesNothingHolds == Spec => []FillerLeavesNothing
<1>1. ASSUME Books PROVE FillerLeavesNothing
  <2>. SUFFICES ASSUME variant = "filler", BetweenMessages, inbox = <<>>
                PROVE  /\ own.unavailable = down
                       /\ \A j \in JobsOf(queue) : Fit(available \ down, size[j]) = {}
    BY DEF FillerLeavesNothing
  <2>1. AtWork /\ FillerIsSound
    BY <1>1 DEF BetweenMessages, Books, BooksOfAll, FillerBooks
  <2>2. Untold = {} /\ recent = NothingRecent
    BY <1>1, <2>1, WhileBatsimWorks
  <2>3. Gone = {} /\ BackAgain = {}
    BY <2>2 DEF Gone, BackAgain, Lost, Found, MachinesToTell, NothingRecent
  <2>4. own.unavailable = down
    BY <2>1, <2>3 DEF FillerIsSound, OutagesKnown
  <2>5. \A j \in JobsOf(queue) : Fit(available \ down, size[j]) = {}
    BY <2>1 DEF FillerIsSound, NoneCanStart, Queued
  <2>. QED  BY <2>4, <2>5
<1>2. Books => FillerLeavesNothing
  BY <1>1
<1>. QED  BY <1>2, BooksInvariant, PTL

\* What filler does when it answers.
GivesNoneUnavailable == variant = "filler" /\ Deciding =>
  \A k \in Len(outbox) + 1 .. Len(outbox') :
    outbox'[k].type = "EXECUTE_JOB" => outbox'[k].machines \cap down = {}

\* The step: filler has been told of every outage when it decides.
LEMMA GivesNoneUnavailableStep ==
  ASSUME Types, LoopIsSound, JobsOnce, FillerBooks, [Next]_vars
  PROVE  [GivesNoneUnavailable]_outbox
<1>. SUFFICES ASSUME variant = "filler", Deciding, outbox' # outbox,
                     NEW k \in Len(outbox) + 1 .. Len(outbox'),
                     outbox'[k].type = "EXECUTE_JOB"
              PROVE  outbox'[k].machines \cap down = {}
  BY DEF GivesNoneUnavailable
<1>1. Replies
  <2>1. ~BatsimActs
    BY DEF BatsimActs, Quiet, AtWork, Deciding
  <2>2. ~Hears
    BY DEF Hears, Receives, Handling, Deciding
  <2>3. ~Stands /\ ~SkipDecisions
    BY DEF Stands, SkipDecisions
  <2>. QED  BY <2>1, <2>2, <2>3, Kinds
<1>2. PICK ds : ds \in Seq(Decisions) /\ outbox' = outbox \o ds /\ Spares(ds)
  BY <1>1, FillerServes DEF Replies, MakeDecisions, KillerMakeDecisions, Killer2MakeDecisions,
     SubmitterMakeDecisions, SequencerMakeDecisions, CrasherMakeDecisions, DVFSMakeDecisions,
     SleeperMakeDecisions, RejecterMakeDecisions, WaitingTimeEstimatorMakeDecisions,
     RandomMakeDecisions, EnergyWatcherMakeDecisions
<1>3. down = Unavailable
  <2>1. Lost = {} /\ Found = {}
    BY AllTold DEF LoopIsSound, Lost, Found
  <2>. QED  BY <2>1 DEF FillerBooks, FillerIsSound, OutagesKnown, Gone, BackAgain, Unavailable
<1>4. outbox \in Seq(Decisions)
  BY DEF Types, SocketTypes
<1>5. k - Len(outbox) \in 1 .. Len(ds) /\ outbox'[k] = ds[k - Len(outbox)]
  BY <1>2, <1>4
<1>. QED  BY <1>2, <1>3, <1>5 DEF Spares

\* FillerSparesUnavailable of Variants: no job is started by filler on a machine
\* that is unavailable.
THEOREM FillerSparesUnavailableHolds == Spec => FillerSparesUnavailable
<1>1. Books /\ [Next]_vars => [GivesNoneUnavailable]_outbox
  BY GivesNoneUnavailableStep DEF Books, BooksOfAll
<1>. QED  BY <1>1, BooksInvariant, PTL DEF Spec, FillerSparesUnavailable, GivesNoneUnavailable

\* FillerHeedsOutages of Variants: what filler knows of the outages, gives to jobs and
\* leaves idle agrees with the machines that are down, through any announcements.
THEOREM FillerHeedsOutagesHolds == Spec => FillerHeedsOutages
BY FillerLeavesNothingHolds, FillerSparesUnavailableHolds, PTL DEF FillerHeedsOutages

\* ProfilesAreKnown of Variants: Batsim knows the profile of a job when the
\* scheduler registers that job.
THEOREM ProfilesAreKnownHolds == Spec => ProfilesAreKnown
<1>1. Books /\ [Next]_vars => [RegistersKnown]_status
  BY RegistersKnownStep DEF Books, BooksOfAll
<1>. QED  BY <1>1, BooksInvariant, PTL DEF Spec, ProfilesAreKnown, RegistersKnown

-------------------------------------------------------------------------------
(* What Batsim is told to do, it can do.                                   *)

\* A job waits for its execution, on machines that are awake and its own.
Executable(j, ms) ==
  /\ status[j] = "waiting"
  /\ ms # {}
  /\ IF variant = "filler" THEN Cardinality(ms) <= size[j] ELSE Cardinality(ms) = size[j]
  /\ \A m \in ms : pstate[m] # "asleep" /\ target[m] # "asleep"
  /\ variant # "random" => \A k \in Jobs : placed[k] \cap ms = {}

\* A machine has arrived in its state, and no job uses it.
Idle(m) == pstate[m] = target[m] /\ \A j \in Jobs : m \notin placed[j]

\* What a step does to the jobs and the machines.
StartsLegally == \A j \in Jobs : status'[j] = "running" /\ status[j] # "running" =>
  Executable(j, placed'[j])
RejectsLegally == \A j \in Jobs : status'[j] = "rejected" /\ status[j] # "rejected" =>
  status[j] = "waiting"
SwitchesLegally == \A m \in Machines :
  target'[m] # target[m] /\ "asleep" \in {target[m], target'[m]} => Idle(m)

\* The execution at the head of the decisions.
ExecutionTaken(j) ==
  TakesDecision /\ Decision.type = "EXECUTE_JOB" /\ Decision.job = j

\* It is legal, and the job is in hand and waits.
LEMMA ExecutionReady ==
  ASSUME Books, NEW j \in Jobs, ExecutionTaken(j)
  PROVE  /\ LegalExecution(Decision) /\ Decision.date <= clock /\ Decision.date \in Nat
         /\ 1 \in 1 .. Len(outbox) /\ Decision = outbox[1]
         /\ j \in StartedIn(outbox) /\ j \in InHand /\ status[j] = "waiting"
<1>1. 1 \in 1 .. Len(outbox) /\ Decision = outbox[1] /\ Decision \in Decisions
  BY Taken DEF Books, ExecutionTaken
<1>2. Legal(Decision)
  BY <1>1 DEF Books, HandIsSound, LegalOutbox
<1>3. status[j] = "waiting"
  BY ReadyAtHead DEF Books, ExecutionTaken, IsChoice
<1>4. j \in StartedIn(outbox)
  BY <1>1 DEF StartedIn, ExecutionTaken
<1>5. Decision.date \in Nat
  BY <1>1 DEF Decisions
<1>. QED  BY <1>1, <1>2, <1>3, <1>4, <1>5 DEF Legal, ExecutionTaken, TakesDecision, InHand

\* Its machines are awake.
LEMMA ExecutionAwake ==
  ASSUME Books, NEW j \in Jobs, ExecutionTaken(j), NEW m \in Decision.machines
  PROVE  pstate[m] # "asleep" /\ target[m] # "asleep"
<1>1. LegalExecution(Decision) /\ Decision \in Decisions /\ Decision.type = "EXECUTE_JOB"
  BY ExecutionReady, Taken DEF Books, ExecutionTaken
<1>2. m \in Machines
  BY <1>1 DEF Decisions
<1>3. CASE variant # "sleeper"
  BY <1>2, <1>3 DEF Books, Awake
<1>4. CASE variant = "sleeper"
  <2>1. m \in own.computing
    BY <1>1, <1>4 DEF LegalExecution
  <2>2. InState(available \cup own.computing \cup ToldTo("asleep") \cup Arrived("fast"), "fast")
    BY <1>4 DEF Books, BooksOfAll, SleeperBooks, SleeperMachines, StatesKnown
  <2>. QED  BY <2>1, <2>2 DEF InState
<1>. QED  BY <1>3, <1>4

\* They are not used by another job: the job is alone in hand, or the books of
\* the algorithm keep the machines of the jobs apart.
LEMMA ExecutionAlone ==
  ASSUME Books, NEW j \in Jobs, ExecutionTaken(j), variant # "random", NEW k \in Jobs
  PROVE  placed[k] \cap Decision.machines = {}
<1>1. /\ LegalExecution(Decision) /\ Decision.date <= clock /\ Decision.date \in Nat
      /\ 1 \in 1 .. Len(outbox) /\ Decision = outbox[1]
      /\ j \in StartedIn(outbox) /\ j \in InHand /\ status[j] = "waiting"
  BY ExecutionReady
<1>. SUFFICES ASSUME status[k] = "running" PROVE placed[k] \cap Decision.machines = {}
  BY DEF Books, JobsOnce, OnlyRunningPlaced
<1>2. k \in Running /\ k \in InHand /\ k # j
  BY <1>1 DEF Running, InHand
<1>3. variant \notin {"rejecter", "waiting_time_estimator"}
  BY <1>1 DEF LegalExecution
<1>4. CASE Allocates
  <2>1. Disjoint /\ PlacedThere
    BY <1>4 DEF Books, BooksOfAll, AllocationBooks
  <2>2. Decision.machines = allocations[j]
    BY <1>1, <1>4 DEF LegalExecution, ChecksAllocations, Allocates, ExecutionTaken
  <2>. QED  BY <1>2, <2>1, <2>2 DEF Disjoint, PlacedThere
<1>5. CASE variant = "killer2"
  <2>1. Killer2IsSound
    BY <1>5 DEF Books, BooksOfAll, Killer2Books
  <2>2. outbox[1].type = "EXECUTE_JOB" /\ outbox[1].date <= clock /\ outbox[1].date \in Nat
    BY <1>1 DEF ExecutionTaken
  <2>3. clock \in Nat
    BY DEF Books, Types, PlatformTypes
  <2>4. kills = <<>> /\ ~HoldsType(outbox, "KILL_JOB")
    <3>1. ~(outbox[1].date > clock)
      BY <2>2, <2>3
    <3>2. KillsPending
      BY <2>1 DEF Killer2IsSound, Killer2Soon
    <3>. QED  BY <1>1, <2>2, <3>1, <3>2 DEF KillsPending
  <2>5. ToSet(<<>>) = {}
    BY DEF ToSet
  <2>6. k \notin ToSet(kills) /\ ~IsToBeKilled(k)
    BY <2>4, <2>5 DEF IsToBeKilled, HoldsType, Kills
  <2>7. k \in HasAllocation
    BY <1>2, <2>1, <2>6 DEF Killer2IsSound, ForgottenIsKilled
  <2>8. j \in HasAllocation
    BY <1>1, <2>1 DEF Killer2IsSound, GivenInHand
  <2>. QED  BY <1>2, <2>1, <2>7, <2>8 DEF Killer2IsSound, OneAllocation
<1>6. CASE Sequencing \/ variant = "energy_watcher"
  <2>1. OneInHand
    BY <1>6 DEF Books, BooksOfAll, OneAtATime, SequencerBooks, WatcherBooks
  <2>. QED  BY <1>1, <1>2, <2>1 DEF OneInHand
<1>7. CASE variant = "sleeper"
  <2>1. OwnJobInHand
    BY <1>7 DEF Books, BooksOfAll, SleeperBooks, SleeperJob
  <2>. QED  BY <1>1, <1>2, <2>1 DEF OwnJobInHand
<1>8. variant \in {"killer", "killer2", "sequencer", "crasher", "sequencer_dvfs", "filler",
                   "sleeper", "submitter", "rejecter", "random", "waiting_time_estimator",
                   "energy_watcher"}
  BY VariantsAssumption DEF Books
<1>. QED  BY <1>3, <1>4, <1>5, <1>6, <1>7, <1>8 DEF Allocates, Sequencing

\* The order at the head of the decisions finds its machines idle.
LEMMA OrderedIdle ==
  ASSUME Books, NEW ms \in SUBSET Machines, NEW p \in PStates, IsOrdered(ms, p), NEW m \in Machines,
         target'[m] # target[m], "asleep" \in {target[m], target'[m]}
  PROVE  Idle(m)
<1>1. /\ TakesDecision /\ Decision.type = "SET_RESOURCE_STATE"
      /\ Decision.machines = ms /\ Decision.state = p
      /\ target' = [i \in Machines |-> IF i \in ms THEN p ELSE target[i]]
  BY DEF IsOrdered
<1>2. m \in ms /\ target'[m] = p
  BY <1>1
<1>3. Legal(Decision)
  <2>1. 1 \in 1 .. Len(outbox) /\ Decision = outbox[1]
    BY <1>1, Taken DEF Books
  <2>. QED  BY <2>1 DEF Books, HandIsSound, LegalOutbox
<1>4. variant = "sleeper"
  <2>1. variant # "sleeper" => target[m] # "asleep"
    BY DEF Books, Awake
  <2>. QED  BY <1>1, <1>2, <1>3, <2>1 DEF Legal, LegalSwitch
<1>5. SleeperJob /\ SleeperMachines
  BY <1>4 DEF Books, BooksOfAll, SleeperBooks
<1>6. m \in ToldTo(p) /\ p \in {"fast", "asleep"}
  BY <1>1, <1>2, <1>5, OrderTaken DEF Books, SleeperMachines
<1>7. pstate[m] = target[m]
  BY <1>5, <1>6 DEF SleeperMachines, StatesKnown, InState
<1>8. m \notin own.computing
  <2>1. m \in own.on \cup own.off
    BY <1>5, <1>6 DEF SleeperMachines, MovesKnown, OnWay
  <2>. QED  BY <1>5, <2>1 DEF SleeperMachines, InOneSet, Apart
<1>9. ASSUME NEW j \in Jobs PROVE m \notin placed[j]
  <2>1. CASE status[j] = "running"
    BY <1>5, <1>8, <2>1 DEF SleeperJob, JobOnItsMachines, Running
  <2>2. CASE status[j] # "running"
    BY <2>2 DEF Books, JobsOnce, OnlyRunningPlaced
  <2>. QED  BY <2>1, <2>2
<1>. QED  BY <1>7, <1>9 DEF Idle

\* Every step is legal.
LEMMA StepIsLegal ==
  ASSUME Books, [Next]_vars
  PROVE  StartsLegally /\ RejectsLegally /\ SwitchesLegally
<1>1. /\ status \in [Jobs -> Statuses] /\ placed \in [Jobs -> SUBSET Machines]
      /\ target \in [Machines -> PStates]
  BY DEF Books, Types, PlatformTypes
<1>2. CASE BatsimActs
  <2>1. ASSUME NEW j \in Jobs, Starts(j)
        PROVE  StartsLegally /\ RejectsLegally
    <3>1. ExecutionTaken(j)
      BY <2>1 DEF Starts, ExecutionTaken
    <3>2. /\ status' = [status EXCEPT ![j] = "running"]
          /\ placed' = [placed EXCEPT ![j] = Decision.machines]
      BY <2>1 DEF Starts
    <3>3. LegalExecution(Decision) /\ status[j] = "waiting" /\ Decision.job = j
      BY <3>1, ExecutionReady DEF ExecutionTaken
    <3>4. /\ Decision.machines # {}
          /\ IF variant = "filler" THEN Cardinality(Decision.machines) <= size[j]
                                   ELSE Cardinality(Decision.machines) = size[j]
      BY <3>3 DEF LegalExecution
    <3>5. Executable(j, Decision.machines)
      BY <3>1, <3>3, <3>4, ExecutionAwake, ExecutionAlone DEF Executable
    <3>6. placed'[j] = Decision.machines
      BY <1>1, <3>2
    <3>7. \A i \in Jobs : i # j => status'[i] = status[i]
      BY <1>1, <3>2
    <3>8. status'[j] = "running"
      BY <1>1, <3>2
    <3>. QED  BY <3>5, <3>6, <3>7, <3>8 DEF StartsLegally, RejectsLegally
  <2>2. ASSUME NEW j \in Jobs, IsRejected(j)
        PROVE  StartsLegally /\ RejectsLegally
    <3>1. /\ TakesDecision /\ Decision.type = "REJECT_JOB" /\ Decision.job = j
          /\ status' = [status EXCEPT ![j] = "rejected"]
      BY <2>2 DEF IsRejected
    <3>2. status[j] = "waiting"
      BY <3>1, ReadyAtHead DEF Books, IsChoice
    <3>. QED  BY <1>1, <3>1, <3>2 DEF StartsLegally, RejectsLegally
  <2>3. ASSUME NEW j \in Jobs,
               Arrives(j) \/ IsAskedAbout(j) \/ Finishes(j) \/ IsRegistered(j)
        PROVE  StartsLegally /\ RejectsLegally
    <3>1. \E s \in {"waiting", "potential", "done"} : status' = [status EXCEPT ![j] = s]
      BY <2>3 DEF Arrives, IsAskedAbout, Finishes, IsRegistered
    <3>. QED  BY <1>1, <3>1 DEF StartsLegally, RejectsLegally
  <2>4. ASSUME NoJobMoves
        PROVE  StartsLegally /\ RejectsLegally
    <3>1. status' = status
      BY <2>4 DEF NoJobMoves
    <3>. QED  BY <3>1 DEF StartsLegally, RejectsLegally
  <2>5. StartsLegally /\ RejectsLegally
    BY <1>2, <2>1, <2>2, <2>3, <2>4 DEF BatsimActs, JobMoves
  <2>6. SwitchesLegally
    <3>1. CASE UNCHANGED target
      BY <3>1 DEF SwitchesLegally
    <3>2. ASSUME NEW ms \in SUBSET Machines, NEW p \in PStates, IsOrdered(ms, p)
          PROVE  SwitchesLegally
      BY <3>2, OrderedIdle DEF SwitchesLegally
    <3>. QED  BY <1>2, <3>1, <3>2 DEF BatsimActs, SwitchMoves, IsSwitched
  <2>. QED  BY <2>5, <2>6
<1>3. CASE Stands \/ Hears \/ Replies \/ SkipDecisions
  <2>1. UNCHANGED <<status, target>>
    BY <1>3 DEF Stands, Hears, Receives, Replies, SkipDecisions, WriteReply, batsimVars,
                platformVars, jobVars
  <2>. QED  BY <2>1 DEF StartsLegally, RejectsLegally, SwitchesLegally
<1>. QED  BY <1>2, <1>3, Kinds DEF Books

\* DecisionsAreLegal of Variants: Batsim can do whatever it is told to do, at the
\* moment when it does it.
THEOREM DecisionsAreLegalHolds == Spec => DecisionsAreLegal
<1>1. Books /\ [Next]_vars => [StartsLegally /\ RejectsLegally /\ SwitchesLegally]_<<status, target>>
  BY StepIsLegal
<1>2. (StartsLegally /\ RejectsLegally /\ SwitchesLegally) <=>
        /\ \A j \in Jobs : status'[j] = "running" /\ status[j] # "running" =>
             /\ status[j] = "waiting"
             /\ placed'[j] # {}
             /\ IF variant = "filler" THEN Cardinality(placed'[j]) <= size[j]
                                      ELSE Cardinality(placed'[j]) = size[j]
             /\ \A m \in placed'[j] : pstate[m] # "asleep" /\ target[m] # "asleep"
             /\ variant # "random" => \A k \in Jobs : placed[k] \cap placed'[j] = {}
        /\ \A j \in Jobs : status'[j] = "rejected" /\ status[j] # "rejected" =>
             status[j] = "waiting"
        /\ \A m \in Machines :
             target'[m] # target[m] /\ "asleep" \in {target[m], target'[m]} =>
               /\ pstate[m] = target[m]
               /\ \A j \in Jobs : m \notin placed[j]
  BY DEF StartsLegally, RejectsLegally, SwitchesLegally, Executable, Idle
<1>. QED  BY <1>1, <1>2, BooksInvariant, PTL DEF Spec, DecisionsAreLegal


===============================================================================
