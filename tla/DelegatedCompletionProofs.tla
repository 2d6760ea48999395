---------------------- MODULE DelegatedCompletionProofs ----------------------
(***************************************************************************)
(* Theorems about DelegatedCompletion, for every set of tasks and every    *)
(* value of the bounds.                                                    *)
(***************************************************************************)
EXTENDS DelegatedCompletion, SequenceTheorems, TLAPS

(***************************************************************************)
(* Type correctness, part by part.                                         *)
(***************************************************************************)
TaskRow == [result : BOOLEAN, watched : BOOLEAN,
            delivery : {"none", "claimed", "pending"} \cup Settled]
Update == [child : SUBSET Tasks, run : {Idle} \cup Runs, outcome : Outcomes]

ChildOK == child \in [Tasks -> {"running", "cut", "ended"}]
TaskOK == task \in [Tasks -> TaskRow]
CohortOK ==
    /\ cohort \in [disposition : {"open", "stopped", "disposed"}, next : 1..MaxGeneration + 1,
                   delivery : [generation : {0} \cup Generations, tasks : SUBSET Tasks]]
    /\ Current < cohort.next
WakeOK == wake \in [Generations -> [state : WakeStates, tasks : SUBSET Tasks]]
Effect == [stage : Stages, target : {"none", "live", "late", "lost"}, tasks : SUBSET Tasks]
SteeringOK == steering \in [Generations -> Effect]
RunningOK ==
    active \in {Idle} \cup Runs /\ turn \in {"starting", "running", "stopping", "completed"}
OffersOK == offers \subseteq Generations /\ dispatching \in {Idle} \cup Generations
UpdatesOK == updates \in Seq(Update) /\ promoting \in {"no"} \cup Outcomes
RestOK ==
    /\ phase \in {"up", "down", "results"}
    /\ told \subseteq Tasks
    /\ turns \in 0..MaxTurns /\ faults \in 0..MaxFaults /\ crashes \in 0..MaxCrashes

LEMMA TypeParts ==
    TypeOK <=> /\ ChildOK /\ TaskOK /\ CohortOK /\ WakeOK /\ SteeringOK /\ RunningOK
               /\ OffersOK /\ UpdatesOK /\ RestOK
BY DEF TypeOK, ChildOK, TaskOK, CohortOK, WakeOK, SteeringOK, RunningOK, OffersOK, UpdatesOK,
       RestOK, TaskRow, Update, Effect

LEMMA PartsType ==
    ASSUME ChildOK', TaskOK', CohortOK', WakeOK', SteeringOK', RunningOK', OffersOK', UpdatesOK',
           RestOK'
    PROVE  TypeOK'
BY DEF TypeOK, ChildOK, TaskOK, CohortOK, WakeOK, SteeringOK, RunningOK, OffersOK, UpdatesOK,
       RestOK, TaskRow, Update, Effect

LEMMA UnchangedParts ==
    /\ ChildOK /\ UNCHANGED child => ChildOK'
    /\ TaskOK /\ UNCHANGED task => TaskOK'
    /\ CohortOK /\ UNCHANGED cohort => CohortOK'
    /\ WakeOK /\ UNCHANGED wake => WakeOK'
    /\ SteeringOK /\ UNCHANGED steering => SteeringOK'
    /\ RunningOK /\ UNCHANGED running => RunningOK'
    /\ OffersOK /\ UNCHANGED <<offers, dispatching>> => OffersOK'
    /\ UpdatesOK /\ UNCHANGED <<updates, promoting>> => UpdatesOK'
    /\ RestOK /\ UNCHANGED <<phase, told, bounds>> => RestOK'
BY DEF ChildOK, TaskOK, CohortOK, WakeOK, SteeringOK, RunningOK, OffersOK, UpdatesOK, RestOK,
       Current, running, bounds

LEMMA ReservingTypes ==
    ASSUME DelegationAssumption, CohortOK, NEW tasks \in SUBSET Tasks,
           cohort.next \in Generations, cohort' = Reserving(tasks)
    PROVE  CohortOK'
<1>1. MaxGeneration \in Nat /\ cohort.next \in 1..MaxGeneration
  BY DEF DelegationAssumption, Generations
<1>2. cohort.next + 1 \in 1..MaxGeneration + 1
  BY <1>1
<1>3. /\ cohort'.next = cohort.next + 1
      /\ cohort'.delivery = [generation |-> cohort.next, tasks |-> tasks]
      /\ cohort'.disposition = cohort.disposition
      /\ cohort' \in [disposition : {"open", "stopped", "disposed"}, next : 1..MaxGeneration + 1,
                      delivery : [generation : {0} \cup Generations, tasks : SUBSET Tasks]]
  BY <1>1, <1>2 DEF CohortOK, Reserving, Generations
<1> QED BY <1>1, <1>3 DEF CohortOK, Current

\* Planning the delivery of a result.
LEMMA PlanTypes ==
    ASSUME DelegationAssumption, TaskOK, CohortOK, WakeOK, NEW t \in Tasks, NEW row \in TaskRow,
           planDelegatedCompletionDelivery(t, row)
    PROVE  TaskOK' /\ CohortOK' /\ WakeOK'
<1> USE DEF TaskOK, CohortOK, WakeOK, TaskRow
<1>1. CASE PlanNothing(t, row)
  BY <1>1 DEF PlanNothing, Marked, Current, Settled
<1>2. CASE ReserveDelivery(t, row)
  <2>1. CohortOK'
    BY <1>2, ReservingTypes DEF ReserveDelivery
  <2> QED BY <1>2, <2>1 DEF ReserveDelivery, Marked
<1>3. CASE JoinDelivery(t, row)
  <2>1. TaskOK'
    BY <1>3 DEF JoinDelivery, Marked
  <2>2. CohortOK'
    BY <1>3 DEF JoinDelivery, Joined, Current
  <2>3. Current \in Generations
    BY <1>3 DEF JoinDelivery, Current
  <2>4. WakeOK'
    BY <1>3, <2>3 DEF JoinDelivery, Carried
  <2> QED BY <2>1, <2>2, <2>4
<1>4. CASE WaitForDelivery(t, row)
  BY <1>4 DEF WaitForDelivery, Marked, Current
<1> QED BY <1>1, <1>2, <1>3, <1>4 DEF planDelegatedCompletionDelivery

LEMMA OfferableType == Offerable \subseteq Generations /\ Offerable' \subseteq Generations
BY DEF Offerable

LEMMA FinalizeTypes ==
    ASSUME DelegationAssumption, TaskOK, CohortOK, WakeOK, OffersOK, UNCHANGED dispatching,
           NEW t \in Tasks, finalizeAppOwnedSubagentTask(t)
    PROVE  TaskOK' /\ CohortOK' /\ WakeOK' /\ OffersOK'
<1>1. CASE task[t].result
  BY <1>1, UnchangedParts DEF finalizeAppOwnedSubagentTask
<1>2. CASE ~task[t].result
  <2>1. [task[t] EXCEPT !.result = TRUE] \in TaskRow
    BY DEF TaskOK, TaskRow
  <2>2. TaskOK' /\ CohortOK' /\ WakeOK'
    BY <1>2, <2>1, PlanTypes DEF finalizeAppOwnedSubagentTask
  <2>3. OffersOK'
    BY <1>2, OfferableType DEF finalizeAppOwnedSubagentTask, OffersOK
  <2> QED BY <2>2, <2>3
<1> QED BY <1>1, <1>2

LEMMA ConcludeTypes ==
    ASSUME DelegationAssumption, TaskOK, CohortOK, NEW outcome \in {"pending", "delivered"},
           NEW owed \in SUBSET Tasks, Conclude(outcome, owed)
    PROVE  TaskOK' /\ CohortOK'
<1>1. TaskOK'
  BY DEF Conclude, TaskOK, TaskRow, Settled
<1>2. CASE Open /\ owed # {}
  BY <1>1, <1>2, ReservingTypes DEF Conclude
<1>3. CASE ~(Open /\ owed # {})
  <2>1. cohort' = [cohort EXCEPT !.delivery = None]
    BY <1>3 DEF Conclude
  <2> QED BY <1>1, <2>1 DEF CohortOK, None, Current
<1> QED BY <1>1, <1>2, <1>3

LEMMA FinalizeDeliveryTypes ==
    ASSUME DelegationAssumption, TaskOK, CohortOK, WakeOK, NEW g,
           finalizeDelegatedCompletionDelivery(g)
    PROVE  TaskOK' /\ CohortOK' /\ WakeOK'
<1>1. WakeOK'
  BY UnchangedParts DEF finalizeDelegatedCompletionDelivery
<1>2. CASE Current # g
  BY <1>1, <1>2, UnchangedParts DEF finalizeDelegatedCompletionDelivery
<1>3. CASE Current = g
  <2>1. PICK outcome \in {"pending", "delivered"}, owed \in SUBSET Tasks : Conclude(outcome, owed)
    <3>1. PendingResults \subseteq Tasks /\ Carried \subseteq Tasks
      BY DEF PendingResults, Carried, CohortOK
    <3> QED BY <1>3, <3>1 DEF finalizeDelegatedCompletionDelivery
  <2> QED BY <1>1, <2>1, ConcludeTypes
<1> QED BY <1>2, <1>3

\* What an effect may become: nothing, or a stage of its own.
LEMMA StageTypes == NoSteer \in Effect /\ \A stage \in Stages : Stage(stage) \in Effect
BY DEF NoSteer, Stage, Effect, Stages

LEMMA SettleTypes ==
    ASSUME SteeringOK, NEW g \in Generations, NEW effect \in Effect, Settle(g, effect)
    PROVE  SteeringOK'
BY DEF SteeringOK, Settle

\* A dispatch of the current delivery.
LEMMA DispatchTypes ==
    ASSUME CohortOK, WakeOK, SteeringOK, RunningOK, RestOK, NEW g \in Generations,
           NEW effect \in Effect, UNCHANGED <<phase, bounds>>, dispatchMessage(g, effect)
    PROVE  WakeOK' /\ SteeringOK' /\ RunningOK' /\ RestOK'
<1>1. Carried \subseteq Tasks
  BY DEF CohortOK, Carried
<1>2. CASE SteerInto(g)
  <2>1. WakeOK'
    BY <1>1, <1>2 DEF SteerInto, WakeOK, WakeStates
  <2>2. SteeringOK'
    BY <1>2 DEF SteerInto, SteeringOK, Effect, Stages
  <2> QED BY <1>2, <2>1, <2>2, UnchangedParts DEF SteerInto
<1>3. ASSUME QueueBehind(g) \/ StartWake(g), steering' = [steering EXCEPT ![g] = effect]
      PROVE  WakeOK' /\ SteeringOK' /\ RunningOK' /\ RestOK'
  <2>1. SteeringOK'
    BY <1>3 DEF SteeringOK
  <2>2. CASE QueueBehind(g)
    BY <1>1, <2>1, <2>2, UnchangedParts DEF QueueBehind, WakeOK, WakeStates
  <2>3. CASE StartWake(g)
    BY <1>1, <2>1, <2>3 DEF StartWake, WakeOK, WakeStates, RunningOK, RestOK, Runs, bounds
  <2> QED BY <1>3, <2>2, <2>3
<1> QED BY <1>2, <1>3 DEF dispatchMessage

-----------------------------------------------------------------------------
LEMMA ContinuationTypes ==
    ASSUME TypeOK, NEW g \in Generations, TakeOffer(g) \/ Dispatch(g) \/ DispatchFails(g)
    PROVE  TypeOK'
<1> USE TypeParts, PartsType, UnchangedParts, DelegationAssumption
<1>1. CASE TakeOffer(g)
  <2>1. OffersOK'
    BY <1>1 DEF TakeOffer, OffersOK
  <2> QED BY <1>1, <2>1 DEF TakeOffer, rows
<1>2. CASE Dispatch(g)
  <2>1. OffersOK'
    BY <1>2 DEF Dispatch, OffersOK
  <2>2. steering[g] \in Effect
    BY DEF SteeringOK
  <2> QED BY <1>2, <2>1, <2>2, DispatchTypes DEF Dispatch
<1>3. CASE DispatchFails(g)
  <2>1. OffersOK'
    BY <1>3 DEF DispatchFails, OffersOK
  <2>2. RestOK'
    BY <1>3 DEF DispatchFails, RestOK, DelegationAssumption
  <2> QED BY <1>3, <2>1, <2>2 DEF DispatchFails, rows
<1> QED BY <1>1, <1>2, <1>3

LEMMA EffectTypes ==
    ASSUME TypeOK, NEW g \in Generations,
           \/ SteerChecks(g) \/ SteerHeard(g) \/ SteerTooLate(g)
           \/ dispatchNotificationAccepted(g)
    PROVE  TypeOK'
<1> USE TypeParts, PartsType, UnchangedParts, DelegationAssumption
<1>1. CASE SteerChecks(g)
  <2>1. [steering[g] EXCEPT !.stage = "checked", !.tasks = wake[g].tasks] \in Effect
    BY DEF SteeringOK, WakeOK, Effect, Stages
  <2>2. SteeringOK'
    BY <1>1, <2>1, StageTypes, SettleTypes DEF SteerChecks, Stages
  <2> QED BY <1>1, <2>2 DEF SteerChecks, memory
<1>2. CASE SteerHeard(g)
  <2>1. SteeringOK'
    BY <1>2, StageTypes, SettleTypes DEF SteerHeard, Stages
  <2>2. RestOK'
    BY <1>2 DEF SteerHeard, RestOK, SteeringOK, Effect, bounds
  <2> QED BY <1>2, <2>1, <2>2 DEF SteerHeard, memory
<1>3. CASE SteerTooLate(g)
  <2>1. CASE FollowUp(g)
    BY <1>3, <2>1, StageTypes, DispatchTypes DEF SteerTooLate, FollowUp, memory
  <2>2. CASE SteerFails(g)
    <3>1. SteeringOK'
      BY <2>2, StageTypes, SettleTypes DEF SteerFails
    <3> QED BY <1>3, <2>2, <3>1 DEF SteerTooLate, SteerFails, memory
  <2> QED BY <1>3, <2>1, <2>2 DEF SteerTooLate
<1>4. CASE dispatchNotificationAccepted(g)
  <2>1. SteeringOK'
    BY <1>4, StageTypes, SettleTypes DEF dispatchNotificationAccepted, Stages
  <2>2. TaskOK' /\ CohortOK'
    <3>1. CASE Open /\ Current = g
      BY <1>4, <3>1, ConcludeTypes DEF dispatchNotificationAccepted, PendingResults
    <3>2. CASE ~(Open /\ Current = g)
      BY <1>4, <3>2 DEF dispatchNotificationAccepted
    <3> QED BY <3>1, <3>2
  <2>3. OffersOK'
    BY <1>4, OfferableType DEF dispatchNotificationAccepted, OffersOK
  <2> QED BY <1>4, <2>1, <2>2, <2>3 DEF dispatchNotificationAccepted
<1> QED BY <1>1, <1>2, <1>3, <1>4

-----------------------------------------------------------------------------
LEMMA AppendedUpdate ==
    ASSUME UpdatesOK, NEW u \in Update, updates' = Append(updates, u), UNCHANGED promoting
    PROVE  UpdatesOK'
BY DEF UpdatesOK

LEMMA TakenUpdate ==
    ASSUME UpdatesOK, updates # <<>>
    PROVE  Head(updates) \in Update /\ Tail(updates) \in Seq(Update)
BY DEF UpdatesOK

WakeRow == [state : WakeStates, tasks : SUBSET Tasks]

LEMMA WakeTypes ==
    ASSUME WakeOK
    PROVE  /\ wake \in [Generations -> WakeRow]
           /\ Unheld \in [Generations -> WakeRow]
           /\ Held \in [Generations -> WakeRow]
           /\ Released \in [Generations -> WakeRow]
<1> USE DEF WakeOK, WakeRow
<1>1. Unheld \in [Generations -> WakeRow] /\ Held \in [Generations -> WakeRow]
  BY DEF Unheld, Held, WakeStates
<1> QED BY <1>1 DEF Released

LEMMA WakeState ==
    ASSUME NEW wakes \in [Generations -> WakeRow], NEW g \in Generations,
           NEW state \in WakeStates, wake' = [wakes EXCEPT ![g].state = state]
    PROVE  WakeOK'
BY DEF WakeOK, WakeRow

LEMMA StartTypes ==
    ASSUME RunningOK, RestOK, NEW g \in Generations, NEW wakes \in [Generations -> WakeRow],
           Start(g, wakes)
    PROVE  WakeOK' /\ RunningOK' /\ told' \subseteq Tasks
<1>1. WakeOK'
  BY WakeState DEF Start, WakeStates
<1> QED BY <1>1 DEF Start, RunningOK, RestOK, Runs, WakeRow

LEMMA RunUpdateTypes ==
    ASSUME TypeOK, HandleChildUpdate \/ HandleRunUpdate \/ Promote
    PROVE  TypeOK'
<1> USE TypeParts, PartsType, UnchangedParts, DelegationAssumption
<1>1. CASE HandleChildUpdate
  <2>1. UpdatesOK'
    BY <1>1, TakenUpdate DEF HandleChildUpdate, UpdatesOK
  <2>2. PICK t \in Tasks : IF child[t] = "ended" THEN finalizeAppOwnedSubagentTask(t)
                           ELSE UNCHANGED <<task, cohort, wake, offers>>
    BY <1>1, TakenUpdate DEF HandleChildUpdate, Update
  <2>3. TaskOK' /\ CohortOK' /\ WakeOK' /\ OffersOK'
    BY <1>1, <2>2, FinalizeTypes DEF HandleChildUpdate
  <2> QED BY <1>1, <2>1, <2>3 DEF HandleChildUpdate
<1>2. CASE HandleRunUpdate
  <2>1. UpdatesOK'
    BY <1>2, TakenUpdate DEF HandleRunUpdate, UpdatesOK, Update
  <2>2. TaskOK' /\ CohortOK' /\ WakeOK'
    BY <1>2, FinalizeDeliveryTypes DEF HandleRunUpdate
  <2>3. OffersOK'
    BY <1>2, OfferableType DEF HandleRunUpdate, OffersOK
  <2> QED BY <1>2, <2>1, <2>2, <2>3 DEF HandleRunUpdate
<1>3. CASE Promote
  <2>1. /\ promoting' = "no"
        /\ UNCHANGED <<child, task, cohort, steering, offers, dispatching, phase, turns, crashes>>
    BY <1>3 DEF Promote
  <2>2. QueuedWakes \subseteq Generations
    BY DEF QueuedWakes
  <2>3. ASSUME NEW g \in Generations, Start(g, Released), UNCHANGED <<updates, faults>>
        PROVE  TypeOK'
    <3>1. UpdatesOK'
      BY <2>1, <2>3 DEF UpdatesOK
    <3>2. WakeOK' /\ RunningOK' /\ told' \subseteq Tasks
      BY <2>3, WakeTypes, StartTypes
    <3>3. RestOK'
      BY <2>1, <2>3, <3>2 DEF RestOK
    <3> QED BY <2>1, <3>1, <3>2, <3>3
  <2>4. ASSUME NEW g \in Generations, FailStart(g), UNCHANGED <<running, told>>
        PROVE  TypeOK'
    <3>1. UpdatesOK'
      <4>1. RunUpdate(g, "failed") \in Update
        BY DEF RunUpdate, Update, Runs, Outcomes
      <4> QED BY <2>1, <2>4, <4>1 DEF FailStart, UpdatesOK
    <3>2. WakeOK'
      BY <2>4, WakeTypes, WakeState DEF FailStart, WakeStates
    <3>3. RestOK'
      BY <2>1, <2>4 DEF FailStart, RestOK, DelegationAssumption
    <3> QED BY <2>1, <2>4, <3>1, <3>2, <3>3
  <2>5. ASSUME wake' = Held, UNCHANGED <<running, told, updates, faults>>
        PROVE  TypeOK'
    <3>1. UpdatesOK' /\ RestOK'
      BY <2>1, <2>5 DEF UpdatesOK, RestOK
    <3>2. WakeOK'
      BY <2>5, WakeTypes DEF WakeOK, WakeRow
    <3> QED BY <2>1, <2>5, <3>1, <3>2
  <2>6. CASE UNCHANGED <<wake, running, told, updates, faults>>
    <3>1. UpdatesOK' /\ RestOK'
      BY <2>1, <2>6 DEF UpdatesOK, RestOK
    <3> QED BY <2>1, <2>6, <3>1
  <2> QED BY <1>3, <2>2, <2>3, <2>4, <2>5, <2>6 DEF Promote
<1> QED BY <1>1, <1>2, <1>3

LEMMA RunTypes ==
    ASSUME TypeOK,
           \/ TurnCompletes
           \/ \E outcome \in {"completed", "interrupted", "failed"} : EndRun(outcome)
           \/ \E t \in Tasks : ChildEnds(t)
           \/ \E release \in BOOLEAN : StartOther(release)
           \/ ResumeQueue
           \/ StartTurn
    PROVE  TypeOK'
<1> USE TypeParts, PartsType, UnchangedParts, DelegationAssumption
<1>1. CASE TurnCompletes
  <2>1. RunningOK'
    BY <1>1 DEF TurnCompletes, RunningOK
  <2> QED BY <1>1, <2>1 DEF TurnCompletes, rows, memory
<1>2. ASSUME NEW outcome \in {"completed", "interrupted", "failed"}, EndRun(outcome)
      PROVE  TypeOK'
  <2>1. WakeOK'
    BY <1>2 DEF EndRun, WakesAfter, WakeOK, WakeStates
  <2>6. SteeringOK'
    BY <1>2 DEF EndRun, SteeringAfter, SteeringOK, Effect
  <2>2. RunUpdate(active, outcome) \in Update
    BY <1>2 DEF RunUpdate, Update, RunningOK, Outcomes
  <2>3. UpdatesOK'
    BY <1>2, <2>2, AppendedUpdate DEF EndRun
  <2>4. RunningOK'
    BY <1>2 DEF EndRun, RunningOK
  <2>5. RestOK'
    BY <1>2 DEF EndRun, RestOK, DelegationAssumption
  <2> QED BY <1>2, <2>1, <2>3, <2>4, <2>5, <2>6 DEF EndRun
<1>3. ASSUME NEW t \in Tasks, ChildEnds(t)
      PROVE  TypeOK'
  <2>1. ChildOK'
    BY <1>3 DEF ChildEnds, ChildOK
  <2>2. [child |-> {t}, run |-> Idle, outcome |-> "completed"] \in Update
    BY DEF Update, Outcomes
  <2>3. UpdatesOK'
    BY <1>3, <2>2, AppendedUpdate DEF ChildEnds
  <2> QED BY <1>3, <2>1, <2>3 DEF ChildEnds
<1>4. ASSUME NEW release \in BOOLEAN, StartOther(release)
      PROVE  TypeOK'
  <2>1. WakeOK'
    BY <1>4, WakeTypes DEF StartOther, WakeOK, WakeRow
  <2>2. RunningOK'
    BY <1>4 DEF StartOther, RunningOK, Runs
  <2>3. RestOK'
    BY <1>4 DEF StartOther, RestOK, DelegationAssumption
  <2> QED BY <1>4, <2>1, <2>2, <2>3 DEF StartOther, memory
<1>5. CASE ResumeQueue
  <2>1. WakeOK' /\ RunningOK' /\ told' \subseteq Tasks
    <3>1. CASE active = Idle
      BY <1>5, <3>1, WakeTypes, StartTypes DEF ResumeQueue
    <3>2. CASE active # Idle
      <4>1. WakeOK'
        BY <1>5, <3>2, WakeTypes DEF ResumeQueue, WakeOK, WakeRow
      <4> QED BY <1>5, <3>2, <4>1 DEF ResumeQueue, RestOK
    <3> QED BY <3>1, <3>2
  <2>2. RestOK'
    BY <1>5, <2>1 DEF ResumeQueue, RestOK, bounds
  <2> QED BY <1>5, <2>1, <2>2 DEF ResumeQueue, memory
<1>6. CASE StartTurn
  <2>1. RunningOK'
    BY <1>6 DEF StartTurn, RunningOK
  <2> QED BY <1>6, <2>1 DEF StartTurn, rows, memory
<1> QED BY <1>1, <1>2, <1>3, <1>4, <1>5, <1>6

\* Cancelling the wake of a delivery, if it is queued.
LEMMA CancelTypes ==
    ASSUME UpdatesOK, UNCHANGED promoting, NEW g \in {0} \cup Generations,
           NEW wakes \in [Generations -> WakeRow], CancelQueued(g, wakes)
    PROVE  WakeOK' /\ UpdatesOK'
<1>1. CASE g # 0 /\ wakes[g].state \in Queued
  <2>1. WakeOK'
    BY <1>1, WakeState DEF CancelQueued, WakeStates
  <2>2. RunUpdate(g, "cancelled") \in Update
    BY <1>1 DEF RunUpdate, Update, Runs, Outcomes
  <2> QED BY <1>1, <2>1, <2>2, AppendedUpdate DEF CancelQueued
<1>2. CASE ~(g # 0 /\ wakes[g].state \in Queued)
  BY <1>2, UnchangedParts DEF CancelQueued, WakeOK, WakeRow
<1> QED BY <1>1, <1>2

LEMMA DisposeTypes ==
    ASSUME TaskOK, CohortOK, UpdatesOK, UNCHANGED promoting,
           NEW disposition \in {"stopped", "disposed"}, NEW kept,
           NEW wakes \in [Generations -> WakeRow], disposeCohort(disposition, kept, wakes)
    PROVE  TaskOK' /\ CohortOK' /\ WakeOK' /\ UpdatesOK'
<1>1. TaskOK'
  BY DEF disposeCohort, TaskOK, TaskRow, Settled
<1>2. CASE kept # {}
  BY <1>1, <1>2, UnchangedParts DEF disposeCohort, WakeOK, WakeRow
<1>3. CASE kept = {}
  <2>1. Current \in {0} \cup Generations
    BY DEF CohortOK, Current
  <2>2. CohortOK'
    <3>1. PICK d \in {"open", "stopped", "disposed"} :
              cohort' = [cohort EXCEPT !.delivery = None, !.disposition = d]
      <4>1. cohort' = [cohort EXCEPT !.delivery = None,
                          !.disposition = IF @ = "disposed" THEN @ ELSE disposition]
        BY <1>3 DEF disposeCohort
      <4> QED BY <4>1
    <3>2. /\ cohort'.next = cohort.next
          /\ cohort'.delivery = None
          /\ cohort'.disposition = d
          /\ cohort' = [disposition |-> d, next |-> cohort.next, delivery |-> None]
      BY <3>1 DEF CohortOK
    <3>3. cohort.next \in 1..MaxGeneration + 1 /\ None.generation = 0
      BY DEF CohortOK, None
    <3> QED BY <3>2, <3>3 DEF CohortOK, Current, None
  <2> QED BY <1>1, <1>3, <2>1, <2>2, CancelTypes DEF disposeCohort
<1> QED BY <1>2, <1>3

LEMMA WithdrawTypes ==
    ASSUME CohortOK, WakeOK, UpdatesOK, UNCHANGED promoting, NEW t \in Tasks, Withdraw(t)
    PROVE  CohortOK' /\ WakeOK' /\ UpdatesOK'
<1> DEFINE remaining == Carried \ {t}
<1>1. CASE Current = 0 \/ t \notin Carried
  BY <1>1, UnchangedParts DEF Withdraw
<1>2. CASE /\ ~(Current = 0 \/ t \notin Carried)
           /\ remaining = {} /\ wake[Current].state \in Queued \cup {"none"}
  <2>1. cohort' = [cohort EXCEPT !.delivery = None] /\ CancelQueued(Current, wake)
    BY <1>2 DEF Withdraw
  <2>2. CohortOK'
    BY <2>1 DEF CohortOK, Current, None
  <2>3. Current \in {0} \cup Generations
    BY DEF CohortOK, Current
  <2> QED BY <2>1, <2>2, <2>3, WakeTypes, CancelTypes
<1>3. CASE /\ ~(Current = 0 \/ t \notin Carried)
           /\ ~(remaining = {} /\ wake[Current].state \in Queued \cup {"none"})
  <2>1. /\ cohort' = [cohort EXCEPT !.delivery.tasks = remaining]
        /\ wake' = [wake EXCEPT ![Current].tasks =
                        IF wake[Current].state \in Queued THEN remaining ELSE @]
        /\ UNCHANGED updates
    BY <1>3 DEF Withdraw
  <2>2. Current \in Generations /\ remaining \subseteq Tasks
    BY <1>3 DEF CohortOK, Current, Carried
  <2>3. CohortOK'
    BY <2>1, <2>2 DEF CohortOK, Current
  <2>4. WakeOK'
    BY <2>1, <2>2 DEF WakeOK
  <2> QED BY <2>1, <2>3, <2>4, UnchangedParts
<1> QED BY <1>1, <1>2, <1>3

LEMMA UserTypes ==
    ASSUME TypeOK,
           \/ \E hold \in BOOLEAN : Stop(hold)
           \/ \E g \in Generations : CancelWake(g)
           \/ \E t \in Tasks, state \in {"acknowledged", "disposed"} : Resolve(t, state)
           \/ \E t \in Tasks : WakeAlways(t)
    PROVE  TypeOK'
<1> USE TypeParts, PartsType, UnchangedParts, DelegationAssumption
<1>1. ASSUME NEW hold \in BOOLEAN, Stop(hold)
      PROVE  TypeOK'
  <2>1. TaskOK' /\ CohortOK' /\ WakeOK' /\ UpdatesOK'
    BY <1>1, WakeTypes, DisposeTypes, UnchangedParts DEF Stop
  <2>2. RunningOK'
    BY <1>1 DEF Stop, RunningOK
  <2> QED BY <1>1, <2>1, <2>2 DEF Stop
<1>2. ASSUME NEW g \in Generations, CancelWake(g)
      PROVE  TypeOK'
  BY <1>2, WakeTypes, DisposeTypes DEF CancelWake
<1>3. ASSUME NEW t \in Tasks, NEW state \in {"acknowledged", "disposed"}, Resolve(t, state)
      PROVE  TypeOK'
  <2>1. TaskOK'
    BY <1>3 DEF Resolve, Marked, TaskOK, TaskRow, Settled
  <2> QED BY <1>3, <2>1, WithdrawTypes DEF Resolve
<1>4. ASSUME NEW t \in Tasks, WakeAlways(t)
      PROVE  TypeOK'
  <2>1. TaskOK' /\ CohortOK' /\ WakeOK'
    <3>1. CASE task[t].result /\ active = Spawner
      <4>1. [task[t] EXCEPT !.watched = FALSE] \in TaskRow
        BY DEF TaskOK, TaskRow
      <4> QED BY <1>4, <3>1, <4>1, PlanTypes DEF WakeAlways
    <3>2. CASE ~(task[t].result /\ active = Spawner)
      <4>1. [task[t] EXCEPT !.watched = FALSE] \in TaskRow
        BY DEF TaskOK, TaskRow
      <4>2. task' = [task EXCEPT ![t] = [task[t] EXCEPT !.watched = FALSE]]
        BY <1>4, <3>2 DEF WakeAlways
      <4>3. TaskOK'
        BY <4>1, <4>2 DEF TaskOK
      <4> QED BY <1>4, <3>2, <4>3 DEF WakeAlways
    <3> QED BY <3>1, <3>2
  <2>2. OffersOK'
    BY <1>4, OfferableType DEF WakeAlways, OffersOK
  <2> QED BY <1>4, <2>1, <2>2 DEF WakeAlways
<1> QED BY <1>1, <1>2, <1>3, <1>4

LEMMA ProcessTypes ==
    ASSUME TypeOK, Process
    PROVE  TypeOK'
<1> USE TypeParts, PartsType, UnchangedParts, DelegationAssumption
<1>1. CASE Crash
  <2>1. UpdatesOK'
    BY <1>1 DEF Crash, UpdatesOK
  <2>2. OffersOK' /\ RestOK'
    BY <1>1 DEF Crash, OffersOK, RestOK, DelegationAssumption
  <2> QED BY <1>1, <2>1, <2>2 DEF Crash, rows
<1>2. ASSUME NEW continued \in SUBSET Tasks, RecoverRuntime(continued)
      PROVE  TypeOK'
  <2>1. ChildOK'
    BY <1>2 DEF RecoverRuntime, ChildOK
  <2>2. WakeOK'
    BY <1>2 DEF RecoverRuntime, WakeOK, WakeStates
  <2>3. SteeringOK' /\ RunningOK'
    BY <1>2, StageTypes DEF RecoverRuntime, SteeringOK, RunningOK
  <2>4. RestOK'
    BY <1>2 DEF RecoverRuntime, RestOK, bounds
  <2> QED BY <1>2, <2>1, <2>2, <2>3, <2>4 DEF RecoverRuntime, memory
<1>3. ASSUME NEW t \in Tasks, RecoverResult(t)
      PROVE  TypeOK'
  BY <1>3, FinalizeTypes DEF RecoverResult
<1>4. CASE RecoverDeliveries
  <2>1. TaskOK' /\ CohortOK' /\ WakeOK'
    BY <1>4, FinalizeDeliveryTypes DEF RecoverDeliveries
  <2>2. OffersOK' /\ RestOK'
    BY <1>4, OfferableType DEF RecoverDeliveries, OffersOK, RestOK, bounds
  <2> QED BY <1>4, <2>1, <2>2 DEF RecoverDeliveries
<1>5. ASSUME NEW t \in Tasks, ContinueChild(t)
      PROVE  TypeOK'
  <2>1. ChildOK'
    BY <1>5 DEF ContinueChild, ChildOK
  <2> QED BY <1>5, <2>1 DEF ContinueChild, memory
<1>6. ASSUME NEW t \in Tasks, recoverDelegatedTask(t)
      PROVE  TypeOK'
  <2>1. ChildOK'
    BY <1>6 DEF recoverDelegatedTask, ChildOK
  <2> QED BY <1>6, <2>1, FinalizeTypes DEF recoverDelegatedTask
<1> QED BY <1>1, <1>2, <1>3, <1>4, <1>5, <1>6 DEF Process, Recovery

\* The state keeps its types, for every set of tasks; a delivery is one reserved so far.
THEOREM DelegationTypes == Spec => []TypeOK
<1>1. Init => TypeOK
  <2> SUFFICES ASSUME Init
               PROVE  TypeOK
    OBVIOUS
  <2>1. <<>> \in Seq(Update)
    OBVIOUS
  <2> QED BY <2>1, TypeParts, DelegationAssumption
          DEF Init, DelegationAssumption, ChildOK, TaskOK, CohortOK, WakeOK, SteeringOK, RunningOK,
              OffersOK, UpdatesOK, RestOK, TaskRow, Current, None, WakeStates, Runs, Generations,
              NoSteer, Effect, Stages
<1>2. TypeOK /\ [Next]_vars => TypeOK'
  <2> SUFFICES ASSUME TypeOK, [Next]_vars
               PROVE  TypeOK'
    OBVIOUS
  <2>1. CASE UNCHANGED vars
    BY <2>1, TypeParts, PartsType, UnchangedParts DEF vars, rows, memory
  <2> QED BY <2>1, ContinuationTypes, EffectTypes, RunUpdateTypes, RunTypes, UserTypes, ProcessTypes
          DEF Next, Continuations, Effects, Updates, Agents, Users
<1> QED BY <1>1, <1>2, PTL DEF Spec

-----------------------------------------------------------------------------
(***************************************************************************)
(* Whose the wakes in the queue are.                                       *)
(***************************************************************************)
Over == {"ended", "failed", "cancelled"}

\* A wake in the queue is the open cohort's current delivery, or its steering was accepted:
\* then the cohort has moved on for good.  The runs whose end is to be handled are over.
QueueInv ==
    /\ QueuedWakeOwned
    /\ \A g \in Generations : Accepted(g) => Current # g /\ g < cohort.next
    /\ \A i \in DOMAIN updates :
          updates[i].run \in Generations => wake[updates[i].run].state \in Over

\* What a step may do to wake g: move it on in the queue, dispatch it, or end it.
WakeStep(g) ==
    \/ wake'[g].state = wake[g].state
    \/ wake'[g].state \in Over
    \/ wake[g].state = "steered" /\ wake'[g].state = "missed"
    \/ wake[g].state \in Queued /\ wake'[g].state \in Queued \cup {"active"}
    \/ /\ Dispatchable(g) /\ UNCHANGED cohort
       /\ wake'[g].state \in Queued \cup {"steered", "active"}

\* To the effect that steers it: only the end of the delivery accepts it.
SteeringStep(g) ==
    /\ Accepted(g) /\ Current # g => Accepted(g)'
    /\ Accepted(g)' => Accepted(g) \/ (Current = g /\ Current' # g)

UpdatesStep ==
    \A i \in DOMAIN updates' : updates'[i].run \in Generations =>
        \/ \E j \in DOMAIN updates : updates[j].run = updates'[i].run
        \/ wake'[updates'[i].run].state \in Over

\* And to the cohort: a stop stays, the delivery of a wake in the queue stays current unless
\* it is accepted, and what comes after a delivery is a new one.
CohortStep ==
    /\ Open' => Open
    /\ Current' \in {0, Current, cohort.next} /\ cohort'.next >= cohort.next
    /\ \A g \in Generations :
          Open /\ Current = g /\ wake[g].state \in Queued /\ wake'[g].state \in Queued =>
              (Open' /\ Current' = g) \/ Accepted(g)'

DeliveryStep ==
    /\ \A g \in Generations : WakeStep(g) /\ SteeringStep(g)
    /\ UpdatesStep
    /\ CohortStep

LEMMA DeliveryStepKeeps ==
    ASSUME TypeOK, TypeOK', QueueInv, DeliveryStep
    PROVE  QueueInv'
<1>1. \A g \in Generations : wake[g].state \in Over => wake'[g].state \in Over
  BY DEF DeliveryStep, WakeStep, Dispatchable, isUndeliveredMailboxSteer, Over, Queued
<1>2. QueuedWakeOwned'
  <2> SUFFICES ASSUME NEW g \in Generations, wake'[g].state \in Queued
               PROVE  (Open' /\ Current' = g) \/ Accepted(g)'
    BY DEF QueuedWakeOwned
  <2>1. CASE wake[g].state \in Queued
    BY <2>1 DEF QueueInv, QueuedWakeOwned, DeliveryStep, CohortStep, SteeringStep
  <2>2. CASE wake[g].state \notin Queued
    <3>1. Dispatchable(g) /\ UNCHANGED cohort
      BY <2>2 DEF DeliveryStep, WakeStep, Queued, Over
    <3> QED BY <3>1 DEF Dispatchable, Open, Current
  <2> QED BY <2>1, <2>2
<1>3. ASSUME NEW g \in Generations, Accepted(g)'
      PROVE  Current' # g /\ g < cohort'.next
  <2>1. /\ {Current, cohort.next, cohort'.next, g} \subseteq Nat
        /\ g # 0 /\ Current < cohort.next
    BY TypeParts, DelegationAssumption
    DEF TypeOK, CohortOK, Current, Generations, DelegationAssumption
  <2>2. CASE Accepted(g)
    BY <2>1, <2>2 DEF QueueInv, DeliveryStep, CohortStep
  <2>3. CASE Current = g /\ Current' # g
    BY <2>1, <2>3 DEF DeliveryStep, CohortStep
  <2> QED BY <1>3, <2>2, <2>3 DEF DeliveryStep, SteeringStep
<1>4. \A i \in DOMAIN updates' :
          updates'[i].run \in Generations => wake'[updates'[i].run].state \in Over
  BY <1>1 DEF DeliveryStep, UpdatesStep, QueueInv
<1> QED BY <1>2, <1>3, <1>4 DEF QueueInv

LEMMA DeliveryStepStops ==
    ASSUME QueueInv, DeliveryStep, cohort.disposition # "open"
    PROVE  /\ cohort'.disposition # "open"
           /\ \A g \in Generations :
                 wake'[g].state \in Queued \cup {"steered", "active"} =>
                     \/ wake'[g].state = wake[g].state
                     \/ (wake[g].state \in Queued /\ Accepted(g))
BY DEF QueueInv, QueuedWakeOwned, DeliveryStep, WakeStep, CohortStep, Dispatchable, Open, Queued, Over

-----------------------------------------------------------------------------
(***************************************************************************)
(* Each operation is such a step.                                          *)
(***************************************************************************)
\* The pieces that leave things alone.
LEMMA NothingMoves ==
    ASSUME TypeOK
    PROVE  /\ UNCHANGED updates => UpdatesStep
           /\ UNCHANGED cohort => CohortStep
           /\ UNCHANGED wake => \A g \in Generations : WakeStep(g)
           /\ UNCHANGED steering => \A g \in Generations : SteeringStep(g)
<1>1. UNCHANGED cohort => CohortStep
  <2>1. cohort.next \in Nat
    BY TypeParts, DelegationAssumption DEF CohortOK, DelegationAssumption
  <2> QED BY <2>1 DEF CohortStep, Open, Current
<1> QED BY <1>1 DEF UpdatesStep, WakeStep, SteeringStep, Accepted

\* An effect that is not accepted before or after.
LEMMA SettleStep ==
    ASSUME TypeOK, NEW g \in Generations, NEW effect, Settle(g, effect),
           ~Accepted(g), effect.stage # "accepted"
    PROVE  \A h \in Generations : SteeringStep(h)
BY TypeParts DEF SteeringOK, Settle, SteeringStep, Accepted

LEMMA StageOf == NoSteer.stage = "none" /\ \A stage \in Stages : Stage(stage).stage = stage
BY DEF NoSteer, Stage

\* The wakes, some of them held or released.
Reordered(wakes) ==
    /\ wakes \in [Generations -> WakeRow]
    /\ \A g \in Generations :
          /\ wakes[g].tasks = wake[g].tasks
          /\ wakes[g].state = wake[g].state \/ {wakes[g].state, wake[g].state} \subseteq Queued

LEMMA ReorderedWakes ==
    ASSUME TypeOK
    PROVE  Reordered(wake) /\ Reordered(Unheld) /\ Reordered(Held) /\ Reordered(Released)
<1>1. Reordered(wake) /\ Reordered(Unheld) /\ Reordered(Held)
  BY TypeParts, WakeTypes DEF Reordered, Unheld, Held, WakeOK, Queued
<1> QED BY <1>1 DEF Released

LEMMA ReorderedStep ==
    ASSUME NEW wakes, Reordered(wakes), wake' = wakes
    PROVE  \A g \in Generations : WakeStep(g)
BY DEF Reordered, WakeStep, Queued

LEMMA UpdateTaken ==
    ASSUME UpdatesOK, updates # <<>>, updates' = Tail(updates)
    PROVE  UpdatesStep
<1>1. \A i \in DOMAIN updates' : i + 1 \in DOMAIN updates /\ updates'[i] = updates[i + 1]
  BY DEF UpdatesOK
<1> QED BY <1>1 DEF UpdatesStep

LEMMA UpdateLeft ==
    ASSUME UpdatesOK, NEW u \in Update, updates' = Append(updates, u),
           u.run \in Generations => wake'[u.run].state \in Over
    PROVE  UpdatesStep
<1>1. ASSUME NEW i \in DOMAIN updates'
      PROVE  (i \in DOMAIN updates /\ updates'[i] = updates[i]) \/ updates'[i] = u
  BY <1>1 DEF UpdatesOK
<1> QED BY <1>1 DEF UpdatesStep

LEMMA PlanStep ==
    ASSUME TypeOK, QueueInv, NEW t \in Tasks, NEW row, planDelegatedCompletionDelivery(t, row)
    PROVE  CohortStep /\ \A g \in Generations : WakeStep(g)
<1> USE TypeParts DEF CohortOK, WakeOK
<1>1. CASE PlanNothing(t, row) \/ WaitForDelivery(t, row)
  BY <1>1, NothingMoves DEF PlanNothing, WaitForDelivery
<1>2. CASE ReserveDelivery(t, row)
  <2>1. Current = 0 /\ UNCHANGED wake /\ cohort' = Reserving({t})
    BY <1>2 DEF ReserveDelivery
  <2>2. CohortStep
    <3>1. cohort.next \in Nat
      BY DelegationAssumption DEF DelegationAssumption
    <3> QED BY <2>1, <3>1 DEF CohortStep, Reserving, Open, Current, Generations
  <2> QED BY <2>1, <2>2, NothingMoves
<1>3. CASE JoinDelivery(t, row)
  <2>1. CohortStep
    <3>1. cohort.next \in Nat
      BY DelegationAssumption DEF DelegationAssumption
    <3> QED BY <1>3, <3>1 DEF JoinDelivery, Joined, CohortStep, Open, Current
  <2>2. \A g \in Generations : wake'[g].state = wake[g].state
    BY <1>3 DEF JoinDelivery
  <2> QED BY <2>1, <2>2 DEF WakeStep
<1> QED BY <1>1, <1>2, <1>3 DEF planDelegatedCompletionDelivery

LEMMA FinalizeStep ==
    ASSUME TypeOK, QueueInv, NEW t \in Tasks, finalizeAppOwnedSubagentTask(t)
    PROVE  CohortStep /\ \A g \in Generations : WakeStep(g)
BY PlanStep, NothingMoves DEF finalizeAppOwnedSubagentTask

\* A delivery that is over is not in the queue, or accepted.
LEMMA ConcludeStep ==
    ASSUME TypeOK, NEW outcome, NEW owed, Conclude(outcome, owed),
           \A g \in Generations :
               Current = g => wake[g].state \notin Queued \/ Accepted(g)'
    PROVE  CohortStep /\ (Current # 0 => Current' # Current)
<1>1. cohort.next \in Nat /\ Current \in Nat /\ Current < cohort.next
  BY TypeParts, DelegationAssumption DEF CohortOK, Current, Generations, DelegationAssumption
<1>2. \/ cohort' = [cohort EXCEPT !.delivery = None]
      \/ cohort' = Reserving(owed)
  BY DEF Conclude
<1>3. /\ Open' => Open
      /\ Current' \in {0, cohort.next}
      /\ cohort'.next >= cohort.next
  <2>1. CASE cohort' = [cohort EXCEPT !.delivery = None]
    BY <1>1, <2>1, TypeParts DEF Open, CohortOK, None, Current
  <2>2. CASE cohort' = Reserving(owed)
    <3>1. /\ cohort'.next = cohort.next + 1
          /\ cohort'.delivery = [generation |-> cohort.next, tasks |-> owed]
          /\ cohort'.disposition = cohort.disposition
      BY <2>2, TypeParts DEF Reserving, CohortOK
    <3> QED BY <1>1, <3>1 DEF Open, Current
  <2> QED BY <1>2, <2>1, <2>2
<1> QED BY <1>1, <1>3 DEF CohortStep

LEMMA FinalizeDeliveryStep ==
    ASSUME TypeOK, NEW g, finalizeDelegatedCompletionDelivery(g),
           g \in Generations => wake[g].state \notin Queued
    PROVE  CohortStep
<1>1. CASE Current = g
  BY <1>1, ConcludeStep DEF finalizeDelegatedCompletionDelivery
<1>2. CASE Current # g
  BY <1>2, NothingMoves DEF finalizeDelegatedCompletionDelivery
<1> QED BY <1>1, <1>2

LEMMA DispatchStep ==
    ASSUME TypeOK, QueueInv, NEW g \in Generations, NEW effect, dispatchMessage(g, effect),
           effect.stage = "accepted" => Accepted(g), UNCHANGED cohort
    PROVE  \A h \in Generations : WakeStep(h) /\ SteeringStep(h)
<1>1. Dispatchable(g) /\ Current = g /\ ~Accepted(g)
  BY DEF dispatchMessage, Dispatchable, QueueInv
<1>2. \A h \in Generations \ {g} : wake'[h] = wake[h] /\ steering'[h] = steering[h]
  BY TypeParts DEF dispatchMessage, SteerInto, QueueBehind, StartWake, WakeOK, SteeringOK
<1>3. wake'[g].state \in Queued \cup {"steered", "active"}
  BY TypeParts DEF dispatchMessage, SteerInto, QueueBehind, StartWake, WakeOK, Queued
<1>4. steering'[g].stage # "accepted"
  BY <1>1, TypeParts DEF dispatchMessage, SteerInto, QueueBehind, StartWake, SteeringOK, Accepted
<1> QED BY <1>1, <1>2, <1>3, <1>4 DEF WakeStep, SteeringStep, Accepted

LEMMA StateStep ==
    ASSUME TypeOK, NEW wakes, Reordered(wakes), NEW g \in Generations, NEW state,
           wake' = [wakes EXCEPT ![g].state = state],
           \/ state \in Over
           \/ wakes[g].state \in Queued /\ state \in Queued \cup {"active"}
    PROVE  \A h \in Generations : WakeStep(h)
<1>1. wakes[g].state \in Queued => wake[g].state \in Queued
  BY DEF Reordered
<1>2. wake'[g].state = state /\ \A h \in Generations \ {g} : wake'[h] = wakes[h]
  BY DEF Reordered, WakeRow
<1> QED BY <1>1, <1>2 DEF Reordered, WakeStep, Queued

LEMMA ContinuationSteps ==
    ASSUME TypeOK, QueueInv, NEW g \in Generations,
           TakeOffer(g) \/ Dispatch(g) \/ DispatchFails(g)
    PROVE  DeliveryStep
<1>1. CASE TakeOffer(g) \/ DispatchFails(g)
  BY <1>1, NothingMoves DEF TakeOffer, DispatchFails, rows, DeliveryStep
<1>2. CASE Dispatch(g)
  BY <1>2, NothingMoves, DispatchStep DEF Dispatch, Accepted, DeliveryStep
<1> QED BY <1>1, <1>2

LEMMA EffectSteps ==
    ASSUME TypeOK, QueueInv, NEW g \in Generations,
           \/ SteerChecks(g) \/ SteerHeard(g) \/ SteerTooLate(g)
           \/ dispatchNotificationAccepted(g)
    PROVE  DeliveryStep
<1>1. CASE SteerChecks(g) \/ SteerHeard(g)
  <2>1. \A h \in Generations : SteeringStep(h)
    BY <1>1, TypeParts, SettleStep, StageOf
    DEF SteerChecks, SteerHeard, SteeringOK, Effect, Accepted, Stages
  <2> QED BY <1>1, <2>1, NothingMoves DEF SteerChecks, SteerHeard, memory, DeliveryStep
<1>2. CASE SteerTooLate(g)
  <2>1. CASE FollowUp(g)
    <3>1. \A h \in Generations : WakeStep(h) /\ SteeringStep(h)
      BY <1>2, <2>1, DispatchStep, StageOf DEF SteerTooLate, FollowUp
    <3> QED BY <1>2, <3>1, NothingMoves DEF SteerTooLate, memory, DeliveryStep
  <2>2. CASE SteerFails(g)
    <3>1. \A h \in Generations : SteeringStep(h)
      BY <1>2, <2>2, SettleStep, StageOf DEF SteerTooLate, SteerFails, Accepted
    <3> QED BY <1>2, <2>2, <3>1, NothingMoves DEF SteerTooLate, SteerFails, memory, DeliveryStep
  <2> QED BY <1>2, <2>1, <2>2 DEF SteerTooLate
<1>3. CASE dispatchNotificationAccepted(g)
  <2>1. CASE Open /\ Current = g
    <3>1. Settle(g, Stage("accepted"))
      BY <1>3, <2>1 DEF dispatchNotificationAccepted
    <3>2. Accepted(g)'
      BY <3>1, StageOf, TypeParts DEF Settle, Accepted, SteeringOK, Stages
    <3>3. CohortStep /\ Current' # Current
      BY <1>3, <2>1, <3>2, ConcludeStep DEF dispatchNotificationAccepted, Generations
    <3>4. \A h \in Generations : SteeringStep(h)
      BY <2>1, <3>1, <3>2, <3>3, TypeParts DEF Settle, SteeringStep, Accepted, SteeringOK
    <3> QED BY <1>3, <3>3, <3>4, NothingMoves DEF dispatchNotificationAccepted, DeliveryStep
  <2>2. CASE ~(Open /\ Current = g)
    <3>1. \A h \in Generations : SteeringStep(h)
      BY <1>3, <2>2, SettleStep, StageOf DEF dispatchNotificationAccepted, Accepted
    <3> QED BY <1>3, <2>2, <3>1, NothingMoves DEF dispatchNotificationAccepted, DeliveryStep
  <2> QED BY <2>1, <2>2
<1> QED BY <1>1, <1>2, <1>3

LEMMA RunUpdateSteps ==
    ASSUME TypeOK, QueueInv, HandleChildUpdate \/ HandleRunUpdate \/ Promote
    PROVE  DeliveryStep
<1> USE TypeParts
<1>1. CASE HandleChildUpdate
  <2>1. CohortStep /\ \A h \in Generations : WakeStep(h)
    <3>1. PICK t \in Tasks : IF child[t] = "ended" THEN finalizeAppOwnedSubagentTask(t)
                             ELSE UNCHANGED <<task, cohort, wake, offers>>
      BY <1>1, TakenUpdate DEF HandleChildUpdate, Update
    <3> QED BY <3>1, FinalizeStep, NothingMoves
  <2> QED BY <1>1, <2>1, UpdateTaken, NothingMoves DEF HandleChildUpdate, DeliveryStep
<1>2. CASE HandleRunUpdate
  <2>1. Head(updates) = updates[1] /\ 1 \in DOMAIN updates
    BY <1>2 DEF HandleRunUpdate, UpdatesOK
  <2>2. Head(updates).run \in Generations => wake[Head(updates).run].state \notin Queued
    BY <2>1 DEF QueueInv, Over, Queued
  <2>3. CohortStep
    BY <1>2, <2>2, FinalizeDeliveryStep DEF HandleRunUpdate
  <2>4. UNCHANGED wake
    BY <1>2 DEF HandleRunUpdate, finalizeDelegatedCompletionDelivery
  <2> QED BY <1>2, <2>3, <2>4, UpdateTaken, NothingMoves DEF HandleRunUpdate, DeliveryStep
<1>3. CASE Promote
  <2>1. UNCHANGED <<cohort, steering>>
    BY <1>3 DEF Promote
  <2>2. \A g \in QueuedWakes : g \in Generations /\ Released[g].state \in Queued
    BY DEF QueuedWakes, Queued
  <2>3. ASSUME NEW g \in QueuedWakes, Start(g, Released), UNCHANGED updates
        PROVE  DeliveryStep
    BY <2>1, <2>2, <2>3, ReorderedWakes, StateStep, NothingMoves DEF Start, DeliveryStep
  <2>4. ASSUME NEW g \in QueuedWakes, FailStart(g)
        PROVE  DeliveryStep
    <3>1. wake'[g].state = "failed"
      BY <2>2, <2>4, WakeTypes DEF FailStart, WakeRow
    <3>2. RunUpdate(g, "failed") \in Update /\ RunUpdate(g, "failed").run = g
      BY <2>2 DEF RunUpdate, Update, Runs, Outcomes
    <3>3. UpdatesStep
      BY <2>4, <3>1, <3>2, UpdateLeft DEF FailStart, Over
    <3>4. \A h \in Generations : WakeStep(h)
      BY <2>2, <2>4, ReorderedWakes, StateStep DEF FailStart, Over
    <3> QED BY <2>1, <3>3, <3>4, NothingMoves DEF DeliveryStep
  <2>5. ASSUME wake' = Held, UNCHANGED updates
        PROVE  DeliveryStep
    BY <2>1, <2>5, ReorderedWakes, ReorderedStep, NothingMoves DEF DeliveryStep
  <2>6. CASE UNCHANGED <<wake, updates>>
    BY <2>1, <2>6, NothingMoves DEF DeliveryStep
  <2> QED BY <1>3, <2>3, <2>4, <2>5, <2>6 DEF Promote
<1> QED BY <1>1, <1>2, <1>3

LEMMA RunSteps ==
    ASSUME TypeOK, QueueInv,
           \/ TurnCompletes
           \/ \E outcome \in {"completed", "interrupted", "failed"} : EndRun(outcome)
           \/ \E t \in Tasks : ChildEnds(t)
           \/ \E release \in BOOLEAN : StartOther(release)
           \/ ResumeQueue \/ StartTurn
    PROVE  DeliveryStep
<1> USE TypeParts
<1>1. CASE TurnCompletes
  BY <1>1, NothingMoves DEF TurnCompletes, rows, memory, DeliveryStep
<1>2. ASSUME NEW outcome \in {"completed", "interrupted", "failed"}, EndRun(outcome)
      PROVE  DeliveryStep
  <2>1. \A g \in Generations : WakeStep(g)
    BY <1>2 DEF EndRun, WakesAfter, WakeStep, WakeOK, Over
  <2>2. active \in Generations => wake'[active].state = "ended"
    BY <1>2 DEF EndRun, WakesAfter, WakeOK
  <2>3. RunUpdate(active, outcome) \in Update /\ RunUpdate(active, outcome).run = active
    BY <1>2 DEF RunUpdate, Update, RunningOK, Outcomes
  <2>4. UpdatesStep
    BY <1>2, <2>2, <2>3, UpdateLeft DEF EndRun, Over
  <2>5. \A g \in Generations : steering'[g].stage = steering[g].stage
    BY <1>2 DEF EndRun, SteeringAfter, SteeringOK, Effect
  <2> QED BY <1>2, <2>1, <2>4, <2>5, NothingMoves DEF EndRun, DeliveryStep, SteeringStep, Accepted
<1>3. ASSUME NEW t \in Tasks, ChildEnds(t)
      PROVE  DeliveryStep
  <2> DEFINE u == [child |-> {t}, run |-> Idle, outcome |-> "completed"]
  <2>1. u \in Update /\ u.run \notin Generations
    BY DEF Update, Outcomes, Idle, Generations
  <2>2. UpdatesStep
    BY <1>3, <2>1, UpdateLeft DEF ChildEnds
  <2> QED BY <1>3, <2>2, NothingMoves DEF ChildEnds, DeliveryStep
<1>4. ASSUME NEW release \in BOOLEAN, StartOther(release)
      PROVE  DeliveryStep
  <2>1. \A g \in Generations : WakeStep(g)
    BY <1>4, ReorderedWakes, ReorderedStep DEF StartOther
  <2> QED BY <1>4, <2>1, NothingMoves DEF StartOther, memory, DeliveryStep
<1>5. CASE ResumeQueue
  <2>1. \A h \in Generations : WakeStep(h)
    BY <1>5, ReorderedWakes, ReorderedStep, StateStep DEF ResumeQueue, Start, Queued
  <2> QED BY <1>5, <2>1, NothingMoves DEF ResumeQueue, memory, DeliveryStep
<1>6. CASE StartTurn
  BY <1>6, NothingMoves DEF StartTurn, rows, memory, DeliveryStep
<1> QED BY <1>1, <1>2, <1>3, <1>4, <1>5, <1>6

\* Cancelling the current delivery takes its wake out of the queue.
LEMMA CancelStep ==
    ASSUME TypeOK, NEW wakes, Reordered(wakes), CancelQueued(Current, wakes)
    PROVE  /\ UpdatesStep
           /\ \A g \in Generations : WakeStep(g)
           /\ Current \in Generations => wake'[Current].state \notin Queued
<1> USE TypeParts
<1>0. Current \in {0} \cup Generations
  BY DEF CohortOK, Current
<1>1. CASE Current # 0 /\ wakes[Current].state \in Queued
  <2>1. Current \in Generations /\ wake' = [wakes EXCEPT ![Current].state = "cancelled"]
    BY <1>0, <1>1 DEF CancelQueued
  <2>2. wake'[Current].state = "cancelled"
    BY <2>1 DEF Reordered, WakeRow
  <2>3. RunUpdate(Current, "cancelled") \in Update /\ RunUpdate(Current, "cancelled").run = Current
    BY <2>1 DEF RunUpdate, Update, Runs, Outcomes
  <2>4. UpdatesStep
    BY <1>1, <2>2, <2>3, UpdateLeft DEF CancelQueued, Over
  <2> QED BY <2>1, <2>2, <2>4, StateStep DEF Over, Queued
<1>2. CASE ~(Current # 0 /\ wakes[Current].state \in Queued)
  <2>1. wake' = wakes /\ UNCHANGED updates
    BY <1>2 DEF CancelQueued
  <2>2. 0 \notin Generations
    BY DEF Generations
  <2> QED BY <1>0, <1>2, <2>1, <2>2, ReorderedStep, NothingMoves
<1> QED BY <1>1, <1>2

\* A delivery that goes leaves nothing of its own in the queue.
LEMMA CohortGoes ==
    ASSUME TypeOK, NEW d \in {"open", "stopped", "disposed"}, Open \/ d # "open",
           cohort' = [cohort EXCEPT !.delivery = None, !.disposition = d],
           Current \in Generations => wake'[Current].state \notin Queued
    PROVE  CohortStep
<1>1. cohort.next \in Nat
  BY TypeParts, DelegationAssumption DEF CohortOK, DelegationAssumption
<1>2. Current' = 0 /\ cohort'.next = cohort.next /\ cohort'.disposition = d
  BY TypeParts DEF CohortOK, Current, None
<1> QED BY <1>1, <1>2 DEF CohortStep, Open

LEMMA DisposeStep ==
    ASSUME TypeOK, NEW disposition \in {"stopped", "disposed"}, NEW kept, NEW wakes,
           Reordered(wakes), disposeCohort(disposition, kept, wakes)
    PROVE  UpdatesStep /\ CohortStep /\ \A g \in Generations : WakeStep(g)
<1>1. CASE kept # {}
  BY <1>1, ReorderedStep, NothingMoves DEF disposeCohort
<1>2. CASE kept = {}
  <2> DEFINE d == IF cohort.disposition = "disposed" THEN "disposed" ELSE disposition
  <2>1. /\ d \in {"stopped", "disposed"}
        /\ cohort' = [cohort EXCEPT !.delivery = None, !.disposition = d]
        /\ CancelQueued(Current, wakes)
    BY <1>2 DEF disposeCohort
  <2> HIDE DEF d
  <2>2. /\ UpdatesStep
        /\ \A g \in Generations : WakeStep(g)
        /\ Current \in Generations => wake'[Current].state \notin Queued
    BY <2>1, CancelStep
  <2> QED BY <2>1, <2>2, CohortGoes
<1> QED BY <1>1, <1>2

LEMMA WithdrawStep ==
    ASSUME TypeOK, NEW t \in Tasks, Withdraw(t)
    PROVE  UpdatesStep /\ CohortStep /\ \A g \in Generations : WakeStep(g)
<1> DEFINE remaining == Carried \ {t}
<1> USE TypeParts
<1>1. CASE Current = 0 \/ t \notin Carried
  BY <1>1, NothingMoves DEF Withdraw
<1>2. CASE /\ ~(Current = 0 \/ t \notin Carried)
           /\ remaining = {} /\ wake[Current].state \in Queued \cup {"none"}
  <2>1. cohort' = [cohort EXCEPT !.delivery = None] /\ CancelQueued(Current, wake)
    BY <1>2 DEF Withdraw
  <2>2. /\ cohort.disposition \in {"open", "stopped", "disposed"}
        /\ cohort' = [cohort EXCEPT !.delivery = None, !.disposition = cohort.disposition]
        /\ Open \/ cohort.disposition # "open"
    BY <2>1 DEF CohortOK, Open
  <2>3. /\ UpdatesStep
        /\ \A g \in Generations : WakeStep(g)
        /\ Current \in Generations => wake'[Current].state \notin Queued
    BY <2>1, ReorderedWakes, CancelStep
  <2> QED BY <2>2, <2>3, CohortGoes
<1>3. CASE /\ ~(Current = 0 \/ t \notin Carried)
           /\ ~(remaining = {} /\ wake[Current].state \in Queued \cup {"none"})
  <2>1. /\ cohort' = [cohort EXCEPT !.delivery.tasks = remaining]
        /\ wake' = [wake EXCEPT ![Current].tasks =
                        IF wake[Current].state \in Queued THEN remaining ELSE @]
        /\ UNCHANGED updates
    BY <1>3 DEF Withdraw
  <2>2. /\ cohort'.disposition = cohort.disposition /\ Current' = Current
        /\ cohort'.next = cohort.next /\ cohort.next \in Nat
    BY <2>1, DelegationAssumption DEF CohortOK, Current, DelegationAssumption
  <2>3. \A g \in Generations : wake'[g].state = wake[g].state
    BY <2>1 DEF WakeOK
  <2> QED BY <2>1, <2>2, <2>3, NothingMoves DEF CohortStep, WakeStep, Open
<1> QED BY <1>1, <1>2, <1>3

LEMMA UserSteps ==
    ASSUME TypeOK, QueueInv,
           \/ \E hold \in BOOLEAN : Stop(hold)
           \/ \E g \in Generations : CancelWake(g)
           \/ \E t \in Tasks, state \in {"acknowledged", "disposed"} : Resolve(t, state)
           \/ \E t \in Tasks : WakeAlways(t)
    PROVE  DeliveryStep
<1>1. ASSUME NEW hold \in BOOLEAN, Stop(hold)
      PROVE  DeliveryStep
  <2>1. UNCHANGED steering
    BY <1>1 DEF Stop
  <2>2. \/ \E kept : disposeCohort("stopped", kept, Held) \/ disposeCohort("stopped", kept, wake)
        \/ UNCHANGED <<cohort, wake, updates>>
    BY <1>1 DEF Stop
  <2> QED BY <2>1, <2>2, ReorderedWakes, DisposeStep, NothingMoves DEF DeliveryStep
<1>2. ASSUME NEW g \in Generations, CancelWake(g)
      PROVE  DeliveryStep
  BY <1>2, ReorderedWakes, DisposeStep, NothingMoves DEF CancelWake, DeliveryStep
<1>3. ASSUME NEW t \in Tasks, NEW state \in {"acknowledged", "disposed"}, Resolve(t, state)
      PROVE  DeliveryStep
  BY <1>3, WithdrawStep, NothingMoves DEF Resolve, DeliveryStep
<1>4. ASSUME NEW t \in Tasks, WakeAlways(t)
      PROVE  DeliveryStep
  <2>1. CohortStep /\ \A g \in Generations : WakeStep(g)
    BY <1>4, PlanStep, NothingMoves DEF WakeAlways
  <2> QED BY <1>4, <2>1, NothingMoves DEF WakeAlways, DeliveryStep
<1> QED BY <1>1, <1>2, <1>3, <1>4

LEMMA ProcessSteps ==
    ASSUME TypeOK, QueueInv, Process
    PROVE  DeliveryStep
<1>1. CASE Crash
  <2>1. UpdatesStep
    BY <1>1 DEF Crash, UpdatesStep
  <2> QED BY <1>1, <2>1, NothingMoves DEF Crash, rows, DeliveryStep
<1>2. ASSUME NEW continued \in SUBSET Tasks, RecoverRuntime(continued)
      PROVE  DeliveryStep
  <2>1. \A g \in Generations : WakeStep(g)
    BY <1>2, TypeParts DEF RecoverRuntime, WakeStep, WakeOK, Queued, Over
  <2>2. \A g \in Generations : SteeringStep(g)
    BY <1>2, StageOf DEF RecoverRuntime, SteeringStep, Accepted
  <2> QED BY <1>2, <2>1, <2>2, NothingMoves DEF RecoverRuntime, memory, DeliveryStep
<1>3. ASSUME NEW t \in Tasks, RecoverResult(t) \/ recoverDelegatedTask(t)
      PROVE  DeliveryStep
  BY <1>3, FinalizeStep, NothingMoves DEF RecoverResult, recoverDelegatedTask, DeliveryStep
<1>4. CASE RecoverDeliveries
  <2>1. CohortStep /\ UNCHANGED wake
    <3>1. CASE Current # 0 /\ wake[Current].state \in Over
      BY <1>4, <3>1, FinalizeDeliveryStep
      DEF RecoverDeliveries, finalizeDelegatedCompletionDelivery, Over, Queued
    <3>2. CASE ~(Current # 0 /\ wake[Current].state \in Over)
      BY <1>4, <3>2, NothingMoves DEF RecoverDeliveries, Over
    <3> QED BY <3>1, <3>2
  <2> QED BY <1>4, <2>1, NothingMoves DEF RecoverDeliveries, DeliveryStep
<1>5. ASSUME NEW t \in Tasks, ContinueChild(t)
      PROVE  DeliveryStep
  BY <1>5, NothingMoves DEF ContinueChild, memory, DeliveryStep
<1> QED BY <1>1, <1>2, <1>3, <1>4, <1>5 DEF Process, Recovery

LEMMA EveryStep == TypeOK /\ QueueInv /\ [Next]_vars => DeliveryStep
<1> SUFFICES ASSUME TypeOK, QueueInv, [Next]_vars
             PROVE  DeliveryStep
  OBVIOUS
<1>1. CASE UNCHANGED vars
  BY <1>1, NothingMoves DEF vars, rows, memory, DeliveryStep
<1> QED BY <1>1, ContinuationSteps, EffectSteps, RunUpdateSteps, RunSteps, UserSteps, ProcessSteps
        DEF Next, Continuations, Effects, Updates, Agents, Users

LEMMA QueueInvariant == Spec => []QueueInv
<1>1. Init => QueueInv
  BY DEF Init, QueueInv, QueuedWakeOwned, Accepted, NoSteer, Queued
<1>2. TypeOK /\ TypeOK' /\ QueueInv /\ [Next]_vars => QueueInv'
  BY EveryStep, DeliveryStepKeeps
<1> QED BY <1>1, <1>2, DelegationTypes, PTL DEF Spec

\* A wake in the queue is the open cohort's current delivery, so what was stopped, withdrawn
\* or delivered otherwise cannot wake the parent any more, or its steering was accepted after
\* it had been queued again.
THEOREM NoForeignWake == Spec => []QueuedWakeOwned
<1>1. QueueInv => QueuedWakeOwned
  BY DEF QueueInv
<1> QED BY <1>1, QueueInvariant, PTL

\* Once a cohort was stopped or disposed, no delivery of it is queued, steered or started
\* again, whatever is under way when it is stopped and whatever process is lost; only a wake
\* that a late acceptance left in the queue goes on.
THEOREM StoppedForGood == Spec => StopIsFinal
<1> DEFINE Stops == cohort.disposition # "open" =>
                /\ cohort'.disposition # "open"
                /\ \A g \in Generations :
                      wake'[g].state \in Queued \cup {"steered", "active"} =>
                          \/ wake'[g].state = wake[g].state
                          \/ (wake[g].state \in Queued /\ Accepted(g))
<1>1. TypeOK /\ QueueInv /\ [Next]_vars => [Stops]_vars
  BY EveryStep, DeliveryStepStops
<1> QED BY <1>1, DelegationTypes, QueueInvariant, PTL DEF Spec, StopIsFinal

-----------------------------------------------------------------------------
(***************************************************************************)
(* What counts as delivered was told.  The results that the current        *)
(* delivery carries are in its message, and what joins it joins the        *)
(* message, until a run has read it; from then on none joins it, and all   *)
(* of them have been told.  An effect that steers it has read them all     *)
(* unless the delivery has been queued again since.                        *)
(***************************************************************************)
\* Only reserved deliveries have a message, and only dispatched ones are steered.
Begun ==
    \A g \in Generations :
        /\ wake[g].state # "none" => g < cohort.next
        /\ steering[g].stage # "none" => wake[g].state # "none"

ActiveWake == active \in Generations => wake[active].state = "active"

InFlight == {"steered", "missed"}

CarriedTold ==
    \A g \in Generations : (Current = g) =>
        /\ wake[g].state \in {"active", "ended"} => Carried \subseteq told
        /\ wake[g].state \in Queued \cup InFlight \cup {"failed"} =>
              Carried \subseteq wake[g].tasks
        /\ wake[g].state \in InFlight =>
              /\ steering[g].stage = "checked" => Carried \subseteq steering[g].tasks
              /\ steering[g].stage = "accepting" => Carried \subseteq told
        /\ wake[g].state = "cancelled" => ~Live(g)

\* A cohort that is not open owes nothing.
ClosedOver ==
    /\ Open \/ (Current = 0 /\ \A t \in Tasks : task[t].delivery \notin {"claimed", "pending"})
    /\ Current = 0 => Carried = {}

ToldInv == Begun /\ ActiveWake /\ CarriedTold /\ ClosedOver /\ DeliveredMeansTold

\* The thread shows that it was not told, or the agent will still be told.
Shown(t, g) ==
    /\ t \in wake[g].tasks
    /\ wake[g].state = "failed" \/ (wake[g].state \in Queued /\ Accepted(g))

ToldOrShown(t) == t \in told \/ \E g \in Generations : Shown(t, g)

LEMMA DeliveredShown ==
    DeliveredMeansTold <=> \A t \in Tasks : task[t].delivery = "delivered" => ToldOrShown(t)
BY DEF DeliveredMeansTold, ToldOrShown, Shown

\* What is told or shown stays so, as long as what is told does, and no wake that shows it
\* changes.
LEMMA ShownKept ==
    ASSUME ToldInv, told \subseteq told',
           \A t \in Tasks : task'[t].delivery = "delivered" =>
               task[t].delivery = "delivered" \/ ToldOrShown(t)',
           \A g \in Generations, t \in Tasks : Shown(t, g) => t \in told' \/ Shown(t, g)'
    PROVE  DeliveredMeansTold'
<1> SUFFICES ASSUME NEW t \in Tasks, task'[t].delivery = "delivered"
             PROVE  ToldOrShown(t)'
  BY DEF DeliveredMeansTold, ToldOrShown, Shown
<1> QED BY DeliveredShown DEF ToldInv, ToldOrShown

LEMMA GenerationFacts ==
    ASSUME TypeOK
    PROVE  /\ cohort.next \in Nat /\ Current \in {0} \cup Generations /\ Current < cohort.next
           /\ Generations \subseteq Nat \ {0} /\ MaxGeneration \in Nat
           /\ Carried \subseteq Tasks
           /\ Idle \notin Generations /\ Spawner \notin Generations /\ Other \notin Generations
BY TypeParts, DelegationAssumption
DEF DelegationAssumption, CohortOK, Generations, Current, Carried, Idle, Spawner, Other

\* Reserving the next delivery.
LEMMA ReservingFacts ==
    ASSUME TypeOK, NEW tasks \in SUBSET Tasks, cohort' = Reserving(tasks)
    PROVE  /\ cohort'.next = cohort.next + 1 /\ Current' = cohort.next /\ Carried' = tasks
           /\ Open' = Open
BY TypeParts DEF CohortOK, Reserving, Current, Carried, Open

LEMMA PlanTold ==
    ASSUME TypeOK, QueueInv, ToldInv, NEW t \in Tasks, NEW row, row.delivery = task[t].delivery,
           row \in TaskRow, planDelegatedCompletionDelivery(t, row),
           UNCHANGED <<steering, active, told>>
    PROVE  ToldInv'
<1> USE GenerationFacts DEF ToldInv, InFlight
<1>1. \A u \in Tasks \ {t} : \A state : Marked(t, row, state)[u] = task[u]
  BY TypeParts DEF Marked, TaskOK
<1>2. \A state : Marked(t, row, state)[t].delivery = state
  BY TypeParts DEF Marked, TaskOK, TaskRow
<1>3. CASE PlanNothing(t, row)
  <2>1. UNCHANGED <<cohort, wake>>
    BY <1>3 DEF PlanNothing
  <2>2. \A u \in Tasks : \/ task'[u].delivery = task[u].delivery
                         \/ task'[u].delivery = "disposed"
    BY <1>1, <1>2, <1>3 DEF PlanNothing
  <2>3. Begun' /\ ActiveWake' /\ CarriedTold' /\ ClosedOver'
    BY <2>1, <2>2 DEF Begun, ActiveWake, CarriedTold, ClosedOver, Current, Carried, Open, Live
  <2>4. DeliveredMeansTold'
    BY <2>1, <2>2 DEF DeliveredMeansTold, Accepted
  <2> QED BY <2>3, <2>4
<1>4. CASE Open /\ ReserveDelivery(t, row)
  <2>1. /\ UNCHANGED wake /\ task' = Marked(t, row, "claimed") /\ cohort' = Reserving({t})
        /\ cohort.next \in Generations
    BY <1>4 DEF ReserveDelivery
  <2>2. cohort'.next = cohort.next + 1 /\ Current' = cohort.next /\ Open'
    BY <1>4, <2>1, ReservingFacts
  <2>3. Begun' /\ ActiveWake'
    BY <2>1, <2>2 DEF Begun, ActiveWake
  <2>4. CarriedTold'
    BY <2>1, <2>2 DEF Begun, CarriedTold, Queued
  <2>5. ClosedOver'
    BY <2>1, <2>2 DEF ClosedOver
  <2>6. DeliveredMeansTold'
    BY <1>1, <1>2, <2>1 DEF DeliveredMeansTold, Accepted
  <2> QED BY <2>3, <2>4, <2>5, <2>6
<1>5. CASE Open /\ JoinDelivery(t, row)
  <2>1. /\ task' = Marked(t, row, "claimed") /\ cohort' = Joined(t) /\ Current # 0
        /\ wake[Current].state \in Queued \cup {"none"}
        /\ wake' = [wake EXCEPT ![Current].tasks =
                       IF wake[Current].state = "none" THEN @ ELSE Carried \cup {t}]
    BY <1>5 DEF JoinDelivery
  <2>2. cohort'.next = cohort.next /\ Current' = Current /\ Carried' = Carried \cup {t} /\ Open'
    BY <1>5, <2>1, TypeParts DEF Joined, CohortOK, Current, Carried, Open
  <2>3. /\ \A g \in Generations : wake'[g].state = wake[g].state
        /\ \A g \in Generations \ {Current} : wake'[g] = wake[g]
        /\ wake[Current].state \in Queued => wake'[Current].tasks = Carried \cup {t}
    BY <2>1, TypeParts DEF WakeOK, Queued
  <2>4. Begun' /\ ActiveWake' /\ ClosedOver'
    BY <2>1, <2>2, <2>3 DEF Begun, ActiveWake, ClosedOver
  <2>5. CarriedTold'
    BY <2>1, <2>2, <2>3 DEF Begun, CarriedTold, Queued
  <2>6. \A g \in Generations, u \in Tasks : Shown(u, g) => g # Current
    BY <2>1 DEF Shown, QueueInv, Queued
  <2>7. \A g \in Generations, u \in Tasks : Shown(u, g) => Shown(u, g)'
    BY <2>3, <2>6 DEF Shown, Accepted
  <2>8. \A u \in Tasks : task'[u].delivery = "delivered" => task[u].delivery = "delivered"
    BY <1>1, <1>2, <2>1
  <2>9. DeliveredMeansTold'
    BY <2>7, <2>8, ShownKept
  <2> QED BY <2>4, <2>5, <2>9
<1>6. CASE Open /\ WaitForDelivery(t, row)
  <2>1. UNCHANGED <<cohort, wake>> /\ task' = Marked(t, row, "pending")
    BY <1>6 DEF WaitForDelivery
  <2>2. Begun' /\ ActiveWake' /\ CarriedTold'
    BY <2>1 DEF Begun, ActiveWake, CarriedTold, Current, Carried, Live
  <2>3. ClosedOver'
    BY <1>6, <2>1 DEF ClosedOver, Current, Carried, Open
  <2>4. DeliveredMeansTold'
    BY <1>1, <1>2, <2>1 DEF DeliveredMeansTold, Accepted
  <2> QED BY <2>2, <2>3, <2>4
<1> QED BY <1>3, <1>4, <1>5, <1>6 DEF planDelegatedCompletionDelivery

\* An effect may move on, if what it has read or told is what its delivery carries.
EffectMoves(g) ==
    \/ steering'[g] = steering[g]
    \/ /\ Live(g) /\ ~Accepted(g)'
       /\ Current = g /\ wake[g].state \in InFlight =>
             /\ steering'[g].stage = "checked" => Carried \subseteq steering'[g].tasks
             /\ steering'[g].stage = "accepting" => Carried \subseteq told'

LEMMA ToldKept ==
    ASSUME ToldInv, UNCHANGED <<task, cohort, wake, active>>, told \subseteq told',
           \A g \in Generations : EffectMoves(g)
    PROVE  ToldInv'
<1>1. Current' = Current /\ Carried' = Carried /\ Open' = Open
  BY DEF Current, Carried, Open
<1>2. Begun' /\ ActiveWake' /\ ClosedOver'
  BY <1>1 DEF ToldInv, Begun, ActiveWake, ClosedOver, EffectMoves, Live
<1>3. CarriedTold'
  BY <1>1 DEF ToldInv, CarriedTold, EffectMoves, Live
<1>4. \A g \in Generations : Accepted(g) => Accepted(g)'
  BY DEF EffectMoves, Live, Accepted
<1>5. DeliveredMeansTold'
  BY <1>4 DEF ToldInv, DeliveredMeansTold
<1> QED BY <1>2, <1>3, <1>5 DEF ToldInv

LEMMA NothingTold ==
    ASSUME ToldInv, UNCHANGED <<task, cohort, wake, steering, active, told>>
    PROVE  ToldInv'
BY ToldKept DEF EffectMoves

LEMMA FinalizeTold ==
    ASSUME TypeOK, QueueInv, ToldInv, NEW t \in Tasks, finalizeAppOwnedSubagentTask(t),
           UNCHANGED <<steering, active, told>>
    PROVE  ToldInv'
<1>1. CASE task[t].result
  <2>1. UNCHANGED <<task, cohort, wake, steering, active, told>>
    BY <1>1 DEF finalizeAppOwnedSubagentTask
  <2> QED BY <2>1, NothingTold
<1>2. CASE ~task[t].result
  <2>1. PICK row : row = [task[t] EXCEPT !.result = TRUE]
    OBVIOUS
  <2>2. row \in TaskRow /\ row.delivery = task[t].delivery
    BY <2>1, TypeParts DEF TaskOK, TaskRow
  <2>3. planDelegatedCompletionDelivery(t, row)
    BY <1>2, <2>1 DEF finalizeAppOwnedSubagentTask
  <2> QED BY <2>2, <2>3, PlanTold
<1> QED BY <1>1, <1>2

\* The end of the current delivery, if what it carried was told.
LEMMA ConcludeTold ==
    ASSUME TypeOK, ToldInv, Current # 0, NEW owed \in SUBSET Tasks,
           NEW outcome \in {"pending", "delivered"}, Conclude(outcome, owed),
           outcome = "delivered" => \A t \in Carried : ToldOrShown(t)',
           UNCHANGED <<wake, active, told>>,
           \A g \in Generations :
              steering'[g] = steering[g] \/ (Live(g) /\ steering'[g].stage = "accepted")
    PROVE  ToldInv'
<1> USE GenerationFacts DEF ToldInv, InFlight
<1>1. Open
  BY DEF ClosedOver
<1>2. \A t \in Tasks : \/ task'[t].delivery = task[t].delivery
                       \/ task'[t].delivery = "claimed"
                       \/ task'[t].delivery = outcome /\ t \in Carried
  BY TypeParts DEF Conclude, TaskOK, TaskRow
<1>6. \A g \in Generations : Accepted(g) => Accepted(g)'
  BY DEF Live, Accepted
<1>3. DeliveredMeansTold'
  BY <1>2, <1>6, ShownKept DEF Shown
<1>4. CASE owed # {}
  <2>1. cohort.next \in Generations /\ cohort' = Reserving(owed)
    BY <1>1, <1>4 DEF Conclude
  <2>2. cohort'.next = cohort.next + 1 /\ Current' = cohort.next /\ Open'
    BY <1>1, <2>1, ReservingFacts
  <2>3. Begun' /\ ActiveWake' /\ ClosedOver'
    BY <2>1, <2>2 DEF Begun, ActiveWake, ClosedOver, Live
  <2>4. CarriedTold'
    BY <2>1, <2>2 DEF Begun, CarriedTold, Queued
  <2> QED BY <1>3, <2>3, <2>4
<1>5. CASE owed = {}
  <2>1. cohort' = [cohort EXCEPT !.delivery = None]
    BY <1>5 DEF Conclude
  <2>2. cohort'.next = cohort.next /\ Current' = 0 /\ Carried' = {} /\ Open'
    BY <1>1, <2>1, TypeParts DEF CohortOK, None, Current, Carried, Open
  <2>3. Begun' /\ ActiveWake' /\ ClosedOver' /\ CarriedTold'
    BY <2>2 DEF Begun, ActiveWake, ClosedOver, CarriedTold, Live
  <2> QED BY <1>3, <2>3
<1> QED BY <1>4, <1>5

LEMMA FinalizeDeliveryTold ==
    ASSUME TypeOK, ToldInv, NEW g, g # Idle, finalizeDelegatedCompletionDelivery(g),
           g \in Generations => wake[g].state \in Over,
           UNCHANGED <<steering, active, told>>
    PROVE  ToldInv'
<1> USE GenerationFacts
<1>1. UNCHANGED wake
  BY DEF finalizeDelegatedCompletionDelivery
<1>2. CASE Current # g
  <2>1. UNCHANGED <<task, cohort>>
    BY <1>2 DEF finalizeDelegatedCompletionDelivery
  <2> QED BY <1>1, <2>1, NothingTold
<1>3. CASE Current = g
  <2> DEFINE cancelled == wake[g].state = "cancelled"
             again == {t \in Carried : cancelled /\ task[t].delivery = "claimed" /\ task[t].result}
             outcome == IF cancelled THEN "pending" ELSE "delivered"
  <2>1. Conclude(outcome, PendingResults \cup again)
    BY <1>3 DEF finalizeDelegatedCompletionDelivery
  <2>2. PendingResults \cup again \in SUBSET Tasks
    BY DEF PendingResults
  <2>3. Current # 0
    BY <1>3 DEF Idle
  <2>4. outcome = "delivered" => \A t \in Carried : ToldOrShown(t)'
    BY <1>1, <1>3, <2>3 DEF ToldInv, CarriedTold, Over, ToldOrShown, Shown
  <2>5. outcome \in {"pending", "delivered"}
    OBVIOUS
  <2> HIDE DEF cancelled, again, outcome
  <2> QED BY <1>1, <2>1, <2>2, <2>3, <2>4, <2>5, ConcludeTold
<1> QED BY <1>2, <1>3

LEMMA DispatchTold ==
    ASSUME TypeOK, QueueInv, ToldInv, NEW g \in Generations, NEW effect,
           dispatchMessage(g, effect), effect \in {steering[g], NoSteer},
           UNCHANGED <<task, cohort>>
    PROVE  ToldInv'
<1> USE GenerationFacts DEF ToldInv, InFlight
<1>1. Open /\ Current = g /\ wake[g].state \in {"none", "missed", "steered"} /\ ~Accepted(g)
  BY DEF dispatchMessage, Dispatchable, isUndeliveredMailboxSteer, QueueInv
<1>2. Current' = Current /\ Carried' = Carried /\ Open' /\ cohort'.next = cohort.next
  BY <1>1 DEF Current, Carried, Open
<1>3. active # g
  BY <1>1 DEF ActiveWake
<1>4. /\ \A h \in Generations \ {g} : wake'[h] = wake[h] /\ steering'[h] = steering[h]
      /\ wake'[g].tasks = Carried
      /\ \/ /\ wake'[g].state = "steered" /\ steering'[g].stage = "pending"
            /\ UNCHANGED <<active, told>>
         \/ /\ wake'[g].state \in Queued
            /\ UNCHANGED <<active, told>>
         \/ /\ wake'[g].state = "active"
            /\ active' = g /\ told' = told \cup Carried
  BY TypeParts
  DEF dispatchMessage, SteerInto, QueueBehind, StartWake, running, WakeOK, SteeringOK, Queued
<1>5. Begun' /\ ActiveWake' /\ ClosedOver'
  BY <1>1, <1>2, <1>3, <1>4 DEF Begun, ActiveWake, ClosedOver, Queued
<1>6. CarriedTold'
  BY <1>1, <1>2, <1>4 DEF CarriedTold, Queued
<1>7. DeliveredMeansTold'
  <2>1. \A h \in Generations, t \in Tasks : Shown(t, h) => h # g
    BY <1>1 DEF Shown, Queued
  <2>2. \A h \in Generations, t \in Tasks : Shown(t, h) => Shown(t, h)'
    BY <1>4, <2>1 DEF Shown, Accepted
  <2> QED BY <1>4, <2>2, ShownKept
<1> QED BY <1>5, <1>6, <1>7

\* The queue moves on: wakes are held or released, and one may start, or fail to.
LEMMA QueueTold ==
    ASSUME TypeOK, QueueInv, ToldInv, NEW wakes, Reordered(wakes),
           UNCHANGED <<task, cohort, steering>>,
           \/ \E g \in Generations : Start(g, wakes)
           \/ /\ active' \in {active, Other} /\ UNCHANGED told
              /\ \/ wake' = wakes
                 \/ \E g \in Generations : /\ wakes[g].state \in Queued
                                           /\ wake' = [wakes EXCEPT ![g].state = "failed"]
    PROVE  ToldInv'
<1> USE GenerationFacts DEF ToldInv, InFlight
<1>1. Current' = Current /\ Carried' = Carried /\ Open' = Open
  BY DEF Current, Carried, Open
<1>2. told \subseteq told' /\ \A g \in Generations :
         /\ wake'[g].tasks = wake[g].tasks
         /\ \/ wake'[g].state = wake[g].state
            \/ wake[g].state \in Queued /\ wake'[g].state \in Queued \cup {"failed"}
            \/ /\ wake[g].state \in Queued /\ wake'[g].state = "active"
               /\ wake[g].tasks \subseteq told'
  BY DEF Reordered, WakeRow, Start, Queued
<1>3. ActiveWake'
  <2>1. CASE active' \in {active, Other}
    BY <1>2, <2>1 DEF ActiveWake, Queued
  <2>2. CASE \E g \in Generations : Start(g, wakes)
    BY <2>2 DEF Start, Reordered, WakeRow, ActiveWake
  <2> QED BY <2>1, <2>2
<1>4. Begun' /\ ClosedOver'
  BY <1>1, <1>2 DEF Begun, ClosedOver, Queued
<1>5. CarriedTold'
  BY <1>1, <1>2 DEF CarriedTold, Queued, Live
<1>6. DeliveredMeansTold'
  BY <1>2, ShownKept DEF Shown, Queued, Accepted
<1> QED BY <1>3, <1>4, <1>5, <1>6

\* The current delivery is given up, and its wake leaves the queue.
LEMMA GivenUpTold ==
    ASSUME TypeOK, QueueInv, ToldInv, NEW wakes, Reordered(wakes), CancelQueued(Current, wakes),
           cohort'.delivery = None, cohort'.next = cohort.next,
           Open' \/ \A t \in Tasks : task'[t].delivery \notin {"claimed", "pending"},
           \A t \in Tasks : task'[t].delivery = "delivered" => task[t].delivery = "delivered",
           UNCHANGED <<steering, active, told>>
    PROVE  ToldInv'
<1> USE GenerationFacts DEF ToldInv
<1>1. Current' = 0 /\ Carried' = {}
  BY DEF Current, Carried, None
<1>2. \A h \in Generations :
         /\ wake'[h].tasks = wake[h].tasks
         /\ \/ wake'[h].state = wake[h].state
            \/ {wake[h].state, wake'[h].state} \subseteq Queued
            \/ h = Current /\ wake[h].state \in Queued /\ wake'[h].state = "cancelled"
  BY DEF CancelQueued, Reordered, WakeRow, Queued
<1>3. Begun' /\ ActiveWake' /\ ClosedOver' /\ CarriedTold'
  BY <1>1, <1>2 DEF Begun, ActiveWake, ClosedOver, CarriedTold, Queued
<1>4. \A h \in Generations, t \in Tasks : Shown(t, h) => Shown(t, h)'
  BY <1>2 DEF Shown, QueueInv, Queued, Accepted
<1>5. DeliveredMeansTold'
  BY <1>4, ShownKept
<1> QED BY <1>3, <1>5

LEMMA DisposeTold ==
    ASSUME TypeOK, QueueInv, ToldInv, NEW disposition \in {"stopped", "disposed"}, NEW kept,
           NEW wakes, Reordered(wakes), disposeCohort(disposition, kept, wakes),
           UNCHANGED <<steering, active, told>>
    PROVE  ToldInv'
<1>1. \A t \in Tasks : \/ task'[t].delivery = task[t].delivery
                       \/ task'[t].delivery = "disposed"
  BY TypeParts DEF disposeCohort, TaskOK, TaskRow
<1>2. CASE kept # {}
  <2>1. UNCHANGED cohort /\ wake' = wakes
    BY <1>2 DEF disposeCohort
  <2>2. Current' = Current /\ Carried' = Carried /\ Open' = Open /\ cohort'.next = cohort.next
    BY <2>1 DEF Current, Carried, Open
  <2>3. \A h \in Generations :
           /\ wake'[h].tasks = wake[h].tasks
           /\ \/ wake'[h].state = wake[h].state
              \/ {wake[h].state, wake'[h].state} \subseteq Queued
    BY <2>1 DEF Reordered
  <2>4. Begun' /\ ActiveWake' /\ ClosedOver'
    BY <1>1, <2>2, <2>3 DEF ToldInv, Begun, ActiveWake, ClosedOver, Queued
  <2>5. CarriedTold'
    BY <2>2, <2>3 DEF ToldInv, CarriedTold, Queued, InFlight, Live
  <2>6. DeliveredMeansTold'
    BY <1>1, <2>3, ShownKept DEF Shown, Queued, Accepted
  <2> QED BY <2>4, <2>5, <2>6 DEF ToldInv
<1>3. CASE kept = {}
  <2>1. /\ CancelQueued(Current, wakes)
        /\ cohort' = [cohort EXCEPT !.delivery = None,
                         !.disposition = IF @ = "disposed" THEN @ ELSE disposition]
    BY <1>3 DEF disposeCohort
  <2>2. cohort'.delivery = None /\ cohort'.next = cohort.next
    BY <2>1, TypeParts DEF CohortOK
  <2>3. \A t \in Tasks : task'[t].delivery \notin {"claimed", "pending"}
    BY <1>3, TypeParts DEF disposeCohort, Unsettled, Settled, TaskOK, TaskRow
  <2> QED BY <1>1, <2>1, <2>2, <2>3, GivenUpTold
<1> QED BY <1>2, <1>3

LEMMA WithdrawTold ==
    ASSUME TypeOK, QueueInv, ToldInv, NEW t \in Tasks,
           NEW state \in {"acknowledged", "disposed"},
           task' = Marked(t, task[t], state), Withdraw(t), UNCHANGED <<steering, active, told>>
    PROVE  ToldInv'
<1> DEFINE remaining == Carried \ {t}
<1> USE GenerationFacts DEF ToldInv, InFlight
<1>1. \A u \in Tasks : task'[u].delivery \in {task[u].delivery, "acknowledged", "disposed"}
  BY TypeParts DEF Marked, TaskOK, TaskRow
<1>2. CASE Current = 0 \/ t \notin Carried
  <2>1. UNCHANGED <<cohort, wake>>
    BY <1>2 DEF Withdraw
  <2> QED BY <1>1, <2>1 DEF Begun, ActiveWake, CarriedTold, ClosedOver, DeliveredMeansTold,
                            Current, Carried, Open, Live, Accepted
<1>3. CASE /\ ~(Current = 0 \/ t \notin Carried)
           /\ remaining = {} /\ wake[Current].state \in Queued \cup {"none"}
  <2>1. cohort' = [cohort EXCEPT !.delivery = None] /\ CancelQueued(Current, wake)
    BY <1>3 DEF Withdraw
  <2>2. cohort'.delivery = None /\ cohort'.next = cohort.next /\ Open' = Open
    BY <2>1, TypeParts DEF CohortOK, Open
  <2>3. Open
    BY <1>3 DEF ClosedOver
  <2> QED BY <1>1, <2>1, <2>2, <2>3, ReorderedWakes, GivenUpTold
<1>4. CASE /\ ~(Current = 0 \/ t \notin Carried)
           /\ ~(remaining = {} /\ wake[Current].state \in Queued \cup {"none"})
  <2>1. /\ cohort' = [cohort EXCEPT !.delivery.tasks = remaining]
        /\ wake' = [wake EXCEPT ![Current].tasks =
                        IF wake[Current].state \in Queued THEN remaining ELSE @]
    BY <1>4 DEF Withdraw
  <2>2. cohort'.next = cohort.next /\ Current' = Current /\ Carried' = remaining /\ Open' = Open
    BY <2>1, TypeParts DEF CohortOK, Current, Carried, Open
  <2>3. /\ \A g \in Generations : wake'[g].state = wake[g].state
        /\ \A g \in Generations : wake[g].state \notin Queued => wake'[g] = wake[g]
        /\ wake[Current].state \in Queued => wake'[Current].tasks = remaining
    BY <1>4, <2>1, TypeParts DEF WakeOK
  <2>4. Begun' /\ ActiveWake' /\ ClosedOver'
    BY <1>1, <1>4, <2>2, <2>3 DEF Begun, ActiveWake, ClosedOver
  <2>5. CarriedTold'
    BY <2>2, <2>3 DEF CarriedTold, Queued, Live
  <2>6. DeliveredMeansTold'
    <3>1. \A h \in Generations, u \in Tasks : Shown(u, h) => wake'[h] = wake[h]
      BY <2>1, <2>3, TypeParts DEF Shown, QueueInv, Queued, WakeOK
    <3> QED BY <1>1, <3>1, ShownKept DEF Shown, Accepted
  <2> QED BY <2>4, <2>5, <2>6
<1> QED BY <1>2, <1>3, <1>4

LEMMA ContinuationTold ==
    ASSUME TypeOK, QueueInv, ToldInv, NEW g \in Generations,
           TakeOffer(g) \/ Dispatch(g) \/ DispatchFails(g)
    PROVE  ToldInv'
<1>1. CASE TakeOffer(g) \/ DispatchFails(g)
  BY <1>1, NothingTold DEF TakeOffer, DispatchFails, rows, running
<1>2. CASE Dispatch(g)
  BY <1>2, DispatchTold DEF Dispatch
<1> QED BY <1>1, <1>2

LEMMA EffectTold ==
    ASSUME TypeOK, QueueInv, ToldInv, NEW g \in Generations,
           \/ SteerChecks(g) \/ SteerHeard(g) \/ SteerTooLate(g)
           \/ dispatchNotificationAccepted(g)
    PROVE  ToldInv'
<1> USE GenerationFacts, StageOf DEF Stages
<1>0. ASSUME NEW effect, Settle(g, effect)
      PROVE  steering'[g] = effect /\ \A h \in Generations \ {g} : steering'[h] = steering[h]
  BY <1>0, TypeParts DEF Settle, SteeringOK
<1>1. CASE SteerChecks(g)
  <2>1. /\ UNCHANGED <<task, cohort, wake, active, told>> /\ Live(g)
        /\ \A h \in Generations \ {g} : steering'[h] = steering[h]
        /\ \/ steering'[g] = [steering[g] EXCEPT !.stage = "checked", !.tasks = wake[g].tasks]
           \/ /\ ~(Open /\ Current = g /\ Carried # {})
              /\ steering'[g] = Stage("accepting")
    BY <1>0, <1>1 DEF SteerChecks, running, Live
  <2>2. steering[g] \in Effect
    BY TypeParts DEF SteeringOK
  <2>3. Current = g /\ wake[g].state \in InFlight => Carried \subseteq wake[g].tasks
    BY DEF ToldInv, CarriedTold
  <2>4. Current = g /\ Carried # {} => Open
    BY DEF ToldInv, ClosedOver
  <2>5. EffectMoves(g)
    BY <2>1, <2>2, <2>3, <2>4 DEF EffectMoves, Effect, Accepted
  <2> QED BY <2>1, <2>5, ToldKept DEF EffectMoves
<1>2. CASE SteerHeard(g)
  <2>1. /\ UNCHANGED <<task, cohort, wake, active>> /\ told' = told \cup steering[g].tasks
        /\ steering[g].stage = "checked" /\ steering'[g] = Stage("accepting")
        /\ \A h \in Generations \ {g} : steering'[h] = steering[h]
    BY <1>0, <1>2 DEF SteerHeard, running
  <2>2. EffectMoves(g)
    BY <2>1 DEF EffectMoves, Live, Accepted, ToldInv, CarriedTold
  <2> QED BY <2>1, <2>2, ToldKept DEF EffectMoves
<1>3. CASE SteerTooLate(g)
  <2>1. CASE FollowUp(g)
    BY <1>3, <2>1, DispatchTold DEF SteerTooLate, FollowUp
  <2>2. CASE SteerFails(g)
    <3>1. /\ UNCHANGED <<task, cohort, wake, active, told>> /\ Live(g)
          /\ steering'[g] = NoSteer
          /\ \A h \in Generations \ {g} : steering'[h] = steering[h]
      BY <1>0, <1>3, <2>2 DEF SteerTooLate, SteerFails, running, Live
    <3> QED BY <3>1, ToldKept DEF EffectMoves, Accepted
  <2> QED BY <1>3, <2>1, <2>2 DEF SteerTooLate
<1>4. CASE dispatchNotificationAccepted(g)
  <2>1. UNCHANGED <<wake, active, told>> /\ steering[g].stage = "accepting"
    BY <1>4 DEF dispatchNotificationAccepted, running
  <2>2. CASE Open /\ Current = g
    <3>1. PICK owed : /\ Conclude("delivered", owed)
                      /\ owed = {t \in PendingResults : SpawnerLives => ~task[t].watched}
      BY <1>4, <2>2 DEF dispatchNotificationAccepted
    <3>2. owed \in SUBSET Tasks
      BY <3>1 DEF PendingResults
    <3>3. /\ steering'[g] = Stage("accepted") /\ Accepted(g)'
          /\ \A h \in Generations \ {g} : steering'[h] = steering[h]
      BY <1>0, <1>4, <2>2 DEF dispatchNotificationAccepted, Accepted
    <3>4. ASSUME NEW t \in Carried
          PROVE  ToldOrShown(t)'
      <4>1. wake[g].state # "none" /\ wake[g].state # "cancelled" /\ wake[g].state \in WakeStates
        BY <2>1, <2>2, TypeParts DEF ToldInv, Begun, CarriedTold, Live, WakeOK
      <4>2. CASE wake[g].state \in {"active", "ended"} \cup InFlight
        BY <2>1, <2>2, <4>2 DEF ToldInv, CarriedTold, ToldOrShown, InFlight
      <4>3. CASE wake[g].state \in Queued \cup {"failed"}
        <5>1. t \in wake'[g].tasks
          BY <2>1, <2>2, <4>3 DEF ToldInv, CarriedTold
        <5> QED BY <2>1, <3>3, <4>3, <5>1 DEF ToldOrShown, Shown
      <4> QED BY <4>1, <4>2, <4>3 DEF WakeStates, InFlight, Queued
    <3>5. Live(g)
      BY <2>1 DEF Live
    <3>6. Current # 0 /\ Carried \subseteq Tasks
      BY <2>2
    <3> QED BY <2>1, <3>1, <3>2, <3>3, <3>4, <3>5, <3>6, ConcludeTold DEF Accepted
  <2>3. CASE ~(Open /\ Current = g)
    <3>1. /\ UNCHANGED <<task, cohort>> /\ steering'[g] = NoSteer
          /\ \A h \in Generations \ {g} : steering'[h] = steering[h]
      BY <1>0, <1>4, <2>3 DEF dispatchNotificationAccepted
    <3> QED BY <2>1, <3>1, ToldKept DEF EffectMoves, Live, Accepted
  <2> QED BY <2>2, <2>3
<1> QED BY <1>1, <1>2, <1>3, <1>4

\* An update is of a child, or names a run.
RunsNamed == \A i \in DOMAIN updates : updates[i].child = {} <=> updates[i].run # Idle

LEMMA UpdateTold ==
    ASSUME TypeOK, QueueInv, RunsNamed, ToldInv, HandleChildUpdate \/ HandleRunUpdate \/ Promote
    PROVE  ToldInv'
<1> USE GenerationFacts, TypeParts
<1>1. CASE HandleChildUpdate
  <2>1. PICK t \in Tasks : IF child[t] = "ended" THEN finalizeAppOwnedSubagentTask(t)
                           ELSE UNCHANGED <<task, cohort, wake, offers>>
    BY <1>1, TakenUpdate DEF HandleChildUpdate, Update
  <2>2. UNCHANGED <<steering, active, told>>
    BY <1>1 DEF HandleChildUpdate, running
  <2> QED BY <2>1, <2>2, FinalizeTold, NothingTold
<1>2. CASE HandleRunUpdate
  <2>1. Head(updates) = updates[1] /\ 1 \in DOMAIN updates
    BY <1>2 DEF HandleRunUpdate, UpdatesOK
  <2>2. /\ Head(updates).run # Idle
        /\ Head(updates).run \in Generations => wake[Head(updates).run].state \in Over
    BY <1>2, <2>1 DEF HandleRunUpdate, RunsNamed, QueueInv
  <2>3. finalizeDelegatedCompletionDelivery(Head(updates).run) /\ UNCHANGED <<steering, active, told>>
    BY <1>2 DEF HandleRunUpdate, running
  <2> QED BY <2>2, <2>3, FinalizeDeliveryTold
<1>3. CASE Promote
  <2>1. UNCHANGED <<task, cohort, steering>>
    BY <1>3 DEF Promote
  <2>2. ASSUME NEW g \in Generations, Start(g, Released)
        PROVE  ToldInv'
    BY <2>1, <2>2, ReorderedWakes, QueueTold
  <2>3. ASSUME NEW g \in QueuedWakes, FailStart(g), UNCHANGED <<running, told>>
        PROVE  ToldInv'
    <3>1. g \in Generations /\ Released[g].state \in Queued
      BY DEF QueuedWakes, Queued
    <3> QED BY <2>1, <2>3, <3>1, ReorderedWakes, QueueTold DEF FailStart, running
  <2>4. ASSUME wake' = Held, UNCHANGED <<running, told>>
        PROVE  ToldInv'
    BY <2>1, <2>4, ReorderedWakes, QueueTold DEF running
  <2>5. CASE UNCHANGED <<wake, running, told>>
    BY <2>1, <2>5, NothingTold DEF running
  <2> QED BY <1>3, <2>2, <2>3, <2>4, <2>5 DEF Promote, QueuedWakes
<1> QED BY <1>1, <1>2, <1>3

LEMMA AgentTold ==
    ASSUME TypeOK, QueueInv, ToldInv, Agents
    PROVE  ToldInv'
<1> USE GenerationFacts, TypeParts
<1>1. CASE TurnCompletes
  BY <1>1, NothingTold DEF TurnCompletes, rows
<1>2. ASSUME NEW outcome \in {"completed", "interrupted", "failed"}, EndRun(outcome)
      PROVE  ToldInv'
  <2>1. /\ UNCHANGED <<task, cohort, told>> /\ active' = Idle
        /\ wake' = WakesAfter /\ steering' = SteeringAfter(outcome)
    BY <1>2 DEF EndRun
  <2>2. \A g \in Generations :
            /\ wake'[g].tasks = wake[g].tasks
            /\ g = active => wake'[g].state = "ended"
            /\ g # active => \/ wake'[g].state = wake[g].state
                             \/ wake[g].state = "steered" /\ wake'[g].state = "missed"
    BY <2>1 DEF WakesAfter, WakeOK
  <2>7. \A g \in Generations :
            steering'[g].stage = steering[g].stage /\ steering'[g].tasks = steering[g].tasks
    BY <2>1 DEF SteeringAfter, SteeringOK, Effect
  <2>3. Current' = Current /\ Carried' = Carried /\ Open' = Open /\ cohort'.next = cohort.next
    BY <2>1 DEF Current, Carried, Open
  <2>4. Begun' /\ ActiveWake' /\ ClosedOver'
    BY <2>1, <2>2, <2>3, <2>7 DEF ToldInv, Begun, ActiveWake, ClosedOver
  <2>5. CarriedTold'
    BY <2>1, <2>2, <2>3, <2>7 DEF ToldInv, ActiveWake, CarriedTold, Queued, InFlight, Live
  <2>6. DeliveredMeansTold'
    <3>1. \A g \in Generations, t \in Tasks : Shown(t, g) => Shown(t, g)'
      BY <2>2, <2>7 DEF ToldInv, ActiveWake, Shown, Queued, Accepted
    <3> QED BY <2>1, <3>1, ShownKept
  <2> QED BY <2>4, <2>5, <2>6 DEF ToldInv
<1>3. ASSUME NEW t \in Tasks, ChildEnds(t)
      PROVE  ToldInv'
  BY <1>3, NothingTold DEF ChildEnds, running
<1>4. ASSUME NEW t \in Tasks, WakeAlways(t)
      PROVE  ToldInv'
  <2>1. UNCHANGED <<steering, active, told>>
    BY <1>4 DEF WakeAlways, running
  <2>2. PICK row : row = [task[t] EXCEPT !.watched = FALSE]
    OBVIOUS
  <2>3. row \in TaskRow /\ row.delivery = task[t].delivery
    BY <2>2 DEF TaskOK, TaskRow
  <2>4. CASE task[t].result /\ active = Spawner
    BY <1>4, <2>1, <2>2, <2>3, <2>4, PlanTold DEF WakeAlways
  <2>5. CASE ~(task[t].result /\ active = Spawner)
    <3>1. UNCHANGED <<cohort, wake>> /\ task' = [task EXCEPT ![t].watched = FALSE]
      BY <1>4, <2>5 DEF WakeAlways
    <3>2. \A u \in Tasks : task'[u].delivery = task[u].delivery
      BY <3>1 DEF TaskOK, TaskRow
    <3> QED BY <2>1, <3>1, <3>2
            DEF ToldInv, Begun, ActiveWake, CarriedTold, ClosedOver, DeliveredMeansTold, Current,
                Carried, Open, Live, Accepted
  <2> QED BY <2>4, <2>5
<1>5. ASSUME NEW t \in Tasks, NEW state \in {"acknowledged", "disposed"}, Resolve(t, state)
      PROVE  ToldInv'
  BY <1>5, WithdrawTold DEF Resolve, running
<1> QED BY <1>1, <1>2, <1>3, <1>4, <1>5 DEF Agents

LEMMA UserTold ==
    ASSUME TypeOK, QueueInv, ToldInv, Users
    PROVE  ToldInv'
<1> USE GenerationFacts, TypeParts
<1>1. ASSUME NEW release \in BOOLEAN, StartOther(release)
      PROVE  ToldInv'
  <2>1. /\ UNCHANGED <<task, cohort, steering, told>> /\ active' = Other
        /\ wake' = IF release THEN Unheld ELSE wake
    BY <1>1 DEF StartOther
  <2> QED BY <2>1, ReorderedWakes, QueueTold
<1>2. ASSUME NEW hold \in BOOLEAN, Stop(hold)
      PROVE  ToldInv'
  <2>1. UNCHANGED <<steering, active, told>>
    BY <1>2 DEF Stop
  <2>2. \/ \E kept : disposeCohort("stopped", kept, Held) \/ disposeCohort("stopped", kept, wake)
        \/ UNCHANGED <<task, cohort, wake>>
    BY <1>2 DEF Stop
  <2> QED BY <2>1, <2>2, ReorderedWakes, DisposeTold, NothingTold
<1>3. CASE ResumeQueue
  <2>1. UNCHANGED <<task, cohort, steering>>
    BY <1>3 DEF ResumeQueue
  <2>2. \/ \E g \in Generations : Start(g, Unheld)
        \/ wake' = Unheld /\ UNCHANGED <<active, told>>
    BY <1>3 DEF ResumeQueue, running
  <2> QED BY <2>1, <2>2, ReorderedWakes, QueueTold
<1>4. ASSUME NEW g \in Generations, CancelWake(g)
      PROVE  ToldInv'
  BY <1>4, ReorderedWakes, DisposeTold DEF CancelWake, running
<1> QED BY <1>1, <1>2, <1>3, <1>4 DEF Users

LEMMA ProcessTold ==
    ASSUME TypeOK, QueueInv, ToldInv, Process
    PROVE  ToldInv'
<1> USE GenerationFacts, TypeParts
<1>1. CASE Crash
  BY <1>1, NothingTold DEF Crash, rows, running
<1>2. ASSUME NEW continued \in SUBSET Tasks, RecoverRuntime(continued)
      PROVE  ToldInv'
  <2>1. /\ UNCHANGED <<task, cohort, told>> /\ active' = Idle
        /\ \A g \in Generations :
              steering'[g] = IF Accepted(g) THEN steering[g] ELSE NoSteer
    BY <1>2 DEF RecoverRuntime, Accepted
  <2>2. \A g \in Generations :
            /\ wake'[g].tasks = wake[g].tasks
            /\ g = active => wake'[g].state = "cancelled"
            /\ g # active => \/ wake'[g].state = wake[g].state
                             \/ wake[g].state = "queued" /\ wake'[g].state = "held"
                             \/ wake[g].state = "steered" /\ wake'[g].state = "missed"
    <3> SUFFICES ASSUME NEW g \in Generations
                 PROVE  /\ wake'[g].tasks = wake[g].tasks
                        /\ g = active => wake'[g].state = "cancelled"
                        /\ g # active =>
                              \/ wake'[g].state = wake[g].state
                              \/ wake[g].state = "queued" /\ wake'[g].state = "held"
                              \/ wake[g].state = "steered" /\ wake'[g].state = "missed"
      OBVIOUS
    <3>1. wake'[g] = CASE g = active -> [wake[g] EXCEPT !.state = "cancelled"]
                       [] wake[g].state = "queued" -> [wake[g] EXCEPT !.state = "held"]
                       [] wake[g].state = "steered" -> [wake[g] EXCEPT !.state = "missed"]
                       [] OTHER -> wake[g]
      BY <1>2 DEF RecoverRuntime
    <3>2. wake[g] \in [state : WakeStates, tasks : SUBSET Tasks]
      BY DEF WakeOK
    <3>3. g = active => wake[g].state = "active"
      BY DEF ToldInv, ActiveWake
    <3>4. CASE g = active
      BY <3>1, <3>2, <3>3, <3>4
    <3>5. CASE g # active
      BY <3>1, <3>2, <3>5
    <3> QED BY <3>4, <3>5
  <2>3. Current' = Current /\ Carried' = Carried /\ Open' = Open /\ cohort'.next = cohort.next
    BY <2>1 DEF Current, Carried, Open
  <2>4. Begun' /\ ActiveWake' /\ ClosedOver'
    BY <2>1, <2>2, <2>3, StageOf DEF ToldInv, Begun, ActiveWake, ClosedOver
  <2>7. \A g \in Generations : ~Live(g)' /\ (Accepted(g) => Accepted(g)')
    BY <2>1, StageOf DEF Live, Accepted
  <2>5. CarriedTold'
    BY <2>1, <2>2, <2>3, <2>7 DEF ToldInv, CarriedTold, Queued, InFlight, Live
  <2>6. DeliveredMeansTold'
    <3>1. \A g \in Generations, t \in Tasks : Shown(t, g) => Shown(t, g)'
      BY <2>2, <2>7 DEF ToldInv, ActiveWake, Shown, Queued
    <3> QED BY <2>1, <3>1, ShownKept
  <2> QED BY <2>4, <2>5, <2>6 DEF ToldInv
<1>3. ASSUME NEW t \in Tasks, RecoverResult(t) \/ recoverDelegatedTask(t)
      PROVE  ToldInv'
  BY <1>3, FinalizeTold DEF RecoverResult, recoverDelegatedTask, running
<1>4. CASE RecoverDeliveries
  <2>1. UNCHANGED <<steering, active, told>>
    BY <1>4 DEF RecoverDeliveries, running
  <2>2. CASE Current # 0 /\ wake[Current].state \in Over
    BY <1>4, <2>1, <2>2, FinalizeDeliveryTold DEF RecoverDeliveries, Over, Idle
  <2>3. CASE ~(Current # 0 /\ wake[Current].state \in Over)
    BY <1>4, <2>1, <2>3, NothingTold DEF RecoverDeliveries, Over
  <2> QED BY <2>2, <2>3
<1>5. ASSUME NEW t \in Tasks, ContinueChild(t)
      PROVE  ToldInv'
  BY <1>5, NothingTold DEF ContinueChild, running
<1> QED BY <1>1, <1>2, <1>3, <1>4, <1>5 DEF Process, Recovery

\* Updates are appended at one place each, and taken in order.
LEMMA CancelNamed ==
    ASSUME TypeOK, RunsNamed, NEW wakes, CancelQueued(Current, wakes) \/ UNCHANGED updates
    PROVE  RunsNamed'
<1>1. CASE UNCHANGED updates
  BY <1>1 DEF RunsNamed
<1>2. CASE ~UNCHANGED updates
  <2>1. updates' = Append(updates, RunUpdate(Current, "cancelled")) /\ Current # 0
    BY <1>2 DEF CancelQueued
  <2> QED BY <2>1, TypeParts DEF RunsNamed, UpdatesOK, RunUpdate, Idle
<1> QED BY <1>1, <1>2

LEMMA NamedStep ==
    ASSUME TypeOK, RunsNamed, [Next]_vars
    PROVE  RunsNamed'
<1> USE TypeParts, GenerationFacts
<1>1. ASSUME UNCHANGED updates
      PROVE  RunsNamed'
  BY <1>1 DEF RunsNamed
<1>2. ASSUME updates # <<>>, updates' = Tail(updates)
      PROVE  RunsNamed'
  BY <1>2 DEF RunsNamed, UpdatesOK
<1>3. ASSUME NEW u \in Update, updates' = Append(updates, u), u.child = {} <=> u.run # Idle
      PROVE  RunsNamed'
  BY <1>3 DEF RunsNamed, UpdatesOK
<1>4. ASSUME NEW disposition, NEW kept, NEW wakes, disposeCohort(disposition, kept, wakes)
      PROVE  RunsNamed'
  BY <1>4, CancelNamed DEF disposeCohort
<1>5. CASE Continuations \/ Effects
  BY <1>1, <1>5
  DEF Continuations, Effects, TakeOffer, Dispatch, DispatchFails, SteerChecks, SteerHeard,
      SteerTooLate, dispatchNotificationAccepted, StartTurn, memory
<1>6. CASE Updates
  <2>1. CASE HandleChildUpdate \/ HandleRunUpdate
    BY <1>2, <2>1 DEF HandleChildUpdate, HandleRunUpdate
  <2>2. ASSUME NEW g \in Generations, FailStart(g)
        PROVE  RunsNamed'
    <3>1. /\ RunUpdate(g, "failed") \in Update
          /\ RunUpdate(g, "failed").child = {} /\ RunUpdate(g, "failed").run # Idle
      BY DEF RunUpdate, Update, Runs, Outcomes
    <3> QED BY <1>3, <2>2, <3>1 DEF FailStart
  <2> QED BY <1>1, <1>6, <2>1, <2>2 DEF Updates, Promote, QueuedWakes
<1>7. CASE Agents
  <2>1. ASSUME NEW outcome \in {"completed", "interrupted", "failed"}, EndRun(outcome)
        PROVE  RunsNamed'
    <3>1. /\ RunUpdate(active, outcome) \in Update
          /\ RunUpdate(active, outcome).child = {} /\ RunUpdate(active, outcome).run # Idle
      BY <2>1 DEF RunUpdate, Update, EndRun, RunningOK, Outcomes
    <3> QED BY <1>3, <2>1, <3>1 DEF EndRun
  <2>2. ASSUME NEW t \in Tasks, ChildEnds(t)
        PROVE  RunsNamed'
    <3> DEFINE u == [child |-> {t}, run |-> Idle, outcome |-> "completed"]
    <3>1. u \in Update /\ u.child # {} /\ u.run = Idle
      BY DEF Update, Outcomes
    <3> QED BY <1>3, <2>2, <3>1 DEF ChildEnds
  <2>3. ASSUME NEW t \in Tasks, NEW state, Resolve(t, state)
        PROVE  RunsNamed'
    BY <1>1, <2>3, CancelNamed DEF Resolve, Withdraw
  <2> QED BY <1>1, <1>7, <2>1, <2>2, <2>3 DEF Agents, TurnCompletes, WakeAlways, memory
<1>8. CASE Users
  BY <1>1, <1>4, <1>8 DEF Users, StartOther, Stop, ResumeQueue, CancelWake, memory
<1>9. CASE Process
  <2>1. CASE Crash
    BY <2>1 DEF Crash, RunsNamed
  <2> QED BY <1>1, <1>9, <2>1
          DEF Process, Recovery, RecoverRuntime, RecoverResult, RecoverDeliveries, ContinueChild,
              recoverDelegatedTask, memory
<1>10. CASE UNCHANGED vars
  BY <1>1, <1>10 DEF vars, memory
<1> QED BY <1>5, <1>6, <1>7, <1>8, <1>9, <1>10 DEF Next

LEMMA ToldStep ==
    ASSUME TypeOK, QueueInv, RunsNamed, ToldInv, [Next]_vars
    PROVE  ToldInv'
<1>1. CASE UNCHANGED vars
  BY <1>1, NothingTold DEF vars, rows, running
<1>2. CASE Continuations \/ Effects \/ Updates
  <2>1. CASE StartTurn
    BY <2>1, NothingTold DEF StartTurn, rows
  <2> QED BY <1>2, <2>1, ContinuationTold, EffectTold, UpdateTold
          DEF Continuations, Effects, Updates
<1> QED BY <1>1, <1>2, AgentTold, UserTold, ProcessTold DEF Next

LEMMA ToldInvariant == Spec => [](RunsNamed /\ ToldInv)
<1>1. Init => RunsNamed /\ ToldInv
  BY GenerationFacts
  DEF Init, RunsNamed, ToldInv, Begun, ActiveWake, CarriedTold, ClosedOver, DeliveredMeansTold,
      Current, Carried, None, NoSteer, Open, Spawner, Generations
<1>2. TypeOK /\ QueueInv /\ RunsNamed /\ ToldInv /\ [Next]_vars => (RunsNamed /\ ToldInv)'
  BY NamedStep, ToldStep
<1> QED BY <1>1, <1>2, DelegationTypes, QueueInvariant, PTL DEF Spec

\* A result counts as delivered only if a run of the parent was given it, or the run that
\* should have been failed to start, or it joined a wake that is still in the queue when its
\* steering was accepted: for every set of tasks, and whatever users, agents and restarts do,
\* those that cut a steer short or withdraw what is being steered included.
THEOREM DeliveredWasTold == Spec => []DeliveredMeansTold
<1>1. ToldInv => DeliveredMeansTold
  BY DEF ToldInv
<1> QED BY <1>1, ToldInvariant, PTL

-----------------------------------------------------------------------------
(***************************************************************************)
(* Nothing is stranded, as long as no turn is cut short while a delivery   *)
(* is steered into it, no follow-up of a late one is refused, and no agent *)
(* withdraws the last result of a delivery that is under way.              *)
(***************************************************************************)
Undisturbed == ~CutShort /\ ~Overlapping

Owing(t) == task[t].delivery \in {"claimed", "pending"}

\* What is owed has its result, and is carried by the current delivery or waits for its end.
OwedRight ==
    \A t \in Tasks : Owing(t) =>
        /\ task[t].result /\ Current # 0
        /\ task[t].delivery = "claimed" => t \in Carried
        /\ task[t].delivery = "pending" =>
              /\ wake[Current].state # "none"
              /\ task[t].watched => ~SpawnerLives

Loaded ==
    \A g \in Generations :
        /\ Current = g
        /\ wake[g].state \in Queued \cup {"none", "steered", "missed"}
        => Carried # {}

\* What is to be told is told in the run it was steered into, or too late.
NoneCutShort ==
    \A g \in Generations : steering[g].stage \in {"pending", "checked"} =>
        /\ steering[g].target \in {"live", "late"}
        /\ wake[g].state = "steered" => steering[g].target = "live"

Asked(g) == g \in offers \cup {dispatching}
Ending == {updates[i].run : i \in DOMAIN updates}

\* The queue will be looked at: a run is active, is being ended, or has just been.
QueueMoves == active # Idle \/ promoting # "no" \/ Ending \ {Idle} # {}

\* What moves delivery g on, by how far it is.
Moving(g) ==
    /\ wake[g].state = "none" /\ phase = "up" => Asked(g)
    /\ wake[g].state = "queued" /\ phase # "down" => QueueMoves
    /\ wake[g].state = "steered" /\ phase # "down" => Live(g)
    /\ wake[g].state = "missed" /\ phase = "up" => Live(g) \/ Asked(g)
    /\ wake[g].state \in Over /\ phase = "up" => g \in Ending

OnTheMove == \A g \in Generations : (Current = g) => Moving(g)

StrandInv == OwedRight /\ Loaded /\ NoneCutShort /\ OnTheMove

\* The spawner does not come back.
LEMMA SpawnerDies ==
    ASSUME TypeOK, [Next]_vars
    PROVE  SpawnerLives' => SpawnerLives
<1> USE DEF SpawnerLives
<1>1. CASE UNCHANGED running
  BY <1>1 DEF running
<1>2. ASSUME active' # Spawner
      PROVE  SpawnerLives' => SpawnerLives
  BY <1>2
<1>3. \A g \in Generations : g # Spawner
  BY GenerationFacts
<1>4. ASSUME NEW g \in Generations, NEW effect, dispatchMessage(g, effect)
      PROVE  SpawnerLives' => SpawnerLives
  BY <1>1, <1>3, <1>4 DEF dispatchMessage, SteerInto, QueueBehind, StartWake
<1>5. ASSUME NEW g \in Generations, NEW wakes, Start(g, wakes)
      PROVE  SpawnerLives' => SpawnerLives
  BY <1>3, <1>5 DEF Start
<1>6. CASE Continuations \/ Effects
  <2>1. CASE StartTurn
    BY <2>1 DEF StartTurn
  <2> QED BY <1>1, <1>4, <1>6, <2>1
          DEF Continuations, Effects, TakeOffer, Dispatch, DispatchFails, SteerChecks, SteerHeard,
              SteerTooLate, FollowUp, SteerFails, dispatchNotificationAccepted
<1>7. CASE Updates
  BY <1>1, <1>5, <1>7 DEF Updates, HandleChildUpdate, HandleRunUpdate, Promote, QueuedWakes
<1>8. CASE Agents
  <2>1. CASE TurnCompletes
    BY <2>1 DEF TurnCompletes
  <2>2. ASSUME NEW outcome, EndRun(outcome)
        PROVE  SpawnerLives' => SpawnerLives
    BY <2>2 DEF EndRun
  <2> QED BY <1>1, <1>8, <2>1, <2>2 DEF Agents, ChildEnds, WakeAlways, Resolve
<1>9. CASE Users
  <2>1. ASSUME NEW release, StartOther(release)
        PROVE  SpawnerLives' => SpawnerLives
    BY <2>1 DEF StartOther, Other, Spawner
  <2>2. ASSUME NEW hold, Stop(hold)
        PROVE  SpawnerLives' => SpawnerLives
    BY <2>2 DEF Stop
  <2> QED BY <1>1, <1>5, <1>9, <2>1, <2>2 DEF Users, ResumeQueue, CancelWake
<1>10. CASE Process
  <2>1. ASSUME NEW continued, RecoverRuntime(continued)
        PROVE  SpawnerLives' => SpawnerLives
    BY <2>1 DEF RecoverRuntime
  <2> QED BY <1>1, <1>10, <2>1
          DEF Process, Recovery, Crash, RecoverResult, RecoverDeliveries, ContinueChild,
              recoverDelegatedTask
<1> QED BY <1>1, <1>6, <1>7, <1>8, <1>9, <1>10 DEF Next, vars

\* A step that leaves the delivery where it is.
LEMMA MovingKept ==
    ASSUME NEW g \in Generations, Moving(g), wake'[g].state = wake[g].state,
           phase' = phase,
           Asked(g) /\ wake[g].state \in {"none", "missed"} => Asked(g)',
           wake[g].state \in InFlight /\ Live(g) => Live(g)',
           QueueMoves /\ wake[g].state = "queued" => QueueMoves',
           g \in Ending => g \in Ending'
    PROVE  Moving(g)'
BY DEF Moving, Over, InFlight

LEMMA OfferedNow ==
    ASSUME Open', NEW g \in Generations, Current' = g, wake'[g].state = "none", Carried' # {}
    PROVE  g \in Offerable'
BY DEF Offerable, Dispatchable, Current, Open, Carried

LEMMA NewOnTheMove ==
    ASSUME NEW g \in Generations, Current' = g, wake'[g].state = "none", g \in offers'
    PROVE  OnTheMove'
BY DEF OnTheMove, Moving, Asked, Over

\* A step that leaves the delivery, its wake and what it carries where they are.
LEMMA StrandKept ==
    ASSUME StrandInv, TypeOK, UNCHANGED <<cohort, wake, phase>>, SpawnerLives' => SpawnerLives,
           \A t \in Tasks :
              /\ Owing(t)' => Owing(t) /\ task'[t].delivery = task[t].delivery
              /\ task[t].result => task'[t].result
              /\ task'[t].watched => task[t].watched,
           NoneCutShort',
           \A g \in Generations : (Current = g) =>
              /\ Asked(g) /\ wake[g].state \in {"none", "missed"} => Asked(g)'
              /\ wake[g].state \in InFlight /\ Live(g) => Live(g)'
              /\ QueueMoves /\ wake[g].state = "queued" => QueueMoves'
              /\ g \in Ending => g \in Ending'
    PROVE  StrandInv'
<1>1. Current' = Current /\ Carried' = Carried
  BY DEF Current, Carried
<1>2. OwedRight'
  BY <1>1 DEF StrandInv, OwedRight, Owing
<1>3. Loaded'
  BY <1>1 DEF StrandInv, Loaded
<1>4. OnTheMove'
  BY <1>1, MovingKept DEF StrandInv, OnTheMove
<1> QED BY <1>2, <1>3, <1>4 DEF StrandInv

LEMMA PlanStrand ==
    ASSUME TypeOK, QueueInv, ToldInv, StrandInv, NEW t \in Tasks, NEW row \in TaskRow,
           row.delivery = task[t].delivery, row.result, row.watched => task[t].watched,
           planDelegatedCompletionDelivery(t, row),
           UNCHANGED <<steering, active, turn, phase, promoting, dispatching>>,
           offers \subseteq offers', cohort' # cohort => Offerable' \subseteq offers',
           Ending \ {Idle} \subseteq Ending'
    PROVE  StrandInv'
<1> USE GenerationFacts
<1>1. \A u \in Tasks \ {t} : \A state : Marked(t, row, state)[u] = task[u]
  BY TypeParts DEF Marked, TaskOK
<1>2. \A state : /\ Marked(t, row, state)[t].delivery = state
                 /\ Marked(t, row, state)[t].result = row.result
                 /\ Marked(t, row, state)[t].watched = row.watched
  BY TypeParts DEF Marked, TaskOK, TaskRow
<1>3. /\ SpawnerLives' = SpawnerLives
      /\ \A g \in Generations : Asked(g) => Asked(g)'
      /\ QueueMoves => QueueMoves'
      /\ \A g \in Generations : g \in Ending => g \in Ending'
  BY DEF SpawnerLives, Asked, QueueMoves
<1>8. \A g \in Generations : Live(g)' = Live(g)
  BY DEF Live
<1>4. CASE PlanNothing(t, row)
  <2>1. UNCHANGED <<cohort, wake>>
    BY <1>4 DEF PlanNothing
  <2>2. \A u \in Tasks : \/ task'[u].delivery = task[u].delivery
                         \/ task'[u].delivery = "disposed"
    BY <1>1, <1>2, <1>4 DEF PlanNothing
  <2>3. \A u \in Tasks : /\ task[u].result => task'[u].result
                         /\ task'[u].watched => task[u].watched
    <3>1. PICK state : task' = Marked(t, row, state)
      BY <1>4 DEF PlanNothing
    <3> QED BY <1>1, <1>2, <3>1
  <2>4. NoneCutShort'
    BY <2>1 DEF StrandInv, NoneCutShort
  <2> QED BY <1>3, <1>8, <2>1, <2>2, <2>3, <2>4, StrandKept DEF Owing
<1>5. CASE Open /\ ReserveDelivery(t, row)
  <2>1. /\ UNCHANGED wake /\ task' = Marked(t, row, "claimed") /\ cohort' = Reserving({t})
        /\ cohort.next \in Generations /\ Current = 0
    BY <1>5 DEF ReserveDelivery
  <2>2. cohort'.next = cohort.next + 1 /\ Current' = cohort.next /\ Open' /\ Carried' = {t}
    BY <1>5, <2>1, ReservingFacts
  <2>3. OwedRight'
    BY <1>1, <1>2, <2>1, <2>2 DEF StrandInv, OwedRight, Owing
  <2>4. Loaded' /\ NoneCutShort'
    BY <2>1, <2>2 DEF StrandInv, Loaded, NoneCutShort
  <2>5. PICK g \in Generations : g = cohort.next
    BY <2>1
  <2>6. Current' = g /\ wake'[g].state = "none" /\ cohort' # cohort
    BY <2>1, <2>2, <2>5 DEF ToldInv, Begun
  <2>7. g \in offers'
    BY <2>2, <2>6, OfferedNow
  <2>8. OnTheMove'
    BY <2>6, <2>7, NewOnTheMove
  <2> QED BY <2>3, <2>4, <2>8 DEF StrandInv
<1>6. CASE Open /\ JoinDelivery(t, row)
  <2>1. /\ task' = Marked(t, row, "claimed") /\ cohort' = Joined(t) /\ Current # 0
        /\ wake' = [wake EXCEPT ![Current].tasks =
                       IF wake[Current].state = "none" THEN @ ELSE Carried \cup {t}]
    BY <1>6 DEF JoinDelivery
  <2>2. Current' = Current /\ Carried' = Carried \cup {t}
    BY <1>6, <2>1, TypeParts DEF Joined, CohortOK, Current, Carried
  <2>3. \A g \in Generations : wake'[g].state = wake[g].state
    BY <2>1, TypeParts DEF WakeOK
  <2>4. OwedRight'
    BY <1>1, <1>2, <1>3, <2>1, <2>2, <2>3 DEF StrandInv, OwedRight, Owing
  <2>5. Loaded' /\ NoneCutShort'
    BY <2>2, <2>3 DEF StrandInv, Loaded, NoneCutShort
  <2>6. OnTheMove'
    BY <1>3, <1>8, <2>2, <2>3, MovingKept DEF StrandInv, OnTheMove
  <2> QED BY <2>4, <2>5, <2>6 DEF StrandInv
<1>7. CASE Open /\ WaitForDelivery(t, row) /\ ~AwaitsBlockingWait(row)
  <2>1. /\ UNCHANGED <<cohort, wake>> /\ task' = Marked(t, row, "pending")
        /\ Current # 0 /\ wake[Current].state # "none"
    BY <1>7 DEF WaitForDelivery
  <2>2. Current' = Current /\ Carried' = Carried
    BY <2>1 DEF Current, Carried
  <2>3. OwedRight'
    BY <1>1, <1>2, <1>3, <1>7, <2>1, <2>2 DEF StrandInv, OwedRight, Owing, AwaitsBlockingWait
  <2>4. Loaded' /\ NoneCutShort'
    BY <2>1, <2>2 DEF StrandInv, Loaded, NoneCutShort
  <2>5. OnTheMove'
    BY <1>3, <1>8, <2>1, <2>2, MovingKept DEF StrandInv, OnTheMove
  <2> QED BY <2>3, <2>4, <2>5 DEF StrandInv
<1> QED BY <1>4, <1>5, <1>6, <1>7 DEF planDelegatedCompletionDelivery

LEMMA FinalizeStrand ==
    ASSUME TypeOK, QueueInv, ToldInv, StrandInv, NEW t \in Tasks, finalizeAppOwnedSubagentTask(t),
           UNCHANGED <<steering, active, turn, phase, promoting, dispatching>>,
           Ending \ {Idle} \subseteq Ending'
    PROVE  StrandInv'
<1>1. CASE task[t].result
  <2>1. UNCHANGED <<task, cohort, wake, offers>>
    BY <1>1 DEF finalizeAppOwnedSubagentTask
  <2>2. NoneCutShort'
    BY <2>1 DEF StrandInv, NoneCutShort
  <2>3. SpawnerLives' = SpawnerLives /\ (QueueMoves => QueueMoves')
    BY DEF SpawnerLives, QueueMoves
  <2>4. \A g \in Generations : (Asked(g) => Asked(g)') /\ (g \in Ending => g \in Ending')
    BY <2>1, GenerationFacts DEF Asked
  <2> QED BY <2>1, <2>2, <2>3, <2>4, StrandKept DEF Owing, Live
<1>2. CASE ~task[t].result
  <2>1. PICK row : row = [task[t] EXCEPT !.result = TRUE]
    OBVIOUS
  <2>2. /\ row \in TaskRow /\ row.delivery = task[t].delivery
        /\ row.result /\ row.watched = task[t].watched
    BY <2>1, TypeParts DEF TaskOK, TaskRow
  <2>3. /\ planDelegatedCompletionDelivery(t, row)
        /\ offers \subseteq offers' /\ (cohort' # cohort => Offerable' \subseteq offers')
    BY <1>2, <2>1 DEF finalizeAppOwnedSubagentTask
  <2> QED BY <2>2, <2>3, PlanStrand
<1> QED BY <1>1, <1>2

LEMMA ConcludeStrand ==
    ASSUME TypeOK, ToldInv, StrandInv, Current # 0, NEW owed \in SUBSET Tasks,
           NEW outcome \in {"pending", "delivered"}, Conclude(outcome, owed),
           \A t \in Tasks : /\ task[t].delivery = "pending" => t \in owed
                            /\ task[t].delivery = "claimed" /\ outcome = "pending" => t \in owed
                            /\ t \in owed => task[t].result,
           UNCHANGED wake, cohort' # cohort => Offerable' \subseteq offers',
           \A g \in Generations :
              steering'[g] = steering[g] \/ steering'[g].stage \notin {"pending", "checked"}
    PROVE  StrandInv'
<1> USE GenerationFacts
<1>1. Open
  BY DEF ToldInv, ClosedOver
<1>2. \A t \in Tasks : /\ task'[t].result = task[t].result
                       /\ Owing(t)' => t \in owed /\ task'[t].delivery = "claimed"
  BY <1>1, TypeParts DEF StrandInv, OwedRight, Owing, Conclude, TaskOK, TaskRow
<1>3. NoneCutShort'
  BY DEF StrandInv, NoneCutShort
<1>4. CASE owed # {}
  <2>1. cohort.next \in Generations /\ cohort' = Reserving(owed)
    BY <1>1, <1>4 DEF Conclude
  <2>2. Current' = cohort.next /\ Open' /\ Carried' = owed /\ cohort'.next = cohort.next + 1
    BY <1>1, <2>1, ReservingFacts
  <2>3. PICK g \in Generations : g = cohort.next
    BY <2>1
  <2>4. Current' = g /\ wake'[g].state = "none" /\ cohort' # cohort
    BY <2>2, <2>3 DEF ToldInv, Begun
  <2>5. OwedRight'
    BY <1>2, <2>2, <2>4 DEF OwedRight, Owing
  <2>6. Loaded'
    BY <1>4, <2>2 DEF Loaded
  <2>7. g \in offers'
    BY <1>4, <2>2, <2>4, OfferedNow
  <2>8. OnTheMove'
    BY <2>4, <2>7, NewOnTheMove
  <2> QED BY <1>3, <2>5, <2>6, <2>8 DEF StrandInv
<1>5. CASE owed = {}
  <2>1. cohort' = [cohort EXCEPT !.delivery = None]
    BY <1>5 DEF Conclude
  <2>2. Current' = 0
    BY <2>1, TypeParts DEF CohortOK, None, Current
  <2>3. OwedRight' /\ Loaded' /\ OnTheMove'
    BY <1>2, <1>5, <2>2 DEF OwedRight, Loaded, OnTheMove
  <2> QED BY <1>3, <2>3 DEF StrandInv
<1> QED BY <1>4, <1>5

\* A delivery that was given up owes nothing.
LEMMA GivenUpStrand ==
    ASSUME TypeOK, StrandInv, NEW wakes, Reordered(wakes), CancelQueued(Current, wakes),
           cohort'.delivery = None, \A t \in Tasks : ~Owing(t)', UNCHANGED steering
    PROVE  StrandInv'
<1>1. Current' = 0
  BY DEF Current, None
<1>2. \A h \in Generations : wake'[h].state \in {wake[h].state, "cancelled"} \cup Queued
  BY GenerationFacts DEF CancelQueued, Reordered, WakeRow
<1>3. NoneCutShort'
  BY <1>2 DEF StrandInv, NoneCutShort, Queued
<1>4. OwedRight' /\ Loaded' /\ OnTheMove'
  BY <1>1, GenerationFacts DEF OwedRight, Loaded, OnTheMove
<1> QED BY <1>3, <1>4 DEF StrandInv

LEMMA DisposeStrand ==
    ASSUME TypeOK, StrandInv, NEW disposition \in {"stopped", "disposed"}, NEW kept,
           NEW wakes, Reordered(wakes), kept # {} => wakes = wake,
           disposeCohort(disposition, kept, wakes), SpawnerLives' => SpawnerLives,
           UNCHANGED <<steering, active, phase, promoting, offers, dispatching>>
    PROVE  StrandInv'
<1> USE GenerationFacts
<1>1. \A t \in Tasks : /\ task'[t].delivery \in {task[t].delivery, "disposed"}
                       /\ task'[t].result = task[t].result
                       /\ task'[t].watched = task[t].watched
  BY TypeParts DEF disposeCohort, TaskOK, TaskRow
<1>2. CASE kept # {}
  <2>1. UNCHANGED <<cohort, wake, updates>>
    BY <1>2 DEF disposeCohort
  <2>2. NoneCutShort'
    BY <2>1 DEF StrandInv, NoneCutShort
  <2>3. \A g \in Generations : (Asked(g) => Asked(g)') /\ (g \in Ending => g \in Ending')
    BY <2>1 DEF Asked, Ending
  <2>4. QueueMoves => QueueMoves'
    BY <2>1 DEF QueueMoves, Ending
  <2> QED BY <1>1, <2>1, <2>2, <2>3, <2>4, StrandKept DEF Owing, Live
<1>3. CASE kept = {}
  <2>1. /\ CancelQueued(Current, wakes)
        /\ cohort' = [cohort EXCEPT !.delivery = None,
                         !.disposition = IF @ = "disposed" THEN @ ELSE disposition]
    BY <1>3 DEF disposeCohort
  <2>2. cohort'.delivery = None
    BY <2>1, TypeParts DEF CohortOK
  <2>3. \A t \in Tasks : ~Owing(t)'
    BY <1>3, TypeParts DEF disposeCohort, Unsettled, Settled, TaskOK, TaskRow, Owing
  <2> QED BY <2>1, <2>2, <2>3, GivenUpStrand
<1> QED BY <1>2, <1>3

\* An agent takes a result out of the current delivery.
LEMMA WithdrawStrand ==
    ASSUME TypeOK, ToldInv, StrandInv, NEW t \in Tasks,
           NEW state \in {"acknowledged", "disposed"}, task' = Marked(t, task[t], state),
           Withdraw(t), ~(Carried = {t} /\ Overlaps(Current)),
           UNCHANGED <<steering, running, phase, promoting, offers, dispatching>>
    PROVE  StrandInv'
<1> DEFINE remaining == Carried \ {t}
<1> USE GenerationFacts
<1>1. /\ \A u \in Tasks \ {t} : task'[u] = task[u]
      /\ task'[t].delivery = state /\ task'[t].watched = task[t].watched
      /\ task'[t].result = task[t].result
  BY TypeParts DEF Marked, TaskOK, TaskRow
<1>2. ~Owing(t)'
  BY <1>1 DEF Owing
<1>3. SpawnerLives' = SpawnerLives /\ \A g \in Generations : Asked(g)' = Asked(g)
  BY DEF running, SpawnerLives, Asked
<1>4. CASE Current = 0 \/ t \notin Carried
  <2>1. UNCHANGED <<cohort, wake, updates>>
    BY <1>4 DEF Withdraw
  <2>2. NoneCutShort'
    BY <2>1 DEF StrandInv, NoneCutShort
  <2>3. /\ \A g \in Generations : g \in Ending => g \in Ending'
        /\ QueueMoves => QueueMoves'
    BY <2>1 DEF Ending, QueueMoves, running
  <2> QED BY <1>1, <1>2, <1>3, <2>1, <2>2, <2>3, StrandKept DEF Owing, Live
<1>5. CASE /\ ~(Current = 0 \/ t \notin Carried)
           /\ remaining = {} /\ wake[Current].state \in Queued \cup {"none"}
  <2>1. cohort' = [cohort EXCEPT !.delivery = None] /\ CancelQueued(Current, wake)
    BY <1>5 DEF Withdraw
  <2>2. cohort'.delivery = None
    BY <2>1, TypeParts DEF CohortOK
  <2>3. Carried = {t}
    BY <1>5
  <2>4. ASSUME NEW u \in Tasks \ {t}, Owing(u)
        PROVE  FALSE
    <3>1. task[u].delivery = "pending" /\ task[u].result /\ wake[Current].state # "none"
      BY <2>3, <2>4 DEF StrandInv, OwedRight, Owing
    <3>2. u \in PendingResults
      BY <3>1 DEF PendingResults
    <3> QED BY <1>5, <2>3, <3>1, <3>2 DEF Overlaps
  <2>5. \A u \in Tasks : ~Owing(u)'
    BY <1>1, <1>2, <2>4 DEF Owing
  <2> QED BY <2>1, <2>2, <2>5, ReorderedWakes, GivenUpStrand
<1>6. CASE /\ ~(Current = 0 \/ t \notin Carried)
           /\ ~(remaining = {} /\ wake[Current].state \in Queued \cup {"none"})
  <2>1. /\ cohort' = [cohort EXCEPT !.delivery.tasks = remaining]
        /\ wake' = [wake EXCEPT ![Current].tasks =
                        IF wake[Current].state \in Queued THEN remaining ELSE @]
        /\ UNCHANGED updates
    BY <1>6 DEF Withdraw
  <2>2. Current' = Current /\ Carried' = remaining
    BY <2>1, TypeParts DEF CohortOK, Current, Carried
  <2>3. \A g \in Generations : wake'[g].state = wake[g].state
    BY <1>6, <2>1, TypeParts DEF WakeOK
  <2>4. OwedRight'
    BY <1>1, <1>2, <1>3, <1>6, <2>2, <2>3 DEF StrandInv, OwedRight, Owing
  <2>5. NoneCutShort'
    BY <2>3 DEF StrandInv, NoneCutShort
  <2>6. Loaded'
    <3>1. remaining = {} => Carried = {t}
      BY <1>6
    <3> QED BY <1>6, <2>2, <2>3, <3>1 DEF StrandInv, Loaded, Overlaps
  <2>7. /\ \A g \in Generations : g \in Ending => g \in Ending'
        /\ QueueMoves => QueueMoves'
    BY <2>1 DEF Ending, QueueMoves, running
  <2>8. OnTheMove'
    BY <1>3, <2>2, <2>3, <2>7, MovingKept DEF StrandInv, OnTheMove, Live
  <2> QED BY <2>4, <2>5, <2>6, <2>8 DEF StrandInv
<1> QED BY <1>4, <1>5, <1>6

\* The current delivery keeps what it carries and moves on.
LEMMA MovedOn ==
    ASSUME TypeOK, StrandInv, UNCHANGED <<task, cohort>>, SpawnerLives' => SpawnerLives,
           NoneCutShort', NEW g \in Generations, Current = g,
           wake[g].state # "none" => wake'[g].state # "none",
           Loaded', Moving(g)'
    PROVE  StrandInv'
<1>1. Current' = Current /\ Carried' = Carried
  BY DEF Current, Carried
<1>2. OwedRight'
  BY <1>1 DEF StrandInv, OwedRight, Owing
<1>3. OnTheMove'
  BY <1>1 DEF OnTheMove
<1> QED BY <1>2, <1>3 DEF StrandInv

LEMMA DispatchStrand ==
    ASSUME TypeOK, StrandInv, NEW g \in Generations, NEW effect, dispatchMessage(g, effect),
           effect \in {steering[g], NoSteer}, UNCHANGED <<task, cohort>>,
           SpawnerLives' => SpawnerLives
    PROVE  StrandInv'
<1> USE GenerationFacts
<1>1. Current = g /\ wake[g].state \in {"none", "missed", "steered"}
  BY DEF dispatchMessage, Dispatchable, isUndeliveredMailboxSteer
<1>2. Current' = Current /\ Carried' = Carried
  BY DEF Current, Carried
<1>3. /\ \A h \in Generations \ {g} : wake'[h] = wake[h] /\ steering'[h] = steering[h]
      /\ \/ /\ wake'[g].state = "steered"
            /\ steering'[g].stage = "pending" /\ steering'[g].target = "live"
         \/ /\ \/ wake'[g].state = "queued" /\ active' # Idle
               \/ wake'[g].state \in {"held", "active"}
            /\ steering'[g] = effect
  BY TypeParts DEF dispatchMessage, SteerInto, QueueBehind, StartWake, running, WakeOK, SteeringOK
<1>4. NoneCutShort'
  BY <1>3, StageOf DEF StrandInv, NoneCutShort
<1>5. Loaded'
  BY <1>1, <1>2 DEF StrandInv, Loaded
<1>6. Moving(g)'
  BY <1>3 DEF Moving, QueueMoves, Over, Live
<1> QED BY <1>1, <1>3, <1>4, <1>5, <1>6, MovedOn

\* The queue moves on: wakes are held or released, and one may start, or fail to.
LEMMA QueueStrand ==
    ASSUME TypeOK, StrandInv, NEW wakes, Reordered(wakes), UNCHANGED <<task, cohort, steering, phase>>,
           SpawnerLives' => SpawnerLives,
           \A h \in Generations : (Asked(h) => Asked(h)') /\ (h \in Ending => h \in Ending'),
           \/ \E h \in Generations : Start(h, wakes)
           \/ \E h \in Generations : /\ wakes[h].state \in Queued /\ h \in Ending'
                                     /\ wake' = [wakes EXCEPT ![h].state = "failed"]
           \/ wake' = Held
           \/ wake' = wakes /\ active' # Idle
    PROVE  StrandInv'
<1> USE GenerationFacts
<1>1. Current' = Current /\ Carried' = Carried
  BY DEF Current, Carried
<1>2. \A h \in Generations :
         /\ \/ wake'[h].state = wake[h].state
            \/ /\ wake[h].state \in Queued
               /\ wake'[h].state \in Queued \cup {"active", "failed"}
         /\ wake'[h].state = "queued" => QueueMoves'
         /\ wake'[h].state = "failed" => wake[h].state = "failed" \/ h \in Ending'
  <2> SUFFICES ASSUME NEW h \in Generations
               PROVE  /\ \/ wake'[h].state = wake[h].state
                         \/ /\ wake[h].state \in Queued
                            /\ wake'[h].state \in Queued \cup {"active", "failed"}
                      /\ wake'[h].state = "queued" => QueueMoves'
                      /\ wake'[h].state = "failed" => wake[h].state = "failed" \/ h \in Ending'
    OBVIOUS
  <2>1. CASE \E k \in Generations : Start(k, wakes)
    BY <2>1 DEF Start, Reordered, WakeRow, Queued, QueueMoves
  <2>2. ASSUME NEW k \in Generations, wakes[k].state \in Queued, k \in Ending',
               wake' = [wakes EXCEPT ![k].state = "failed"]
        PROVE  /\ \/ wake'[h].state = wake[h].state
                  \/ /\ wake[h].state \in Queued
                     /\ wake'[h].state \in Queued \cup {"active", "failed"}
               /\ wake'[h].state = "queued" => QueueMoves'
               /\ wake'[h].state = "failed" => wake[h].state = "failed" \/ h \in Ending'
    BY <2>2 DEF Reordered, WakeRow, Queued, QueueMoves
  <2>3. CASE wake' = Held
    BY <2>3, TypeParts DEF Held, WakeOK, Queued
  <2>4. CASE wake' = wakes /\ active' # Idle
    BY <2>4 DEF Reordered, Queued, QueueMoves
  <2> QED BY <2>1, <2>2, <2>3, <2>4
<1>3. NoneCutShort'
  BY <1>2 DEF StrandInv, NoneCutShort, Queued
<1>4. Loaded'
  BY <1>1, <1>2 DEF StrandInv, Loaded, Queued
<1>5. OwedRight'
  BY <1>1, <1>2 DEF StrandInv, OwedRight, Owing, Queued
<1>6. OnTheMove'
  BY <1>1, <1>2 DEF StrandInv, OnTheMove, Moving, Over, Queued, Live
<1> QED BY <1>3, <1>4, <1>5, <1>6 DEF StrandInv

\* The end of a delivery, the current one or an earlier one.
LEMMA FinalizeDeliveryStrand ==
    ASSUME TypeOK, ToldInv, StrandInv, NEW g, g # Idle, finalizeDelegatedCompletionDelivery(g),
           cohort' # cohort => Offerable' \subseteq offers',
           Current # g => /\ UNCHANGED <<running, phase>>
                          /\ \A h \in Generations : Asked(h) => Asked(h)'
                          /\ QueueMoves => QueueMoves'
                          /\ \A h \in Generations \ {g} : h \in Ending => h \in Ending',
           UNCHANGED steering
    PROVE  StrandInv'
<1> USE GenerationFacts
<1>1. UNCHANGED wake
  BY DEF finalizeDelegatedCompletionDelivery
<1>2. CASE Current # g
  <2>1. UNCHANGED <<task, cohort>>
    BY <1>2 DEF finalizeDelegatedCompletionDelivery
  <2>2. NoneCutShort'
    BY <1>1 DEF StrandInv, NoneCutShort
  <2>3. SpawnerLives' = SpawnerLives
    BY <1>2 DEF SpawnerLives, running
  <2> QED BY <1>1, <1>2, <2>1, <2>2, <2>3, StrandKept DEF Owing, Live
<1>3. CASE Current = g
  <2> DEFINE cancelled == wake[g].state = "cancelled"
             again == {t \in Carried : cancelled /\ task[t].delivery = "claimed" /\ task[t].result}
             outcome == IF cancelled THEN "pending" ELSE "delivered"
             owed == PendingResults \cup again
  <2>1. Conclude(outcome, owed)
    BY <1>3 DEF finalizeDelegatedCompletionDelivery
  <2>2. owed \in SUBSET Tasks /\ outcome \in {"pending", "delivered"}
    BY DEF PendingResults
  <2>3. Current # 0
    BY <1>3 DEF Idle
  <2>4. \A t \in Tasks : /\ task[t].delivery = "pending" => t \in owed
                         /\ task[t].delivery = "claimed" /\ outcome = "pending" => t \in owed
                         /\ t \in owed => task[t].result
    BY DEF StrandInv, OwedRight, Owing, PendingResults
  <2>5. \A h \in Generations : steering'[h] = steering[h]
    OBVIOUS
  <2> HIDE DEF cancelled, again, outcome, owed
  <2> QED BY <1>1, <2>1, <2>2, <2>3, <2>4, <2>5, ConcludeStrand
<1> QED BY <1>2, <1>3

LEMMA ContinuationStrand ==
    ASSUME TypeOK, ToldInv, StrandInv, SpawnerLives' => SpawnerLives, NEW g \in Generations,
           TakeOffer(g) \/ Dispatch(g) \/ DispatchFails(g)
    PROVE  StrandInv'
<1> USE GenerationFacts
<1>1. ASSUME UNCHANGED <<rows, running, updates, promoting, phase>>,
             \A h \in Generations : (Current = h) =>
                 (Asked(h) /\ wake[h].state \in {"none", "missed"} => Asked(h)')
      PROVE  StrandInv'
  <2>1. NoneCutShort'
    BY <1>1 DEF StrandInv, NoneCutShort, rows
  <2>2. QueueMoves' = QueueMoves /\ Ending' = Ending
    BY <1>1 DEF QueueMoves, Ending, running
  <2> QED BY <1>1, <2>1, <2>2, StrandKept DEF rows, running, Owing, Live
<1>2. CASE TakeOffer(g)
  <2>1. /\ dispatching = Idle /\ offers' = offers \ {g}
        /\ dispatching' = IF Dispatchable(g) THEN g ELSE Idle
        /\ UNCHANGED <<rows, running, updates, promoting, phase>>
    BY <1>2 DEF TakeOffer
  <2>2. (Current = g /\ wake[g].state \in {"none", "missed"}) => Dispatchable(g)
    BY DEF ToldInv, ClosedOver, Dispatchable, isUndeliveredMailboxSteer
  <2> QED BY <1>1, <2>1, <2>2 DEF Asked
<1>3. CASE DispatchFails(g)
  BY <1>1, <1>3 DEF DispatchFails, Asked
<1>4. CASE Dispatch(g)
  BY <1>4, DispatchStrand DEF Dispatch
<1> QED BY <1>2, <1>3, <1>4

LEMMA EffectStrand ==
    ASSUME Undisturbed, TypeOK, ToldInv, StrandInv, SpawnerLives' => SpawnerLives,
           NEW g \in Generations,
           \/ SteerChecks(g) \/ SteerHeard(g) \/ SteerTooLate(g)
           \/ dispatchNotificationAccepted(g)
    PROVE  StrandInv'
<1> USE GenerationFacts
<1>0. ASSUME NEW effect, Settle(g, effect)
      PROVE  steering'[g] = effect /\ \A h \in Generations \ {g} : steering'[h] = steering[h]
  BY <1>0, TypeParts DEF Settle, SteeringOK
<1>1. ASSUME UNCHANGED <<task, cohort, wake, running, memory, phase>>,
             NEW effect, Settle(g, effect),
             effect.stage \in {"pending", "checked"} =>
                 steering[g].stage = "pending" /\ effect.target = steering[g].target,
             Current = g /\ wake[g].state \in InFlight =>
                 effect.stage \in {"pending", "checked", "accepting"}
      PROVE  StrandInv'
  <2>1. steering'[g] = effect /\ \A h \in Generations \ {g} : steering'[h] = steering[h]
    BY <1>0, <1>1
  <2>2. NoneCutShort'
    BY <1>1, <2>1 DEF StrandInv, NoneCutShort
  <2>3. QueueMoves' = QueueMoves /\ Ending' = Ending /\ \A h \in Generations : Asked(h)' = Asked(h)
    BY <1>1 DEF QueueMoves, Ending, Asked, running, memory
  <2>4. \A h \in Generations : Current = h /\ wake[h].state \in InFlight /\ Live(h) => Live(h)'
    BY <1>1, <2>1 DEF Live
  <2> QED BY <1>1, <2>2, <2>3, <2>4, StrandKept DEF Owing
<1>2. CASE SteerChecks(g)
  <2>1. PICK effect :
            /\ Settle(g, effect) /\ steering[g].stage = "pending"
            /\ UNCHANGED <<task, cohort, wake, running, memory, phase>>
            /\ \/ effect = [steering[g] EXCEPT !.stage = "checked", !.tasks = wake[g].tasks]
               \/ effect = Stage("accepting")
    BY <1>2 DEF SteerChecks
  <2>2. /\ effect.stage = "checked" => effect.target = steering[g].target
        /\ effect.stage \in {"checked", "accepting"}
    BY <2>1, StageOf, TypeParts DEF SteeringOK, Effect, Stages
  <2> QED BY <1>1, <2>1, <2>2
<1>3. CASE SteerHeard(g)
  BY <1>1, <1>3, StageOf DEF SteerHeard, Stages
<1>4. CASE SteerTooLate(g)
  <2>1. CASE FollowUp(g)
    BY <1>4, <2>1, DispatchStrand DEF SteerTooLate, FollowUp
  <2>2. CASE SteerFails(g)
    <3>1. steering[g].stage = "checked" /\ TargetCompleted(g) /\ ~Dispatchable(g)
      BY <1>4, <2>2 DEF SteerTooLate, SteerFails, StrandInv, NoneCutShort, Undisturbed
    <3>2. ~(Current = g /\ wake[g].state \in InFlight)
      BY <3>1
      DEF Dispatchable, isUndeliveredMailboxSteer, TargetCompleted, InFlight, ToldInv, ClosedOver,
          StrandInv, NoneCutShort
    <3>3. /\ UNCHANGED <<task, cohort, wake, running, memory, phase>>
          /\ Settle(g, NoSteer)
      BY <1>4, <2>2 DEF SteerTooLate, SteerFails
    <3> QED BY <1>1, <3>2, <3>3, StageOf
  <2> QED BY <1>4, <2>1, <2>2 DEF SteerTooLate
<1>5. CASE dispatchNotificationAccepted(g)
  <2>1. /\ UNCHANGED <<wake, running, dispatching, updates, promoting, phase>>
        /\ offers' = offers \cup Offerable'
    BY <1>5 DEF dispatchNotificationAccepted
  <2>2. /\ \A h \in Generations \ {g} : steering'[h] = steering[h]
        /\ steering'[g].stage \in {"accepted", "none"}
    BY <1>0, <1>5, StageOf DEF dispatchNotificationAccepted, Stages
  <2>3. CASE Open /\ Current = g
    <3>1. PICK owed : /\ Conclude("delivered", owed)
                      /\ owed = {t \in PendingResults : SpawnerLives => ~task[t].watched}
      BY <1>5, <2>3 DEF dispatchNotificationAccepted
    <3>2. owed \in SUBSET Tasks /\ Current # 0
      BY <2>3, <3>1 DEF PendingResults
    <3>3. \A t \in Tasks : /\ task[t].delivery = "pending" => t \in owed
                           /\ t \in owed => task[t].result
      BY <3>1 DEF StrandInv, OwedRight, Owing, PendingResults
    <3>4. \A h \in Generations :
              steering'[h] = steering[h] \/ steering'[h].stage \notin {"pending", "checked"}
      BY <2>2
    <3> QED BY <2>1, <3>1, <3>2, <3>3, <3>4, ConcludeStrand
  <2>4. CASE ~(Open /\ Current = g)
    <3>1. UNCHANGED <<task, cohort>>
      BY <1>5, <2>4 DEF dispatchNotificationAccepted
    <3>2. Current # g
      BY <2>4 DEF ToldInv, ClosedOver
    <3>3. NoneCutShort'
      BY <2>1, <2>2 DEF StrandInv, NoneCutShort
    <3>4. /\ QueueMoves' = QueueMoves /\ Ending' = Ending
          /\ \A h \in Generations : Asked(h) => Asked(h)'
      BY <2>1 DEF QueueMoves, Ending, Asked, running
    <3>5. \A h \in Generations : Current = h /\ Live(h) => Live(h)'
      BY <2>2, <3>2 DEF Live
    <3> QED BY <2>1, <3>1, <3>3, <3>4, <3>5, StrandKept DEF Owing
  <2> QED BY <2>3, <2>4
<1> QED BY <1>2, <1>3, <1>4, <1>5

LEMMA EndingTail ==
    ASSUME TypeOK, updates # <<>>, updates' = Tail(updates)
    PROVE  /\ Head(updates) = updates[1] /\ 1 \in DOMAIN updates
           /\ Ending \ {Head(updates).run} \subseteq Ending'
<1>1. /\ Head(updates) = updates[1] /\ Len(updates) \in Nat \ {0}
      /\ DOMAIN updates = 1..Len(updates) /\ DOMAIN updates' = 1..(Len(updates) - 1)
      /\ \A i \in 1..(Len(updates) - 1) : updates'[i] = updates[i + 1]
  BY TypeParts DEF UpdatesOK
<1>2. ASSUME NEW i \in DOMAIN updates, i # 1
      PROVE  updates[i].run \in Ending'
  <2>1. i - 1 \in DOMAIN updates' /\ updates'[i - 1] = updates[i]
    BY <1>1, <1>2
  <2> QED BY <2>1 DEF Ending
<1>3. ASSUME NEW r \in Ending \ {Head(updates).run}
      PROVE  r \in Ending'
  BY <1>1, <1>2, <1>3 DEF Ending
<1> QED BY <1>1, <1>3

LEMMA EndingAppend ==
    ASSUME TypeOK, NEW u, updates' = Append(updates, u)
    PROVE  u.run \in Ending' /\ Ending \subseteq Ending'
<1>1. /\ Len(updates) \in Nat
      /\ DOMAIN updates = 1..Len(updates) /\ DOMAIN updates' = 1..(Len(updates) + 1)
      /\ updates'[Len(updates) + 1] = u
      /\ \A i \in DOMAIN updates : updates'[i] = updates[i]
  BY TypeParts DEF UpdatesOK
<1>2. Len(updates) + 1 \in DOMAIN updates' /\ DOMAIN updates \subseteq DOMAIN updates'
  BY <1>1
<1> QED BY <1>1, <1>2 DEF Ending

LEMMA UpdateStrand ==
    ASSUME TypeOK, QueueInv, RunsNamed, ToldInv, StrandInv, SpawnerLives' => SpawnerLives,
           HandleChildUpdate \/ HandleRunUpdate \/ Promote
    PROVE  StrandInv'
<1> USE GenerationFacts
<1>1. CASE HandleChildUpdate
  <2>1. /\ updates # <<>> /\ updates' = Tail(updates)
        /\ UNCHANGED <<steering, active, turn, phase, promoting, dispatching>>
    BY <1>1 DEF HandleChildUpdate, running
  <2>2. PICK t \in Tasks : /\ t \in Head(updates).child
                           /\ IF child[t] = "ended" THEN finalizeAppOwnedSubagentTask(t)
                              ELSE UNCHANGED <<task, cohort, wake, offers>>
    BY <1>1, TypeParts, TakenUpdate DEF HandleChildUpdate, Update
  <2>3. Head(updates).run = Idle
    BY <2>1, <2>2, EndingTail DEF RunsNamed
  <2>4. Ending \ {Idle} \subseteq Ending'
    BY <2>1, <2>3, EndingTail
  <2>5. CASE finalizeAppOwnedSubagentTask(t)
    BY <2>1, <2>4, <2>5, FinalizeStrand
  <2>6. CASE UNCHANGED <<task, cohort, wake, offers>>
    <3>1. NoneCutShort'
      BY <2>1, <2>6 DEF StrandInv, NoneCutShort
    <3>2. /\ QueueMoves => QueueMoves'
          /\ \A g \in Generations : (Asked(g) => Asked(g)') /\ (g \in Ending => g \in Ending')
      BY <2>1, <2>4, <2>6 DEF QueueMoves, Asked
    <3> QED BY <2>1, <2>6, <3>1, <3>2, StrandKept DEF Owing, Live
  <2> QED BY <2>2, <2>5, <2>6
<1>2. CASE HandleRunUpdate
  <2>1. /\ updates # <<>> /\ updates' = Tail(updates) /\ promoting' = Head(updates).outcome
        /\ UNCHANGED <<steering, running, phase, dispatching>>
        /\ finalizeDelegatedCompletionDelivery(Head(updates).run)
        /\ offers' = IF cohort' = cohort THEN offers ELSE offers \cup Offerable'
    BY <1>2 DEF HandleRunUpdate
  <2>2. Head(updates).run # Idle /\ promoting' # "no"
    <3>1. Head(updates) \in Update /\ Head(updates).run # Idle
      BY <1>2, <2>1, EndingTail, TypeParts DEF HandleRunUpdate, RunsNamed, UpdatesOK
    <3> QED BY <2>1, <3>1 DEF Update, Outcomes
  <2>3. /\ QueueMoves'
        /\ \A h \in Generations \ {Head(updates).run} : h \in Ending => h \in Ending'
        /\ \A h \in Generations : Asked(h) => Asked(h)'
    BY <2>1, <2>2, EndingTail DEF QueueMoves, Asked
  <2> QED BY <2>1, <2>2, <2>3, FinalizeDeliveryStrand
<1>3. CASE Promote
  <2>1. UNCHANGED <<task, cohort, steering, offers, dispatching, phase>>
    BY <1>3 DEF Promote
  <2>2. ASSUME UNCHANGED updates
        PROVE  \A h \in Generations : (Asked(h) => Asked(h)') /\ (h \in Ending => h \in Ending')
    BY <2>1, <2>2 DEF Asked, Ending
  <2>3. ASSUME NEW g \in Generations, Start(g, Released), UNCHANGED updates
        PROVE  StrandInv'
    BY <2>1, <2>2, <2>3, ReorderedWakes, QueueStrand
  <2>4. ASSUME NEW g \in QueuedWakes, FailStart(g)
        PROVE  StrandInv'
    <3>1. g \in Generations /\ Released[g].state \in Queued
      BY DEF QueuedWakes, Queued
    <3>2. g \in Ending' /\ Ending \subseteq Ending' /\ wake' = [Released EXCEPT ![g].state = "failed"]
      BY <2>4, EndingAppend DEF FailStart, RunUpdate
    <3>3. \A h \in Generations : (Asked(h) => Asked(h)') /\ (h \in Ending => h \in Ending')
      BY <2>1, <3>2 DEF Asked
    <3> QED BY <2>1, <3>1, <3>2, <3>3, ReorderedWakes, QueueStrand
  <2>5. ASSUME wake' = Held, UNCHANGED updates
        PROVE  StrandInv'
    BY <2>1, <2>2, <2>5, ReorderedWakes, QueueStrand
  <2>6. CASE /\ active # Idle \/ QueuedWakes = {}
             /\ UNCHANGED <<wake, running, told, updates, faults>>
    <3>1. NoneCutShort'
      BY <2>1, <2>6 DEF StrandInv, NoneCutShort
    <3>2. \A g \in Generations : wake[g].state = "queued" => QueueMoves'
      BY <2>6, TypeParts DEF QueuedWakes, Released, Unheld, WakeOK, QueueMoves, running
    <3> QED BY <2>1, <2>2, <2>6, <3>1, <3>2, StrandKept DEF Owing, Live
  <2> QED BY <1>3, <2>3, <2>4, <2>5, <2>6 DEF Promote, QueuedWakes
<1> QED BY <1>1, <1>2, <1>3

LEMMA AgentStrand ==
    ASSUME Undisturbed, TypeOK, QueueInv, ToldInv, StrandInv, SpawnerLives' => SpawnerLives, Agents
    PROVE  StrandInv'
<1> USE GenerationFacts, TypeParts
<1>1. CASE TurnCompletes
  <2>1. UNCHANGED <<rows, active, memory, phase>>
    BY <1>1 DEF TurnCompletes
  <2>2. NoneCutShort' /\ QueueMoves' = QueueMoves /\ Ending' = Ending
    BY <2>1 DEF StrandInv, NoneCutShort, QueueMoves, Ending, rows, memory
  <2> QED BY <2>1, <2>2, StrandKept DEF rows, memory, Owing, Asked, Live
<1>2. ASSUME NEW outcome \in {"completed", "interrupted", "failed"}, EndRun(outcome)
      PROVE  StrandInv'
  <2>1. /\ UNCHANGED <<task, cohort, phase>> /\ active' = Idle /\ active # Idle
        /\ wake' = WakesAfter /\ steering' = SteeringAfter(outcome) /\ phase = "up"
        /\ updates' = Append(updates, RunUpdate(active, outcome))
        /\ outcome # "completed" => ~BeingSteered
    BY <1>2 DEF EndRun, Undisturbed
  <2>2. \A g \in Generations :
            /\ g = active => wake'[g].state = "ended"
            /\ g # active /\ wake[g].state # "steered" => wake'[g].state = wake[g].state
            /\ g # active /\ wake[g].state = "steered" =>
                  wake'[g].state = "missed"
    BY <2>1 DEF WakesAfter, WakeOK
  <2>9. \A g \in Generations :
            /\ steering'[g].stage = steering[g].stage
            /\ steering[g].target \in {"live", "late"} => steering'[g].target = "late"
    BY <2>1, TypeParts DEF SteeringAfter, SteeringOK, Effect, BeingSteered
  <2>3. Current' = Current /\ Carried' = Carried
    BY <2>1 DEF Current, Carried
  <2>4. active \in Ending' /\ QueueMoves' /\ ~SpawnerLives'
    BY <2>1, EndingAppend DEF QueueMoves, RunUpdate, SpawnerLives, Idle, Spawner
  <2>5. OwedRight'
    BY <2>1, <2>2, <2>3, <2>4 DEF StrandInv, OwedRight, Owing, ToldInv, ActiveWake
  <2>6. Loaded'
    BY <2>2, <2>3 DEF StrandInv, Loaded, Queued
  <2>7. NoneCutShort'
    BY <2>1, <2>2, <2>9 DEF StrandInv, NoneCutShort, ToldInv, ActiveWake
  <2>8. ASSUME NEW g \in Generations, Current = g
        PROVE  Moving(g)'
    <3>1. Moving(g) /\ (g \in Ending => g \in Ending') /\ Asked(g)' = Asked(g)
      BY <1>2, <2>1, <2>8, EndingAppend DEF StrandInv, OnTheMove, EndRun, Asked
    <3> QED BY <2>1, <2>2, <2>4, <2>9, <3>1 DEF Moving, Over, Live
  <2> QED BY <2>3, <2>5, <2>6, <2>7, <2>8 DEF StrandInv, OnTheMove
<1>3. ASSUME NEW t \in Tasks, ChildEnds(t)
      PROVE  StrandInv'
  <2>1. /\ UNCHANGED <<task, cohort, wake, steering, active, offers, dispatching, promoting, phase>>
        /\ Ending \subseteq Ending'
    BY <1>3, EndingAppend DEF ChildEnds, running
  <2>2. NoneCutShort' /\ (QueueMoves => QueueMoves')
    BY <2>1 DEF StrandInv, NoneCutShort, QueueMoves
  <2> QED BY <2>1, <2>2, StrandKept DEF Owing, Asked, Live
<1>4. ASSUME NEW t \in Tasks, WakeAlways(t)
      PROVE  StrandInv'
  <2>1. /\ UNCHANGED <<steering, active, turn, phase, promoting, dispatching, updates>>
        /\ offers' = offers \cup Offerable'
    BY <1>4 DEF WakeAlways, running
  <2>2. PICK row : row = [task[t] EXCEPT !.watched = FALSE]
    OBVIOUS
  <2>3. /\ row \in TaskRow /\ row.delivery = task[t].delivery
        /\ row.result = task[t].result /\ ~row.watched
    BY <2>2 DEF TaskOK, TaskRow
  <2>4. Ending' = Ending
    BY <2>1 DEF Ending
  <2>5. CASE task[t].result /\ active = Spawner
    BY <1>4, <2>1, <2>2, <2>3, <2>4, <2>5, PlanStrand DEF WakeAlways
  <2>6. CASE ~(task[t].result /\ active = Spawner)
    <3>1. UNCHANGED <<cohort, wake>> /\ task' = [task EXCEPT ![t].watched = FALSE]
      BY <1>4, <2>6 DEF WakeAlways
    <3>2. \A u \in Tasks : /\ task'[u].delivery = task[u].delivery
                           /\ task'[u].result = task[u].result
                           /\ task'[u].watched => task[u].watched
      BY <3>1 DEF TaskOK, TaskRow
    <3>3. NoneCutShort' /\ (QueueMoves => QueueMoves')
      BY <2>1, <2>4, <3>1 DEF StrandInv, NoneCutShort, QueueMoves
    <3> QED BY <2>1, <2>4, <3>1, <3>2, <3>3, StrandKept DEF Owing, Asked, Live
  <2> QED BY <2>5, <2>6
<1>5. ASSUME NEW t \in Tasks, NEW state \in {"acknowledged", "disposed"}, Resolve(t, state)
      PROVE  StrandInv'
  BY <1>5, WithdrawStrand DEF Resolve, Undisturbed
<1> QED BY <1>1, <1>2, <1>3, <1>4, <1>5 DEF Agents

LEMMA UserStrand ==
    ASSUME TypeOK, QueueInv, ToldInv, StrandInv, SpawnerLives' => SpawnerLives, Users
    PROVE  StrandInv'
<1> USE GenerationFacts, TypeParts
<1>1. ASSUME NEW release \in BOOLEAN, StartOther(release)
      PROVE  StrandInv'
  <2>1. /\ UNCHANGED <<task, cohort, steering, memory, phase>> /\ active' = Other
        /\ wake' = IF release THEN Unheld ELSE wake
    BY <1>1 DEF StartOther
  <2>2. \A h \in Generations : (Asked(h) => Asked(h)') /\ (h \in Ending => h \in Ending')
    BY <2>1 DEF Asked, Ending, memory
  <2>3. active' # Idle
    BY <2>1 DEF Idle, Other
  <2> QED BY <2>1, <2>2, <2>3, ReorderedWakes, QueueStrand
<1>2. ASSUME NEW hold \in BOOLEAN, Stop(hold)
      PROVE  StrandInv'
  <2>1. UNCHANGED <<steering, active, phase, promoting, offers, dispatching>>
    BY <1>2 DEF Stop
  <2>2. CASE \/ \E kept : disposeCohort("stopped", kept, wake)
             \/ disposeCohort("stopped", {}, Held)
    BY <2>1, <2>2, ReorderedWakes, DisposeStrand
  <2>3. CASE UNCHANGED <<task, cohort, wake, updates>>
    <3>1. NoneCutShort' /\ QueueMoves' = QueueMoves /\ Ending' = Ending
      BY <2>1, <2>3 DEF StrandInv, NoneCutShort, QueueMoves, Ending
    <3> QED BY <2>1, <2>3, <3>1, StrandKept DEF Owing, Asked, Live
  <2> QED BY <1>2, <2>2, <2>3 DEF Stop
<1>3. CASE ResumeQueue
  <2>1. UNCHANGED <<task, cohort, steering, memory, phase>>
    BY <1>3 DEF ResumeQueue
  <2>2. \A h \in Generations : (Asked(h) => Asked(h)') /\ (h \in Ending => h \in Ending')
    BY <2>1 DEF Asked, Ending, memory
  <2>3. \/ \E g \in Generations : Start(g, Unheld)
        \/ wake' = Unheld /\ active' # Idle
    BY <1>3 DEF ResumeQueue, running
  <2> QED BY <2>1, <2>2, <2>3, ReorderedWakes, QueueStrand
<1>4. ASSUME NEW g \in Generations, CancelWake(g)
      PROVE  StrandInv'
  BY <1>4, ReorderedWakes, DisposeStrand DEF CancelWake, running
<1> QED BY <1>1, <1>2, <1>3, <1>4 DEF Users

LEMMA ProcessStrand ==
    ASSUME TypeOK, QueueInv, ToldInv, StrandInv, SpawnerLives' => SpawnerLives, Process
    PROVE  StrandInv'
<1> USE GenerationFacts, TypeParts
<1>1. CASE Crash
  <2>1. UNCHANGED <<rows, running>> /\ phase' = "down"
    BY <1>1 DEF Crash
  <2>2. OwedRight' /\ Loaded' /\ NoneCutShort'
    BY <2>1
    DEF StrandInv, OwedRight, Loaded, NoneCutShort, rows, Owing, Current, Carried
  <2>3. OnTheMove'
    BY <2>1 DEF OnTheMove, Moving
  <2> QED BY <2>2, <2>3 DEF StrandInv
<1>2. ASSUME NEW continued \in SUBSET Tasks, RecoverRuntime(continued)
      PROVE  StrandInv'
  <2>1. /\ UNCHANGED <<task, cohort>> /\ active' = Idle /\ phase' = "results"
        /\ \A g \in Generations : steering'[g].stage \in {"none", "accepted"}
    BY <1>2, StageOf DEF RecoverRuntime
  <2>2. \A g \in Generations :
            /\ wake'[g].state \notin {"queued", "steered"}
            /\ wake'[g].state = "none" => wake[g].state = "none"
            /\ wake'[g].state \in {"missed", "held"} =>
                  wake[g].state \in Queued \cup {"steered", "missed"}
    <3> SUFFICES ASSUME NEW g \in Generations
                 PROVE  /\ wake'[g].state \notin {"queued", "steered"}
                        /\ wake'[g].state = "none" => wake[g].state = "none"
                        /\ wake'[g].state \in {"missed", "held"} =>
                              wake[g].state \in Queued \cup {"steered", "missed"}
      OBVIOUS
    <3>1. wake'[g] = CASE g = active -> [wake[g] EXCEPT !.state = "cancelled"]
                       [] wake[g].state = "queued" -> [wake[g] EXCEPT !.state = "held"]
                       [] wake[g].state = "steered" -> [wake[g] EXCEPT !.state = "missed"]
                       [] OTHER -> wake[g]
      BY <1>2 DEF RecoverRuntime
    <3>2. wake[g] \in [state : WakeStates, tasks : SUBSET Tasks]
      BY DEF WakeOK
    <3>3. g = active => wake[g].state = "active"
      BY DEF ToldInv, ActiveWake
    <3>4. CASE g = active
      BY <3>1, <3>2, <3>3, <3>4
    <3>5. CASE g # active
      BY <3>1, <3>2, <3>5 DEF Queued
    <3> QED BY <3>4, <3>5
  <2>3. Current' = Current /\ Carried' = Carried /\ ~SpawnerLives'
    BY <2>1 DEF Current, Carried, SpawnerLives, Idle, Spawner
  <2>4. OwedRight'
    BY <2>1, <2>2, <2>3 DEF StrandInv, OwedRight, Owing
  <2>5. Loaded'
    BY <2>2, <2>3 DEF StrandInv, Loaded, Queued
  <2>6. NoneCutShort'
    BY <2>1 DEF NoneCutShort
  <2>7. OnTheMove'
    BY <2>1, <2>2 DEF OnTheMove, Moving
  <2> QED BY <2>4, <2>5, <2>6, <2>7 DEF StrandInv
<1>3. ASSUME NEW t \in Tasks, RecoverResult(t) \/ recoverDelegatedTask(t)
      PROVE  StrandInv'
  <2>1. /\ finalizeAppOwnedSubagentTask(t)
        /\ UNCHANGED <<steering, active, turn, phase, promoting, dispatching, updates>>
    BY <1>3 DEF RecoverResult, recoverDelegatedTask, running
  <2>2. Ending \ {Idle} \subseteq Ending'
    BY <2>1 DEF Ending
  <2> QED BY <2>1, <2>2, FinalizeStrand
<1>4. CASE RecoverDeliveries
  <2>1. /\ UNCHANGED <<steering, running, dispatching, updates, promoting>>
        /\ offers' = offers \cup Offerable' /\ phase = "results" /\ phase' = "up"
    BY <1>4 DEF RecoverDeliveries
  <2>2. CASE Current # 0 /\ wake[Current].state \in Over
    <3>1. finalizeDelegatedCompletionDelivery(Current)
      BY <1>4, <2>2 DEF RecoverDeliveries, Over
    <3> QED BY <2>1, <2>2, <3>1, FinalizeDeliveryStrand DEF Idle
  <2>3. CASE ~(Current # 0 /\ wake[Current].state \in Over)
    <3>1. UNCHANGED <<task, cohort, wake>>
      BY <1>4, <2>3 DEF RecoverDeliveries, Over
    <3>2. Current' = Current /\ Carried' = Carried /\ Open' = Open
      BY <3>1 DEF Current, Carried, Open
    <3>3. OwedRight' /\ Loaded' /\ NoneCutShort'
      BY <2>1, <3>1, <3>2
      DEF StrandInv, OwedRight, Loaded, NoneCutShort, Owing, SpawnerLives, running
    <3>4. ASSUME NEW g \in Generations, Current = g
          PROVE  Moving(g)'
      <4>1. Open /\ Moving(g)
        BY <3>4 DEF ToldInv, ClosedOver, StrandInv, OnTheMove
      <4>2. wake[g].state \in {"none", "missed"} => g \in Offerable'
        BY <3>1, <3>2, <3>4, <4>1
        DEF Offerable, Dispatchable, isUndeliveredMailboxSteer, StrandInv, Loaded
      <4>3. QueueMoves' = QueueMoves
        BY <2>1 DEF QueueMoves, Ending, running
      <4> QED BY <2>1, <2>3, <3>1, <3>4, <4>1, <4>2, <4>3 DEF Moving, Asked, Live
    <3> QED BY <3>2, <3>3, <3>4 DEF StrandInv, OnTheMove
  <2> QED BY <2>2, <2>3
<1>5. ASSUME NEW t \in Tasks, ContinueChild(t)
      PROVE  StrandInv'
  <2>1. UNCHANGED <<task, cohort, wake, steering, running, memory, phase>>
    BY <1>5 DEF ContinueChild
  <2>2. NoneCutShort' /\ QueueMoves' = QueueMoves /\ Ending' = Ending
    BY <2>1 DEF StrandInv, NoneCutShort, QueueMoves, Ending, running, memory
  <2> QED BY <2>1, <2>2, StrandKept DEF Owing, Asked, Live, memory
<1> QED BY <1>1, <1>2, <1>3, <1>4, <1>5 DEF Process, Recovery

LEMMA StrandStep ==
    ASSUME Undisturbed, TypeOK, QueueInv, RunsNamed, ToldInv, StrandInv, [Next]_vars
    PROVE  StrandInv'
<1>1. SpawnerLives' => SpawnerLives
  BY SpawnerDies
<1>2. CASE UNCHANGED vars
  <2>1. NoneCutShort' /\ QueueMoves' = QueueMoves /\ Ending' = Ending
    BY <1>2 DEF StrandInv, NoneCutShort, QueueMoves, Ending, vars, rows, running, memory
  <2> QED BY <1>1, <1>2, <2>1, StrandKept DEF Owing, Asked, Live, vars, rows, memory
<1>3. CASE Continuations \/ Effects \/ Updates
  <2>1. CASE StartTurn
    <3>1. UNCHANGED <<rows, active, memory, phase>>
      BY <2>1 DEF StartTurn
    <3>2. NoneCutShort' /\ QueueMoves' = QueueMoves /\ Ending' = Ending
      BY <3>1 DEF StrandInv, NoneCutShort, QueueMoves, Ending, rows, memory
    <3> QED BY <1>1, <3>1, <3>2, StrandKept DEF rows, memory, Owing, Asked, Live
  <2> QED BY <1>1, <1>3, <2>1, ContinuationStrand, EffectStrand, UpdateStrand
          DEF Continuations, Effects, Updates
<1> QED BY <1>1, <1>2, <1>3, AgentStrand, UserStrand, ProcessStrand DEF Next

\* While the process is up, a result that is owed to the parent is carried by the current
\* delivery or waits for its end, something will move that delivery, and no wake is queued
\* that is not the open cohort's, unless its steering was accepted late: for every number of
\* tasks, deliveries, faults and restarts, if no turn is cut short while a delivery is steered
\* into it, no follow-up of a late one is refused, and no agent withdraws the last result of a
\* delivery that is under way.
THEOREM NothingIsStranded ==
    ASSUME Undisturbed
    PROVE  Spec => []NothingStranded
<1>1. Init => StrandInv
  BY GenerationFacts
  DEF Init, StrandInv, OwedRight, Loaded, NoneCutShort, OnTheMove, Owing, Current, Carried, None,
      NoSteer, Generations
<1>2. TypeOK /\ QueueInv /\ RunsNamed /\ ToldInv /\ StrandInv /\ [Next]_vars => StrandInv'
  BY StrandStep
<1>3. TypeOK /\ QueueInv /\ StrandInv => NothingStranded
  <2> SUFFICES ASSUME TypeOK, QueueInv, StrandInv, phase = "up", NEW t \in Tasks, Owing(t)
               PROVE  /\ Current # 0
                      /\ task[t].delivery = "claimed" => t \in Carried
                      /\ OnItsWay(Current)
    BY DEF NothingStranded, QueueInv, Owing
  <2>1. Current \in Generations /\ (task[t].delivery = "claimed" => t \in Carried)
    BY GenerationFacts DEF StrandInv, OwedRight
  <2>2. Moving(Current)
    BY <2>1 DEF StrandInv, OnTheMove
  <2>3. wake[Current].state \in WakeStates
    BY <2>1, TypeParts DEF WakeOK
  <2>4. QueueMoves => active # Idle \/ promoting # "no" \/ updates # <<>>
    BY DEF QueueMoves, Ending
  <2>5. OnItsWay(Current)
    BY <2>2, <2>3, <2>4 DEF Moving, OnItsWay, Asked, Ending, Over, WakeStates
  <2> QED BY <2>1, <2>5, GenerationFacts
<1> QED BY <1>1, <1>2, <1>3, DelegationTypes, QueueInvariant, ToldInvariant, PTL DEF Spec
=============================================================================
