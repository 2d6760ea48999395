------------------------- MODULE DelegatedCompletion -------------------------
(***************************************************************************)
(* How the result of a delegated task reaches the thread that delegated    *)
(* it: Orchestrator.ts with ProviderContinuationService.ts,                *)
(* NotificationMailbox.ts, the steering of EffectWorker.ts and the         *)
(* recovery of ProviderRuntimeRecoveryService.ts.                          *)
(*                                                                         *)
(* One run of the parent thread, the spawner, delegates Tasks to child     *)
(* threads.  When a child ends, its result is written to the parent and    *)
(* joins a delivery of the spawner's cohort.  A delivery is offered,       *)
(* dispatched as a message, and then either wakes the parent with a run of *)
(* its own or is steered into the run that is active, by an effect of the  *)
(* outbox that outlives a second dispatch of the same delivery.            *)
(*                                                                         *)
(* Each action that writes is one critical section of the parent thread's  *)
(* lock.  Offers and run updates live in memory; the rest is the database. *)
(***************************************************************************)
EXTENDS Integers, FiniteSets, Sequences

CONSTANTS
    Tasks,          \* the tasks the spawner delegates, one child thread each
    Waited,         \* the tasks that a blocking wait watches: settled_only
    MaxGeneration,  \* bound: deliveries of the cohort
    MaxTurns,       \* bound: other runs that start on the parent thread
    MaxFaults,      \* bound: dispatches that fail, turns that stop, wakes held
    MaxCrashes,     \* bound: lost processes
    CutShort,       \* steering may be cut short: the turn fails or stops before the agent
                    \* has read the delivery, or the follow-up of a late one is refused
    Overlapping     \* an agent may withdraw the last result of a delivery that is being
                    \* steered, or is queued while another result waits for its end

ASSUME DelegationAssumption ==
    /\ Waited \subseteq Tasks
    /\ {MaxGeneration, MaxTurns, MaxFaults, MaxCrashes} \subseteq Nat
    /\ {CutShort, Overlapping} \subseteq BOOLEAN

VARIABLES
    child,      \* the latest run of each child thread
    task,       \* the subagent row of each task on the parent thread
    cohort,     \* delegatedCompletion of the spawner's row
    wake,       \* the message of each delivery, and the run it is in
    steering,   \* the provider-turn.steer effect of each delivery: how far it is, what
                \* became of the turn it targets, the tasks in the message as it read it
    active,     \* the active run of the parent thread
    turn,       \* its provider turn
    offers,     \* ProviderContinuationRequests: deliveries to dispatch
    dispatching, \* the delivery whose request is being handled
    updates,    \* run updates that handleRunUpdate has not seen
    promoting,  \* handleRunUpdate is about to start the next queued run
    phase,      \* of the process
    told,       \* the tasks whose results a run of the parent was given to read
    turns, faults, crashes

rows == <<child, task, cohort, wake, steering>>
running == <<active, turn>>
memory == <<offers, dispatching, updates, promoting>>
bounds == <<turns, faults, crashes>>
vars == <<rows, running, memory, phase, told, bounds>>

Generations == 1..MaxGeneration
Idle == 0
Spawner == -1
Other == -2                        \* a run that is neither the spawner nor a wake
None == [generation |-> 0, tasks |-> {}]                        \* no delivery
Settled == {"delivered", "acknowledged", "disposed"}
Queued == {"queued", "held"}
NoSteer == [stage |-> "none", target |-> "none", tasks |-> {}]  \* no effect, or one that failed

Init ==
    /\ child = [t \in Tasks |-> "running"]
    /\ task = [t \in Tasks |-> [result |-> FALSE, delivery |-> "none", watched |-> t \in Waited]]
    /\ cohort = [disposition |-> "open", next |-> 1, delivery |-> None]
    /\ wake = [g \in Generations |-> [state |-> "none", tasks |-> {}]]
    /\ steering = [g \in Generations |-> NoSteer]
    /\ active = Spawner
    /\ turn = "running"
    /\ offers = {}
    /\ dispatching = Idle
    /\ updates = <<>>
    /\ promoting = "no"
    /\ phase = "up"
    /\ told = {}
    /\ turns = 0
    /\ faults = 0
    /\ crashes = 0

-----------------------------------------------------------------------------
(***************************************************************************)
(* Deliveries.  The run of a delivery is the queued or started run of its  *)
(* own, or the run it was steered into.                                    *)
(***************************************************************************)
Current == cohort.delivery.generation
Open == cohort.disposition = "open"
Carried == cohort.delivery.tasks
Unsettled(t) == task[t].delivery \notin Settled

\* Steered into a turn that completed, or into a run that is over.
isUndeliveredMailboxSteer(g) ==
    \/ wake[g].state = "missed"
    \/ (wake[g].state = "steered" /\ turn = "completed")

\* currentDelegatedCompletionDelivery, and the check under the lock.
Dispatchable(g) ==
    /\ Open
    /\ Current = g
    /\ wake[g].state = "none" \/ isUndeliveredMailboxSteer(g)

ReservingSame(tasks) == [cohort EXCEPT !.delivery = [generation |-> cohort.next, tasks |-> tasks]]

Reserving(tasks) ==
    [cohort EXCEPT !.next = @ + 1,
                   !.delivery = [generation |-> cohort.next, tasks |-> tasks]]

\* offerDelegatedCompletionDelivery offers the current delivery if it still has tasks.
Offerable == {g \in Generations : Dispatchable(g) /\ Carried # {}}

Joined(t) == [cohort EXCEPT !.delivery.tasks = @ \cup {t}]

Marked(t, row, state) == [task EXCEPT ![t] = [row EXCEPT !.delivery = state]]

\* The run is waiting, its turn being over, or has ended.
SpawnerLives == active = Spawner /\ turn # "completed"

\* A settled_only result: a blocking wait of the run that delegated it returns it.
AwaitsBlockingWait(row) == row.watched /\ SpawnerLives

\* planDelegatedCompletionDelivery and the rows it leads to; `row' is the task's.
PlanNothing(t, row) ==
    /\ \/ /\ row.delivery \in Settled
          /\ task' = Marked(t, row, row.delivery)
       \/ /\ row.delivery \notin Settled
          /\ ~Open
          /\ task' = Marked(t, row, "disposed")
       \/ /\ row.delivery \notin Settled
          /\ Open
          /\ AwaitsBlockingWait(row)
          /\ task' = Marked(t, row, row.delivery)
    /\ UNCHANGED <<cohort, wake>>

ReserveDelivery(t, row) ==
    /\ Current = 0
    /\ cohort.next \in Generations
    /\ task' = Marked(t, row, "claimed")
    /\ cohort' = Reserving({t})
    /\ UNCHANGED wake

JoinUnderWay(t, row) ==
    /\ Current # 0
    /\ task' = Marked(t, row, "claimed")
    /\ cohort' = Joined(t)
    /\ UNCHANGED wake

\* The current delivery is only offered or queued: the result joins it.
JoinDelivery(t, row) ==
    /\ Current # 0
    /\ wake[Current].state \in Queued \cup {"none"}
    /\ task' = Marked(t, row, "claimed")
    /\ cohort' = Joined(t)
    /\ wake' = [wake EXCEPT ![Current].tasks =
                    IF wake[Current].state = "none" THEN @ ELSE Carried \cup {t}]

\* It is under way: its end reserves the next one.
WaitForDelivery(t, row) ==
    /\ Current # 0
    /\ wake[Current].state \notin Queued \cup {"none"}
    /\ task' = Marked(t, row, "pending")
    /\ UNCHANGED <<cohort, wake>>

planDelegatedCompletionDelivery(t, row) ==
    \/ PlanNothing(t, row)
    \/ /\ row.delivery \notin Settled
       /\ Open
       /\ ~AwaitsBlockingWait(row)
       /\ \/ ReserveDelivery(t, row)
          \/ JoinDelivery(t, row)
          \/ WaitForDelivery(t, row)

\* The result of a child that has ended is written to the parent, once; a delivery
\* this made or grew is offered.
finalizeAppOwnedSubagentTask(t) ==
    IF task[t].result
    THEN UNCHANGED <<task, cohort, wake, offers>>
    ELSE /\ planDelegatedCompletionDelivery(t, [task[t] EXCEPT !.result = TRUE])
         /\ offers' = IF cohort' = cohort THEN offers ELSE offers \cup Offerable'

\* The current delivery is over: what it carried is `outcome', and `owed' is
\* reserved with the next one.
Conclude(outcome, owed) ==
    /\ task' = [t \in Tasks |->
                  IF Open /\ t \in owed THEN [task[t] EXCEPT !.delivery = "claimed"]
                  ELSE IF t \in Carried /\ task[t].delivery = "claimed"
                  THEN [task[t] EXCEPT !.delivery = outcome] ELSE task[t]]
    /\ IF Open /\ owed # {}
       THEN cohort.next \in Generations /\ cohort' = Reserving(owed)
       ELSE cohort' = [cohort EXCEPT !.delivery = None]

PendingResults == {t \in Tasks : task[t].result /\ task[t].delivery = "pending"}

ForgetPending(g) ==
    /\ IF Current = g THEN Conclude("delivered", {}) ELSE UNCHANGED <<task, cohort>>
    /\ UNCHANGED wake

\* What a cancelled wake carried is pending again.
finalizeDelegatedCompletionDelivery(g) ==
    LET cancelled == wake[g].state = "cancelled"
        again == {t \in Carried : cancelled /\ task[t].delivery = "claimed" /\ task[t].result}
    IN /\ IF Current = g
          THEN Conclude(IF cancelled THEN "pending" ELSE "delivered", PendingResults \cup again)
          ELSE UNCHANGED <<task, cohort>>
       /\ UNCHANGED wake

-----------------------------------------------------------------------------
(***************************************************************************)
(* ProviderContinuationService and the dispatch of a delivery.             *)
(***************************************************************************)
\* A request is checked on rows read without the lock.
TakeOffer(g) ==
    /\ dispatching = Idle
    /\ g \in offers
    /\ offers' = offers \ {g}
    /\ dispatching' = IF Dispatchable(g) THEN g ELSE Idle
    /\ UNCHANGED <<rows, running, updates, promoting, phase, told, bounds>>

\* Every task wakes at once, and the agent's turn can still be spoken to.
MaySteer == active # Idle /\ turn = "running" /\ \A t \in Carried : ~task[t].watched

\* The delivery is steered into the active run, where its session allows it, queued
\* behind it, or starts a run of its own.  An earlier effect that steers it is left alone.
SteerInto(g) ==
    /\ MaySteer
    /\ wake' = [wake EXCEPT ![g] = [state |-> "steered", tasks |-> Carried]]
    /\ steering' = [steering EXCEPT ![g] =
                        [stage |-> "pending", target |-> "live", tasks |-> {}]]
    /\ UNCHANGED <<running, told>>

\* While the queue is held, what joins it is held too.
QueueBehind(g) ==
    /\ active # Idle
    /\ wake' = [wake EXCEPT ![g] =
                    [state |-> IF \E h \in Generations : wake[h].state = "held"
                               THEN "held" ELSE "queued",
                     tasks |-> Carried]]
    /\ UNCHANGED <<running, told>>

StartWake(g) ==
    /\ active = Idle
    /\ wake' = [wake EXCEPT ![g] = [state |-> "active", tasks |-> Carried]]
    /\ active' = g
    /\ turn' = "starting"
    /\ told' = told \cup Carried

\* `effect' is what the effect that steered it before is from now on.
dispatchMessage(g, effect) ==
    /\ Dispatchable(g)
    /\ \/ SteerInto(g)
       \/ /\ QueueBehind(g) \/ StartWake(g)
          /\ steering' = [steering EXCEPT ![g] = effect]

Dispatch(g) ==
    /\ dispatching = g
    /\ dispatchMessage(g, steering[g])
    /\ dispatching' = Idle
    /\ UNCHANGED <<child, task, cohort, offers, updates, promoting, phase, bounds>>

\* Rejected under the lock, or failed: offered again after a delay.
DispatchFails(g) ==
    /\ dispatching = g
    /\ \/ /\ ~Dispatchable(g)
          /\ UNCHANGED faults
       \/ /\ faults < MaxFaults
          /\ faults' = faults + 1
    /\ dispatching' = Idle
    /\ offers' = offers \cup {g}
    /\ UNCHANGED <<rows, running, updates, promoting, phase, told, turns, crashes>>

-----------------------------------------------------------------------------
(***************************************************************************)
(* The effect provider-turn.steer.  The effects of the thread run in turn: *)
(* the next turn starts when no effect is left that steers into an earlier *)
(* one.                                                                    *)
(***************************************************************************)
Live(g) == steering[g].stage \in {"pending", "checked", "accepting"}

Stage(stage) == [NoSteer EXCEPT !.stage = stage]

Settle(g, effect) == steering' = [steering EXCEPT ![g] = effect]

\* A delivery that is no longer the cohort's is not told, and accepted as such.
SteerChecks(g) ==
    /\ phase = "up"
    /\ steering[g].stage = "pending"
    /\ Settle(g, IF Open /\ Current = g /\ Carried # {}
                 THEN [steering[g] EXCEPT !.stage = "checked", !.tasks = wake[g].tasks]
                 ELSE Stage("accepting"))
    /\ UNCHANGED <<child, task, cohort, wake, running, memory, phase, told, bounds>>

\* The agent is told in the run it was steered into, as long as that run lives.
SteerHeard(g) ==
    /\ phase = "up"
    /\ steering[g].stage = "checked"
    /\ steering[g].target = "live"
    /\ Settle(g, Stage("accepting"))
    /\ told' = told \cup steering[g].tasks
    /\ UNCHANGED <<child, task, cohort, wake, running, memory, phase, bounds>>

TargetCompleted(g) ==
    \/ steering[g].target = "late"
    \/ (steering[g].target = "live" /\ turn = "completed")

\* The turn completed before the agent was told: the message is dispatched again, under
\* the one command id of the follow-up, which is not dispatched twice once refused.
FollowUp(g) ==
    /\ TargetCompleted(g)
    /\ dispatchMessage(g, NoSteer)

\* No follow-up, or it is refused: the effect is tried in vain and fails.
SteerFails(g) ==
    /\ \/ steering[g].target = "lost"
       \/ (TargetCompleted(g) /\ (CutShort \/ ~Dispatchable(g)))
    /\ Settle(g, NoSteer)
    /\ UNCHANGED <<wake, running, told>>

SteerTooLate(g) ==
    /\ phase = "up"
    /\ steering[g].stage = "checked"
    /\ FollowUp(g) \/ SteerFails(g)
    /\ UNCHANGED <<child, task, cohort, memory, phase, bounds>>

\* notification.delivery.accept, of whatever the delivery has become by then.  While the
\* run that delegated them lives, results that nobody watches are not reserved.
dispatchNotificationAccepted(g) ==
    /\ phase = "up"
    /\ steering[g].stage = "accepting"
    /\ IF Open /\ Current = g
       THEN /\ Settle(g, Stage("accepted"))
            /\ Conclude("delivered",
                        {t \in PendingResults : SpawnerLives => ~task[t].watched})
       ELSE /\ Settle(g, NoSteer)
            /\ UNCHANGED <<task, cohort>>
    /\ UNCHANGED <<child, wake, running>>
    /\ offers' = offers \cup Offerable'
    /\ UNCHANGED <<dispatching, updates, promoting, phase, told, bounds>>

-----------------------------------------------------------------------------
(***************************************************************************)
(* Runs of the parent thread.                                              *)
(***************************************************************************)
\* The effect provider-turn.start, after the effects of earlier turns.
StartTurn ==
    /\ phase = "up"
    /\ turn = "starting"
    /\ \A g \in Generations : ~Live(g)
    /\ turn' = "running"
    /\ UNCHANGED <<rows, active, memory, phase, told, bounds>>

TurnCompletes ==
    /\ phase = "up"
    /\ active # Idle
    /\ turn = "running"
    /\ turn' = "completed"
    /\ UNCHANGED <<rows, active, memory, phase, told, bounds>>

RunUpdate(run, outcome) == [child |-> {}, run |-> run, outcome |-> outcome]

\* Wakes when the active run is over: its own, and those that were steered into it.
WakesAfter ==
    [g \in Generations |->
        IF g = active THEN [wake[g] EXCEPT !.state = "ended"]
        ELSE IF wake[g].state = "steered" THEN [wake[g] EXCEPT !.state = "missed"]
        ELSE wake[g]]

\* The effects that steer into it now find it completed, or not.
SteeringAfter(outcome) ==
    [g \in Generations |->
        IF steering[g].target = "live"
        THEN [steering[g] EXCEPT !.target = IF outcome = "completed" THEN "late" ELSE "lost"]
        ELSE steering[g]]

BeingSteered == \E g \in Generations : steering[g].target = "live"

\* A run completes with its turn, is interrupted, or fails, in its turn or in the effect
\* that was to start it.
EndRun(outcome) ==
    /\ phase = "up"
    /\ active # Idle
    /\ \/ /\ outcome = "completed"
          /\ turn = "completed"
          /\ UNCHANGED faults
       \/ /\ outcome = "interrupted"
          /\ turn = "stopping"
          /\ CutShort \/ ~BeingSteered
          /\ UNCHANGED faults
       \/ /\ outcome = "failed"
          /\ \/ turn = "running"
             \/ (turn = "starting" /\ \A g \in Generations : ~Live(g))
          /\ CutShort \/ ~BeingSteered
          /\ faults < MaxFaults
          /\ faults' = faults + 1
    /\ wake' = WakesAfter
    /\ steering' = SteeringAfter(outcome)
    /\ updates' = Append(updates, RunUpdate(active, outcome))
    /\ active' = Idle
    /\ turn' = "completed"
    /\ UNCHANGED <<child, task, cohort, offers, dispatching, promoting, phase, told, turns,
                   crashes>>

ChildEnds(t) ==
    /\ phase = "up"
    /\ child[t] = "running"
    /\ child' = [child EXCEPT ![t] = "ended"]
    /\ updates' = Append(updates, [child |-> {t}, run |-> Idle, outcome |-> "completed"])
    /\ UNCHANGED <<task, cohort, wake, steering, running, offers, dispatching,
                   promoting, phase, told, bounds>>

\* handleRunUpdate, which takes one update at a time: the end of a child, and the end
\* of a run of the parent, which then promotes under the lock once more.
HandleChildUpdate ==
    /\ promoting = "no"
    /\ updates # <<>>
    /\ updates' = Tail(updates)
    /\ UNCHANGED <<child, steering, running, dispatching, promoting, phase, told,
                   bounds>>
    /\ \E t \in Head(updates).child :
          IF child[t] = "ended"
          THEN finalizeAppOwnedSubagentTask(t)
          ELSE UNCHANGED <<task, cohort, wake, offers>>

HandleRunUpdate ==
    /\ promoting = "no"
    /\ updates # <<>>
    /\ Head(updates).child = {}
    /\ finalizeDelegatedCompletionDelivery(Head(updates).run)
    /\ offers' = IF cohort' = cohort THEN offers ELSE offers \cup Offerable'
    /\ promoting' = Head(updates).outcome
    /\ updates' = Tail(updates)
    /\ UNCHANGED <<child, steering, running, dispatching, phase, told, bounds>>

Unheld == [g \in Generations |->
              IF wake[g].state = "held" THEN [wake[g] EXCEPT !.state = "queued"] ELSE wake[g]]

Held == [g \in Generations |->
            IF wake[g].state = "queued" THEN [wake[g] EXCEPT !.state = "held"] ELSE wake[g]]

\* A run queued in `wakes' starts; the agent is given the message as it is now.
Start(g, wakes) ==
    /\ wakes[g].state = "queued"
    /\ wake' = [wakes EXCEPT ![g].state = "active"]
    /\ active' = g
    /\ turn' = "starting"
    /\ told' = told \cup wakes[g].tasks

\* releaseUnattendedHolds: the newest run completed, so what nobody reviews goes on.
Released == IF promoting = "completed" THEN Unheld ELSE wake

QueuedWakes == {g \in Generations : Released[g].state = "queued"}

\* failQueuedRunStart.
FailStart(g) ==
    /\ faults < MaxFaults
    /\ faults' = faults + 1
    /\ wake' = [Released EXCEPT ![g].state = "failed"]
    /\ updates' = Append(updates, RunUpdate(g, "failed"))

\* startNextQueuedRun, at the end of handleRunUpdate.  After a failure the queue is held.
Promote ==
    /\ promoting # "no"
    /\ promoting' = "no"
    /\ \/ /\ active = Idle
          /\ \E g \in QueuedWakes : Start(g, Released)
          /\ UNCHANGED <<updates, faults>>
       \/ /\ active = Idle
          /\ \E g \in QueuedWakes : FailStart(g)
          /\ UNCHANGED <<running, told>>
       \/ /\ active = Idle
          /\ promoting = "failed"
          /\ QueuedWakes # {}
          /\ wake' = Held
          /\ UNCHANGED <<running, told, updates, faults>>
       \/ /\ active # Idle \/ QueuedWakes = {}
          /\ UNCHANGED <<wake, running, told, updates, faults>>
    /\ UNCHANGED <<child, task, cohort, steering, offers, dispatching, phase, turns, crashes>>

\* Another message starts a run; one that a user sends also releases the held wakes.
StartOther(release) ==
    /\ phase = "up"
    /\ active = Idle
    /\ turns < MaxTurns
    /\ turns' = turns + 1
    /\ active' = Other
    /\ turn' = "starting"
    /\ wake' = IF release THEN Unheld ELSE wake
    /\ UNCHANGED <<child, task, cohort, steering, memory, phase, told, faults, crashes>>

\* queue.resume: the queue goes on, at once if the thread is idle.
ResumeQueue ==
    /\ phase = "up"
    /\ \E g \in Generations : wake[g].state \in Queued
    /\ IF active = Idle
       THEN \E g \in Generations : Start(g, Unheld)
       ELSE wake' = Unheld /\ UNCHANGED <<running, told>>
    /\ UNCHANGED <<child, task, cohort, steering, memory, phase, bounds>>

-----------------------------------------------------------------------------
(***************************************************************************)
(* Stop, and what the agent does with a task itself.                       *)
(***************************************************************************)
LeaveQueued(g, wakes) == wake' = wakes /\ UNCHANGED updates

CancelQueued(g, wakes) ==
    IF g # 0 /\ wakes[g].state \in Queued
    THEN /\ wake' = [wakes EXCEPT ![g].state = "cancelled"]
         /\ updates' = Append(updates, RunUpdate(g, "cancelled"))
    ELSE wake' = wakes /\ UNCHANGED updates

\* disposeDelegatedCompletionCohort: `kept' goes on, the rest is never delivered.
disposeCohort(disposition, kept, wakes) ==
    /\ task' = [t \in Tasks |->
                  IF Unsettled(t) /\ t \notin kept
                  THEN [task[t] EXCEPT !.delivery = "disposed"] ELSE task[t]]
    /\ IF kept # {}
       THEN wake' = wakes /\ UNCHANGED <<cohort, updates>>
       ELSE /\ cohort' = [cohort EXCEPT !.delivery = None,
                             !.disposition = IF @ = "disposed" THEN @ ELSE disposition]
            /\ CancelQueued(Current, wakes)

\* dispatchRunInterrupt.  Stopping everything holds the queue and stops the cohort, and so
\* does stopping the spawner; a wake that is stopped takes only the results it carried.
Stop(hold) ==
    /\ phase = "up"
    /\ active # Idle
    /\ turn \in {"starting", "running"}
    /\ turn' = "stopping"
    /\ IF hold \/ active = Spawner
       THEN disposeCohort("stopped", {}, IF hold THEN Held ELSE wake)
       ELSE IF active \in Generations
       THEN disposeCohort("stopped",
                {t \in Tasks : Open /\ Unsettled(t) /\ t \notin wake[active].tasks}, wake)
       ELSE UNCHANGED <<task, cohort, wake, updates>>
    /\ UNCHANGED <<child, steering, active, offers, dispatching, promoting, phase,
                   told, bounds>>

\* queued-run.cancel of a queued wake: it is the cohort's delivery that is cancelled.
CancelWake(g) ==
    /\ phase = "up"
    /\ wake[g].state \in Queued
    /\ disposeCohort("disposed", {}, wake)
    /\ UNCHANGED <<child, steering, running, offers, dispatching, promoting, phase,
                   told, bounds>>

\* The agent works: it can call the tools that act on its tasks.
AgentWorks == phase = "up" /\ active # Idle /\ turn = "running"

\* Delivery Current no longer carries t; a queued wake that carries nothing is cancelled.
Withdraw(t) ==
    LET remaining == Carried \ {t}
        state == wake[Current].state
    IN IF Current = 0 \/ t \notin Carried
       THEN UNCHANGED <<cohort, wake, updates>>
       ELSE IF remaining = {} /\ state \in Queued \cup {"none"}
       THEN /\ cohort' = [cohort EXCEPT !.delivery = None]
            /\ CancelQueued(Current, wake)
       ELSE /\ cohort' = [cohort EXCEPT !.delivery.tasks = remaining]
            /\ wake' = [wake EXCEPT ![Current].tasks =
                            IF state \in Queued THEN remaining ELSE @]
            /\ UNCHANGED updates

Overlaps(g) ==
    \/ wake[g].state \in {"steered", "missed"}
    \/ (wake[g].state \in Queued /\ PendingResults # {})

\* delegated_task.completion-delivery.acknowledge, after reading the result, and
\* .dispose, when the task is cancelled.
Resolve(t, state) ==
    /\ AgentWorks
    /\ state = "acknowledged" => task[t].result
    /\ task[t].delivery \notin {state, "disposed"}
    /\ Overlapping \/ ~(Carried = {t} /\ Overlaps(Current))
    /\ task' = Marked(t, task[t], state)
    /\ Withdraw(t)
    /\ UNCHANGED <<child, steering, running, offers, dispatching, promoting, phase,
                   told, bounds>>

\* delegated_task.wake-policy "always", when a blocking wait gives up.
WakeAlways(t) ==
    /\ AgentWorks
    /\ task[t].watched
    /\ IF task[t].result /\ active = Spawner
       THEN planDelegatedCompletionDelivery(t, [task[t] EXCEPT !.watched = FALSE])
       ELSE /\ task' = [task EXCEPT ![t].watched = FALSE]
            /\ UNCHANGED <<cohort, wake>>
    /\ UNCHANGED <<child, steering, running>>
    /\ offers' = offers \cup Offerable'
    /\ UNCHANGED <<dispatching, updates, promoting, phase, told, bounds>>

-----------------------------------------------------------------------------
(***************************************************************************)
(* The process.                                                            *)
(***************************************************************************)
Crash ==
    /\ crashes < MaxCrashes
    /\ phase # "down"
    /\ crashes' = crashes + 1
    /\ phase' = "down"
    /\ offers' = {}
    /\ dispatching' = Idle
    /\ updates' = <<>>
    /\ promoting' = "no"
    /\ UNCHANGED <<rows, running, told, turns, faults>>

\* ProviderRuntimeRecoveryService: what ran is cancelled, some children with a
\* continuation to come; queued wakes are held; steering under way died with the process.
RecoverRuntime(continued) ==
    /\ phase = "down"
    /\ child' = [t \in Tasks |->
                   IF child[t] # "running" THEN child[t]
                   ELSE IF t \in continued THEN "cut" ELSE "ended"]
    /\ wake' = [g \in Generations |->
                  CASE g = active -> [wake[g] EXCEPT !.state = "cancelled"]
                    [] wake[g].state = "queued" -> [wake[g] EXCEPT !.state = "held"]
                    [] wake[g].state = "steered" -> [wake[g] EXCEPT !.state = "missed"]
                    [] OTHER -> wake[g]]
    /\ steering' = [g \in Generations |->
                      IF steering[g].stage = "accepted" THEN steering[g] ELSE NoSteer]
    /\ active' = Idle
    /\ turn' = "completed"
    /\ phase' = "results"
    /\ UNCHANGED <<task, cohort, memory, told, bounds>>

Owed(t) == child[t] = "ended" /\ ~task[t].result

\* recoverDelegatedTasks: first the results of children that ended, one at a time.
RecoverResult(t) ==
    /\ phase = "results"
    /\ Owed(t)
    /\ UNCHANGED <<child, steering, running, dispatching, updates, promoting, phase,
                   told, bounds>>
    /\ finalizeAppOwnedSubagentTask(t)

RecoverSilently ==
    /\ phase = "results"
    /\ \A t \in Tasks : ~Owed(t)
    /\ phase' = "up"
    /\ UNCHANGED <<rows, running, memory, told, bounds>>

\* Then the delivery that was under way.
RecoverDeliveries ==
    /\ phase = "results"
    /\ \A t \in Tasks : ~Owed(t)
    /\ IF Current # 0 /\ wake[Current].state \in {"ended", "failed", "cancelled"}
       THEN finalizeDelegatedCompletionDelivery(Current)
       ELSE UNCHANGED <<task, cohort, wake>>
    /\ UNCHANGED <<child, steering, running>>
    /\ offers' = offers \cup Offerable'
    /\ phase' = "up"
    /\ UNCHANGED <<dispatching, updates, promoting, told, bounds>>

\* The continuation of a child whose run the restart cut starts, or is declined and
\* the result it had is delivered after all.
ContinueChild(t) ==
    /\ phase = "up"
    /\ child[t] = "cut"
    /\ child' = [child EXCEPT ![t] = "running"]
    /\ UNCHANGED <<task, cohort, wake, steering, running, memory, phase, told, bounds>>

recoverDelegatedTask(t) ==
    /\ phase = "up"
    /\ child[t] = "cut"
    /\ child' = [child EXCEPT ![t] = "ended"]
    /\ UNCHANGED <<steering, running, dispatching, updates, promoting, phase, told,
                   bounds>>
    /\ finalizeAppOwnedSubagentTask(t)

-----------------------------------------------------------------------------
Continuations ==
    \E g \in Generations : TakeOffer(g) \/ Dispatch(g) \/ DispatchFails(g)

Effects ==
    \/ StartTurn
    \/ \E g \in Generations :
          \/ SteerChecks(g) \/ SteerHeard(g) \/ SteerTooLate(g)
          \/ dispatchNotificationAccepted(g)

Updates == HandleChildUpdate \/ HandleRunUpdate \/ Promote

Agents ==
    \/ TurnCompletes
    \/ \E outcome \in {"completed", "interrupted", "failed"} : EndRun(outcome)
    \/ \E t \in Tasks : ChildEnds(t) \/ WakeAlways(t)
    \/ \E t \in Tasks, state \in {"acknowledged", "disposed"} : Resolve(t, state)

Users ==
    \/ \E yes \in BOOLEAN : StartOther(yes) \/ Stop(yes)
    \/ ResumeQueue
    \/ \E g \in Generations : CancelWake(g)

Recovery ==
    \/ \E continued \in SUBSET Tasks : RecoverRuntime(continued)
    \/ \E t \in Tasks : RecoverResult(t)
    \/ RecoverDeliveries

Process ==
    \/ Crash
    \/ Recovery
    \/ \E t \in Tasks : ContinueChild(t) \/ recoverDelegatedTask(t)

Next == Continuations \/ Effects \/ Updates \/ Agents \/ Users \/ Process

Spec == Init /\ [][Next]_vars

\* The services, the recovery and the worker go on; a turn that nothing cuts short
\* completes, and its run then ends.
FairSpec ==
    /\ Spec
    /\ WF_vars(Continuations) /\ WF_vars(Effects) /\ WF_vars(Updates)
    /\ WF_vars(TurnCompletes)
    /\ WF_vars(EndRun("completed")) /\ WF_vars(EndRun("interrupted"))
    /\ WF_vars(Recovery)

-----------------------------------------------------------------------------
WakeStates == {"none", "queued", "held", "active", "steered", "missed", "ended", "failed",
               "cancelled"}
Stages == {"none", "pending", "checked", "accepting", "accepted"}
Outcomes == {"completed", "interrupted", "failed", "cancelled"}
Runs == {Spawner, Other} \cup Generations

\* Every variable has its type; a delivery is one of those reserved so far.
TypeOK ==
    /\ child \in [Tasks -> {"running", "cut", "ended"}]
    /\ task \in [Tasks -> [result : BOOLEAN, watched : BOOLEAN,
                           delivery : {"none", "claimed", "pending"} \cup Settled]]
    /\ cohort \in [disposition : {"open", "stopped", "disposed"}, next : 1..MaxGeneration + 1,
                   delivery : [generation : {0} \cup Generations, tasks : SUBSET Tasks]]
    /\ Current < cohort.next
    /\ wake \in [Generations -> [state : WakeStates, tasks : SUBSET Tasks]]
    /\ steering \in [Generations -> [stage : Stages, target : {"none", "live", "late", "lost"},
                                     tasks : SUBSET Tasks]]
    /\ active \in {Idle} \cup Runs
    /\ turn \in {"starting", "running", "stopping", "completed"}
    /\ offers \subseteq Generations
    /\ dispatching \in {Idle} \cup Generations
    /\ updates \in Seq([child : SUBSET Tasks, run : {Idle} \cup Runs, outcome : Outcomes])
    /\ promoting \in {"no"} \cup Outcomes
    /\ phase \in {"up", "down", "results"}
    /\ told \subseteq Tasks
    /\ turns \in 0..MaxTurns /\ faults \in 0..MaxFaults /\ crashes \in 0..MaxCrashes

\* Something will still move delivery g: a request, the run it waits for, the effect
\* that steers it, or the update that ends it.
OnItsWay(g) ==
    \/ g \in offers \cup {dispatching}
    \/ wake[g].state \in {"held", "active"}
    \/ wake[g].state = "queued" /\ (active # Idle \/ promoting # "no" \/ updates # <<>>)
    \/ Live(g)
    \/ \E i \in DOMAIN updates : updates[i].run = g

\* The delivery's own steering was accepted: late, if its wake is in the queue.
Accepted(g) == steering[g].stage = "accepted"

\* A wake in the queue is the open cohort's current delivery, or its steering was accepted
\* after it had been queued again: nothing else leaves a wake that nobody owns.
QueuedWakeOwned ==
    \A g \in Generations :
        wake[g].state \in Queued => (Open /\ Current = g) \/ Accepted(g)

\* While the process is up, a result that is owed to the parent belongs to the current
\* delivery, or waits for its end, and that delivery is on its way.  Nor is the parent woken
\* for nothing: what was withdrawn, stopped or delivered otherwise has left the queue, unless
\* its steering was accepted late.
NothingStranded ==
    /\ QueuedWakeOwned
    /\ phase = "up" =>
        \A t \in Tasks :
            task[t].delivery \in {"claimed", "pending"} /\ task[t].result =>
                /\ Current # 0
                /\ task[t].delivery = "claimed" => t \in Carried
                /\ OnItsWay(Current)

\* A result counts as delivered only if a run of the parent was given it, or the run that
\* should have been failed to start, which the thread shows, or it joined a wake that is
\* still in the queue when its steering was accepted late.
DeliveredMeansTold ==
    \A t \in Tasks : task[t].delivery = "delivered" =>
        \/ t \in told
        \/ \E g \in Generations :
              /\ t \in wake[g].tasks
              /\ \/ wake[g].state = "failed"
                 \/ (wake[g].state \in Queued /\ Accepted(g))

\* Once a cohort was stopped or disposed, no delivery of it is queued, steered or started
\* again, across restarts too; only a wake that a late acceptance left in the queue goes on.
StopIsFinal ==
    [][cohort.disposition # "open" =>
                /\ cohort'.disposition # "open"
                /\ \A g \in Generations :
                      wake'[g].state \in Queued \cup {"steered", "active"} =>
                          \/ wake'[g].state = wake[g].state
                          \/ (wake[g].state \in Queued /\ Accepted(g))]_vars

\* A result that is owed to the parent is settled in the end, or its wake is held for a
\* user to release.
ResultReachesParent ==
    \A t \in Tasks :
        (task[t].result /\ task[t].delivery \in {"claimed", "pending"})
            ~> (~Unsettled(t) \/ (Current # 0 /\ \E g \in Generations :
                                      g = Current /\ wake[g].state = "held"))
=============================================================================
