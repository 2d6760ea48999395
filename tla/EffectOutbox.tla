--------------------------- MODULE EffectOutbox ---------------------------
(***************************************************************************)
(* The durable effect outbox of the agent runtime and the daemon that      *)
(* drains it: EffectOutbox.ts, EffectWorker.ts, and the parts of           *)
(* EventSink.ts, ProviderRuntimeRecoveryService.ts and                     *)
(* serverRuntimeStartup.ts that write to the outbox.                       *)
(*                                                                         *)
(* Rows live in SQLite and survive the process.  The wake-up queue, the    *)
(* cancellation and settled signals and the worker fibers do not.          *)
(* A write is one atomic step together with the JavaScript that follows    *)
(* it: the writer connection is synchronous and the fiber does not yield   *)
(* before it has updated the maps.  Reads go to a reader thread, so every  *)
(* read is a step of its own.                                              *)
(***************************************************************************)
EXTENDS Integers, FiniteSets

CONSTANTS
    Effects,        \* effect ids
    NoEffect,       \* what a fiber or a waiter without an effect holds
    Fibers,         \* the worker fibers of the daemon
    Waiters,        \* callers of awaitSettled
    ThreadOf,       \* [Effects -> thread], the row's thread_id
    TypeOf,         \* [Effects -> EffectTypes], the row's effect_type
    MaxAttempts,    \* maxAttempts of the worker
    QueueCapacity,  \* capacity of the dropping queue `available`
    MaxFaults,      \* bound: SQL statements that fail
    MaxProcesses,   \* bound: server processes started
    MaxPruned       \* bound: rows deleted by pruneSettled

ReplaySafeTypes ==
    {"provider-runtime.continue", "provider-session.detach",
     "provider-thread.rollback", "checkpoint.capture",
     "scheduled-tasks.cleanup", "terminal.cleanup", "preview.cleanup",
     "attachment.cleanup", "thread-title.generate", "delegated-tasks.stop"}

ProcessBoundTypes ==
    {"provider-turn.start", "provider-turn.interrupt", "provider-turn.steer",
     "provider-turn.restart", "runtime-request.respond"}

EffectTypes == ReplaySafeTypes \cup ProcessBoundTypes

ASSUME OutboxAssumption ==
    /\ IsFiniteSet(Effects)
    /\ NoEffect \notin Effects
    /\ TypeOf \in [Effects -> EffectTypes]
    /\ MaxAttempts \in Nat \ {0}
    /\ QueueCapacity \in Nat \ {0}
    /\ MaxFaults \in Nat
    /\ MaxProcesses \in Nat
    /\ MaxPruned \in Nat

Threads == {ThreadOf[e] : e \in Effects}

VARIABLES
    \* The table orchestration_v2_effect_outbox.
    status,     \* "absent" before the insert, "pruned" after the delete
    rowid,      \* insertion order; 0 before the insert
    attempts,   \* attempt_count
    later,      \* available_at is still in the future
    owner,      \* lease_owner: the process holding the lease, 0 for NULL
    born,       \* the process that inserted the row (created_at)
    \* In-memory state of the outbox service.
    tokens,     \* entries of the queue `available`
    signal,     \* cancellationSignals: "none", "armed" or "fired"
    attached,   \* settledSignals: the waiters that share the entry
    \* The worker fibers.
    pc,         \* where each fiber stands in runWorker and runOnce
    held,       \* the effect a busy fiber has claimed
    \* Writers and callers.
    post,       \* what a committed transaction has still to signal
    wpc,        \* where each waiter stands in awaitSettled
    wfor,       \* the effect it waits for
    \* The process.
    phase, retired, process, faults

table == <<status, rowid, attempts, later, owner, born>>
lifecycle == <<phase, retired, process>>
waiting == <<attached, wpc, wfor>>
vars == <<table, tokens, signal, waiting, pc, held, post, lifecycle, faults>>

Unsettled == {"pending", "running"}
Settled == {"succeeded", "failed", "cancelled"}
Statuses == {"absent", "pruned"} \cup Unsettled \cup Settled

Phases == {"down", "recovering", "recovered", "up", "closing", "closed"}

\* Fibers outside a claim, and fibers inside one.
FreePcs == {"down", "claiming", "idle", "polling", "timed", "cooling"}
ExecutingPcs == {"executing", "winding"}
SettlingPcs == {"succeeding", "conceding", "failing", "requeueing",
                "terminalizing"}
BusyPcs == {"rechecking"} \cup ExecutingPcs \cup SettlingPcs

NoPost == [signal |-> {}, notify |-> 0]

Init ==
    /\ status = [e \in Effects |-> "absent"]
    /\ rowid = [e \in Effects |-> 0]
    /\ attempts = [e \in Effects |-> 0]
    /\ later = [e \in Effects |-> FALSE]
    /\ owner = [e \in Effects |-> 0]
    /\ born = [e \in Effects |-> 0]
    /\ tokens = 0
    /\ signal = [e \in Effects |-> "none"]
    /\ attached = [e \in Effects |-> {}]
    /\ pc = [w \in Fibers |-> "down"]
    /\ held = [w \in Fibers |-> NoEffect]
    /\ post = NoPost
    /\ wpc = [x \in Waiters |-> "idle"]
    /\ wfor = [x \in Waiters |-> NoEffect]
    /\ phase = "down"
    /\ retired = FALSE
    /\ process = 0
    /\ faults = 0

-----------------------------------------------------------------------------
(***************************************************************************)
(* The claim predicate.                                                    *)
(***************************************************************************)
IsTitle(e) == TypeOf[e] = "thread-title.generate"

\* Title generation has a lane of its own in each thread.
SameLane(e, f) == ThreadOf[e] = ThreadOf[f] /\ (IsTitle(e) <=> IsTitle(f))

\* Mutants of Blocks: without the running row, and without the backoff rule.
BlocksIfPending(f, e) ==
    SameLane(e, f) /\ status[f] = "pending" /\ rowid[f] < rowid[e]

BlocksIfRunning(f, e) == SameLane(e, f) /\ status[f] = "running"

\* A row that keeps a later row of its lane from being claimed.
Blocks(f, e) ==
    /\ SameLane(e, f)
    /\ \/ status[f] = "running"
       \/ status[f] = "pending" /\ rowid[f] < rowid[e]

Candidates == {e \in Effects : /\ status[e] = "pending"
                               /\ ~ \E f \in Effects : Blocks(f, e)}

Claimable == {e \in Candidates : ~later[e]}

-----------------------------------------------------------------------------
(***************************************************************************)
(* Signals and the wake-up queue.                                          *)
(***************************************************************************)
\* Mutant of Offered: a queue that grows.
OfferedUnbounded(n) == tokens + n

\* Offering to a dropping queue.
Offered(n) == IF tokens + n > QueueCapacity THEN QueueCapacity ELSE tokens + n

notifyAvailable(n) == tokens' = Offered(n)

\* Mutant of signalSettled: the entry is forgotten before it is resolved.
signalSettledForgets(S) ==
    /\ attached' = [e \in Effects |-> IF e \in S THEN {} ELSE attached[e]]
    /\ UNCHANGED <<wpc, wfor>>

\* Resolve the shared entry of every effect in S and forget it.
signalSettled(S) ==
    /\ attached' = [e \in Effects |-> IF e \in S THEN {} ELSE attached[e]]
    /\ wpc' = [x \in Waiters |->
                 IF wpc[x] = "waiting" /\ \E e \in S : x \in attached[e]
                 THEN "done" ELSE wpc[x]]
    /\ UNCHANGED wfor

clearCancellation(e) == signal' = [signal EXCEPT ![e] = "none"]

-----------------------------------------------------------------------------
(***************************************************************************)
(* Writers.  The event sink runs one transaction and its publication at a  *)
(* time, so `post' holds what the last commit has still to signal.         *)
(***************************************************************************)
NextRowid == 1 + Cardinality({e \in Effects : rowid[e] # 0})

\* Rows of thread t that a transaction cancels.
Cancelled(t, types) == {e \in Effects : /\ ThreadOf[e] = t
                                        /\ status[e] \in Unsettled
                                        /\ TypeOf[e] \in types}

\* Mutant of IfAbsent: the insert replaces an existing row.
Upserted(new) == new

\* ON CONFLICT(effect_id) DO NOTHING.
IfAbsent(new) == {e \in new : status[e] = "absent"}

\* One transaction: insert the rows of `new' (at most one here) unless the id
\* exists, then cancel the rows of X.
WriteRows(new, X, delayed) ==
    LET inserted == IfAbsent(new) IN
    /\ status' = [e \in Effects |-> IF e \in X THEN "cancelled"
                                    ELSE IF e \in inserted THEN "pending"
                                    ELSE status[e]]
    /\ owner' = [e \in Effects |-> IF e \in X THEN 0 ELSE owner[e]]
    /\ rowid' = [e \in Effects |->
                   IF e \in inserted THEN NextRowid ELSE rowid[e]]
    /\ later' = [e \in Effects |-> IF e \in inserted THEN delayed ELSE later[e]]
    /\ born' = [e \in Effects |-> IF e \in inserted THEN process ELSE born[e]]
    /\ post' = [signal |-> X, notify |-> Cardinality(new)]
    /\ UNCHANGED attempts

\* A command enqueues an effect.  Only a restart continuation is enqueued
\* again under its id, and only it is ever delayed.
EnqueueCommand(e) ==
    /\ phase \in {"recovered", "up", "closing", "closed"}
    /\ post = NoPost
    /\ \/ status[e] = "absent"
       \/ TypeOf[e] = "provider-runtime.continue" /\ status[e] # "pruned"
    /\ \E delayed \in {FALSE, TypeOf[e] = "provider-runtime.continue"} :
          WriteRows({e}, {}, delayed)
    /\ UNCHANGED <<tokens, signal, waiting, pc, held, lifecycle, faults>>

\* A stop before the provider started abandons the thread's start, and may
\* interrupt another turn or stop delegated tasks in the same transaction.
InterruptCommand(t, new) ==
    LET X == Cancelled(t, {"provider-turn.start", "provider-turn.restart"}) IN
    /\ phase \in {"up", "closing", "closed"}
    /\ post = NoPost
    /\ X # {}
    /\ \A e \in new : /\ ThreadOf[e] = t
                      /\ status[e] = "absent"
                      /\ TypeOf[e] \in {"provider-turn.interrupt",
                                        "delegated-tasks.stop"}
    /\ WriteRows(new, X, FALSE)
    /\ UNCHANGED <<tokens, signal, waiting, pc, held, lifecycle, faults>>

\* Mutants of PublishCommit: running effects are not told, workers are not woken
\* for the work a cancellation frees.
PublishWithoutCancelling ==
    /\ post # NoPost
    /\ signalSettled(post.signal)
    /\ notifyAvailable(Cardinality(post.signal) + post.notify)
    /\ post' = NoPost
    /\ UNCHANGED <<table, signal, pc, held, lifecycle, faults>>

PublishWithoutWaking ==
    /\ post # NoPost
    /\ signal' = [e \in Effects |->
                    IF e \in post.signal /\ signal[e] = "armed"
                    THEN "fired" ELSE signal[e]]
    /\ signalSettled(post.signal)
    /\ notifyAvailable(post.notify)
    /\ post' = NoPost
    /\ UNCHANGED <<table, pc, held, lifecycle, faults>>

\* After COMMIT: fire the cancelled effects' signals, release their waiters,
\* wake the workers.
PublishCommit ==
    /\ post # NoPost
    /\ signal' = [e \in Effects |->
                    IF e \in post.signal /\ signal[e] = "armed"
                    THEN "fired" ELSE signal[e]]
    /\ signalSettled(post.signal)
    /\ notifyAvailable(Cardinality(post.signal) + post.notify)
    /\ post' = NoPost
    /\ UNCHANGED <<table, pc, held, lifecycle, faults>>

\* The retry delay of a row, or the delay it was enqueued with, runs out.
Elapse(e) ==
    /\ later[e]
    /\ later' = [later EXCEPT ![e] = FALSE]
    /\ UNCHANGED <<status, rowid, attempts, owner, born, tokens, signal,
                   waiting, pc, held, post, lifecycle, faults>>

\* pruneSettled deletes rows that settled a week ago; failed rows stay.  A week
\* is longer than any fiber or waiter keeps the row.
Prune(e) ==
    /\ phase \notin {"down", "closed"}
    /\ status[e] \in {"succeeded", "cancelled"}
    /\ e \notin post.signal
    /\ \A w \in Fibers : held[w] # e
    /\ \A x \in Waiters : wpc[x] # "idle" => wfor[x] # e
    /\ Cardinality({f \in Effects : status[f] = "pruned"}) < MaxPruned
    /\ status' = [status EXCEPT ![e] = "pruned"]
    /\ UNCHANGED <<rowid, attempts, later, owner, born, tokens, signal,
                   waiting, pc, held, post, lifecycle, faults>>

-----------------------------------------------------------------------------
(***************************************************************************)
(* A worker fiber: runOnce in the loop of runWorker.                       *)
(***************************************************************************)
\* The fiber goes on to l, and keeps its effect while l is inside the claim.
Goto(w, l) ==
    /\ pc' = [pc EXCEPT ![w] = l]
    /\ held' = [held EXCEPT ![w] = IF l \in BusyPcs THEN @ ELSE NoEffect]

\* A SQL statement fails and the fiber goes to l.
Fault(w, l) ==
    /\ faults < MaxFaults
    /\ faults' = faults + 1
    /\ Goto(w, l)
    /\ UNCHANGED <<table, tokens, signal, waiting, post, lifecycle>>

\* claimNext: lease a claimable row and arm its cancellation signal.
Claim(w, e) ==
    /\ pc[w] = "claiming"
    /\ e \in Claimable
    /\ status' = [status EXCEPT ![e] = "running"]
    /\ attempts' = [attempts EXCEPT ![e] = @ + 1]
    /\ owner' = [owner EXCEPT ![e] = process]
    /\ signal' = [signal EXCEPT ![e] = "armed"]
    /\ pc' = [pc EXCEPT ![w] = "rechecking"]
    /\ held' = [held EXCEPT ![w] = e]
    /\ UNCHANGED <<rowid, later, born, tokens, waiting, post, lifecycle,
                   faults>>

ClaimNothing(w) ==
    /\ pc[w] = "claiming"
    /\ Claimable = {}
    /\ Goto(w, "idle")
    /\ UNCHANGED <<table, tokens, signal, waiting, post, lifecycle, faults>>

ClaimFails(w) == pc[w] = "claiming" /\ Fault(w, "cooling")

\* The durable status is read again once the signal is armed.
Recheck(w) ==
    /\ pc[w] = "rechecking"
    /\ IF status[held[w]] = "cancelled"
       THEN clearCancellation(held[w]) /\ Goto(w, "claiming")
       ELSE UNCHANGED signal /\ Goto(w, "executing")
    /\ UNCHANGED <<table, tokens, waiting, post, lifecycle, faults>>

\* Mutant of RecheckFails: the claim is dropped.
RecheckAbandons(w) == pc[w] = "rechecking" /\ Fault(w, "cooling")

RecheckFails(w) == pc[w] = "rechecking" /\ Fault(w, "requeueing")

\* An interrupt that finds nothing left to interrupt is not retried.
Outcomes(e) ==
    {"succeeding", "failing"} \cup
    (IF TypeOf[e] = "provider-turn.interrupt" THEN {"conceding"} ELSE {})

\* The execution returns before its cancellation does.
ExecutionReturns(w) ==
    /\ pc[w] = "executing"
    /\ \E l \in Outcomes(held[w]) : Goto(w, l)
    /\ clearCancellation(held[w])
    /\ UNCHANGED <<table, tokens, waiting, post, lifecycle, faults>>

\* delegated-tasks.stop fails after thirty seconds.
ExecutionTimesOut(w) ==
    /\ pc[w] = "executing"
    /\ TypeOf[held[w]] = "delegated-tasks.stop"
    /\ Goto(w, "failing")
    /\ clearCancellation(held[w])
    /\ UNCHANGED <<table, tokens, waiting, post, lifecycle, faults>>

\* The cancellation wins the race, and the execution is interrupted.
ExecutionCancelled(w) ==
    /\ pc[w] = "executing"
    /\ signal[held[w]] = "fired"
    /\ Goto(w, "winding")
    /\ UNCHANGED <<table, tokens, signal, waiting, post, lifecycle, faults>>

\* The interrupted execution has run its finalizers.
ExecutionUnwound(w) ==
    /\ pc[w] = "winding"
    /\ Goto(w, "claiming")
    /\ clearCancellation(held[w])
    /\ UNCHANGED <<table, tokens, waiting, post, lifecycle, faults>>

Owns(e) == status[e] = "running" /\ owner[e] = process

\* succeed, fail and retry: conditional on the lease, then the fiber goes to l.
SettleAs(w, s, delayed, l) ==
    LET e == held[w] IN
    /\ Owns(e)
    /\ status' = [status EXCEPT ![e] = s]
    /\ owner' = [owner EXCEPT ![e] = 0]
    /\ later' = [later EXCEPT ![e] = delayed]
    /\ clearCancellation(e)
    /\ IF s = "pending" THEN UNCHANGED waiting ELSE signalSettled({e})
    /\ notifyAvailable(1)
    /\ Goto(w, l)
    /\ UNCHANGED <<rowid, attempts, born, post, lifecycle, faults>>

\* The lease is gone.  A cancelled effect is done; anything else is an error.
LeaseLost(w, l) ==
    /\ ~Owns(held[w])
    /\ IF status[held[w]] = "cancelled" THEN Goto(w, "claiming") ELSE Goto(w, l)
    /\ UNCHANGED <<table, tokens, signal, waiting, post, lifecycle, faults>>

\* requeueClaim and terminalizeClaim only log that the lease is gone.
LeaseLostQuietly(w) ==
    /\ ~Owns(held[w])
    /\ Goto(w, "cooling")
    /\ UNCHANGED <<table, tokens, signal, waiting, post, lifecycle, faults>>

\* Where a settlement that fails after a success is sent.
AfterSuccess(e) ==
    IF TypeOf[e] \in ReplaySafeTypes THEN "requeueing" ELSE "terminalizing"

Succeed(w) ==
    /\ pc[w] = "succeeding"
    /\ \/ SettleAs(w, "succeeded", FALSE, "claiming")
       \/ LeaseLost(w, AfterSuccess(held[w]))
       \/ Fault(w, AfterSuccess(held[w]))

Concede(w) ==
    /\ pc[w] = "conceding"
    /\ \/ SettleAs(w, "succeeded", FALSE, "claiming")
       \/ LeaseLost(w, "cooling")
       \/ Fault(w, "terminalizing")

LastAttempt(e) == attempts[e] >= MaxAttempts

\* The attempt failed: retry with a backoff, or fail on the last attempt.
FailAttempt(w) ==
    /\ pc[w] = "failing"
    /\ \/ /\ LastAttempt(held[w])
          /\ \/ SettleAs(w, "failed", FALSE, "claiming")
             \/ Fault(w, "terminalizing")
       \/ /\ ~LastAttempt(held[w])
          /\ \/ SettleAs(w, "pending", TRUE, "claiming")
             \/ Fault(w, "requeueing")
       \/ LeaseLost(w, "cooling")

\* requeueClaim: a second failure leaves the row leased to nobody.
RequeueClaim(w) ==
    /\ pc[w] = "requeueing"
    /\ \/ SettleAs(w, "pending", FALSE, "cooling")
       \/ LeaseLostQuietly(w)
       \/ Fault(w, "cooling")

TerminalizeClaim(w) ==
    /\ pc[w] = "terminalizing"
    /\ \/ SettleAs(w, "failed", FALSE, "cooling")
       \/ LeaseLostQuietly(w)
       \/ Fault(w, "cooling")

CoolOff(w) ==
    /\ pc[w] = "cooling"
    /\ Goto(w, "claiming")
    /\ UNCHANGED <<table, tokens, signal, waiting, post, lifecycle, faults>>

\* nextClaimableAt: sleep until the next deadline, or for the poll interval when
\* there is none or it cannot be read.
ReadDeadline(w) ==
    /\ pc[w] = "idle"
    /\ Goto(w, IF Candidates = {} THEN "polling" ELSE "timed")
    /\ UNCHANGED <<table, tokens, signal, waiting, post, lifecycle, faults>>

ReadDeadlineFails(w) == pc[w] = "idle" /\ Fault(w, "polling")

\* awaitWork wins the race against the sleep.
WakeNotified(w) ==
    /\ pc[w] \in {"polling", "timed"}
    /\ tokens > 0
    /\ tokens' = tokens - 1
    /\ Goto(w, "claiming")
    /\ UNCHANGED <<table, signal, waiting, post, lifecycle, faults>>

\* The sleep ends.
WakeScheduled(w) ==
    /\ pc[w] \in {"polling", "timed"}
    /\ Goto(w, "claiming")
    /\ UNCHANGED <<table, tokens, signal, waiting, post, lifecycle, faults>>

-----------------------------------------------------------------------------
(***************************************************************************)
(* awaitSettled.  Its caller has seen the row of a restart continuation.   *)
(***************************************************************************)
\* Mutant of Registered: the signal is looked up after the read.
Unregistered(x, e) == attached

Registered(x, e) == [attached EXCEPT ![e] = @ \cup {x}]

\* The signal is registered before the row is read.
AwaitSettled(x, e) ==
    /\ wpc[x] = "idle"
    /\ phase \in {"recovered", "up"}
    /\ TypeOf[e] = "provider-runtime.continue"
    /\ status[e] \in Unsettled \cup Settled
    /\ wfor' = [wfor EXCEPT ![x] = e]
    /\ attached' = Registered(x, e)
    /\ wpc' = [wpc EXCEPT ![x] = "reading"]
    /\ UNCHANGED <<table, tokens, signal, pc, held, post, lifecycle, faults>>

ReadAwaited(x) ==
    LET e == wfor[x] IN
    /\ wpc[x] = "reading"
    /\ IF status[e] \in Unsettled
       THEN /\ wpc' = [wpc EXCEPT ![x] = IF x \in attached[e]
                                        THEN "waiting" ELSE "done"]
            /\ UNCHANGED <<attached, wfor>>
       ELSE /\ attached' = [attached EXCEPT ![e] = {}]
            /\ wpc' = [y \in Waiters |->
                         IF y = x \/ (wpc[y] = "waiting" /\ y \in attached[e])
                         THEN "done" ELSE wpc[y]]
            /\ UNCHANGED wfor
    /\ UNCHANGED <<table, tokens, signal, pc, held, post, lifecycle, faults>>

-----------------------------------------------------------------------------
(***************************************************************************)
(* The process: boot, recovery, daemon, graceful shutdown, crash.          *)
(***************************************************************************)
Boot ==
    /\ phase = "down"
    /\ process < MaxProcesses
    /\ phase' = "recovering"
    /\ process' = process + 1
    /\ UNCHANGED <<table, tokens, signal, waiting, pc, held, post, retired,
                   faults>>

\* reconcileProjection: retire the process-bound effects of a thread, and at
\* startup enqueue the continuation of its interrupted run.
ReconcileThread(t, new) ==
    LET X == Cancelled(t, ProcessBoundTypes) IN
    /\ phase \in {"recovering", "closing"}
    /\ ~retired
    /\ post = NoPost
    /\ X # {} \/ new # {}
    /\ new # {} => phase = "recovering"
    /\ \A e \in new : /\ ThreadOf[e] = t
                      /\ TypeOf[e] = "provider-runtime.continue"
                      /\ status[e] # "pruned"
    /\ WriteRows(new, X, FALSE)
    /\ UNCHANGED <<tokens, signal, waiting, pc, held, lifecycle, faults>>

\* Mutant of LostProcessBound: pending rows are kept.
LostWhileRunning ==
    {e \in Effects : TypeOf[e] \in ProcessBoundTypes /\ status[e] = "running"}

LostProcessBound ==
    {e \in Effects : TypeOf[e] \in ProcessBoundTypes /\ status[e] \in Unsettled}

\* reconcileAfterProcessLoss, first statement.
RetireProcessBound ==
    /\ phase \in {"recovering", "closing"}
    /\ ~retired
    /\ retired' = TRUE
    /\ status' = [e \in Effects |->
                    IF e \in LostProcessBound THEN "cancelled" ELSE status[e]]
    /\ owner' = [e \in Effects |->
                   IF e \in LostProcessBound THEN 0 ELSE owner[e]]
    /\ UNCHANGED <<rowid, attempts, later, born, tokens, signal, waiting, pc,
                   held, post, phase, process, faults>>

\* Mutant of LostReplaySafe: nothing is put back in the queue.
LostForgotten == {}

LostReplaySafe ==
    {e \in Effects : TypeOf[e] \in ReplaySafeTypes /\ status[e] = "running"}

\* reconcileAfterProcessLoss, second statement.
RequeueReplaySafe ==
    /\ retired
    /\ retired' = FALSE
    /\ phase' = IF phase = "recovering" THEN "recovered" ELSE "closed"
    /\ status' = [e \in Effects |->
                    IF e \in LostReplaySafe THEN "pending" ELSE status[e]]
    /\ owner' = [e \in Effects |-> IF e \in LostReplaySafe THEN 0 ELSE owner[e]]
    /\ later' = [e \in Effects |-> later[e] /\ e \notin LostReplaySafe]
    /\ notifyAvailable(Cardinality(LostReplaySafe))
    /\ UNCHANGED <<rowid, attempts, born, signal, waiting, pc, held, post,
                   process, faults>>

StartDaemon ==
    /\ phase = "recovered"
    /\ phase' = "up"
    /\ pc' = [w \in Fibers |-> "claiming"]
    /\ UNCHANGED <<table, tokens, signal, waiting, held, post, retired, process,
                   faults>>

\* Mutant of Shutdown: the fibers keep working while their rows are requeued.
ShutdownWithoutInterrupt ==
    /\ phase = "up"
    /\ process < MaxProcesses
    /\ phase' = "closing"
    /\ UNCHANGED <<table, tokens, signal, waiting, pc, held, post, retired,
                   process, faults>>

\* Graceful shutdown interrupts the fibers; their rows stay leased.
Shutdown ==
    /\ phase = "up"
    /\ process < MaxProcesses
    /\ phase' = "closing"
    /\ pc' = [w \in Fibers |-> "down"]
    /\ held' = [w \in Fibers |-> NoEffect]
    /\ signal' = [e \in Effects |->
                    IF \E w \in Fibers : pc[w] \in ExecutingPcs /\ held[w] = e
                    THEN "none" ELSE signal[e]]
    /\ UNCHANGED <<table, tokens, waiting, post, retired, process, faults>>

\* The process ends, at any point.  Only the table survives.
Crash ==
    /\ phase # "down"
    /\ process < MaxProcesses
    /\ phase' = "down"
    /\ retired' = FALSE
    /\ tokens' = 0
    /\ signal' = [e \in Effects |-> "none"]
    /\ attached' = [e \in Effects |-> {}]
    /\ pc' = [w \in Fibers |-> "down"]
    /\ held' = [w \in Fibers |-> NoEffect]
    /\ post' = NoPost
    /\ wpc' = [x \in Waiters |-> "idle"]
    /\ wfor' = [x \in Waiters |-> NoEffect]
    /\ UNCHANGED <<table, process, faults>>

-----------------------------------------------------------------------------
FiberStep(w) ==
    \/ \E e \in Effects : Claim(w, e)
    \/ ClaimNothing(w) \/ ClaimFails(w)
    \/ Recheck(w) \/ RecheckFails(w)
    \/ ExecutionReturns(w) \/ ExecutionTimesOut(w)
    \/ ExecutionCancelled(w) \/ ExecutionUnwound(w)
    \/ Succeed(w) \/ Concede(w) \/ FailAttempt(w)
    \/ RequeueClaim(w) \/ TerminalizeClaim(w) \/ CoolOff(w)
    \/ ReadDeadline(w) \/ ReadDeadlineFails(w)
    \/ WakeNotified(w) \/ WakeScheduled(w)

AtMostOne(S) == {{}} \cup {{e} : e \in S}

WriterStep ==
    \/ \E e \in Effects : EnqueueCommand(e) \/ Elapse(e) \/ Prune(e)
    \/ \E t \in Threads, new \in AtMostOne(Effects) :
          InterruptCommand(t, new) \/ ReconcileThread(t, new)
    \/ PublishCommit

WaiterStep(x) == ReadAwaited(x) \/ \E e \in Effects : AwaitSettled(x, e)

ProcessStep ==
    \/ Boot \/ RetireProcessBound \/ RequeueReplaySafe \/ StartDaemon
    \/ Shutdown \/ Crash

Next ==
    \/ \E w \in Fibers : FiberStep(w)
    \/ WriterStep
    \/ \E x \in Waiters : WaiterStep(x)
    \/ ProcessStep

Spec == Init /\ [][Next]_vars

(***************************************************************************)
(* Fairness.  Fibers, timers and post-commit work are scheduled by the     *)
(* runtime, and the host starts the server again.  Nothing makes an        *)
(* execution return, or makes an interrupted one finish its finalizers:    *)
(* only delegated-tasks.stop has a timeout.                                *)
(***************************************************************************)
FiberProgress(w) ==
    \/ \E e \in Effects : Claim(w, e)
    \/ ClaimNothing(w) \/ Recheck(w)
    \/ ExecutionTimesOut(w) \/ ExecutionCancelled(w)
    \/ Succeed(w) \/ Concede(w) \/ FailAttempt(w)
    \/ RequeueClaim(w) \/ TerminalizeClaim(w) \/ CoolOff(w)
    \/ ReadDeadline(w) \/ WakeScheduled(w)

ProcessProgress ==
    Boot \/ RetireProcessBound \/ RequeueReplaySafe \/ StartDaemon
         \/ (phase = "closed" /\ Crash)

Fairness ==
    /\ \A w \in Fibers : WF_vars(FiberProgress(w))
    /\ \A e \in Effects : WF_vars(Elapse(e))
    /\ \A x \in Waiters : WF_vars(ReadAwaited(x))
    /\ WF_vars(PublishCommit)
    /\ WF_vars(ProcessProgress)

FairSpec == Spec /\ Fairness

-----------------------------------------------------------------------------
(***************************************************************************)
(* Properties.                                                             *)
(***************************************************************************)
TableOK ==
    /\ status \in [Effects -> Statuses]
    /\ rowid \in [Effects -> Nat]
    /\ attempts \in [Effects -> Nat]
    /\ later \in [Effects -> BOOLEAN]
    /\ owner \in [Effects -> Nat]
    /\ born \in [Effects -> Nat]

SignalsOK ==
    /\ tokens \in 0..QueueCapacity
    /\ signal \in [Effects -> {"none", "armed", "fired"}]
    /\ post.signal \in SUBSET Effects
    /\ post.notify \in {0, 1}

FibersOK ==
    /\ pc \in [Fibers -> FreePcs \cup BusyPcs]
    /\ held \in [Fibers -> Effects \cup {NoEffect}]
    /\ \A w \in Fibers : pc[w] \in BusyPcs <=> held[w] # NoEffect

WaitersOK ==
    /\ attached \in [Effects -> SUBSET Waiters]
    /\ wpc \in [Waiters -> {"idle", "reading", "waiting", "done"}]
    /\ wfor \in [Waiters -> Effects \cup {NoEffect}]
    /\ \A x \in Waiters : wpc[x] = "idle" <=> wfor[x] = NoEffect

ProcessOK ==
    /\ phase \in Phases
    /\ retired \in BOOLEAN
    /\ process \in Nat
    /\ faults \in Nat
    /\ retired => phase \in {"recovering", "closing"}
    /\ phase # "up" => \A w \in Fibers : pc[w] = "down"

\* Every variable has its type, a fiber or a waiter names an effect exactly while
\* it works on one, and fibers exist only while the daemon is up.
TypeOK == TableOK /\ SignalsOK /\ FibersOK /\ WaitersOK /\ ProcessOK

\* At most one row of a lane is running, through retries, cancellations,
\* requeues and restarts: "a running effect blocks later work on its thread"
\* (EffectWorker.ts).
LaneExclusive ==
    \A e, f \in Effects :
        e # f /\ SameLane(e, f) =>
            ~(status[e] = "running" /\ status[f] = "running")

\* Once an effect has been attempted, every effect inserted before it in its
\* lane has settled for good.  A retry's backoff and a requeue after a restart
\* keep the place in line: "turns cannot race a pending rollback".
InOrder ==
    \A e, f \in Effects :
        /\ SameLane(e, f)
        /\ 0 < rowid[e] /\ rowid[e] < rowid[f]
        /\ attempts[f] > 0
        => status[e] \notin Unsettled

\* The fiber that works on an effect is the only one that does, and it still has
\* the lease unless the effect was cancelled under it.  The worker id names the
\* process, so the lease check alone cannot tell two fibers apart.
OneHolder ==
    \A w \in Fibers : held[w] # NoEffect =>
        /\ Owns(held[w]) \/ status[held[w]] = "cancelled"
        /\ \A v \in Fibers \ {w} : held[v] # held[w]

\* A running row of the live process is being worked on, unless a statement and
\* then the one that should have recovered from it both failed.
NoOrphanedLease ==
    phase = "up" =>
        \A e \in Effects : status[e] = "running" =>
            (\E w \in Fibers : held[w] = e) \/ faults >= 2

\* Two executions overlap in one lane only while a cancelled one is being
\* interrupted.
OnlyCancelledOverlap ==
    \A v, w \in Fibers :
        /\ v # w
        /\ pc[v] \in ExecutingPcs /\ pc[w] \in ExecutingPcs
        /\ SameLane(held[v], held[w])
        => status[held[v]] = "cancelled" \/ status[held[w]] = "cancelled"

\* A cancellation that commits after the claim is never lost: the execution it is
\* meant for has its signal fired, or the committer is about to fire it.
CancellationArrives ==
    \A w \in Fibers :
        pc[w] = "executing" /\ status[held[w]] = "cancelled" =>
            signal[held[w]] = "fired" \/ held[w] \in post.signal

\* After recovery no effect bound to an earlier process can run: the provider
\* session it talked to is gone.
ProcessBoundDies ==
    phase \in {"recovered", "up"} =>
        \A e \in Effects :
            TypeOf[e] \in ProcessBoundTypes /\ status[e] \in Unsettled =>
                born[e] = process

\* No row is waiting for a deadline or has waited for one.
NothingDelayed ==
    \A e \in Effects :
        /\ attempts[e] <= 1
        /\ attempts[e] = 1 => status[e] # "pending"
        /\ TypeOf[e] = "provider-runtime.continue" => rowid[e] = 0

\* Until some effect is delayed, a claimable effect is never left to the
\* thirty-second poll: a worker is awake or about to be notified, or all are
\* executing.  (A fiber that sleeps until a deadline can spend a notification on
\* the effect whose deadline passed, so afterwards only the poll is certain.)
NoLostWakeup ==
    /\ faults = 0
    /\ phase = "up"
    /\ NothingDelayed
    /\ Claimable # {}
    /\ \E w \in Fibers : pc[w] = "polling"
    => \/ tokens > 0
       \/ post # NoPost
       \/ \E w \in Fibers : pc[w] \notin {"polling", "executing"}

\* awaitSettled returns only after its effect has settled, and a caller that is
\* parked on the signal cannot miss it.
AwaitSettledExact ==
    \A x \in Waiters :
        /\ wpc[x] = "done" => status[wfor[x]] \notin Unsettled
        /\ wpc[x] = "waiting" => \/ status[wfor[x]] \in Unsettled
                                 \/ wfor[x] \in post.signal

\* A settled effect is never reopened or settled differently: a late success does
\* not overwrite a cancellation, a redelivered enqueue does not restart the row.
SettledIsFinal ==
    [][\A e \in Effects : status[e] \in Settled =>
          \/ status'[e] = status[e]
          \/ status'[e] = "pruned" /\ status[e] # "failed"]_vars

\* The executions of e's lane keep returning, and some fiber keeps returning.
LaneReturns(e) ==
    /\ \A w \in Fibers : []<>~(pc[w] \in ExecutingPcs /\ SameLane(held[w], e))
    /\ []<>(\E w \in Fibers : pc[w] \notin ExecutingPcs)

\* An enqueued effect settles, across retries, cancellations and a restart, if the
\* executions of its own lane return and other lanes do not occupy every fiber.
EventuallySettles ==
    \A e \in Effects :
        LaneReturns(e) =>
            (status[e] \in Unsettled ~> status[e] \notin Unsettled)

\* A caller of awaitSettled returns when its effect settles, or ends with the
\* process.
WaiterReturns ==
    \A x \in Waiters :
        (wpc[x] # "idle" /\ status[wfor[x]] \notin Unsettled)
            ~> wpc[x] \in {"done", "idle"}
=============================================================================
