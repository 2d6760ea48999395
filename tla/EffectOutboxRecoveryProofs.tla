--------------------- MODULE EffectOutboxRecoveryProofs ---------------------
(***************************************************************************)
(* Further theorems about EffectOutbox: what cancellation, the loss of the *)
(* process and failed statements leave behind, and what a waiter may rely  *)
(* on.                                                                     *)
(***************************************************************************)
EXTENDS EffectOutboxProofs

Faulted == {"requeueing", "terminalizing"}

(***************************************************************************)
(* The steps of a fiber by what they do to the table, the signals and the  *)
(* claim.                                                                  *)
(***************************************************************************)
Settles(w) ==
    /\ pc[w] \in SettlingPcs
    /\ \E s \in {"pending", "succeeded", "failed"}, d \in BOOLEAN, l \in FreePcs :
          SettleAs(w, s, d, l)

FindsLeaseGone(w) ==
    /\ pc[w] \in SettlingPcs
    /\ ~Owns(held[w])
    /\ \E l \in FreePcs \cup Faulted :
          /\ Goto(w, l)
          /\ status[held[w]] = "cancelled" => l \in FreePcs
    /\ UNCHANGED <<table, tokens, signal, waiting, post, lifecycle, faults>>

Stumbles(w) ==
    \E l \in FreePcs \cup Faulted :
        /\ Fault(w, l)
        /\ \/ pc[w] \in Faulted /\ l = "cooling"
           \/ pc[w] \in {"rechecking", "succeeding", "conceding", "failing"} /\ l \in Faulted
           \/ pc[w] \in FreePcs \ {"down"} /\ l \in FreePcs

Idles(w) ==
    /\ pc[w] \in FreePcs \ {"down"}
    /\ \E l \in FreePcs : Goto(w, l)
    /\ UNCHANGED <<table, signal, waiting, post, lifecycle, faults>>

LEMMA FiberStepCases ==
    ASSUME NEW w \in Fibers, FiberStep(w)
    PROVE  \/ \E e \in Effects : Claim(w, e)
           \/ Settles(w) \/ FindsLeaseGone(w) \/ Stumbles(w) \/ Idles(w)
           \/ Recheck(w) \/ ExecutionReturns(w) \/ ExecutionTimesOut(w)
           \/ ExecutionCancelled(w) \/ ExecutionUnwound(w)
<1> USE DEF FreePcs, SettlingPcs, Faulted
<1>1. CASE ClaimNothing(w) \/ CoolOff(w) \/ ReadDeadline(w) \/ WakeNotified(w) \/ WakeScheduled(w)
  BY <1>1 DEF ClaimNothing, CoolOff, ReadDeadline, WakeNotified, WakeScheduled, Idles
<1>2. CASE ClaimFails(w) \/ RecheckFails(w) \/ ReadDeadlineFails(w)
  BY <1>2 DEF ClaimFails, RecheckFails, ReadDeadlineFails, Stumbles
<1>3. CASE Succeed(w)
  <2>1. AfterSuccess(held[w]) \in Faulted
    BY DEF AfterSuccess
  <2> QED BY <1>3, <2>1 DEF Succeed, Settles, LeaseLost, FindsLeaseGone, Stumbles
<1>4. CASE Concede(w)
  BY <1>4 DEF Concede, Settles, LeaseLost, FindsLeaseGone, Stumbles
<1>5. CASE FailAttempt(w)
  BY <1>5 DEF FailAttempt, Settles, LeaseLost, FindsLeaseGone, Stumbles
<1>6. CASE RequeueClaim(w) \/ TerminalizeClaim(w)
  BY <1>6 DEF RequeueClaim, TerminalizeClaim, Settles, LeaseLostQuietly, FindsLeaseGone, Stumbles
<1> QED BY <1>1, <1>2, <1>3, <1>4, <1>5, <1>6 DEF FiberStep

Writes(new, X, d) ==
    /\ WriteRows(new, X, d)
    /\ post = NoPost
    /\ \A e \in X : status[e] \in Unsettled
    /\ UNCHANGED <<tokens, signal, waiting, pc, held, lifecycle, faults>>

LEMMA WriterStepCases ==
    ASSUME WriterStep
    PROVE  \/ \E new \in AtMostOne(Effects), X \in SUBSET Effects, d \in BOOLEAN : Writes(new, X, d)
           \/ \E e \in Effects : Elapse(e) \/ Prune(e)
           \/ PublishCommit
<1>1. ASSUME NEW e \in Effects, EnqueueCommand(e)
      PROVE  \E new \in AtMostOne(Effects), X \in SUBSET Effects, d \in BOOLEAN : Writes(new, X, d)
  <2>1. {e} \in AtMostOne(Effects) /\ {} \in SUBSET Effects
    BY DEF AtMostOne
  <2>2. PICK d \in BOOLEAN : WriteRows({e}, {}, d)
    BY <1>1 DEF EnqueueCommand
  <2>3. Writes({e}, {}, d)
    BY <1>1, <2>2 DEF EnqueueCommand, Writes
  <2> QED BY <2>1, <2>3
<1>2. ASSUME NEW t \in Threads, NEW new \in AtMostOne(Effects),
             InterruptCommand(t, new) \/ ReconcileThread(t, new)
      PROVE  \E X \in SUBSET Effects, d \in BOOLEAN : Writes(new, X, d)
  <2>1. \A types : Cancelled(t, types) \in SUBSET Effects
                   /\ \A e \in Cancelled(t, types) : status[e] \in Unsettled
    BY DEF Cancelled
  <2>2. PICK types : WriteRows(new, Cancelled(t, types), FALSE)
    BY <1>2 DEF InterruptCommand, ReconcileThread
  <2>3. Writes(new, Cancelled(t, types), FALSE)
    BY <1>2, <2>1, <2>2 DEF InterruptCommand, ReconcileThread, Writes
  <2> QED BY <2>1, <2>3
<1> QED BY <1>1, <1>2 DEF WriterStep

\* What a transaction does to a row: nothing, its insertion, or its cancellation.
LEMMA WrittenRows ==
    ASSUME TypeOK, NEW new \in AtMostOne(Effects), NEW X \in SUBSET Effects, NEW d \in BOOLEAN,
           Writes(new, X, d), NEW e \in Effects
    PROVE  \/ e \in X /\ status[e] \in Unsettled /\ status'[e] = "cancelled" /\ born'[e] = born[e]
           \/ e \notin X /\ status'[e] = status[e] /\ born'[e] = born[e]
           \/ status[e] = "absent" /\ status'[e] = "pending" /\ born'[e] = process
BY DEF Writes, WriteRows, IfAbsent, Unsettled

-----------------------------------------------------------------------------
(***************************************************************************)
(* Effects bound to a lost process.                                        *)
(***************************************************************************)
\* From the first statement of the recovery on, whatever is bound to a process and not
\* settled was enqueued by the present one.
BornHere ==
    phase \in {"recovered", "up"} \/ (phase = "recovering" /\ retired) =>
        \A e \in Effects :
            TypeOf[e] \in ProcessBoundTypes /\ status[e] \in Unsettled => born[e] = process

LEMMA FiberStepBorn ==
    ASSUME OutboxAssumption, TypeOK, BornHere, NEW w \in Fibers, FiberStep(w)
    PROVE  BornHere'
<1>1. born' = born /\ UNCHANGED lifecycle
  BY FiberStepCases DEF Claim, Settles, SettleAs, FindsLeaseGone, Stumbles, Fault, Idles, Recheck,
     ExecutionReturns, ExecutionTimesOut, ExecutionCancelled, ExecutionUnwound, table
<1>2. \A e \in Effects : status'[e] \in Unsettled => status[e] \in Unsettled
  <2>1. ASSUME NEW e \in Effects, Claim(w, e)
        PROVE  \A f \in Effects : status'[f] \in Unsettled => status[f] \in Unsettled
    BY <2>1 DEF Claim, Claimable, Candidates, Unsettled, TypeOK, TableOK
  <2>2. CASE ~ \E e \in Effects : Claim(w, e)
    BY <2>2, FiberStepCalm DEF Calm
  <2> QED BY <2>1, <2>2
<1> QED BY <1>1, <1>2 DEF BornHere, lifecycle

LEMMA WriterStepBorn ==
    ASSUME TypeOK, BornHere, WriterStep
    PROVE  BornHere'
<1>1. ASSUME NEW new \in AtMostOne(Effects), NEW X \in SUBSET Effects, NEW d \in BOOLEAN,
             Writes(new, X, d)
      PROVE  BornHere'
  <2>1. UNCHANGED lifecycle
    BY <1>1 DEF Writes
  <2>2. \A e \in Effects : status'[e] \in Unsettled =>
            (status[e] \in Unsettled /\ born'[e] = born[e]) \/ born'[e] = process
    BY <1>1, WrittenRows DEF Unsettled
  <2> QED BY <2>1, <2>2 DEF BornHere, lifecycle
<1>2. ASSUME NEW e \in Effects, Elapse(e) \/ Prune(e)
      PROVE  BornHere'
  BY <1>2 DEF Elapse, Prune, BornHere, lifecycle, Unsettled, TypeOK, TableOK
<1>3. CASE PublishCommit
  BY <1>3 DEF PublishCommit, BornHere, lifecycle, table
<1> QED BY <1>1, <1>2, <1>3, WriterStepCases

LEMMA ProcessStepBorn ==
    ASSUME OutboxAssumption, TypeOK, BornHere, ProcessStep
    PROVE  BornHere'
<1>1. CASE Boot
  BY <1>1 DEF Boot, BornHere, TypeOK, ProcessOK
<1>2. CASE RetireProcessBound
  BY <1>2 DEF RetireProcessBound, LostProcessBound, BornHere, Unsettled
<1>3. CASE RequeueReplaySafe
  <2>1. phase' \in {"recovered", "up"} => phase = "recovering" /\ retired
    BY <1>3 DEF RequeueReplaySafe, TypeOK, ProcessOK
  <2>2. ReplaySafeTypes \cap ProcessBoundTypes = {}
    BY DEF ReplaySafeTypes, ProcessBoundTypes
  <2> QED BY <1>3, <2>1, <2>2 DEF RequeueReplaySafe, LostReplaySafe, BornHere
<1>4. CASE StartDaemon
  BY <1>4 DEF StartDaemon, BornHere, table
<1>5. CASE Shutdown \/ Crash
  BY <1>5 DEF Shutdown, Crash, BornHere
<1> QED BY <1>1, <1>2, <1>3, <1>4, <1>5 DEF ProcessStep

\* After recovery no effect bound to an earlier process is left to run: turns are not started,
\* steered or answered in a session that is gone (reconcileAfterProcessLoss).
THEOREM LostProcessDies == Spec => []ProcessBoundDies
<1>1. Init => BornHere
  BY DEF Init, BornHere
<1>2. TypeOK /\ BornHere /\ [Next]_vars => BornHere'
  <2> SUFFICES ASSUME TypeOK, BornHere, [Next]_vars
               PROVE  BornHere'
    OBVIOUS
  <2>1. ASSUME NEW x \in Waiters, WaiterStep(x)
        PROVE  BornHere'
    BY <2>1 DEF WaiterStep, ReadAwaited, AwaitSettled, table, lifecycle, BornHere
  <2>2. CASE UNCHANGED vars
    BY <2>2 DEF vars, table, lifecycle, BornHere
  <2> QED BY <2>1, <2>2, FiberStepBorn, WriterStepBorn, ProcessStepBorn, OutboxAssumption DEF Next
<1>3. BornHere => ProcessBoundDies
  BY DEF BornHere, ProcessBoundDies
<1> QED BY <1>1, <1>2, <1>3, TypeCorrect, PTL DEF Spec

-----------------------------------------------------------------------------
(***************************************************************************)
(* Cancellation signals.                                                   *)
(***************************************************************************)
\* What a fiber may rely on while it works on an effect.
FiberSignalled(w) ==
    /\ pc[w] \in {"rechecking", "executing"} => signal[held[w]] # "none"
    /\ pc[w] = "winding" => status[held[w]] = "cancelled"
    /\ pc[w] = "executing" /\ status[held[w]] = "cancelled" =>
          signal[held[w]] = "fired" \/ held[w] \in post.signal

\* A signal is announced and fired only for rows that were cancelled, and it is armed
\* for as long as an execution can listen to it.
SignalsTrue ==
    /\ \A e \in post.signal : status[e] = "cancelled"
    /\ \A e \in Effects : signal[e] = "fired" => status[e] \in Settled \cup {"pruned"}
    /\ \A w \in Fibers : FiberSignalled(w)

\* A step of one fiber leaves the others and their effects alone.
LEMMA OthersLeft ==
    ASSUME OutboxAssumption, TypeOK, OneHolder, NEW w \in Fibers, FiberStep(w),
           NEW v \in Fibers \ {w}
    PROVE  /\ pc'[v] = pc[v] /\ held'[v] = held[v]
           /\ held[v] # NoEffect => /\ status'[held[v]] = status[held[v]]
                                    /\ signal'[held[v]] = signal[held[v]]
<1> USE DEF TypeOK, TableOK, SignalsOK, FibersOK
<1>0. pc[w] \in BusyPcs => held[w] \in Effects /\ held[v] # held[w]
  BY DEF OneHolder
<1>1. ASSUME NEW e \in Effects, Claim(w, e)
      PROVE  held[v] # e /\ pc'[v] = pc[v] /\ held'[v] = held[v]
               /\ status' = [status EXCEPT ![e] = "running"]
               /\ signal' = [signal EXCEPT ![e] = "armed"]
  <2>1. status[e] = "pending" /\ e # NoEffect
    BY <1>1 DEF Claim, Claimable, Candidates, OutboxAssumption
  <2> QED BY <1>1, <2>1 DEF Claim, OneHolder, Owns
<1>2. CASE Settles(w)
  BY <1>0, <1>2 DEF Settles, SettleAs, Goto, clearCancellation, BusyPcs
<1>3. CASE FindsLeaseGone(w) \/ Stumbles(w) \/ Idles(w)
  BY <1>3 DEF FindsLeaseGone, Stumbles, Fault, Idles, Goto, table
<1>4. CASE Recheck(w) \/ ExecutionReturns(w) \/ ExecutionTimesOut(w) \/ ExecutionUnwound(w)
  BY <1>0, <1>4 DEF Recheck, ExecutionReturns, ExecutionTimesOut, ExecutionUnwound, Goto,
                    clearCancellation, table, BusyPcs, ExecutingPcs
<1>5. CASE ExecutionCancelled(w)
  BY <1>5 DEF ExecutionCancelled, Goto, table
<1> QED BY <1>1, <1>2, <1>3, <1>4, <1>5, FiberStepCases

\* The fiber that steps can rely on its effect's signal afterwards.
LEMMA FiberStepOwn ==
    ASSUME OutboxAssumption, TypeOK, OneHolder, SignalsTrue, NEW w \in Fibers, FiberStep(w)
    PROVE  FiberSignalled(w)'
<1> USE DEF TypeOK, FibersOK, FiberSignalled
<1>1. ASSUME NEW e \in Effects, Claim(w, e)
      PROVE  FiberSignalled(w)'
  BY <1>1 DEF Claim, SignalsOK
<1>2. ASSUME NEW l \in FreePcs \cup SettlingPcs, Goto(w, l)
      PROVE  FiberSignalled(w)'
  BY <1>2 DEF Goto, FreePcs, SettlingPcs
<1>3. CASE Settles(w) \/ FindsLeaseGone(w) \/ Stumbles(w) \/ Idles(w)
  BY <1>2, <1>3 DEF Settles, SettleAs, FindsLeaseGone, Stumbles, Fault, Idles, Faulted, SettlingPcs
<1>4. CASE Recheck(w)
  <2>1. CASE status[held[w]] = "cancelled"
    BY <1>2, <1>4, <2>1 DEF Recheck, FreePcs
  <2>2. CASE status[held[w]] # "cancelled"
    <3>1. pc'[w] = "executing" /\ held'[w] = held[w] /\ signal' = signal /\ status' = status
      BY <1>4, <2>2 DEF Recheck, Goto, table, BusyPcs, ExecutingPcs
    <3>2. signal[held[w]] # "none"
      BY <1>4 DEF Recheck, SignalsTrue
    <3> QED BY <2>2, <3>1, <3>2
  <2> QED BY <2>1, <2>2
<1>5. CASE ExecutionReturns(w) \/ ExecutionTimesOut(w) \/ ExecutionUnwound(w)
  <2>1. \A e : Outcomes(e) \subseteq SettlingPcs
    BY DEF Outcomes, SettlingPcs
  <2> QED BY <1>2, <1>5, <2>1 DEF ExecutionReturns, ExecutionTimesOut, ExecutionUnwound, FreePcs, SettlingPcs
<1>6. CASE ExecutionCancelled(w)
  <2>1. held[w] \in Effects /\ held[w] # NoEffect
    BY <1>6 DEF ExecutionCancelled, BusyPcs, ExecutingPcs
  <2>2. status[held[w]] = "cancelled"
    BY <1>6, <2>1 DEF ExecutionCancelled, SignalsTrue, OneHolder, Owns, Settled
  <2>3. pc'[w] = "winding" /\ held'[w] = held[w] /\ status' = status
    BY <1>6 DEF ExecutionCancelled, Goto, table, BusyPcs, ExecutingPcs
  <2> QED BY <2>2, <2>3
<1> QED BY <1>1, <1>3, <1>4, <1>5, <1>6, FiberStepCases

LEMMA FiberStepSignals ==
    ASSUME OutboxAssumption, TypeOK, OneHolder, SignalsTrue, NEW w \in Fibers, FiberStep(w)
    PROVE  SignalsTrue'
<1>1. post' = post
  BY FiberStepCases DEF Claim, Settles, SettleAs, FindsLeaseGone, Stumbles, Fault, Idles, Recheck,
     ExecutionReturns, ExecutionTimesOut, ExecutionCancelled, ExecutionUnwound
<1>2. \A e \in Effects : signal'[e] = "fired" => signal[e] = "fired"
  BY FiberStepCases DEF Claim, Settles, SettleAs, FindsLeaseGone, Stumbles, Fault, Idles, Recheck,
     ExecutionReturns, ExecutionTimesOut, ExecutionCancelled, ExecutionUnwound, clearCancellation,
     TypeOK, SignalsOK
<1>3. \A e \in Effects : status[e] \in Settled \cup {"pruned"} => status'[e] = status[e]
  <2>1. ASSUME NEW f \in Effects, Claim(w, f)
        PROVE  \A e \in Effects : status[e] \in Settled \cup {"pruned"} => status'[e] = status[e]
    BY <2>1 DEF Claim, Claimable, Candidates, Settled, TypeOK, TableOK
  <2>2. CASE Settles(w)
    BY <2>2 DEF Settles, SettleAs, Owns, Settled, TypeOK, TableOK
  <2>3. CASE ~Settles(w) /\ ~ \E f \in Effects : Claim(w, f)
    BY <2>3, FiberStepCases DEF FindsLeaseGone, Stumbles, Fault, Idles, Recheck, ExecutionReturns,
       ExecutionTimesOut, ExecutionCancelled, ExecutionUnwound, table
  <2> QED BY <2>1, <2>2, <2>3
<1>4. \A e \in post'.signal : status'[e] = "cancelled"
  BY <1>1, <1>3 DEF SignalsTrue, Settled, TypeOK, SignalsOK
<1>5. \A e \in Effects : signal'[e] = "fired" => status'[e] \in Settled \cup {"pruned"}
  BY <1>2, <1>3 DEF SignalsTrue
<1>6. ASSUME NEW v \in Fibers
      PROVE  FiberSignalled(v)'
  <2>1. CASE v = w
    BY <2>1, FiberStepOwn
  <2>2. CASE v # w
    <3>1. pc[v] \in {"rechecking", "executing", "winding"} => held[v] # NoEffect
      BY DEF TypeOK, FibersOK, BusyPcs, ExecutingPcs
    <3> QED BY <1>1, <2>2, <3>1, OthersLeft DEF SignalsTrue, FiberSignalled
  <2> QED BY <2>1, <2>2
<1> QED BY <1>4, <1>5, <1>6 DEF SignalsTrue

LEMMA WriterStepSignals ==
    ASSUME OutboxAssumption, TypeOK, OneHolder, SignalsTrue, WriterStep
    PROVE  SignalsTrue'
<1>0. \A w \in Fibers : pc[w] \in BusyPcs =>
          held[w] \in Effects /\ status[held[w]] \in {"running", "cancelled"}
  BY DEF TypeOK, FibersOK, OneHolder, Owns
<1> USE DEF BusyPcs, ExecutingPcs
<1>1. ASSUME NEW new \in AtMostOne(Effects), NEW X \in SUBSET Effects, NEW d \in BOOLEAN,
             Writes(new, X, d)
      PROVE  SignalsTrue'
  <2>1. /\ UNCHANGED <<signal, pc, held>>
        /\ post.signal = {}
        /\ post'.signal = X
        /\ \A e \in X : status'[e] = "cancelled"
    BY <1>1 DEF Writes, WriteRows, NoPost
  <2>2. \A e \in Effects : signal[e] = "fired" => status'[e] \in Settled \cup {"pruned"}
    BY <1>1, WrittenRows DEF SignalsTrue, Settled
  <2>3. \A w \in Fibers : FiberSignalled(w)'
    BY <1>0, <1>1, <2>1, WrittenRows DEF SignalsTrue, FiberSignalled
  <2> QED BY <2>1, <2>2, <2>3 DEF SignalsTrue
<1>2. ASSUME NEW e \in Effects, Elapse(e)
      PROVE  SignalsTrue'
  BY <1>2 DEF Elapse, SignalsTrue, FiberSignalled
<1>3. ASSUME NEW e \in Effects, Prune(e)
      PROVE  SignalsTrue'
  <2>1. /\ UNCHANGED <<signal, pc, held, post>>
        /\ \A f \in Effects \ {e} : status'[f] = status[f]
        /\ status'[e] = "pruned"
        /\ e \notin post.signal
        /\ \A w \in Fibers : held[w] # e
    BY <1>3 DEF Prune, TypeOK, TableOK
  <2>2. post.signal \subseteq Effects
    BY DEF TypeOK, SignalsOK
  <2>3. \A w \in Fibers : FiberSignalled(w)'
    BY <1>0, <2>1 DEF SignalsTrue, FiberSignalled
  <2> QED BY <2>1, <2>2, <2>3 DEF SignalsTrue
<1>4. CASE PublishCommit
  <2>1. /\ UNCHANGED <<status, pc, held>>
        /\ post'.signal = {}
        /\ \A e \in Effects : signal'[e] = IF e \in post.signal /\ signal[e] = "armed"
                                           THEN "fired" ELSE signal[e]
    BY <1>4 DEF PublishCommit, table, NoPost
  <2>2. \A w \in Fibers : FiberSignalled(w)'
    BY <1>0, <2>1 DEF SignalsTrue, FiberSignalled, TypeOK, SignalsOK
  <2> QED BY <2>1, <2>2 DEF SignalsTrue, Settled
<1> QED BY <1>1, <1>2, <1>3, <1>4, WriterStepCases

\* No fiber is busy outside the phase "up".
LEMMA ProcessStepSignals ==
    ASSUME OutboxAssumption, TypeOK, SignalsTrue, ProcessStep
    PROVE  SignalsTrue'
<1>1. \A w \in Fibers : pc'[w] \in {"down", "claiming"}
  BY DEF ProcessStep, Boot, RetireProcessBound, RequeueReplaySafe, StartDaemon, Shutdown, Crash,
         TypeOK, ProcessOK, FibersOK
<1>2. \A w \in Fibers : FiberSignalled(w)'
  BY <1>1 DEF FiberSignalled
<1>3. post'.signal \subseteq post.signal
  BY DEF ProcessStep, Boot, RetireProcessBound, RequeueReplaySafe, StartDaemon, Shutdown, Crash, NoPost
<1>4. \A e \in Effects : signal'[e] = "fired" => signal[e] = "fired"
  BY DEF ProcessStep, Boot, RetireProcessBound, RequeueReplaySafe, StartDaemon, Shutdown, Crash
<1>5. \A e \in Effects : status[e] \in Settled \cup {"pruned"} => status'[e] = status[e]
  BY DEF ProcessStep, Boot, RetireProcessBound, RequeueReplaySafe, StartDaemon, Shutdown, Crash,
         LostProcessBound, LostReplaySafe, Settled, Unsettled, table
<1>6. post.signal \subseteq Effects
  BY DEF TypeOK, SignalsOK
<1> QED BY <1>2, <1>3, <1>4, <1>5, <1>6 DEF SignalsTrue, Settled

LEMMA SignalsInvariant == Spec => []SignalsTrue
<1>1. Init => SignalsTrue
  BY DEF Init, SignalsTrue, FiberSignalled, NoPost
<1>2. TypeOK /\ OneHolder /\ SignalsTrue /\ [Next]_vars => SignalsTrue'
  <2> SUFFICES ASSUME TypeOK, OneHolder, SignalsTrue, [Next]_vars
               PROVE  SignalsTrue'
    OBVIOUS
  <2>1. ASSUME NEW x \in Waiters, WaiterStep(x)
        PROVE  SignalsTrue'
    BY <2>1 DEF WaiterStep, ReadAwaited, AwaitSettled, table, SignalsTrue, FiberSignalled
  <2>2. CASE UNCHANGED vars
    BY <2>2 DEF vars, table, SignalsTrue, FiberSignalled
  <2> QED BY <2>1, <2>2, FiberStepSignals, WriterStepSignals, ProcessStepSignals, OutboxAssumption DEF Next
<1> QED BY <1>1, <1>2, TypeCorrect, SingleHolder, PTL DEF Spec

\* A cancellation that commits after the claim reaches the execution it is meant for, however
\* the commit, the re-read of the row and the start of the execution interleave.
THEOREM CancellationNotLost == Spec => []CancellationArrives
<1>1. SignalsTrue => CancellationArrives
  BY DEF SignalsTrue, FiberSignalled, CancellationArrives
<1> QED BY <1>1, SignalsInvariant, PTL

-----------------------------------------------------------------------------
(***************************************************************************)
(* Callers of awaitSettled.                                                *)
(***************************************************************************)
\* A waiter waits for a row that exists and that no recovery cancels silently; it shares
\* the row's entry from before it reads the row until that is settled.
Awaits(x) ==
    LET e == wfor[x] IN
    /\ wpc[x] # "idle" => /\ TypeOf[e] = "provider-runtime.continue"
                          /\ status[e] \in Unsettled \cup Settled
    /\ wpc[x] = "reading" /\ status[e] \in Unsettled => x \in attached[e]
    /\ wpc[x] = "waiting" => /\ x \in attached[e]
                             /\ status[e] \in Unsettled \/ e \in post.signal
    /\ wpc[x] = "done" => status[e] \notin Unsettled

AwaitsRight ==
    /\ \A x \in Waiters : Awaits(x)
    /\ \A e \in Effects, x \in Waiters : x \in attached[e] => wfor[x] = e

\* No waiter is affected by what leaves its row as it is, or unsettled.
LEMMA AwaitsKept ==
    ASSUME TypeOK, AwaitsRight, UNCHANGED waiting, post.signal \subseteq post'.signal,
           \A e \in Effects :
              TypeOf[e] = "provider-runtime.continue" /\ (\E x \in Waiters : wfor[x] = e) =>
                  \/ status'[e] = status[e]
                  \/ status[e] \in Unsettled /\ status'[e] \in Unsettled
                  \/ status[e] \in Unsettled /\ status'[e] = "cancelled" /\ e \in post'.signal
                  \/ status[e] \notin Unsettled \cup Settled
    PROVE  AwaitsRight'
<1>1. ASSUME NEW x \in Waiters
      PROVE  Awaits(x)'
  <2>1. CASE wpc[x] = "idle"
    BY <2>1 DEF waiting, Awaits
  <2>2. CASE wpc[x] # "idle"
    <3>1. wfor[x] \in Effects
      BY <2>2 DEF TypeOK, WaitersOK
    <3>2. Awaits(x)
      BY DEF AwaitsRight
    <3> QED BY <2>2, <3>1, <3>2 DEF waiting, Awaits, Unsettled, Settled
  <2> QED BY <2>1, <2>2
<1> QED BY <1>1 DEF AwaitsRight, waiting

\* Resolving the entries of rows that have settled.
LEMMA AwaitsResolved ==
    ASSUME TypeOK, AwaitsRight, NEW S \in SUBSET Effects, signalSettled(S),
           \A e \in S : status'[e] \in Settled,
           \A e \in Effects \ S : /\ status'[e] = status[e]
                                  /\ e \in post.signal => e \in post'.signal
    PROVE  AwaitsRight'
<1> USE DEF signalSettled
<1>1. \A e \in Effects, x \in Waiters : x \in attached'[e] => wfor'[x] = e
  BY DEF AwaitsRight
<1>2. ASSUME NEW x \in Waiters
      PROVE  Awaits(x)'
  <2>1. CASE wpc[x] = "idle"
    BY <2>1 DEF Awaits
  <2>2. CASE wpc[x] # "idle"
    <3>1. wfor[x] \in Effects /\ wfor'[x] = wfor[x]
      BY <2>2 DEF TypeOK, WaitersOK
    <3>2. Awaits(x)
      BY DEF AwaitsRight
    <3>3. CASE wfor[x] \in S
      <4>1. wpc[x] = "waiting" => wpc'[x] = "done"
        BY <3>2, <3>3 DEF Awaits
      <4>2. wpc[x] # "waiting" => wpc'[x] = wpc[x]
        OBVIOUS
      <4> QED BY <2>2, <3>1, <3>2, <3>3, <4>1, <4>2 DEF Awaits, Settled, Unsettled, TypeOK, WaitersOK
    <3>4. CASE wfor[x] \notin S
      <4>1. wpc'[x] = wpc[x]
        BY <3>4 DEF AwaitsRight
      <4>2. attached'[wfor[x]] = attached[wfor[x]]
        BY <3>1, <3>4
      <4> QED BY <2>2, <3>1, <3>2, <3>4, <4>1, <4>2 DEF Awaits
    <3> QED BY <3>3, <3>4
  <2> QED BY <2>1, <2>2
<1> QED BY <1>1, <1>2 DEF AwaitsRight

LEMMA FiberStepAwaits ==
    ASSUME OutboxAssumption, TypeOK, AwaitsRight, NEW w \in Fibers, FiberStep(w)
    PROVE  AwaitsRight'
<1>1. ASSUME NEW e \in Effects, Claim(w, e)
      PROVE  AwaitsRight'
  BY <1>1, AwaitsKept DEF Claim, Claimable, Candidates, Unsettled, TypeOK, TableOK
<1>2. CASE Settles(w)
  <2>1. PICK s \in {"pending", "succeeded", "failed"}, d \in BOOLEAN, l \in FreePcs :
            SettleAs(w, s, d, l)
    BY <1>2 DEF Settles
  <2>2. held[w] \in Effects
    BY <1>2 DEF Settles, TypeOK, FibersOK, BusyPcs
  <2>3. /\ status[held[w]] = "running"
        /\ status' = [status EXCEPT ![held[w]] = s]
        /\ post' = post
    BY <2>1 DEF SettleAs, Owns
  <2>4. CASE s = "pending"
    <3>1. UNCHANGED waiting
      BY <2>1, <2>4 DEF SettleAs
    <3> QED BY <2>2, <2>3, <2>4, <3>1, AwaitsKept DEF Unsettled, TypeOK, TableOK
  <2>5. CASE s # "pending"
    <3>1. signalSettled({held[w]})
      BY <2>1, <2>5 DEF SettleAs
    <3> QED BY <2>2, <2>3, <2>5, <3>1, AwaitsResolved DEF Settled, TypeOK, TableOK
  <2> QED BY <2>4, <2>5
<1>3. CASE ~Settles(w) /\ ~ \E e \in Effects : Claim(w, e)
  <2>1. UNCHANGED <<table, waiting, post>>
    BY <1>3, FiberStepCases DEF FindsLeaseGone, Stumbles, Fault, Idles, Recheck, ExecutionReturns,
       ExecutionTimesOut, ExecutionCancelled, ExecutionUnwound
  <2> QED BY <2>1, AwaitsKept DEF table
<1> QED BY <1>1, <1>2, <1>3

LEMMA WriterStepAwaits ==
    ASSUME OutboxAssumption, TypeOK, SignalsTrue, AwaitsRight, WriterStep
    PROVE  AwaitsRight'
<1>1. ASSUME NEW new \in AtMostOne(Effects), NEW X \in SUBSET Effects, NEW d \in BOOLEAN,
             Writes(new, X, d)
      PROVE  AwaitsRight'
  <2>1. UNCHANGED waiting /\ post.signal = {} /\ post'.signal = X
    BY <1>1 DEF Writes, WriteRows, NoPost
  <2>2. \A e \in Effects : \/ status'[e] = status[e]
                           \/ status[e] \in Unsettled /\ status'[e] = "cancelled" /\ e \in X
                           \/ status[e] = "absent"
    BY <1>1, WrittenRows
  <2> QED BY <2>1, <2>2, AwaitsKept DEF Unsettled, Settled
<1>2. ASSUME NEW e \in Effects, Elapse(e)
      PROVE  AwaitsRight'
  BY <1>2, AwaitsKept DEF Elapse
<1>3. ASSUME NEW e \in Effects, Prune(e)
      PROVE  AwaitsRight'
  <2>1. /\ UNCHANGED <<waiting, post>>
        /\ \A f \in Effects : (\E x \in Waiters : wfor[x] = f) => status'[f] = status[f]
    BY <1>3 DEF Prune, TypeOK, TableOK, WaitersOK, OutboxAssumption
  <2> QED BY <2>1, AwaitsKept
<1>4. CASE PublishCommit
  <2>1. signalSettled(post.signal) /\ status' = status
    BY <1>4 DEF PublishCommit, table
  <2>2. post.signal \in SUBSET Effects /\ \A e \in post.signal : status[e] \in Settled
    BY DEF SignalsTrue, Settled, TypeOK, SignalsOK
  <2> QED BY <2>1, <2>2, AwaitsResolved
<1> QED BY <1>1, <1>2, <1>3, <1>4, WriterStepCases

LEMMA WaiterStepAwaits ==
    ASSUME OutboxAssumption, TypeOK, AwaitsRight, NEW x \in Waiters, WaiterStep(x)
    PROVE  AwaitsRight'
<1> USE DEF TypeOK, WaitersOK
<1>1. ASSUME NEW e \in Effects, AwaitSettled(x, e)
      PROVE  AwaitsRight'
  <2>1. /\ wfor[x] = NoEffect
        /\ \A f \in Effects : x \notin attached[f]
    BY <1>1 DEF AwaitSettled, AwaitsRight, OutboxAssumption
  <2>2. /\ wfor' = [wfor EXCEPT ![x] = e]
        /\ attached' = [attached EXCEPT ![e] = @ \cup {x}]
        /\ wpc' = [wpc EXCEPT ![x] = "reading"]
        /\ UNCHANGED <<status, post>>
        /\ TypeOf[e] = "provider-runtime.continue"
        /\ status[e] \in Unsettled \cup Settled
    BY <1>1 DEF AwaitSettled, Registered, table
  <2>3. Awaits(x)'
    BY <2>2 DEF Awaits
  <2>4. \A y \in Waiters \ {x} : Awaits(y)'
    BY <2>2 DEF Awaits, AwaitsRight
  <2>5. \A f \in Effects, y \in Waiters : y \in attached'[f] => wfor'[y] = f
    BY <2>1, <2>2 DEF AwaitsRight
  <2> QED BY <2>3, <2>4, <2>5 DEF AwaitsRight
<1>2. CASE ReadAwaited(x)
  <2> DEFINE e == wfor[x]
  <2>1. /\ wpc[x] = "reading"
        /\ e \in Effects
        /\ UNCHANGED <<status, post, wfor>>
    BY <1>2 DEF ReadAwaited, table
  <2>2. CASE status[e] \in Unsettled
    <3>1. attached' = attached /\ wpc' = [wpc EXCEPT ![x] = "waiting"]
      BY <1>2, <2>1, <2>2 DEF ReadAwaited, AwaitsRight, Awaits
    <3> QED BY <2>1, <2>2, <3>1 DEF AwaitsRight, Awaits
  <2>3. CASE status[e] \notin Unsettled
    <3>1. /\ attached' = [attached EXCEPT ![e] = {}]
          /\ wpc' = [y \in Waiters |-> IF y = x \/ (wpc[y] = "waiting" /\ y \in attached[e])
                                       THEN "done" ELSE wpc[y]]
      BY <1>2, <2>3 DEF ReadAwaited
    <3>2. \A f \in Effects, y \in Waiters : y \in attached'[f] => wfor'[y] = f
      BY <2>1, <3>1 DEF AwaitsRight
    <3>3. ASSUME NEW y \in Waiters
          PROVE  Awaits(y)'
      <4>1. Awaits(y) /\ (y \in attached[e] => wfor[y] = e)
        BY <2>1 DEF AwaitsRight
      <4>2. CASE wpc[y] = "idle"
        BY <2>1, <3>1, <4>2 DEF Awaits
      <4>3. CASE wpc[y] # "idle" /\ wfor[y] = e
        BY <2>1, <2>3, <3>1, <4>1, <4>3 DEF Awaits
      <4>4. CASE wpc[y] # "idle" /\ wfor[y] # e
        <5>1. wfor[y] \in Effects /\ wpc'[y] = wpc[y]
          BY <2>1, <3>1, <4>1, <4>4
        <5> QED BY <2>1, <3>1, <4>1, <4>4, <5>1 DEF Awaits
      <4> QED BY <4>2, <4>3, <4>4
    <3> QED BY <3>2, <3>3 DEF AwaitsRight
  <2> QED BY <2>2, <2>3
<1> QED BY <1>1, <1>2 DEF WaiterStep

LEMMA ProcessStepAwaits ==
    ASSUME OutboxAssumption, TypeOK, AwaitsRight, ProcessStep
    PROVE  AwaitsRight'
<1>1. CASE Boot \/ StartDaemon \/ Shutdown
  BY <1>1, AwaitsKept DEF Boot, StartDaemon, Shutdown, table
<1>2. CASE RetireProcessBound
  BY <1>2, AwaitsKept DEF RetireProcessBound, LostProcessBound, ProcessBoundTypes
<1>3. CASE RequeueReplaySafe
  BY <1>3, AwaitsKept DEF RequeueReplaySafe, LostReplaySafe, Unsettled
<1>4. CASE Crash
  BY <1>4 DEF Crash, AwaitsRight, Awaits
<1> QED BY <1>1, <1>2, <1>3, <1>4 DEF ProcessStep

\* awaitSettled returns only once its effect has settled, and a caller parked on the signal
\* cannot miss it: the settlement either wakes it or is still to be announced.
THEOREM AwaitsExactly == Spec => []AwaitSettledExact
<1>1. Init => AwaitsRight
  BY DEF Init, AwaitsRight, Awaits
<1>2. TypeOK /\ SignalsTrue /\ AwaitsRight /\ [Next]_vars => AwaitsRight'
  <2> SUFFICES ASSUME TypeOK, SignalsTrue, AwaitsRight, [Next]_vars
               PROVE  AwaitsRight'
    OBVIOUS
  <2>1. CASE UNCHANGED vars
    BY <2>1, AwaitsKept DEF vars, table
  <2> QED BY <2>1, FiberStepAwaits, WriterStepAwaits, WaiterStepAwaits, ProcessStepAwaits,
             OutboxAssumption DEF Next
<1>3. AwaitsRight => AwaitSettledExact
  BY DEF AwaitsRight, Awaits, AwaitSettledExact
<1> QED BY <1>1, <1>2, <1>3, TypeCorrect, SignalsInvariant, PTL DEF Spec

-----------------------------------------------------------------------------
(***************************************************************************)
(* Leases.                                                                 *)
(***************************************************************************)
\* A row runs only in the hands of a fiber, and recovery leaves none running; a fiber that
\* recovers from a failed statement has seen one fail, and finds its lease.
LeasesRight ==
    /\ phase = "recovered" => \A e \in Effects : status[e] # "running"
    /\ retired => \A e \in Effects : status[e] = "running" => TypeOf[e] \in ReplaySafeTypes
    /\ \A w \in Fibers : pc[w] \in Faulted => faults >= 1
    /\ NoOrphanedLease

LEMMA FiberStepLeases ==
    ASSUME OutboxAssumption, TypeOK, OneHolder, SignalsTrue, LeasesRight, NEW w \in Fibers,
           FiberStep(w)
    PROVE  LeasesRight'
<1> USE DEF TypeOK, TableOK, FibersOK, ProcessOK
<1>1. pc[w] # "down" /\ phase = "up" /\ ~retired
  <2>1. pc[w] # "down"
    BY FiberStepCases DEF Claim, Settles, FindsLeaseGone, Stumbles, Idles, Recheck, ExecutionReturns,
       ExecutionTimesOut, ExecutionCancelled, ExecutionUnwound, SettlingPcs, Faulted
  <2> QED BY <2>1
<1>2. UNCHANGED lifecycle /\ faults \in Nat /\ faults' \in Nat /\ faults' >= faults
  <2>1. UNCHANGED lifecycle /\ (faults' = faults \/ faults' = faults + 1)
    BY FiberStepCases DEF Claim, Settles, SettleAs, FindsLeaseGone, Stumbles, Fault, Idles, Recheck,
       ExecutionReturns, ExecutionTimesOut, ExecutionCancelled, ExecutionUnwound
  <2>2. faults \in Nat
    OBVIOUS
  <2> QED BY <2>1, <2>2
<1>3. \A v \in Fibers \ {w} : pc'[v] = pc[v] /\ held'[v] = held[v]
  BY OthersLeft
<1>4. FindsLeaseGone(w) => /\ status[held[w]] = "cancelled"
                           /\ \E l \in FreePcs : Goto(w, l)
  BY DEF FindsLeaseGone, OneHolder, BusyPcs
<1>5. pc'[w] \in Faulted => faults' >= 1
  <2>1. CASE FindsLeaseGone(w) \/ Settles(w) \/ Idles(w)
    BY <1>4, <2>1 DEF Settles, SettleAs, Idles, Goto, FreePcs, Faulted
  <2>2. CASE Stumbles(w)
    BY <1>2, <2>2 DEF Stumbles, Fault
  <2>3. CASE ~(FindsLeaseGone(w) \/ Settles(w) \/ Idles(w) \/ Stumbles(w))
    BY <2>3, FiberStepCases DEF Claim, Recheck, ExecutionReturns, ExecutionTimesOut,
       ExecutionCancelled, ExecutionUnwound, Outcomes, Goto, Faulted
  <2> QED BY <2>1, <2>2, <2>3
<1>6. ASSUME NEW e \in Effects, status'[e] = "running", ~(faults' >= 2)
      PROVE  \E v \in Fibers : held'[v] = e
  <2>1. CASE Claim(w, e)
    BY <2>1 DEF Claim
  <2>2. CASE ~Claim(w, e)
    <3>1. status[e] = "running"
      BY <1>6, <2>2, FiberStepCases DEF Claim, Settles, SettleAs, FindsLeaseGone, Stumbles, Fault,
         Idles, Recheck, ExecutionReturns, ExecutionTimesOut, ExecutionCancelled, ExecutionUnwound,
         table
    <3>2. PICK v \in Fibers : held[v] = e
      BY <1>1, <1>2, <1>6, <3>1 DEF LeasesRight, NoOrphanedLease
    <3>3. CASE v # w
      BY <1>3, <3>2, <3>3
    <3>4. CASE v = w
      <4>1. held[w] = e /\ pc[w] \in BusyPcs
        BY <3>2, <3>4 DEF OutboxAssumption
      <4>2. ASSUME NEW f \in Effects
            PROVE  ~Claim(w, f)
        BY <4>1 DEF Claim, BusyPcs, ExecutingPcs, SettlingPcs
      <4>3. ~Settles(w)
        BY <1>6, <4>1 DEF Settles, SettleAs
      <4>4. ~FindsLeaseGone(w) /\ ~Idles(w)
        BY <1>4, <3>1, <4>1 DEF Idles, FreePcs, BusyPcs, ExecutingPcs, SettlingPcs
      <4>5. ~ExecutionUnwound(w) /\ ~(Recheck(w) /\ status[held[w]] = "cancelled")
        BY <3>1, <4>1 DEF ExecutionUnwound, SignalsTrue, FiberSignalled
      <4>6. \E l \in BusyPcs : Goto(w, l)
        <5>1. CASE Stumbles(w)
          <6>1. ~(pc[w] \in Faulted)
            BY <1>6, <5>1 DEF Stumbles, Fault, LeasesRight
          <6> QED BY <4>1, <5>1, <6>1 DEF Stumbles, Fault, Faulted, FreePcs, BusyPcs, ExecutingPcs,
                                          SettlingPcs
        <5>2. CASE ~Stumbles(w)
          BY <4>2, <4>3, <4>4, <4>5, <5>2, FiberStepCases DEF Recheck, ExecutionReturns,
             ExecutionTimesOut, ExecutionCancelled, Outcomes, BusyPcs, ExecutingPcs, SettlingPcs
        <5> QED BY <5>1, <5>2
      <4>7. held'[w] = e
        BY <4>1, <4>6 DEF Goto
      <4> QED BY <4>7
    <3> QED BY <3>3, <3>4
  <2> QED BY <2>1, <2>2
<1>7. \A v \in Fibers : pc'[v] \in Faulted => faults' >= 1
  BY <1>2, <1>3, <1>5 DEF LeasesRight
<1> QED BY <1>1, <1>2, <1>6, <1>7 DEF LeasesRight, NoOrphanedLease, lifecycle

LEMMA WriterStepLeases ==
    ASSUME TypeOK, LeasesRight, WriterStep
    PROVE  LeasesRight'
<1>1. UNCHANGED <<phase, retired, pc, held, faults>>
        /\ \A e \in Effects : status'[e] = "running" => status[e] = "running"
  <2>1. ASSUME NEW new \in AtMostOne(Effects), NEW X \in SUBSET Effects, NEW d \in BOOLEAN,
               Writes(new, X, d)
        PROVE  UNCHANGED <<phase, retired, pc, held, faults>>
                 /\ \A e \in Effects : status'[e] = "running" => status[e] = "running"
    BY <2>1, WrittenRows DEF Writes, lifecycle
  <2>2. ASSUME NEW e \in Effects, Elapse(e) \/ Prune(e)
        PROVE  UNCHANGED <<phase, retired, pc, held, faults>>
                 /\ \A f \in Effects : status'[f] = "running" => status[f] = "running"
    BY <2>2 DEF Elapse, Prune, lifecycle, TypeOK, TableOK
  <2>3. CASE PublishCommit
    BY <2>3 DEF PublishCommit, table, lifecycle
  <2> QED BY <2>1, <2>2, <2>3, WriterStepCases
<1> QED BY <1>1 DEF LeasesRight, NoOrphanedLease

LEMMA ProcessStepLeases ==
    ASSUME OutboxAssumption, TypeOK, LeasesRight, ProcessStep
    PROVE  LeasesRight'
<1>1. \A w \in Fibers : pc'[w] \notin Faulted
  BY DEF ProcessStep, Boot, RetireProcessBound, RequeueReplaySafe, StartDaemon, Shutdown, Crash,
         TypeOK, ProcessOK, FibersOK, Faulted
<1>2. CASE Boot
  BY <1>1, <1>2 DEF Boot, LeasesRight, NoOrphanedLease, TypeOK, ProcessOK
<1>3. CASE RetireProcessBound
  <2>1. \A e \in Effects : status'[e] = "running" => TypeOf[e] \in ReplaySafeTypes
    BY <1>3 DEF RetireProcessBound, LostProcessBound, Unsettled, OutboxAssumption, EffectTypes
  <2> QED BY <1>1, <1>3, <2>1 DEF RetireProcessBound, LeasesRight, NoOrphanedLease
<1>4. CASE RequeueReplaySafe
  <2>1. \A e \in Effects : status'[e] # "running"
    BY <1>4 DEF RequeueReplaySafe, LostReplaySafe, LeasesRight
  <2> QED BY <1>1, <1>4, <2>1 DEF LeasesRight, NoOrphanedLease
<1>5. CASE StartDaemon
  BY <1>1, <1>5 DEF StartDaemon, LeasesRight, NoOrphanedLease, table
<1>6. CASE Shutdown \/ Crash
  BY <1>1, <1>6 DEF Shutdown, Crash, LeasesRight, NoOrphanedLease, TypeOK, ProcessOK, table
<1> QED BY <1>2, <1>3, <1>4, <1>5, <1>6 DEF ProcessStep

\* While the daemon is up a lease is in the hands of a fiber, so a row stays running only if
\* a statement and then the one that should have recovered from it both failed.
THEOREM LeasesHeld == Spec => []NoOrphanedLease
<1>1. Init => LeasesRight
  BY DEF Init, LeasesRight, NoOrphanedLease, Faulted
<1>2. TypeOK /\ OneHolder /\ SignalsTrue /\ LeasesRight /\ [Next]_vars => LeasesRight'
  <2> SUFFICES ASSUME TypeOK, OneHolder, SignalsTrue, LeasesRight, [Next]_vars
               PROVE  LeasesRight'
    OBVIOUS
  <2>1. ASSUME NEW x \in Waiters, WaiterStep(x)
        PROVE  LeasesRight'
    BY <2>1 DEF WaiterStep, ReadAwaited, AwaitSettled, table, lifecycle, LeasesRight,
                NoOrphanedLease
  <2>2. CASE UNCHANGED vars
    BY <2>2 DEF vars, table, lifecycle, LeasesRight, NoOrphanedLease
  <2> QED BY <2>1, <2>2, FiberStepLeases, WriterStepLeases, ProcessStepLeases, OutboxAssumption
          DEF Next
<1>3. LeasesRight => NoOrphanedLease
  BY DEF LeasesRight
<1> QED BY <1>1, <1>2, <1>3, TypeCorrect, SingleHolder, SignalsInvariant, PTL DEF Spec

-----------------------------------------------------------------------------
(***************************************************************************)
(* Wake-ups.  As long as nothing has been delayed, one of two things keeps *)
(* claimable work from being left to the poll (Notified): a token or a     *)
(* seeking fiber for each effect that can be claimed, which is lost when   *)
(* the queue drops a token; or a token for each fiber that does not work,  *)
(* which is lost when a fiber finds nothing to claim.  The queue drops     *)
(* only when it is full, and then it holds a token for every fiber: that   *)
(* is what FewFibers is for (four fibers, a queue of sixty-four).          *)
(***************************************************************************)
FewFibers == IsFiniteSet(Fibers) /\ Cardinality(Fibers) <= QueueCapacity

\* The lasting part of NothingDelayed: what has waited is attempted twice, or cancelled.
Undelayed ==
    \A e \in Effects :
        /\ attempts[e] <= 1
        /\ TypeOf[e] = "provider-runtime.continue" => rowid[e] = 0

Fresh == {e \in Claimable : attempts[e] = 0}
SeekingPcs == {"claiming", "cooling"}
SleepingPcs == {"idle", "polling", "timed"}
Seekers == {w \in Fibers : pc[w] \in SeekingPcs}
Sleepers == {w \in Fibers : pc[w] \in SleepingPcs}

\* The tokens in the queue, and those a commit has still to put there.
Owed == tokens + Cardinality(post.signal) + post.notify

Notified ==
    \/ Cardinality(Fresh) <= Owed + Cardinality(Seekers)
    \/ Cardinality(Sleepers) <= tokens

Attempted ==
    \A e \in Effects :
        /\ status[e] = "running" => attempts[e] > 0
        /\ later[e] => \/ attempts[e] > 0
                       \/ TypeOf[e] = "provider-runtime.continue" /\ rowid[e] # 0

WakeOK ==
    /\ Attempted
    /\ faults = 0 /\ phase = "up" /\ Undelayed => Notified

LEMMA NoMore ==
    ASSUME NEW S, NEW T, IsFiniteSet(S), IsFiniteSet(T), NEW f \in [S -> T],
           \A x, y \in S : f[x] = f[y] => x = y
    PROVE  Cardinality(S) <= Cardinality(T)
<1>1. Cardinality(S) \in Nat /\ Cardinality(T) \in Nat
  BY FS_CardinalityType
<1>2. ~(Cardinality(T) < Cardinality(S))
  BY FS_PigeonHole
<1> QED BY <1>1, <1>2

\* After a step too, a lane has at most one row that could be claimed.
LEMMA OneCandidate ==
    ASSUME TypeOK', LanesOK', NEW e \in Candidates', NEW f \in Candidates', SameLane(e, f)
    PROVE  e = f
<1>1. /\ e \in Effects /\ f \in Effects
      /\ status'[e] = "pending" /\ status'[f] = "pending"
      /\ ~Blocks(e, f)' /\ ~Blocks(f, e)'
  BY DEF Candidates
<1>2. rowid'[e] \in Nat \ {0} /\ rowid'[f] \in Nat \ {0}
  BY <1>1 DEF TypeOK, TableOK, LanesOK, RowsOK
<1>3. SameLane(f, e)
  BY DEF SameLane
<1>4. rowid'[e] = rowid'[f]
  BY <1>1, <1>2, <1>3 DEF Blocks
<1> QED BY <1>1, <1>2, <1>4 DEF LanesOK, RowsOK

\* The numbers in Notified are numbers.
LEMMA Counts ==
    ASSUME OutboxAssumption, FewFibers, TypeOK
    PROVE  /\ IsFiniteSet(Fresh) /\ IsFiniteSet(Seekers) /\ IsFiniteSet(Sleepers)
           /\ Cardinality(Fresh) \in Nat /\ Cardinality(Seekers) \in Nat
           /\ Cardinality(Sleepers) \in Nat
           /\ Cardinality(Sleepers) <= Cardinality(Fibers)
           /\ Cardinality(post.signal) \in Nat /\ post.notify \in Nat
           /\ tokens \in Nat /\ Owed \in Nat
           /\ QueueCapacity \in Nat /\ Cardinality(Fibers) \in Nat
<1>1. /\ Fresh \in SUBSET Effects
      /\ Seekers \in SUBSET Fibers /\ Sleepers \in SUBSET Fibers
  BY DEF Fresh, Claimable, Candidates, Seekers, Sleepers
<1>2. IsFiniteSet(Fresh) /\ IsFiniteSet(Seekers) /\ IsFiniteSet(Sleepers)
  BY <1>1, FS_Subset DEF OutboxAssumption, FewFibers
<1>3. Cardinality(Sleepers) <= Cardinality(Fibers)
  BY <1>1, FS_Subset DEF FewFibers
<1>4. /\ Cardinality(Fresh) \in Nat /\ Cardinality(Seekers) \in Nat
      /\ Cardinality(Sleepers) \in Nat /\ Cardinality(Fibers) \in Nat
  BY <1>2, FS_CardinalityType DEF FewFibers
<1>5. post.signal \in SUBSET Effects /\ post.notify \in Nat /\ tokens \in Nat
  BY DEF TypeOK, SignalsOK, OutboxAssumption
<1>6. IsFiniteSet(post.signal)
  BY <1>5, FS_Subset DEF OutboxAssumption
<1>7. Cardinality(post.signal) \in Nat
  BY <1>6, FS_CardinalityType
<1> QED BY <1>2, <1>3, <1>4, <1>5, <1>7 DEF Owed, OutboxAssumption

\* What a fiber's move does to the numbers of seekers and of sleepers.
Counted(l, P) == IF l \in P THEN 1 ELSE 0

LEMMA MovesAmong ==
    ASSUME FewFibers, TypeOK, NEW w \in Fibers, NEW l, pc' = [pc EXCEPT ![w] = l], NEW P
    PROVE  LET S == {v \in Fibers : pc[v] \in P}
               T == {v \in Fibers : pc'[v] \in P}
           IN  Cardinality(T) = Cardinality(S) + Counted(l, P) - Counted(pc[w], P)
<1> DEFINE S == {v \in Fibers : pc[v] \in P}
           T == {v \in Fibers : pc'[v] \in P}
           R == S \ {w}
<1>1. pc'[w] = l /\ \A v \in Fibers \ {w} : pc'[v] = pc[v]
  BY DEF TypeOK, FibersOK
<1>2. IsFiniteSet(S)
  <2>1. S \in SUBSET Fibers
    OBVIOUS
  <2> HIDE DEF S
  <2> QED BY <2>1, FS_Subset DEF FewFibers
<1>3. IsFiniteSet(R)
  BY <1>2, FS_RemoveElement
<1>4. Cardinality(R) \in Nat /\ Cardinality(S) \in Nat
  BY <1>2, <1>3, FS_CardinalityType
<1>5. (w \in S <=> pc[w] \in P) /\ w \notin R
  OBVIOUS
<1>6. T = IF l \in P THEN R \cup {w} ELSE R
  BY <1>1
<1> HIDE DEF S, T
<1>7. Cardinality(R) = IF pc[w] \in P THEN Cardinality(S) - 1 ELSE Cardinality(S)
  BY <1>2, <1>5, FS_RemoveElement
<1> HIDE DEF R
<1>8. Cardinality(T) = IF l \in P THEN Cardinality(R) + 1 ELSE Cardinality(R)
  BY <1>3, <1>5, <1>6, FS_AddElement
<1>9. Cardinality(T) = Cardinality(S) + Counted(l, P) - Counted(pc[w], P)
  BY <1>4, <1>7, <1>8 DEF Counted
<1> QED BY <1>9 DEF S, T

LEMMA Moves ==
    ASSUME FewFibers, TypeOK, NEW w \in Fibers, NEW l, pc' = [pc EXCEPT ![w] = l]
    PROVE  /\ Cardinality(Seekers') = Cardinality(Seekers) + Counted(l, SeekingPcs)
                                                         - Counted(pc[w], SeekingPcs)
           /\ Cardinality(Sleepers') = Cardinality(Sleepers) + Counted(l, SleepingPcs)
                                                           - Counted(pc[w], SleepingPcs)
BY MovesAmong DEF Seekers, Sleepers

\* The premises of Notified held before.
LEMMA UndelayedBefore ==
    ASSUME TypeOK, Undelayed',
           \A e \in Effects : attempts[e] <= attempts'[e] /\ (rowid[e] # 0 => rowid'[e] # 0),
           attempts' \in [Effects -> Nat]
    PROVE  Undelayed
BY DEF Undelayed, TypeOK, TableOK

\* A step that leaves the table and the debt alone, and sends nobody to sleep or away
\* from the search.
LEMMA NotifiedKept ==
    ASSUME OutboxAssumption, FewFibers, TypeOK, TypeOK', Notified,
           Fresh' \subseteq Fresh,
           Owed' >= Owed, tokens' >= tokens,
           Cardinality(Seekers') >= Cardinality(Seekers),
           Cardinality(Sleepers') <= Cardinality(Sleepers)
    PROVE  Notified'
<1>1. Cardinality(Fresh') <= Cardinality(Fresh) /\ Cardinality(Fresh') \in Nat
  <2>1. IsFiniteSet(Fresh) /\ Fresh' \in SUBSET Fresh
    BY Counts
  <2> QED BY <2>1, FS_Subset, FS_CardinalityType
<1>2. /\ Cardinality(Fresh) \in Nat /\ Cardinality(Seekers) \in Nat
      /\ Cardinality(Sleepers) \in Nat /\ Owed \in Nat /\ tokens \in Nat
  BY Counts
<1>3. /\ Cardinality(Seekers') \in Nat /\ Cardinality(Sleepers') \in Nat
      /\ Owed' \in Nat /\ tokens' \in Nat
  <2>1. IsFiniteSet(Seekers') /\ IsFiniteSet(Sleepers')
    <3>1. Seekers' \in SUBSET Fibers /\ Sleepers' \in SUBSET Fibers
      BY DEF Seekers, Sleepers
    <3> QED BY <3>1, FS_Subset DEF FewFibers
  <2>2. IsFiniteSet(post'.signal)
    <3>1. post'.signal \in SUBSET Effects
      BY DEF TypeOK, SignalsOK
    <3> QED BY <3>1, FS_Subset DEF OutboxAssumption
  <2>3. Cardinality(post'.signal) \in Nat /\ post'.notify \in Nat /\ tokens' \in Nat
    BY <2>2, FS_CardinalityType DEF TypeOK, SignalsOK, OutboxAssumption
  <2> QED BY <2>1, <2>3, FS_CardinalityType DEF Owed
<1>4. CASE Cardinality(Fresh) <= Owed + Cardinality(Seekers)
  BY <1>1, <1>2, <1>3, <1>4 DEF Notified
<1>5. CASE Cardinality(Sleepers) <= tokens
  BY <1>2, <1>3, <1>5 DEF Notified
<1> QED BY <1>4, <1>5 DEF Notified

\* What is fresh depends on the table.
LEMMA SameTable ==
    ASSUME UNCHANGED table
    PROVE  Fresh' = Fresh
BY DEF table, Fresh, Claimable, Candidates, Blocks

\* The moves of a fiber that leave the table alone, but that it finds nothing to claim
\* or takes a token.
LEMMA WakeMoves ==
    ASSUME OutboxAssumption, FewFibers, TypeOK, TypeOK', Notified, NEW w \in Fibers,
           NEW l, pc' = [pc EXCEPT ![w] = l],
           UNCHANGED <<table, tokens, post>>,
           pc[w] \in SeekingPcs => l \in SeekingPcs,
           l \in SleepingPcs => pc[w] \in SleepingPcs
    PROVE  Notified'
<1>1. Fresh' = Fresh /\ Owed' = Owed /\ tokens' = tokens
  BY SameTable DEF Owed
<1>2. /\ Cardinality(Seekers) \in Nat /\ Cardinality(Sleepers) \in Nat
      /\ Owed \in Nat /\ tokens \in Nat
  BY Counts
<1>3. /\ Cardinality(Seekers') >= Cardinality(Seekers)
      /\ Cardinality(Sleepers') <= Cardinality(Sleepers)
  <2>1. /\ Cardinality(Seekers') = Cardinality(Seekers) + Counted(l, SeekingPcs)
                                                      - Counted(pc[w], SeekingPcs)
        /\ Cardinality(Sleepers') = Cardinality(Sleepers) + Counted(l, SleepingPcs)
                                                        - Counted(pc[w], SleepingPcs)
    BY Moves
  <2> QED BY <1>2, <2>1 DEF Counted
<1> QED BY <1>1, <1>2, <1>3, NotifiedKept

LEMMA WakeClaims ==
    ASSUME OutboxAssumption, FewFibers, TypeOK, TypeOK', Notified, Undelayed',
           NEW w \in Fibers, NEW e \in Effects, Claim(w, e)
    PROVE  Notified'
<1>1. /\ pc[w] = "claiming" /\ pc' = [pc EXCEPT ![w] = "rechecking"]
      /\ status' = [status EXCEPT ![e] = "running"]
      /\ attempts' = [attempts EXCEPT ![e] = @ + 1]
      /\ UNCHANGED <<rowid, later, tokens, post>>
      /\ e \in Claimable
  BY DEF Claim
<1>2. /\ status'[e] = "running" /\ attempts'[e] = attempts[e] + 1
      /\ \A f \in Effects \ {e} : status'[f] = status[f] /\ attempts'[f] = attempts[f]
  BY <1>1 DEF TypeOK, TableOK
<1>3. attempts[e] = 0
  <2>1. attempts'[e] <= 1 /\ attempts[e] \in Nat
    BY DEF Undelayed, TypeOK, TableOK
  <2> QED BY <1>2, <2>1
<1>4. e \in Fresh /\ status[e] = "pending"
  BY <1>1, <1>3 DEF Fresh, Claimable, Candidates
<1>5. Fresh' \subseteq Fresh \ {e}
  <2> SUFFICES ASSUME NEW x \in Effects, x \in Fresh'
               PROVE  x \in Fresh \ {e}
    BY DEF Fresh, Claimable, Candidates
  <2>1. /\ status'[x] = "pending" /\ ~later[x] /\ attempts'[x] = 0
        /\ \A f \in Effects : ~Blocks(f, x)'
    BY <1>1 DEF Fresh, Claimable, Candidates
  <2>2. x # e
    BY <1>2, <2>1
  <2>3. ASSUME NEW f \in Effects, Blocks(f, x)
        PROVE  FALSE
    BY <1>1, <1>2, <1>4, <2>1, <2>3 DEF Blocks
  <2> QED BY <1>2, <2>1, <2>2, <2>3 DEF Fresh, Claimable, Candidates
<1>6. Cardinality(Fresh') <= Cardinality(Fresh) - 1 /\ Cardinality(Fresh') \in Nat
  <2>1. IsFiniteSet(Fresh)
    BY Counts
  <2>2. IsFiniteSet(Fresh \ {e}) /\ Cardinality(Fresh \ {e}) = Cardinality(Fresh) - 1
    BY <1>4, <2>1, FS_RemoveElement
  <2>3. IsFiniteSet(Fresh') /\ Cardinality(Fresh') <= Cardinality(Fresh \ {e})
    BY <1>5, <2>2, FS_Subset
  <2> QED BY <2>2, <2>3, FS_CardinalityType
<1>7. /\ Cardinality(Seekers') = Cardinality(Seekers) - 1
      /\ Cardinality(Sleepers') = Cardinality(Sleepers)
  <2>1. Cardinality(Seekers) \in Nat /\ Cardinality(Sleepers) \in Nat
    BY Counts
  <2>2. PICK l : l = "rechecking" /\ pc' = [pc EXCEPT ![w] = l]
    BY <1>1
  <2>3. /\ Cardinality(Seekers') = Cardinality(Seekers) + Counted(l, SeekingPcs)
                                                      - Counted(pc[w], SeekingPcs)
        /\ Cardinality(Sleepers') = Cardinality(Sleepers) + Counted(l, SleepingPcs)
                                                        - Counted(pc[w], SleepingPcs)
    BY <2>2, Moves
  <2> QED BY <1>1, <2>1, <2>2, <2>3 DEF Counted, SeekingPcs, SleepingPcs
<1>8. Owed' = Owed /\ tokens' = tokens
  BY <1>1 DEF Owed
<1>9. /\ Cardinality(Fresh) \in Nat /\ Cardinality(Seekers) \in Nat
      /\ Owed \in Nat
  BY Counts
<1> QED BY <1>6, <1>7, <1>8, <1>9 DEF Notified

\* A fiber that wakes up for a token takes it on the search.
LEMMA WakeTakes ==
    ASSUME OutboxAssumption, FewFibers, TypeOK, TypeOK', Notified,
           NEW w \in Fibers, WakeNotified(w)
    PROVE  Notified'
<1>1. /\ pc[w] \in {"polling", "timed"} /\ pc' = [pc EXCEPT ![w] = "claiming"]
      /\ tokens' = tokens - 1
      /\ UNCHANGED <<table, post>>
  BY DEF WakeNotified, Goto
<1>2. Fresh' = Fresh
  BY <1>1, SameTable
<1>3. /\ Cardinality(Fresh) \in Nat /\ Cardinality(Seekers) \in Nat
      /\ Cardinality(Sleepers) \in Nat /\ tokens \in Nat
      /\ Cardinality(post.signal) \in Nat /\ post.notify \in Nat
  BY Counts
<1>4. /\ Cardinality(Seekers') = Cardinality(Seekers) + 1
      /\ Cardinality(Sleepers') = Cardinality(Sleepers) - 1
  <2>1. PICK l : l = "claiming" /\ pc' = [pc EXCEPT ![w] = l]
    BY <1>1
  <2>2. /\ Cardinality(Seekers') = Cardinality(Seekers) + Counted(l, SeekingPcs)
                                                      - Counted(pc[w], SeekingPcs)
        /\ Cardinality(Sleepers') = Cardinality(Sleepers) + Counted(l, SleepingPcs)
                                                        - Counted(pc[w], SleepingPcs)
    BY <2>1, Moves
  <2> QED BY <1>1, <1>3, <2>1, <2>2 DEF Counted, SeekingPcs, SleepingPcs
<1> QED BY <1>1, <1>2, <1>3, <1>4 DEF Notified, Owed

\* Nothing can be claimed, and nothing has to be told.
LEMMA WakeIdles ==
    ASSUME OutboxAssumption, FewFibers, TypeOK, TypeOK',
           NEW w \in Fibers, ClaimNothing(w)
    PROVE  Notified'
<1>1. /\ pc[w] = "claiming" /\ pc' = [pc EXCEPT ![w] = "idle"]
      /\ UNCHANGED <<table, tokens, post>> /\ Claimable = {}
  BY DEF ClaimNothing, Goto
<1>2. Cardinality(Fresh') = 0
  <2>1. Fresh' = Fresh /\ Fresh = {}
    BY <1>1, SameTable DEF Fresh
  <2> QED BY <2>1, FS_EmptySet
<1>3. Owed' \in Nat
  BY <1>1, Counts DEF Owed
<1>4. Cardinality(Seekers') \in Nat
  <2>1. Seekers' \in SUBSET Fibers
    BY DEF Seekers
  <2> QED BY <2>1, FS_Subset, FS_CardinalityType DEF FewFibers
<1> QED BY <1>2, <1>3, <1>4 DEF Notified

\* Offering to the queue: nothing is dropped, or there is a token for every fiber.
LEMMA Offers ==
    ASSUME OutboxAssumption, FewFibers, TypeOK, NEW n \in Nat, tokens' = Offered(n)
    PROVE  tokens' = tokens + n \/ Cardinality(Fibers) <= tokens'
BY DEF FewFibers, Offered

\* The fibers after the step.
LEMMA CountsAfter ==
    ASSUME FewFibers
    PROVE  /\ Cardinality(Seekers') \in Nat /\ Cardinality(Sleepers') \in Nat
           /\ Cardinality(Sleepers') <= Cardinality(Fibers)
<1>1. Seekers' \in SUBSET Fibers /\ Sleepers' \in SUBSET Fibers
  BY DEF Seekers, Sleepers
<1> QED BY <1>1, FS_Subset, FS_CardinalityType DEF FewFibers

\* A settlement frees one row of its lane, offers one token, and its fiber seeks on.
LEMMA WakeSettles ==
    ASSUME OutboxAssumption, FewFibers, TypeOK, TypeOK', LanesOK', Attempted, Notified,
           NEW w \in Fibers, NEW s, NEW d, NEW l \in SeekingPcs, pc[w] \in SettlingPcs,
           SettleAs(w, s, d, l)
    PROVE  Notified'
<1> DEFINE e == held[w]
           new == Fresh' \ Fresh
<1>1. e \in Effects /\ status[e] = "running" /\ attempts[e] > 0
  BY DEF SettleAs, Owns, TypeOK, FibersOK, BusyPcs, Attempted
<1>2. /\ status' = [status EXCEPT ![e] = s] /\ later' = [later EXCEPT ![e] = d]
      /\ tokens' = Offered(1) /\ pc' = [pc EXCEPT ![w] = l]
      /\ UNCHANGED <<rowid, attempts, post>>
  BY DEF SettleAs, notifyAvailable, Goto
<1>3. \A f \in Effects \ {e} : status'[f] = status[f] /\ later'[f] = later[f]
  BY <1>2 DEF TypeOK, TableOK
<1>4. \A x \in new : x \in Candidates' /\ SameLane(e, x)
  <2> SUFFICES ASSUME NEW x \in new PROVE x \in Candidates' /\ SameLane(e, x)
    OBVIOUS
  <2>1. /\ x \in Effects /\ x \in Candidates' /\ status'[x] = "pending"
        /\ ~later'[x] /\ attempts'[x] = 0
        /\ \A f \in Effects : ~Blocks(f, x)'
    BY DEF Fresh, Claimable, Candidates
  <2>2. x # e
    BY <1>1, <1>2, <2>1
  <2>3. status[x] = "pending" /\ ~later[x] /\ attempts[x] = 0
    BY <1>2, <1>3, <2>1, <2>2
  <2>4. PICK f \in Effects : Blocks(f, x)
    BY <2>1, <2>3 DEF Fresh, Claimable, Candidates
  <2>5. f = e
    BY <1>2, <1>3, <2>1, <2>4 DEF Blocks
  <2>6. SameLane(f, x)
    BY <2>4 DEF Blocks, SameLane
  <2> QED BY <2>1, <2>5, <2>6
<1>5. Cardinality(Fresh') <= Cardinality(Fresh) + 1 /\ Cardinality(Fresh') \in Nat
  <2>1. IsFiniteSet(Fresh) /\ Cardinality(Fresh) \in Nat
    BY Counts
  <2>2. CASE new = {}
    <3>1. Fresh' \in SUBSET Fresh
      BY <2>2
    <3>2. IsFiniteSet(Fresh') /\ Cardinality(Fresh') <= Cardinality(Fresh)
      BY <2>1, <3>1, FS_Subset
    <3> QED BY <2>1, <3>2, FS_CardinalityType
  <2>3. CASE new # {}
    <3>1. PICK g : g \in new
      BY <2>3
    <3>2. \A x \in new : x = g
      BY <1>4, <3>1, OneCandidate DEF SameLane
    <3>3. Fresh' \in SUBSET (Fresh \cup {g})
      BY <3>2
    <3>4. IsFiniteSet(Fresh \cup {g}) /\ Cardinality(Fresh \cup {g}) <= Cardinality(Fresh) + 1
      <4>1. /\ IsFiniteSet(Fresh \cup {g})
            /\ Cardinality(Fresh \cup {g}) =
                  IF g \in Fresh THEN Cardinality(Fresh) ELSE Cardinality(Fresh) + 1
        BY <2>1, FS_AddElement
      <4> QED BY <2>1, <4>1
    <3>5. IsFiniteSet(Fresh') /\ Cardinality(Fresh') <= Cardinality(Fresh \cup {g})
      BY <3>3, <3>4, FS_Subset
    <3>6. Cardinality(Fresh') \in Nat /\ Cardinality(Fresh \cup {g}) \in Nat
      BY <3>4, <3>5, FS_CardinalityType
    <3> QED BY <2>1, <3>4, <3>5, <3>6
  <2> QED BY <2>2, <2>3
<1>6. /\ Cardinality(Seekers') = Cardinality(Seekers) + 1
      /\ Cardinality(Sleepers') = Cardinality(Sleepers)
  <2>1. /\ Cardinality(Seekers') = Cardinality(Seekers) + Counted(l, SeekingPcs)
                                                      - Counted(pc[w], SeekingPcs)
        /\ Cardinality(Sleepers') = Cardinality(Sleepers) + Counted(l, SleepingPcs)
                                                        - Counted(pc[w], SleepingPcs)
    BY <1>2, Moves
  <2>2. Cardinality(Seekers) \in Nat /\ Cardinality(Sleepers) \in Nat
    BY Counts
  <2> QED BY <2>1, <2>2 DEF Counted, SeekingPcs, SleepingPcs, SettlingPcs
<1>7. /\ Cardinality(Fresh) \in Nat /\ Cardinality(Seekers) \in Nat
      /\ Cardinality(Sleepers) \in Nat /\ tokens \in Nat /\ Cardinality(Fibers) \in Nat
      /\ Cardinality(post.signal) \in Nat /\ post.notify \in Nat
  BY Counts
<1>8. tokens' = tokens + 1 \/ Cardinality(Fibers) <= tokens'
  BY <1>2, Offers
<1>9. Cardinality(Sleepers') <= Cardinality(Fibers) /\ tokens' \in Nat
  BY CountsAfter DEF TypeOK, SignalsOK, OutboxAssumption
<1>10. CASE Cardinality(Fibers) <= tokens'
  BY <1>6, <1>7, <1>9, <1>10 DEF Notified
<1>11. CASE tokens' = tokens + 1
  BY <1>2, <1>5, <1>6, <1>7, <1>11 DEF Notified, Owed
<1> QED BY <1>8, <1>10, <1>11

LEMMA WakeFiber ==
    ASSUME OutboxAssumption, FewFibers, TypeOK, TypeOK', LanesOK', Attempted, Notified,
           Undelayed', faults' = 0, NEW w \in Fibers, FiberStep(w)
    PROVE  Notified'
<1>1. faults \in Nat /\ held[w] = held[w]
  BY DEF TypeOK, ProcessOK
<1>2. ASSUME NEW l, Fault(w, l) PROVE FALSE
  BY <1>1, <1>2 DEF Fault
<1>3. ASSUME NEW l, Goto(w, l), UNCHANGED <<table, tokens, post>>,
             pc[w] \notin SeekingPcs, l \notin SleepingPcs
      PROVE  Notified'
  BY <1>3, WakeMoves DEF Goto
<1>4. ASSUME NEW l, LeaseLost(w, l) \/ LeaseLostQuietly(w), pc[w] \in SettlingPcs,
             l \in {"cooling", "requeueing", "terminalizing"}
      PROVE  Notified'
  BY <1>3, <1>4 DEF LeaseLost, LeaseLostQuietly, SettlingPcs, SeekingPcs, SleepingPcs
<1>5. ASSUME NEW s, NEW d, NEW l \in SeekingPcs, SettleAs(w, s, d, l), pc[w] \in SettlingPcs
      PROVE  Notified'
  BY <1>5, WakeSettles
<1>6. CASE \E e \in Effects : Claim(w, e)
  BY <1>6, WakeClaims
<1>7. CASE ClaimNothing(w)
  BY <1>7, WakeIdles
<1>8. CASE ClaimFails(w) \/ RecheckFails(w) \/ ReadDeadlineFails(w)
  BY <1>2, <1>8 DEF ClaimFails, RecheckFails, ReadDeadlineFails
<1>9. CASE Recheck(w) \/ ExecutionTimesOut(w) \/ ExecutionCancelled(w) \/ ExecutionUnwound(w)
  <2>1. PICK l \in {"claiming", "executing", "failing", "winding"} : Goto(w, l)
    BY <1>9 DEF Recheck, ExecutionTimesOut, ExecutionCancelled, ExecutionUnwound
  <2>2. pc[w] \notin SeekingPcs /\ l \notin SleepingPcs /\ UNCHANGED <<table, tokens, post>>
    BY <1>9, <2>1 DEF Recheck, ExecutionTimesOut, ExecutionCancelled, ExecutionUnwound,
                      SeekingPcs, SleepingPcs
  <2> QED BY <1>3, <2>1, <2>2
<1>10. CASE ExecutionReturns(w)
  <2>1. PICK l \in {"succeeding", "failing", "conceding"} : Goto(w, l)
    BY <1>10 DEF ExecutionReturns, Outcomes
  <2>2. pc[w] \notin SeekingPcs /\ l \notin SleepingPcs /\ UNCHANGED <<table, tokens, post>>
    BY <1>10, <2>1 DEF ExecutionReturns, SeekingPcs, SleepingPcs
  <2> QED BY <1>3, <2>1, <2>2
<1>11. CASE Succeed(w) \/ Concede(w)
  <2>1. AfterSuccess(held[w]) \in {"requeueing", "terminalizing"}
    BY DEF AfterSuccess
  <2>2. "claiming" \in SeekingPcs /\ pc[w] \in SettlingPcs
    BY <1>11 DEF SeekingPcs, Succeed, Concede, SettlingPcs
  <2> QED BY <1>2, <1>4, <1>5, <1>11, <2>1, <2>2 DEF Succeed, Concede
<1>12. CASE FailAttempt(w)
  <2>1. "claiming" \in SeekingPcs /\ pc[w] \in SettlingPcs
    BY <1>12 DEF SeekingPcs, FailAttempt, SettlingPcs
  <2> QED BY <1>2, <1>4, <1>5, <1>12, <2>1 DEF FailAttempt
<1>13. CASE RequeueClaim(w) \/ TerminalizeClaim(w)
  <2>1. "cooling" \in SeekingPcs /\ pc[w] \in SettlingPcs
    BY <1>13 DEF SeekingPcs, RequeueClaim, TerminalizeClaim, SettlingPcs
  <2> QED BY <1>2, <1>4, <1>5, <1>13, <2>1 DEF RequeueClaim, TerminalizeClaim
<1>14. CASE CoolOff(w) \/ ReadDeadline(w) \/ WakeScheduled(w)
  <2>1. PICK l : /\ Goto(w, l) /\ UNCHANGED <<table, tokens, post>>
                 /\ pc[w] \in SeekingPcs => l \in SeekingPcs
                 /\ l \in SleepingPcs => pc[w] \in SleepingPcs
    BY <1>14 DEF CoolOff, ReadDeadline, WakeScheduled, SeekingPcs, SleepingPcs
  <2> QED BY <2>1, WakeMoves DEF Goto
<1>15. CASE WakeNotified(w)
  BY <1>15, WakeTakes
<1> QED BY <1>6, <1>7, <1>8, <1>9, <1>10, <1>11, <1>12, <1>13, <1>14, <1>15 DEF FiberStep

\* What a transaction inserts, and what its cancellations free, it has to tell.
LEMMA WakeWrites ==
    ASSUME OutboxAssumption, FewFibers, TypeOK, TypeOK', LanesOK', Notified,
           NEW new \in AtMostOne(Effects), NEW X \in SUBSET Effects, NEW d \in BOOLEAN,
           Writes(new, X, d)
    PROVE  Notified'
<1> DEFINE freed == {g \in Fresh' : g \notin Fresh /\ g \notin new}
           cause == [g \in freed |-> CHOOSE x \in X : SameLane(x, g)]
<1>1. /\ post = NoPost /\ post' = [signal |-> X, notify |-> Cardinality(new)]
      /\ UNCHANGED <<tokens, pc, attempts>>
  BY DEF Writes, WriteRows
<1>2. new \in SUBSET Effects /\ IsFiniteSet(new) /\ IsFiniteSet(X)
  <2>1. new \in SUBSET Effects
    BY DEF AtMostOne
  <2> QED BY <2>1, FS_Subset DEF OutboxAssumption
<1>3. ASSUME NEW f \in Effects
      PROVE  /\ f \notin X /\ f \notin new =>
                   status'[f] = status[f] /\ rowid'[f] = rowid[f] /\ later'[f] = later[f]
             /\ f \notin X /\ status[f] # "absent" =>
                   status'[f] = status[f] /\ rowid'[f] = rowid[f]
  BY DEF Writes, WriteRows, IfAbsent
<1>4. ASSUME NEW g \in freed
      PROVE  /\ g \in Candidates'
             /\ \E x \in X : SameLane(x, g)
  <2>1. /\ g \in Effects /\ g \in Candidates' /\ status'[g] = "pending"
        /\ ~later'[g] /\ attempts'[g] = 0
        /\ \A f \in Effects : ~Blocks(f, g)'
    BY DEF Fresh, Claimable, Candidates
  <2>2. g \notin X
    BY <2>1 DEF Writes, WriteRows
  <2>3. status[g] = "pending" /\ ~later[g] /\ attempts[g] = 0 /\ rowid'[g] = rowid[g]
    BY <1>1, <1>3, <2>1, <2>2
  <2>4. PICK f \in Effects : Blocks(f, g)
    BY <2>1, <2>3 DEF Fresh, Claimable, Candidates
  <2>5. SameLane(f, g) /\ status[f] # "absent"
    BY <2>4 DEF Blocks, SameLane
  <2>6. f \in X
    BY <1>3, <2>1, <2>3, <2>4, <2>5 DEF Blocks
  <2> QED BY <2>1, <2>5, <2>6
<1>5. cause \in [freed -> X] /\ \A g \in freed : SameLane(cause[g], g)
  BY <1>4
<1>6. \A g, h \in freed : cause[g] = cause[h] => g = h
  <2> SUFFICES ASSUME NEW g \in freed, NEW h \in freed, cause[g] = cause[h]
               PROVE  g = h
    OBVIOUS
  <2>1. SameLane(g, h)
    <3> HIDE DEF cause, freed
    <3> QED BY <1>5 DEF SameLane
  <2> QED BY <1>4, <2>1, OneCandidate
<1>7. IsFiniteSet(Fresh') /\ IsFiniteSet(freed)
  <2>1. Fresh' \in SUBSET Effects /\ freed \in SUBSET Effects
    BY DEF Fresh, Claimable, Candidates
  <2> QED BY <2>1, FS_Subset DEF OutboxAssumption
<1>8. Cardinality(freed) <= Cardinality(X)
  <2> HIDE DEF cause, freed
  <2> QED BY <1>2, <1>5, <1>6, <1>7, NoMore
<1>9. Cardinality(Fresh') <= Cardinality(Fresh) + Cardinality(new) + Cardinality(freed)
  <2>1. Fresh' \in SUBSET ((Fresh \cup new) \cup freed)
    OBVIOUS
  <2> HIDE DEF freed
  <2>2. IsFiniteSet(Fresh) /\ Cardinality(Fresh) \in Nat
    BY Counts
  <2>3. IsFiniteSet(Fresh \cup new) /\ IsFiniteSet(Fresh \cap new)
    BY <1>2, <2>2, FS_Union, FS_Subset
  <2>4. IsFiniteSet((Fresh \cup new) \cup freed) /\ IsFiniteSet((Fresh \cup new) \cap freed)
    BY <1>7, <2>3, FS_Union, FS_Subset
  <2>5. /\ Cardinality(Fresh \cap new) \in Nat
        /\ Cardinality((Fresh \cup new) \cap freed) \in Nat
        /\ Cardinality(Fresh \cup new) \in Nat
        /\ Cardinality((Fresh \cup new) \cup freed) \in Nat
        /\ Cardinality(new) \in Nat /\ Cardinality(freed) \in Nat
        /\ Cardinality(Fresh') \in Nat
    BY <1>2, <1>7, <2>3, <2>4, FS_CardinalityType
  <2>6. /\ Cardinality(Fresh \cup new) =
              Cardinality(Fresh) + Cardinality(new) - Cardinality(Fresh \cap new)
        /\ Cardinality((Fresh \cup new) \cup freed) =
              Cardinality(Fresh \cup new) + Cardinality(freed)
                 - Cardinality((Fresh \cup new) \cap freed)
    BY <1>2, <1>7, <2>2, <2>3, FS_Union
  <2>7. Cardinality(Fresh') <= Cardinality((Fresh \cup new) \cup freed)
    BY <2>1, <2>4, FS_Subset
  <2> QED BY <2>2, <2>5, <2>6, <2>7
<1>10. /\ Cardinality(new) \in Nat /\ Cardinality(X) \in Nat /\ Cardinality(freed) \in Nat
       /\ Cardinality(Fresh') \in Nat
  BY <1>2, <1>7, FS_CardinalityType
<1>11. /\ Cardinality(Fresh) \in Nat /\ Cardinality(Seekers) \in Nat
       /\ Cardinality(Sleepers) \in Nat /\ tokens \in Nat
  BY Counts
<1>12. Owed = tokens /\ Owed' = tokens + Cardinality(X) + Cardinality(new)
  <2>1. post.signal = {} /\ post.notify = 0
    BY <1>1 DEF NoPost
  <2> QED BY <1>1, <1>11, <2>1, FS_EmptySet DEF Owed
<1>13. Seekers' = Seekers /\ Sleepers' = Sleepers
  BY <1>1 DEF Seekers, Sleepers
<1> HIDE DEF freed, cause
<1> QED BY <1>1, <1>8, <1>9, <1>10, <1>11, <1>12, <1>13 DEF Notified

\* The publication offers what is owed.
LEMMA WakePublishes ==
    ASSUME OutboxAssumption, FewFibers, TypeOK, TypeOK', Notified, PublishCommit
    PROVE  Notified'
<1>1. /\ tokens' = Offered(Cardinality(post.signal) + post.notify)
      /\ post' = NoPost /\ UNCHANGED <<table, pc>>
  BY DEF PublishCommit, notifyAvailable
<1>2. /\ Cardinality(Fresh) \in Nat /\ Cardinality(Seekers) \in Nat
      /\ Cardinality(Sleepers) \in Nat /\ tokens \in Nat /\ Cardinality(Fibers) \in Nat
      /\ Cardinality(post.signal) \in Nat /\ post.notify \in Nat
      /\ Cardinality(Sleepers) <= Cardinality(Fibers)
  BY Counts
<1>3. Fresh' = Fresh /\ Seekers' = Seekers /\ Sleepers' = Sleepers
  BY <1>1, SameTable DEF Seekers, Sleepers
<1>4. tokens' \in Nat /\ Owed' = tokens'
  <2>1. post'.signal = {} /\ post'.notify = 0 /\ tokens' \in Nat
    BY <1>1 DEF NoPost, TypeOK, SignalsOK, OutboxAssumption
  <2> QED BY <2>1, FS_EmptySet DEF Owed
<1>5. \/ tokens' = tokens + (Cardinality(post.signal) + post.notify)
      \/ Cardinality(Fibers) <= tokens'
  BY <1>1, <1>2, Offers
<1> QED BY <1>2, <1>3, <1>4, <1>5 DEF Notified, Owed

LEMMA WakeWriter ==
    ASSUME OutboxAssumption, FewFibers, TypeOK, TypeOK', LanesOK', Attempted, Notified,
           Undelayed, WriterStep
    PROVE  Notified'
<1>1. ASSUME Fresh' \subseteq Fresh, UNCHANGED <<tokens, pc, post>>
      PROVE  Notified'
  <2>1. Seekers' = Seekers /\ Sleepers' = Sleepers /\ Owed' = Owed
    BY <1>1 DEF Seekers, Sleepers, Owed
  <2>2. /\ Cardinality(Seekers) \in Nat /\ Cardinality(Sleepers) \in Nat
        /\ tokens \in Nat /\ Owed \in Nat
    BY Counts
  <2> QED BY <1>1, <2>1, <2>2, NotifiedKept
<1>2. ASSUME NEW new \in AtMostOne(Effects), NEW X \in SUBSET Effects, NEW d \in BOOLEAN,
             Writes(new, X, d)
      PROVE  Notified'
  BY <1>2, WakeWrites
<1>3. ASSUME NEW e \in Effects, Elapse(e)
      PROVE  Notified'
  <2>1. /\ later[e] /\ later' = [later EXCEPT ![e] = FALSE]
        /\ UNCHANGED <<status, rowid, attempts, tokens, pc, post>>
    BY <1>3 DEF Elapse
  <2>2. attempts[e] # 0
    BY <2>1 DEF Attempted, Undelayed, TypeOK, TableOK
  <2>3. \A x \in Effects \ {e} : later'[x] = later[x]
    BY <2>1 DEF TypeOK, TableOK
  <2>4. Candidates' = Candidates
    BY <2>1 DEF Candidates, Blocks
  <2>5. Fresh' \subseteq Fresh
    BY <2>1, <2>2, <2>3, <2>4 DEF Fresh, Claimable, Candidates
  <2> QED BY <1>1, <2>1, <2>5
<1>4. ASSUME NEW e \in Effects, Prune(e)
      PROVE  Notified'
  <2>1. /\ status[e] \notin {"pending", "running"}
        /\ status' = [status EXCEPT ![e] = "pruned"]
        /\ UNCHANGED <<rowid, later, attempts, tokens, pc, post>>
    BY <1>4 DEF Prune
  <2>2. status'[e] = "pruned" /\ \A x \in Effects \ {e} : status'[x] = status[x]
    BY <2>1 DEF TypeOK, TableOK
  <2>3. \A f, x \in Effects : Blocks(f, x) => Blocks(f, x)'
    BY <2>1, <2>2 DEF Blocks
  <2>4. Fresh' \subseteq Fresh
    BY <2>1, <2>2, <2>3 DEF Fresh, Claimable, Candidates
  <2> QED BY <1>1, <2>1, <2>4
<1>5. CASE PublishCommit
  BY <1>5, WakePublishes
<1> QED BY <1>2, <1>3, <1>4, <1>5, WriterStepCases

\* Effects that run have been attempted, and so has what has been delayed, but for
\* restart continuations.
LEMMA AttemptedStep ==
    ASSUME OutboxAssumption, TypeOK, Attempted, [Next]_vars
    PROVE  Attempted'
<1> USE DEF TypeOK, TableOK
<1>1. ASSUME UNCHANGED <<attempts, rowid>>,
             \A e \in Effects : /\ status'[e] = "running" => status[e] = "running"
                                /\ later'[e] => later[e] \/ attempts[e] > 0
      PROVE  Attempted'
  BY <1>1 DEF Attempted
<1>2. ASSUME NEW w \in Fibers, NEW e \in Effects, Claim(w, e)
      PROVE  Attempted'
  <2>1. /\ status' = [status EXCEPT ![e] = "running"]
        /\ attempts' = [attempts EXCEPT ![e] = @ + 1]
        /\ UNCHANGED <<rowid, later>>
    BY <1>2 DEF Claim
  <2>2. attempts'[e] > 0
    BY <2>1
  <2>3. \A f \in Effects \ {e} : status'[f] = status[f] /\ attempts'[f] = attempts[f]
    BY <2>1
  <2> QED BY <2>1, <2>2, <2>3 DEF Attempted
<1>3. ASSUME NEW w \in Fibers, Settles(w)
      PROVE  Attempted'
  <2>1. PICK s \in {"pending", "succeeded", "failed"}, d \in BOOLEAN, l \in FreePcs :
               SettleAs(w, s, d, l)
    BY <1>3 DEF Settles
  <2>2. /\ status[held[w]] = "running" /\ held[w] \in Effects
        /\ status' = [status EXCEPT ![held[w]] = s] /\ later' = [later EXCEPT ![held[w]] = d]
        /\ UNCHANGED <<attempts, rowid>>
    BY <1>3, <2>1 DEF SettleAs, Owns, Settles, SettlingPcs, FibersOK, BusyPcs
  <2>3. attempts[held[w]] > 0
    BY <2>2 DEF Attempted
  <2> QED BY <1>1, <2>2, <2>3
<1>4. ASSUME NEW w \in Fibers, FiberStep(w), ~ \E e \in Effects : Claim(w, e), ~Settles(w)
      PROVE  Attempted'
  <2>1. UNCHANGED table
    BY <1>4, FiberStepCases
    DEF FindsLeaseGone, Stumbles, Fault, Idles, Recheck, ExecutionReturns, ExecutionTimesOut,
        ExecutionCancelled, ExecutionUnwound
  <2> QED BY <1>1, <2>1 DEF table
<1>5. ASSUME NEW e \in Effects, NEW delayed \in BOOLEAN, WriteRows({e}, {}, delayed),
             delayed => TypeOf[e] = "provider-runtime.continue"
      PROVE  Attempted'
  <2>1. UNCHANGED attempts
    BY <1>5 DEF WriteRows
  <2>2. \A f \in Effects : /\ status'[f] = "running" => status[f] = "running"
                           /\ f # e => later'[f] = later[f] /\ rowid'[f] = rowid[f]
    BY <1>5 DEF WriteRows, IfAbsent
  <2>3. CASE status[e] = "absent"
    <3>1. later'[e] = delayed /\ rowid'[e] = NextRowid
      BY <1>5, <2>3 DEF WriteRows, IfAbsent
    <3>2. NextRowid # 0
      <4>1. IsFiniteSet({f \in Effects : rowid[f] # 0})
        <5>1. {f \in Effects : rowid[f] # 0} \in SUBSET Effects
          OBVIOUS
        <5> QED BY <5>1, FS_Subset DEF OutboxAssumption
      <4>2. Cardinality({f \in Effects : rowid[f] # 0}) \in Nat
        BY <4>1, FS_CardinalityType
      <4> QED BY <4>2 DEF NextRowid
    <3> QED BY <1>5, <2>1, <2>2, <3>1, <3>2 DEF Attempted
  <2>4. CASE status[e] # "absent"
    <3>1. later'[e] = later[e] /\ rowid'[e] = rowid[e]
      BY <1>5, <2>4 DEF WriteRows, IfAbsent
    <3> QED BY <2>1, <2>2, <3>1 DEF Attempted
  <2> QED BY <2>3, <2>4
<1>6. ASSUME NEW new, NEW X \in SUBSET Effects, WriteRows(new, X, FALSE)
      PROVE  Attempted'
  <2>1. UNCHANGED attempts
    BY <1>6 DEF WriteRows
  <2>2. \A f \in Effects : /\ status'[f] = "running" => status[f] = "running"
                           /\ \/ ~later'[f]
                              \/ later'[f] = later[f] /\ rowid'[f] = rowid[f]
    BY <1>6 DEF WriteRows, IfAbsent
  <2> QED BY <2>1, <2>2 DEF Attempted
<1>7. CASE WriterStep
  <2>1. ASSUME NEW e \in Effects, EnqueueCommand(e)
        PROVE  Attempted'
    BY <1>5, <2>1 DEF EnqueueCommand
  <2>2. ASSUME NEW t \in Threads, NEW new \in AtMostOne(Effects),
               InterruptCommand(t, new) \/ ReconcileThread(t, new)
        PROVE  Attempted'
    <3>1. \A types : Cancelled(t, types) \in SUBSET Effects
      BY DEF Cancelled
    <3> QED BY <1>6, <2>2, <3>1 DEF InterruptCommand, ReconcileThread
  <2>3. ASSUME NEW e \in Effects, Elapse(e) \/ Prune(e)
        PROVE  Attempted'
    BY <1>1, <2>3 DEF Elapse, Prune
  <2>4. CASE PublishCommit
    BY <1>1, <2>4 DEF PublishCommit, table
  <2> QED BY <1>7, <2>1, <2>2, <2>3, <2>4 DEF WriterStep
<1>8. ASSUME NEW x \in Waiters, WaiterStep(x)
      PROVE  Attempted'
  BY <1>1, <1>8 DEF WaiterStep, ReadAwaited, AwaitSettled, table
<1>9. CASE ProcessStep
  BY <1>1, <1>9 DEF ProcessStep, Boot, RetireProcessBound, RequeueReplaySafe, StartDaemon,
                    Shutdown, Crash, LostProcessBound, LostReplaySafe, table
<1>10. CASE UNCHANGED vars
  BY <1>1, <1>10 DEF vars, table
<1> QED BY <1>2, <1>3, <1>4, <1>7, <1>8, <1>9, <1>10 DEF Next
\* Attempts, row ids and faults are never taken back.
LEMMA NothingUndone ==
    ASSUME OutboxAssumption, TypeOK, LanesOK, [Next]_vars
    PROVE  /\ faults <= faults'
           /\ \A e \in Effects : attempts[e] <= attempts'[e] /\ (rowid[e] # 0 => rowid'[e] # 0)
<1> DEFINE Kept == /\ faults <= faults'
                   /\ \A e \in Effects : /\ attempts[e] <= attempts'[e]
                                         /\ rowid[e] # 0 => rowid'[e] # 0
<1>1. faults \in Nat /\ \A e \in Effects : attempts[e] \in Nat
  BY DEF TypeOK, ProcessOK, TableOK
<1>2. ASSUME UNCHANGED <<attempts, rowid>>, faults' \in {faults, faults + 1}
      PROVE  Kept
  BY <1>1, <1>2
<1>3. ASSUME NEW w \in Fibers, FiberStep(w)
      PROVE  Kept
  <2>1. ASSUME NEW e \in Effects, Claim(w, e)
        PROVE  Kept
    <3>1. attempts' = [attempts EXCEPT ![e] = @ + 1] /\ UNCHANGED <<rowid, faults>>
      BY <2>1 DEF Claim
    <3>2. \A f \in Effects : attempts'[f] = attempts[f] \/ attempts'[f] = attempts[f] + 1
      BY <3>1 DEF TypeOK, TableOK
    <3> QED BY <1>1, <3>1, <3>2
  <2>2. CASE Settles(w)
    BY <1>2, <2>2 DEF Settles, SettleAs
  <2>3. CASE Stumbles(w)
    BY <1>2, <2>3 DEF Stumbles, Fault, table
  <2>4. CASE FindsLeaseGone(w) \/ Idles(w) \/ Recheck(w) \/ ExecutionReturns(w)
             \/ ExecutionTimesOut(w) \/ ExecutionCancelled(w) \/ ExecutionUnwound(w)
    BY <1>2, <2>4
    DEF FindsLeaseGone, Idles, Recheck, ExecutionReturns, ExecutionTimesOut,
        ExecutionCancelled, ExecutionUnwound, table
  <2> QED BY <1>3, <2>1, <2>2, <2>3, <2>4, FiberStepCases
<1>4. CASE WriterStep
  <2>1. ASSUME NEW new \in AtMostOne(Effects), NEW X \in SUBSET Effects, NEW d \in BOOLEAN,
               Writes(new, X, d)
        PROVE  Kept
    <3>1. UNCHANGED <<attempts, faults>>
      BY <2>1 DEF Writes, WriteRows
    <3>2. \A e \in Effects : rowid[e] # 0 => status[e] # "absent"
      BY DEF LanesOK, RowsOK
    <3>3. \A e \in Effects : status[e] # "absent" => rowid'[e] = rowid[e]
      BY <2>1 DEF Writes, WriteRows, IfAbsent
    <3> QED BY <1>1, <3>1, <3>2, <3>3
  <2>2. ASSUME NEW e \in Effects, Elapse(e) \/ Prune(e)
        PROVE  Kept
    BY <1>2, <2>2 DEF Elapse, Prune
  <2>3. CASE PublishCommit
    BY <1>2, <2>3 DEF PublishCommit, table
  <2> QED BY <1>4, <2>1, <2>2, <2>3, WriterStepCases
<1>5. ASSUME NEW x \in Waiters, WaiterStep(x)
      PROVE  Kept
  BY <1>2, <1>5 DEF WaiterStep, ReadAwaited, AwaitSettled, table
<1>6. CASE ProcessStep
  BY <1>2, <1>6 DEF ProcessStep, Boot, RetireProcessBound, RequeueReplaySafe, StartDaemon,
                    Shutdown, Crash, table
<1>7. CASE UNCHANGED vars
  BY <1>2, <1>7 DEF vars, table
<1> QED BY <1>3, <1>4, <1>5, <1>6, <1>7 DEF Next

\* When the daemon starts, every fiber seeks.
LEMMA WakeStarts ==
    ASSUME OutboxAssumption, FewFibers, TypeOK, StartDaemon
    PROVE  Notified'
<1>1. tokens' = tokens /\ \A w \in Fibers : pc'[w] = "claiming"
  BY DEF StartDaemon
<1>2. Sleepers' = {}
  BY <1>1 DEF Sleepers, SleepingPcs
<1>3. Cardinality(Sleepers') = 0 /\ tokens \in Nat
  BY <1>2, FS_EmptySet, Counts
<1> QED BY <1>1, <1>3 DEF Notified

LEMMA WakeStep ==
    ASSUME OutboxAssumption, FewFibers, TypeOK, TypeOK', LanesOK, LanesOK', WakeOK, [Next]_vars
    PROVE  WakeOK'
<1>1. Attempted /\ Attempted'
  BY AttemptedStep DEF WakeOK
<1> SUFFICES ASSUME faults' = 0, phase' = "up", Undelayed'
             PROVE  Notified'
  BY <1>1 DEF WakeOK
<1>2. faults = 0 /\ Undelayed
  <2>1. attempts' \in [Effects -> Nat] /\ faults \in Nat
    BY DEF TypeOK, TableOK, ProcessOK
  <2> QED BY <2>1, NothingUndone, UndelayedBefore
<1>3. CASE phase = "up"
  <2>1. Notified
    BY <1>2, <1>3 DEF WakeOK
  <2>2. ASSUME NEW w \in Fibers, FiberStep(w)
        PROVE  Notified'
    BY <1>1, <2>1, <2>2, WakeFiber
  <2>3. CASE WriterStep
    BY <1>1, <1>2, <2>1, <2>3, WakeWriter
  <2>4. ASSUME UNCHANGED <<table, tokens, pc, post>>
        PROVE  Notified'
    <3>1. Fresh' = Fresh
      BY <2>4, SameTable
    <3> QED BY <2>1, <2>4, <3>1 DEF Notified, Owed, Seekers, Sleepers
  <2>5. ASSUME NEW x \in Waiters, WaiterStep(x)
        PROVE  Notified'
    BY <2>4, <2>5 DEF WaiterStep, ReadAwaited, AwaitSettled
  <2>6. CASE ProcessStep
    BY <1>3, <2>6 DEF ProcessStep, Boot, RetireProcessBound, RequeueReplaySafe, StartDaemon,
                      Shutdown, Crash, TypeOK, ProcessOK
  <2>7. CASE UNCHANGED vars
    BY <2>4, <2>7 DEF vars
  <2> QED BY <2>2, <2>3, <2>5, <2>6, <2>7 DEF Next
<1>4. CASE phase # "up"
  <2>1. StartDaemon
    <3>1. ASSUME NEW w \in Fibers, FiberStep(w)
          PROVE  phase' = phase
      BY <3>1, FiberStepCases
      DEF Claim, Settles, SettleAs, FindsLeaseGone, Stumbles, Fault, Idles, Recheck,
          ExecutionReturns, ExecutionTimesOut, ExecutionCancelled, ExecutionUnwound, lifecycle
    <3>2. CASE WriterStep
      <4>1. ASSUME NEW new, NEW X, NEW d, Writes(new, X, d)
            PROVE  phase' = phase
        BY <4>1 DEF Writes, lifecycle
      <4>2. ASSUME NEW e \in Effects, Elapse(e) \/ Prune(e)
            PROVE  phase' = phase
        BY <4>2 DEF Elapse, Prune, lifecycle
      <4>3. ASSUME PublishCommit PROVE phase' = phase
        BY <4>3 DEF PublishCommit, lifecycle
      <4> QED BY <1>4, <3>2, <4>1, <4>2, <4>3, WriterStepCases
    <3>3. ASSUME NEW x \in Waiters, WaiterStep(x)
          PROVE  phase' = phase
      BY <3>3 DEF WaiterStep, ReadAwaited, AwaitSettled, lifecycle
    <3>4. CASE Boot \/ RetireProcessBound \/ RequeueReplaySafe \/ Shutdown \/ Crash
      BY <1>4, <3>4 DEF Boot, RetireProcessBound, RequeueReplaySafe, Shutdown, Crash
    <3>5. CASE UNCHANGED vars
      BY <1>4, <3>5 DEF vars, lifecycle
    <3> QED BY <1>4, <3>1, <3>2, <3>3, <3>4, <3>5 DEF Next, ProcessStep
  <2> QED BY <2>1, WakeStarts
<1> QED BY <1>3, <1>4

LEMMA WakeInvariant == ASSUME FewFibers PROVE Spec => []WakeOK
<1>1. Init => WakeOK
  BY DEF Init, WakeOK, Attempted
<1>2. TypeOK /\ TypeOK' /\ LanesOK /\ LanesOK' /\ WakeOK /\ [Next]_vars => WakeOK'
  BY WakeStep, OutboxAssumption
<1> QED BY <1>1, <1>2, TypeCorrect, LanesInvariant, PTL DEF Spec

\* Work that can be claimed is never left to the thirty-second poll while nothing has
\* been delayed, whatever the order of commits, settlements, wake-ups and claims: with no
\* more fibers than the queue has room for, a dropped token is one no sleeping fiber
\* needs.
THEOREM WakeupsArrive == ASSUME FewFibers PROVE Spec => []NoLostWakeup
<1>1. TypeOK /\ WakeOK => NoLostWakeup
  <2> SUFFICES ASSUME TypeOK, WakeOK PROVE NoLostWakeup
    OBVIOUS
  <2> SUFFICES ASSUME faults = 0, phase = "up", NothingDelayed,
                      NEW e \in Claimable, NEW v \in Fibers, pc[v] = "polling",
                      tokens = 0, post = NoPost,
                      \A w \in Fibers : pc[w] \in {"polling", "executing"}
               PROVE  FALSE
    <3>1. tokens \in Nat
      BY OutboxAssumption DEF TypeOK, SignalsOK, OutboxAssumption
    <3> QED BY <3>1 DEF NoLostWakeup
  <2>1. Notified
    <3>1. Undelayed
      BY DEF NothingDelayed, Undelayed
    <3> QED BY <3>1 DEF WakeOK
  <2>2. e \in Fresh
    <3>1. e \in Effects /\ status[e] = "pending" /\ attempts[e] \in Nat
      BY DEF Claimable, Candidates, TypeOK, TableOK
    <3>2. attempts[e] <= 1 /\ attempts[e] # 1
      BY <3>1 DEF NothingDelayed
    <3> QED BY <3>1, <3>2 DEF Fresh
  <2>3. v \in Sleepers
    BY DEF Sleepers, SleepingPcs
  <2>4. Seekers = {}
    BY DEF Seekers, SeekingPcs
  <2>5. /\ Cardinality(Fresh) # 0 /\ Cardinality(Sleepers) # 0
        /\ Cardinality(Seekers) = 0 /\ Cardinality(post.signal) = 0 /\ post.notify = 0
    BY <2>2, <2>3, <2>4, Counts, OutboxAssumption, FS_EmptySet DEF NoPost
  <2>6. Cardinality(Fresh) \in Nat /\ Cardinality(Sleepers) \in Nat
    BY Counts, OutboxAssumption
  <2> QED BY <2>1, <2>5, <2>6 DEF Notified, Owed
<1> QED BY <1>1, WakeInvariant, TypeCorrect, PTL
=============================================================================
