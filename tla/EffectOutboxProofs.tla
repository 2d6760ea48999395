------------------------ MODULE EffectOutboxProofs ------------------------
(***************************************************************************)
(* Theorems about EffectOutbox, for every set of effects, fibers and       *)
(* waiters and every value of the bounds.                                  *)
(***************************************************************************)
EXTENDS EffectOutbox, FiniteSetTheorems, TLAPS

(***************************************************************************)
(* Type correctness, part by part.                                         *)
(***************************************************************************)
\* A fiber that goes on to l keeps its effect exactly when l is inside the
\* claim.
LEMMA GotoType ==
    ASSUME FibersOK, NEW w \in Fibers, NEW l \in FreePcs \cup BusyPcs,
           Goto(w, l), pc[w] \in BusyPcs \/ l \in FreePcs
    PROVE  FibersOK'
BY DEF FibersOK, Goto, FreePcs, BusyPcs, ExecutingPcs, SettlingPcs

LEMMA OfferedType ==
    ASSUME OutboxAssumption, SignalsOK, NEW n \in Nat
    PROVE  Offered(n) \in 0..QueueCapacity
BY DEF OutboxAssumption, SignalsOK, Offered

LEMMA SettledSignalsType ==
    ASSUME WaitersOK, NEW S, signalSettled(S)
    PROVE  WaitersOK'
BY DEF WaitersOK, signalSettled

LEMMA WriteRowsType ==
    ASSUME OutboxAssumption, TypeOK, NEW new \in AtMostOne(Effects),
           NEW X \in SUBSET Effects, NEW d \in BOOLEAN, WriteRows(new, X, d)
    PROVE  /\ TableOK'
           /\ post'.signal \in SUBSET Effects
           /\ post'.notify \in {0, 1}
<1>1. NextRowid \in Nat
  <2>1. IsFiniteSet({e \in Effects : rowid[e] # 0})
    BY FS_Subset DEF OutboxAssumption
  <2> QED BY <2>1, FS_CardinalityType DEF NextRowid
<1>2. Cardinality(new) \in {0, 1}
  BY FS_EmptySet, FS_Singleton DEF AtMostOne
<1>3. status' \in [Effects -> Statuses]
  BY DEF WriteRows, TypeOK, TableOK, Statuses, Unsettled, Settled
<1>4. rowid' \in [Effects -> Nat]
  BY <1>1 DEF WriteRows, TypeOK, TableOK
<1>5. later' \in [Effects -> BOOLEAN]
  BY DEF WriteRows, TypeOK, TableOK
<1>6. owner' \in [Effects -> Nat] /\ born' \in [Effects -> Nat]
  BY DEF WriteRows, TypeOK, TableOK, ProcessOK
<1>7. attempts' \in [Effects -> Nat]
  BY DEF WriteRows, TypeOK, TableOK
<1> QED BY <1>2, <1>3, <1>4, <1>5, <1>6, <1>7 DEF WriteRows, TableOK

LEMMA SettleAsType ==
    ASSUME OutboxAssumption, TypeOK, NEW w \in Fibers,
           NEW s \in {"pending", "succeeded", "failed"}, NEW d \in BOOLEAN,
           NEW l \in FreePcs, pc[w] \in BusyPcs, SettleAs(w, s, d, l)
    PROVE  TypeOK'
<1> DEFINE e == held[w]
<1>1. e \in Effects
  BY DEF TypeOK, FibersOK, OutboxAssumption
<1>2. TableOK'
  BY <1>1 DEF SettleAs, TypeOK, TableOK, Statuses, Unsettled, Settled
<1>3. SignalsOK'
  BY <1>1, OfferedType
  DEF SettleAs, TypeOK, SignalsOK, clearCancellation, notifyAvailable
<1>4. FibersOK'
  BY GotoType DEF SettleAs, TypeOK
<1>5. WaitersOK'
  <2>1. CASE s = "pending"
    BY <2>1 DEF SettleAs, TypeOK, WaitersOK, waiting
  <2>2. CASE s # "pending"
    BY <2>2, SettledSignalsType DEF SettleAs, TypeOK
  <2> QED BY <2>1, <2>2
<1>6. ProcessOK'
  BY DEF SettleAs, TypeOK, ProcessOK, lifecycle, BusyPcs, ExecutingPcs,
         SettlingPcs
<1> QED BY <1>2, <1>3, <1>4, <1>5, <1>6 DEF TypeOK

LEMMA FaultType ==
    ASSUME TypeOK, NEW w \in Fibers, NEW l \in FreePcs \cup BusyPcs, Fault(w, l),
           pc[w] # "down", pc[w] \in BusyPcs \/ l \in FreePcs
    PROVE  TypeOK'
<1>1. FibersOK'
  BY GotoType DEF Fault, TypeOK
<1> QED
  BY <1>1 DEF Fault, TypeOK, TableOK, SignalsOK, WaitersOK, ProcessOK, table,
              waiting, lifecycle

\* A step of a fiber that moves on, may clear its signal or take a token, and
\* changes nothing else.
LEMMA MoveType ==
    ASSUME TypeOK, NEW w \in Fibers, NEW l \in FreePcs \cup BusyPcs, Goto(w, l),
           pc[w] # "down", pc[w] \in BusyPcs \/ l \in FreePcs,
           tokens' \in 0..QueueCapacity,
           signal' \in [Effects -> {"none", "armed", "fired"}],
           UNCHANGED <<table, waiting, post, lifecycle, faults>>
    PROVE  TypeOK'
<1>1. FibersOK'
  BY GotoType DEF TypeOK
<1> QED
  BY <1>1 DEF TypeOK, TableOK, SignalsOK, WaitersOK, ProcessOK, table, waiting,
              lifecycle

LEMMA LeaseLostType ==
    ASSUME TypeOK, NEW w \in Fibers, NEW l \in FreePcs \cup BusyPcs,
           pc[w] \in BusyPcs, LeaseLost(w, l) \/ LeaseLostQuietly(w)
    PROVE  TypeOK'
<1>1. PICK k \in FreePcs \cup BusyPcs : Goto(w, k)
  BY DEF LeaseLost, LeaseLostQuietly, FreePcs
<1>2. UNCHANGED <<table, tokens, signal, waiting, post, lifecycle, faults>>
  BY DEF LeaseLost, LeaseLostQuietly
<1>3. /\ tokens' \in 0..QueueCapacity
      /\ signal' \in [Effects -> {"none", "armed", "fired"}]
  BY <1>2 DEF TypeOK, SignalsOK
<1>4. pc[w] # "down"
  BY DEF BusyPcs, ExecutingPcs, SettlingPcs
<1> QED BY <1>1, <1>2, <1>3, <1>4, MoveType

LEMMA FiberStepType ==
    ASSUME OutboxAssumption, TypeOK, NEW w \in Fibers, FiberStep(w)
    PROVE  TypeOK'
<1> USE DEF FreePcs, BusyPcs, ExecutingPcs, SettlingPcs
<1>1. ASSUME NEW e \in Effects, Claim(w, e)
      PROVE  TypeOK'
  BY <1>1 DEF Claim, OutboxAssumption, Claimable, Candidates, TypeOK, TableOK,
      SignalsOK, FibersOK, WaitersOK, ProcessOK, Statuses, Unsettled, waiting,
      lifecycle
<1>2. CASE ClaimNothing(w)
  BY <1>2, MoveType DEF ClaimNothing, TypeOK, SignalsOK
<1>3. CASE ClaimFails(w)
  BY <1>3, FaultType DEF ClaimFails
<1>4. CASE Recheck(w)
  <2>1. signal' \in [Effects -> {"none", "armed", "fired"}]
    BY <1>4 DEF Recheck, clearCancellation, TypeOK, SignalsOK
  <2>2. PICK l \in {"claiming", "executing"} : Goto(w, l)
    BY <1>4 DEF Recheck
  <2>3. pc[w] = "rechecking" /\ tokens' \in 0..QueueCapacity
          /\ UNCHANGED <<table, waiting, post, lifecycle, faults>>
    BY <1>4 DEF Recheck, TypeOK, SignalsOK
  <2> QED BY <2>1, <2>2, <2>3, MoveType
<1>5. CASE RecheckFails(w)
  BY <1>5, FaultType DEF RecheckFails
<1>6. CASE ExecutionReturns(w) \/ ExecutionTimesOut(w) \/ ExecutionUnwound(w)
  <2>1. signal' \in [Effects -> {"none", "armed", "fired"}]
    BY <1>6 DEF ExecutionReturns, ExecutionTimesOut, ExecutionUnwound,
                clearCancellation, TypeOK, SignalsOK
  <2>2. PICK l \in FreePcs \cup BusyPcs : Goto(w, l)
    BY <1>6 DEF ExecutionReturns, ExecutionTimesOut, ExecutionUnwound, Outcomes
  <2>3. pc[w] \in BusyPcs /\ tokens' \in 0..QueueCapacity
          /\ UNCHANGED <<table, waiting, post, lifecycle, faults>>
    BY <1>6 DEF ExecutionReturns, ExecutionTimesOut, ExecutionUnwound, TypeOK,
                SignalsOK
  <2> QED BY <2>1, <2>2, <2>3, MoveType
<1>7. CASE ExecutionCancelled(w)
  BY <1>7, MoveType DEF ExecutionCancelled, TypeOK, SignalsOK
<1>8. CASE Succeed(w)
  <2>1. AfterSuccess(held[w]) \in BusyPcs
    BY DEF AfterSuccess
  <2>2. CASE SettleAs(w, "succeeded", FALSE, "claiming")
    BY <1>8, <2>2, SettleAsType DEF Succeed
  <2>3. CASE LeaseLost(w, AfterSuccess(held[w]))
    BY <1>8, <2>1, <2>3, LeaseLostType DEF Succeed
  <2>4. CASE Fault(w, AfterSuccess(held[w]))
    BY <1>8, <2>1, <2>4, FaultType DEF Succeed
  <2> QED BY <1>8, <2>2, <2>3, <2>4 DEF Succeed
<1>9. CASE Concede(w)
  <2>1. CASE SettleAs(w, "succeeded", FALSE, "claiming")
    BY <1>9, <2>1, SettleAsType DEF Concede
  <2>2. CASE LeaseLost(w, "cooling")
    BY <1>9, <2>2, LeaseLostType DEF Concede
  <2>3. CASE Fault(w, "terminalizing")
    BY <1>9, <2>3, FaultType DEF Concede
  <2> QED BY <1>9, <2>1, <2>2, <2>3 DEF Concede
<1>10. CASE FailAttempt(w)
  <2>1. CASE SettleAs(w, "failed", FALSE, "claiming")
    BY <1>10, <2>1, SettleAsType DEF FailAttempt
  <2>2. CASE SettleAs(w, "pending", TRUE, "claiming")
    BY <1>10, <2>2, SettleAsType DEF FailAttempt
  <2>3. CASE Fault(w, "terminalizing") \/ Fault(w, "requeueing")
    BY <1>10, <2>3, FaultType DEF FailAttempt
  <2>4. CASE LeaseLost(w, "cooling")
    BY <1>10, <2>4, LeaseLostType DEF FailAttempt
  <2> QED BY <1>10, <2>1, <2>2, <2>3, <2>4 DEF FailAttempt
<1>11. CASE RequeueClaim(w)
  BY <1>11, SettleAsType, LeaseLostType, FaultType DEF RequeueClaim
<1>12. CASE TerminalizeClaim(w)
  BY <1>12, SettleAsType, LeaseLostType, FaultType DEF TerminalizeClaim
<1>13. CASE CoolOff(w)
  BY <1>13, MoveType DEF CoolOff, TypeOK, SignalsOK
<1>14. CASE ReadDeadline(w)
  BY <1>14, MoveType DEF ReadDeadline, TypeOK, SignalsOK
<1>15. CASE ReadDeadlineFails(w)
  BY <1>15, FaultType DEF ReadDeadlineFails
<1>16. CASE WakeNotified(w)
  BY <1>16, MoveType DEF WakeNotified, TypeOK, SignalsOK, OutboxAssumption
<1>17. CASE WakeScheduled(w)
  BY <1>17, MoveType DEF WakeScheduled, TypeOK, SignalsOK
<1> QED
  BY <1>1, <1>2, <1>3, <1>4, <1>5, <1>6, <1>7, <1>8, <1>9, <1>10, <1>11, <1>12,
     <1>13, <1>14, <1>15, <1>16, <1>17 DEF FiberStep

LEMMA WriterStepType ==
    ASSUME OutboxAssumption, TypeOK, WriterStep
    PROVE  TypeOK'
<1>1. ASSUME NEW new \in AtMostOne(Effects), NEW X \in SUBSET Effects,
             NEW d \in BOOLEAN, WriteRows(new, X, d),
             UNCHANGED <<tokens, signal, waiting, pc, held, lifecycle, faults>>
      PROVE  TypeOK'
  BY <1>1, WriteRowsType
  DEF TypeOK, SignalsOK, FibersOK, WaitersOK, ProcessOK, waiting, lifecycle
<1>2. ASSUME NEW e \in Effects, EnqueueCommand(e)
      PROVE  TypeOK'
  <2>1. PICK d \in BOOLEAN : WriteRows({e}, {}, d)
    BY <1>2 DEF EnqueueCommand
  <2> QED BY <1>1, <1>2, <2>1 DEF EnqueueCommand, AtMostOne
<1>3. ASSUME NEW e \in Effects, Elapse(e)
      PROVE  TypeOK'
  BY <1>3 DEF Elapse, TypeOK, TableOK, SignalsOK, FibersOK, WaitersOK, ProcessOK,
              waiting, lifecycle
<1>4. ASSUME NEW e \in Effects, Prune(e)
      PROVE  TypeOK'
  BY <1>4 DEF Prune, TypeOK, TableOK, SignalsOK, FibersOK, WaitersOK, ProcessOK,
              waiting, lifecycle, Statuses
<1>5. ASSUME NEW t \in Threads, NEW new \in AtMostOne(Effects),
             InterruptCommand(t, new) \/ ReconcileThread(t, new)
      PROVE  TypeOK'
  <2>1. PICK X \in SUBSET Effects : WriteRows(new, X, FALSE)
    BY <1>5 DEF InterruptCommand, ReconcileThread, Cancelled
  <2> QED BY <1>1, <1>5, <2>1 DEF InterruptCommand, ReconcileThread
<1>6. CASE PublishCommit
  <2>1. Cardinality(post.signal) \in Nat
    BY FS_Subset, FS_CardinalityType DEF OutboxAssumption, TypeOK, SignalsOK
  <2>2. tokens' \in 0..QueueCapacity
    BY <1>6, <2>1, OfferedType DEF PublishCommit, notifyAvailable, TypeOK, SignalsOK
  <2>3. SignalsOK'
    BY <1>6, <2>2 DEF PublishCommit, TypeOK, SignalsOK, NoPost
  <2>4. WaitersOK'
    BY <1>6, SettledSignalsType DEF PublishCommit, TypeOK
  <2> QED
    BY <1>6, <2>3, <2>4 DEF PublishCommit, TypeOK, TableOK, FibersOK, ProcessOK,
                            table, lifecycle
<1> QED BY <1>2, <1>3, <1>4, <1>5, <1>6 DEF WriterStep

LEMMA WaiterStepType ==
    ASSUME OutboxAssumption, TypeOK, NEW x \in Waiters, WaiterStep(x)
    PROVE  TypeOK'
<1>1. UNCHANGED <<table, tokens, signal, pc, held, post, lifecycle, faults>>
  BY DEF WaiterStep, AwaitSettled, ReadAwaited
<1>2. ASSUME NEW e \in Effects, AwaitSettled(x, e)
      PROVE  WaitersOK'
  BY <1>2 DEF AwaitSettled, Registered, TypeOK, WaitersOK, OutboxAssumption
<1>3. ASSUME ReadAwaited(x)
      PROVE  WaitersOK'
  <2>1. wfor' = wfor
    BY <1>3 DEF ReadAwaited
  <2>2. attached' \in [Effects -> SUBSET Waiters]
    BY <1>3 DEF ReadAwaited, TypeOK, WaitersOK
  <2>3. /\ wpc' \in [Waiters -> {"idle", "reading", "waiting", "done"}]
        /\ \A y \in Waiters : wpc[y] = "idle" <=> wpc'[y] = "idle"
    BY <1>3 DEF ReadAwaited, TypeOK, WaitersOK
  <2> QED BY <2>1, <2>2, <2>3 DEF TypeOK, WaitersOK
<1>4. WaitersOK'
  BY <1>2, <1>3 DEF WaiterStep
<1> QED
  BY <1>1, <1>4 DEF TypeOK, TableOK, SignalsOK, FibersOK, ProcessOK, table,
                    lifecycle

LEMMA ProcessStepType ==
    ASSUME OutboxAssumption, TypeOK, ProcessStep
    PROVE  TypeOK'
<1> USE DEF TypeOK, TableOK, SignalsOK, FibersOK, WaitersOK, ProcessOK, Statuses,
            Unsettled, Settled, Phases
<1>1. CASE Boot
  BY <1>1 DEF Boot, table, waiting
<1>2. CASE RetireProcessBound
  BY <1>2 DEF RetireProcessBound, waiting
<1>3. CASE RequeueReplaySafe
  <2>1. Cardinality(LostReplaySafe) \in Nat
    BY FS_Subset, FS_CardinalityType DEF OutboxAssumption, LostReplaySafe
  <2>2. tokens' \in 0..QueueCapacity
    BY <1>3, <2>1, OfferedType DEF RequeueReplaySafe, notifyAvailable
  <2> QED BY <1>3, <2>2 DEF RequeueReplaySafe, waiting
<1>4. CASE StartDaemon
  <2>1. \A w \in Fibers : held[w] = NoEffect
    BY <1>4 DEF StartDaemon, BusyPcs, ExecutingPcs, SettlingPcs
  <2>2. FibersOK'
    BY <1>4, <2>1 DEF StartDaemon, FreePcs, BusyPcs, ExecutingPcs, SettlingPcs
  <2>3. TableOK' /\ SignalsOK' /\ WaitersOK'
    BY <1>4 DEF StartDaemon, table, waiting
  <2>4. ProcessOK'
    BY <1>4 DEF StartDaemon
  <2> QED BY <2>2, <2>3, <2>4
<1>5. CASE Shutdown
  <2>1. FibersOK'
    BY <1>5 DEF Shutdown, FreePcs, BusyPcs, ExecutingPcs, SettlingPcs
  <2>2. SignalsOK'
    BY <1>5 DEF Shutdown
  <2>3. TableOK' /\ WaitersOK' /\ ProcessOK'
    BY <1>5 DEF Shutdown, table, waiting
  <2> QED BY <2>1, <2>2, <2>3
<1>6. CASE Crash
  <2>1. FibersOK'
    BY <1>6 DEF Crash, FreePcs, BusyPcs, ExecutingPcs, SettlingPcs
  <2>2. SignalsOK'
    BY <1>6 DEF Crash, NoPost, OutboxAssumption
  <2>3. WaitersOK'
    BY <1>6 DEF Crash
  <2>4. TableOK' /\ ProcessOK'
    BY <1>6 DEF Crash, table
  <2> QED BY <2>1, <2>2, <2>3, <2>4
<1> QED
  BY <1>1, <1>2, <1>3, <1>4, <1>5, <1>6 DEF ProcessStep

LEMMA TypeInit ==
    ASSUME OutboxAssumption, Init
    PROVE  TypeOK
<1>1. TableOK
  BY DEF Init, TableOK, Statuses
<1>2. SignalsOK
  BY DEF Init, SignalsOK, OutboxAssumption, NoPost
<1>3. FibersOK
  BY DEF Init, FibersOK, FreePcs, BusyPcs, ExecutingPcs, SettlingPcs
<1>4. WaitersOK /\ ProcessOK
  BY DEF Init, WaitersOK, ProcessOK, Phases
<1> QED BY <1>1, <1>2, <1>3, <1>4 DEF TypeOK

LEMMA TypeStep ==
    ASSUME OutboxAssumption, TypeOK, [Next]_vars
    PROVE  TypeOK'
<1>1. CASE Next
  BY <1>1, FiberStepType, WriterStepType, WaiterStepType, ProcessStepType DEF Next
<1>2. CASE UNCHANGED vars
  BY <1>2 DEF vars, table, waiting, lifecycle, TypeOK, TableOK, SignalsOK, FibersOK,
              WaitersOK, ProcessOK
<1> QED BY <1>1, <1>2

\* Every reachable state is well typed: the wake-up queue never outgrows its
\* capacity (EffectOutbox.ts, `available'), a fiber names an effect exactly inside
\* a claim, and no fiber outlives the daemon.
THEOREM TypeCorrect == Spec => []TypeOK
<1>1. Init => TypeOK
  BY TypeInit, OutboxAssumption
<1>2. TypeOK /\ [Next]_vars => TypeOK'
  BY TypeStep, OutboxAssumption
<1> QED BY <1>1, <1>2, PTL DEF Spec

-----------------------------------------------------------------------------
(***************************************************************************)
(* The table: row ids, lanes and their order.  LaneExclusive and InOrder   *)
(* are inductive once it is known that a new row gets a row id greater     *)
(* than every other and has not been attempted.                            *)
(***************************************************************************)
Inserted == {e \in Effects : rowid[e] # 0}

RowsOK ==
    /\ \A e \in Effects : rowid[e] <= Cardinality(Inserted)
    /\ \A e, f \in Effects : e # f /\ rowid[e] = rowid[f] => rowid[e] = 0
    /\ \A e \in Effects : status[e] = "absent" => rowid[e] = 0 /\ attempts[e] = 0
    /\ \A e \in Effects : rowid[e] = 0 => status[e] = "absent"

LanesOK == RowsOK /\ LaneExclusive /\ InOrder

\* A step that neither inserts nor claims: no row starts to run or becomes
\* unsettled again.
Calm ==
    /\ rowid' = rowid
    /\ attempts' = attempts
    /\ \A e \in Effects :
          /\ status'[e] = "running" => status[e] = "running"
          /\ status'[e] \in Unsettled => status[e] \in Unsettled
          /\ status'[e] = "absent" <=> status[e] = "absent"

LEMMA CalmLanes ==
    ASSUME LanesOK, Calm
    PROVE  LanesOK'
<1>1. RowsOK'
  <2>1. Inserted' = Inserted
    BY DEF Calm, Inserted
  <2> QED BY <2>1 DEF LanesOK, RowsOK, Calm
<1>2. LaneExclusive'
  BY DEF LanesOK, LaneExclusive, Calm, SameLane, IsTitle
<1>3. InOrder'
  BY DEF LanesOK, InOrder, Calm, SameLane, IsTitle
<1> QED BY <1>1, <1>2, <1>3 DEF LanesOK

\* The claim predicate admits a row only when nothing of its lane runs and every
\* earlier row of its lane has settled.
LEMMA ClaimLanes ==
    ASSUME TypeOK, LanesOK, NEW w \in Fibers, NEW e \in Effects, Claim(w, e)
    PROVE  LanesOK'
<1>1. /\ status[e] = "pending"
      /\ \A f \in Effects : SameLane(e, f) => status[f] # "running"
      /\ \A f \in Effects :
            SameLane(e, f) /\ rowid[f] < rowid[e] => status[f] # "pending"
  BY DEF Claim, Claimable, Candidates, Blocks
<1>2. /\ status' = [status EXCEPT ![e] = "running"]
      /\ attempts' = [attempts EXCEPT ![e] = @ + 1]
      /\ rowid' = rowid
  BY DEF Claim
<1>3. RowsOK'
  <2>1. Inserted' = Inserted
    BY <1>2 DEF Inserted
  <2> QED BY <1>1, <1>2, <2>1 DEF LanesOK, RowsOK, TypeOK, TableOK
<1>4. LaneExclusive'
  BY <1>1, <1>2 DEF LanesOK, LaneExclusive, SameLane, IsTitle, TypeOK, TableOK
<1>5. InOrder'
  <2> SUFFICES ASSUME NEW a \in Effects, NEW b \in Effects, SameLane(a, b),
                      0 < rowid[a], rowid[a] < rowid[b], attempts'[b] > 0
               PROVE  status'[a] \notin Unsettled
    BY <1>2 DEF InOrder, SameLane, IsTitle
  <2>1. CASE b = e
    <3>1. status[a] # "running" /\ status[a] # "pending"
      BY <1>1, <2>1 DEF SameLane
    <3>2. a # e
      BY <1>1, <3>1
    <3> QED BY <1>2, <3>1, <3>2 DEF Unsettled, TypeOK, TableOK
  <2>2. CASE b # e
    <3>1. status[a] \notin Unsettled
      BY <1>2, <2>2 DEF LanesOK, InOrder, TypeOK, TableOK
    <3> QED BY <1>1, <1>2, <3>1 DEF Unsettled, TypeOK, TableOK
  <2> QED BY <2>1, <2>2
<1> QED BY <1>3, <1>4, <1>5 DEF LanesOK

\* A transaction gives its new row the next row id and cancels unsettled rows.
LEMMA WriteRowsLanes ==
    ASSUME OutboxAssumption, TypeOK, LanesOK, NEW new \in AtMostOne(Effects),
           NEW X \in SUBSET Effects, NEW d \in BOOLEAN, WriteRows(new, X, d),
           \A x \in X : status[x] \in Unsettled
    PROVE  LanesOK'
<1> DEFINE ins == IfAbsent(new)
<1>1. IsFiniteSet(Inserted) /\ Cardinality(Inserted) \in Nat
  BY FS_Subset, FS_CardinalityType DEF OutboxAssumption, Inserted
<1>2. NextRowid = 1 + Cardinality(Inserted)
  BY DEF NextRowid, Inserted
<1>3. CASE ins = {}
  <2>1. Calm
    BY <1>3 DEF WriteRows, Calm, Unsettled, TypeOK, TableOK
  <2> QED BY <2>1, CalmLanes
<1>4. CASE ins # {}
  <2>1. PICK a \in Effects : ins = {a} /\ status[a] = "absent"
    BY <1>4 DEF IfAbsent, AtMostOne
  <2>2. rowid[a] = 0 /\ attempts[a] = 0 /\ a \notin X
    BY <2>1 DEF LanesOK, RowsOK, Unsettled
  <2>3. /\ rowid' = [rowid EXCEPT ![a] = NextRowid]
        /\ attempts' = attempts
        /\ status'[a] = "pending"
        /\ \A e \in Effects \ {a} :
              \/ status'[e] = status[e]
              \/ status[e] \in Unsettled /\ status'[e] = "cancelled"
    <3>1. rowid' = [rowid EXCEPT ![a] = NextRowid]
      BY <2>1 DEF WriteRows, TypeOK, TableOK
    <3>2. attempts' = attempts /\ status'[a] = "pending"
      BY <2>1, <2>2 DEF WriteRows
    <3>3. \A e \in Effects \ {a} :
            \/ status'[e] = status[e]
            \/ status[e] \in Unsettled /\ status'[e] = "cancelled"
      BY <2>1 DEF WriteRows
    <3> QED BY <3>1, <3>2, <3>3
  <2>4. Inserted' = Inserted \cup {a} /\ a \notin Inserted
    <3>1. NextRowid # 0
      BY <1>1, <1>2
    <3>2. \A e \in Effects : rowid'[e] # 0 <=> (rowid[e] # 0 \/ e = a)
      BY <2>3, <3>1 DEF TypeOK, TableOK
    <3> QED BY <2>2, <3>2 DEF Inserted
  <2>5. Cardinality(Inserted') = NextRowid
    <3>1. Cardinality(Inserted \cup {a}) = Cardinality(Inserted) + 1
      BY <1>1, <2>4, FS_AddElement
    <3> QED BY <1>1, <1>2, <2>4, <3>1
  <2>6. \A e \in Effects : rowid[e] < NextRowid
    BY <1>1, <1>2 DEF LanesOK, RowsOK, TypeOK, TableOK
  <2>7. RowsOK'
    BY <1>1, <1>2, <2>2, <2>3, <2>5, <2>6
    DEF LanesOK, RowsOK, TypeOK, TableOK, Unsettled
  <2>8. LaneExclusive'
    BY <2>3 DEF LanesOK, LaneExclusive, SameLane, IsTitle
  <2>9. InOrder'
    <3> SUFFICES ASSUME NEW e \in Effects, NEW f \in Effects, SameLane(e, f),
                        0 < rowid'[e], rowid'[e] < rowid'[f], attempts[f] > 0
                 PROVE  status'[e] \notin Unsettled
      BY <2>3 DEF InOrder, SameLane, IsTitle
    <3>1. f # a /\ e # a
      BY <1>1, <1>2, <2>2, <2>3, <2>6 DEF TypeOK, TableOK
    <3>2. status[e] \notin Unsettled
      BY <2>3, <3>1 DEF LanesOK, InOrder, TypeOK, TableOK
    <3> QED BY <2>3, <3>1, <3>2
  <2> QED BY <2>7, <2>8, <2>9 DEF LanesOK
<1> QED BY <1>3, <1>4

-----------------------------------------------------------------------------
(***************************************************************************)
(* Every step other than a claim and an insert is calm.                    *)
(***************************************************************************)
LEMMA SettleAsCalm ==
    ASSUME OutboxAssumption, TypeOK, NEW w \in Fibers,
           NEW s \in {"pending", "succeeded", "failed"}, NEW d, NEW l,
           pc[w] \in BusyPcs, SettleAs(w, s, d, l)
    PROVE  Calm
<1>1. held[w] \in Effects
  BY DEF TypeOK, FibersOK
<1>2. /\ status[held[w]] = "running"
      /\ status' = [status EXCEPT ![held[w]] = s]
      /\ rowid' = rowid /\ attempts' = attempts
  BY DEF SettleAs, Owns
<1> QED BY <1>1, <1>2 DEF Calm, Unsettled, TypeOK, TableOK

LEMMA FiberStepCalm ==
    ASSUME OutboxAssumption, TypeOK, NEW w \in Fibers, FiberStep(w),
           ~ \E e \in Effects : Claim(w, e)
    PROVE  Calm
<1>1. ASSUME UNCHANGED table
      PROVE  Calm
  BY <1>1 DEF table, Calm
<1>2. CASE Succeed(w) \/ Concede(w) \/ FailAttempt(w) \/ RequeueClaim(w)
             \/ TerminalizeClaim(w)
  <2>1. pc[w] \in BusyPcs
    BY <1>2 DEF Succeed, Concede, FailAttempt, RequeueClaim, TerminalizeClaim,
                BusyPcs, SettlingPcs
  <2>2. \/ UNCHANGED table
        \/ \E s \in {"pending", "succeeded", "failed"}, d \in BOOLEAN,
              l \in FreePcs : SettleAs(w, s, d, l)
    BY <1>2 DEF Succeed, Concede, FailAttempt, RequeueClaim, TerminalizeClaim,
                LeaseLost, LeaseLostQuietly, Fault, FreePcs
  <2> QED BY <1>1, <2>1, <2>2, SettleAsCalm
<1>3. CASE ~(Succeed(w) \/ Concede(w) \/ FailAttempt(w) \/ RequeueClaim(w)
               \/ TerminalizeClaim(w))
  <2>1. UNCHANGED table
    BY <1>3 DEF FiberStep, ClaimNothing, ClaimFails, Recheck, RecheckFails,
                ExecutionReturns, ExecutionTimesOut, ExecutionCancelled,
                ExecutionUnwound, CoolOff, ReadDeadline, ReadDeadlineFails,
                WakeNotified, WakeScheduled, Fault
  <2> QED BY <1>1, <2>1
<1> QED BY <1>2, <1>3

LEMMA WriterStepLanes ==
    ASSUME OutboxAssumption, TypeOK, LanesOK, WriterStep
    PROVE  LanesOK'
<1>1. ASSUME NEW e \in Effects, EnqueueCommand(e)
      PROVE  LanesOK'
  <2>1. PICK d \in BOOLEAN : WriteRows({e}, {}, d)
    BY <1>1 DEF EnqueueCommand
  <2> QED BY <2>1, WriteRowsLanes DEF AtMostOne
<1>2. ASSUME NEW t \in Threads, NEW new \in AtMostOne(Effects),
             InterruptCommand(t, new) \/ ReconcileThread(t, new)
      PROVE  LanesOK'
  <2>1. PICK X \in SUBSET Effects : /\ WriteRows(new, X, FALSE)
                                   /\ \A x \in X : status[x] \in Unsettled
    <3>1. \A types : /\ Cancelled(t, types) \in SUBSET Effects
                     /\ \A x \in Cancelled(t, types) : status[x] \in Unsettled
      BY DEF Cancelled
    <3> QED BY <1>2, <3>1 DEF InterruptCommand, ReconcileThread
  <2> QED BY <2>1, WriteRowsLanes
<1>3. ASSUME NEW e \in Effects, Elapse(e) \/ Prune(e)
      PROVE  Calm
  BY <1>3 DEF Elapse, Prune, Calm, Unsettled, TypeOK, TableOK
<1>4. ASSUME PublishCommit
      PROVE  Calm
  BY <1>4 DEF PublishCommit, Calm, table
<1> QED BY <1>1, <1>2, <1>3, <1>4, CalmLanes DEF WriterStep

LEMMA ProcessStepCalm ==
    ASSUME TypeOK, ProcessStep
    PROVE  Calm
BY DEF ProcessStep, Boot, RetireProcessBound, RequeueReplaySafe, StartDaemon,
       Shutdown, Crash, LostProcessBound, LostReplaySafe, Calm, table, Unsettled,
       TypeOK, TableOK

LEMMA LanesStep ==
    ASSUME OutboxAssumption, TypeOK, LanesOK, [Next]_vars
    PROVE  LanesOK'
<1>1. ASSUME NEW w \in Fibers, FiberStep(w)
      PROVE  LanesOK'
  BY <1>1, ClaimLanes, FiberStepCalm, CalmLanes
<1>2. ASSUME NEW x \in Waiters, WaiterStep(x)
      PROVE  Calm
  BY <1>2 DEF WaiterStep, ReadAwaited, AwaitSettled, table, Calm
<1>3. ASSUME UNCHANGED vars
      PROVE  Calm
  BY <1>3 DEF vars, table, Calm
<1> QED
  BY <1>1, <1>2, <1>3, WriterStepLanes, ProcessStepCalm, CalmLanes DEF Next

LEMMA LanesInit ==
    ASSUME OutboxAssumption, Init
    PROVE  LanesOK
<1>1. Inserted = {}
  BY DEF Init, Inserted
<1>2. Cardinality(Inserted) = 0
  BY <1>1, FS_EmptySet
<1> QED
  BY <1>2 DEF Init, LanesOK, RowsOK, LaneExclusive, InOrder

LEMMA LanesInvariant == Spec => []LanesOK
<1>1. Init => LanesOK
  BY LanesInit, OutboxAssumption
<1>2. TypeOK /\ LanesOK /\ [Next]_vars => LanesOK'
  BY LanesStep, OutboxAssumption
<1> QED BY <1>1, <1>2, TypeCorrect, PTL DEF Spec

\* At most one row of a lane runs, whatever the number of fibers and processes:
\* "a running effect blocks later work on its thread" (EffectWorker.ts).
THEOREM LaneExclusion == Spec => []LaneExclusive
<1>1. LanesOK => LaneExclusive
  BY DEF LanesOK
<1> QED BY <1>1, LanesInvariant, PTL

\* No effect is attempted before every earlier effect of its lane has settled, in
\* spite of backoffs, cancellations and requeues.
THEOREM LaneOrder == Spec => []InOrder
<1>1. LanesOK => InOrder
  BY DEF LanesOK
<1> QED BY <1>1, LanesInvariant, PTL

-----------------------------------------------------------------------------
(***************************************************************************)
(* Holders.  Only a holder settles a running row, and everything else that *)
(* takes the lease away either cancels the row or runs without fibers.     *)
(***************************************************************************)
\* A step that leaves held and process alone and only cancels rows that were
\* running keeps the holders.
LEMMA HoldersKept ==
    ASSUME OneHolder, held' = held, process' = process,
           \A w \in Fibers : held[w] # NoEffect =>
              \/ /\ status'[held[w]] = status[held[w]]
                 /\ owner'[held[w]] = owner[held[w]]
              \/ status'[held[w]] = "cancelled"
    PROVE  OneHolder'
BY DEF OneHolder, Owns

\* A fiber that goes on keeps its effect or lets it go.
LEMMA HolderMoves ==
    ASSUME TypeOK, OneHolder, NEW w \in Fibers, NEW l, Goto(w, l),
           UNCHANGED <<table, process>>
    PROVE  OneHolder'
<1>1. \A v \in Fibers : held'[v] = held[v] \/ held'[v] = NoEffect
  BY DEF Goto, TypeOK, FibersOK
<1>2. /\ \A e \in Effects : status'[e] = status[e] /\ owner'[e] = owner[e]
      /\ process' = process
  BY DEF table
<1> QED BY <1>1, <1>2 DEF OneHolder, Owns, TypeOK, FibersOK

LEMMA HolderSettles ==
    ASSUME OutboxAssumption, TypeOK, OneHolder, NEW w \in Fibers, NEW s, NEW d,
           NEW l \in FreePcs, pc[w] \in BusyPcs, SettleAs(w, s, d, l)
    PROVE  OneHolder'
<1>1. held[w] \in Effects /\ held[w] # NoEffect
  BY DEF TypeOK, FibersOK
<1>2. held' = [held EXCEPT ![w] = NoEffect] /\ process' = process
  BY DEF SettleAs, Goto, FreePcs, BusyPcs, ExecutingPcs, SettlingPcs, lifecycle
<1>3. \A e \in Effects \ {held[w]} : status'[e] = status[e] /\ owner'[e] = owner[e]
  BY <1>1 DEF SettleAs, TypeOK, TableOK
<1>4. \A v \in Fibers \ {w} : held[v] # held[w]
  BY <1>1 DEF OneHolder
<1> QED BY <1>1, <1>2, <1>3, <1>4 DEF OneHolder, Owns, TypeOK, FibersOK

LEMMA FiberStepHolders ==
    ASSUME OutboxAssumption, TypeOK, OneHolder, NEW w \in Fibers, FiberStep(w)
    PROVE  OneHolder'
<1>1. ASSUME NEW e \in Effects, Claim(w, e)
      PROVE  OneHolder'
  <2>1. status[e] = "pending" /\ e # NoEffect
    BY <1>1 DEF Claim, Claimable, Candidates, OutboxAssumption
  <2>2. \A v \in Fibers : held[v] # e
    BY <2>1 DEF OneHolder, Owns
  <2>3. /\ held' = [held EXCEPT ![w] = e]
        /\ status' = [status EXCEPT ![e] = "running"]
        /\ owner' = [owner EXCEPT ![e] = process]
        /\ process' = process
    BY <1>1 DEF Claim, lifecycle
  <2> QED BY <2>1, <2>2, <2>3 DEF OneHolder, Owns, TypeOK, TableOK, FibersOK
<1>2. CASE Succeed(w) \/ Concede(w) \/ FailAttempt(w) \/ RequeueClaim(w)
             \/ TerminalizeClaim(w)
  <2>1. pc[w] \in BusyPcs
    BY <1>2 DEF Succeed, Concede, FailAttempt, RequeueClaim, TerminalizeClaim,
                BusyPcs, SettlingPcs
  <2>2. CASE \E s \in {"pending", "succeeded", "failed"}, d \in BOOLEAN,
                l \in FreePcs : SettleAs(w, s, d, l)
    BY <2>1, <2>2, HolderSettles
  <2>3. CASE ~ \E s \in {"pending", "succeeded", "failed"}, d \in BOOLEAN,
                  l \in FreePcs : SettleAs(w, s, d, l)
    <3>1. (\E l : Goto(w, l)) /\ UNCHANGED <<table, process>>
      BY <1>2, <2>3 DEF Succeed, Concede, FailAttempt, RequeueClaim,
                        TerminalizeClaim, LeaseLost, LeaseLostQuietly, Fault,
                        FreePcs, lifecycle
    <3> QED BY <3>1, HolderMoves
  <2> QED BY <2>2, <2>3
<1>3. CASE \/ ClaimNothing(w) \/ ClaimFails(w) \/ Recheck(w) \/ RecheckFails(w)
           \/ ExecutionReturns(w) \/ ExecutionTimesOut(w) \/ ExecutionCancelled(w)
           \/ ExecutionUnwound(w) \/ CoolOff(w) \/ ReadDeadline(w)
           \/ ReadDeadlineFails(w) \/ WakeNotified(w) \/ WakeScheduled(w)
  <2>1. (\E l : Goto(w, l)) /\ UNCHANGED <<table, process>>
    BY <1>3 DEF ClaimNothing, ClaimFails, Recheck, RecheckFails,
                ExecutionReturns, ExecutionTimesOut, ExecutionCancelled,
                ExecutionUnwound, CoolOff, ReadDeadline, ReadDeadlineFails,
                WakeNotified, WakeScheduled, Fault, lifecycle
  <2> QED BY <2>1, HolderMoves
<1> QED BY <1>1, <1>2, <1>3 DEF FiberStep

LEMMA WriterStepHolders ==
    ASSUME TypeOK, OneHolder, WriterStep
    PROVE  OneHolder'
<1>1. ASSUME NEW new, NEW X \in SUBSET Effects, NEW d, WriteRows(new, X, d),
             UNCHANGED <<held, process>>
      PROVE  OneHolder'
  <2>1. \A w \in Fibers : held[w] # NoEffect =>
          /\ held[w] \in Effects
          /\ status[held[w]] # "absent"
    BY DEF OneHolder, Owns, TypeOK, FibersOK
  <2>2. \A e \in Effects : status[e] # "absent" =>
          \/ status'[e] = status[e] /\ owner'[e] = owner[e]
          \/ status'[e] = "cancelled"
    BY <1>1 DEF WriteRows, IfAbsent
  <2> QED BY <1>1, <2>1, <2>2, HoldersKept
<1>2. ASSUME NEW e \in Effects, EnqueueCommand(e)
      PROVE  OneHolder'
  BY <1>1, <1>2 DEF EnqueueCommand, lifecycle
<1>3. ASSUME NEW t \in Threads, NEW new \in AtMostOne(Effects),
             InterruptCommand(t, new) \/ ReconcileThread(t, new)
      PROVE  OneHolder'
  <2>1. \A types : Cancelled(t, types) \in SUBSET Effects
    BY DEF Cancelled
  <2> QED
    BY <1>1, <1>3, <2>1 DEF InterruptCommand, ReconcileThread, lifecycle
<1>4. ASSUME NEW e \in Effects, Elapse(e) \/ Prune(e)
      PROVE  OneHolder'
  <2>1. /\ held' = held /\ process' = process /\ owner' = owner
        /\ \A w \in Fibers : held[w] # NoEffect =>
              status'[held[w]] = status[held[w]]
    BY <1>4 DEF Elapse, Prune, lifecycle, TypeOK, TableOK, FibersOK
  <2> QED BY <2>1, HoldersKept
<1>5. ASSUME PublishCommit
      PROVE  OneHolder'
  BY <1>5, HoldersKept DEF PublishCommit, table, lifecycle
<1> QED BY <1>2, <1>3, <1>4, <1>5 DEF WriterStep

\* Outside the phase "up" there is no fiber, so no effect is held.
LEMMA ProcessStepHolders ==
    ASSUME OutboxAssumption, TypeOK, OneHolder, ProcessStep
    PROVE  OneHolder'
<1>1. ASSUME phase # "up", UNCHANGED held
      PROVE  OneHolder'
  <2>1. \A w \in Fibers : held[w] = NoEffect
    BY <1>1 DEF TypeOK, FibersOK, ProcessOK, BusyPcs, ExecutingPcs, SettlingPcs
  <2> QED BY <1>1, <2>1 DEF OneHolder
<1>2. ASSUME Shutdown \/ Crash
      PROVE  OneHolder'
  <2>1. \A w \in Fibers : held'[w] = NoEffect
    BY <1>2 DEF Shutdown, Crash
  <2> QED BY <2>1 DEF OneHolder
<1>3. ASSUME Boot \/ RetireProcessBound \/ RequeueReplaySafe \/ StartDaemon
      PROVE  phase # "up" /\ UNCHANGED held
  BY <1>3 DEF Boot, RetireProcessBound, RequeueReplaySafe, StartDaemon, TypeOK,
              ProcessOK
<1> QED BY <1>1, <1>2, <1>3 DEF ProcessStep

\* An effect is worked on by at most one fiber, which holds its lease until the
\* effect is cancelled: two fibers of a process share a worker id, so the check of
\* the lease in the code cannot tell them apart.
THEOREM SingleHolder == Spec => []OneHolder
<1>1. Init => OneHolder
  BY DEF Init, OneHolder
<1>2. TypeOK /\ OneHolder /\ [Next]_vars => OneHolder'
  <2> SUFFICES ASSUME TypeOK, OneHolder, [Next]_vars
               PROVE  OneHolder'
    OBVIOUS
  <2>1. ASSUME NEW x \in Waiters, WaiterStep(x)
        PROVE  OneHolder'
    BY <2>1, HoldersKept DEF WaiterStep, ReadAwaited, AwaitSettled, table,
                             lifecycle
  <2>2. ASSUME UNCHANGED vars
        PROVE  OneHolder'
    BY <2>2, HoldersKept DEF vars, table, lifecycle
  <2> QED
    BY <2>1, <2>2, OutboxAssumption, FiberStepHolders, WriterStepHolders,
       ProcessStepHolders DEF Next
<1> QED BY <1>1, <1>2, TypeCorrect, PTL DEF Spec

\* Two executions of a lane overlap only while a cancelled one is interrupted: an
\* execution that was not cancelled still has its lease, and a lane has one.
THEOREM OverlapOnlyCancelled == Spec => []OnlyCancelledOverlap
<1>1. TypeOK /\ LaneExclusive /\ OneHolder => OnlyCancelledOverlap
  <2> SUFFICES ASSUME TypeOK, LaneExclusive, OneHolder,
                      NEW v \in Fibers, NEW w \in Fibers, v # w,
                      pc[v] \in ExecutingPcs, pc[w] \in ExecutingPcs,
                      SameLane(held[v], held[w])
               PROVE  \/ status[held[v]] = "cancelled"
                      \/ status[held[w]] = "cancelled"
    BY DEF OnlyCancelledOverlap
  <2>1. held[v] \in Effects /\ held[w] \in Effects
          /\ held[v] # NoEffect /\ held[w] # NoEffect
    BY DEF TypeOK, FibersOK, BusyPcs
  <2>2. held[v] # held[w]
    BY <2>1 DEF OneHolder
  <2> QED BY <2>1, <2>2 DEF OneHolder, LaneExclusive, Owns
<1> QED BY <1>1, TypeCorrect, LaneExclusion, SingleHolder, PTL

-----------------------------------------------------------------------------
(***************************************************************************)
(* Settled effects stay settled.                                           *)
(***************************************************************************)
\* The step reopens no settled row and settles none differently.
StaysSettled ==
    \A e \in Effects : status[e] \in Settled =>
        \/ status'[e] = status[e]
        \/ status'[e] = "pruned" /\ status[e] # "failed"

LEMMA FiberStepSettled ==
    ASSUME TypeOK, NEW w \in Fibers, FiberStep(w)
    PROVE  StaysSettled
<1>1. ASSUME NEW e \in Effects, Claim(w, e)
      PROVE  StaysSettled
  BY <1>1 DEF Claim, Claimable, Candidates, StaysSettled, Settled, TypeOK, TableOK
<1>2. ASSUME UNCHANGED table
      PROVE  StaysSettled
  BY <1>2 DEF table, StaysSettled
<1>3. ASSUME NEW s, NEW d, NEW l, SettleAs(w, s, d, l)
      PROVE  StaysSettled
  BY <1>3 DEF SettleAs, Owns, StaysSettled, Settled, TypeOK, TableOK
<1>4. CASE Succeed(w) \/ Concede(w) \/ FailAttempt(w) \/ RequeueClaim(w)
             \/ TerminalizeClaim(w)
  BY <1>2, <1>3, <1>4 DEF Succeed, Concede, FailAttempt, RequeueClaim,
                          TerminalizeClaim, LeaseLost, LeaseLostQuietly, Fault
<1>5. CASE \/ ClaimNothing(w) \/ ClaimFails(w) \/ Recheck(w) \/ RecheckFails(w)
           \/ ExecutionReturns(w) \/ ExecutionTimesOut(w) \/ ExecutionCancelled(w)
           \/ ExecutionUnwound(w) \/ CoolOff(w) \/ ReadDeadline(w)
           \/ ReadDeadlineFails(w) \/ WakeNotified(w) \/ WakeScheduled(w)
  <2>1. UNCHANGED table
    BY <1>5 DEF ClaimNothing, ClaimFails, Recheck, RecheckFails,
                ExecutionReturns, ExecutionTimesOut, ExecutionCancelled,
                ExecutionUnwound, CoolOff, ReadDeadline, ReadDeadlineFails,
                WakeNotified, WakeScheduled, Fault
  <2> QED BY <1>2, <2>1
<1> QED BY <1>1, <1>4, <1>5 DEF FiberStep

LEMMA WriterStepSettled ==
    ASSUME TypeOK, WriterStep
    PROVE  StaysSettled
<1>1. ASSUME NEW new, NEW X, NEW d, WriteRows(new, X, d),
             \A x \in X : status[x] \in Unsettled
      PROVE  StaysSettled
  BY <1>1 DEF WriteRows, IfAbsent, StaysSettled, Settled, Unsettled
<1>2. ASSUME NEW e \in Effects, EnqueueCommand(e)
      PROVE  StaysSettled
  BY <1>1, <1>2 DEF EnqueueCommand
<1>3. ASSUME NEW t \in Threads, NEW new \in AtMostOne(Effects),
             InterruptCommand(t, new) \/ ReconcileThread(t, new)
      PROVE  StaysSettled
  <2>1. \A types : \A x \in Cancelled(t, types) : status[x] \in Unsettled
    BY DEF Cancelled
  <2> QED BY <1>1, <1>3, <2>1 DEF InterruptCommand, ReconcileThread
<1>4. ASSUME NEW e \in Effects, Elapse(e) \/ Prune(e)
      PROVE  StaysSettled
  BY <1>4 DEF Elapse, Prune, StaysSettled, TypeOK, TableOK
<1>5. ASSUME PublishCommit
      PROVE  StaysSettled
  BY <1>5 DEF PublishCommit, table, StaysSettled
<1> QED BY <1>2, <1>3, <1>4, <1>5 DEF WriterStep

LEMMA ProcessStepSettled ==
    ASSUME ProcessStep
    PROVE  StaysSettled
BY DEF ProcessStep, Boot, RetireProcessBound, RequeueReplaySafe, StartDaemon,
       Shutdown, Crash, LostProcessBound, LostReplaySafe, Unsettled, Settled,
       table, StaysSettled

\* A settled effect is never reopened or settled differently, by a late success, a
\* redelivered enqueue or the recovery of a lost process; only pruning removes it.
THEOREM SettledForGood == Spec => SettledIsFinal
<1>1. TypeOK /\ [Next]_vars => [StaysSettled]_vars
  <2> SUFFICES ASSUME TypeOK, Next
               PROVE  StaysSettled
    OBVIOUS
  <2>1. ASSUME NEW x \in Waiters, WaiterStep(x)
        PROVE  StaysSettled
    BY <2>1 DEF WaiterStep, ReadAwaited, AwaitSettled, table, StaysSettled
  <2> QED
    BY <2>1, FiberStepSettled, WriterStepSettled, ProcessStepSettled DEF Next
<1> QED BY <1>1, TypeCorrect, PTL DEF Spec, SettledIsFinal, StaysSettled
=============================================================================
