----------------------- MODULE ProjectDeletionProofs -----------------------
(***************************************************************************)
(* A project goes after its threads.  A deletion runs commands of its own  *)
(* under the locks of CommandDispatch; all but two of its steps are steps  *)
(* of a call there, or the end of one, and what CommandDispatchProofs shows*)
(* of these is used as it is.                                              *)
(***************************************************************************)
EXTENDS ProjectDeletion, CommandDispatchProofs

(***************************************************************************)
(* The inductive invariant.  Working says where a deletion stands: each    *)
(* thread it found is deleted or left, the call under way is the command   *)
(* it derived for one that is left, and a plan deletes that thread.        *)
(* DerivedReceipts says what a receipt of a derived command proves; no     *)
(* thread command has the id of one (CallsApart).                          *)
(***************************************************************************)
DeletionTypes ==
    /\ project \in {"live", "deleted"}
    /\ step \in [Deleters -> {"idle", "listing", "cascading", "recording"}]
    /\ DOMAIN request = Deleters
    /\ snapshot \in [Deleters -> SUBSET Threads]
    /\ left \in [Deleters -> SUBSET Threads]

Found(d) ==
    /\ step[d] # "idle" => request[d] \in ProjectIds
    /\ step[d] = "recording" => project = "deleted"
    /\ left[d] \subseteq snapshot[d]
    /\ \A t \in snapshot[d] : Exists(t) /\ (t \in left[d] \/ rows[t].deleted)

ChildUnderWay(d) ==
    /\ pc[d] \in {"idle", "locking", "planning", "committing", "answering"}
    /\ chats[d] = {}
    /\ pc[d] # "idle" => /\ step[d] = "cascading"
                         /\ call[d].thread \in left[d]
                         /\ call[d] = childCommand[<<request[d], call[d].thread>>]
    /\ pc[d] = "locking" => locks[d] = <<call[d].thread>>
    /\ pc[d] = "committing" => /\ call[d].thread \in DOMAIN plan[d]
                               /\ plan[d][call[d].thread].deleted
    /\ pc[d] = "answering" /\ answer[d].verdict = "accepted" =>
          /\ receipts[call[d].id] # NoReceipt
          /\ receipts[call[d].id].status = "accepted"

Working(d) == Found(d) /\ ChildUnderWay(d)

CallsApart == \A c \in Callers \ Deleters : call[c] \notin Derived

DerivedReceipts ==
    \A cmd \in Derived :
        /\ receipts[cmd.id] # NoReceipt
        /\ receipts[cmd.id].status = "accepted"
        /\ receipts[cmd.id].thread = cmd.thread
        => rows[cmd.thread].deleted

ProjectInv ==
    /\ TypeOK /\ WritesOK
    /\ DeletionTypes
    /\ \A d \in Deleters : Working(d)
    /\ CallsApart /\ DerivedReceipts
-----------------------------------------------------------------------------
(***************************************************************************)
(* The commands a deletion derives.                                        *)
(***************************************************************************)
LEMMA DerivedCommand ==
    ASSUME DeletionAssumption, NEW p \in ProjectIds, NEW t \in Threads
    PROVE  /\ childCommand[<<p, t>>] \in Derived
           /\ childCommand[<<p, t>>] \in Commands
           /\ childCommand[<<p, t>>].type = "delete"
           /\ childCommand[<<p, t>>].thread = t
<1>1. <<p, t>> \in ProjectIds \X Threads
  OBVIOUS
<1>2. childCommand[<<p, t>>] \in Commands
  BY <1>1 DEF DeletionAssumption
<1>3. childCommand[<<p, t>>].type = "delete" /\ childCommand[<<p, t>>].thread = t
  BY DEF DeletionAssumption
<1>4. childCommand[<<p, t>>] \in Derived
  BY <1>1 DEF Derived
<1> QED BY <1>2, <1>3, <1>4

LEMMA DerivedIsCommand ==
    ASSUME DeletionAssumption, NEW cmd \in Derived
    PROVE  cmd \in Commands /\ cmd.thread \in Threads /\ cmd.id \in Ids
<1>1. PICK x \in ProjectIds \X Threads : cmd = childCommand[x]
  BY DEF Derived
<1>2. x[1] \in ProjectIds /\ x[2] \in Threads /\ x = <<x[1], x[2]>>
  OBVIOUS
<1>3. cmd \in Commands /\ cmd.thread = x[2]
  BY <1>1, <1>2, DerivedCommand
<1> QED BY <1>2, <1>3 DEF Ids

\* The call under way is one of them.
LEMMA ChildCommand ==
    ASSUME DeletionAssumption, DeletionTypes, NEW d \in Deleters, Working(d), pc[d] # "idle"
    PROVE  /\ call[d] \in Derived /\ call[d] \in Commands
           /\ call[d].type = "delete"
           /\ call[d].id \in Ids
           /\ call[d].thread \in Threads
           /\ call[d].thread \in left[d]
           /\ Exists(call[d].thread)
<1>1. /\ step[d] = "cascading" /\ call[d].thread \in left[d]
      /\ call[d] = childCommand[<<request[d], call[d].thread>>]
      /\ request[d] \in ProjectIds
      /\ left[d] \subseteq snapshot[d]
      /\ snapshot[d] \subseteq Threads
  BY DEF Working, Found, ChildUnderWay, DeletionTypes
<1>2. Exists(call[d].thread)
  BY <1>1 DEF Working, Found
<1>3. call[d].thread \in Threads
  BY <1>1
<1>4. /\ call[d] \in Derived /\ call[d] \in Commands /\ call[d].type = "delete"
  BY <1>1, <1>3, DerivedCommand
<1> QED BY <1>1, <1>2, <1>3, <1>4 DEF Ids

-----------------------------------------------------------------------------
(***************************************************************************)
(* The steps.  What a deletion does for a thread is a step of a call, or   *)
(* the end of one, but that it takes its thread and one lock directly.     *)
(***************************************************************************)
\* The plan for a child is the plan of the delete command.
LEMMA PlanIsAccept ==
    ASSUME DispatchAssumption, DeletionAssumption, TypeOK, DeletionTypes, NEW d \in Deleters,
           Working(d), PlanChild(d)
    PROVE  Work(d)
<1>1. /\ call[d].type = "delete" /\ Exists(call[d].thread) /\ chats[d] = {}
      /\ pc[d] = "planning"
  BY ChildCommand DEF PlanChild, Working, ChildUnderWay
<1>2. Acceptable(call[d])
  BY <1>1 DEF Acceptable, Exists
<1>3. Writes(call[d], chats[d]) = [t \in {call[d].thread} |-> Deleted(t, call[d].id)]
  <2>1. {call[d].thread} \cup chats[d] = {call[d].thread}
    BY <1>1
  <2> QED BY <1>1, <2>1 DEF Writes, LocksParent
<1>4. Accept(d)
  BY <1>1, <1>2, <1>3 DEF Accept, PlanChild, Goto, deletion
<1> QED BY <1>4 DEF Work, Decide

LEMMA StepKinds ==
    ASSUME DispatchAssumption, DeletionAssumption, TypeOK, DeletionTypes, NEW d \in Deleters,
           Working(d), ProjectStep(d)
    PROVE  \/ UNCHANGED vars
           \/ Ends(d) /\ UNCHANGED answers
           \/ Work(d)
           \/ TakeChild(d)
           \/ LockChild(d)
<1>1. CASE StartDelete(d) \/ ListChildren(d) \/ RecordDeletion(d)
  BY <1>1 DEF StartDelete, ListChildren, RecordDeletion
<1>2. CASE PassChild(d) \/ ChildDone(d) \/ InterruptDelete(d)
  BY <1>2 DEF PassChild, ChildDone, InterruptDelete
<1>3. CASE PlanChild(d)
  BY <1>3, PlanIsAccept
<1>4. CASE CommitChild(d)
  BY <1>4 DEF CommitChild, Work
<1> QED BY <1>1, <1>2, <1>3, <1>4 DEF ProjectStep

LEMMA DeletersCall == ASSUME DeletionAssumption, NEW d \in Deleters PROVE d \in Callers
BY DEF DeletionAssumption

LEMMA TakeType ==
    ASSUME DispatchAssumption, DeletionAssumption, TypeOK, DeletionTypes, NEW d \in Deleters,
           Working(d), TakeChild(d)
    PROVE  TypeOK' /\ Local(d) /\ call'[d] \in Commands /\ pc'[d] = "locking"
<1> USE DeletersCall
<1>1. PICK t \in left[d] : /\ call' = [call EXCEPT ![d] = childCommand[<<request[d], t>>]]
                           /\ locks' = [locks EXCEPT ![d] = <<t>>]
  BY DEF TakeChild
<1>2. /\ pc[d] = "idle" /\ pc' = [pc EXCEPT ![d] = "locking"]
      /\ UNCHANGED <<stored, holder, chats, plan, answer, answers>>
      /\ step[d] = "cascading"
  BY DEF TakeChild, Goto
<1>3. t \in Threads /\ request[d] \in ProjectIds
  BY <1>2 DEF DeletionTypes, Working, Found
<1>4. childCommand[<<request[d], t>>] \in Commands
  BY <1>3, DerivedCommand
<1>5. StoredOK'
  BY <1>2 DEF TypeOK, StoredOK, stored
<1>6. FibersOK'
  <2>1. <<t>> \in Seq(Threads)
    BY <1>3
  <2>2. call' \in [Callers -> Commands \cup {Idle}] /\ locks' \in [Callers -> Seq(Threads)]
    BY <1>1, <1>4, <2>1 DEF TypeOK, FibersOK
  <2>3. pc' \in [Callers -> {"idle", "routing", "locking", "answering"} \cup Locked]
    BY <1>2 DEF TypeOK, FibersOK
  <2> QED BY <1>2, <2>2, <2>3 DEF TypeOK, FibersOK
<1>7. /\ call'[d] = childCommand[<<request[d], t>>] /\ locks'[d] = <<t>> /\ pc'[d] = "locking"
      /\ \A c \in Callers \ {d} : call'[c] = call[c] /\ locks'[c] = locks[c] /\ pc'[c] = pc[c]
  BY <1>1, <1>2 DEF TypeOK, FibersOK
<1>8. ControlOK'
  <2> SUFFICES ASSUME NEW c \in Callers PROVE Controlled(c)'
    BY DEF ControlOK
  <2>1. CASE c = d
    BY <1>4, <1>7, <2>1 DEF Controlled, Locked
  <2>2. CASE c # d
    BY <1>2, <1>7, <2>2 DEF Controlled, TypeOK, ControlOK
  <2> QED BY <2>1, <2>2
<1>9. Local(d)
  BY <1>2, <1>7 DEF Local
<1> QED BY <1>2, <1>4, <1>5, <1>6, <1>7, <1>8, <1>9 DEF TypeOK

LEMMA TakeWrites ==
    ASSUME DispatchAssumption, DeletionAssumption, TypeOK, WritesOK, DeletionTypes,
           NEW d \in Deleters, Working(d), TakeChild(d)
    PROVE  WritesOK'
<1> USE DeletersCall
<1>1. Local(d) /\ pc'[d] = "locking" /\ UNCHANGED <<stored, holder, chats>>
  BY TakeType DEF TakeChild
<1>2. PICK t \in left[d] : /\ call' = [call EXCEPT ![d] = childCommand[<<request[d], t>>]]
                           /\ locks' = [locks EXCEPT ![d] = <<t>>]
  BY DEF TakeChild
<1>3. t \in Threads /\ request[d] \in ProjectIds /\ chats[d] = {}
  BY DEF DeletionTypes, Working, Found, ChildUnderWay, TakeChild
<1>4. call'[d] = childCommand[<<request[d], t>>] /\ locks'[d] = <<t>>
  BY <1>2 DEF TypeOK, FibersOK
<1>5. call'[d].type = "delete" /\ call'[d].thread = t
  BY <1>3, <1>4, DerivedCommand
<1>6. t \in Range(locks'[d])
  BY <1>4 DEF Range
<1>7. LocksRight(d)'
  BY <1>1, <1>3, <1>5, <1>6 DEF LocksRight, Claims
<1>8. PlanRight(d)'
  BY <1>1 DEF PlanRight
<1> QED BY <1>1, <1>7, <1>8, QuietStep DEF stored

LEMMA LockType ==
    ASSUME DispatchAssumption, DeletionAssumption, TypeOK, NEW d \in Deleters, LockChild(d),
           call[d].thread \in Threads
    PROVE  TypeOK' /\ Local(d) /\ pc'[d] = "planning"
<1> USE DeletersCall
<1> DEFINE t == call[d].thread
<1>1. /\ pc[d] = "locking" /\ pc' = [pc EXCEPT ![d] = "planning"]
      /\ holder[t] = NoCaller /\ holder' = [holder EXCEPT ![t] = d]
      /\ locks' = [locks EXCEPT ![d] = <<>>]
      /\ UNCHANGED <<stored, call, chats, plan, answer, answers>>
  BY DEF LockChild, Goto
<1>2. d # NoCaller
  BY DEF DispatchAssumption
<1>3. StoredOK'
  BY <1>1 DEF TypeOK, StoredOK, stored
<1>4. FibersOK'
  <2>1. <<>> \in Seq(Threads) /\ "planning" \in Locked
    BY DEF Locked
  <2>2. /\ pc' \in [Callers -> {"idle", "routing", "locking", "answering"} \cup Locked]
        /\ holder' \in [Threads -> Callers \cup {NoCaller}]
        /\ locks' \in [Callers -> Seq(Threads)]
    BY <1>1, <2>1 DEF TypeOK, FibersOK
  <2> QED BY <1>1, <2>2 DEF TypeOK, FibersOK
<1>5. /\ locks'[d] = <<>> /\ pc'[d] = "planning"
      /\ \A c \in Callers \ {d} : locks'[c] = locks[c] /\ pc'[c] = pc[c]
      /\ \A u \in Threads, c \in Callers \ {d} : holder'[u] = c <=> holder[u] = c
  BY <1>1, <1>2 DEF TypeOK, FibersOK, DispatchAssumption
<1>6. ControlOK'
  <2> SUFFICES ASSUME NEW c \in Callers PROVE Controlled(c)'
    BY DEF ControlOK
  <2>1. CASE c = d
    BY <1>1, <1>5, <2>1 DEF Controlled, TypeOK, ControlOK, Locked
  <2>2. CASE c # d
    BY <1>1, <1>5, <2>2 DEF Controlled, TypeOK, ControlOK
  <2> QED BY <2>1, <2>2
<1>7. Local(d)
  BY <1>1, <1>5 DEF Local
<1> QED BY <1>1, <1>3, <1>4, <1>5, <1>6, <1>7 DEF TypeOK

LEMMA LockWrites ==
    ASSUME DispatchAssumption, DeletionAssumption, TypeOK, WritesOK, DeletionTypes,
           NEW d \in Deleters, Working(d), LockChild(d)
    PROVE  WritesOK'
<1> USE DeletersCall
<1>1. /\ pc[d] = "locking" /\ call[d].thread \in Threads /\ call[d].type = "delete"
      /\ chats[d] = {}
  BY ChildCommand DEF LockChild, Working, ChildUnderWay
<1>2. /\ Local(d) /\ pc'[d] = "planning"
  BY <1>1, LockType
<1>3. UNCHANGED <<stored, call, chats>> /\ holder' = [holder EXCEPT ![call[d].thread] = d]
  BY DEF LockChild
<1>4. holder'[call[d].thread] = d
  BY <1>1, <1>3 DEF TypeOK, FibersOK
<1>5. LocksRight(d)'
  BY <1>1, <1>2, <1>3, <1>4 DEF LocksRight, Claims
<1>6. PlanRight(d)'
  BY <1>2 DEF PlanRight
<1> QED BY <1>2, <1>3, <1>5, <1>6, QuietStep DEF stored
\* What a call may do to the receipts, and to the answers of others.
LEMMA WorkReceipts ==
    ASSUME DispatchAssumption, TypeOK, NEW c \in Callers, Work(c)
    PROVE  /\ \A id \in Ids :
                 \/ receipts'[id] = receipts[id]
                 \/ /\ receipts[id] = NoReceipt /\ id = call[c].id
                    /\ receipts'[id].thread = call[c].thread
           /\ \A e \in Callers \ {c} : answer'[e] = answer[e]
<1>1. DOMAIN answer = Callers /\ DOMAIN receipts = Ids
  BY DEF TypeOK, FibersOK, StoredOK
<1>2. ASSUME NEW status, NEW n, insertIfAbsent(c, Receipt(c, status, n))
      PROVE  \A id \in Ids :
                \/ receipts'[id] = receipts[id]
                \/ /\ receipts[id] = NoReceipt /\ id = call[c].id
                   /\ receipts'[id].thread = call[c].thread
  BY <1>1, <1>2 DEF insertIfAbsent, Receipt
<1>3. CASE Route(c) \/ Lock(c) \/ ListSideChats(c) \/ CheckReceipt(c) \/ Decide(c)
  BY <1>1, <1>3 DEF Route, Lock, ListSideChats, CheckReceipt, Decide, Accept, Decline, Refuse,
                    Answering, stored
<1>4. CASE commitRejectedCommand(c)
  BY <1>1, <1>2, <1>4 DEF commitRejectedCommand, Answering
<1>5. CASE NoteNothingDone(c)
  BY <1>1, <1>2, <1>5 DEF NoteNothingDone, Answering
<1>6. CASE commitCommand(c)
  BY <1>1, <1>2, <1>6 DEF commitCommand, Answering
<1>7. CASE Answer(c)
  BY <1>1, <1>7 DEF Answer, Ends, stored
<1> QED BY <1>3, <1>4, <1>5, <1>6, <1>7 DEF Work

\* Every step keeps what the dispatch keeps.
LEMMA EndsKeeps ==
    ASSUME DispatchAssumption, TypeOK, WritesOK, NEW c \in Callers, Ends(c), UNCHANGED answers
    PROVE  TypeOK' /\ WritesOK'
<1>1. TypeOK'
  BY EndsType DEF TypeOK
<1>2. Local(c) /\ pc'[c] = "idle" /\ chats'[c] = {} /\ UNCHANGED stored
  BY EndsLocal DEF Ends
<1>3. LocksRight(c)' /\ PlanRight(c)'
  BY <1>2 DEF LocksRight, PlanRight, Locked
<1>4. WritesOK'
  BY <1>2, <1>3, QuietStep DEF stored
<1> QED BY <1>1, <1>4

LEMMA BaseStep ==
    ASSUME DispatchAssumption, DeletionAssumption, ProjectInv, [ProjectNext]_pvars
    PROVE  /\ TypeOK' /\ WritesOK'
           /\ \A t \in Threads : Extends(rows'[t], rows[t])
<1>1. TypeOK /\ WritesOK /\ DeletionTypes
  BY DEF ProjectInv
<1>2. ASSUME [Next]_vars
      PROVE  /\ TypeOK' /\ WritesOK'
             /\ \A t \in Threads : Extends(rows'[t], rows[t])
  BY <1>1, <1>2, TypeStep, WritesStep, StepExtends
<1>3. ASSUME NEW d \in Deleters, ProjectStep(d)
      PROVE  /\ TypeOK' /\ WritesOK'
             /\ \A t \in Threads : Extends(rows'[t], rows[t])
  <2>1. Working(d) /\ d \in Callers
    BY DeletersCall DEF ProjectInv
  <2>2. CASE Work(d)
    BY <1>2, <2>1, <2>2 DEF Next
  <2>3. CASE UNCHANGED vars
    BY <1>2, <2>3
  <2>4. CASE Ends(d) /\ UNCHANGED answers
    <3>1. UNCHANGED rows
      BY <2>4 DEF Ends, stored
    <3> QED BY <1>1, <2>1, <2>4, <3>1, EndsKeeps, RowsKept
  <2>5. CASE TakeChild(d)
    <3>1. UNCHANGED rows
      BY <2>5 DEF TakeChild, stored
    <3> QED BY <1>1, <2>1, <2>5, <3>1, TakeType, TakeWrites, RowsKept
  <2>6. CASE LockChild(d)
    <3>1. UNCHANGED rows /\ pc[d] # "idle"
      BY <2>6 DEF LockChild, stored
    <3>2. call[d].thread \in Threads
      BY <1>1, <2>1, <3>1, ChildCommand
    <3> QED BY <1>1, <2>1, <2>6, <3>1, <3>2, LockType, LockWrites, RowsKept
  <2> QED BY <1>1, <1>3, <2>1, <2>2, <2>3, <2>4, <2>5, <2>6, StepKinds
<1>4. ASSUME NEW c \in Callers \ Deleters, ThreadStep(c)
      PROVE  Next
  BY <1>4 DEF ThreadStep, Next
<1>5. CASE UNCHANGED pvars
  BY <1>2, <1>5 DEF pvars
<1> QED BY <1>2, <1>3, <1>4, <1>5 DEF ProjectNext

-----------------------------------------------------------------------------
(***************************************************************************)
(* What each step leaves of a deletion.                                    *)
(***************************************************************************)
ReceiptsStay == \A id \in Ids : receipts[id] # NoReceipt => receipts'[id] = receipts[id]

\* A deletion that the step is not of.
LEMMA WorkingKept ==
    ASSUME DeletionAssumption, TypeOK, DeletionTypes, NEW e \in Deleters, Working(e),
           /\ pc'[e] = pc[e] /\ call'[e] = call[e] /\ locks'[e] = locks[e]
           /\ chats'[e] = chats[e] /\ plan'[e] = plan[e] /\ answer'[e] = answer[e],
           /\ step'[e] = step[e] /\ request'[e] = request[e]
           /\ snapshot'[e] = snapshot[e] /\ left'[e] = left[e],
           project = "deleted" => project' = "deleted",
           \A t \in Threads : Extends(rows'[t], rows[t]),
           ReceiptsStay
    PROVE  Working(e)'
<1>1. \A t \in snapshot[e] : t \in Threads
  BY DEF DeletionTypes
<1>2. Found(e)'
  BY <1>1 DEF Working, Found, Exists, Extends
<1>3. ChildUnderWay(e)'
  <2>1. CASE pc[e] = "answering" /\ answer[e].verdict = "accepted"
    <3>1. call[e].id \in Ids
      BY <2>1, ChildCommand
    <3>2. receipts[call[e].id] # NoReceipt /\ receipts'[call[e].id] = receipts[call[e].id]
      BY <2>1, <3>1 DEF Working, ChildUnderWay, ReceiptsStay
    <3> QED BY <2>1, <3>2 DEF Working, ChildUnderWay
  <2>2. CASE ~(pc[e] = "answering" /\ answer[e].verdict = "accepted")
    BY <2>2 DEF Working, ChildUnderWay
  <2> QED BY <2>1, <2>2
<1> QED BY <1>2, <1>3 DEF Working

\* Whatever a deletion has found stays found.
LEMMA FoundKept ==
    ASSUME DeletionTypes, NEW d \in Deleters, Found(d),
           step'[d] = step[d], request'[d] = request[d], snapshot'[d] = snapshot[d],
           left'[d] = left[d], project' = project,
           \A t \in Threads : Extends(rows'[t], rows[t])
    PROVE  Found(d)'
<1>1. \A t \in snapshot[d] : t \in Threads
  BY DEF DeletionTypes
<1> QED BY <1>1 DEF Found, Exists, Extends

\* A deletion that has ended has found nothing.
LEMMA StopsFound ==
    ASSUME DeletionTypes, NEW d \in Deleters, Stops(d)
    PROVE  Found(d)' /\ step'[d] = "idle"
BY DEF DeletionTypes, Stops, AtStep, Found

LEMMA EndsUnderWay ==
    ASSUME DispatchAssumption, DeletionAssumption, TypeOK, NEW d \in Deleters, Ends(d)
    PROVE  ChildUnderWay(d)'
BY EndsLocal, DeletersCall DEF ChildUnderWay
\* What each step of a deletion leaves of its types.
LEMMA DeletionTypesStep ==
    ASSUME DispatchAssumption, DeletionAssumption, ProjectInv, NEW d \in Deleters,
           ProjectStep(d)
    PROVE  DeletionTypes'
<1> USE DEF DeletionTypes
<1>1. DeletionTypes /\ (pc[d] # "idle" => call[d].thread \in Threads)
  BY ChildCommand DEF ProjectInv
<1>2. ASSUME Stops(d), project' \in {"live", "deleted"}
      PROVE  DeletionTypes'
  BY <1>1, <1>2 DEF Stops, AtStep
<1>3. CASE StartDelete(d)
  BY <1>1, <1>3 DEF StartDelete, AtStep
<1>4. CASE ListChildren(d)
  <2> DEFINE live == {t \in Threads : rows[t].kind # "absent" /\ ~rows[t].deleted}
  <2>1. live \subseteq Threads
    OBVIOUS
  <2>2. \/ /\ snapshot' = [snapshot EXCEPT ![d] = live] /\ left' = [left EXCEPT ![d] = live]
           /\ AtStep(d, "cascading") /\ UNCHANGED request
        \/ Stops(d)
    BY <1>4 DEF ListChildren
  <2>3. UNCHANGED project
    BY <1>4 DEF ListChildren
  <2> HIDE DEF live
  <2> QED BY <1>1, <1>2, <2>1, <2>2, <2>3 DEF AtStep
<1>5. CASE TakeChild(d) \/ LockChild(d) \/ PlanChild(d) \/ CommitChild(d)
  BY <1>1, <1>5 DEF TakeChild, LockChild, PlanChild, CommitChild, deletion
<1>6. CASE PassChild(d)
  BY <1>1, <1>6 DEF PassChild
<1>7. CASE ChildDone(d)
  <2>1. CASE ProvesChild(d)
    BY <1>1, <1>7, <2>1 DEF ChildDone
  <2>2. CASE ~ProvesChild(d)
    BY <1>1, <1>2, <1>7, <2>2 DEF ChildDone
  <2> QED BY <2>1, <2>2
<1>8. CASE RecordDeletion(d) \/ InterruptDelete(d)
  BY <1>1, <1>2, <1>8 DEF RecordDeletion, InterruptDelete
<1> QED BY <1>3, <1>4, <1>5, <1>6, <1>7, <1>8 DEF ProjectStep

\* A deletion between two children, with nothing under way.
LEMMA IdleUnderWay ==
    ASSUME NEW d \in Deleters, ChildUnderWay(d), pc[d] = "idle", UNCHANGED vars
    PROVE  ChildUnderWay(d)'
BY DEF ChildUnderWay, vars, stored, fiber

\* A commit leaves the receipt that the answer is read from.
LEMMA CommitProves ==
    ASSUME DispatchAssumption, DeletionAssumption, ProjectInv, NEW d \in Deleters,
           commitCommand(d)
    PROVE  /\ pc'[d] = "answering"
           /\ UNCHANGED <<call, chats>>
           /\ answer'[d].verdict = "accepted" =>
                 /\ receipts'[call[d].id] # NoReceipt
                 /\ receipts'[call[d].id].status = "accepted"
<1> DEFINE id == call[d].id
<1>1. /\ TypeOK /\ DeletionTypes /\ Working(d) /\ d \in Callers
      /\ pc[d] = "committing"
  BY DeletersCall DEF ProjectInv, commitCommand
<1>2. id \in Ids /\ call[d].thread \in Threads
  BY <1>1, ChildCommand
<1>3. /\ DOMAIN answer = Callers /\ DOMAIN pc = Callers
      /\ receipts \in [Ids -> {NoReceipt} \cup Receipts]
      /\ Len(log) \in Nat /\ NoReceipt \notin Receipts
  BY <1>1 DEF TypeOK, FibersOK, StoredOK, DispatchAssumption
<1>4. pc'[d] = "answering" /\ UNCHANGED <<call, chats>>
  BY <1>1, <1>3 DEF commitCommand, Answering, Goto
<1>5. CASE receipts[id] = NoReceipt
  <2> DEFINE new == [thread |-> call[d].thread, status |-> "accepted",
                     sequence |-> Len(log) + 1]
  <2>1. new \in Receipts
    BY <1>2, <1>3 DEF Receipts
  <2>2. receipts'[id] = new
    BY <1>2, <1>3, <1>5 DEF commitCommand, insertIfAbsent, Receipt
  <2> QED BY <1>3, <1>4, <2>1, <2>2
<1>6. CASE receipts[id] # NoReceipt
  <2>1. receipts' = receipts
    BY <1>6 DEF commitCommand, insertIfAbsent
  <2>2. receipts[id].status \in {"accepted", "rejected"}
    BY <1>2, <1>3, <1>6 DEF Receipts
  <2>3. receipts[id].status = "rejected" => answer'[d].verdict = "rejected"
    BY <1>1, <1>3, <1>6 DEF commitCommand, Answering
  <2> QED BY <1>4, <1>6, <2>1, <2>2, <2>3
<1> QED BY <1>5, <1>6

\* The steps of a deletion itself.
LEMMA WorkingStep ==
    ASSUME DispatchAssumption, DeletionAssumption, ProjectInv, NEW d \in Deleters,
           ProjectStep(d), \A t \in Threads : Extends(rows'[t], rows[t])
    PROVE  Working(d)'
<1>1. /\ TypeOK /\ DeletionTypes /\ Working(d) /\ d \in Callers
      /\ Found(d) /\ ChildUnderWay(d)
  BY DeletersCall DEF ProjectInv, Working
<1>2. DOMAIN plan = Callers /\ DOMAIN pc = Callers /\ DOMAIN call = Callers
                            /\ DOMAIN locks = Callers
  BY <1>1 DEF TypeOK, FibersOK
<1>3. CASE StartDelete(d)
  <2>1. step[d] = "idle" /\ pc[d] = "idle" /\ UNCHANGED vars
    BY <1>1, <1>3 DEF StartDelete, ChildUnderWay
  <2>2. Found(d)'
    BY <1>1, <1>3, <2>1 DEF StartDelete, AtStep, Found, DeletionTypes, vars, stored, Exists
  <2> QED BY <1>1, <2>1, <2>2, IdleUnderWay DEF Working
<1>4. CASE ListChildren(d)
  <2> DEFINE live == {t \in Threads : rows[t].kind # "absent" /\ ~rows[t].deleted}
  <2>1. step[d] = "listing" /\ pc[d] = "idle" /\ UNCHANGED <<vars, project>>
    BY <1>1, <1>4 DEF ListChildren, ChildUnderWay
  <2>2. CASE Stops(d)
    BY <1>1, <2>1, <2>2, StopsFound, IdleUnderWay DEF Working
  <2>3. CASE /\ snapshot' = [snapshot EXCEPT ![d] = live]
             /\ left' = [left EXCEPT ![d] = live]
             /\ AtStep(d, "cascading") /\ UNCHANGED request
    <3>1. /\ snapshot'[d] = live /\ left'[d] = live /\ step'[d] = "cascading"
          /\ request'[d] = request[d]
      BY <1>1, <2>3 DEF AtStep, DeletionTypes
    <3>2. \A t \in live : rows'[t].kind # "absent"
      BY <2>1 DEF vars, stored
    <3> HIDE DEF live
    <3>3. Found(d)'
      BY <1>1, <2>1, <3>1, <3>2 DEF Found, Exists
    <3> QED BY <1>1, <2>1, <3>3, IdleUnderWay DEF Working
  <2> QED BY <1>4, <2>2, <2>3 DEF ListChildren
<1>5. CASE TakeChild(d)
  <2>1. PICK t \in left[d] : /\ call' = [call EXCEPT ![d] = childCommand[<<request[d], t>>]]
                             /\ locks' = [locks EXCEPT ![d] = <<t>>]
    BY <1>5 DEF TakeChild
  <2>2. /\ step[d] = "cascading" /\ pc' = [pc EXCEPT ![d] = "locking"]
        /\ UNCHANGED <<chats, deletion>>
    BY <1>5 DEF TakeChild, Goto
  <2>3. t \in Threads /\ request[d] \in ProjectIds
    BY <1>1, <2>2 DEF DeletionTypes, Found
  <2>4. /\ call'[d] = childCommand[<<request[d], t>>] /\ locks'[d] = <<t>>
        /\ pc'[d] = "locking"
    BY <1>1, <1>2, <2>1, <2>2
  <2>5. call'[d].thread = t
    BY <2>3, <2>4, DerivedCommand
  <2>6. ChildUnderWay(d)'
    BY <1>1, <2>2, <2>4, <2>5 DEF ChildUnderWay, deletion
  <2> QED BY <1>1, <2>2, <2>6, FoundKept DEF Working, deletion
<1>6. CASE LockChild(d)
  <2>1. /\ pc[d] = "locking" /\ pc'[d] = "planning" /\ UNCHANGED <<call, chats, deletion>>
    BY <1>1, <1>2, <1>6 DEF LockChild, Goto
  <2>2. ChildUnderWay(d)'
    BY <1>1, <2>1 DEF ChildUnderWay, deletion
  <2> QED BY <1>1, <2>1, <2>2, FoundKept DEF Working, deletion
<1>7. CASE PlanChild(d)
  <2>1. /\ pc[d] = "planning" /\ pc'[d] = "committing" /\ UNCHANGED <<call, chats, deletion>>
        /\ plan'[d] = [t \in {call[d].thread} |-> Deleted(t, call[d].id)]
    BY <1>1, <1>2, <1>7 DEF PlanChild, Goto
  <2>2. call[d].thread \in Threads /\ call[d].id \in Ids
    BY <1>1, <2>1, ChildCommand
  <2>3. Deleted(call[d].thread, call[d].id).deleted
    <3>1. rows[call[d].thread] \in Rows
      BY <1>1, <2>2 DEF TypeOK, StoredOK
    <3> QED BY <3>1 DEF Deleted, Edited, Rows
  <2>4. ChildUnderWay(d)'
    BY <1>1, <2>1, <2>3 DEF ChildUnderWay, deletion
  <2> QED BY <1>1, <2>1, <2>4, FoundKept DEF Working, deletion
<1>8. CASE PassChild(d)
  <2>1. /\ left' = [left EXCEPT ![d] = @ \ {call[d].thread}]
        /\ rows[call[d].thread].deleted /\ Ends(d)
        /\ UNCHANGED <<project, step, request, snapshot>>
    BY <1>8 DEF PassChild
  <2>2. UNCHANGED rows
    BY <2>1 DEF Ends, stored
  <2>3. left'[d] = left[d] \ {call[d].thread}
    BY <1>1, <2>1 DEF DeletionTypes
  <2>4. Found(d)'
    BY <1>1, <2>1, <2>2, <2>3 DEF Found, Exists
  <2> QED BY <1>1, <2>1, <2>4, EndsUnderWay DEF Working
<1>9. CASE CommitChild(d)
  <2>1. commitCommand(d) /\ UNCHANGED deletion /\ pc[d] = "committing"
    BY <1>9 DEF CommitChild, commitCommand
  <2>2. ChildUnderWay(d)'
    BY <1>1, <2>1, CommitProves DEF ChildUnderWay, deletion
  <2> QED BY <1>1, <2>1, <2>2, FoundKept DEF Working, deletion
<1>10. CASE ChildDone(d)
  <2>1. pc[d] = "answering" /\ Ends(d) /\ UNCHANGED <<project, rows>>
    BY <1>10 DEF ChildDone, Ends, stored
  <2>2. CASE ProvesChild(d)
    <3>1. /\ left' = [left EXCEPT ![d] = @ \ {call[d].thread}]
          /\ UNCHANGED <<step, request, snapshot>>
      BY <1>10, <2>2 DEF ChildDone
    <3>2. rows[call[d].thread].deleted
      <4>1. /\ receipts[call[d].id] # NoReceipt
            /\ receipts[call[d].id].status = "accepted"
            /\ receipts[call[d].id].thread = call[d].thread
        BY <1>1, <2>1, <2>2 DEF ProvesChild, ChildUnderWay
      <4>2. call[d] \in Derived
        BY <1>1, <2>1, ChildCommand
      <4> QED BY <4>1, <4>2 DEF ProjectInv, DerivedReceipts
    <3>3. left'[d] = left[d] \ {call[d].thread}
      BY <1>1, <3>1 DEF DeletionTypes
    <3>4. Found(d)'
      BY <1>1, <2>1, <3>1, <3>2, <3>3 DEF Found, Exists
    <3> QED BY <1>1, <2>1, <3>4, EndsUnderWay DEF Working
  <2>3. CASE Stops(d)
    BY <1>1, <2>1, <2>3, StopsFound, EndsUnderWay DEF Working
  <2> QED BY <1>10, <2>2, <2>3 DEF ChildDone
<1>11. CASE RecordDeletion(d)
  <2>1. Stops(d) /\ UNCHANGED vars /\ pc[d] = "idle"
    BY <1>1, <1>11 DEF RecordDeletion, ChildrenDone, ChildUnderWay
  <2> QED BY <1>1, <2>1, StopsFound, IdleUnderWay DEF Working
<1>12. CASE InterruptDelete(d)
  BY <1>1, <1>12, StopsFound, EndsUnderWay DEF InterruptDelete, Working
<1> QED BY <1>3, <1>4, <1>5, <1>6, <1>7, <1>8, <1>9, <1>10, <1>11, <1>12 DEF ProjectStep
-----------------------------------------------------------------------------
(***************************************************************************)
(* The invariant.                                                          *)
(***************************************************************************)
\* The step of a deletion does not touch another call.
LEMMA StepLocal ==
    ASSUME DispatchAssumption, DeletionAssumption, ProjectInv, NEW d \in Deleters,
           ProjectStep(d)
    PROVE  /\ \A e \in Callers \ {d} :
                 /\ pc'[e] = pc[e] /\ call'[e] = call[e] /\ locks'[e] = locks[e]
                 /\ chats'[e] = chats[e] /\ plan'[e] = plan[e] /\ answer'[e] = answer[e]
           /\ \A e \in Deleters \ {d} :
                 /\ step'[e] = step[e] /\ request'[e] = request[e]
                 /\ snapshot'[e] = snapshot[e] /\ left'[e] = left[e]
           /\ project = "deleted" => project' = "deleted"
           /\ ReceiptsStay
<1>1. TypeOK /\ DeletionTypes /\ Working(d) /\ d \in Callers
  BY DeletersCall DEF ProjectInv
<1>2. \A e \in Deleters \ {d} :
         /\ step'[e] = step[e] /\ request'[e] = request[e]
         /\ snapshot'[e] = snapshot[e] /\ left'[e] = left[e]
  BY <1>1 DEF ProjectStep, StartDelete, ListChildren, TakeChild, LockChild, PlanChild,
              PassChild, CommitChild, ChildDone, RecordDeletion, InterruptDelete, Stops,
              AtStep, deletion, DeletionTypes
<1>3. project = "deleted" => project' = "deleted"
  BY <1>1 DEF ProjectStep, StartDelete, ListChildren, TakeChild, LockChild, PlanChild,
              PassChild, CommitChild, ChildDone, RecordDeletion, InterruptDelete, deletion
<1>4. CASE Work(d)
  <2>1. Local(d)
    BY <1>1, <1>4, WorkLocal
  <2>2. ReceiptsStay /\ \A e \in Callers \ {d} : answer'[e] = answer[e]
    BY <1>1, <1>4, WorkReceipts DEF ReceiptsStay
  <2> QED BY <1>2, <1>3, <2>1, <2>2 DEF Local
<1>5. CASE Ends(d) /\ UNCHANGED answers
  <2>1. Local(d) /\ UNCHANGED receipts
    BY <1>1, <1>5, EndsLocal DEF Ends, stored
  <2>2. \A e \in Callers \ {d} : answer'[e] = answer[e]
    BY <1>1, <1>5 DEF Ends, TypeOK, FibersOK
  <2> QED BY <1>2, <1>3, <2>1, <2>2 DEF Local, ReceiptsStay
<1>6. CASE TakeChild(d)
  <2>1. Local(d)
    BY <1>1, <1>6, TakeType
  <2>2. UNCHANGED <<receipts, answer>>
    BY <1>6 DEF TakeChild, stored
  <2> QED BY <1>2, <1>3, <2>1, <2>2 DEF Local, ReceiptsStay
<1>7. CASE LockChild(d)
  <2>1. Local(d)
    BY <1>1, <1>7, LockType, ChildCommand DEF LockChild
  <2>2. UNCHANGED <<receipts, answer>>
    BY <1>7 DEF LockChild, stored
  <2> QED BY <1>2, <1>3, <2>1, <2>2 DEF Local, ReceiptsStay
<1>8. CASE UNCHANGED vars
  BY <1>2, <1>3, <1>8 DEF vars, stored, fiber, ReceiptsStay
<1> QED BY <1>1, <1>4, <1>5, <1>6, <1>7, <1>8, StepKinds

\* A commit of a child is the only step of a deletion that leaves a receipt, and then
\* the thread is deleted.
LEMMA DeleterReceipts ==
    ASSUME DispatchAssumption, DeletionAssumption, ProjectInv, NEW d \in Deleters,
           ProjectStep(d), \A t \in Threads : Extends(rows'[t], rows[t])
    PROVE  DerivedReceipts'
<1>1. /\ TypeOK /\ WritesOK /\ DeletionTypes /\ Working(d) /\ d \in Callers
      /\ DerivedReceipts
  BY DeletersCall DEF ProjectInv
<1> SUFFICES ASSUME NEW cmd \in Derived, receipts'[cmd.id] # NoReceipt,
                    receipts'[cmd.id].status = "accepted",
                    receipts'[cmd.id].thread = cmd.thread
             PROVE  rows'[cmd.thread].deleted
  BY DEF DerivedReceipts, Derived
<1>2. cmd \in Commands /\ cmd.thread \in Threads /\ cmd.id \in Ids
  BY DerivedIsCommand
<1>3. CASE receipts'[cmd.id] = receipts[cmd.id]
  <2>1. rows[cmd.thread].deleted
    BY <1>1, <1>3 DEF DerivedReceipts
  <2> QED BY <1>2, <2>1 DEF Extends
<1>4. CASE receipts'[cmd.id] # receipts[cmd.id]
  <2>1. receipts' # receipts
    BY <1>4
  <2>2. commitCommand(d)
    BY <2>1 DEF ProjectStep, StartDelete, ListChildren, TakeChild, LockChild, PlanChild,
                PassChild, CommitChild, ChildDone, RecordDeletion, InterruptDelete, Ends,
                vars, stored
  <2>3. Work(d)
    BY <2>2 DEF Work
  <2>4. receipts[cmd.id] = NoReceipt /\ cmd.id = call[d].id
    BY <1>1, <1>2, <1>4, <2>3, WorkReceipts
  <2>5. call[d] \in Derived
    BY <1>1, <2>2, ChildCommand DEF commitCommand
  <2>6. cmd = call[d]
    BY <2>4, <2>5 DEF DeletionAssumption
  <2>7. call[d].thread \in DOMAIN plan[d] /\ plan[d][call[d].thread].deleted
    BY <1>1, <2>2 DEF Working, ChildUnderWay, commitCommand
  <2>8. rows'[call[d].thread] = plan[d][call[d].thread]
    BY <1>1, <1>2, <2>2, <2>4, <2>6, <2>7, CommitRows
  <2> QED BY <2>6, <2>7, <2>8
<1> QED BY <1>3, <1>4

\* A call of a thread command has the id of no child.
LEMMA CallerReceipts ==
    ASSUME DispatchAssumption, DeletionAssumption, ProjectInv, NEW c \in Callers \ Deleters,
           ThreadStep(c), \A t \in Threads : Extends(rows'[t], rows[t])
    PROVE  /\ ReceiptsStay
           /\ DerivedReceipts'
           /\ call'[c] \notin Derived
           /\ Local(c)
           /\ \A e \in Callers \ {c} : answer'[e] = answer[e]
<1>1. TypeOK /\ WritesOK /\ DerivedReceipts /\ call[c] \notin Derived
  BY DEF ProjectInv, CallsApart
<1>2. Idle \notin Derived
  BY IdleIsNoCommand, DerivedIsCommand
<1>3. /\ DOMAIN answer = Callers /\ DOMAIN call = Callers
  BY <1>1 DEF TypeOK, FibersOK
<1>4. CASE Work(c)
  <2>1. call'[c] \in {call[c], Idle}
    BY <1>3, <1>4 DEF Work, Route, Lock, ListSideChats, CheckReceipt, Decide, Accept, Decline,
                      Refuse, commitRejectedCommand, NoteNothingDone, commitCommand, Answer,
                      Ends
  <2>2. pc[c] # "idle"
    BY <1>4 DEF Work, Route, Lock, ListSideChats, CheckReceipt, Decide, Accept, Decline,
                Refuse, commitRejectedCommand, NoteNothingDone, commitCommand, Answer
  <2>3. call[c] \in Commands \ Derived
    BY <1>1, <2>2 DEF TypeOK, ControlOK, Controlled
  <2>4. \A cmd \in Derived : receipts'[cmd.id] = receipts[cmd.id]
    <3> TAKE cmd \in Derived
    <3>1. cmd.id \in Ids
      BY DerivedIsCommand
    <3>2. cmd.id # call[c].id
      BY <2>3 DEF DeletionAssumption
    <3> QED BY <1>1, <1>4, <3>1, <3>2, WorkReceipts
  <2>5. DerivedReceipts'
    <3> SUFFICES ASSUME NEW cmd \in Derived, receipts'[cmd.id] # NoReceipt,
                        receipts'[cmd.id].status = "accepted",
                        receipts'[cmd.id].thread = cmd.thread
                 PROVE  rows'[cmd.thread].deleted
      BY DEF DerivedReceipts, Derived
    <3>1. rows[cmd.thread].deleted
      BY <1>1, <2>4 DEF DerivedReceipts
    <3> QED BY <3>1, DerivedIsCommand DEF Extends
  <2>6. ReceiptsStay /\ \A e \in Callers \ {c} : answer'[e] = answer[e]
    BY <1>1, <1>4, WorkReceipts DEF ReceiptsStay
  <2> QED BY <1>1, <1>2, <1>4, <2>1, <2>5, <2>6, WorkLocal
<1>5. CASE Call(c) \/ Interrupt(c)
  <2>1. UNCHANGED <<rows, receipts>>
    BY <1>5 DEF Call, Interrupt, Ends, stored
  <2>2. DerivedReceipts'
    BY <1>1, <2>1 DEF DerivedReceipts, Derived
  <2>3. \A e \in Callers \ {c} : answer'[e] = answer[e]
    BY <1>3, <1>5 DEF Call, Interrupt, Ends
  <2>4. call'[c] \notin Derived
    <3>1. CASE Interrupt(c)
      BY <1>2, <1>3, <3>1 DEF Interrupt, Ends
    <3>2. CASE Call(c) /\ call'[c] \notin Derived
      BY <3>2
    <3>3. ~(Call(c) /\ Work(c)) /\ ~(Call(c) /\ Interrupt(c))
      BY DEF Call, Interrupt, Work, Route, Lock, ListSideChats, CheckReceipt, Decide, Accept,
             Decline, Refuse, commitRejectedCommand, NoteNothingDone, commitCommand, Answer
    <3> QED BY <1>5, <3>1, <3>2, <3>3 DEF ThreadStep
  <2>5. Local(c)
    <3>1. CASE Call(c)
      BY <1>1, <3>1 DEF Call, Goto, Local, TypeOK, FibersOK
    <3>2. CASE Interrupt(c)
      BY <1>1, <3>2, EndsLocal DEF Interrupt
    <3> QED BY <1>5, <3>1, <3>2
  <2> QED BY <2>1, <2>2, <2>3, <2>4, <2>5 DEF ReceiptsStay
<1> QED BY <1>4, <1>5 DEF ThreadStep

LEMMA ProjectStepKeeps ==
    ASSUME DispatchAssumption, DeletionAssumption, ProjectInv, [ProjectNext]_pvars
    PROVE  ProjectInv'
<1>1. /\ TypeOK' /\ WritesOK'
      /\ \A t \in Threads : Extends(rows'[t], rows[t])
  BY BaseStep
<1>2. /\ TypeOK /\ DeletionTypes /\ CallsApart /\ DerivedReceipts
      /\ \A e \in Deleters : Working(e)
      /\ Deleters \subseteq Callers
  BY DEF ProjectInv, DeletionAssumption
<1>3. ASSUME NEW d \in Deleters, ProjectStep(d)
      PROVE  ProjectInv'
  <2>1. DeletionTypes' /\ Working(d)' /\ DerivedReceipts'
    BY <1>1, <1>3, DeletionTypesStep, WorkingStep, DeleterReceipts
  <2>2. ASSUME NEW e \in Deleters \ {d} PROVE Working(e)'
    BY <1>1, <1>2, <1>3, <2>2, StepLocal, WorkingKept
  <2>3. CallsApart'
    BY <1>2, <1>3, StepLocal DEF CallsApart, Derived
  <2> QED BY <1>1, <2>1, <2>2, <2>3 DEF ProjectInv
<1>4. ASSUME NEW c \in Callers \ Deleters, ThreadStep(c)
      PROVE  ProjectInv'
  <2>1. /\ ReceiptsStay /\ DerivedReceipts' /\ call'[c] \notin Derived
        /\ Local(c) /\ \A e \in Callers \ {c} : answer'[e] = answer[e]
    BY <1>1, <1>4, CallerReceipts
  <2>2. UNCHANGED deletion
    BY <1>4 DEF ThreadStep
  <2>3. DeletionTypes'
    BY <1>2, <2>2 DEF deletion, DeletionTypes
  <2>4. ASSUME NEW e \in Deleters PROVE Working(e)'
    <3>1. e \in Callers \ {c}
      BY <1>2
    <3> QED BY <1>1, <1>2, <2>1, <2>2, <3>1, WorkingKept DEF Local, deletion
  <2>5. CallsApart'
    BY <1>2, <2>1 DEF CallsApart, Derived, Local
  <2> QED BY <1>1, <2>1, <2>3, <2>4, <2>5 DEF ProjectInv
<1>5. CASE UNCHANGED pvars
  <2>1. UNCHANGED <<vars, deletion>>
    BY <1>5 DEF pvars
  <2>2. DeletionTypes' /\ CallsApart' /\ DerivedReceipts'
    BY <1>2, <2>1
    DEF vars, stored, fiber, deletion, DeletionTypes, CallsApart, DerivedReceipts, Derived
  <2>3. ASSUME NEW e \in Deleters PROVE Working(e)'
    BY <1>1, <1>2, <2>1, WorkingKept DEF vars, stored, fiber, deletion, ReceiptsStay
  <2> QED BY <1>1, <2>2, <2>3 DEF ProjectInv
<1> QED BY <1>3, <1>4, <1>5 DEF ProjectNext

LEMMA ProjectInvInit ==
    ASSUME DispatchAssumption, DeletionAssumption, ProjectInit
    PROVE  ProjectInv
<1>1. Init /\ TypeOK /\ WritesOK
  BY TypeInit, WritesInit DEF ProjectInit
<1>2. DeletionTypes
  BY DEF ProjectInit, DeletionTypes
<1>3. ASSUME NEW d \in Deleters PROVE Working(d)
  <2>1. d \in Callers
    BY DeletersCall
  <2> QED BY <1>1, <2>1 DEF ProjectInit, Init, Working, Found, ChildUnderWay
<1>4. CallsApart
  BY <1>1, IdleIsNoCommand, DerivedIsCommand DEF CallsApart, Init
<1>5. DerivedReceipts
  BY <1>1, DerivedIsCommand DEF DerivedReceipts, Init
<1> QED BY <1>1, <1>2, <1>3, <1>4, <1>5 DEF ProjectInv

THEOREM ProjectInvHolds == ProjectSpec => []ProjectInv
<1>1. ProjectInit => ProjectInv
  BY ProjectInvInit, DispatchAssumption, DeletionAssumption
<1>2. ProjectInv /\ [ProjectNext]_pvars => ProjectInv'
  BY ProjectStepKeeps, DispatchAssumption, DeletionAssumption
<1> QED BY <1>1, <1>2, PTL DEF ProjectSpec

\* Types, and a deletion has a command under way only while it cascades, for a thread
\* it has still to delete (ProjectService.ts, deleteChildThreads).
THEOREM ProjectTypes == ProjectSpec => []ProjectTypeOK
<1>1. ProjectInv => ProjectTypeOK
  BY DEF ProjectInv, ProjectTypeOK, DeletionTypes, Working, ChildUnderWay
<1> QED BY <1>1, ProjectInvHolds, PTL

\* The deletions of a project lose no update of its threads either, though they take
\* their locks by themselves (ProjectService.ts, deleteChildThread).
THEOREM ProjectUpdatesKept == ProjectSpec => []NoLostUpdate
<1>1. ProjectInv => NoLostUpdate
  BY DEF ProjectInv, WritesOK, LogOK
<1> QED BY <1>1, ProjectInvHolds, PTL

\* When the project goes, every thread its deletion found has gone: whatever was
\* interrupted, sent again, or deleted by somebody else ("Delete children durably
\* before the project", ProjectService.ts).
THEOREM ChildrenGoBeforeProject == ProjectSpec => ChildrenGoFirst
<1> DEFINE Gone == project' # project =>
                     \E d \in Deleters : /\ step[d] = "cascading"
                                         /\ \A t \in snapshot[d] : rows[t].deleted
<1>1. ProjectInv /\ [ProjectNext]_pvars => [Gone]_pvars
  <2> SUFFICES ASSUME ProjectInv, ProjectNext, project' # project
               PROVE  \E d \in Deleters : /\ step[d] = "cascading"
                                          /\ \A t \in snapshot[d] : rows[t].deleted
    OBVIOUS
  <2>1. PICK d \in Deleters : ProjectStep(d)
    BY DEF ProjectNext, ThreadStep, deletion
  <2>2. RecordDeletion(d)
    BY <2>1 DEF ProjectStep, StartDelete, ListChildren, TakeChild, LockChild, PlanChild,
                PassChild, CommitChild, ChildDone, InterruptDelete, deletion
  <2>3. Found(d) /\ project' = "deleted"
    BY <2>2 DEF ProjectInv, Working, RecordDeletion
  <2>4. step[d] = "cascading" /\ left[d] = {}
    BY <2>2, <2>3 DEF RecordDeletion, ChildrenDone, Found
  <2> QED BY <2>3, <2>4 DEF Found
<1> HIDE DEF Gone
<1>2. ProjectSpec => [][Gone]_pvars
  BY <1>1, ProjectInvHolds, PTL DEF ProjectSpec
<1> QED BY <1>2 DEF Gone, ChildrenGoFirst
\* A thread that a project deletion has deleted is deleted for good, like any other.
THEOREM ProjectDeletesForGood == ProjectSpec => DeletionIsFinal
<1> DEFINE Final == \A t \in Threads :
                       /\ rows[t].deleted => rows'[t].deleted
                       /\ rows[t].kind # "absent" => /\ rows'[t].kind = rows[t].kind
                                                     /\ rows'[t].parent = rows[t].parent
<1>1. ProjectInv /\ [ProjectNext]_pvars => [Final]_vars
  BY BaseStep, DispatchAssumption, DeletionAssumption DEF Extends
<1> HIDE DEF Final
<1>2. ProjectSpec => [][Final]_vars
  BY <1>1, ProjectInvHolds, PTL DEF ProjectSpec
<1> QED BY <1>2 DEF Final, DeletionIsFinal
====
