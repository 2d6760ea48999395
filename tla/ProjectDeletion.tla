-------------------------- MODULE ProjectDeletion --------------------------
(***************************************************************************)
(* Deletion of a project beside the dispatch of thread commands:           *)
(* deleteProject, deleteChildThreads and deleteChildThread of              *)
(* ProjectService.ts, which take the locks and write the receipts that     *)
(* CommandDispatch models, one thread of the project at a time.            *)
(*                                                                         *)
(* A deletion is a caller that runs commands of its own, with ids derived  *)
(* from that of the project command and the thread; it commits them with   *)
(* commitCommand like any other call.  One project holds every thread.     *)
(***************************************************************************)
EXTENDS CommandDispatch

CONSTANTS
    Deleters,       \* calls of ProjectService.delete, among the callers
    ProjectIds,     \* ids of project.delete commands
    childCommand,   \* the command that deletes a thread for one of them
    MaxDeletes      \* bound: calls of delete

Derived == {childCommand[x] : x \in ProjectIds \X Threads}

ASSUME DeletionAssumption ==
    /\ Deleters \subseteq Callers
    /\ MaxDeletes \in Nat
    /\ childCommand \in [ProjectIds \X Threads -> Commands]
    /\ \A p \in ProjectIds, t \in Threads :
          childCommand[<<p, t>>].type = "delete" /\ childCommand[<<p, t>>].thread = t
    /\ \A cmd, cmd2 \in Derived : cmd.id = cmd2.id => cmd = cmd2
    /\ \A cmd \in Commands \ Derived : \A cmd2 \in Derived : cmd.id # cmd2.id

VARIABLES
    project,    \* "live" or "deleted"
    step,       \* where each deletion is
    request,    \* the id of its command
    snapshot,   \* the threads it found
    left,       \* those it has still to delete
    deletes

deletion == <<project, step, request, snapshot, left, deletes>>
pvars == <<vars, deletion>>

ProjectInit ==
    /\ Init
    /\ project = "live"
    /\ step = [d \in Deleters |-> "idle"]
    /\ request = [d \in Deleters |-> CHOOSE p \in ProjectIds : TRUE]
    /\ snapshot = [d \in Deleters |-> {}]
    /\ left = [d \in Deleters |-> {}]
    /\ deletes = 0

AtStep(d, s) == step' = [step EXCEPT ![d] = s]

\* The deletion ends, done or not.
Stops(d) ==
    /\ AtStep(d, "idle")
    /\ request' = [request EXCEPT ![d] = CHOOSE p \in ProjectIds : TRUE]
    /\ snapshot' = [snapshot EXCEPT ![d] = {}]
    /\ left' = [left EXCEPT ![d] = {}]

\* A deletion of a deleted project goes straight to its receipt.
StartDelete(d) ==
    /\ step[d] = "idle"
    /\ deletes < MaxDeletes
    /\ deletes' = deletes + 1
    /\ \E p \in ProjectIds : request' = [request EXCEPT ![d] = p]
    /\ AtStep(d, IF project = "live" THEN "listing" ELSE "recording")
    /\ UNCHANGED <<vars, project, snapshot, left>>

\* The threads are read once, outside any lock; without force there must be none.
ListChildren(d) ==
    /\ step[d] = "listing"
    /\ LET live == {t \in Threads : rows[t].kind # "absent" /\ ~rows[t].deleted} IN
       \/ /\ snapshot' = [snapshot EXCEPT ![d] = live]
          /\ left' = [left EXCEPT ![d] = live]
          /\ AtStep(d, "cascading")
          /\ UNCHANGED request
       \/ live # {} /\ Stops(d)
    /\ UNCHANGED <<vars, project, deletes>>

TakeChild(d) ==
    /\ step[d] = "cascading"
    /\ pc[d] = "idle"
    /\ \E t \in left[d] :
          /\ call' = [call EXCEPT ![d] = childCommand[<<request[d], t>>]]
          /\ locks' = [locks EXCEPT ![d] = <<t>>]
    /\ Goto(d, "locking")
    /\ UNCHANGED <<stored, holder, chats, plan, answer, answers, calls, deletion>>

\* Mutant of LockChild: the thread is planned and deleted without its lock.
LockNothing(d) ==
    /\ pc[d] = "locking"
    /\ locks' = [locks EXCEPT ![d] = <<>>]
    /\ Goto(d, "planning")
    /\ UNCHANGED <<stored, holder, call, chats, plan, answer, answers, calls, deletion>>

LockChild(d) ==
    /\ pc[d] = "locking"
    /\ holder[call[d].thread] = NoCaller
    /\ holder' = [holder EXCEPT ![call[d].thread] = d]
    /\ locks' = [locks EXCEPT ![d] = <<>>]
    /\ Goto(d, "planning")
    /\ UNCHANGED <<stored, call, chats, plan, answer, answers, calls, deletion>>

\* The row is read again under the lock.
PlanChild(d) ==
    /\ pc[d] = "planning"
    /\ ~rows[call[d].thread].deleted
    /\ plan' = [plan EXCEPT ![d] = [t \in {call[d].thread} |-> Deleted(t, call[d].id)]]
    /\ Goto(d, "committing")
    /\ UNCHANGED <<stored, holder, call, locks, chats, answer, answers, calls, deletion>>

\* Somebody else has deleted it.
PassChild(d) ==
    /\ pc[d] = "planning"
    /\ rows[call[d].thread].deleted
    /\ left' = [left EXCEPT ![d] = @ \ {call[d].thread}]
    /\ Ends(d)
    /\ UNCHANGED <<answers, project, step, request, snapshot, deletes>>

CommitChild(d) == commitCommand(d) /\ UNCHANGED deletion

\* The receipt must be the command's own, and accepted.
ProvesChild(d) ==
    /\ answer[d].verdict = "accepted"
    /\ receipts[call[d].id].thread = call[d].thread

ChildDone(d) ==
    /\ pc[d] = "answering"
    /\ IF ProvesChild(d)
       THEN /\ left' = [left EXCEPT ![d] = @ \ {call[d].thread}]
            /\ UNCHANGED <<step, request, snapshot>>
       ELSE Stops(d)
    /\ Ends(d)
    /\ UNCHANGED <<answers, project, deletes>>

\* Mutant of ChildrenDone: the project goes when the cascade has begun.
ChildrenBegun(d) == step[d] = "cascading" /\ pc[d] = "idle"

ChildrenDone(d) == step[d] = "cascading" /\ pc[d] = "idle" /\ left[d] = {}

\* Planned and committed under the lock of the project; the second of two commands
\* finds no project, and is rejected.
RecordDeletion(d) ==
    /\ step[d] = "recording" \/ ChildrenDone(d)
    /\ project' = "deleted"
    /\ Stops(d)
    /\ UNCHANGED <<vars, deletes>>

\* Mutant of InterruptDelete: the child under way keeps its lock.
InterruptHolding(d) ==
    /\ step[d] # "idle"
    /\ Stops(d)
    /\ UNCHANGED <<vars, project, deletes>>

\* The client is gone, or a statement fails; what has been deleted stays deleted.
InterruptDelete(d) ==
    /\ step[d] # "idle"
    /\ Stops(d)
    /\ Ends(d)
    /\ UNCHANGED <<answers, project, deletes>>

ProjectStep(d) ==
    \/ StartDelete(d) \/ ListChildren(d) \/ TakeChild(d) \/ LockChild(d) \/ PlanChild(d)
    \/ PassChild(d) \/ CommitChild(d) \/ ChildDone(d) \/ RecordDeletion(d)
    \/ InterruptDelete(d)

ThreadStep(c) ==
    /\ (Call(c) /\ call'[c] \notin Derived) \/ Work(c) \/ Interrupt(c)
    /\ UNCHANGED deletion

ProjectNext ==
    \/ \E d \in Deleters : ProjectStep(d)
    \/ \E c \in Callers \ Deleters : ThreadStep(c)

ProjectSpec == ProjectInit /\ [][ProjectNext]_pvars

-----------------------------------------------------------------------------
(***************************************************************************)
(* Properties.  DeletionIsFinal, NoLostUpdate and NoOrphanSideChat are     *)
(* those of CommandDispatch.                                               *)
(***************************************************************************)
\* Types; a deletion works on one of its threads, and holds a lock only then.
ProjectTypeOK ==
    /\ TypeOK
    /\ project \in {"live", "deleted"}
    /\ step \in [Deleters -> {"idle", "listing", "cascading", "recording"}]
    /\ \A d \in Deleters :
          /\ left[d] \subseteq Threads
          /\ pc[d] # "idle" => /\ step[d] = "cascading"
                               /\ call[d].thread \in left[d]

\* "Delete children durably before the project": when the project goes, every thread
\* the cascade found has gone, whatever was interrupted and tried again.
ChildrenGoFirst ==
    [][project' # project =>
         \E d \in Deleters : /\ step[d] = "cascading"
                             /\ \A t \in snapshot[d] : rows[t].deleted]_pvars
=============================================================================
