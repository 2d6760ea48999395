-------------------------- MODULE CommandDispatch --------------------------
(***************************************************************************)
(* Dispatch of thread commands: dispatchWithReceipt of Orchestrator.ts, the*)
(* keyed locks it takes (KeyedLock.ts, ThreadCommandExecutor.ts), and the  *)
(* receipts that make a retried command harmless (commitCommand and        *)
(* commitRejectedCommand of EventSink.ts).                                 *)
(*                                                                         *)
(* A call finds out which threads it must lock, locks them one by one,     *)
(* looks for a receipt of its command, decides from the rows it reads, and *)
(* commits rows it has written out in full: what another call commits in   *)
(* between would be overwritten.                                           *)
(*                                                                         *)
(* Rows, receipts and events change in one transaction.  A call that is    *)
(* interrupted, or fails in the database, leaves nothing but what it has   *)
(* committed; the loss of the process is the interruption of every call.   *)
(***************************************************************************)
EXTENDS Naturals, Sequences, FiniteSets, Functions

CONSTANTS
    Callers,        \* calls of dispatch that may be under way together
    Threads,        \* ids of threads
    Existing,       \* threads created by earlier commands
    Commands,       \* commands that callers send, and send again
    NoThread,
    NoCaller,
    NoReceipt,
    MaxCalls        \* bound: calls

CommandTypes ==
    {"create", "fork", "delete", "edit", "message", "delegate", "settle"}

\* `thread' is commandThreadId: the new thread of a create, the target of a fork,
\* the parent of a delegation.  `other' is the source of a fork of a side chat and
\* the child of a delegation, whose id derives from that of the command.
Ids == {cmd.id : cmd \in Commands}

Receipts == [thread : Threads, status : {"accepted", "rejected"}, sequence : Nat]

ASSUME DispatchAssumption ==
    /\ IsFiniteSet(Threads)
    /\ NoThread \notin Threads
    /\ NoCaller \notin Callers
    /\ NoReceipt \notin Receipts
    /\ Existing \subseteq Threads
    /\ MaxCalls \in Nat
    /\ \A cmd \in Commands :
          /\ DOMAIN cmd = {"id", "type", "thread", "other"}
          /\ cmd.type \in CommandTypes
          /\ cmd.thread \in Threads
          /\ IF cmd.type \in {"fork", "delegate"}
             THEN cmd.other \in Threads ELSE cmd.other = NoThread
    \* The id of a delegated child is no one else's.
    /\ \A cmd, cmd2 \in Commands :
          cmd.type = "delegate" /\ cmd.other \in {cmd2.thread, cmd2.other} /\ cmd2 # cmd
             => cmd2.type \in {"edit", "message", "delete", "settle"}
    /\ \A cmd \in Commands :
          cmd.type = "delegate" => cmd.other \notin Existing \cup {cmd.thread}

VARIABLES
    rows,       \* the projected row of each thread
    receipts,   \* orchestration_command_receipts, by command id
    log,        \* the commits: command id and the threads it wrote
    holder,     \* who holds the lock of each thread
    pc,
    call,       \* the command of each call
    locks,      \* the locks it has still to take, in order
    chats,      \* the side chats a deletion cascades to
    plan,       \* the rows it has decided to write
    answer,     \* what it is about to answer
    answers,    \* what callers have been answered
    calls

stored == <<rows, receipts, log>>
fiber == <<pc, call, locks, chats, plan, answer>>
vars == <<stored, holder, fiber, answers, calls>>

Absent == [kind |-> "absent", parent |-> NoThread, deleted |-> FALSE, edits |-> {}]
Root == [Absent EXCEPT !.kind = "root"]

\* A call that is not under way.
Idle == [id |-> "none", type |-> "none", thread |-> NoThread, other |-> NoThread]
NoAnswer == [verdict |-> "none", sequence |-> 0]
NoPlan == [t \in {} |-> Absent]

Init ==
    /\ rows = [t \in Threads |-> IF t \in Existing THEN Root ELSE Absent]
    /\ receipts = [id \in Ids |-> NoReceipt]
    /\ log = <<>>
    /\ holder = [t \in Threads |-> NoCaller]
    /\ pc = [c \in Callers |-> "idle"]
    /\ call = [c \in Callers |-> Idle]
    /\ locks = [c \in Callers |-> <<>>]
    /\ chats = [c \in Callers |-> {}]
    /\ plan = [c \in Callers |-> NoPlan]
    /\ answer = [c \in Callers |-> NoAnswer]
    /\ answers = {}
    /\ calls = 0

Goto(c, l) == pc' = [pc EXCEPT ![c] = l]

Answering(c, verdict, sequence) ==
    /\ answer' = [answer EXCEPT ![c] = [verdict |-> verdict, sequence |-> sequence]]
    /\ Goto(c, "answering")

-----------------------------------------------------------------------------
(***************************************************************************)
(* Locks.                                                                  *)
(***************************************************************************)
\* A caller sends a command, for the first time or again.
Call(c) ==
    /\ pc[c] = "idle"
    /\ calls < MaxCalls
    /\ calls' = calls + 1
    /\ \E cmd \in Commands : call' = [call EXCEPT ![c] = cmd]
    /\ Goto(c, "routing")
    /\ UNCHANGED <<stored, holder, locks, chats, plan, answer, answers>>

\* A side chat is forked under the lock of its source.  A fork from a side chat or
\* onto a thread that exists is going to be rejected, and must not invert the order.
LocksSource(cmd) ==
    /\ cmd.type = "fork"
    /\ cmd.other # cmd.thread
    /\ rows[cmd.other].kind \notin {"absent", "sideChat"}
    /\ rows[cmd.thread].kind = "absent"

\* A message may start a follow-up of a delegated task, which writes its parent.
LocksParent(cmd) == cmd.type = "message" /\ rows[cmd.thread].kind = "subagent"

\* Mutant of RouteOf: every fork of a side chat locks its source.
RouteThroughSource(cmd) ==
    IF cmd.type = "fork" /\ cmd.other # cmd.thread /\ rows[cmd.other].kind # "absent"
    THEN <<cmd.other, cmd.thread>>
    ELSE IF LocksParent(cmd) THEN <<rows[cmd.thread].parent, cmd.thread>> ELSE <<cmd.thread>>

\* Mutant of RouteOf: a fork locks its target only.
RouteWithoutSource(cmd) ==
    IF LocksParent(cmd) THEN <<rows[cmd.thread].parent, cmd.thread>> ELSE <<cmd.thread>>

\* Mutant of RouteOf: a message locks its own thread only.
RouteWithoutParent(cmd) ==
    IF LocksSource(cmd) THEN <<cmd.other, cmd.thread>> ELSE <<cmd.thread>>

\* What a command locks, outermost first.  What is read here about lineage does not
\* change once the thread exists.
RouteOf(cmd) ==
    IF LocksSource(cmd) THEN <<cmd.other, cmd.thread>>
    ELSE IF LocksParent(cmd) THEN <<rows[cmd.thread].parent, cmd.thread>>
    ELSE <<cmd.thread>>

\* A message must find its thread before it locks anything.
Unroutable(cmd) == cmd.type = "message" /\ rows[cmd.thread].kind = "absent"

Route(c) ==
    /\ pc[c] = "routing"
    /\ IF Unroutable(call[c])
       THEN Answering(c, "failed", 0) /\ UNCHANGED locks
       ELSE /\ locks' = [locks EXCEPT ![c] = RouteOf(call[c])]
            /\ Goto(c, "locking")
            /\ UNCHANGED answer
    /\ UNCHANGED <<stored, holder, call, chats, plan, answers, calls>>

\* The locks are not reentrant and know nothing of deadlock.
Lock(c) ==
    /\ pc[c] = "locking"
    /\ locks[c] # <<>>
    /\ holder[Head(locks[c])] = NoCaller
    /\ holder' = [holder EXCEPT ![Head(locks[c])] = c]
    /\ locks' = [locks EXCEPT ![c] = Tail(@)]
    /\ Goto(c, IF Len(locks[c]) > 1 THEN "locking"
               ELSE IF call[c].type = "delete" /\ Head(locks[c]) = call[c].thread
               THEN "listing" ELSE "checking")
    /\ UNCHANGED <<stored, call, chats, plan, answer, answers, calls>>

\* The side chats of a thread that are not deleted.
liveSideChatIds(t) ==
    {s \in Threads : rows[s].kind = "sideChat" /\ rows[s].parent = t /\ ~rows[s].deleted}

\* Mutant of ListSideChats: the side chats are not locked.
ListWithoutLocks(c) ==
    /\ pc[c] = "listing"
    /\ chats' = [chats EXCEPT ![c] = liveSideChatIds(call[c].thread)]
    /\ Goto(c, "checking")
    /\ UNCHANGED <<stored, holder, call, locks, plan, answer, answers, calls>>

\* Under the lock of its thread a deletion reads the side chats and locks each, in
\* the order the forks are recorded in, whichever that is.
ListSideChats(c) ==
    /\ pc[c] = "listing"
    /\ LET live == liveSideChatIds(call[c].thread) IN
       /\ chats' = [chats EXCEPT ![c] = live]
       /\ \E order \in Bijection(1..Cardinality(live), live) :
             locks' = [locks EXCEPT ![c] = order]
       /\ Goto(c, IF live = {} THEN "checking" ELSE "locking")
    /\ UNCHANGED <<stored, holder, call, plan, answer, answers, calls>>

-----------------------------------------------------------------------------
(***************************************************************************)
(* Receipts and decisions.                                                 *)
(***************************************************************************)
\* Mutant of CheckReceipt: the receipt is left to the commit.
CheckNothing(c) ==
    /\ pc[c] = "checking"
    /\ Goto(c, "planning")
    /\ UNCHANGED <<stored, holder, call, locks, chats, plan, answer, answers, calls>>

\* A receipt of another thread proves nothing: its id has been reused.
CheckReceipt(c) ==
    /\ pc[c] = "checking"
    /\ LET receipt == receipts[call[c].id] IN
       \/ /\ receipt = NoReceipt
          /\ Goto(c, "planning")
          /\ UNCHANGED answer
       \/ /\ receipt # NoReceipt
          /\ receipt.status = "rejected"
          /\ Answering(c, "rejected", 0)
       \/ /\ receipt # NoReceipt
          /\ receipt.status = "accepted"
          /\ IF receipt.thread # call[c].thread
             THEN Answering(c, "conflict", 0)
             ELSE Answering(c, "accepted", receipt.sequence)
    /\ UNCHANGED <<stored, holder, call, locks, chats, plan, answers, calls>>

Edited(t, id) == [rows[t] EXCEPT !.edits = @ \cup {id}]
Deleted(t, id) == [Edited(t, id) EXCEPT !.deleted = TRUE]
Born(kind, parent, id) ==
    [kind |-> kind, parent |-> parent, deleted |-> FALSE, edits |-> {id}]

\* What has to hold for the command to be accepted, as far as threads decide it.
Acceptable(cmd) ==
    LET row == rows[cmd.thread] IN
    CASE cmd.type = "create" -> row.kind = "absent"
      [] cmd.type = "fork" -> /\ rows[cmd.other].kind = "root"
                              /\ ~rows[cmd.other].deleted
                              /\ row.kind = "absent"
      [] cmd.type \in {"edit", "delegate"} -> row.kind # "absent" /\ ~row.deleted
      [] OTHER -> row.kind # "absent"

\* The rows it writes.
Writes(cmd, cascade) ==
    CASE cmd.type = "create" -> [t \in {cmd.thread} |-> Born("root", NoThread, cmd.id)]
      [] cmd.type = "fork" -> [t \in {cmd.thread} |-> Born("sideChat", cmd.other, cmd.id)]
      [] cmd.type = "delete" -> [t \in {cmd.thread} \cup cascade |-> Deleted(t, cmd.id)]
      [] cmd.type = "delegate" ->
            [t \in {cmd.thread, cmd.other} |->
                IF t = cmd.other THEN Born("subagent", cmd.thread, cmd.id) ELSE Edited(t, cmd.id)]
      [] LocksParent(cmd) ->
            [t \in {cmd.thread, rows[cmd.thread].parent} |-> Edited(t, cmd.id)]
      [] cmd.type = "settle" -> NoPlan
      [] OTHER -> [t \in {cmd.thread} |-> Edited(t, cmd.id)]

\* dispatchOnce decides; commands that find nothing to do have an empty plan.
Accept(c) ==
    /\ pc[c] = "planning"
    /\ Acceptable(call[c])
    /\ plan' = [plan EXCEPT ![c] = Writes(call[c], chats[c])]
    /\ Goto(c, IF call[c].type = "settle" THEN "noting" ELSE "committing")
    /\ UNCHANGED <<stored, holder, call, locks, chats, answer, answers, calls>>

\* The decision fails, for a thread or for what the rows do not hold; the rejection
\* is going to be recorded.
Decline(c) ==
    /\ pc[c] = "planning"
    /\ Goto(c, "rejecting")
    /\ UNCHANGED <<stored, holder, call, locks, chats, plan, answer, answers, calls>>

\* A mode is above a limit.  The user may change it, so nothing is recorded.
Refuse(c) ==
    /\ pc[c] = "planning"
    /\ Answering(c, "refused", 0)
    /\ UNCHANGED <<stored, holder, call, locks, chats, plan, answers, calls>>

Receipt(c, status, sequence) ==
    [thread |-> call[c].thread, status |-> status, sequence |-> sequence]

insertIfAbsent(c, receipt) ==
    receipts' = IF receipts[call[c].id] = NoReceipt
                THEN [receipts EXCEPT ![call[c].id] = receipt] ELSE receipts

\* The caller hears of its own failure, whatever is recorded.
commitRejectedCommand(c) ==
    /\ pc[c] = "rejecting"
    /\ insertIfAbsent(c, Receipt(c, "rejected", Len(log)))
    /\ Answering(c, "rejected", 0)
    /\ UNCHANGED <<rows, log, holder, call, locks, chats, plan, answers, calls>>

\* A command with nothing to do records that it has been executed.
NoteNothingDone(c) ==
    /\ pc[c] = "noting"
    /\ insertIfAbsent(c, Receipt(c, "accepted", Len(log)))
    /\ Answering(c, "accepted", Len(log))
    /\ UNCHANGED <<rows, log, holder, call, locks, chats, plan, answers, calls>>

\* Mutant of commitCommand: the receipt is written over.
commitUpsert(c) ==
    /\ pc[c] = "committing"
    /\ rows' = [t \in Threads |-> IF t \in DOMAIN plan[c] THEN plan[c][t] ELSE rows[t]]
    /\ log' = Append(log, [id |-> call[c].id, threads |-> DOMAIN plan[c]])
    /\ receipts' = [receipts EXCEPT ![call[c].id] = Receipt(c, "accepted", Len(log) + 1)]
    /\ Answering(c, "accepted", Len(log) + 1)
    /\ UNCHANGED <<holder, call, locks, chats, plan, answers, calls>>

\* The receipt is reserved in the transaction that writes; if there is one already,
\* nothing is written and the caller is answered what it says.
commitCommand(c) ==
    /\ pc[c] = "committing"
    /\ insertIfAbsent(c, Receipt(c, "accepted", Len(log) + 1))
    /\ IF receipts[call[c].id] = NoReceipt
       THEN /\ rows' = [t \in Threads |->
                          IF t \in DOMAIN plan[c] THEN plan[c][t] ELSE rows[t]]
            /\ log' = Append(log, [id |-> call[c].id, threads |-> DOMAIN plan[c]])
            /\ Answering(c, "accepted", Len(log) + 1)
       ELSE /\ UNCHANGED <<rows, log>>
            /\ IF receipts[call[c].id].status = "rejected"
               THEN Answering(c, "rejected", 0)
               ELSE Answering(c, "accepted", receipts[call[c].id].sequence)
    /\ UNCHANGED <<holder, call, locks, chats, plan, answers, calls>>

\* Mutant of Ends: the locks are kept.
EndsHolding(c) ==
    /\ Goto(c, "idle")
    /\ call' = [call EXCEPT ![c] = Idle]
    /\ locks' = [locks EXCEPT ![c] = <<>>]
    /\ chats' = [chats EXCEPT ![c] = {}]
    /\ plan' = [plan EXCEPT ![c] = NoPlan]
    /\ answer' = [answer EXCEPT ![c] = NoAnswer]
    /\ UNCHANGED <<stored, holder, calls>>

\* The call ends and lets go of its locks.
Ends(c) ==
    /\ holder' = [t \in Threads |-> IF holder[t] = c THEN NoCaller ELSE holder[t]]
    /\ Goto(c, "idle")
    /\ call' = [call EXCEPT ![c] = Idle]
    /\ locks' = [locks EXCEPT ![c] = <<>>]
    /\ chats' = [chats EXCEPT ![c] = {}]
    /\ plan' = [plan EXCEPT ![c] = NoPlan]
    /\ answer' = [answer EXCEPT ![c] = NoAnswer]
    /\ UNCHANGED <<stored, calls>>

Answer(c) ==
    /\ pc[c] = "answering"
    /\ answers' = answers \cup {[id |-> call[c].id, thread |-> call[c].thread,
                                 verdict |-> answer[c].verdict, sequence |-> answer[c].sequence]}
    /\ Ends(c)

\* The client is gone, or a statement fails.
Interrupt(c) ==
    /\ pc[c] # "idle"
    /\ Ends(c)
    /\ UNCHANGED answers

Decide(c) == Accept(c) \/ Decline(c) \/ Refuse(c)

Work(c) ==
    \/ Route(c) \/ Lock(c) \/ ListSideChats(c) \/ CheckReceipt(c) \/ Decide(c)
    \/ commitRejectedCommand(c) \/ NoteNothingDone(c) \/ commitCommand(c) \/ Answer(c)

Next == \E c \in Callers : Call(c) \/ Work(c) \/ Interrupt(c)

Spec == Init /\ [][Next]_vars

\* A call that can go on does.  Nobody has to call, and nobody is interrupted to
\* get out of a deadlock.
FairSpec == Spec /\ \A c \in Callers : WF_vars(Work(c))

-----------------------------------------------------------------------------
(***************************************************************************)
(* Properties.                                                             *)
(***************************************************************************)
\* Side chats and subagents have a parent.
Rows ==
    [kind : {"absent", "root"}, parent : {NoThread}, deleted : BOOLEAN, edits : SUBSET Ids]
        \cup [kind : {"sideChat", "subagent"}, parent : Threads, deleted : BOOLEAN,
              edits : SUBSET Ids]

Verdicts == {"accepted", "rejected", "conflict", "refused", "failed"}

Locked == {"listing", "checking", "planning", "committing", "rejecting", "noting"}

Commits == [id : Ids, threads : SUBSET Threads]

StoredOK ==
    /\ rows \in [Threads -> Rows]
    /\ receipts \in [Ids -> {NoReceipt} \cup Receipts]
    /\ log \in Seq(Commits)

FibersOK ==
    /\ holder \in [Threads -> Callers \cup {NoCaller}]
    /\ pc \in [Callers -> {"idle", "routing", "locking", "answering"} \cup Locked]
    /\ call \in [Callers -> Commands \cup {Idle}]
    /\ locks \in [Callers -> Seq(Threads)]
    /\ chats \in [Callers -> SUBSET Threads]
    /\ answer \in [Callers -> [verdict : Verdicts \cup {"none"}, sequence : Nat]]
    /\ DOMAIN plan = Callers
    /\ \A c \in Callers : /\ DOMAIN plan[c] \subseteq Threads
                          /\ plan[c] \in [DOMAIN plan[c] -> Rows]

Controlled(c) ==
    /\ pc[c] = "idle" <=> call[c] \notin Commands
    /\ pc[c] \in Locked => locks[c] = <<>>
    /\ pc[c] = "locking" => locks[c] # <<>>
    /\ pc[c] = "answering" => answer[c].verdict \in Verdicts
    /\ pc[c] \in {"idle", "routing"} => \A t \in Threads : holder[t] # c

ControlOK == \A c \in Callers : Controlled(c)

\* Types; a call knows no lock it has still to take once it works under its locks,
\* and holds none unless it is under way.
TypeOK ==
    /\ StoredOK /\ FibersOK /\ ControlOK
    /\ answers \subseteq [id : Ids, thread : Threads, verdict : Verdicts, sequence : Nat]

\* What a command has written stays written: rows are written out in full from what
\* was read some steps before, and no commit loses the edit of another.
NoLostUpdate ==
    \A i \in 1..Len(log) : \A t \in log[i].threads : log[i].id \in rows[t].edits

\* A deleted thread stays deleted, and what is known of its lineage stays: no plan
\* made before the deletion is committed after it ("none can commit after this plan").
DeletionIsFinal ==
    [][\A t \in Threads : /\ rows[t].deleted => rows'[t].deleted
                          /\ rows[t].kind # "absent" => /\ rows'[t].kind = rows[t].kind
                                                        /\ rows'[t].parent = rows[t].parent]_vars

\* No side chat outlives its parent, however a fork and a deletion interleave.
NoOrphanSideChat ==
    \A t \in Threads :
        rows[t].kind = "sideChat" /\ rows[rows[t].parent].deleted => rows[t].deleted

\* A command id is executed once, whoever sends it and however often.
AppliedOnce ==
    \A i, j \in 1..Len(log) : log[i].id = log[j].id => i = j

\* Callers that send one command to one thread are told one thing: it is accepted
\* with one sequence, or rejected.
AnswersAgree ==
    \A a, b \in answers :
        /\ a.id = b.id /\ a.thread = b.thread
        /\ {a.verdict, b.verdict} \subseteq {"accepted", "rejected"}
        => a = b

\* A caller that is told its command was accepted has a receipt that proves it, of the
\* thread it was sent to ("Receipts only prove execution for the thread they were
\* recorded against").
AcceptedIsProven ==
    \A a \in answers : a.verdict = "accepted" =>
        /\ receipts[a.id] # NoReceipt
        /\ receipts[a.id].thread = a.thread
        /\ receipts[a.id].status = "accepted"

\* Every call ends.
EveryCallEnds == \A c \in Callers : pc[c] # "idle" ~> pc[c] = "idle"
=============================================================================
