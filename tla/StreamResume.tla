---------------------------- MODULE StreamResume ----------------------------
(***************************************************************************)
(* How a client resumes the shell stream while the log is pruned: ws.ts    *)
(* and ProjectionMaintenance.ts on top of the streams of EventSink.        *)
(*                                                                         *)
(* A client that reconnects names the last sequence it holds.  The server  *)
(* replays what the log has beyond it, or sends a snapshot instead, and    *)
(* then goes live.  Maintenance deletes events that are older than a day:  *)
(* it publishes the boundary first and deletes page by page.  A resumption *)
(* reads the boundary before and after its replay.                         *)
(*                                                                         *)
(* `log' remains what was committed; `gone' is what of it was deleted.     *)
(***************************************************************************)
EXTENDS EventSink

CONSTANTS
    MaxGap,     \* SHELL_RESUME_MAX_GAP: a larger gap is not replayed
    MaxPasses   \* bound: passes of the maintenance that delete

ASSUME ResumeAssumption == MaxGap \in Nat /\ MaxPasses \in Nat

VARIABLES
    mark,       \* EVENT_LOG_PRUNE_MARK: where the log ended a while ago
    pruned,     \* EVENT_LOG_PRUNED_THROUGH: what is at or below it may be gone
    gone,       \* the events that were deleted
    pass,       \* where the log ended when the pass under way began; 0: no pass
    passes,
    resume,     \* the preparation of each subscription, before its live stream
    seen        \* the events whose effect each client holds

pruning == <<mark, pruned, gone, pass, passes>>
sinkVars == <<log, writing, reading, drops>>
resumeVars == <<sinkVars, pruning, resume, seen>>

NotSubscribed == [pc |-> "off", high |-> 0, pos |-> 0, items |-> <<>>]

ResumeInit ==
    /\ Init
    /\ mark = 0
    /\ pruned = 0
    /\ gone = {}
    /\ pass = 0
    /\ passes = 0
    /\ resume = [s \in Subscribers |-> NotSubscribed]
    /\ seen = [s \in Subscribers |-> {}]

\* latestApplicationSequence: where the rows that are left seem to end.
LogEnd == Above(1..Len(log) \ gone)

-----------------------------------------------------------------------------
(***************************************************************************)
(* Subscriptions: subscribeOrchestrationV2Shell.                           *)
(***************************************************************************)
At(s, pc) == resume[s].pc = pc /\ stream[s].pc = "off"

Move(s, next) == resume' = [resume EXCEPT ![s] = next]

\* The client resumes from its cursor, or has lost its cache and asks for a snapshot.
Subscribe(s) ==
    /\ At(s, "off")
    /\ \E pc \in {"measured", "stale"} :
          Move(s, [NotSubscribed EXCEPT !.pc = pc, !.high = LogEnd, !.pos = cursor[s]])
    /\ UNCHANGED <<sinkVars, pruning, seen>>

\* The log may no longer hold what follows the client's cursor.
Outdated(s) == cursor[s] < pruned

\* canReplayPersistedRange.
CheckRange(s) ==
    /\ At(s, "measured")
    /\ Move(s, [resume[s] EXCEPT !.pc =
                   IF resume[s].high - cursor[s] \in 0..MaxGap /\ ~Outdated(s)
                   THEN "reading" ELSE "stale"])
    /\ UNCHANGED <<sinkVars, pruning, seen>>

\* One page of readApplicationEvents, of the rows that are still there.
ReadRange(s) ==
    LET rows == InOrder({n \in resume[s].pos + 1..resume[s].high : n \notin gone})
        page == SubSeq(rows, 1, IF Len(rows) < PageSize THEN Len(rows) ELSE PageSize)
        done == Len(page) < PageSize \/ page[Len(page)] >= resume[s].high
    IN /\ At(s, "reading")
       /\ Move(s, [resume[s] EXCEPT
                      !.items = @ \o Wanted(s, page),
                      !.pos = IF page = <<>> THEN @ ELSE page[Len(page)],
                      !.pc = IF done THEN "read" ELSE @])
       /\ UNCHANGED <<sinkVars, pruning, seen>>

\* Mutant of RecheckBoundary: the boundary is not read again.
RecheckNothing(s) ==
    /\ At(s, "read")
    /\ Move(s, [resume[s] EXCEPT !.pc = "sending"])
    /\ UNCHANGED <<sinkVars, pruning, seen>>

\* A pass that deleted rows during the read has published its boundary before.
RecheckBoundary(s) ==
    /\ At(s, "read")
    /\ Move(s, IF Outdated(s)
               THEN [resume[s] EXCEPT !.pc = "stale", !.items = <<>>]
               ELSE [resume[s] EXCEPT !.pc = "sending"])
    /\ UNCHANGED <<sinkVars, pruning, seen>>

\* loadSubscriberShellSnapshot: rows and sequence are read in one transaction.
LoadSnapshot(s) ==
    /\ At(s, "stale")
    /\ Move(s, [resume[s] EXCEPT !.pc = "snapshot", !.high = LogEnd])
    /\ UNCHANGED <<sinkVars, pruning, seen>>

\* The client replaces what it holds.
TakeSnapshot(s) ==
    /\ At(s, "snapshot")
    /\ Move(s, [resume[s] EXCEPT !.pc = "sending"])
    /\ cursor' = [cursor EXCEPT ![s] = resume[s].high]
    /\ seen' = [seen EXCEPT ![s] = {n \in 1..resume[s].high : log[n] \in Wants[s]}]
    /\ UNCHANGED <<log, writing, queue, stream, drops, pruning>>

TakeReplayed(s) ==
    /\ At(s, "sending")
    /\ resume[s].items # <<>>
    /\ Move(s, [resume[s] EXCEPT !.items = Tail(@)])
    /\ cursor' = [cursor EXCEPT ![s] = Head(resume[s].items)]
    /\ seen' = [seen EXCEPT ![s] = @ \cup {Head(resume[s].items)}]
    /\ UNCHANGED <<log, writing, queue, stream, drops, pruning>>

\* When the client has taken all of it, the live stream starts where the replay or the
\* snapshot ended.
GoLive(s) ==
    /\ At(s, "sending")
    /\ resume[s].items = <<>>
    /\ Open(s, resume[s].high)
    /\ Move(s, NotSubscribed)
    /\ UNCHANGED <<pruning, seen>>

\* The connection is lost before the live stream has started.
DropEarly(s) ==
    /\ resume[s].pc # "off"
    /\ drops < MaxDrops
    /\ drops' = drops + 1
    /\ Move(s, NotSubscribed)
    /\ UNCHANGED <<log, writing, reading, pruning, seen>>

-----------------------------------------------------------------------------
(***************************************************************************)
(* Maintenance: pruneEventStore.                                           *)
(***************************************************************************)
\* The first pass leaves a mark.
SetMark ==
    /\ mark = 0
    /\ pass = 0
    /\ mark' = LogEnd
    /\ UNCHANGED <<sinkVars, pruned, gone, pass, passes, resume, seen>>

\* The mark is a day old: every subscription whose replay or snapshot ended before it has
\* gone live since.
MarkIsDue ==
    /\ mark # 0
    /\ \A s \in Subscribers :
          /\ resume[s].pc \in {"sending", "snapshot"} => mark <= resume[s].high
          /\ stream[s].pc = "opening" => mark <= stream[s].through
          /\ stream[s].pc = "replaying" => mark <= stream[s].pos

\* The boundary is published before anything is deleted.
PublishBoundary ==
    /\ pass = 0
    /\ MarkIsDue
    /\ passes < MaxPasses
    /\ passes' = passes + 1
    /\ pass' = LogEnd
    /\ pruned' = IF mark > pruned THEN mark ELSE pruned
    /\ UNCHANGED <<sinkVars, mark, gone, resume, seen>>

\* Mutant of Prunable: the newest row goes as well.
PrunableNewest(n) == n <= pruned /\ n \notin gone

\* The newest row of each stream stays, so the log never seems to end earlier.
Prunable(n) == n <= pruned /\ n < Len(log) /\ n \notin gone

DeletePage ==
    /\ pass # 0
    /\ \E n \in 1..Len(log) : Prunable(n) /\ gone' = gone \cup {n}
    /\ UNCHANGED <<sinkVars, mark, pruned, pass, passes, resume, seen>>

\* What the pass did not reach, the next one deletes.
EndPass ==
    /\ pass # 0
    /\ mark' = pass
    /\ pass' = 0
    /\ UNCHANGED <<sinkVars, pruned, gone, passes, resume, seen>>

-----------------------------------------------------------------------------
LiveReceive(s) ==
    /\ Receive(s)
    /\ seen' = [seen EXCEPT ![s] = @ \cup {cursor'[s]}]
    /\ UNCHANGED <<pruning, resume>>

\* A lost process takes its subscriptions and the pass with it, not the table.
CrashAll ==
    /\ Crash
    /\ resume' = [s \in Subscribers |-> NotSubscribed]
    /\ pass' = 0
    /\ UNCHANGED <<mark, pruned, gone, passes, seen>>

Prepare(s) ==
    \/ Subscribe(s) \/ CheckRange(s) \/ ReadRange(s) \/ RecheckBoundary(s)
    \/ LoadSnapshot(s) \/ TakeSnapshot(s) \/ TakeReplayed(s) \/ GoLive(s)

Client(s) ==
    \/ Prepare(s)
    \/ Serve(s) /\ UNCHANGED <<pruning, resume, seen>>
    \/ LiveReceive(s)

Maintenance == SetMark \/ PublishBoundary \/ DeletePage \/ EndPass

Aside == UNCHANGED <<pruning, resume, seen>>

ResumeNext ==
    \/ \E w \in Writers : Writer(w) /\ Aside
    \/ \E s \in Subscribers : Client(s) \/ DropEarly(s) \/ (Drop(s) /\ Aside)
    \/ Maintenance
    \/ CrashAll

\* Writers and clients go on as in EventSink; nothing makes maintenance run.
ResumeSpec ==
    /\ ResumeInit
    /\ [][ResumeNext]_resumeVars
    /\ \A w \in Writers : WF_resumeVars(Advance(w) /\ Aside)
    /\ \A s \in Subscribers : WF_resumeVars(Client(s))

-----------------------------------------------------------------------------
(***************************************************************************)
(* Properties.                                                             *)
(***************************************************************************)
\* A client holds the effect of every event it wants up to its cursor, and of no event
\* twice: neither a pruned log, nor the seam of replay, snapshot and live tail, nor a lost
\* connection leaves a hole.  No replay under way comes to a row that was deleted.
ViewWhole ==
    \A s \in Subscribers :
        /\ seen[s] = {n \in 1..cursor[s] : log[n] \in Wants[s]}
        /\ stream[s].pc = "replaying" => \A n \in gone : n <= stream[s].pos

\* A client never goes back, although the server reads from what is left of the log where
\* it ends: the sequence of a snapshot and the end of a replay are at or beyond what the
\* client holds.
NeverBack == [][\A s \in Subscribers : cursor'[s] >= cursor[s]]_resumeVars
=============================================================================
