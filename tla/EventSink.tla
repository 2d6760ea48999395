----------------------------- MODULE EventSink -----------------------------
(***************************************************************************)
(* The event sink of the agent runtime: EventSink.ts with the stores it    *)
(* appends to (OrchestrationEventStore.ts) and the bounded live streams of *)
(* LiveStreamBudget.ts.                                                    *)
(*                                                                         *)
(* A writer appends in a transaction, takes the publication lane before it *)
(* commits, and publishes to the hubs before it lets the lane go.  A       *)
(* stream subscribes to its hub, then reads the high-water mark, then      *)
(* replays the log up to the mark in pages, then delivers the live events  *)
(* beyond it.                                                              *)
(*                                                                         *)
(* The log survives the process; everything but the cursors that clients   *)
(* keep is memory.                                                         *)
(***************************************************************************)
EXTENDS Integers, Sequences

CONSTANTS
    Writers,        \* fibers that write events
    Subscribers,    \* clients that resume from the last received sequence
    Kinds,          \* types of agent events
    Project,        \* the kind of project events
    Batches,        \* what one transaction may append: sequences of kinds
    HubOf,          \* [Subscribers -> Hubs]
    Wants,          \* [Subscribers -> set of kinds], the filter of a stream
    Bounded,        \* the subscribers whose stream has a budget
    Budget,         \* maxItems of the budget
    PageSize,       \* events in one page of the replay
    Nobody,         \* no writer
    MaxLog,         \* bound: length of the log
    MaxDrops        \* bound: streams dropped by the client or the process

Hubs == {"application", "all"} \cup Kinds

ASSUME SinkAssumption ==
    /\ Project \notin Kinds
    /\ Kinds \cap {"application", "all"} = {}
    /\ Batches \subseteq Seq(Kinds) \cup {<<Project>>}
    /\ HubOf \in [Subscribers -> Hubs]
    /\ \A s \in Subscribers :
          \/ s \in Bounded /\ HubOf[s] = "application" /\ Wants[s] \subseteq Kinds \cup {Project}
          \/ HubOf[s] = "all" /\ Wants[s] \subseteq Kinds
          \/ HubOf[s] \in Kinds /\ Wants[s] = {HubOf[s]}
    /\ Bounded \subseteq Subscribers
    /\ Budget \in Nat \ {0}
    /\ PageSize \in Nat \ {0}
    /\ Nobody \notin Writers
    /\ MaxLog \in Nat
    /\ MaxDrops \in Nat

VARIABLES
    log,        \* orchestration_events: the kind of each event, by sequence
    conn,       \* the writer that holds the one connection that writes
    lane,       \* the writer that holds publishLane
    wpc,        \* where each writer stands in commitThenPublish
    batch,      \* what its transaction appends
    stored,     \* the sequence numbers the transaction was given, once committed
    todo,       \* the hubs those events have not reached
    cursor,     \* the last sequence each client has received
    queue,      \* the hub's subscription of each stream
    stream,     \* the rest of each stream
    drops

writing == <<conn, lane, wpc, batch, stored, todo>>
reading == <<cursor, queue, stream>>
vars == <<log, writing, reading, drops>>

\* Nothing subscribed.  `through' is the sequence that live events must exceed,
\* `high' the mark the replay ends at, `pos' how far pages have been read, `page'
\* what is left of the last one, `last' whether no page follows it, `buffer' the
\* retained live events, `inflight' what the client has been handed and `charge'
\* how much of that the budget still counts.
Closed == [pc |-> "off", through |-> 0, high |-> 0, pos |-> 0, page |-> <<>>,
           last |-> FALSE, buffer |-> <<>>, inflight |-> <<>>, charge |-> 0]

Init ==
    /\ log = <<>>
    /\ conn = Nobody
    /\ lane = Nobody
    /\ wpc = [w \in Writers |-> "idle"]
    /\ batch = [w \in Writers |-> <<>>]
    /\ stored = [w \in Writers |-> <<>>]
    /\ todo = [w \in Writers |-> {}]
    /\ cursor = [s \in Subscribers |-> 0]
    /\ queue = [s \in Subscribers |-> <<>>]
    /\ stream = [s \in Subscribers |-> Closed]
    /\ drops = 0

-----------------------------------------------------------------------------
(***************************************************************************)
(* Writers: commitThenPublish.                                             *)
(***************************************************************************)
\* The transaction takes the connection.  An empty batch is a conditional write
\* whose condition does not hold, or a command that was already committed.
Begin(w) ==
    /\ wpc[w] = "idle"
    /\ conn = Nobody
    /\ \E b \in Batches \cup {<<>>} :
          /\ Len(log) + Len(b) <= MaxLog
          /\ batch' = [batch EXCEPT ![w] = b]
    /\ conn' = w
    /\ wpc' = [wpc EXCEPT ![w] = "writing"]
    /\ UNCHANGED <<log, lane, stored, todo, reading, drops>>

\* The transaction fails or its fiber is interrupted, and rolls back.
Abandon(w) ==
    /\ wpc[w] = "writing"
    /\ conn' = Nobody
    /\ batch' = [batch EXCEPT ![w] = <<>>]
    /\ wpc' = [wpc EXCEPT ![w] = "idle"]
    /\ UNCHANGED <<log, lane, stored, todo, reading, drops>>

\* Mutant of TakeLane: the lane is not waited for.
TakeLaneAnyway(w) ==
    /\ wpc[w] = "writing"
    /\ lane' = w
    /\ wpc' = [wpc EXCEPT ![w] = "committing"]
    /\ UNCHANGED <<log, conn, batch, stored, todo, reading, drops>>

\* The last act of the transaction, no longer interruptible.
TakeLane(w) ==
    /\ wpc[w] = "writing"
    /\ lane = Nobody
    /\ lane' = w
    /\ wpc' = [wpc EXCEPT ![w] = "committing"]
    /\ UNCHANGED <<log, conn, batch, stored, todo, reading, drops>>

\* Events of agents go to the application hub, the hub of all agent events and
\* then the hub of each type; a project event goes to the first only.
HubsOf(b) ==
    IF b = <<>> THEN {} ELSE IF b = <<Project>> THEN {"application"} ELSE Hubs

Commit(w) ==
    /\ wpc[w] = "committing"
    /\ log' = log \o batch[w]
    /\ stored' = [stored EXCEPT ![w] = [i \in 1..Len(batch[w]) |-> Len(log) + i]]
    /\ conn' = Nobody
    /\ todo' = [todo EXCEPT ![w] = HubsOf(batch[w])]
    /\ wpc' = [wpc EXCEPT ![w] = "publishing"]
    /\ UNCHANGED <<lane, batch, reading, drops>>

\* COMMIT fails: the transaction rolls back and the lane is let go.
CommitFails(w) ==
    /\ wpc[w] = "committing"
    /\ conn' = Nobody
    /\ lane' = Nobody
    /\ batch' = [batch EXCEPT ![w] = <<>>]
    /\ wpc' = [wpc EXCEPT ![w] = "idle"]
    /\ UNCHANGED <<log, stored, todo, reading, drops>>

\* SelectSeq for membership in S, as a recursive function: what the proofs can unfold.
Keep(seqs, S) ==
    LET kept[i \in 0..Len(seqs)] ==
            IF i = 0 THEN <<>>
            ELSE IF seqs[i] \in S THEN Append(kept[i - 1], seqs[i]) ELSE kept[i - 1]
    IN kept[Len(seqs)]

\* The part of a publication that hub h carries.
OnHub(h, seqs) ==
    Keep(seqs, {n \in 1..Len(log) : h \in {"application", "all"} \/ log[n] = h})

\* Mutant of Subscribed: the hub is joined after the replay.
SubscribedAfterReplay(s) == stream[s].pc = "live"

\* The streams a hub serves.  The subscription of a stream that failed is closed.
Subscribed(s) == stream[s].pc \in {"opening", "replaying", "live"}

\* Mutant of Publish: publication reads the database on the writing connection.
PublishThroughConnection(w, h) ==
    /\ wpc[w] = "publishing"
    /\ h \in todo[w]
    /\ conn = Nobody
    /\ todo' = [todo EXCEPT ![w] = @ \ {h}]
    /\ queue' = [s \in Subscribers |->
                   IF Subscribed(s) /\ HubOf[s] = h
                   THEN queue[s] \o OnHub(h, stored[w]) ELSE queue[s]]
    /\ UNCHANGED <<log, conn, lane, wpc, batch, stored, cursor, stream, drops>>

\* Hubs are served in order; subscribers of other hubs are not touched.
Publish(w, h) ==
    /\ wpc[w] = "publishing"
    /\ h \in todo[w]
    /\ h = "all" => "application" \notin todo[w]
    /\ h \in Kinds => todo[w] \subseteq Kinds
    /\ todo' = [todo EXCEPT ![w] = @ \ {h}]
    /\ queue' = [s \in Subscribers |->
                   IF Subscribed(s) /\ HubOf[s] = h
                   THEN queue[s] \o OnHub(h, stored[w]) ELSE queue[s]]
    /\ UNCHANGED <<log, conn, lane, wpc, batch, stored, cursor, stream, drops>>

Finish(w) ==
    /\ wpc[w] = "publishing"
    /\ todo[w] = {}
    /\ lane' = Nobody
    /\ batch' = [batch EXCEPT ![w] = <<>>]
    /\ stored' = [stored EXCEPT ![w] = <<>>]
    /\ wpc' = [wpc EXCEPT ![w] = "idle"]
    /\ UNCHANGED <<log, conn, todo, reading, drops>>

-----------------------------------------------------------------------------
(***************************************************************************)
(* Streams: EventSink.stream and streamApplicationEvents.                  *)
(***************************************************************************)
Above(S) == CHOOSE n \in S \cup {0} : \A m \in S : m <= n

\* latestAgentSequence, and latestApplicationSequence for the application stream.
latestSequence(s) ==
    IF HubOf[s] = "application" THEN Len(log)
    ELSE Above({n \in 1..Len(log) : log[n] # Project})

\* The subscription is taken before anything is read.
Open(s, afterSequence) ==
    /\ stream[s].pc = "off"
    /\ stream' = [stream EXCEPT ![s] = [Closed EXCEPT !.pc = "opening", !.through = afterSequence]]
    /\ UNCHANGED <<log, writing, cursor, queue, drops>>

Connect(s) == Open(s, cursor[s])

ReadHighWater(s) ==
    /\ stream[s].pc = "opening"
    /\ LET high == latestSequence(s) IN
       stream' = [stream EXCEPT ![s].pc = "replaying", ![s].high = high,
                    ![s].through = IF high > @ THEN high ELSE @,
                    ![s].pos = stream[s].through]
    /\ UNCHANGED <<log, writing, cursor, queue, drops>>

Wanted(s, seqs) == Keep(seqs, {n \in 1..Len(log) : log[n] \in Wants[s]})

\* The live events that the replay does not cover.
BeyondReplay(s, seqs) == Keep(seqs, {n \in 1..Len(log) : n > stream[s].through})

\* Mutant of Fits: what has been handed to the client is not counted.
FitsWithoutCharge(s) == Len(stream[s].buffer) < Budget

\* retain: one more item is within the budget.
Fits(s) == Len(stream[s].buffer) + stream[s].charge < Budget

\* The stream has overflowed.  Its buffer, its page and its subscription are
\* released; what the client has been handed stays.
Fail(s) ==
    /\ stream' = [stream EXCEPT ![s].pc = "failed", ![s].page = <<>>, ![s].buffer = <<>>]
    /\ queue' = [queue EXCEPT ![s] = <<>>]

\* The fiber of retainLiveStream takes one live event, from the moment it subscribed.
Drain(s) ==
    /\ s \in Bounded
    /\ queue[s] # <<>>
    /\ LET event == SubSeq(queue[s], 1, 1)
           item == BeyondReplay(s, Wanted(s, event))
       IN IF item # <<>> /\ ~Fits(s)
          THEN Fail(s)
          ELSE /\ queue' = [queue EXCEPT ![s] = Tail(@)]
               /\ stream' = [stream EXCEPT ![s].buffer = @ \o item]
    /\ UNCHANGED <<log, writing, cursor, drops>>

\* The client has acknowledged what it was handed, and the next pull begins.
Pulling(s) == stream[s].inflight = <<>> /\ stream[s].charge = 0

Acknowledge(s) ==
    /\ stream[s].inflight = <<>>
    /\ stream[s].charge > 0
    /\ stream' = [stream EXCEPT ![s].charge = 0]
    /\ UNCHANGED <<log, writing, cursor, queue, drops>>

\* The rows a page is read from: agent streams filter in SQL, the application
\* stream pages over raw rows.
Rows(s) ==
    {n \in 1..Len(log) : /\ stream[s].pos < n
                         /\ n <= stream[s].high
                         /\ HubOf[s] = "application" \/ log[n] \in Wants[s]}

\* ORDER BY sequence ASC.
InOrder(rows) == Keep([n \in 1..Len(log) |-> n], rows)

\* Mutant of ReadPage: a page with nothing for the client ends the replay.
ReadPageUntilEmpty(s) ==
    LET rows == InOrder(Rows(s))
        page == SubSeq(rows, 1, IF Len(rows) < PageSize THEN Len(rows) ELSE PageSize)
    IN /\ stream[s].pc = "replaying"
       /\ Pulling(s)
       /\ stream[s].page = <<>>
       /\ ~stream[s].last
       /\ stream' = [stream EXCEPT
                       ![s].page = Wanted(s, page),
                       ![s].pos = IF page = <<>> THEN @ ELSE page[Len(page)],
                       ![s].last = Wanted(s, page) = <<>> \/ page[Len(page)] >= stream[s].high]
       /\ UNCHANGED <<log, writing, cursor, queue, drops>>

ReadPage(s) ==
    LET rows == InOrder(Rows(s))
        page == SubSeq(rows, 1, IF Len(rows) < PageSize THEN Len(rows) ELSE PageSize)
    IN /\ stream[s].pc = "replaying"
       /\ Pulling(s)
       /\ stream[s].page = <<>>
       /\ ~stream[s].last
       /\ stream' = [stream EXCEPT
                       ![s].page = Wanted(s, page),
                       ![s].pos = IF page = <<>> THEN @ ELSE page[Len(page)],
                       ![s].last = Len(page) < PageSize \/ page[Len(page)] >= stream[s].high]
       /\ UNCHANGED <<log, writing, cursor, queue, drops>>

\* Bounded streams hand out one replayed event at a time, and charge for it.
PullReplay(s) ==
    /\ Pulling(s)
    /\ stream[s].page # <<>>
    /\ IF s \notin Bounded
       THEN /\ stream' = [stream EXCEPT ![s].inflight = stream[s].page, ![s].page = <<>>]
            /\ UNCHANGED queue
       ELSE IF ~Fits(s)
       THEN Fail(s)
       ELSE /\ stream' = [stream EXCEPT ![s].inflight = <<Head(stream[s].page)>>,
                            ![s].page = Tail(@), ![s].charge = 1]
            /\ UNCHANGED queue
    /\ UNCHANGED <<log, writing, cursor, drops>>

EndReplay(s) ==
    /\ stream[s].pc = "replaying"
    /\ Pulling(s)
    /\ stream[s].page = <<>>
    /\ stream[s].last
    /\ stream' = [stream EXCEPT ![s].pc = "live"]
    /\ UNCHANGED <<log, writing, cursor, queue, drops>>

\* Bounded streams hand out all they have buffered; the others take the queue.
PullLive(s) ==
    /\ stream[s].pc = "live"
    /\ Pulling(s)
    /\ \/ /\ s \in Bounded
          /\ stream[s].buffer # <<>>
          /\ LET items == BeyondReplay(s, stream[s].buffer) IN
             stream' = [stream EXCEPT ![s].inflight = items, ![s].buffer = <<>>,
                          ![s].charge = Len(items)]
          /\ UNCHANGED queue
       \/ /\ s \notin Bounded
          /\ queue[s] # <<>>
          /\ stream' = [stream EXCEPT ![s].inflight = BeyondReplay(s, Wanted(s, queue[s]))]
          /\ queue' = [queue EXCEPT ![s] = <<>>]
    /\ UNCHANGED <<log, writing, cursor, drops>>

\* The client takes the next event and remembers its sequence.
Receive(s) ==
    /\ stream[s].inflight # <<>>
    /\ cursor' = [cursor EXCEPT ![s] = Head(stream[s].inflight)]
    /\ stream' = [stream EXCEPT ![s].inflight = Tail(@)]
    /\ UNCHANGED <<log, writing, queue, drops>>

\* The client learns that its stream has failed, and will resume.
End(s) ==
    /\ stream[s].pc = "failed"
    /\ Pulling(s)
    /\ stream' = [stream EXCEPT ![s] = Closed]
    /\ UNCHANGED <<log, writing, cursor, queue, drops>>

\* The connection of the client is lost, with what was on its way.
Drop(s) ==
    /\ stream[s].pc # "off"
    /\ drops < MaxDrops
    /\ drops' = drops + 1
    /\ stream' = [stream EXCEPT ![s] = Closed]
    /\ queue' = [queue EXCEPT ![s] = <<>>]
    /\ UNCHANGED <<log, writing, cursor>>

\* The process is lost: the open transaction rolls back, the log stays.
Crash ==
    /\ drops < MaxDrops
    /\ drops' = drops + 1
    /\ conn' = Nobody
    /\ lane' = Nobody
    /\ wpc' = [w \in Writers |-> "idle"]
    /\ batch' = [w \in Writers |-> <<>>]
    /\ stored' = [w \in Writers |-> <<>>]
    /\ todo' = [w \in Writers |-> {}]
    /\ queue' = [s \in Subscribers |-> <<>>]
    /\ stream' = [s \in Subscribers |-> Closed]
    /\ UNCHANGED <<log, cursor>>

Advance(w) ==
    TakeLane(w) \/ Commit(w) \/ Finish(w) \/ \E h \in Hubs : Publish(w, h)

Writer(w) == Begin(w) \/ Abandon(w) \/ CommitFails(w) \/ Advance(w)

Serve(s) ==
    \/ ReadHighWater(s) \/ Drain(s) \/ Acknowledge(s) \/ ReadPage(s)
    \/ PullReplay(s) \/ EndReplay(s) \/ PullLive(s) \/ End(s)

Step(s) == Connect(s) \/ Serve(s) \/ Receive(s)

Next ==
    \/ \E w \in Writers : Writer(w)
    \/ \E s \in Subscribers : Step(s) \/ Drop(s)
    \/ Crash

Spec == Init /\ [][Next]_vars

-----------------------------------------------------------------------------
(***************************************************************************)
(* Properties.                                                             *)
(***************************************************************************)
IsNumbered(seqs) == \A i \in 1..Len(seqs) : seqs[i] \in 1..Len(log)

StreamOK(s) ==
    LET t == stream[s] IN
    /\ t.pc \in {"off", "opening", "replaying", "live", "failed"}
    /\ {t.through, t.high, t.pos} \subseteq 0..Len(log)
    /\ t.last \in BOOLEAN
    /\ t.charge \in 0..Budget
    /\ s \in Bounded => Len(t.buffer) + Len(t.inflight) <= Budget
    /\ IsNumbered(t.page) /\ IsNumbered(t.buffer) /\ IsNumbered(t.inflight)
    /\ t.pc = "off" => t = Closed
    /\ Subscribed(s) \/ queue[s] = <<>>

\* Types; the connection is held exactly between the start and the end of a
\* transaction, and a stream that is closed or has failed holds no subscription.  What is
\* retained for a client never exceeds its budget, the events it has been handed and has not
\* received included.
TypeOK ==
    /\ log \in Seq(Kinds \cup {Project})
    /\ {conn, lane} \subseteq Writers \cup {Nobody}
    /\ wpc \in [Writers -> {"idle", "writing", "committing", "publishing"}]
    /\ \A w \in Writers : /\ IsNumbered(stored[w])
                          /\ todo[w] \subseteq Hubs
                          /\ conn = w <=> wpc[w] \in {"writing", "committing"}
    /\ cursor \in [Subscribers -> 0..Len(log)]
    /\ \A s \in Subscribers : IsNumbered(queue[s]) /\ StreamOK(s)

\* The events on their way to s: handed out, read or to be read, or live.
Elems(seqs) == {seqs[i] : i \in 1..Len(seqs)}

OnTheWay(s) ==
    LET t == stream[s] IN
    Elems(t.inflight) \cup Elems(t.page) \cup Elems(t.buffer) \cup Elems(queue[s])
        \cup IF t.pc = "opening" THEN 1..latestSequence(s)
             ELSE IF t.pc = "replaying" /\ ~t.last THEN (t.pos + 1)..t.high
             ELSE {}

Unpublished(s) ==
    UNION {Elems(stored[w]) : w \in {v \in Writers : HubOf[s] \in todo[v]}}

\* A connected stream never skips: each event its client asked for and has not
\* received is on its way, or is still to be published to its hub.
NothingSkipped ==
    \A s \in Subscribers : Subscribed(s) =>
        \A n \in 1..Len(log) :
            n > cursor[s] /\ log[n] \in Wants[s] => n \in OnTheWay(s) \cup Unpublished(s)

\* The sink as the abstract log: clients that come and go receive what they asked
\* for in the order of the log, once each.
Log == INSTANCE EventLog WITH
    Subscribers <- Subscribers, Wants <- Wants, Batches <- Batches,
    log <- log, cursor <- cursor
LogSpec == Log!Spec

\* Every transaction ends and lets go of the lane.  The publisher needs nothing
\* that a writer waiting for the lane holds.
WriterFinishes == \A w \in Writers : wpc[w] \in {"committing", "publishing"} ~> wpc[w] = "idle"

\* Every event reaches the clients that asked for it, across overflows, lost
\* connections and lost processes.
EventuallyReceived ==
    \A s \in Subscribers, n \in 1..MaxLog :
        (n <= Len(log) /\ log[n] \in Wants[s]) ~> cursor[s] >= n
=============================================================================
