------------------------- MODULE StreamResumeProofs -------------------------
(***************************************************************************)
(* Proofs about StreamResume: a client that resumes beside the pruning of  *)
(* the log never goes back and holds the effect of every event it wants up *)
(* to its cursor, for any clients, gaps, budgets and numbers of passes.    *)
(*                                                                         *)
(* The invariant of the sink (EventSinkProofs) holds here as well, since   *)
(* every step moves the sink as one of its own steps does or moves the     *)
(* cursor of a closed stream.  Beside it, the invariant says what each     *)
(* stage of a subscription has read, and that the boundary has not passed  *)
(* what a live stream still has to read.                                   *)
(***************************************************************************)
EXTENDS StreamResume, EventSinkProofs

-----------------------------------------------------------------------------
(***************************************************************************)
(* The inductive invariant.                                                *)
(***************************************************************************)
ResumeRecord ==
    [pc : {"off", "measured", "reading", "read", "stale", "snapshot", "sending"},
     high : Nat, pos : Nat, items : Seq(Nat)]

ResumeType ==
    /\ {mark, pruned, pass, passes} \subseteq Nat
    /\ resume \in [Subscribers -> ResumeRecord]
    /\ seen \in [Subscribers -> SUBSET Nat]

\* What was deleted lies at or below the published boundary, and the log ends beyond it.
Pruning ==
    /\ mark <= Len(log) /\ pass <= Len(log) /\ pruned <= Len(log)
    /\ gone \subseteq 1..Len(log)
    /\ \A n \in gone : n <= pruned /\ n < Len(log)

\* Of the events A that a client asked for, those beyond lo and up to hi.
Between(A, lo, hi) == {n \in A : lo < n /\ n <= hi}

\* A subscription r is prepared while its stream t is closed.  A replay that the boundary p
\* has not outrun has read all that was asked for beyond the cursor c, and sends that.
Prepared(r, t, L, c, A, p) ==
    /\ r.pc # "off" => t.pc = "off"
    /\ r.high <= L
    /\ r.pc \in {"off", "measured", "stale", "snapshot"} => r.items = <<>>
    /\ r.pc = "measured" => r.pos = c
    /\ r.pc \in {"reading", "read", "snapshot", "sending"} => c <= r.high
    /\ r.pc = "reading" =>
          /\ c <= r.pos /\ r.pos <= r.high
          /\ p <= c => Sorted(r.items) /\ Elems(r.items) = Between(A, c, r.pos)
    /\ r.pc = "sending" \/ (r.pc = "read" /\ p <= c) =>
          Sorted(r.items) /\ Elems(r.items) = Between(A, c, r.high)

\* The boundary has not passed where a stream will start or a replay has read to.
Behind(r, t, p) ==
    /\ r.pc \in {"snapshot", "sending"} => p <= r.high
    /\ t.pc = "opening" => p <= t.through
    /\ t.pc = "replaying" => p <= t.pos

ClientInv(s) ==
    /\ Prepared(resume[s], stream[s], Len(log), cursor[s], Asked(s), pruned)
    /\ Behind(resume[s], stream[s], pruned)
    /\ seen[s] = {n \in Asked(s) : n <= cursor[s]}

ResumeInv ==
    /\ SinkInv
    /\ ResumeType
    /\ Pruning
    /\ \A s \in Subscribers : ClientInv(s)

-----------------------------------------------------------------------------
(***************************************************************************)
(* What the steps have in common.                                          *)
(***************************************************************************)
\* What is left of the log seems to end where it does.
LEMMA LogEndIs ==
    ASSUME ResumeInv
    PROVE  LogEnd = Len(log) /\ Len(log) \in Nat
<1> DEFINE L == Len(log)
           S == 1..L \ gone
<1>1. L \in Nat /\ S \in SUBSET (1..L) /\ (L # 0 => L \in S)
  BY DEF ResumeInv, SinkInv, SinkType, Pruning
<1>2. LogEnd = Above(S)
  BY DEF LogEnd
<1> HIDE DEF S, L
<1>3. Above(S) \in S \cup {0} /\ \A m \in S : m <= Above(S)
  BY <1>1, AboveIs
<1>4. Above(S) = L
  <2>1. CASE L = 0
    <3>1. S = {}
      BY <1>1, <2>1
    <3> QED
      BY <1>3, <2>1, <3>1
  <2>2. CASE L # 0
    <3>1. L <= Above(S)
      BY <1>1, <1>3, <2>2
    <3>2. S \cup {0} \subseteq 0..L
      BY <1>1
    <3>3. Above(S) \in 0..L
      BY <1>3, <3>2
    <3> QED
      BY <1>1, <3>1, <3>3
  <2> QED
    BY <2>1, <2>2
<1> QED
  BY <1>1, <1>2, <1>4 DEF L

\* The fields of a preparation.
LEMMA RecordFields ==
    ASSUME NEW r \in ResumeRecord
    PROVE  /\ r.pc \in {"off", "measured", "reading", "read", "stale", "snapshot", "sending"}
           /\ r.high \in Nat /\ r.pos \in Nat /\ r.items \in Seq(Nat)
BY DEF ResumeRecord

\* Nothing is prepared.
LEMMA NotSubscribedIs ==
    /\ NotSubscribed \in ResumeRecord
    /\ NotSubscribed.pc = "off" /\ NotSubscribed.high = 0 /\ NotSubscribed.pos = 0
    /\ NotSubscribed.items = <<>>
BY EmptySeq DEF NotSubscribed, ResumeRecord

\* What is known of one client.
LEMMA ClientParts ==
    ASSUME ResumeInv, NEW s \in Subscribers
    PROVE  /\ resume[s] \in ResumeRecord /\ cursor[s] \in Nat /\ cursor[s] <= Len(log)
           /\ stream[s] \in StreamType /\ Len(log) \in Nat
           /\ mark \in Nat /\ pruned \in Nat /\ pruned <= Len(log) /\ drops \in Nat
           /\ Asked(s) \subseteq 1..Len(log)
           /\ Prepared(resume[s], stream[s], Len(log), cursor[s], Asked(s), pruned)
           /\ Behind(resume[s], stream[s], pruned)
           /\ seen[s] = {n \in Asked(s) : n <= cursor[s]}
           /\ stream[s].pc = "off" => stream[s] = Closed /\ queue[s] = <<>>
BY StreamParts DEF ResumeInv, ResumeType, Pruning, ClientInv, Sound, Numbered, Phased

\* A client that nothing happens to.
LEMMA ClientUntouched ==
    ASSUME NEW s \in Subscribers, ClientInv(s), UNCHANGED <<log, pruned>>,
           resume'[s] = resume[s], stream'[s] = stream[s], cursor'[s] = cursor[s],
           seen'[s] = seen[s]
    PROVE  ClientInv(s)'
BY DEF ClientInv, Asked

\* A step of the sink alone that leaves its log: it remains to look at one client.
LEMMA SinkStep ==
    ASSUME ResumeInv, SinkInv', Aside, log' = log, NEW s \in Subscribers,
           \A r \in Subscribers \ {s} : stream'[r] = stream[r] /\ cursor'[r] = cursor[r],
           ClientInv(s)'
    PROVE  ResumeInv'
<1>1. ResumeType' /\ Pruning'
  BY DEF ResumeInv, ResumeType, Pruning, Aside, pruning
<1>2. ASSUME NEW r \in Subscribers, r # s PROVE ClientInv(r)'
  BY <1>2, ClientUntouched DEF ResumeInv, Aside, pruning
<1> QED
  BY <1>1, <1>2 DEF ResumeInv

\* A step in the preparation of one subscription.
LEMMA PreparationStep ==
    ASSUME ResumeInv, NEW s \in Subscribers, UNCHANGED <<log, pruning>>, SinkInv',
           NEW r \in ResumeRecord, resume' = [resume EXCEPT ![s] = r],
           NEW c \in Nat, cursor' = [cursor EXCEPT ![s] = c],
           NEW v \in SUBSET Nat, seen' = [seen EXCEPT ![s] = v],
           NEW t, stream' = [stream EXCEPT ![s] = t],
           Prepared(r, t, Len(log), c, Asked(s), pruned),
           Behind(r, t, pruned),
           v = {n \in Asked(s) : n <= c}
    PROVE  ResumeInv'
<1>1. ResumeType' /\ Pruning'
  BY DEF ResumeInv, ResumeType, Pruning, pruning
<1>2. /\ resume'[s] = r /\ cursor'[s] = c /\ seen'[s] = v /\ stream'[s] = t
      /\ pruned' = pruned
  BY DEF ResumeInv, ResumeType, SinkInv, SinkType, pruning
<1>3. ASSUME NEW q \in Subscribers, q # s PROVE ClientInv(q)'
  <2>1. resume'[q] = resume[q] /\ cursor'[q] = cursor[q] /\ seen'[q] = seen[q] /\ stream'[q] = stream[q]
    BY <1>3 DEF ResumeInv, ResumeType, SinkInv, SinkType
  <2> QED
    BY <1>2, <2>1, ClientUntouched DEF ResumeInv
<1>4. ClientInv(s)'
  BY <1>2 DEF ClientInv, Asked
<1> QED
  BY <1>1, <1>3, <1>4 DEF ResumeInv

\* What a step of the preparation leaves as it was.
LEMMA Unmoved ==
    ASSUME ResumeInv, NEW s \in Subscribers
    PROVE  /\ cursor = [cursor EXCEPT ![s] = cursor[s]]
           /\ seen = [seen EXCEPT ![s] = seen[s]]
           /\ stream = [stream EXCEPT ![s] = stream[s]]
           /\ seen[s] \in SUBSET Nat
BY DEF ResumeInv, ResumeType, SinkInv, SinkType

\* A step that reads only: the sink, the pruning and what the client holds stay.
LEMMA ReadingStep ==
    ASSUME ResumeInv, NEW s \in Subscribers, UNCHANGED <<log, writing, reading, pruning, seen>>,
           drops' \in Nat, NEW r \in ResumeRecord, resume' = [resume EXCEPT ![s] = r],
           Prepared(r, stream[s], Len(log), cursor[s], Asked(s), pruned),
           Behind(r, stream[s], pruned)
    PROVE  ResumeInv'
<1>1. SinkInv'
  BY StutterKeeps DEF ResumeInv
<1>2. /\ cursor' = [cursor EXCEPT ![s] = cursor[s]] /\ seen' = [seen EXCEPT ![s] = seen[s]]
      /\ stream' = [stream EXCEPT ![s] = stream[s]] /\ seen[s] \in SUBSET Nat
  BY Unmoved DEF reading
<1>3. /\ cursor[s] \in Nat /\ seen[s] = {n \in Asked(s) : n <= cursor[s]}
      /\ UNCHANGED <<log, pruning>>
  BY ClientParts
<1> QED
  BY <1>1, <1>2, <1>3, PreparationStep
-----------------------------------------------------------------------------
(***************************************************************************)
(* Subscriptions.                                                          *)
(***************************************************************************)
\* Subscribe: the end of the log is measured, or a snapshot is asked for.
LEMMA SubscribeKeeps ==
    ASSUME ResumeInv, NEW s \in Subscribers, Subscribe(s)
    PROVE  ResumeInv'
<1> USE ClientParts
<1>1. PICK pc \in {"measured", "stale"} :
          resume' = [resume EXCEPT ![s] =
                       [NotSubscribed EXCEPT !.pc = pc, !.high = LogEnd, !.pos = cursor[s]]]
  BY DEF Subscribe, Move
<1> DEFINE r == [NotSubscribed EXCEPT !.pc = pc, !.high = LogEnd, !.pos = cursor[s]]
<1>2. /\ r \in ResumeRecord /\ r.pc = pc /\ r.high = Len(log) /\ r.pos = cursor[s]
      /\ r.items = <<>>
  BY LogEndIs, EmptySeq DEF NotSubscribed, ResumeRecord
<1>3. resume' = [resume EXCEPT ![s] = r]
  BY <1>1
<1> HIDE DEF r
<1>4. Prepared(r, stream[s], Len(log), cursor[s], Asked(s), pruned)
  BY <1>2 DEF Prepared, Subscribe, At
<1>5. Behind(r, stream[s], pruned)
  BY <1>2 DEF Behind, Subscribe, At
<1>6. UNCHANGED <<log, writing, reading, pruning, seen>> /\ drops' \in Nat
  BY DEF Subscribe, sinkVars
<1> QED
  BY <1>2, <1>3, <1>4, <1>5, <1>6, ReadingStep

\* CheckRange: what is replayed begins at the cursor.
LEMMA CheckRangeKeeps ==
    ASSUME ResumeInv, NEW s \in Subscribers, CheckRange(s)
    PROVE  ResumeInv'
<1> USE ClientParts
<1> DEFINE fits == resume[s].high - cursor[s] \in 0..MaxGap /\ ~Outdated(s)
           r == [resume[s] EXCEPT !.pc = IF fits THEN "reading" ELSE "stale"]
<1>1. /\ resume' = [resume EXCEPT ![s] = r] /\ resume[s].pc = "measured" /\ stream[s].pc = "off"
      /\ UNCHANGED <<log, writing, reading, pruning, seen>> /\ drops' \in Nat
  BY DEF CheckRange, Move, At, sinkVars
<1>2. /\ resume[s].items = <<>> /\ resume[s].pos = cursor[s] /\ resume[s].high <= Len(log)
      /\ resume[s].high \in Nat /\ resume[s].pos \in Nat
  BY <1>1, RecordFields DEF Prepared
<1>3. fits => cursor[s] <= resume[s].high
  BY <1>2, ResumeAssumption DEF ResumeAssumption
<1> HIDE DEF fits
<1>4. /\ r \in ResumeRecord /\ r.pc = (IF fits THEN "reading" ELSE "stale")
      /\ r.high = resume[s].high /\ r.pos = cursor[s] /\ r.items = <<>>
  BY <1>2 DEF ResumeRecord
<1> HIDE DEF r
<1>5. Between(Asked(s), cursor[s], cursor[s]) = {}
  BY DEF Between
<1>6. Prepared(r, stream[s], Len(log), cursor[s], Asked(s), pruned)
  <2>1. CASE fits
    BY <1>1, <1>2, <1>3, <1>4, <1>5, <2>1, ElemsFacts DEF Prepared
  <2>2. CASE ~ fits
    BY <1>1, <1>2, <1>4, <2>2 DEF Prepared
  <2> QED
    BY <2>1, <2>2
<1>7. Behind(r, stream[s], pruned)
  BY <1>1, <1>4 DEF Behind
<1> QED
  BY <1>1, <1>4, <1>6, <1>7, ReadingStep

\* RecheckBoundary: a replay that the boundary has not outrun is whole.
LEMMA RecheckBoundaryKeeps ==
    ASSUME ResumeInv, NEW s \in Subscribers, RecheckBoundary(s)
    PROVE  ResumeInv'
<1> USE ClientParts
<1> DEFINE r == IF Outdated(s) THEN [resume[s] EXCEPT !.pc = "stale", !.items = <<>>]
                ELSE [resume[s] EXCEPT !.pc = "sending"]
<1>1. /\ resume' = [resume EXCEPT ![s] = r] /\ resume[s].pc = "read" /\ stream[s].pc = "off"
      /\ UNCHANGED <<log, writing, reading, pruning, seen>> /\ drops' \in Nat
  BY DEF RecheckBoundary, Move, At, sinkVars
<1>2. /\ resume[s].high \in Nat /\ resume[s].high <= Len(log) /\ cursor[s] <= resume[s].high
      /\ pruned <= cursor[s] => /\ Sorted(resume[s].items)
                                /\ Elems(resume[s].items) = Between(Asked(s), cursor[s], resume[s].high)
  BY <1>1, RecordFields DEF Prepared
<1>3. CASE Outdated(s)
  <2>1. /\ r \in ResumeRecord /\ r.pc = "stale" /\ r.high = resume[s].high /\ r.items = <<>>
    BY <1>3, EmptySeq DEF ResumeRecord
  <2> HIDE DEF r
  <2>2. /\ Prepared(r, stream[s], Len(log), cursor[s], Asked(s), pruned)
        /\ Behind(r, stream[s], pruned)
    BY <1>1, <1>2, <2>1 DEF Prepared, Behind
  <2> QED
    BY <1>1, <2>1, <2>2, ReadingStep
<1>4. CASE ~ Outdated(s)
  <2>1. pruned <= cursor[s]
    BY <1>4 DEF Outdated
  <2>2. /\ r \in ResumeRecord /\ r.pc = "sending" /\ r.high = resume[s].high
        /\ r.items = resume[s].items
    BY <1>4 DEF ResumeRecord
  <2> HIDE DEF r
  <2>3. /\ Prepared(r, stream[s], Len(log), cursor[s], Asked(s), pruned)
        /\ Behind(r, stream[s], pruned)
    BY <1>1, <1>2, <2>1, <2>2 DEF Prepared, Behind
  <2> QED
    BY <1>1, <2>2, <2>3, ReadingStep
<1> QED
  BY <1>3, <1>4

\* LoadSnapshot: a snapshot holds all of the log.
LEMMA LoadSnapshotKeeps ==
    ASSUME ResumeInv, NEW s \in Subscribers, LoadSnapshot(s)
    PROVE  ResumeInv'
<1> USE ClientParts
<1> DEFINE r == [resume[s] EXCEPT !.pc = "snapshot", !.high = LogEnd]
<1>1. /\ resume' = [resume EXCEPT ![s] = r] /\ resume[s].pc = "stale" /\ stream[s].pc = "off"
      /\ UNCHANGED <<log, writing, reading, pruning, seen>> /\ drops' \in Nat
  BY DEF LoadSnapshot, Move, At, sinkVars
<1>2. resume[s].items = <<>>
  BY <1>1 DEF Prepared
<1>3. /\ r \in ResumeRecord /\ r.pc = "snapshot" /\ r.high = Len(log) /\ r.items = <<>>
  BY <1>2, LogEndIs DEF ResumeRecord
<1> HIDE DEF r
<1>4. /\ Prepared(r, stream[s], Len(log), cursor[s], Asked(s), pruned)
      /\ Behind(r, stream[s], pruned)
  BY <1>1, <1>3 DEF Prepared, Behind
<1> QED
  BY <1>1, <1>3, <1>4, ReadingStep

\* DropEarly: nothing is prepared any longer.
LEMMA DropEarlyKeeps ==
    ASSUME ResumeInv, NEW s \in Subscribers, DropEarly(s)
    PROVE  ResumeInv'
<1> USE ClientParts, NotSubscribedIs
<1>1. /\ resume' = [resume EXCEPT ![s] = NotSubscribed]
      /\ UNCHANGED <<log, writing, reading, pruning, seen>> /\ drops' \in Nat
  BY DEF DropEarly, Move
<1>2. /\ Prepared(NotSubscribed, stream[s], Len(log), cursor[s], Asked(s), pruned)
      /\ Behind(NotSubscribed, stream[s], pruned)
  BY DEF Prepared, Behind
<1> QED
  BY <1>1, <1>2, ReadingStep
\* ReadRange: a page adds what was asked for, unless a row was deleted beyond the cursor;
\* the boundary has been published then.
LEMMA ReadRangeKeeps ==
    ASSUME ResumeInv, NEW s \in Subscribers, ReadRange(s)
    PROVE  ResumeInv'
<1> USE ClientParts
<1> DEFINE o == resume[s]
           A == Asked(s)
           c == cursor[s]
           R == {n \in o.pos + 1..o.high : n \notin gone}
           rows == InOrder(R)
           page == SubSeq(rows, 1, IF Len(rows) < PageSize THEN Len(rows) ELSE PageSize)
           k == Len(page)
           done == k < PageSize \/ page[k] >= o.high
           pos == IF page = <<>> THEN o.pos ELSE page[k]
           r == [o EXCEPT !.items = @ \o Wanted(s, page), !.pos = pos,
                          !.pc = IF done THEN "read" ELSE @]
<1>1. /\ resume' = [resume EXCEPT ![s] = r] /\ o.pc = "reading" /\ stream[s].pc = "off"
      /\ UNCHANGED <<log, writing, reading, pruning, seen>> /\ drops' \in Nat
  BY DEF ReadRange, Move, At, sinkVars
<1>2. /\ o.high \in Nat /\ o.pos \in Nat /\ o.items \in Seq(Nat) /\ o.high <= Len(log)
      /\ c <= o.pos /\ o.pos <= o.high
      /\ pruned <= c => Sorted(o.items) /\ Elems(o.items) = Between(A, c, o.pos)
  BY <1>1, RecordFields DEF Prepared
<1>3. R \in SUBSET (1..Len(log)) /\ \A n \in R : n \in Nat /\ o.pos < n /\ n <= o.high
  BY <1>2
<1>4. ASSUME pruned <= c, NEW n \in A, o.pos < n, n <= o.high PROVE n \in R
  BY <1>2, <1>4 DEF ResumeInv, Pruning
<1>5. SinkInv
  BY DEF ResumeInv
<1> HIDE DEF R
<1>6. /\ page \in Seq(Nat) /\ k \in Nat /\ PageSize \in Nat \ {0}
      /\ Sorted(page) /\ Elems(page) \subseteq R
      /\ page = <<>> <=> k = 0
      /\ k < PageSize => Elems(page) = R
      /\ k # 0 => /\ page[k] \in Elems(page)
                  /\ \A x \in Elems(page) : x <= page[k]
                  /\ \A x \in R : x <= page[k] => x \in Elems(page)
  BY <1>3, <1>5, PageIs, Zenon
<1> HIDE DEF page
<1>7. /\ Wanted(s, page) \in Seq(Nat) /\ Sorted(Wanted(s, page))
      /\ Elems(Wanted(s, page)) = Elems(page) \cap A
  BY <1>5, <1>6, WantedIs
<1>8. /\ pos \in Nat /\ o.pos <= pos /\ pos <= o.high
      /\ \A x \in Elems(page) : x <= pos
      /\ \A x \in R : x <= pos => x \in Elems(page)
  <2>1. CASE k = 0
    <3>1. pos = o.pos /\ Elems(page) = {}
      BY <2>1, <1>6, ElemsFacts
    <3>2. \A x \in R : ~ (x <= pos)
      BY <3>1, <1>2, <1>3
    <3> QED
      BY <3>1, <3>2, <1>2
  <2>2. CASE k # 0
    <3>1. pos = page[k] /\ page[k] \in R
      BY <2>2, <1>6
    <3>2. o.pos < page[k] /\ page[k] <= o.high /\ page[k] \in Nat
      BY <3>1, <1>3
    <3> QED
      BY <2>2, <3>1, <3>2, <1>2, <1>6
  <2> QED
    BY <2>1, <2>2
<1>9. ASSUME done PROVE \A n \in R : n \in Elems(page)
  <2>1. CASE k < PageSize
    BY <2>1, <1>6
  <2>2. CASE ~ (k < PageSize)
    <3>1. k # 0 /\ pos = page[k] /\ page[k] >= o.high
      BY <2>2, <1>6, <1>9
    <3>2. \A n \in R : n <= pos
      BY <3>1, <1>2, <1>3, <1>8
    <3> QED
      BY <3>2, <1>8
  <2> QED
    BY <2>1, <2>2
<1> HIDE DEF done, pos
<1>10. /\ r \in ResumeRecord /\ r.pc = (IF done THEN "read" ELSE "reading")
       /\ r.high = o.high /\ r.pos = pos /\ r.items = o.items \o Wanted(s, page)
  <2>1. o.items \o Wanted(s, page) \in Seq(Nat)
    BY <1>2, <1>7, Joined
  <2> QED
    BY <1>1, <1>8, <2>1 DEF ResumeRecord
<1> HIDE DEF r
<1>11. ASSUME pruned <= c
       PROVE  /\ Sorted(r.items)
              /\ Elems(r.items) = Between(A, c, IF done THEN o.high ELSE pos)
  <2>1. Sorted(o.items) /\ Elems(o.items) = Between(A, c, o.pos)
    BY <1>2, <1>11
  <2>2. Elems(r.items) = Between(A, c, o.pos) \cup (Elems(page) \cap A)
    BY <1>2, <1>7, <1>10, <2>1, Joined
  <2>3. \A x \in Elems(o.items), y \in Elems(Wanted(s, page)) : x < y
    BY <1>2, <1>3, <1>6, <1>7, <2>1 DEF Between
  <2>4. Sorted(r.items)
    BY <1>2, <1>7, <1>10, <2>1, <2>3, Joined
  <2>5. CASE done
    <3>1. Elems(page) = R
      BY <1>6, <1>9, <2>5
    <3>2. Between(A, c, o.pos) \cup (R \cap A) = Between(A, c, o.high)
      BY <1>2, <1>3, <1>4, <1>11 DEF Between
    <3> QED
      BY <2>2, <2>4, <2>5, <3>1, <3>2
  <2>6. CASE ~ done
    <3>1. Between(A, c, o.pos) \cup (Elems(page) \cap A) = Between(A, c, pos)
      <4>1. ASSUME NEW n \in A, c < n, n <= pos, ~ (n <= o.pos) PROVE n \in Elems(page)
        <5>1. n \in Nat /\ o.pos < n /\ n <= o.high
          BY <1>2, <1>8, <4>1
        <5> QED
          BY <5>1, <1>4, <1>8, <1>11, <4>1
      <4>2. ASSUME NEW n \in Elems(page) PROVE c < n /\ n <= pos
        <5>1. n \in Nat /\ o.pos < n
          BY <1>3, <1>6
        <5> QED
          BY <5>1, <1>2, <1>8
      <4>3. ASSUME NEW n \in A, n <= o.pos PROVE n <= pos
        BY <1>2, <1>8, <4>3
      <4> QED
        BY <4>1, <4>2, <4>3 DEF Between
    <3> QED
      BY <2>2, <2>4, <2>6, <3>1
  <2> QED
    BY <2>5, <2>6
<1>12. c <= pos /\ c <= o.high
  BY <1>2, <1>8
<1>13. Prepared(r, stream[s], Len(log), c, A, pruned)
  <2>1. CASE done
    BY <1>1, <1>2, <1>10, <1>11, <1>12, <2>1 DEF Prepared
  <2>2. CASE ~ done
    BY <1>1, <1>2, <1>8, <1>10, <1>11, <1>12, <2>2 DEF Prepared
  <2> QED
    BY <2>1, <2>2
<1>14. Behind(r, stream[s], pruned)
  BY <1>1, <1>10 DEF Behind
<1> QED
  BY <1>1, <1>10, <1>13, <1>14, ReadingStep

\* A client whose stream is closed may move on.
LEMMA CursorMoves ==
    ASSUME SinkInv, NEW s \in Subscribers, stream[s].pc = "off",
           UNCHANGED <<log, writing, queue, stream, drops>>,
           NEW c \in Nat, c <= Len(log), cursor' = [cursor EXCEPT ![s] = c]
    PROVE  SinkInv'
<1> DEFINE q == queue[s]
           t == stream[s]
<1> USE StreamParts
<1>1. t = Closed /\ q = <<>>
  BY DEF Sound, Phased
<1>2. Sound(s, Len(log), Asked(s), c, q, t, Unpublished(s))
  BY <1>1, ClosedSound
<1>3. /\ queue' = [queue EXCEPT ![s] = q] /\ stream' = [stream EXCEPT ![s] = t]
      /\ cursor' = [cursor EXCEPT ![s] = c] /\ UNCHANGED <<log, writing>> /\ drops' \in Nat
  BY Same
<1>4. q \in Seq(Nat) /\ t \in StreamType
  OBVIOUS
<1> HIDE DEF q, t
<1> QED
  BY <1>2, <1>3, <1>4, StreamStep

\* TakeSnapshot: the client holds all that the snapshot does.
LEMMA TakeSnapshotKeeps ==
    ASSUME ResumeInv, NEW s \in Subscribers, TakeSnapshot(s)
    PROVE  ResumeInv' /\ cursor[s] <= cursor'[s]
<1> USE ClientParts
<1> DEFINE c == resume[s].high
           v == {n \in 1..c : log[n] \in Wants[s]}
           r == [resume[s] EXCEPT !.pc = "sending"]
<1>1. /\ resume' = [resume EXCEPT ![s] = r] /\ resume[s].pc = "snapshot" /\ stream[s].pc = "off"
      /\ cursor' = [cursor EXCEPT ![s] = c] /\ seen' = [seen EXCEPT ![s] = v]
      /\ UNCHANGED <<log, writing, queue, stream, drops, pruning>>
  BY DEF TakeSnapshot, Move, At
<1>2. /\ c \in Nat /\ c <= Len(log) /\ cursor[s] <= c /\ pruned <= c
      /\ resume[s].items = <<>>
  BY <1>1, RecordFields DEF Prepared, Behind
<1>3. v \in SUBSET Nat /\ v = {n \in Asked(s) : n <= c}
  BY <1>2 DEF Asked
<1>4. /\ r \in ResumeRecord /\ r.pc = "sending" /\ r.high = c /\ r.items = <<>>
  BY <1>2 DEF ResumeRecord
<1>5. SinkInv'
  BY <1>1, <1>2, CursorMoves DEF ResumeInv
<1>6. stream' = [stream EXCEPT ![s] = stream[s]] /\ UNCHANGED <<log, pruning>>
  BY <1>1, Unmoved
<1> HIDE DEF r, v
<1>7. Between(Asked(s), c, c) = {}
  BY <1>2 DEF Between
<1>8. /\ Prepared(r, stream[s], Len(log), c, Asked(s), pruned)
      /\ Behind(r, stream[s], pruned)
  BY <1>1, <1>2, <1>4, <1>7, ElemsFacts DEF Prepared, Behind
<1>9. cursor'[s] = c
  BY <1>1 DEF ResumeInv, SinkInv, SinkType
<1> HIDE DEF c
<1>10. ResumeInv'
  BY <1>1, <1>2, <1>3, <1>4, <1>5, <1>6, <1>8, PreparationStep
<1> QED
  BY <1>2, <1>9, <1>10

\* TakeReplayed: what is sent first is the next event that the client asked for.
LEMMA TakeReplayedKeeps ==
    ASSUME ResumeInv, NEW s \in Subscribers, TakeReplayed(s)
    PROVE  ResumeInv' /\ cursor[s] <= cursor'[s]
<1> USE ClientParts
<1> DEFINE items == resume[s].items
           c == Head(items)
           v == seen[s] \cup {c}
           r == [resume[s] EXCEPT !.items = Tail(items)]
<1>1. /\ resume' = [resume EXCEPT ![s] = r] /\ resume[s].pc = "sending" /\ stream[s].pc = "off"
      /\ cursor' = [cursor EXCEPT ![s] = c] /\ seen' = [seen EXCEPT ![s] = v]
      /\ UNCHANGED <<log, writing, queue, stream, drops, pruning>> /\ items # <<>>
  BY DEF TakeReplayed, Move, At, ResumeInv, ResumeType
<1>2. /\ items \in Seq(Nat) /\ resume[s].high \in Nat /\ resume[s].high <= Len(log)
      /\ pruned <= resume[s].high /\ Sorted(items)
      /\ Elems(items) = Between(Asked(s), cursor[s], resume[s].high)
  BY <1>1, RecordFields DEF Prepared, Behind
<1>3. /\ c \in Nat /\ Tail(items) \in Seq(Nat) /\ Elems(items) = {c} \cup Elems(Tail(items))
      /\ Sorted(Tail(items)) /\ \A y \in Elems(Tail(items)) : c < y
  BY <1>1, <1>2, Split
<1>4. /\ r \in ResumeRecord /\ r.pc = "sending" /\ r.high = resume[s].high
      /\ r.items = Tail(items)
  BY <1>1, <1>3 DEF ResumeRecord
<1>5. cursor'[s] = c
  BY <1>1 DEF ResumeInv, SinkInv, SinkType
<1> HIDE DEF r, v, c, items
<1>6. c \in Asked(s) /\ cursor[s] < c /\ c <= resume[s].high /\ c <= Len(log)
  BY <1>2, <1>3 DEF Between
<1>7. Elems(Tail(items)) = Between(Asked(s), c, resume[s].high)
  <2>1. ASSUME NEW n \in Between(Asked(s), c, resume[s].high) PROVE n \in Elems(Tail(items))
    BY <1>2, <1>3, <1>6 DEF Between
  <2>2. ASSUME NEW n \in Elems(Tail(items)) PROVE n \in Between(Asked(s), c, resume[s].high)
    BY <1>2, <1>3 DEF Between
  <2> QED
    BY <2>1, <2>2
<1>8. v \in SUBSET Nat /\ v = {n \in Asked(s) : n <= c}
  <2>1. ASSUME NEW n \in Asked(s), n <= c, n # c PROVE n \in seen[s]
    <3>1. n \in Nat /\ n < c /\ n <= resume[s].high
      BY <1>2, <1>3, <1>6, <2>1
    <3>2. n \notin Elems(items)
      BY <1>3, <3>1
    <3>3. n <= cursor[s]
      BY <1>2, <3>1, <3>2, <2>1 DEF Between
    <3> QED
      BY <3>3, <2>1
  <2>2. \A n \in seen[s] : n \in Asked(s) /\ n <= c
    BY <1>3, <1>6
  <2> QED
    BY <1>6, <2>1, <2>2 DEF v
<1>9. SinkInv'
  BY <1>1, <1>3, <1>6, CursorMoves DEF ResumeInv
<1>10. stream' = [stream EXCEPT ![s] = stream[s]] /\ UNCHANGED <<log, pruning>>
  BY <1>1, Unmoved
<1>11. /\ Prepared(r, stream[s], Len(log), c, Asked(s), pruned)
       /\ Behind(r, stream[s], pruned)
  BY <1>1, <1>2, <1>3, <1>4, <1>6, <1>7 DEF Prepared, Behind
<1>12. ResumeInv'
  BY <1>1, <1>3, <1>4, <1>8, <1>9, <1>10, <1>11, PreparationStep
<1> QED
  BY <1>5, <1>3, <1>6, <1>12

\* GoLive: nothing that was asked for lies between the cursor and where the stream starts.
LEMMA GoLiveKeeps ==
    ASSUME ResumeInv, NEW s \in Subscribers, GoLive(s)
    PROVE  ResumeInv'
<1> USE ClientParts, NotSubscribedIs
<1> DEFINE a == resume[s].high
           t == [Closed EXCEPT !.pc = "opening", !.through = a]
<1>1. /\ resume' = [resume EXCEPT ![s] = NotSubscribed] /\ resume[s].pc = "sending"
      /\ Open(s, a) /\ resume[s].items = <<>> /\ UNCHANGED <<pruning, seen>>
  BY DEF GoLive, Move, At
<1>2. /\ a \in Nat /\ a <= Len(log) /\ cursor[s] <= a /\ pruned <= a
      /\ Between(Asked(s), cursor[s], a) = {}
  BY <1>1, RecordFields, ElemsFacts DEF Prepared, Behind
<1>3. \A n \in Asked(s) : ~ (cursor[s] < n /\ n <= a)
  BY <1>2 DEF Between
<1>4. /\ stream' = [stream EXCEPT ![s] = t] /\ UNCHANGED <<log, pruning>>
      /\ cursor' = [cursor EXCEPT ![s] = cursor[s]] /\ seen' = [seen EXCEPT ![s] = seen[s]]
      /\ seen[s] \in SUBSET Nat
  BY <1>1, Unmoved DEF Open
<1>5. t.pc = "opening" /\ t.through = a
  BY ClosedIs DEF StreamType
<1> HIDE DEF t, a
<1>6. SinkInv'
  BY <1>1, <1>2, <1>3, OpenKeeps DEF ResumeInv
<1>7. /\ Prepared(NotSubscribed, t, Len(log), cursor[s], Asked(s), pruned)
      /\ Behind(NotSubscribed, t, pruned)
  BY <1>2, <1>5 DEF Prepared, Behind
<1> QED
  BY <1>1, <1>4, <1>6, <1>7, PreparationStep
-----------------------------------------------------------------------------
(***************************************************************************)
(* The live stream.                                                        *)
(***************************************************************************)
\* A client whose stream is not closed prepares nothing.
LEMMA Idle ==
    ASSUME ResumeInv, NEW s \in Subscribers, stream[s].pc # "off"
    PROVE  resume[s].pc = "off" /\ resume[s].items = <<>> /\ resume[s].high <= Len(log)
BY ClientParts DEF Prepared

\* What the server does for a stream moves it from phase to phase, and its position on.
LEMMA ServeMoves ==
    ASSUME SinkInv, NEW s \in Subscribers, Serve(s)
    PROVE  /\ UNCHANGED <<log, cursor>> /\ stream[s].pc # "off"
           /\ \A r \in Subscribers \ {s} : stream'[r] = stream[r]
           /\ stream'[s].pc = "opening" =>
                 stream[s].pc = "opening" /\ stream'[s].through = stream[s].through
           /\ stream'[s].pc = "replaying" =>
                 \/ stream[s].pc = "opening" /\ stream'[s].pos = stream[s].through
                 \/ stream[s].pc = "replaying" /\ stream[s].pos <= stream'[s].pos
<1> DEFINE t == stream[s]
           t2 == stream'[s]
<1>1. /\ t.pc = "off" => t.page = <<>> /\ t.charge = 0 /\ queue[s] = <<>>
      /\ t.pos \in Nat /\ t.pos <= t.pos
  BY StreamParts, StreamFields, ClosedIs DEF Sound, Phased
<1>2. stream \in [Subscribers -> StreamType]
  BY DEF SinkInv, SinkType
<1>3. CASE ReadHighWater(s)
  BY <1>2, <1>3 DEF ReadHighWater, StreamType
<1>4. CASE Drain(s)
  BY <1>1, <1>2, <1>4 DEF Drain, Fail, StreamType
<1>5. CASE Acknowledge(s)
  BY <1>1, <1>2, <1>5 DEF Acknowledge, StreamType
<1>6. CASE ReadPage(s)
  <2>1. /\ UNCHANGED <<log, cursor>> /\ t.pc = "replaying"
        /\ \A r \in Subscribers \ {s} : stream'[r] = stream[r]
        /\ t2.pc = t.pc
    BY <1>2, <1>6 DEF ReadPage, StreamType
  <2>2. t.pos <= t2.pos
    BY <1>6, ReadPageKeeps
  <2> QED
    BY <2>1, <2>2
<1>7. CASE PullReplay(s)
  BY <1>1, <1>2, <1>7 DEF PullReplay, Fail, StreamType
<1>8. CASE EndReplay(s)
  BY <1>2, <1>8 DEF EndReplay, StreamType
<1>9. CASE PullLive(s)
  BY <1>2, <1>9 DEF PullLive, StreamType
<1>10. CASE End(s)
  BY <1>2, <1>10, ClosedIs DEF End
<1> QED
  BY <1>3, <1>4, <1>5, <1>6, <1>7, <1>8, <1>9, <1>10 DEF Serve

\* What the server does for a live stream.
LEMMA ServedKeeps ==
    ASSUME ResumeInv, NEW s \in Subscribers, Serve(s), Aside
    PROVE  ResumeInv' /\ UNCHANGED cursor
<1> USE ClientParts
<1>1. SinkInv /\ SinkInv'
  BY ServeKeeps DEF ResumeInv
<1>2. /\ UNCHANGED <<log, cursor>> /\ stream[s].pc # "off"
      /\ \A r \in Subscribers \ {s} : stream'[r] = stream[r]
      /\ stream'[s].pc = "opening" =>
            stream[s].pc = "opening" /\ stream'[s].through = stream[s].through
      /\ stream'[s].pc = "replaying" =>
            \/ stream[s].pc = "opening" /\ stream'[s].pos = stream[s].through
            \/ stream[s].pc = "replaying" /\ stream[s].pos <= stream'[s].pos
  BY <1>1, ServeMoves
<1>3. UNCHANGED <<mark, pruned, gone, pass, passes, resume, seen>>
  BY DEF Aside, pruning
<1>4. resume[s].pc = "off" /\ resume[s].items = <<>> /\ resume[s].high <= Len(log)
  BY <1>2, Idle
<1>5. Prepared(resume[s], stream'[s], Len(log), cursor[s], Asked(s), pruned)
  BY <1>4 DEF Prepared
<1>6. Behind(resume[s], stream'[s], pruned)
  <2>1. stream[s].pos \in Nat /\ stream'[s].pos \in Nat
    BY <1>1, StreamFields DEF SinkInv, SinkType
  <2> QED
    BY <1>2, <1>4, <2>1 DEF Behind
<1>7. ClientInv(s)'
  BY <1>2, <1>3, <1>5, <1>6 DEF ClientInv, Asked
<1> QED
  BY <1>1, <1>2, <1>7, SinkStep

\* LiveReceive: the client receives the next event it asked for.
LEMMA LiveReceiveKeeps ==
    ASSUME ResumeInv, NEW s \in Subscribers, LiveReceive(s)
    PROVE  ResumeInv' /\ cursor[s] <= cursor'[s]
<1> USE ClientParts
<1> DEFINE c == Head(stream[s].inflight)
           v == seen[s] \cup {c}
           t == [stream[s] EXCEPT !.inflight = Tail(@)]
<1>1. SinkInv /\ Receive(s)
  BY DEF ResumeInv, LiveReceive
<1>2. /\ SinkInv' /\ c \in Asked(s) /\ cursor[s] < c
      /\ \A n \in Asked(s) : n > cursor[s] => c <= n
  BY <1>1, ReceiveKeeps
<1>3. /\ stream[s].inflight # <<>> /\ UNCHANGED <<log, pruning, resume>>
      /\ cursor' = [cursor EXCEPT ![s] = c] /\ stream' = [stream EXCEPT ![s] = t]
  BY DEF LiveReceive, Receive
<1>4. cursor'[s] = c
  BY <1>1, <1>3 DEF SinkInv, SinkType
<1>5. seen' = [seen EXCEPT ![s] = v]
  BY <1>4 DEF LiveReceive
<1>6. stream[s].pc # "off"
  BY <1>3, ClosedIs
<1>7. /\ resume[s].pc = "off" /\ resume[s].items = <<>> /\ resume[s].high <= Len(log)
      /\ resume' = [resume EXCEPT ![s] = resume[s]]
  BY <1>3, <1>6, Idle DEF ResumeInv, ResumeType
<1>8. t.pc = stream[s].pc /\ t.through = stream[s].through /\ t.pos = stream[s].pos
  BY DEF StreamType
<1> HIDE DEF c, t
<1>9. c \in Nat /\ v \in SUBSET Nat /\ v = {n \in Asked(s) : n <= c}
  <2>1. c \in Nat
    BY <1>2
  <2>2. ASSUME NEW n \in Asked(s), n <= c, n # c PROVE n \in seen[s]
    <3>1. n \in Nat /\ n < c
      BY <2>1, <2>2
    <3>2. n <= cursor[s]
      BY <1>2, <2>1, <3>1
    <3> QED
      BY <3>2
  <2>3. \A n \in seen[s] : n \in Asked(s) /\ n <= c
    BY <1>2, <2>1
  <2> QED
    BY <1>2, <2>1, <2>2, <2>3
<1> HIDE DEF v
<1>10. /\ Prepared(resume[s], t, Len(log), c, Asked(s), pruned)
       /\ Behind(resume[s], t, pruned)
  BY <1>7, <1>8 DEF Prepared, Behind
<1>11. ResumeInv'
  BY <1>2, <1>3, <1>5, <1>7, <1>9, <1>10, PreparationStep
<1> QED
  BY <1>2, <1>4, <1>9, <1>11

\* Drop: the stream is closed, and what the client holds stays.
LEMMA DroppedKeeps ==
    ASSUME ResumeInv, NEW s \in Subscribers, Drop(s), Aside
    PROVE  ResumeInv' /\ UNCHANGED cursor
<1> USE ClientParts
<1>1. SinkInv'
  BY EndKeeps DEF ResumeInv
<1>2. /\ UNCHANGED <<log, cursor>> /\ stream[s].pc # "off" /\ stream'[s] = Closed
      /\ \A r \in Subscribers \ {s} : stream'[r] = stream[r]
  BY DEF Drop, ResumeInv, SinkInv, SinkType
<1>3. UNCHANGED <<mark, pruned, gone, pass, passes, resume, seen>>
  BY DEF Aside, pruning
<1>4. resume[s].pc = "off" /\ resume[s].items = <<>> /\ resume[s].high <= Len(log)
  BY <1>2, Idle
<1>5. /\ Prepared(resume[s], Closed, Len(log), cursor[s], Asked(s), pruned)
      /\ Behind(resume[s], Closed, pruned)
  BY <1>4, ClosedIs DEF Prepared, Behind
<1>6. ClientInv(s)'
  BY <1>2, <1>3, <1>5 DEF ClientInv, Asked
<1> QED
  BY <1>1, <1>2, <1>6, SinkStep

\* CrashAll: every stream is closed, nothing is prepared, and the log stays as pruned.
LEMMA CrashAllKeeps ==
    ASSUME ResumeInv, CrashAll
    PROVE  ResumeInv' /\ UNCHANGED cursor
<1>1. SinkInv'
  BY CrashKeeps DEF ResumeInv, CrashAll
<1>2. /\ UNCHANGED <<log, cursor, mark, pruned, gone, passes, seen>> /\ pass' = 0
      /\ resume' = [s \in Subscribers |-> NotSubscribed]
      /\ stream' = [s \in Subscribers |-> Closed]
  BY DEF CrashAll, Crash
<1>3. Len(log) \in Nat
  BY DEF ResumeInv, SinkInv, SinkType
<1>4. ResumeType' /\ Pruning'
  BY <1>2, <1>3, NotSubscribedIs DEF ResumeInv, ResumeType, Pruning
<1>5. ASSUME NEW s \in Subscribers PROVE ClientInv(s)'
  <2>1. /\ Prepared(NotSubscribed, Closed, Len(log), cursor[s], Asked(s), pruned)
        /\ Behind(NotSubscribed, Closed, pruned)
    BY <1>3, NotSubscribedIs, ClosedIs DEF Prepared, Behind
  <2>2. seen[s] = {n \in Asked(s) : n <= cursor[s]}
    BY ClientParts
  <2> QED
    BY <1>2, <2>1, <2>2 DEF ClientInv, Asked
<1> QED
  BY <1>1, <1>2, <1>4, <1>5 DEF ResumeInv

-----------------------------------------------------------------------------
(***************************************************************************)
(* Writers and maintenance.                                                *)
(***************************************************************************)
\* Writers only add to the log, and clients see nothing of it but through the hubs.
LEMMA WriterMoves ==
    ASSUME SinkInv, NEW w \in Writers, Writer(w)
    PROVE  /\ UNCHANGED <<cursor, stream>>
           /\ Len(log) \in Nat /\ Len(log') \in Nat /\ Len(log) <= Len(log')
           /\ \A n \in 1..Len(log) : log'[n] = log[n]
<1> USE DEF reading
<1>1. log \in Seq(Kinds \cup {Project}) /\ batch[w] \in Seq(Kinds \cup {Project})
  BY SinkAssumed DEF SinkInv, SinkType
<1>2. CASE Commit(w)
  <2>1. log' = log \o batch[w] /\ UNCHANGED <<cursor, stream>>
    BY <1>2 DEF Commit
  <2> QED
    BY <1>1, <2>1
<1>3. CASE ~ Commit(w)
  <2>1. UNCHANGED <<log, cursor, stream>>
    BY <1>3 DEF Writer, Advance, Begin, Abandon, CommitFails, TakeLane, Publish, Finish
  <2> QED
    BY <1>1, <2>1
<1> QED
  BY <1>2, <1>3

\* Writers add beyond all that has been read or promised.
LEMMA WriterAsideKeeps ==
    ASSUME ResumeInv, NEW w \in Writers, Writer(w), Aside
    PROVE  ResumeInv' /\ UNCHANGED cursor
<1> USE DEF Aside, pruning
<1>1. SinkInv /\ SinkInv'
  BY WriterKeeps DEF ResumeInv
<1>2. /\ UNCHANGED <<cursor, stream>>
      /\ Len(log) \in Nat /\ Len(log') \in Nat /\ Len(log) <= Len(log')
      /\ \A n \in 1..Len(log) : log'[n] = log[n]
  BY <1>1, WriterMoves
<1>3. ResumeType' /\ Pruning'
  BY <1>2 DEF ResumeInv, ResumeType, Pruning
<1>4. ASSUME NEW s \in Subscribers PROVE ClientInv(s)'
  <2> DEFINE L == Len(log)
             M == Len(log)'
             A == Asked(s)
             B == Asked(s)'
             c == cursor[s]
             r == resume[s]
             t == stream[s]
  <2>1. /\ c \in Nat /\ c <= L /\ r \in ResumeRecord
        /\ Prepared(r, t, L, c, A, pruned) /\ Behind(r, t, pruned)
        /\ seen[s] = {n \in A : n <= c}
    BY ClientParts
  <2>2. r.high <= L /\ r.high \in Nat /\ r.pos \in Nat
    BY <2>1, RecordFields DEF Prepared
  <2>3. L \in Nat /\ A \subseteq B /\ B \subseteq Nat /\ \A n \in B : n <= L => n \in A
    BY <1>2 DEF Asked
  <2> HIDE DEF A, B, L, M
  <2>4. ASSUME NEW hi \in Nat, hi <= L, NEW n \in B, n <= hi PROVE n \in A
    <3>1. n \in Nat /\ n <= L
      BY <2>3, <2>4
    <3> QED
      BY <2>3, <3>1
  <2>5. ASSUME NEW hi \in Nat, hi <= L
        PROVE  /\ {n \in B : n <= hi} = {n \in A : n <= hi}
               /\ Between(B, c, hi) = Between(A, c, hi)
    <3>1. \A n \in B : n <= hi => n \in A
      BY <2>4, <2>5
    <3> QED
      BY <2>3, <3>1 DEF Between
  <2>6. {n \in B : n <= c} = {n \in A : n <= c}
    BY <2>1, <2>5 DEF L
  <2>7. r.pc = "reading" => r.pos <= L
    BY <1>2, <2>1, <2>2 DEF Prepared, L
  <2>8. Prepared(r, t, M, c, B, pruned)
    <3>1. r.high <= M
      BY <1>2, <2>2 DEF L, M
    <3>2. Between(B, c, r.high) = Between(A, c, r.high)
      BY <2>2, <2>5
    <3>3. r.pc = "reading" => Between(B, c, r.pos) = Between(A, c, r.pos)
      BY <2>2, <2>5, <2>7
    <3> QED
      BY <2>1, <3>1, <3>2, <3>3 DEF Prepared
  <2> QED
    BY <1>2, <2>1, <2>6, <2>8 DEF ClientInv, A, B, M
<1> QED
  BY <1>1, <1>2, <1>3, <1>4 DEF ResumeInv

\* The boundary moves only when every replay and snapshot has passed the mark; what is
\* deleted lies below the boundary.
LEMMA MaintenanceKeeps ==
    ASSUME ResumeInv, Maintenance
    PROVE  ResumeInv' /\ UNCHANGED cursor
<1>1. /\ UNCHANGED <<log, writing, reading, drops, resume, seen>>
      /\ UNCHANGED <<cursor, stream>> /\ drops \in Nat
  BY DEF Maintenance, SetMark, PublishBoundary, DeletePage, EndPass, sinkVars, reading,
         ResumeInv, SinkInv, SinkType
<1>2. SinkInv'
  BY <1>1, StutterKeeps DEF ResumeInv
<1>3. LogEnd = Len(log) /\ Len(log) \in Nat
  BY LogEndIs
<1>4. ASSUME NEW s \in Subscribers, pruned' = pruned PROVE ClientInv(s)'
  BY <1>1, <1>4, ClientUntouched DEF ResumeInv
<1>5. CASE SetMark
  BY <1>1, <1>2, <1>3, <1>4, <1>5 DEF SetMark, ResumeInv, ResumeType, Pruning
<1>6. CASE DeletePage
  <2>1. PICK n \in 1..Len(log) : Prunable(n) /\ gone' = gone \cup {n}
    BY <1>6 DEF DeletePage
  <2>2. Pruning'
    BY <1>1, <1>3, <1>6, <2>1 DEF DeletePage, Prunable, ResumeInv, Pruning
  <2> QED
    BY <1>1, <1>2, <1>4, <1>6, <2>2 DEF DeletePage, ResumeInv, ResumeType
<1>7. CASE EndPass
  BY <1>1, <1>2, <1>3, <1>4, <1>7 DEF EndPass, ResumeInv, ResumeType, Pruning
<1>8. CASE PublishBoundary
  <2>1. /\ pruned \in Nat /\ mark \in Nat /\ pruned <= Len(log) /\ mark <= Len(log)
        /\ pruned' = IF mark > pruned THEN mark ELSE pruned
        /\ MarkIsDue /\ pass' = Len(log) /\ passes' = passes + 1
        /\ UNCHANGED <<mark, gone>>
    BY <1>3, <1>8 DEF PublishBoundary, ResumeInv, ResumeType, Pruning
  <2>2. pruned' \in Nat /\ pruned <= pruned' /\ pruned' <= Len(log)
    BY <2>1
  <2>3. ResumeType' /\ Pruning'
    BY <1>1, <1>3, <2>1, <2>2 DEF ResumeInv, ResumeType, Pruning
  <2>4. ASSUME NEW s \in Subscribers PROVE ClientInv(s)'
    <3>1. Prepared(resume[s], stream[s], Len(log), cursor[s], Asked(s), pruned')
      <4>1. pruned' <= cursor[s] => pruned <= cursor[s]
        BY <2>1, <2>2, ClientParts
      <4> QED
        BY <4>1, ClientParts DEF Prepared
    <3>2. Behind(resume[s], stream[s], pruned')
      BY <2>1, ClientParts DEF Behind, MarkIsDue
    <3>3. seen[s] = {n \in Asked(s) : n <= cursor[s]}
      BY ClientParts
    <3> QED
      BY <1>1, <3>1, <3>2, <3>3 DEF ClientInv, Asked
  <2> QED
    BY <1>1, <1>2, <2>3, <2>4 DEF ResumeInv
<1> QED
  BY <1>1, <1>5, <1>6, <1>7, <1>8 DEF Maintenance
-----------------------------------------------------------------------------
(***************************************************************************)
(* Theorems.                                                               *)
(***************************************************************************)
\* Nothing is held, pruned or prepared.
LEMMA ResumeInitSound == ResumeInit => ResumeInv
<1> SUFFICES ASSUME ResumeInit PROVE ResumeInv
  OBVIOUS
<1> USE DEF ResumeInit
<1>1. SinkInv
  BY InitSound
<1>2. log = <<>> /\ Len(log) = 0 /\ \A s \in Subscribers : cursor[s] = 0 /\ stream[s] = Closed
  BY DEF Init
<1>3. ResumeType /\ Pruning
  BY <1>2, NotSubscribedIs DEF ResumeType, Pruning
<1>4. ASSUME NEW s \in Subscribers PROVE ClientInv(s)
  <2>1. Asked(s) = {} /\ resume[s] = NotSubscribed /\ seen[s] = {} /\ stream[s] = Closed
    BY <1>2 DEF Asked
  <2> QED
    BY <1>2, <2>1, NotSubscribedIs, ClosedIs DEF ClientInv, Prepared, Behind
<1> QED
  BY <1>1, <1>3, <1>4 DEF ResumeInv

\* What a subscription does before its stream is live.
LEMMA PrepareKeeps ==
    ASSUME ResumeInv, NEW s \in Subscribers, Prepare(s)
    PROVE  ResumeInv' /\ cursor'[s] >= cursor[s] /\ \A r \in Subscribers \ {s} : cursor'[r] = cursor[r]
<1> USE ClientParts
<1>1. ASSUME cursor' = cursor PROVE cursor'[s] >= cursor[s] /\ \A r \in Subscribers \ {s} : cursor'[r] = cursor[r]
  BY <1>1
<1>2. CASE Subscribe(s)
  BY <1>1, <1>2, SubscribeKeeps DEF Subscribe, sinkVars, reading
<1>3. CASE CheckRange(s)
  BY <1>1, <1>3, CheckRangeKeeps DEF CheckRange, sinkVars, reading
<1>4. CASE ReadRange(s)
  BY <1>1, <1>4, ReadRangeKeeps DEF ReadRange, sinkVars, reading
<1>5. CASE RecheckBoundary(s)
  BY <1>1, <1>5, RecheckBoundaryKeeps DEF RecheckBoundary, sinkVars, reading
<1>6. CASE LoadSnapshot(s)
  BY <1>1, <1>6, LoadSnapshotKeeps DEF LoadSnapshot, sinkVars, reading
<1>7. CASE GoLive(s)
  BY <1>1, <1>7, GoLiveKeeps DEF GoLive, Open
<1>8. CASE TakeSnapshot(s)
  <2>1. cursor' = [cursor EXCEPT ![s] = resume[s].high] /\ cursor \in [Subscribers -> Nat]
    BY <1>8 DEF TakeSnapshot, ResumeInv, SinkInv, SinkType
  <2>2. ResumeInv' /\ cursor[s] <= cursor'[s]
    BY <1>8, TakeSnapshotKeeps
  <2> QED
    BY <2>1, <2>2
<1>9. CASE TakeReplayed(s)
  <2>1. cursor' = [cursor EXCEPT ![s] = Head(resume[s].items)] /\ cursor \in [Subscribers -> Nat]
    BY <1>9 DEF TakeReplayed, ResumeInv, SinkInv, SinkType
  <2>2. ResumeInv' /\ cursor[s] <= cursor'[s]
    BY <1>9, TakeReplayedKeeps
  <2> QED
    BY <2>1, <2>2
<1> QED
  BY <1>2, <1>3, <1>4, <1>5, <1>6, <1>7, <1>8, <1>9 DEF Prepare

\* ResumeInv is inductive, and no step takes a client back.
LEMMA ResumeStep ==
    ASSUME ResumeInv, [ResumeNext]_resumeVars
    PROVE  ResumeInv' /\ \A s \in Subscribers : cursor'[s] >= cursor[s]
<1> USE ClientParts
<1>1. ASSUME cursor' = cursor PROVE \A s \in Subscribers : cursor'[s] >= cursor[s]
  BY <1>1
<1>2. ASSUME NEW w \in Writers, Writer(w) /\ Aside
      PROVE  ResumeInv' /\ \A s \in Subscribers : cursor'[s] >= cursor[s]
  BY <1>1, <1>2, WriterAsideKeeps
<1>3. ASSUME NEW s \in Subscribers, Client(s)
      PROVE  ResumeInv' /\ \A r \in Subscribers : cursor'[r] >= cursor[r]
  <2>1. CASE Prepare(s)
    BY <2>1, PrepareKeeps
  <2>2. CASE Serve(s) /\ UNCHANGED <<pruning, resume, seen>>
    BY <1>1, <2>2, ServedKeeps DEF Aside
  <2>3. CASE LiveReceive(s)
    <3>1. ResumeInv' /\ cursor[s] <= cursor'[s]
      BY <2>3, LiveReceiveKeeps
    <3>2. \A r \in Subscribers \ {s} : cursor'[r] = cursor[r]
      BY <2>3 DEF LiveReceive, Receive, ResumeInv, SinkInv, SinkType
    <3>3. cursor[s] \in Nat /\ cursor'[s] \in Nat
      BY <3>1 DEF ResumeInv, SinkInv, SinkType
    <3>4. cursor'[s] >= cursor[s]
      BY <3>1, <3>3
    <3> QED
      BY <3>1, <3>2, <3>4
  <2> QED
    BY <1>3, <2>1, <2>2, <2>3 DEF Client
<1>4. ASSUME NEW s \in Subscribers, DropEarly(s) \/ (Drop(s) /\ Aside)
      PROVE  ResumeInv' /\ \A r \in Subscribers : cursor'[r] >= cursor[r]
  <2>1. CASE DropEarly(s)
    <3>1. cursor' = cursor
      BY <2>1 DEF DropEarly, reading
    <3> QED
      BY <1>1, <2>1, <3>1, DropEarlyKeeps
  <2>2. CASE Drop(s) /\ Aside
    BY <1>1, <2>2, DroppedKeeps
  <2> QED
    BY <1>4, <2>1, <2>2
<1>5. CASE Maintenance
  BY <1>1, <1>5, MaintenanceKeeps
<1>6. CASE CrashAll
  BY <1>1, <1>6, CrashAllKeeps
<1>7. CASE UNCHANGED resumeVars
  <2>1. UNCHANGED <<log, writing, reading, drops, pruning, resume, seen>>
    BY <1>7 DEF resumeVars, sinkVars
  <2>2. SinkInv'
    BY <2>1, StutterKeeps DEF ResumeInv, SinkInv, SinkType
  <2>3. ASSUME NEW s \in Subscribers PROVE ClientInv(s)'
    BY <2>1, ClientUntouched DEF ResumeInv, reading, pruning
  <2>4. ResumeType' /\ Pruning'
    BY <2>1 DEF ResumeInv, ResumeType, Pruning, pruning
  <2> QED
    BY <1>1, <2>1, <2>2, <2>3, <2>4 DEF ResumeInv, reading
<1> QED
  BY <1>2, <1>3, <1>4, <1>5, <1>6, <1>7 DEF ResumeNext

\* The inductive invariant holds of every reachable state.
THEOREM ResumeInvHolds == ResumeSpec => []ResumeInv
BY ResumeInitSound, ResumeStep, PTL DEF ResumeSpec

\* What the invariant says of the views of the clients.
LEMMA InvViewWhole == ResumeInv => ViewWhole
<1> SUFFICES ASSUME ResumeInv, NEW s \in Subscribers
             PROVE  /\ seen[s] = {n \in 1..cursor[s] : log[n] \in Wants[s]}
                    /\ stream[s].pc = "replaying" => \A n \in gone : n <= stream[s].pos
  BY DEF ViewWhole
<1> USE ClientParts
<1>1. seen[s] = {n \in 1..cursor[s] : log[n] \in Wants[s]}
  <2>1. cursor[s] \in Nat /\ Len(log) \in Nat /\ cursor[s] <= Len(log)
    OBVIOUS
  <2>2. {n \in Asked(s) : n <= cursor[s]} = {n \in 1..cursor[s] : log[n] \in Wants[s]}
    BY <2>1 DEF Asked
  <2> QED
    BY <2>2
<1>2. ASSUME stream[s].pc = "replaying", NEW n \in gone PROVE n <= stream[s].pos
  <2>1. pruned <= stream[s].pos /\ stream[s].pos \in Nat
    BY <1>2, StreamFields DEF Behind
  <2>2. n <= pruned /\ n \in Nat
    BY DEF ResumeInv, Pruning
  <2> QED
    BY <2>1, <2>2
<1> QED
  BY <1>1, <1>2

\* A client holds the effect of every event it wants up to its cursor, and of no event
\* twice, and no replay under way comes to a deleted row: however the replay of a
\* resumption, the passes of the maintenance, commits, lost connections and crashes
\* interleave.
THEOREM ViewsWhole == ResumeSpec => []ViewWhole
BY ResumeInvHolds, InvViewWhole, PTL

\* No client goes back, though snapshots and replays end where the log that is left does.
THEOREM ClientsAdvance == ResumeSpec => NeverBack
<1>1. ResumeInv /\ [ResumeNext]_resumeVars
        => [\A s \in Subscribers : cursor'[s] >= cursor[s]]_resumeVars
  BY ResumeStep
<1> QED
  BY <1>1, ResumeInvHolds, PTL DEF ResumeSpec, NeverBack
====
