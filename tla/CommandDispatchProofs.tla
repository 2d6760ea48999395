----------------------- MODULE CommandDispatchProofs -----------------------
(***************************************************************************)
(* Theorems about CommandDispatch, for every set of callers, threads and   *)
(* commands and every number of calls.                                     *)
(***************************************************************************)
EXTENDS CommandDispatch, FiniteSetTheorems, SequenceTheorems, TLAPS

(***************************************************************************)
(* Type correctness.                                                       *)
(***************************************************************************)
LEMMA CommandType ==
    ASSUME DispatchAssumption, NEW cmd \in Commands
    PROVE  /\ cmd.id \in Ids /\ cmd.thread \in Threads /\ cmd.type \in CommandTypes
           /\ cmd.type \in {"fork", "delegate"} => cmd.other \in Threads
BY DEF DispatchAssumption, Ids

LEMMA IdleIsNoCommand ==
    ASSUME DispatchAssumption
    PROVE  Idle \notin Commands
BY DEF DispatchAssumption, Idle, CommandTypes

\* The pieces of a plan.
LEMMA RowType ==
    ASSUME StoredOK, NEW t \in Threads, NEW id \in Ids
    PROVE  /\ rows[t] \in Rows
           /\ Edited(t, id) \in Rows
           /\ Deleted(t, id) \in Rows
           /\ \A p \in Threads, kind \in {"sideChat", "subagent"} : Born(kind, p, id) \in Rows
           /\ Born("root", NoThread, id) \in Rows
           /\ rows[t].kind \in {"sideChat", "subagent"} => rows[t].parent \in Threads
<1>1. rows[t] \in Rows
  BY DEF StoredOK
<1>2. Edited(t, id) \in Rows
  BY <1>1 DEF Edited, Rows
<1>3. Deleted(t, id) \in Rows
  BY <1>1, <1>2 DEF Deleted, Rows
<1>4. \A p \in Threads, kind \in {"sideChat", "subagent"} : Born(kind, p, id) \in Rows
  BY DEF Born, Rows
<1>5. Born("root", NoThread, id) \in Rows
  BY DEF Born, Rows
<1>6. rows[t].kind \in {"sideChat", "subagent"} => rows[t].parent \in Threads
  BY <1>1 DEF Rows
<1> QED BY <1>1, <1>2, <1>3, <1>4, <1>5, <1>6

LEMMA WritesType ==
    ASSUME DispatchAssumption, StoredOK, NEW cmd \in Commands, NEW S \in SUBSET Threads
    PROVE  /\ DOMAIN Writes(cmd, S) \subseteq Threads
           /\ Writes(cmd, S) \in [DOMAIN Writes(cmd, S) -> Rows]
<1>1. /\ cmd.id \in Ids /\ cmd.thread \in Threads /\ cmd.type \in CommandTypes
      /\ cmd.type \in {"fork", "delegate"} => cmd.other \in Threads
  BY CommandType
<1>2. \A t \in Threads :
        /\ Edited(t, cmd.id) \in Rows /\ Deleted(t, cmd.id) \in Rows
        /\ \A p \in Threads, kind \in {"sideChat", "subagent"} : Born(kind, p, cmd.id) \in Rows
        /\ Born("root", NoThread, cmd.id) \in Rows
        /\ rows[t].kind \in {"sideChat", "subagent"} => rows[t].parent \in Threads
  BY <1>1, RowType
<1>3. CASE cmd.type = "create"
  <2>1. Writes(cmd, S) = [t \in {cmd.thread} |-> Born("root", NoThread, cmd.id)]
    BY <1>3 DEF Writes, LocksParent
  <2> QED BY <1>1, <1>2, <2>1
<1>4. CASE cmd.type = "fork"
  <2>1. Writes(cmd, S) = [t \in {cmd.thread} |-> Born("sideChat", cmd.other, cmd.id)]
    BY <1>4 DEF Writes, LocksParent
  <2> QED BY <1>1, <1>2, <1>4, <2>1
<1>5. CASE cmd.type = "delete"
  <2>1. Writes(cmd, S) = [t \in {cmd.thread} \cup S |-> Deleted(t, cmd.id)]
    BY <1>5 DEF Writes, LocksParent
  <2> QED BY <1>1, <1>2, <2>1
<1>6. CASE cmd.type = "delegate"
  <2>1. Writes(cmd, S) = [t \in {cmd.thread, cmd.other} |->
                IF t = cmd.other THEN Born("subagent", cmd.thread, cmd.id) ELSE Edited(t, cmd.id)]
    BY <1>6 DEF Writes, LocksParent
  <2> QED BY <1>1, <1>2, <1>6, <2>1
<1>7. CASE LocksParent(cmd)
  <2>1. Writes(cmd, S) =
          [t \in {cmd.thread, rows[cmd.thread].parent} |-> Edited(t, cmd.id)]
    <3>1. cmd.type = "message"
      BY <1>7 DEF LocksParent
    <3> QED BY <1>7, <3>1 DEF Writes
  <2> QED BY <1>1, <1>2, <1>7, <2>1 DEF LocksParent
<1>8. CASE cmd.type = "settle"
  <2>1. Writes(cmd, S) = NoPlan
    BY <1>8 DEF Writes, LocksParent
  <2> QED BY <2>1 DEF NoPlan
<1>9. CASE cmd.type \in {"edit", "message"} /\ ~LocksParent(cmd)
  <2>1. Writes(cmd, S) = [t \in {cmd.thread} |-> Edited(t, cmd.id)]
    BY <1>9 DEF Writes
  <2> QED BY <1>1, <1>2, <2>1
<1> QED BY <1>1, <1>3, <1>4, <1>5, <1>6, <1>7, <1>8, <1>9 DEF CommandTypes

LEMMA GotoType ==
    ASSUME FibersOK, NEW c \in Callers,
           NEW l \in {"idle", "routing", "locking", "answering"} \cup Locked, Goto(c, l)
    PROVE  /\ pc' \in [Callers -> {"idle", "routing", "locking", "answering"} \cup Locked]
           /\ pc'[c] = l
           /\ \A d \in Callers \ {c} : pc'[d] = pc[d]
BY DEF FibersOK, Goto

LEMMA EndsType ==
    ASSUME DispatchAssumption, TypeOK, NEW c \in Callers, Ends(c)
    PROVE  StoredOK' /\ FibersOK' /\ ControlOK'
<1>1. StoredOK'
  BY DEF Ends, TypeOK, StoredOK, stored
<1>2. /\ pc' \in [Callers -> {"idle", "routing", "locking", "answering"} \cup Locked]
      /\ pc'[c] = "idle"
      /\ \A d \in Callers \ {c} : pc'[d] = pc[d]
  BY GotoType DEF Ends, TypeOK
<1>3. FibersOK'
  <2>1. <<>> \in Seq(Threads)
    BY EmptySeq
  <2>2. holder' \in [Threads -> Callers \cup {NoCaller}]
    BY DEF Ends, TypeOK, FibersOK
  <2>3. /\ call' \in [Callers -> Commands \cup {Idle}]
        /\ locks' \in [Callers -> Seq(Threads)]
        /\ chats' \in [Callers -> SUBSET Threads]
    BY <2>1 DEF Ends, TypeOK, FibersOK
  <2>4. answer' \in [Callers -> [verdict : Verdicts \cup {"none"}, sequence : Nat]]
    BY DEF Ends, TypeOK, FibersOK, NoAnswer
  <2>5. /\ DOMAIN plan' = Callers
        /\ \A d \in Callers : /\ DOMAIN plan'[d] \subseteq Threads
                              /\ plan'[d] \in [DOMAIN plan'[d] -> Rows]
    BY DEF Ends, TypeOK, FibersOK, NoPlan
  <2> QED BY <1>2, <2>2, <2>3, <2>4, <2>5 DEF FibersOK
<1>4. ControlOK'
  <2> SUFFICES ASSUME NEW d \in Callers
               PROVE  Controlled(d)'
    BY DEF ControlOK
  <2>1. CASE d = c
    BY <1>2, <2>1, IdleIsNoCommand
    DEF Controlled, Ends, Locked, DispatchAssumption, TypeOK, FibersOK
  <2>2. CASE d # c
    BY <1>2, <2>2
    DEF Controlled, Ends, DispatchAssumption, TypeOK, FibersOK, ControlOK
  <2> QED BY <2>1, <2>2
<1> QED BY <1>1, <1>3, <1>4

\* A step that moves on and changes, of its fiber, only what it is about to answer.
LEMMA AnsweringType ==
    ASSUME TypeOK, NEW c \in Callers, NEW verdict \in Verdicts, NEW n \in Nat,
           Answering(c, verdict, n), pc[c] # "idle",
           UNCHANGED <<holder, call, locks, chats, plan>>
    PROVE  FibersOK' /\ ControlOK'
<1>1. /\ pc' \in [Callers -> {"idle", "routing", "locking", "answering"} \cup Locked]
      /\ pc'[c] = "answering"
      /\ \A d \in Callers \ {c} : pc'[d] = pc[d]
  BY GotoType DEF Answering, TypeOK
<1>2. /\ answer' \in [Callers -> [verdict : Verdicts \cup {"none"}, sequence : Nat]]
      /\ answer'[c].verdict = verdict
      /\ \A d \in Callers \ {c} : answer'[d] = answer[d]
  BY DEF Answering, TypeOK, FibersOK
<1>3. FibersOK'
  BY <1>1, <1>2 DEF TypeOK, FibersOK
<1>4. ControlOK'
  BY <1>1, <1>2 DEF TypeOK, ControlOK, Controlled, Locked
<1> QED BY <1>3, <1>4

\* A step under the locks that moves on, and changes nothing or its plan.
LEMMA MoveType ==
    ASSUME TypeOK, NEW c \in Callers, NEW l \in Locked, Goto(c, l), pc[c] \in Locked,
           UNCHANGED <<holder, call, locks, chats, answer>>,
           \/ UNCHANGED plan
           \/ \E new : /\ plan' = [plan EXCEPT ![c] = new]
                       /\ DOMAIN new \subseteq Threads
                       /\ new \in [DOMAIN new -> Rows]
    PROVE  FibersOK' /\ ControlOK'
<1>1. /\ pc' \in [Callers -> {"idle", "routing", "locking", "answering"} \cup Locked]
      /\ pc'[c] = l
      /\ \A d \in Callers \ {c} : pc'[d] = pc[d]
  BY GotoType DEF TypeOK
<1>2. /\ DOMAIN plan' = Callers
      /\ \A d \in Callers : /\ DOMAIN plan'[d] \subseteq Threads
                            /\ plan'[d] \in [DOMAIN plan'[d] -> Rows]
  BY DEF TypeOK, FibersOK
<1>3. FibersOK'
  BY <1>1, <1>2 DEF TypeOK, FibersOK
<1>4. ControlOK'
  BY <1>1 DEF TypeOK, ControlOK, Controlled, Locked
<1> QED BY <1>3, <1>4

\* Taking the first lock of those a call has still to take.
LEMMA TailType ==
    ASSUME NEW S, NEW s \in Seq(S), s # <<>>
    PROVE  /\ Head(s) \in S /\ Tail(s) \in Seq(S)
           /\ Tail(s) = <<>> <=> ~(Len(s) > 1)
           /\ \A x \in Range(s) : x = Head(s) \/ x \in Range(Tail(s))
<1>1. /\ Head(s) \in S /\ Tail(s) \in Seq(S)
      /\ Len(Tail(s)) = Len(s) - 1
      /\ \A i \in 1..Len(Tail(s)) : Tail(s)[i] = s[i + 1]
  BY HeadTailProperties
<1>2. Len(s) \in Nat \ {0}
  BY EmptySeq
<1>3. Tail(s) = <<>> <=> Len(Tail(s)) = 0
  BY <1>1, EmptySeq
<1>4. \A x \in Range(s) : x = Head(s) \/ x \in Range(Tail(s))
  <2> SUFFICES ASSUME NEW i \in 1..Len(s), i # 1
               PROVE  s[i] \in Range(Tail(s))
    BY DEF Range
  <2>1. i - 1 \in 1..Len(Tail(s))
    BY <1>1, <1>2
  <2>2. Tail(s)[i - 1] = s[i]
    BY <1>1, <2>1
  <2>3. DOMAIN Tail(s) = 1..Len(Tail(s))
    BY <1>1, LenProperties
  <2> QED BY <2>1, <2>2, <2>3 DEF Range
<1> QED BY <1>1, <1>2, <1>3, <1>4

LEMMA WorkType ==
    ASSUME DispatchAssumption, TypeOK, NEW c \in Callers, Work(c)
    PROVE  StoredOK' /\ FibersOK' /\ ControlOK'
<1>0. /\ pc[c] \in {"idle", "routing", "locking", "answering"} \cup Locked
      /\ pc[c] # "idle" => call[c] \in Commands
      /\ UNCHANGED stored => StoredOK'
  BY DEF TypeOK, FibersOK, ControlOK, Controlled, StoredOK, stored
<1>1. CASE Route(c)
  <2>1. CASE Unroutable(call[c])
    BY <1>0, <1>1, <2>1, AnsweringType DEF Route, Verdicts
  <2>2. CASE ~Unroutable(call[c])
    <3>1. /\ pc' \in [Callers -> {"idle", "routing", "locking", "answering"} \cup Locked]
          /\ pc'[c] = "locking"
          /\ \A d \in Callers \ {c} : pc'[d] = pc[d]
      BY <1>1, <2>2, GotoType DEF Route, TypeOK
    <3>2. RouteOf(call[c]) \in Seq(Threads) /\ RouteOf(call[c]) # <<>>
      <4>1. call[c] \in Commands
        BY <1>0, <1>1 DEF Route
      <4>2. /\ call[c].thread \in Threads
            /\ LocksSource(call[c]) => call[c].other \in Threads
            /\ LocksParent(call[c]) => rows[call[c].thread].parent \in Threads
        BY <4>1, CommandType, RowType DEF LocksSource, LocksParent, TypeOK
      <4> QED BY <4>2 DEF RouteOf
    <3>3. /\ locks' \in [Callers -> Seq(Threads)]
          /\ locks'[c] # <<>>
          /\ \A d \in Callers \ {c} : locks'[d] = locks[d]
      <4>1. locks' = [locks EXCEPT ![c] = RouteOf(call[c])]
        BY <1>1, <2>2 DEF Route
      <4>2. locks \in [Callers -> Seq(Threads)]
        BY DEF TypeOK, FibersOK
      <4> QED BY <3>2, <4>1, <4>2
    <3>4. UNCHANGED <<stored, holder, call, chats, plan, answer>> /\ pc[c] = "routing"
      BY <1>1, <2>2 DEF Route
    <3>5. FibersOK'
      BY <3>1, <3>3, <3>4 DEF TypeOK, FibersOK
    <3>6. ControlOK'
      <4>1. \A d \in Callers \ {c} : Controlled(d)'
        BY <3>1, <3>3, <3>4 DEF TypeOK, ControlOK, Controlled
      <4>2. Controlled(c)'
        BY <1>0, <3>1, <3>3, <3>4 DEF Controlled, Locked
      <4> QED BY <4>1, <4>2 DEF ControlOK
    <3> QED BY <1>0, <3>4, <3>5, <3>6
  <2> QED BY <2>1, <2>2
<1>2. CASE Lock(c)
  <2> DEFINE t == Head(locks[c])
  <2>1. /\ locks[c] \in Seq(Threads) /\ locks[c] # <<>> /\ t \in Threads
        /\ Tail(locks[c]) \in Seq(Threads)
        /\ Tail(locks[c]) = <<>> <=> ~(Len(locks[c]) > 1)
    <3>1. locks[c] \in Seq(Threads) /\ locks[c] # <<>>
      BY <1>2 DEF Lock, TypeOK, FibersOK
    <3> QED BY <3>1, TailType
  <2>2. PICK l \in {"locking", "listing", "checking"} :
            Goto(c, l) /\ (l = "locking" <=> Len(locks[c]) > 1)
    BY <1>2 DEF Lock
  <2>3. /\ pc' \in [Callers -> {"idle", "routing", "locking", "answering"} \cup Locked]
        /\ pc'[c] = l
        /\ \A d \in Callers \ {c} : pc'[d] = pc[d]
    BY <2>2, GotoType DEF TypeOK, Locked
  <2>4. /\ locks' \in [Callers -> Seq(Threads)]
        /\ locks'[c] = Tail(locks[c])
        /\ \A d \in Callers \ {c} : locks'[d] = locks[d]
    BY <1>2, <2>1 DEF Lock, TypeOK, FibersOK
  <2>5. /\ holder' \in [Threads -> Callers \cup {NoCaller}]
        /\ \A d \in Callers \ {c} : \A u \in Threads : holder'[u] = d => holder[u] = d
    BY <1>2, <2>1 DEF Lock, TypeOK, FibersOK
  <2>6. UNCHANGED <<stored, call, chats, plan, answer>> /\ pc[c] = "locking"
    BY <1>2 DEF Lock
  <2>7. FibersOK'
    BY <2>3, <2>4, <2>5, <2>6 DEF TypeOK, FibersOK
  <2>8. ControlOK'
    <3>1. \A d \in Callers \ {c} : Controlled(d)'
      BY <2>3, <2>4, <2>5, <2>6 DEF TypeOK, ControlOK, Controlled
    <3>2. Controlled(c)'
      BY <1>0, <2>1, <2>2, <2>3, <2>4, <2>6 DEF Controlled, Locked
    <3> QED BY <3>1, <3>2 DEF ControlOK
  <2> QED BY <1>0, <2>6, <2>7, <2>8
<1>3. CASE ListSideChats(c)
  <2> DEFINE live == liveSideChatIds(call[c].thread)
  <2>1. PICK order \in Bijection(1..Cardinality(live), live) :
            locks' = [locks EXCEPT ![c] = order]
    BY <1>3 DEF ListSideChats
  <2>2. live \in SUBSET Threads /\ Cardinality(live) \in Nat
    BY FS_Subset, FS_CardinalityType DEF liveSideChatIds, DispatchAssumption
  <2>3. order \in Seq(Threads) /\ (order = <<>> <=> live = {})
    <3>1. order \in [1..Cardinality(live) -> live] /\ live \subseteq Range(order)
      BY <2>2 DEF Bijection, Injection, Surjection, Range
    <3>2. order \in Seq(Threads)
      BY <2>2, <3>1
    <3>3. Len(order) = Cardinality(live)
      BY <2>2, <3>1
    <3>4. live = {} => Cardinality(live) = 0
      BY FS_EmptySet
    <3>5. live # {} => order # <<>>
      <4>1. IsFiniteSet(live)
        BY FS_Subset DEF liveSideChatIds, DispatchAssumption
      <4> QED BY <3>3, <4>1, EmptySeq, FS_EmptySet
    <3> QED BY <3>2, <3>3, <3>4, <3>5, EmptySeq
  <2>4. PICK l \in {"locking", "checking"} : Goto(c, l) /\ (l = "checking" <=> live = {})
    BY <1>3 DEF ListSideChats
  <2>5. /\ pc' \in [Callers -> {"idle", "routing", "locking", "answering"} \cup Locked]
        /\ pc'[c] = l
        /\ \A d \in Callers \ {c} : pc'[d] = pc[d]
    BY <2>4, GotoType DEF TypeOK, Locked
  <2>6. /\ UNCHANGED <<stored, holder, call, plan, answer>> /\ pc[c] = "listing"
        /\ chats' = [chats EXCEPT ![c] = live]
    BY <1>3 DEF ListSideChats
  <2>7. FibersOK'
    BY <2>1, <2>2, <2>3, <2>5, <2>6 DEF TypeOK, FibersOK
  <2>8. ControlOK'
    BY <2>1, <2>3, <2>4, <2>5, <2>6 DEF TypeOK, FibersOK, ControlOK, Controlled, Locked
  <2> QED BY <1>0, <2>6, <2>7, <2>8
<1>4. CASE CheckReceipt(c)
  <2>1. CASE Goto(c, "planning") /\ UNCHANGED answer
    BY <1>0, <1>4, <2>1, MoveType DEF CheckReceipt, Locked
  <2>2. CASE ~(Goto(c, "planning") /\ UNCHANGED answer)
    <3>1. receipts[call[c].id] # NoReceipt
      BY <1>4, <2>2 DEF CheckReceipt
    <3>2. receipts[call[c].id].sequence \in Nat
      BY <1>0, <1>4, <3>1, CommandType DEF CheckReceipt, TypeOK, StoredOK, Receipts
    <3>3. \E v \in Verdicts, n \in Nat : Answering(c, v, n)
      BY <1>4, <2>2, <3>2 DEF CheckReceipt, Verdicts
    <3> QED BY <1>0, <1>4, <3>3, AnsweringType DEF CheckReceipt
  <2> QED BY <2>1, <2>2
<1>5. CASE Decide(c)
  <2>1. CASE Accept(c)
    <3>1. /\ DOMAIN Writes(call[c], chats[c]) \subseteq Threads
          /\ Writes(call[c], chats[c]) \in [DOMAIN Writes(call[c], chats[c]) -> Rows]
      BY <1>0, <2>1, WritesType DEF Accept, TypeOK, FibersOK
    <3> QED BY <1>0, <2>1, <3>1, MoveType DEF Accept, Locked
  <2>2. CASE Decline(c)
    BY <1>0, <2>2, MoveType DEF Decline, Locked
  <2>3. CASE Refuse(c)
    BY <1>0, <2>3, AnsweringType DEF Refuse, Verdicts
  <2> QED BY <1>5, <2>1, <2>2, <2>3 DEF Decide
<1>6. CASE commitRejectedCommand(c) \/ NoteNothingDone(c)
  <2>1. Len(log) \in Nat
    BY DEF TypeOK, StoredOK
  <2>2. FibersOK' /\ ControlOK'
    BY <1>6, <2>1, AnsweringType DEF commitRejectedCommand, NoteNothingDone, Verdicts
  <2>3. StoredOK'
    <3>1. call[c] \in Commands
      BY <1>0, <1>6 DEF commitRejectedCommand, NoteNothingDone
    <3>2. \E r \in Receipts : insertIfAbsent(c, r) /\ UNCHANGED <<rows, log>>
      BY <1>6, <2>1, <3>1, CommandType
      DEF commitRejectedCommand, NoteNothingDone, Receipt, Receipts
    <3> QED BY <3>2 DEF insertIfAbsent, TypeOK, StoredOK
  <2> QED BY <2>2, <2>3
<1>7. CASE commitCommand(c)
  <2>1. Len(log) + 1 \in Nat
    BY DEF TypeOK, StoredOK
  <2>2. call[c] \in Commands /\ call[c].id \in Ids /\ call[c].thread \in Threads
    BY <1>0, <1>7, CommandType DEF commitCommand
  <2>3. \E v \in Verdicts, n \in Nat : Answering(c, v, n)
    <3>1. CASE receipts[call[c].id] = NoReceipt
      BY <1>7, <2>1, <3>1 DEF commitCommand, Verdicts
    <3>2. CASE receipts[call[c].id] # NoReceipt
      <4>1. receipts[call[c].id].sequence \in Nat
        BY <2>2, <3>2 DEF TypeOK, StoredOK, Receipts
      <4> QED BY <1>7, <3>2, <4>1 DEF commitCommand, Verdicts
    <3> QED BY <3>1, <3>2
  <2>4. FibersOK' /\ ControlOK'
    BY <1>7, <2>3, AnsweringType DEF commitCommand
  <2>5. StoredOK'
    <3>1. Receipt(c, "accepted", Len(log) + 1) \in Receipts
      BY <2>1, <2>2 DEF Receipt, Receipts
    <3>2. receipts' \in [Ids -> {NoReceipt} \cup Receipts]
      BY <1>7, <3>1 DEF commitCommand, insertIfAbsent, TypeOK, StoredOK
    <3>3. CASE receipts[call[c].id] = NoReceipt
      <4>1. rows' \in [Threads -> Rows]
        <5>1. rows' = [t \in Threads |-> IF t \in DOMAIN plan[c] THEN plan[c][t] ELSE rows[t]]
          BY <1>7, <3>3 DEF commitCommand
        <5>2. \A t \in Threads : /\ rows[t] \in Rows
                                 /\ t \in DOMAIN plan[c] => plan[c][t] \in Rows
          BY DEF TypeOK, StoredOK, FibersOK
        <5> QED BY <5>1, <5>2 DEF TypeOK, StoredOK, FibersOK
      <4>2. [id |-> call[c].id, threads |-> DOMAIN plan[c]] \in Commits
        BY <2>2 DEF Commits, TypeOK, FibersOK
      <4>3. log' \in Seq(Commits)
        BY <1>7, <3>3, <4>2 DEF commitCommand, TypeOK, StoredOK
      <4> QED BY <3>2, <4>1, <4>3 DEF StoredOK
    <3>4. CASE receipts[call[c].id] # NoReceipt
      BY <1>7, <3>2, <3>4 DEF commitCommand, TypeOK, StoredOK
    <3> QED BY <3>3, <3>4
  <2> QED BY <2>4, <2>5
<1>8. CASE Answer(c)
  BY <1>8, EndsType DEF Answer
<1> QED
  BY <1>1, <1>2, <1>3, <1>4, <1>5, <1>6, <1>7, <1>8 DEF Work

LEMMA TypeInit ==
    ASSUME DispatchAssumption, Init
    PROVE  TypeOK
<1>1. StoredOK
  <2>1. \A t \in Threads : Root \in Rows /\ Absent \in Rows
    BY DEF Root, Absent, Rows
  <2>2. rows \in [Threads -> Rows]
    BY <2>1 DEF Init
  <2> QED BY <2>2, EmptySeq DEF Init, StoredOK
<1>2. FibersOK
  <2>1. <<>> \in Seq(Threads)
    BY EmptySeq
  <2> QED BY <2>1 DEF Init, FibersOK, NoAnswer, NoPlan
<1>3. ControlOK
  BY IdleIsNoCommand DEF Init, ControlOK, Controlled, Locked, DispatchAssumption
<1>4. answers = {}
  BY DEF Init
<1> QED BY <1>1, <1>2, <1>3, <1>4 DEF TypeOK

LEMMA CallType ==
    ASSUME DispatchAssumption, TypeOK, NEW c \in Callers, Call(c)
    PROVE  TypeOK'
<1>1. /\ pc' \in [Callers -> {"idle", "routing", "locking", "answering"} \cup Locked]
      /\ pc'[c] = "routing" /\ pc[c] = "idle"
      /\ \A d \in Callers \ {c} : pc'[d] = pc[d]
  BY GotoType DEF Call, TypeOK
<1>2. /\ call' \in [Callers -> Commands \cup {Idle}]
      /\ call'[c] \in Commands
      /\ \A d \in Callers \ {c} : call'[d] = call[d]
  BY DEF Call, TypeOK, FibersOK
<1>3. UNCHANGED <<rows, receipts, log, holder, locks, chats, plan, answer, answers>>
  BY DEF Call, stored
<1>4. StoredOK' /\ FibersOK'
  BY <1>1, <1>2, <1>3 DEF TypeOK, StoredOK, FibersOK
<1>5. ControlOK'
  BY <1>1, <1>2, <1>3 DEF TypeOK, ControlOK, Controlled, Locked
<1> QED BY <1>3, <1>4, <1>5 DEF TypeOK

LEMMA AnswersType ==
    ASSUME DispatchAssumption, TypeOK, NEW c \in Callers, Work(c)
    PROVE  answers' \subseteq
               [id : Ids, thread : Threads, verdict : Verdicts, sequence : Nat]
<1>1. CASE Answer(c)
  <2>1. call[c] \in Commands /\ answer[c].verdict \in Verdicts /\ answer[c].sequence \in Nat
    BY <1>1 DEF Answer, TypeOK, FibersOK, ControlOK, Controlled
  <2>2. call[c].id \in Ids /\ call[c].thread \in Threads
    BY <2>1, CommandType
  <2> QED BY <1>1, <2>1, <2>2 DEF Answer, TypeOK
<1>2. CASE ~Answer(c)
  <2>1. UNCHANGED answers
    BY <1>2 DEF Work, Route, Lock, ListSideChats, CheckReceipt, Decide, Accept, Decline,
                Refuse, commitRejectedCommand, NoteNothingDone, commitCommand
  <2> QED BY <2>1 DEF TypeOK
<1> QED BY <1>1, <1>2

LEMMA TypeStep ==
    ASSUME DispatchAssumption, TypeOK, [Next]_vars
    PROVE  TypeOK'
<1>1. ASSUME NEW c \in Callers, Work(c)
      PROVE  TypeOK'
  BY <1>1, WorkType, AnswersType DEF TypeOK
<1>2. ASSUME NEW c \in Callers, Interrupt(c)
      PROVE  TypeOK'
  BY <1>2, EndsType DEF Interrupt, TypeOK
<1>3. CASE UNCHANGED vars
  BY <1>3 DEF vars, stored, fiber, TypeOK, StoredOK, FibersOK, ControlOK, Controlled
<1> QED BY <1>1, <1>2, <1>3, CallType DEF Next

\* Every reachable state is well typed: a call works under its locks only when it has
\* taken all of them, answers what it has been told, and holds none before it is
\* routed or after it has ended.
THEOREM DispatchTypes == Spec => []TypeOK
<1>1. Init => TypeOK
  BY TypeInit, DispatchAssumption
<1>2. TypeOK /\ [Next]_vars => TypeOK'
  BY TypeStep, DispatchAssumption
<1> QED BY <1>1, <1>2, PTL DEF Spec

-----------------------------------------------------------------------------
(***************************************************************************)
(* What a command has written stays.  The inductive invariant says which   *)
(* locks a call holds, or has still to take, at each step (LocksRight),    *)
(* that what it has planned extends the rows as they are now (PlanRight),  *)
(* and that nobody else can have created a delegated child.                *)
(***************************************************************************)
\* Row `new' keeps all that was written to `old'.
Extends(new, old) ==
    /\ old.edits \subseteq new.edits
    /\ old.deleted => new.deleted
    /\ old.kind # "absent" => new.kind = old.kind /\ new.parent = old.parent

Exists(t) == rows[t].kind # "absent"

\* The threads that are locked by c, or will be before it reads anything.
Claims(c) == {t \in Threads : holder[t] = c \/ t \in Range(locks[c])}

LineageOK ==
    \A t \in Threads :
        /\ ~Exists(t) => rows[t] = Absent
        /\ rows[t].kind = "subagent" => Exists(rows[t].parent)

LogOK ==
    /\ AppliedOnce
    /\ NoLostUpdate
    /\ \A i \in 1..Len(log) : receipts[log[i].id] # NoReceipt

ChildrenUnborn ==
    \A cmd \in Commands :
        cmd.type = "delegate" /\ receipts[cmd.id] = NoReceipt => ~Exists(cmd.other)

LocksRight(c) ==
    /\ pc[c] \in {"idle", "routing"} => chats[c] = {}
    /\ pc[c] \in {"locking"} \cup Locked =>
          /\ call[c].thread \in Claims(c)
          /\ call[c].type = "message" =>
                /\ Exists(call[c].thread)
                /\ rows[call[c].thread].kind = "subagent" =>
                      rows[call[c].thread].parent \in Claims(c)
          /\ \A t \in chats[c] : t \in Claims(c) /\ Exists(t)

\* The delegated child is written without a lock.
IsNewChild(c, t) == call[c].type = "delegate" /\ t = call[c].other

IsNewThread(c, t) == call[c].type \in {"create", "fork"} /\ t = call[c].thread

PlanRight(c) ==
    pc[c] = "committing" =>
        \A t \in DOMAIN plan[c] :
            /\ call[c].id \in plan[c][t].edits
            /\ plan[c][t].kind # "absent"
            /\ plan[c][t].kind = "subagent" => Exists(plan[c][t].parent)
            /\ \/ IsNewChild(c, t)
               \/ /\ holder[t] = c
                  /\ Extends(plan[c][t], rows[t])
                  /\ Exists(t) \/ IsNewThread(c, t)

CallsOK == \A c \in Callers : LocksRight(c) /\ PlanRight(c)

WritesOK == LineageOK /\ LogOK /\ ChildrenUnborn /\ CallsOK

\* Of the other calls nothing changes.
Local(c) ==
    \A d \in Callers \ {c} :
        /\ pc'[d] = pc[d] /\ call'[d] = call[d]
        /\ locks'[d] = locks[d] /\ chats'[d] = chats[d] /\ plan'[d] = plan[d]
        /\ \A t \in Threads : holder'[t] = d <=> holder[t] = d

\* A step of c leaves another call right if it keeps what has been written, and
\* does not write the threads that call has locked, and found or means to create.
LEMMA OthersRight ==
    ASSUME TypeOK, CallsOK, NEW c \in Callers, Local(c), NEW d \in Callers \ {c},
           \A t \in Threads : Extends(rows'[t], rows[t]),
           \A t \in Threads :
              holder[t] = d /\ (Exists(t) \/ IsNewThread(d, t)) => rows'[t] = rows[t]
    PROVE  LocksRight(d)' /\ PlanRight(d)'
<1>1. Claims(d)' = Claims(d)
  BY DEF Local, Claims
<1>2. \A t \in Threads : Exists(t) => Exists(t)' /\ rows'[t].kind = rows[t].kind
                                              /\ rows'[t].parent = rows[t].parent
  BY DEF Extends, Exists
<1>3. /\ pc'[d] = pc[d] /\ call'[d] = call[d] /\ chats'[d] = chats[d] /\ plan'[d] = plan[d]
      /\ \A t \in Threads : holder'[t] = d <=> holder[t] = d
  BY DEF Local
<1>4. Claims(d) \subseteq Threads
  BY DEF Claims
<1>5. LocksRight(d)'
  BY <1>1, <1>2, <1>3, <1>4 DEF CallsOK, LocksRight
<1>6. PlanRight(d)'
  <2> SUFFICES ASSUME pc[d] = "committing", NEW t \in DOMAIN plan[d]
               PROVE  /\ call[d].id \in plan[d][t].edits
                      /\ plan[d][t].kind # "absent"
                      /\ plan[d][t].kind = "subagent" =>
                            rows'[plan[d][t].parent].kind # "absent"
                      /\ \/ IsNewChild(d, t)
                         \/ /\ holder[t] = d
                            /\ Extends(plan[d][t], rows'[t])
                            /\ rows'[t].kind # "absent" \/ IsNewThread(d, t)
    <3>1. \A t \in DOMAIN plan[d] : t \in Threads
      BY DEF TypeOK, FibersOK
    <3> QED BY <1>3, <3>1 DEF PlanRight, IsNewChild, IsNewThread, Exists
  <2>1. t \in Threads /\ plan[d][t] \in Rows
    BY DEF TypeOK, FibersOK
  <2>2. plan[d][t].kind = "subagent" => plan[d][t].parent \in Threads
    BY <2>1 DEF Rows
  <2> QED BY <1>2, <2>1, <2>2 DEF CallsOK, PlanRight, Exists
<1> QED BY <1>5, <1>6

LEMMA RowsKept ==
    ASSUME TypeOK, UNCHANGED rows
    PROVE  \A t \in Threads : Extends(rows'[t], rows[t])
BY DEF Extends

\* A step of c that writes no row.
LEMMA QuietStep ==
    ASSUME DispatchAssumption, TypeOK, WritesOK, NEW c \in Callers, Local(c),
           UNCHANGED <<rows, log>>,
           \A id \in Ids : receipts[id] # NoReceipt => receipts'[id] # NoReceipt,
           LocksRight(c)', PlanRight(c)'
    PROVE  WritesOK'
<1>1. LineageOK'
  BY DEF WritesOK, LineageOK, Exists
<1>2. LogOK'
  <2>1. \A i \in 1..Len(log) : log[i].id \in Ids
    <3>1. log \in Seq(Commits)
      BY DEF TypeOK, StoredOK
    <3>2. \A i \in 1..Len(log) : log[i] \in Commits
      BY <3>1, ElementOfSeq
    <3> QED BY <3>2 DEF Commits
  <2> QED BY <2>1 DEF WritesOK, LogOK, AppliedOnce, NoLostUpdate
<1>3. ChildrenUnborn'
  BY CommandType DEF WritesOK, ChildrenUnborn, Exists
<1>4. CallsOK'
  <2>1. \A d \in Callers \ {c} : LocksRight(d)' /\ PlanRight(d)'
    BY OthersRight, RowsKept DEF WritesOK
  <2> QED BY <2>1 DEF CallsOK
<1> QED BY <1>1, <1>2, <1>3, <1>4 DEF WritesOK

\* What a command plans extends the rows it has locked.
LEMMA WritesRight ==
    ASSUME DispatchAssumption, TypeOK, WritesOK, NEW c \in Callers, pc[c] = "planning",
           Acceptable(call[c]), call[c].type # "settle",
           NEW t \in DOMAIN Writes(call[c], chats[c])
    PROVE  LET row == Writes(call[c], chats[c])[t] IN
           /\ call[c].id \in row.edits
           /\ row.kind # "absent"
           /\ row.kind = "subagent" => Exists(row.parent)
           /\ \/ IsNewChild(c, t)
              \/ /\ holder[t] = c
                 /\ Extends(row, rows[t])
                 /\ Exists(t) \/ IsNewThread(c, t)
<1> DEFINE cmd == call[c]
           S == chats[c]
           row == Writes(cmd, S)[t]
<1>1. cmd \in Commands
  BY DEF TypeOK, ControlOK, Controlled
<1>2. /\ cmd.id \in Ids /\ cmd.thread \in Threads /\ cmd.type \in CommandTypes
      /\ cmd.type \in {"fork", "delegate"} => cmd.other \in Threads
  BY <1>1, CommandType
<1>3. \A u \in Claims(c) : u \in Threads /\ holder[u] = c
  <2>1. locks[c] = <<>>
    BY DEF TypeOK, ControlOK, Controlled, Locked
  <2> QED BY <2>1 DEF Claims, Range
<1>4. /\ cmd.thread \in Claims(c)
      /\ cmd.type = "message" /\ rows[cmd.thread].kind = "subagent" =>
            rows[cmd.thread].parent \in Claims(c)
      /\ \A u \in S : u \in Claims(c) /\ Exists(u)
  BY DEF WritesOK, CallsOK, LocksRight, Locked
\* A row that is edited or deleted under its lock.
<1>5. ASSUME NEW u \in Claims(c), Exists(u)
      PROVE  /\ cmd.id \in Edited(u, cmd.id).edits
             /\ Edited(u, cmd.id).kind # "absent"
             /\ Edited(u, cmd.id).kind = "subagent" => Exists(Edited(u, cmd.id).parent)
             /\ holder[u] = c
             /\ Extends(Edited(u, cmd.id), rows[u])
             /\ cmd.id \in Deleted(u, cmd.id).edits
             /\ Deleted(u, cmd.id).kind # "absent"
             /\ Deleted(u, cmd.id).kind = "subagent" => Exists(Deleted(u, cmd.id).parent)
             /\ Extends(Deleted(u, cmd.id), rows[u])
  <2>1. u \in Threads /\ holder[u] = c /\ rows[u] \in Rows
    BY <1>3 DEF TypeOK, StoredOK
  <2>2. /\ Edited(u, cmd.id).edits = rows[u].edits \cup {cmd.id}
        /\ Edited(u, cmd.id).kind = rows[u].kind
        /\ Edited(u, cmd.id).parent = rows[u].parent
        /\ Edited(u, cmd.id).deleted = rows[u].deleted
    BY <2>1 DEF Edited, Rows
  <2>3. /\ Deleted(u, cmd.id).edits = rows[u].edits \cup {cmd.id}
        /\ Deleted(u, cmd.id).kind = rows[u].kind
        /\ Deleted(u, cmd.id).parent = rows[u].parent
        /\ Deleted(u, cmd.id).deleted = TRUE
    BY <2>1 DEF Edited, Deleted, Rows
  <2> QED BY <1>5, <2>1, <2>2, <2>3 DEF Exists, Extends, WritesOK, LineageOK
\* A row that is created under its lock.
<1>6. ASSUME ~Exists(cmd.thread), NEW kind \in {"root", "sideChat"}, NEW p
      PROVE  /\ cmd.id \in Born(kind, p, cmd.id).edits
             /\ Born(kind, p, cmd.id).kind \notin {"absent", "subagent"}
             /\ holder[cmd.thread] = c
             /\ Extends(Born(kind, p, cmd.id), rows[cmd.thread])
  <2>1. rows[cmd.thread] = Absent
    BY <1>2, <1>6 DEF WritesOK, LineageOK
  <2> QED BY <1>3, <1>4, <2>1 DEF Born, Extends, Absent
<1>7. CASE cmd.type = "create"
  <2>1. Writes(cmd, S) = [u \in {cmd.thread} |-> Born("root", NoThread, cmd.id)]
    BY <1>7 DEF Writes, LocksParent
  <2>2. ~Exists(cmd.thread)
    BY <1>7 DEF Acceptable, Exists
  <2> QED BY <1>6, <1>7, <2>1, <2>2 DEF IsNewThread
<1>8. CASE cmd.type = "fork"
  <2>1. Writes(cmd, S) = [u \in {cmd.thread} |-> Born("sideChat", cmd.other, cmd.id)]
    BY <1>8 DEF Writes, LocksParent
  <2>2. ~Exists(cmd.thread)
    BY <1>8 DEF Acceptable, Exists
  <2> QED BY <1>6, <1>8, <2>1, <2>2 DEF IsNewThread
<1>9. CASE cmd.type = "delete"
  <2>1. Writes(cmd, S) = [u \in {cmd.thread} \cup S |-> Deleted(u, cmd.id)]
    BY <1>9 DEF Writes, LocksParent
  <2>2. Exists(cmd.thread)
    BY <1>9 DEF Acceptable, Exists
  <2> QED BY <1>4, <1>5, <2>1, <2>2
<1>10. CASE cmd.type = "delegate"
  <2>1. Writes(cmd, S) =
          [u \in {cmd.thread, cmd.other} |->
              IF u = cmd.other THEN Born("subagent", cmd.thread, cmd.id) ELSE Edited(u, cmd.id)]
    BY <1>10 DEF Writes, LocksParent
  <2>2. Exists(cmd.thread)
    BY <1>10 DEF Acceptable, Exists
  <2>3. CASE t = cmd.other
    BY <1>10, <2>1, <2>2, <2>3 DEF IsNewChild, Born
  <2>4. CASE t # cmd.other
    <3>1. t = cmd.thread /\ row = Edited(t, cmd.id)
      BY <2>1, <2>4
    <3> QED BY <1>4, <1>5, <2>2, <3>1
  <2> QED BY <2>3, <2>4
<1>11. CASE LocksParent(cmd)
  <2>0. cmd.type = "message" /\ rows[cmd.thread].kind = "subagent"
    BY <1>11 DEF LocksParent
  <2>1. Writes(cmd, S) =
          [u \in {cmd.thread, rows[cmd.thread].parent} |-> Edited(u, cmd.id)]
    BY <1>11, <2>0 DEF Writes
  <2>2. Exists(cmd.thread) /\ Exists(rows[cmd.thread].parent)
    BY <1>2, <2>0 DEF Exists, WritesOK, LineageOK
  <2> QED BY <1>4, <1>5, <2>0, <2>1, <2>2
<1>12. CASE cmd.type \in {"edit", "message"} /\ ~LocksParent(cmd)
  <2>1. Writes(cmd, S) = [u \in {cmd.thread} |-> Edited(u, cmd.id)]
    BY <1>12 DEF Writes
  <2>2. Exists(cmd.thread)
    BY <1>12 DEF Acceptable, Exists
  <2> QED BY <1>4, <1>5, <2>1, <2>2
<1> QED BY <1>2, <1>7, <1>8, <1>9, <1>10, <1>11, <1>12 DEF CommandTypes

\* Changing one entry of each variable of the fibers, and locks that only c takes or
\* lets go of.
LEMMA EndsLocal ==
    ASSUME DispatchAssumption, TypeOK, NEW c \in Callers, Ends(c)
    PROVE  /\ Local(c)
           /\ pc'[c] = "idle" /\ chats'[c] = {}
<1>1. DOMAIN plan = Callers
  BY DEF TypeOK, FibersOK
<1> QED BY <1>1 DEF Ends, Goto, Local, DispatchAssumption, TypeOK, FibersOK

\* A call that answers, or has ended, has nothing left to be right about.
LEMMA AnsweringRight ==
    ASSUME TypeOK, NEW c \in Callers, pc'[c] = "answering"
    PROVE  LocksRight(c)' /\ PlanRight(c)'
BY DEF LocksRight, PlanRight, Locked

\* A step that only moves on under the locks.
LEMMA MoveRight ==
    ASSUME TypeOK, WritesOK, NEW c \in Callers, NEW l \in Locked, pc[c] \in Locked,
           Goto(c, l), l # "committing",
           UNCHANGED <<rows, holder, call, locks, chats>>
    PROVE  LocksRight(c)' /\ PlanRight(c)'
<1>1. pc'[c] = l
  BY DEF Goto, TypeOK, FibersOK
<1>2. LocksRight(c)'
  BY <1>1 DEF WritesOK, CallsOK, LocksRight, Claims, Exists, Locked
<1>3. PlanRight(c)'
  BY <1>1 DEF PlanRight
<1> QED BY <1>2, <1>3

\* Every step but a commit.
LEMMA WorkQuiet ==
    ASSUME DispatchAssumption, TypeOK, WritesOK, NEW c \in Callers,
           Work(c), ~commitCommand(c)
    PROVE  WritesOK'
<1>0. /\ pc \in [Callers -> {"idle", "routing", "locking", "answering"} \cup Locked]
      /\ pc[c] # "idle" => call[c] \in Commands
      /\ DOMAIN plan = Callers
  BY DEF TypeOK, FibersOK, ControlOK, Controlled
<1>1. ASSUME UNCHANGED stored, Local(c), LocksRight(c)', PlanRight(c)'
      PROVE  WritesOK'
  BY <1>1, QuietStep DEF stored
<1>2. CASE Route(c)
  <2>1. Local(c) /\ UNCHANGED stored
    BY <1>0, <1>2 DEF Route, Answering, Goto, Local, TypeOK, FibersOK
  <2>2. CASE Unroutable(call[c])
    <3>1. pc'[c] = "answering"
      BY <1>0, <1>2, <2>2 DEF Route, Answering, Goto
    <3> QED BY <1>1, <2>1, <3>1, AnsweringRight
  <2>3. CASE ~Unroutable(call[c])
    <3>1. /\ pc'[c] = "locking" /\ locks'[c] = RouteOf(call[c])
          /\ UNCHANGED <<rows, call, chats, holder>>
          /\ pc[c] = "routing"
      BY <1>0, <1>2, <2>3 DEF Route, Goto, TypeOK, FibersOK, stored
    <3>2. /\ call[c].thread \in Range(RouteOf(call[c]))
          /\ call[c].type = "message" /\ rows[call[c].thread].kind = "subagent" =>
                rows[call[c].thread].parent \in Range(RouteOf(call[c]))
      BY DEF RouteOf, Range, LocksParent, LocksSource
    <3>3. /\ call[c].thread \in Threads
          /\ rows[call[c].thread].kind = "subagent" => rows[call[c].thread].parent \in Threads
      BY <1>0, <3>1, CommandType, RowType DEF TypeOK
    <3>4. call[c].type = "message" => Exists(call[c].thread)
      BY <2>3 DEF Unroutable, Exists
    <3>5. chats[c] = {}
      BY <3>1 DEF WritesOK, CallsOK, LocksRight
    <3>6. LocksRight(c)' /\ PlanRight(c)'
      BY <3>1, <3>2, <3>3, <3>4, <3>5 DEF LocksRight, PlanRight, Claims, Exists
    <3> QED BY <1>1, <2>1, <3>6
  <2> QED BY <2>2, <2>3
<1>3. CASE Lock(c)
  <2>1. /\ locks[c] \in Seq(Threads) /\ locks[c] # <<>>
        /\ holder[Head(locks[c])] = NoCaller
        /\ pc[c] = "locking"
        /\ UNCHANGED <<stored, call, chats, plan>>
    BY <1>3 DEF Lock, TypeOK, FibersOK
  <2>2. /\ Head(locks[c]) \in Threads
        /\ \A t \in Range(locks[c]) : t = Head(locks[c]) \/ t \in Range(Tail(locks[c]))
    BY <2>1, TailType
  <2>3. /\ pc'[c] \in {"locking", "listing", "checking"}
        /\ locks'[c] = Tail(locks[c])
        /\ holder'[Head(locks[c])] = c
        /\ \A t \in Threads \ {Head(locks[c])} : holder'[t] = holder[t]
    BY <1>0, <1>3, <2>2 DEF Lock, Goto, TypeOK, FibersOK
  <2>4. Local(c)
    BY <1>0, <1>3, <2>1, <2>2, <2>3
    DEF Lock, Goto, Local, TypeOK, FibersOK, DispatchAssumption
  <2>5. Claims(c) \subseteq Claims(c)'
    BY <2>2, <2>3 DEF Claims
  <2>6. LocksRight(c)' /\ PlanRight(c)'
    BY <2>1, <2>3, <2>5 DEF stored, WritesOK, CallsOK, LocksRight, PlanRight, Exists
  <2> QED BY <1>1, <2>1, <2>4, <2>6
<1>4. CASE ListSideChats(c)
  <2> DEFINE live == liveSideChatIds(call[c].thread)
  <2>1. /\ pc[c] = "listing" /\ UNCHANGED <<stored, holder, call, plan>>
        /\ chats'[c] = live
        /\ pc'[c] \in {"checking", "locking"}
    BY <1>0, <1>4 DEF ListSideChats, Goto, TypeOK, FibersOK
  <2>2. PICK order \in Bijection(1..Cardinality(live), live) :
            locks' = [locks EXCEPT ![c] = order]
    BY <1>4 DEF ListSideChats
  <2>3. locks'[c] = order /\ live \subseteq Range(order)
    <3>1. locks'[c] = order
      BY <2>2 DEF TypeOK, FibersOK
    <3>2. live \subseteq Range(order)
      BY DEF Bijection, Injection, Surjection, Range
    <3> QED BY <3>1, <3>2
  <2>4. Local(c)
    BY <1>0, <1>4, <2>1, <2>2 DEF ListSideChats, Goto, Local, TypeOK, FibersOK
  <2>5. locks[c] = <<>>
    BY <2>1 DEF TypeOK, ControlOK, Controlled, Locked
  <2>6. Claims(c) \subseteq Claims(c)' /\ live \subseteq Claims(c)'
    <3>1. Range(<<>>) = {}
      BY DEF Range
    <3> QED BY <2>1, <2>3, <2>5, <3>1 DEF Claims, liveSideChatIds
  <2>7. \A t \in live : Exists(t)
    BY DEF liveSideChatIds, Exists
  <2>8. LocksRight(c)' /\ PlanRight(c)'
    BY <2>1, <2>6, <2>7 DEF stored, WritesOK, CallsOK, LocksRight, PlanRight, Exists, Locked
  <2> QED BY <1>1, <2>1, <2>4, <2>8
<1>5. CASE CheckReceipt(c)
  <2>1. /\ pc[c] = "checking" /\ UNCHANGED <<stored, holder, call, locks, chats, plan>>
        /\ Goto(c, "planning") \/ Goto(c, "answering")
    BY <1>5 DEF CheckReceipt, Answering
  <2>2. Local(c)
    BY <1>0, <2>1 DEF Goto, Local
  <2>3. CASE Goto(c, "planning")
    BY <1>1, <2>1, <2>2, <2>3, MoveRight DEF Locked, stored
  <2>4. CASE Goto(c, "answering")
    BY <1>0, <1>1, <2>1, <2>2, <2>4, AnsweringRight DEF Goto
  <2> QED BY <2>1, <2>3, <2>4
<1>6. CASE Decide(c)
  <2>1. /\ pc[c] = "planning" /\ UNCHANGED <<stored, holder, call, locks, chats>>
        /\ Local(c)
    BY <1>0, <1>6 DEF Decide, Accept, Decline, Refuse, Answering, Goto, Local
  <2>2. CASE Refuse(c)
    <3>1. pc'[c] = "answering"
      BY <1>0, <2>2 DEF Refuse, Answering, Goto
    <3> QED BY <1>1, <2>1, <3>1, AnsweringRight
  <2>3. CASE Decline(c)
    BY <1>1, <2>1, <2>3, MoveRight DEF Decline, Locked, stored
  <2>4. CASE Accept(c) /\ call[c].type = "settle"
    BY <1>1, <2>1, <2>4, MoveRight DEF Accept, Locked, stored
  <2>5. CASE Accept(c) /\ call[c].type # "settle"
    <3>1. /\ pc'[c] = "committing" /\ plan'[c] = Writes(call[c], chats[c])
          /\ Acceptable(call[c])
      BY <1>0, <2>5 DEF Accept, Goto
    <3>2. LocksRight(c)'
      BY <2>1, <3>1 DEF stored, WritesOK, CallsOK, LocksRight, Claims, Exists, Locked
    <3>3. PlanRight(c)'
      BY <2>1, <2>5, <3>1, WritesRight
      DEF stored, PlanRight, IsNewChild, IsNewThread, Exists
    <3> QED BY <1>1, <2>1, <3>2, <3>3
  <2> QED BY <1>6, <2>2, <2>3, <2>4, <2>5 DEF Decide
<1>7. CASE commitRejectedCommand(c) \/ NoteNothingDone(c)
  <2>1. /\ UNCHANGED <<rows, log, holder, call, locks, chats, plan>> /\ Goto(c, "answering")
        /\ pc[c] # "idle"
    BY <1>7 DEF commitRejectedCommand, NoteNothingDone, Answering
  <2>2. pc'[c] = "answering" /\ Local(c)
    BY <1>0, <2>1 DEF Goto, Local
  <2>3. \A id \in Ids : receipts[id] # NoReceipt => receipts'[id] # NoReceipt
    <3>1. PICK r : insertIfAbsent(c, r)
      BY <1>7 DEF commitRejectedCommand, NoteNothingDone
    <3> QED BY <3>1 DEF insertIfAbsent, TypeOK, StoredOK
  <2> QED BY <2>1, <2>2, <2>3, AnsweringRight, QuietStep
<1>8. CASE Answer(c)
  <2>1. Local(c) /\ pc'[c] = "idle" /\ chats'[c] = {} /\ UNCHANGED stored
    BY <1>8, EndsLocal DEF Answer, Ends
  <2>2. LocksRight(c)' /\ PlanRight(c)'
    BY <2>1 DEF LocksRight, PlanRight, Locked
  <2> QED BY <1>1, <2>1, <2>2
<1> QED
  BY <1>2, <1>3, <1>4, <1>5, <1>6, <1>7, <1>8 DEF Work

\* The rows that a commit writes extend what they were, the delegated child's too:
\* its command has no receipt, so the child does not exist.
LEMMA CommitExtends ==
    ASSUME DispatchAssumption, TypeOK, WritesOK, NEW c \in Callers, pc[c] = "committing",
           receipts[call[c].id] = NoReceipt, NEW t \in DOMAIN plan[c]
    PROVE  Extends(plan[c][t], rows[t])
<1>1. CASE IsNewChild(c, t)
  <2>1. call[c] \in Commands /\ t \in Threads
    BY DEF TypeOK, FibersOK, ControlOK, Controlled
  <2>2. rows[t] = Absent
    BY <1>1, <2>1 DEF IsNewChild, WritesOK, ChildrenUnborn, LineageOK
  <2> QED BY <2>2 DEF Extends, Absent
<1>2. CASE ~IsNewChild(c, t)
  BY <1>2 DEF WritesOK, CallsOK, PlanRight
<1> QED BY <1>1, <1>2

\* Nobody but the command that creates it creates a delegated child, or delegates to it.
LEMMA ChildIsItsOwn ==
    ASSUME DispatchAssumption, NEW cmd \in Commands, NEW cmd2 \in Commands,
           cmd.type = "delegate", cmd2.type \in {"create", "fork", "delegate"},
           cmd.other = cmd2.thread \/ cmd.other = cmd2.other
    PROVE  cmd2 = cmd
BY DEF DispatchAssumption

LEMMA CommitWrites ==
    ASSUME DispatchAssumption, TypeOK, WritesOK, NEW c \in Callers, commitCommand(c),
           receipts[call[c].id] = NoReceipt
    PROVE  WritesOK'
<1> DEFINE cmd == call[c]
<1>1. /\ pc[c] = "committing" /\ pc'[c] = "answering"
      /\ rows' = [t \in Threads |-> IF t \in DOMAIN plan[c] THEN plan[c][t] ELSE rows[t]]
      /\ log' = Append(log, [id |-> cmd.id, threads |-> DOMAIN plan[c]])
      /\ UNCHANGED <<holder, call, locks, chats, plan>>
      /\ \E r \in Receipts : receipts' = [receipts EXCEPT ![cmd.id] = r]
  <2>1. cmd \in Commands /\ cmd.thread \in Threads
    BY CommandType DEF commitCommand, TypeOK, ControlOK, Controlled
  <2>2. Receipt(c, "accepted", Len(log) + 1) \in Receipts
    BY <2>1 DEF Receipt, Receipts, TypeOK, StoredOK
  <2> QED BY <2>2 DEF commitCommand, Answering, Goto, insertIfAbsent, TypeOK, FibersOK
<1>2. cmd \in Commands /\ cmd.id \in Ids /\ DOMAIN plan[c] \subseteq Threads
  BY <1>1, CommandType DEF TypeOK, FibersOK, ControlOK, Controlled
<1>3. /\ \A id \in Ids : receipts[id] # NoReceipt => receipts'[id] # NoReceipt
      /\ receipts'[cmd.id] # NoReceipt
  BY <1>1, <1>2 DEF DispatchAssumption, TypeOK, StoredOK
<1>4. \A t \in DOMAIN plan[c] :
        /\ cmd.id \in plan[c][t].edits
        /\ plan[c][t].kind # "absent"
        /\ plan[c][t].kind = "subagent" => Exists(plan[c][t].parent)
        /\ IsNewChild(c, t) \/ (holder[t] = c /\ (Exists(t) \/ IsNewThread(c, t)))
        /\ plan[c][t] \in Rows
        /\ Extends(plan[c][t], rows[t])
  BY <1>1, CommitExtends DEF WritesOK, CallsOK, PlanRight, TypeOK, FibersOK
<1>5. \A t \in Threads : Extends(rows'[t], rows[t])
  <2>1. \A t \in Threads : t \in DOMAIN plan[c] => rows'[t] = plan[c][t]
    BY <1>1
  <2>2. \A t \in Threads : t \notin DOMAIN plan[c] => rows'[t] = rows[t]
    BY <1>1
  <2> QED BY <1>4, <2>1, <2>2 DEF Extends
<1>6. \A t \in Threads : Exists(t) => rows'[t].kind # "absent"
  BY <1>5 DEF Extends, Exists
<1>7. LineageOK'
  <2> SUFFICES ASSUME NEW t \in Threads
               PROVE  /\ rows'[t].kind = "absent" => rows'[t] = Absent
                      /\ rows'[t].kind = "subagent" => rows'[rows'[t].parent].kind # "absent"
    BY DEF LineageOK, Exists
  <2>1. CASE t \in DOMAIN plan[c]
    <3>1. rows'[t] = plan[c][t] /\ plan[c][t].kind = "subagent" => plan[c][t].parent \in Threads
      BY <1>1, <1>4, <2>1 DEF Rows
    <3> QED BY <1>1, <1>4, <1>6, <2>1, <3>1
  <2>2. CASE t \notin DOMAIN plan[c]
    <3>1. rows'[t] = rows[t]
      BY <1>1, <2>2
    <3>2. rows[t].kind = "subagent" => rows[t].parent \in Threads /\ Exists(rows[t].parent)
      BY <1>2, RowType DEF TypeOK, WritesOK, LineageOK
    <3> QED BY <1>6, <3>1, <3>2 DEF WritesOK, LineageOK, Exists
  <2> QED BY <2>1, <2>2
<1>8. LogOK'
  <2>1. log \in Seq(Commits) /\ Len(log) \in Nat
    BY DEF TypeOK, StoredOK
  <2>2. /\ Len(log') = Len(log) + 1
        /\ \A i \in 1..Len(log) : log'[i] = log[i]
        /\ log'[Len(log) + 1] = [id |-> cmd.id, threads |-> DOMAIN plan[c]]
    BY <1>1, <2>1
  <2>3. \A i \in 1..Len(log) : log[i].id \in Ids /\ log[i].threads \subseteq Threads
    <3>1. \A i \in 1..Len(log) : log[i] \in Commits
      BY <2>1, ElementOfSeq
    <3> QED BY <3>1 DEF Commits
  <2>4. \A i \in 1..Len(log) : receipts[log[i].id] # NoReceipt
    BY DEF WritesOK, LogOK
  <2>5. \A i \in 1..Len(log') : i \in 1..Len(log) \/ i = Len(log) + 1
    BY <2>1, <2>2
  <2>6. AppliedOnce'
    <3>1. \A i \in 1..Len(log) : log[i].id # cmd.id
      BY <2>4
    <3> QED BY <2>2, <2>5, <3>1 DEF WritesOK, LogOK, AppliedOnce
  <2>7. NoLostUpdate'
    <3>1. ASSUME NEW i \in 1..Len(log), NEW t \in log[i].threads
          PROVE  log[i].id \in rows'[t].edits
      <4>1. t \in Threads /\ log[i].id \in rows[t].edits
        BY <2>3, <3>1 DEF WritesOK, LogOK, NoLostUpdate
      <4> QED BY <1>5, <4>1 DEF Extends
    <3>2. \A t \in DOMAIN plan[c] : cmd.id \in rows'[t].edits
      BY <1>1, <1>2, <1>4
    <3> QED BY <2>2, <2>5, <3>1, <3>2 DEF NoLostUpdate
  <2>8. \A i \in 1..Len(log') : receipts'[log'[i].id] # NoReceipt
    BY <1>3, <2>2, <2>3, <2>4, <2>5
  <2> QED BY <2>6, <2>7, <2>8 DEF LogOK
<1>9. ChildrenUnborn'
  <2> SUFFICES ASSUME NEW other \in Commands, other.type = "delegate",
                      receipts'[other.id] = NoReceipt
               PROVE  rows'[other.other].kind = "absent"
    BY DEF ChildrenUnborn, Exists
  <2>1. other.other \in Threads /\ other.id \in Ids /\ other # cmd
    BY <1>3, CommandType
  <2>2. ~Exists(other.other)
    BY <1>3, <2>1 DEF WritesOK, ChildrenUnborn
  <2>3. other.other \notin DOMAIN plan[c]
    BY <1>2, <1>4, <2>1, <2>2, ChildIsItsOwn DEF IsNewChild, IsNewThread
  <2> QED BY <1>1, <2>1, <2>2, <2>3 DEF Exists
<1>10. CallsOK'
  <2>1. LocksRight(c)' /\ PlanRight(c)'
    BY <1>1, AnsweringRight
  <2>2. Local(c)
    BY <1>1 DEF commitCommand, Answering, Goto, Local, TypeOK, FibersOK
  <2>3. ASSUME NEW d \in Callers \ {c}, NEW t \in Threads,
               holder[t] = d, Exists(t) \/ IsNewThread(d, t)
        PROVE  rows'[t] = rows[t]
    <3>1. call[d].type \in {"create", "fork"} => call[d] \in Commands
      BY DEF TypeOK, FibersOK, Idle
    <3>2. t \notin DOMAIN plan[c]
      <4> SUFFICES ASSUME t \in DOMAIN plan[c]
                   PROVE  FALSE
        OBVIOUS
      <4>1. IsNewChild(c, t)
        BY <1>4, <2>3
      <4>2. ~Exists(t)
        BY <1>2, <4>1 DEF IsNewChild, WritesOK, ChildrenUnborn
      <4>3. IsNewThread(d, t)
        BY <2>3, <4>2
      <4>4. call[d] = cmd
        BY <1>2, <3>1, <4>1, <4>3, ChildIsItsOwn DEF IsNewChild, IsNewThread
      <4> QED BY <4>1, <4>3, <4>4 DEF IsNewChild, IsNewThread
    <3> QED BY <1>1, <3>2
  <2>4. \A d \in Callers \ {c} : LocksRight(d)' /\ PlanRight(d)'
    BY <1>5, <2>2, <2>3, OthersRight DEF WritesOK
  <2> QED BY <2>1, <2>4 DEF CallsOK
<1> QED BY <1>7, <1>8, <1>9, <1>10 DEF WritesOK

\* The loser of a race for a receipt writes nothing.
LEMMA CommitLoses ==
    ASSUME DispatchAssumption, TypeOK, WritesOK, NEW c \in Callers, commitCommand(c),
           receipts[call[c].id] # NoReceipt
    PROVE  WritesOK'
<1>1. /\ UNCHANGED <<stored, holder, call, locks, chats, plan>>
      /\ Goto(c, "answering")
  <2>1. UNCHANGED <<rows, log, holder, call, locks, chats, plan>> /\ Goto(c, "answering")
    BY DEF commitCommand, Answering
  <2>2. UNCHANGED receipts
    BY DEF commitCommand, insertIfAbsent
  <2> QED BY <2>1, <2>2 DEF stored
<1>2. pc'[c] = "answering" /\ Local(c)
  BY <1>1 DEF Goto, Local, TypeOK, FibersOK
<1> QED BY <1>1, <1>2, AnsweringRight, QuietStep DEF stored

LEMMA WritesStep ==
    ASSUME DispatchAssumption, TypeOK, WritesOK, [Next]_vars
    PROVE  WritesOK'
<1>1. ASSUME NEW c \in Callers, Work(c)
      PROVE  WritesOK'
  BY <1>1, WorkQuiet, CommitWrites, CommitLoses
<1>2. ASSUME NEW c \in Callers, Call(c)
      PROVE  WritesOK'
  <2>1. /\ pc[c] = "idle" /\ pc'[c] = "routing"
        /\ UNCHANGED <<stored, holder, locks, chats, plan>> /\ Local(c)
    BY <1>2 DEF Call, Goto, Local, TypeOK, FibersOK
  <2>2. LocksRight(c)' /\ PlanRight(c)'
    BY <2>1 DEF WritesOK, CallsOK, LocksRight, PlanRight, Locked
  <2> QED BY <2>1, <2>2, QuietStep DEF stored
<1>3. ASSUME NEW c \in Callers, Interrupt(c)
      PROVE  WritesOK'
  <2>1. Local(c) /\ pc'[c] = "idle" /\ chats'[c] = {} /\ UNCHANGED stored
    BY <1>3, EndsLocal DEF Interrupt, Ends
  <2>2. LocksRight(c)' /\ PlanRight(c)'
    BY <2>1 DEF LocksRight, PlanRight, Locked
  <2> QED BY <2>1, <2>2, QuietStep DEF stored
<1>4. CASE UNCHANGED vars
  BY <1>4 DEF vars, stored, fiber, WritesOK, LineageOK, LogOK, AppliedOnce, NoLostUpdate,
              ChildrenUnborn, CallsOK, LocksRight, PlanRight, Claims, Exists, IsNewChild,
              IsNewThread
<1> QED BY <1>1, <1>2, <1>3, <1>4 DEF Next

LEMMA WritesInit ==
    ASSUME DispatchAssumption, Init
    PROVE  WritesOK
<1>1. LineageOK
  BY DEF Init, LineageOK, Exists, Root, Absent
<1>2. LogOK
  BY DEF Init, LogOK, AppliedOnce, NoLostUpdate
<1>3. ChildrenUnborn
  BY DEF Init, ChildrenUnborn, Exists, Absent, DispatchAssumption
<1>4. CallsOK
  BY DEF Init, CallsOK, LocksRight, PlanRight, Locked
<1> QED BY <1>1, <1>2, <1>3, <1>4 DEF WritesOK

LEMMA WritesInvariant == Spec => [](TypeOK /\ WritesOK)
<1>1. Init => TypeOK /\ WritesOK
  BY TypeInit, WritesInit, DispatchAssumption
<1>2. TypeOK /\ WritesOK /\ [Next]_vars => (TypeOK /\ WritesOK)'
  BY TypeStep, WritesStep, DispatchAssumption
<1> QED BY <1>1, <1>2, PTL DEF Spec

\* A command id is executed at most once, however many callers send it, to whichever
\* threads, and whatever is interrupted (EventSink.ts, commitCommand).
THEOREM ExecutedOnce == Spec => []AppliedOnce
<1>1. WritesOK => AppliedOnce
  BY DEF WritesOK, LogOK
<1> QED BY <1>1, WritesInvariant, PTL

\* No commit loses what another has written, though rows are written in full from
\* what was read some steps before (Orchestrator.ts, dispatchWithReceipt).
THEOREM UpdatesKept == Spec => []NoLostUpdate
<1>1. WritesOK => NoLostUpdate
  BY DEF WritesOK, LogOK
<1> QED BY <1>1, WritesInvariant, PTL

LEMMA StepExtends ==
    ASSUME DispatchAssumption, TypeOK, WritesOK, [Next]_vars
    PROVE  \A t \in Threads : Extends(rows'[t], rows[t])
<1>1. CASE UNCHANGED rows
  BY <1>1, RowsKept
<1>2. CASE ~UNCHANGED rows
  <2>1. PICK c \in Callers : Work(c)
    BY <1>2 DEF Next, vars, stored, Call, Interrupt, Ends
  <2>2. commitCommand(c) /\ receipts[call[c].id] = NoReceipt
    BY <1>2, <2>1
    DEF Work, stored, Route, Lock, ListSideChats, CheckReceipt, Decide, Accept, Decline,
        Refuse, commitRejectedCommand, NoteNothingDone, commitCommand, Answer, Ends
  <2>3. /\ pc[c] = "committing"
        /\ rows' = [t \in Threads |-> IF t \in DOMAIN plan[c] THEN plan[c][t] ELSE rows[t]]
    BY <2>2 DEF commitCommand
  <2>4. \A t \in DOMAIN plan[c] : Extends(plan[c][t], rows[t])
    BY <2>2, <2>3, CommitExtends
  <2>5. \A t \in Threads : t \in DOMAIN plan[c] => rows'[t] = plan[c][t]
    BY <2>3
  <2>6. \A t \in Threads : t \notin DOMAIN plan[c] => rows'[t] = rows[t]
    BY <2>3
  <2> QED BY <2>4, <2>5, <2>6 DEF Extends
<1> QED BY <1>1, <1>2

\* A deleted thread stays deleted, and its lineage stays what it was: no plan made
\* before a deletion is committed after it (Orchestrator.ts, thread.delete).
THEOREM DeletedForGood == Spec => DeletionIsFinal
<1> DEFINE Final == \A t \in Threads :
                       /\ rows[t].deleted => rows'[t].deleted
                       /\ rows[t].kind # "absent" => /\ rows'[t].kind = rows[t].kind
                                                     /\ rows'[t].parent = rows[t].parent
<1>1. TypeOK /\ WritesOK /\ [Next]_vars => [Final]_vars
  BY StepExtends, DispatchAssumption DEF Extends
<1> HIDE DEF Final
<1>2. Spec => [][Final]_vars
  BY <1>1, WritesInvariant, PTL DEF Spec
<1> QED BY <1>2 DEF Final, DeletionIsFinal

-----------------------------------------------------------------------------
(***************************************************************************)
(* No side chat outlives its parent.  A fork holds the lock of its source  *)
(* when it commits, or is going to be rejected (ForkRight); a deletion     *)
(* that holds its thread knows every live side chat of it (CascadeRight);  *)
(* and only a deletion deletes, only a fork makes a side chat (FamilyPlan).*)
(***************************************************************************)
SideChatsOfRoots ==
    \A t \in Threads : rows[t].kind = "sideChat" => rows[rows[t].parent].kind = "root"

ForkRight(c) ==
    call[c].type = "fork" =>
        /\ Exists(call[c].other)
        /\ pc[c] \in {"locking"} \cup Locked =>
              \/ call[c].other \in Claims(c)
              \/ call[c].other = call[c].thread
              \/ rows[call[c].other].kind = "sideChat"
              \/ Exists(call[c].thread)
        /\ pc[c] = "committing" =>
              /\ holder[call[c].other] = c
              /\ rows[call[c].other].kind = "root"
              /\ ~rows[call[c].other].deleted

CascadeRight(c) ==
    /\ \A t \in chats[c] : t \in Threads /\ rows[t].kind = "sideChat"
    /\ call[c].type = "delete" =>
          /\ pc[c] = "locking" => holder[call[c].thread] = c \/ locks[c] = <<call[c].thread>>
          /\ /\ pc[c] \in {"locking", "checking", "planning", "committing"}
             /\ holder[call[c].thread] = c
             => liveSideChatIds(call[c].thread) \subseteq chats[c]

Deletes(c) ==
    /\ DOMAIN plan[c] = {call[c].thread} \cup chats[c]
    /\ \A t \in DOMAIN plan[c] : plan[c][t].deleted

KeepsAlive(c) ==
    \A t \in DOMAIN plan[c] : plan[c][t].deleted => rows[t].deleted

FamilyPlan(c) ==
    pc[c] = "committing" =>
        /\ IF call[c].type = "delete" THEN Deletes(c) ELSE KeepsAlive(c)
        /\ \A t \in DOMAIN plan[c] :
              plan[c][t].kind = "sideChat" =>
                  \/ Exists(t)
                  \/ call[c].type = "fork" /\ plan[c][t].parent = call[c].other

CallInFamily(c) == ForkRight(c) /\ CascadeRight(c) /\ FamilyPlan(c)

FamilyOK ==
    /\ SideChatsOfRoots
    /\ NoOrphanSideChat
    /\ \A c \in Callers : CallInFamily(c)

\* Clients fork threads that they have seen.
ForksFromSeen ==
    \A c \in Callers :
        call'[c] # call[c] /\ call'[c].type = "fork" => Exists(call'[c].other)

\* A call is of a command from when it is sent to when it ends.
LEMMA CallIsCommand ==
    ASSUME DispatchAssumption, TypeOK, NEW c \in Callers,
           pc[c] # "idle" \/ call[c].type # "none"
    PROVE  /\ call[c] \in Commands /\ call[c].id \in Ids /\ call[c].thread \in Threads
           /\ call[c].type \in CommandTypes
           /\ call[c].type = "fork" => call[c].other \in Threads
<1>1. call[c] \in Commands
  BY DEF TypeOK, FibersOK, ControlOK, Controlled, Idle
<1> QED BY <1>1, CommandType

\* Under its locks a call holds what it claims.
LEMMA ClaimsHeld ==
    ASSUME TypeOK, NEW c \in Callers, pc[c] \in Locked
    PROVE  \A t \in Claims(c) : t \in Threads /\ holder[t] = c
<1>1. locks[c] = <<>>
  BY DEF TypeOK, ControlOK, Controlled
<1> QED BY <1>1 DEF Claims, Range

\* A step of c that makes no side chat of a thread that d holds.
LEMMA FamilyOther ==
    ASSUME DispatchAssumption, TypeOK, FamilyOK, NEW c \in Callers, Local(c),
           NEW d \in Callers \ {c},
           \A t \in Threads : Extends(rows'[t], rows[t]),
           \A t \in Threads : holder[t] = d /\ Exists(t) => rows'[t] = rows[t],
           \A t \in Threads :
              rows'[t].kind = "sideChat" /\ ~Exists(t) => holder[rows'[t].parent] # d
    PROVE  CallInFamily(d)'
<1>1. /\ pc'[d] = pc[d] /\ call'[d] = call[d] /\ chats'[d] = chats[d] /\ plan'[d] = plan[d]
      /\ locks'[d] = locks[d]
      /\ \A t \in Threads : holder'[t] = d <=> holder[t] = d
  BY DEF Local
<1>2. Claims(d)' = Claims(d) /\ Claims(d) \subseteq Threads
  BY <1>1 DEF Claims
<1>3. \A t \in Threads :
        Exists(t) => /\ Exists(t)'
                     /\ rows'[t].kind = rows[t].kind
                     /\ rows'[t].parent = rows[t].parent
                     /\ rows[t].deleted => rows'[t].deleted
  BY DEF Extends, Exists
<1>4. call[d].type # "none" => call[d].thread \in Threads
  BY CallIsCommand
<1>5. call[d].type = "fork" => call[d].other \in Threads
  BY CallIsCommand
<1>6. CallInFamily(d)
  BY DEF FamilyOK
<1>7. ForkRight(d)'
  <2> SUFFICES ASSUME call[d].type = "fork"
               PROVE  /\ rows'[call[d].other].kind # "absent"
                      /\ pc[d] \in {"locking"} \cup Locked =>
                            \/ call[d].other \in Claims(d)
                            \/ call[d].other = call[d].thread
                            \/ rows'[call[d].other].kind = "sideChat"
                            \/ rows'[call[d].thread].kind # "absent"
                      /\ pc[d] = "committing" =>
                            /\ holder'[call[d].other] = d
                            /\ rows'[call[d].other].kind = "root"
                            /\ ~rows'[call[d].other].deleted
    BY <1>1, <1>2 DEF ForkRight, Exists
  <2>1. ForkRight(d) /\ call[d].other \in Threads /\ call[d].thread \in Threads
    BY <1>4, <1>5, <1>6 DEF CallInFamily
  <2>2. /\ rows'[call[d].other].kind # "absent"
        /\ rows[call[d].other].kind = "sideChat" => rows'[call[d].other].kind = "sideChat"
    BY <1>3, <2>1 DEF ForkRight, Exists
  <2>3. Exists(call[d].thread) => rows'[call[d].thread].kind # "absent"
    BY <1>3, <2>1 DEF Exists
  <2>4. ASSUME pc[d] = "committing"
        PROVE  /\ holder'[call[d].other] = d
               /\ rows'[call[d].other] = rows[call[d].other]
    BY <1>1, <2>1, <2>4 DEF ForkRight
  <2> QED BY <2>1, <2>2, <2>3, <2>4 DEF ForkRight
<1>8. CascadeRight(d)'
  <2>1. ASSUME NEW t \in chats[d]
        PROVE  t \in Threads /\ rows'[t].kind = "sideChat"
    <3>1. t \in Threads /\ rows[t].kind = "sideChat"
      BY <1>6 DEF CallInFamily, CascadeRight
    <3>2. Exists(t)
      BY <3>1 DEF Exists
    <3> QED BY <1>3, <3>1, <3>2
  <2>2. ASSUME call[d].type = "delete", holder[call[d].thread] = d,
               pc[d] \in {"locking", "checking", "planning", "committing"},
               NEW t \in liveSideChatIds(call[d].thread)'
        PROVE  t \in chats[d]
    <3>1. /\ t \in Threads /\ rows'[t].kind = "sideChat"
          /\ rows'[t].parent = call[d].thread /\ ~rows'[t].deleted
      BY <1>1, <2>2 DEF liveSideChatIds
    <3>2. Exists(t)
      BY <2>2, <3>1
    <3>3. rows'[t].kind = rows[t].kind /\ rows'[t].parent = rows[t].parent /\ ~rows[t].deleted
      BY <1>3, <3>1, <3>2
    <3>4. t \in liveSideChatIds(call[d].thread)
      BY <3>1, <3>3 DEF liveSideChatIds
    <3> QED BY <1>6, <2>2, <3>4 DEF CallInFamily, CascadeRight
  <2>3. call[d].type = "delete" /\ pc[d] = "locking" =>
            holder'[call[d].thread] = d \/ locks'[d] = <<call[d].thread>>
    BY <1>1, <1>4, <1>6 DEF CallInFamily, CascadeRight
  <2> QED BY <1>1, <1>4, <2>1, <2>2, <2>3 DEF CascadeRight
<1>9. FamilyPlan(d)'
  <2>1. DOMAIN plan[d] \subseteq Threads
    BY DEF TypeOK, FibersOK
  <2>2. Deletes(d)' <=> Deletes(d)
    BY <1>1 DEF Deletes
  <2>3. KeepsAlive(d) => KeepsAlive(d)'
    <3> SUFFICES ASSUME KeepsAlive(d), NEW t \in DOMAIN plan[d], plan[d][t].deleted
                 PROVE  rows'[t].deleted
      BY <1>1 DEF KeepsAlive
    <3> QED BY <2>1 DEF KeepsAlive, Extends
  <2>4. \A t \in DOMAIN plan[d] : Exists(t) => Exists(t)'
    BY <1>3, <2>1
  <2> QED BY <1>1, <1>6, <2>2, <2>3, <2>4 DEF CallInFamily, FamilyPlan
<1> QED BY <1>7, <1>8, <1>9 DEF CallInFamily

\* A step that writes no row.
LEMMA FamilyQuiet ==
    ASSUME DispatchAssumption, TypeOK, FamilyOK, NEW c \in Callers, Local(c),
           UNCHANGED rows, CallInFamily(c)'
    PROVE  FamilyOK'
<1>1. \A d \in Callers \ {c} : CallInFamily(d)'
  <2>1. \A t \in Threads : rows'[t].kind = "sideChat" => Exists(t)
    BY DEF Exists
  <2> QED BY <2>1, FamilyOther, RowsKept
<1>2. (SideChatsOfRoots /\ NoOrphanSideChat)'
  BY DEF FamilyOK, SideChatsOfRoots, NoOrphanSideChat
<1> QED BY <1>1, <1>2 DEF FamilyOK
\* A call that answers writes nothing more.
LEMMA FamilyAnswering ==
    ASSUME DispatchAssumption, TypeOK, FamilyOK, NEW c \in Callers,
           \A t \in Threads : Extends(rows'[t], rows[t]),
           pc[c] # "idle", pc'[c] = "answering", UNCHANGED <<call, chats>>
    PROVE  CallInFamily(c)'
<1>1. CallInFamily(c)
  BY DEF FamilyOK
<1>2. call[c].type = "fork" => call[c].other \in Threads
  BY CallIsCommand
<1>3. ForkRight(c)'
  BY <1>1, <1>2 DEF CallInFamily, ForkRight, Exists, Extends, Locked
<1>4. CascadeRight(c)'
  <2>1. ASSUME NEW t \in chats[c]
        PROVE  t \in Threads /\ rows'[t].kind = "sideChat"
    BY <1>1 DEF CallInFamily, CascadeRight, Extends
  <2> QED BY <2>1 DEF CascadeRight
<1>5. FamilyPlan(c)'
  BY DEF FamilyPlan
<1> QED BY <1>3, <1>4, <1>5 DEF CallInFamily

\* A call that goes on to decide, or to record that it has nothing to write.
LEMMA FamilyMove ==
    ASSUME DispatchAssumption, TypeOK, FamilyOK, NEW c \in Callers,
           pc[c] \in {"checking", "planning"}, pc'[c] \in {"planning", "rejecting", "noting"},
           UNCHANGED <<rows, holder, call, locks, chats>>
    PROVE  CallInFamily(c)'
<1>1. CallInFamily(c) /\ Claims(c)' = Claims(c)
  BY DEF FamilyOK, Claims
<1>2. ForkRight(c)'
  BY <1>1 DEF CallInFamily, ForkRight, Exists, Locked
<1>3. CascadeRight(c)'
  BY <1>1 DEF CallInFamily, CascadeRight, liveSideChatIds
<1>4. FamilyPlan(c)'
  BY DEF FamilyPlan
<1> QED BY <1>2, <1>3, <1>4 DEF CallInFamily

\* A call that has ended.
LEMMA FamilyEnds ==
    ASSUME DispatchAssumption, TypeOK, NEW c \in Callers, Ends(c)
    PROVE  CallInFamily(c)'
<1>1. pc'[c] = "idle" /\ chats'[c] = {} /\ call'[c] = Idle
  BY DEF Ends, Goto, TypeOK, FibersOK
<1> QED BY <1>1 DEF CallInFamily, ForkRight, CascadeRight, FamilyPlan, Idle

\* What a command plans: a deletion deletes its thread and the side chats it has
\* locked; nothing else deletes, and only a fork makes a side chat, of its source.
LEMMA WritesFamily ==
    ASSUME DispatchAssumption, TypeOK, NEW cmd \in Commands, NEW S \in SUBSET Threads
    PROVE  /\ cmd.type = "delete" =>
                 /\ DOMAIN Writes(cmd, S) = {cmd.thread} \cup S
                 /\ \A t \in DOMAIN Writes(cmd, S) : Writes(cmd, S)[t].deleted
           /\ cmd.type # "delete" =>
                 \A t \in DOMAIN Writes(cmd, S) :
                    Writes(cmd, S)[t].deleted => rows[t].deleted
           /\ \A t \in DOMAIN Writes(cmd, S) :
                 Writes(cmd, S)[t].kind = "sideChat" =>
                    \/ Exists(t)
                    \/ cmd.type = "fork" /\ Writes(cmd, S)[t].parent = cmd.other
<1>1. /\ cmd.id \in Ids /\ cmd.thread \in Threads /\ cmd.type \in CommandTypes
      /\ cmd.type \in {"fork", "delegate"} => cmd.other \in Threads
  BY CommandType
<1>2. ASSUME NEW t \in Threads
      PROVE  /\ Edited(t, cmd.id).deleted = rows[t].deleted
             /\ Edited(t, cmd.id).kind = rows[t].kind
             /\ Deleted(t, cmd.id).deleted
             /\ Deleted(t, cmd.id).kind = rows[t].kind
  <2>1. rows[t] \in Rows
    BY DEF TypeOK, StoredOK
  <2>2. Edited(t, cmd.id).deleted = rows[t].deleted /\ Edited(t, cmd.id).kind = rows[t].kind
    BY <2>1 DEF Edited, Rows
  <2>3. Deleted(t, cmd.id).deleted /\ Deleted(t, cmd.id).kind = rows[t].kind
    BY <2>1 DEF Edited, Deleted, Rows
  <2> QED BY <2>2, <2>3
<1>3. CASE cmd.type = "create"
  <2>1. Writes(cmd, S) = [t \in {cmd.thread} |-> Born("root", NoThread, cmd.id)]
    BY <1>3 DEF Writes, LocksParent
  <2> QED BY <1>3, <2>1 DEF Born
<1>4. CASE cmd.type = "fork"
  <2>1. Writes(cmd, S) = [t \in {cmd.thread} |-> Born("sideChat", cmd.other, cmd.id)]
    BY <1>4 DEF Writes, LocksParent
  <2> QED BY <1>4, <2>1 DEF Born
<1>5. CASE cmd.type = "delete"
  <2>1. Writes(cmd, S) = [t \in {cmd.thread} \cup S |-> Deleted(t, cmd.id)]
    BY <1>5 DEF Writes, LocksParent
  <2>2. \A t \in DOMAIN Writes(cmd, S) : t \in Threads
    BY <1>1, <2>1
  <2> QED BY <1>2, <1>5, <2>1, <2>2 DEF Exists
<1>6. CASE cmd.type = "delegate"
  <2>1. Writes(cmd, S) = [t \in {cmd.thread, cmd.other} |->
                IF t = cmd.other THEN Born("subagent", cmd.thread, cmd.id) ELSE Edited(t, cmd.id)]
    BY <1>6 DEF Writes, LocksParent
  <2>2. /\ Born("subagent", cmd.thread, cmd.id).kind = "subagent"
        /\ Born("subagent", cmd.thread, cmd.id).deleted = FALSE
    BY DEF Born
  <2> QED BY <1>1, <1>2, <1>6, <2>1, <2>2 DEF Exists
<1>7. CASE LocksParent(cmd)
  <2>1. cmd.type = "message" /\ rows[cmd.thread].parent \in Threads
    BY <1>1, <1>7, RowType DEF LocksParent, TypeOK
  <2>2. Writes(cmd, S) =
          [t \in {cmd.thread, rows[cmd.thread].parent} |-> Edited(t, cmd.id)]
    BY <1>7, <2>1 DEF Writes
  <2> QED BY <1>1, <1>2, <2>1, <2>2 DEF Exists
<1>8. CASE cmd.type = "settle"
  <2>1. Writes(cmd, S) = NoPlan
    BY <1>8 DEF Writes, LocksParent
  <2> QED BY <1>8, <2>1 DEF NoPlan
<1>9. CASE cmd.type \in {"edit", "message"} /\ ~LocksParent(cmd)
  <2>1. Writes(cmd, S) = [t \in {cmd.thread} |-> Edited(t, cmd.id)]
    BY <1>9 DEF Writes
  <2> QED BY <1>1, <1>2, <1>9, <2>1 DEF Exists
<1> QED BY <1>1, <1>3, <1>4, <1>5, <1>6, <1>7, <1>8, <1>9 DEF CommandTypes

\* Of the other calls a step changes nothing.
LEMMA WorkLocal ==
    ASSUME DispatchAssumption, TypeOK, NEW c \in Callers, Work(c)
    PROVE  Local(c)
<1>1. DOMAIN plan = Callers
  BY DEF TypeOK, FibersOK
<1>2. CASE Lock(c)
  <2>1. locks[c] \in Seq(Threads) /\ locks[c] # <<>>
    BY <1>2 DEF Lock, TypeOK, FibersOK
  <2>2. Head(locks[c]) \in Threads
    BY <2>1, TailType
  <2> QED BY <1>1, <1>2, <2>2
    DEF Lock, Goto, Local, TypeOK, FibersOK, DispatchAssumption
<1>3. CASE Route(c) \/ ListSideChats(c)
  BY <1>1, <1>3 DEF Route, ListSideChats, Answering, Goto, Local, TypeOK, FibersOK
<1>4. CASE CheckReceipt(c)
  <2>1. /\ UNCHANGED <<holder, call, locks, chats, plan>>
        /\ Goto(c, "planning") \/ Goto(c, "answering")
    BY <1>4 DEF CheckReceipt, Answering
  <2> QED BY <2>1 DEF Goto, Local, TypeOK, FibersOK
<1>5. CASE Decide(c)
  BY <1>1, <1>5
  DEF Decide, Accept, Decline, Refuse, Answering, Goto, Local, TypeOK, FibersOK
<1>6. CASE commitRejectedCommand(c) \/ NoteNothingDone(c) \/ commitCommand(c)
  <2>1. /\ UNCHANGED <<holder, call, locks, chats, plan>> /\ Goto(c, "answering")
    BY <1>6 DEF commitRejectedCommand, NoteNothingDone, commitCommand, Answering
  <2> QED BY <2>1 DEF Goto, Local, TypeOK, FibersOK
<1>7. CASE Answer(c)
  BY <1>7, EndsLocal DEF Answer
<1> QED BY <1>2, <1>3, <1>4, <1>5, <1>6, <1>7 DEF Work
\* Every step but a commit.
LEMMA FamilyWork ==
    ASSUME DispatchAssumption, TypeOK, WritesOK, FamilyOK, NEW c \in Callers,
           Work(c), ~commitCommand(c)
    PROVE  FamilyOK'
<1>1. /\ pc \in [Callers -> {"idle", "routing", "locking", "answering"} \cup Locked]
      /\ DOMAIN plan = Callers
      /\ CallInFamily(c)
  BY DEF TypeOK, FibersOK, FamilyOK
<1>2. ASSUME UNCHANGED rows, CallInFamily(c)'
      PROVE  FamilyOK'
  BY <1>2, FamilyQuiet, WorkLocal
<1>3. ASSUME pc[c] # "idle", UNCHANGED <<rows, call, chats>>, Goto(c, "answering")
      PROVE  FamilyOK'
  <2>1. pc'[c] = "answering"
    BY <1>1, <1>3 DEF Goto
  <2>2. \A t \in Threads : Extends(rows'[t], rows[t])
    BY <1>3, RowsKept
  <2> QED BY <1>2, <1>3, <2>1, <2>2, FamilyAnswering
<1>4. ASSUME NEW l \in {"planning", "rejecting", "noting"}, Goto(c, l),
             pc[c] \in {"checking", "planning"},
             UNCHANGED <<rows, holder, call, locks, chats>>
      PROVE  FamilyOK'
  <2>1. pc'[c] \in {"planning", "rejecting", "noting"}
    BY <1>1, <1>4 DEF Goto
  <2> QED BY <1>2, <1>4, <2>1, FamilyMove
<1>5. pc[c] # "idle" => /\ call[c].thread \in Threads
                        /\ call[c].type = "fork" => call[c].other \in Threads
  BY CallIsCommand
<1>6. CASE Route(c)
  <2>1. CASE Unroutable(call[c])
    BY <1>3, <1>6, <2>1 DEF Route, Answering, stored
  <2>2. CASE ~Unroutable(call[c])
    <3>1. /\ pc'[c] = "locking" /\ locks'[c] = RouteOf(call[c])
          /\ UNCHANGED <<rows, call, chats, holder>>
          /\ pc[c] = "routing"
      BY <1>1, <1>6, <2>2 DEF Route, Goto, TypeOK, FibersOK, stored
    <3>2. ForkRight(c)'
      <4>1. \A u \in Threads : u \in Range(RouteOf(call[c])) => u \in Claims(c)'
        BY <3>1 DEF Claims
      <4> SUFFICES ASSUME call[c].type = "fork"
                   PROVE  /\ Exists(call[c].other)
                          /\ \/ call[c].other \in Range(RouteOf(call[c]))
                             \/ call[c].other = call[c].thread
                             \/ rows[call[c].other].kind = "sideChat"
                             \/ Exists(call[c].thread)
        BY <1>5, <3>1, <4>1 DEF ForkRight, Exists
      <4>2. Exists(call[c].other)
        BY <1>1 DEF CallInFamily, ForkRight
      <4>3. CASE LocksSource(call[c])
        BY <4>2, <4>3 DEF RouteOf, Range
      <4>4. CASE ~LocksSource(call[c])
        BY <4>2, <4>4 DEF LocksSource, Exists
      <4> QED BY <4>3, <4>4
    <3>3. CascadeRight(c)'
      <4>1. call[c].type = "delete" => RouteOf(call[c]) = <<call[c].thread>>
        BY DEF RouteOf, LocksSource, LocksParent
      <4>2. holder'[call[c].thread] # c
        BY <1>5, <3>1 DEF TypeOK, ControlOK, Controlled
      <4> QED BY <1>1, <3>1, <4>1, <4>2 DEF CallInFamily, CascadeRight
    <3>4. FamilyPlan(c)'
      BY <3>1 DEF FamilyPlan
    <3> QED BY <1>2, <3>1, <3>2, <3>3, <3>4 DEF CallInFamily
  <2> QED BY <2>1, <2>2
<1>7. CASE Lock(c)
  <2> DEFINE t == Head(locks[c])
  <2>1. /\ locks[c] \in Seq(Threads) /\ locks[c] # <<>>
        /\ holder[t] = NoCaller
        /\ pc[c] = "locking"
        /\ UNCHANGED <<rows, call, chats>>
    BY <1>7 DEF Lock, TypeOK, FibersOK, stored
  <2>2. /\ t \in Threads
        /\ \A u \in Range(locks[c]) : u = t \/ u \in Range(Tail(locks[c]))
    BY <2>1, TailType
  <2>3. /\ pc'[c] \in {"locking", "listing", "checking"}
        /\ locks'[c] = Tail(locks[c])
        /\ holder'[t] = c
        /\ \A u \in Threads \ {t} : holder'[u] = holder[u]
    BY <1>1, <1>7, <2>2 DEF Lock, Goto, TypeOK, FibersOK
  <2>4. Claims(c) \subseteq Claims(c)'
    BY <2>2, <2>3 DEF Claims
  <2>5. ForkRight(c)'
    BY <1>1, <2>1, <2>3, <2>4 DEF CallInFamily, ForkRight, Exists
  <2>6. CascadeRight(c)'
    <3>1. CASE call[c].type = "delete" /\ holder[call[c].thread] = c
      <4>1. call[c].thread # t
        BY <2>1, <3>1 DEF DispatchAssumption
      <4>2. holder'[call[c].thread] = c
        <5>1. call[c].thread \in Threads \ {t}
          BY <1>5, <2>1, <4>1
        <5> HIDE DEF t
        <5> QED BY <2>3, <3>1, <5>1
      <4>3. liveSideChatIds(call[c].thread) \subseteq chats[c]
        BY <1>1, <2>1, <3>1 DEF CallInFamily, CascadeRight
      <4>4. liveSideChatIds(call[c].thread)' = liveSideChatIds(call[c].thread)
        BY <2>1 DEF liveSideChatIds
      <4> QED BY <1>1, <2>1, <3>1, <4>2, <4>3, <4>4 DEF CallInFamily, CascadeRight
    <3>2. CASE call[c].type = "delete" /\ holder[call[c].thread] # c
      <4>1. locks[c] = <<call[c].thread>>
        BY <1>1, <2>1, <3>2 DEF CallInFamily, CascadeRight
      <4>2. t = call[c].thread /\ ~(Len(locks[c]) > 1)
        BY <4>1
      <4>3. pc'[c] = "listing"
        BY <1>1, <1>7, <3>2, <4>2 DEF Lock, Goto
      <4> QED BY <1>1, <2>1, <4>3 DEF CallInFamily, CascadeRight
    <3>3. CASE call[c].type # "delete"
      BY <1>1, <2>1, <3>3 DEF CallInFamily, CascadeRight
    <3> QED BY <3>1, <3>2, <3>3
  <2>7. FamilyPlan(c)'
    BY <2>3 DEF FamilyPlan
  <2> QED BY <1>2, <2>1, <2>5, <2>6, <2>7 DEF CallInFamily
<1>8. CASE ListSideChats(c)
  <2> DEFINE live == liveSideChatIds(call[c].thread)
  <2>1. /\ pc[c] = "listing" /\ UNCHANGED <<rows, holder, call>>
        /\ chats'[c] = live
        /\ pc'[c] \in {"checking", "locking"}
    BY <1>1, <1>8 DEF ListSideChats, Goto, TypeOK, FibersOK, stored
  <2>2. /\ call[c].thread \in Claims(c)
        /\ \A u \in Claims(c) : u \in Threads /\ holder[u] = c
    BY <2>1, ClaimsHeld DEF WritesOK, CallsOK, LocksRight, Locked
  <2>3. holder[call[c].thread] = c
    BY <2>2
  <2>4. ForkRight(c)'
    BY <1>1, <2>1, <2>2 DEF CallInFamily, ForkRight, Exists, Claims, Locked
  <2>5. CascadeRight(c)'
    <3>1. live' = live
      BY <2>1 DEF liveSideChatIds
    <3>2. \A u \in live : u \in Threads /\ rows'[u].kind = "sideChat"
      BY <2>1 DEF liveSideChatIds
    <3> QED BY <2>1, <2>3, <3>1, <3>2 DEF CascadeRight
  <2>6. FamilyPlan(c)'
    BY <2>1 DEF FamilyPlan
  <2> QED BY <1>2, <2>1, <2>4, <2>5, <2>6 DEF CallInFamily
<1>9. CASE CheckReceipt(c)
  <2>1. /\ pc[c] = "checking" /\ UNCHANGED <<rows, holder, call, locks, chats>>
        /\ Goto(c, "planning") \/ Goto(c, "answering")
    BY <1>9 DEF CheckReceipt, Answering, stored
  <2> QED BY <1>3, <1>4, <2>1
<1>10. CASE Decide(c)
  <2>1. pc[c] = "planning" /\ UNCHANGED <<rows, holder, call, locks, chats>>
    BY <1>10 DEF Decide, Accept, Decline, Refuse, stored
  <2>2. CASE Refuse(c)
    BY <1>3, <2>1, <2>2 DEF Refuse, Answering
  <2>3. CASE Decline(c)
    BY <1>4, <2>1, <2>3 DEF Decline
  <2>4. CASE Accept(c) /\ call[c].type = "settle"
    BY <1>4, <2>1, <2>4 DEF Accept
  <2>5. CASE Accept(c) /\ call[c].type # "settle"
    <3>1. /\ pc'[c] = "committing" /\ plan'[c] = Writes(call[c], chats[c])
          /\ Acceptable(call[c])
      BY <1>1, <2>5 DEF Accept, Goto
    <3>2. ForkRight(c)'
      <4> SUFFICES ASSUME call[c].type = "fork"
                   PROVE  /\ call[c].other \in Claims(c)
                          /\ holder[call[c].other] = c
                          /\ rows[call[c].other].kind = "root"
                          /\ ~rows[call[c].other].deleted
        BY <2>1, <3>1 DEF ForkRight, Claims, Exists
      <4>1. /\ rows[call[c].other].kind = "root"
            /\ ~rows[call[c].other].deleted
            /\ rows[call[c].thread].kind = "absent"
        BY <3>1 DEF Acceptable
      <4>2. call[c].other \in Claims(c)
        BY <1>1, <2>1, <4>1 DEF CallInFamily, ForkRight, Exists, Locked
      <4>3. holder[call[c].other] = c
        BY <2>1, <4>2, ClaimsHeld DEF Locked
      <4> QED BY <4>1, <4>2, <4>3
    <3>3. CascadeRight(c)'
      BY <1>1, <2>1, <3>1 DEF CallInFamily, CascadeRight, liveSideChatIds
    <3>4. FamilyPlan(c)'
      <4>1. call[c] \in Commands /\ chats[c] \in SUBSET Threads
        BY <2>1, CallIsCommand DEF TypeOK, FibersOK
      <4> DEFINE cmd == call[c]
                 new == Writes(cmd, chats[c])
      <4>2. /\ cmd.type = "delete" => /\ DOMAIN new = {cmd.thread} \cup chats[c]
                                      /\ \A t \in DOMAIN new : new[t].deleted
            /\ cmd.type # "delete" =>
                  \A t \in DOMAIN new : new[t].deleted => rows[t].deleted
            /\ \A t \in DOMAIN new :
                  new[t].kind = "sideChat" =>
                     \/ Exists(t)
                     \/ cmd.type = "fork" /\ new[t].parent = cmd.other
        BY <4>1, WritesFamily
      <4>3. plan'[c] = new /\ UNCHANGED <<rows, call, chats>>
        BY <2>1, <3>1
      <4> HIDE DEF new
      <4>4. IF cmd.type = "delete" THEN Deletes(c)' ELSE KeepsAlive(c)'
        BY <4>2, <4>3 DEF Deletes, KeepsAlive
      <4> QED BY <4>2, <4>3, <4>4 DEF FamilyPlan, Exists
    <3> QED BY <1>2, <2>1, <3>2, <3>3, <3>4 DEF CallInFamily
  <2> QED BY <1>10, <2>2, <2>3, <2>4, <2>5 DEF Decide
<1>11. CASE commitRejectedCommand(c) \/ NoteNothingDone(c)
  BY <1>3, <1>11 DEF commitRejectedCommand, NoteNothingDone, Answering
<1>12. CASE Answer(c)
  BY <1>2, <1>12, FamilyEnds DEF Answer, Ends, stored
<1> QED
  BY <1>6, <1>7, <1>8, <1>9, <1>10, <1>11, <1>12 DEF Work

\* What a commit does to the rows.
LEMMA CommitRows ==
    ASSUME DispatchAssumption, TypeOK, WritesOK, NEW c \in Callers, commitCommand(c)
    PROVE  /\ pc[c] = "committing" /\ pc'[c] = "answering"
           /\ UNCHANGED <<holder, call, locks, chats, plan>>
           /\ \A t \in Threads : Extends(rows'[t], rows[t])
           /\ receipts[call[c].id] = NoReceipt =>
                 \A t \in Threads :
                    /\ t \in DOMAIN plan[c] => rows'[t] = plan[c][t]
                    /\ t \notin DOMAIN plan[c] => rows'[t] = rows[t]
           /\ receipts[call[c].id] # NoReceipt => UNCHANGED rows
<1>1. /\ pc[c] = "committing" /\ pc'[c] = "answering"
      /\ UNCHANGED <<holder, call, locks, chats, plan>>
  BY DEF commitCommand, Answering, Goto, TypeOK, FibersOK
<1>2. CASE receipts[call[c].id] = NoReceipt
  <2>1. rows' = [t \in Threads |-> IF t \in DOMAIN plan[c] THEN plan[c][t] ELSE rows[t]]
    BY <1>2 DEF commitCommand
  <2>2. \A t \in DOMAIN plan[c] : Extends(plan[c][t], rows[t])
    BY <1>1, <1>2, CommitExtends
  <2>3. \A t \in Threads : /\ t \in DOMAIN plan[c] => rows'[t] = plan[c][t]
                           /\ t \notin DOMAIN plan[c] => rows'[t] = rows[t]
    BY <2>1
  <2>4. \A t \in Threads : Extends(rows'[t], rows[t])
    BY <2>2, <2>3 DEF Extends
  <2> QED BY <1>1, <1>2, <2>3, <2>4
<1>3. CASE receipts[call[c].id] # NoReceipt
  <2>1. UNCHANGED rows
    BY <1>3 DEF commitCommand
  <2> QED BY <1>1, <1>3, <2>1, RowsKept
<1> QED BY <1>2, <1>3
\* A commit: what it deletes goes with its side chats, and a side chat it makes has a
\* source that is not deleted, and that nobody else can delete meanwhile.
LEMMA FamilyCommit ==
    ASSUME DispatchAssumption, TypeOK, WritesOK, FamilyOK, NEW c \in Callers,
           commitCommand(c), receipts[call[c].id] = NoReceipt
    PROVE  FamilyOK'
<1>1. /\ pc[c] = "committing" /\ pc'[c] = "answering"
      /\ UNCHANGED <<holder, call, locks, chats, plan>>
      /\ \A t \in Threads : Extends(rows'[t], rows[t])
      /\ \A t \in Threads :
            /\ t \in DOMAIN plan[c] => rows'[t] = plan[c][t]
            /\ t \notin DOMAIN plan[c] => rows'[t] = rows[t]
  BY CommitRows
<1>2. /\ call[c] \in Commands /\ call[c].thread \in Threads
      /\ call[c].type = "fork" => call[c].other \in Threads
  BY <1>1, CallIsCommand
<1>3. CallInFamily(c) /\ SideChatsOfRoots /\ NoOrphanSideChat
  BY DEF FamilyOK
<1>4. \A t \in DOMAIN plan[c] :
        IsNewChild(c, t) \/ (holder[t] = c /\ (Exists(t) \/ IsNewThread(c, t)))
  BY <1>1 DEF WritesOK, CallsOK, PlanRight
<1>5. \A t \in DOMAIN plan[c] :
        plan[c][t].kind = "sideChat" =>
           \/ Exists(t)
           \/ call[c].type = "fork" /\ plan[c][t].parent = call[c].other
  BY <1>1, <1>3 DEF CallInFamily, FamilyPlan
<1>6. call[c].type = "fork" =>
        /\ holder[call[c].other] = c
        /\ rows[call[c].other].kind = "root"
        /\ ~rows[call[c].other].deleted
  BY <1>1, <1>3 DEF CallInFamily, ForkRight
\* The parent of a thread that was a side chat already.
<1>7. ASSUME NEW t \in Threads, Exists(t), rows'[t].kind = "sideChat"
      PROVE  /\ rows[t].kind = "sideChat" /\ rows'[t].parent = rows[t].parent
             /\ rows[t].parent \in Threads /\ rows[rows[t].parent].kind = "root"
             /\ rows'[rows[t].parent].kind = "root"
  <2>1. rows[t].kind = "sideChat" /\ rows'[t].parent = rows[t].parent
    BY <1>1, <1>7 DEF Extends, Exists
  <2>2. rows[t].parent \in Threads /\ rows[rows[t].parent].kind = "root"
    BY <1>3, <2>1, RowType DEF SideChatsOfRoots, TypeOK, StoredOK, Rows
  <2> QED BY <1>1, <2>1, <2>2 DEF Extends
\* A side chat that the commit makes.
<1>8. ASSUME NEW t \in Threads, ~Exists(t), rows'[t].kind = "sideChat"
      PROVE  call[c].type = "fork" /\ rows'[t].parent = call[c].other
  <2>1. t \in DOMAIN plan[c]
    BY <1>1, <1>8 DEF Exists
  <2> QED BY <1>1, <1>5, <1>8, <2>1
<1>9. SideChatsOfRoots'
  <2> SUFFICES ASSUME NEW t \in Threads, rows'[t].kind = "sideChat"
               PROVE  rows'[rows'[t].parent].kind = "root"
    BY DEF SideChatsOfRoots
  <2>1. CASE Exists(t)
    BY <1>7, <2>1
  <2>2. CASE ~Exists(t)
    <3>1. call[c].type = "fork" /\ rows'[t].parent = call[c].other
      BY <1>8, <2>2
    <3> QED BY <1>1, <1>2, <1>6, <3>1 DEF Extends
  <2> QED BY <2>1, <2>2
<1>10. NoOrphanSideChat'
  <2> SUFFICES ASSUME NEW t \in Threads, rows'[t].kind = "sideChat",
                      rows'[rows'[t].parent].deleted
               PROVE  rows'[t].deleted
    BY DEF NoOrphanSideChat
  <2> DEFINE p == rows'[t].parent
  <2>1. CASE Exists(t)
    <3>1. /\ rows[t].kind = "sideChat" /\ p = rows[t].parent
          /\ p \in Threads /\ rows[p].kind = "root"
      BY <1>7, <2>1
    <3> HIDE DEF p
    <3>2. CASE rows[p].deleted
      <4>1. rows[t].deleted
        BY <1>3, <3>1, <3>2 DEF NoOrphanSideChat
      <4> QED BY <1>1, <4>1 DEF Extends
    <3>3. CASE ~rows[p].deleted
      <4>1. rows'[p].deleted
        BY DEF p
      <4>2. p \in DOMAIN plan[c] /\ plan[c][p].deleted
        BY <1>1, <3>1, <3>3, <4>1
      <4>3. call[c].type = "delete" /\ Deletes(c)
        BY <1>1, <1>3, <3>3, <4>2 DEF CallInFamily, FamilyPlan, KeepsAlive
      <4>4. p = call[c].thread
        BY <1>3, <3>1, <4>2, <4>3 DEF Deletes, CallInFamily, CascadeRight
      <4>5. holder[p] = c
        BY <1>4, <4>2, <4>3 DEF IsNewChild
      <4>6. liveSideChatIds(p) \subseteq chats[c]
        BY <1>1, <1>3, <4>3, <4>4, <4>5 DEF CallInFamily, CascadeRight
      <4>7. CASE rows[t].deleted
        BY <1>1, <4>7 DEF Extends
      <4>8. CASE ~rows[t].deleted
        <5>1. t \in chats[c]
          BY <3>1, <4>6, <4>8 DEF liveSideChatIds
        <5>2. t \in DOMAIN plan[c] /\ plan[c][t].deleted
          BY <4>3, <5>1 DEF Deletes
        <5> QED BY <1>1, <5>2
      <4> QED BY <4>7, <4>8
    <3> QED BY <3>2, <3>3
  <2>2. CASE ~Exists(t)
    <3>1. call[c].type = "fork" /\ p = call[c].other
      BY <1>8, <2>2
    <3>2. p \in Threads /\ ~rows[p].deleted
      BY <1>2, <1>6, <3>1
    <3>3. rows'[p].deleted
      OBVIOUS
    <3> HIDE DEF p
    <3>4. p \in DOMAIN plan[c] /\ plan[c][p].deleted
      BY <1>1, <3>2, <3>3
    <3> QED BY <1>1, <1>3, <3>1, <3>2, <3>4 DEF CallInFamily, FamilyPlan, KeepsAlive
  <2> QED BY <2>1, <2>2
<1>11. CallInFamily(c)'
  BY <1>1, FamilyAnswering
<1>12. ASSUME NEW d \in Callers \ {c}
       PROVE  CallInFamily(d)'
  <2>1. Local(c)
    BY WorkLocal DEF Work
  <2>2. ASSUME NEW t \in Threads, holder[t] = d, Exists(t)
        PROVE  rows'[t] = rows[t]
    <3>1. t \notin DOMAIN plan[c]
      <4> SUFFICES ASSUME t \in DOMAIN plan[c]
                   PROVE  FALSE
        OBVIOUS
      <4>1. IsNewChild(c, t)
        BY <1>4, <2>2
      <4> QED BY <1>2, <2>2, <4>1 DEF IsNewChild, WritesOK, ChildrenUnborn
    <3> QED BY <1>1, <3>1
  <2>3. ASSUME NEW t \in Threads, rows'[t].kind = "sideChat", ~Exists(t)
        PROVE  holder[rows'[t].parent] # d
    BY <1>6, <1>8, <2>3
  <2> QED BY <1>1, <2>1, <2>2, <2>3, FamilyOther
<1> QED BY <1>3, <1>9, <1>10, <1>11, <1>12 DEF FamilyOK

\* Every step keeps the families right, if clients fork threads that they have seen.
LEMMA FamilyStep ==
    ASSUME DispatchAssumption, TypeOK, WritesOK, FamilyOK, [Next]_vars,
           [ForksFromSeen]_vars
    PROVE  FamilyOK'
<1>1. ASSUME NEW c \in Callers, Work(c)
      PROVE  FamilyOK'
  <2>1. CASE commitCommand(c) /\ receipts[call[c].id] # NoReceipt
    <3>1. /\ UNCHANGED rows /\ pc[c] # "idle" /\ pc'[c] = "answering"
          /\ UNCHANGED <<call, chats>>
      BY <2>1, CommitRows
    <3>2. CallInFamily(c)'
      BY <3>1, RowsKept, FamilyAnswering
    <3> QED BY <1>1, <3>1, <3>2, FamilyQuiet, WorkLocal
  <2> QED BY <1>1, <2>1, FamilyWork, FamilyCommit
<1>2. ASSUME NEW c \in Callers, Call(c)
      PROVE  FamilyOK'
  <2>1. /\ pc[c] = "idle" /\ pc'[c] = "routing" /\ call'[c] \in Commands
        /\ UNCHANGED <<rows, holder, locks, chats, plan>> /\ Local(c)
    BY <1>2 DEF Call, Goto, Local, TypeOK, FibersOK, stored
  <2>2. call'[c] # call[c]
    BY <2>1 DEF TypeOK, ControlOK, Controlled
  <2>3. call'[c].type = "fork" => Exists(call'[c].other)
    BY <2>2 DEF ForksFromSeen, vars, fiber
  <2>4. CallInFamily(c)
    BY DEF FamilyOK
  <2>5. CallInFamily(c)'
    BY <2>1, <2>3, <2>4
    DEF CallInFamily, ForkRight, CascadeRight, FamilyPlan, Exists, Locked
  <2> QED BY <2>1, <2>5, FamilyQuiet
<1>3. ASSUME NEW c \in Callers, Interrupt(c)
      PROVE  FamilyOK'
  <2>1. Local(c) /\ UNCHANGED rows /\ CallInFamily(c)'
    BY <1>3, EndsLocal, FamilyEnds DEF Interrupt, Ends, stored
  <2> QED BY <2>1, FamilyQuiet
<1>4. CASE UNCHANGED vars
  BY <1>4 DEF vars, stored, fiber, FamilyOK, SideChatsOfRoots, NoOrphanSideChat,
              CallInFamily, ForkRight, CascadeRight, FamilyPlan, Deletes, KeepsAlive,
              liveSideChatIds, Claims, Exists
<1> QED BY <1>1, <1>2, <1>3, <1>4 DEF Next

\* At first there is no side chat, and no call.
LEMMA FamilyInit ==
    ASSUME DispatchAssumption, Init
    PROVE  FamilyOK
<1>1. SideChatsOfRoots /\ NoOrphanSideChat
  BY DEF Init, SideChatsOfRoots, NoOrphanSideChat, Root, Absent
<1>2. \A c \in Callers : CallInFamily(c)
  BY DEF Init, CallInFamily, ForkRight, CascadeRight, FamilyPlan, Idle
<1> QED BY <1>1, <1>2 DEF FamilyOK

\* No side chat outlives its parent, however forks, deletions, retries and interruptions
\* interleave, as long as clients fork threads that exist when the fork is sent
\* (Orchestrator.ts, dispatchWithReceipt: a fork whose source is not found takes no
\* lock on it, and would be accepted if the source is created while it waits).
THEOREM SideChatsDieWithParent ==
    Spec /\ [][ForksFromSeen]_vars => []NoOrphanSideChat
<1>1. Init => FamilyOK
  BY FamilyInit, DispatchAssumption
<1>2. TypeOK /\ WritesOK /\ FamilyOK /\ [Next]_vars /\ [ForksFromSeen]_vars => FamilyOK'
  BY FamilyStep, DispatchAssumption
<1>3. FamilyOK => NoOrphanSideChat
  BY DEF FamilyOK
<1> QED BY <1>1, <1>2, <1>3, WritesInvariant, PTL DEF Spec

-----------------------------------------------------------------------------
(***************************************************************************)
(* Callers that send one command to one thread are told one thing.  What   *)
(* has been answered, or is about to be, is what the receipt says, or a    *)
(* rejection beside which another thread's command has been recorded as    *)
(* accepted (AgreesWithReceipt); and a call that has found no receipt,     *)
(* while it holds its thread, is the first there to be told (Unanswered).  *)
(***************************************************************************)
Pending(c) ==
    [id |-> call[c].id, thread |-> call[c].thread,
     verdict |-> answer[c].verdict, sequence |-> answer[c].sequence]

\* The verdicts that have been given, or are on their way to their caller.
Given ==
    {a \in answers \cup {Pending(c) : c \in {d \in Callers : pc[d] = "answering"}} :
        a.verdict \in {"accepted", "rejected"}}

AgreesWithReceipt(a) ==
    /\ receipts[a.id] # NoReceipt
    /\ \/ /\ receipts[a.id].status = a.verdict
          /\ a.sequence = IF a.verdict = "accepted" THEN receipts[a.id].sequence ELSE 0
       \/ /\ receipts[a.id].status = "accepted"
          /\ receipts[a.id].thread # a.thread

Deciding == {"planning", "committing", "rejecting", "noting"}

Unanswered(c) ==
    pc[c] \in Deciding =>
        /\ receipts[call[c].id] # NoReceipt => receipts[call[c].id].thread # call[c].thread
        /\ \A a \in Given : a.id = call[c].id => a.thread # call[c].thread
        /\ pc[c] = "noting" => call[c].type = "settle"

ReceiptsOfCommands ==
    \A id \in Ids : receipts[id] # NoReceipt =>
        \E cmd \in Commands : cmd.id = id /\ cmd.thread = receipts[id].thread

GivenOK ==
    /\ \A a \in Given : AgreesWithReceipt(a)
    /\ \A a, b \in Given : a.id = b.id /\ a.thread = b.thread => a = b
    /\ \A c \in Callers : Unanswered(c)
    /\ ReceiptsOfCommands

\* The id of a settlement is not used again for another thread.
SettlesAlone ==
    \A cmd, cmd2 \in Commands :
        cmd.type = "settle" /\ cmd2.id = cmd.id => cmd2.thread = cmd.thread

\* Answers are to commands.
LEMMA GivenTypes ==
    ASSUME DispatchAssumption, TypeOK
    PROVE  \A a \in Given : a.id \in Ids
<1>1. \A a \in answers : a.id \in Ids
  BY DEF TypeOK
<1>2. ASSUME NEW c \in Callers, pc[c] = "answering"
      PROVE  Pending(c).id \in Ids
  BY <1>2, CallIsCommand DEF Pending
<1> QED BY <1>1, <1>2 DEF Given

\* Two calls that work under their locks are of different threads.
LEMMA ThreadsDiffer ==
    ASSUME TypeOK, WritesOK, NEW c \in Callers, NEW d \in Callers, c # d,
           pc[c] \in Locked, pc[d] \in Locked
    PROVE  call[c].thread # call[d].thread
<1>1. call[c].thread \in Claims(c) /\ call[d].thread \in Claims(d)
  BY DEF WritesOK, CallsOK, LocksRight
<1> QED BY <1>1, ClaimsHeld

\* A step of c, with the answer it is now about to give, if it has one.
LEMMA GivenChange ==
    ASSUME DispatchAssumption, TypeOK, WritesOK, GivenOK, NEW c \in Callers, Local(c),
           \A id \in Ids : receipts[id] # NoReceipt => receipts'[id] = receipts[id],
           \A id \in Ids : receipts[id] = NoReceipt /\ receipts'[id] # NoReceipt =>
              /\ pc[c] \in Locked /\ id = call[c].id
              /\ receipts'[id].thread = call[c].thread,
           \A a \in Given' :
              \/ a \in Given
              \/ /\ pc[c] \in Locked /\ a = Pending(c)'
                 /\ a.id = call[c].id /\ a.thread = call[c].thread
                 /\ AgreesWithReceipt(a)'
                 /\ \A b \in Given : b.id = a.id /\ b.thread = a.thread => b = a,
           Unanswered(c)'
    PROVE  GivenOK'
<1>1. \A a \in Given : a.id \in Ids
  BY GivenTypes
<1>2. /\ \A a \in Given : AgreesWithReceipt(a)
      /\ \A a, b \in Given : a.id = b.id /\ a.thread = b.thread => a = b
      /\ \A d \in Callers : Unanswered(d)
      /\ ReceiptsOfCommands
  BY DEF GivenOK
<1>3. \A a \in Given' : AgreesWithReceipt(a)'
  <2>1. \A a \in Given : AgreesWithReceipt(a)'
    BY <1>1, <1>2 DEF AgreesWithReceipt
  <2> QED BY <2>1
<1>4. \A a, b \in Given' : a.id = b.id /\ a.thread = b.thread => a = b
  BY <1>2
<1>5. ASSUME NEW d \in Callers \ {c}
      PROVE  Unanswered(d)'
  <2>1. pc'[d] = pc[d] /\ call'[d] = call[d]
    BY DEF Local
  <2> SUFFICES ASSUME pc[d] \in Deciding
               PROVE  /\ receipts'[call[d].id] # NoReceipt =>
                            receipts'[call[d].id].thread # call[d].thread
                      /\ \A a \in Given' : a.id = call[d].id => a.thread # call[d].thread
                      /\ pc[d] = "noting" => call[d].type = "settle"
    BY <2>1 DEF Unanswered
  <2>2. pc[d] \in Locked /\ pc[d] # "idle"
    BY DEF Deciding, Locked
  <2>3. call[d].id \in Ids
    BY <2>2, CallIsCommand
  <2>4. pc[c] \in Locked => call[c].thread # call[d].thread
    BY <2>2, ThreadsDiffer
  <2>5. Unanswered(d)
    BY <1>2
  <2>6. receipts'[call[d].id] # NoReceipt => receipts'[call[d].id].thread # call[d].thread
    BY <2>3, <2>4, <2>5 DEF Unanswered
  <2>7. \A a \in Given' : a.id = call[d].id => a.thread # call[d].thread
    BY <2>4, <2>5 DEF Unanswered
  <2> QED BY <2>5, <2>6, <2>7 DEF Unanswered
<1>6. ReceiptsOfCommands'
  <2> SUFFICES ASSUME NEW id \in Ids, receipts'[id] # NoReceipt
               PROVE  \E cmd \in Commands : cmd.id = id /\ cmd.thread = receipts'[id].thread
    BY DEF ReceiptsOfCommands
  <2>1. CASE receipts[id] # NoReceipt
    BY <1>2, <2>1 DEF ReceiptsOfCommands
  <2>2. CASE receipts[id] = NoReceipt
    <3>1. pc[c] \in Locked /\ id = call[c].id /\ receipts'[id].thread = call[c].thread
      BY <2>2
    <3>2. call[c] \in Commands
      BY <3>1, CallIsCommand DEF Locked
    <3> QED BY <3>1, <3>2
  <2> QED BY <2>1, <2>2
<1> QED BY <1>3, <1>4, <1>5, <1>6 DEF GivenOK

\* Which answers a step of c can add to those given.
LEMMA GivenGrows ==
    ASSUME NEW c \in Callers, Local(c), UNCHANGED answers,
           \A d \in Callers \ {c} : answer'[d] = answer[d]
    PROVE  \A a \in Given' :
              \/ a \in Given
              \/ /\ pc'[c] = "answering" /\ a = Pending(c)'
                 /\ answer'[c].verdict \in {"accepted", "rejected"}
<1> SUFFICES ASSUME NEW a \in Given', a \notin Given
             PROVE  /\ pc'[c] = "answering" /\ a = Pending(c)'
                    /\ answer'[c].verdict \in {"accepted", "rejected"}
  OBVIOUS
<1>1. a.verdict \in {"accepted", "rejected"} /\ a \notin answers
  BY DEF Given
<1>2. PICK d \in Callers : pc'[d] = "answering" /\ a = Pending(d)'
  BY <1>1 DEF Given
<1>3. d = c
  <2> SUFFICES ASSUME d # c
               PROVE  FALSE
    OBVIOUS
  <2>1. pc[d] = "answering" /\ Pending(d)' = Pending(d)
    BY <1>2 DEF Local, Pending
  <2> QED BY <1>1, <1>2, <2>1 DEF Given
<1> QED BY <1>1, <1>2, <1>3 DEF Pending
\* A step that leaves the receipts, and gives no verdict that is not given already.
LEMMA GivenQuiet ==
    ASSUME DispatchAssumption, TypeOK, WritesOK, GivenOK, NEW c \in Callers, Local(c),
           UNCHANGED receipts, \A a \in Given' : a \in Given, Unanswered(c)'
    PROVE  GivenOK'
BY GivenChange

\* Every step of a call: what it is told agrees with the receipt it has found, or left.
LEMMA GivenWork ==
    ASSUME DispatchAssumption, TypeOK, WritesOK, GivenOK, SettlesAlone,
           NEW c \in Callers, Work(c)
    PROVE  GivenOK'
<1>0. /\ pc \in [Callers -> {"idle", "routing", "locking", "answering"} \cup Locked]
      /\ answer \in [Callers -> [verdict : Verdicts \cup {"none"}, sequence : Nat]]
      /\ receipts \in [Ids -> {NoReceipt} \cup Receipts]
      /\ NoReceipt \notin Receipts
      /\ pc[c] # "idle"
      /\ Local(c)
  <2>1. pc[c] # "idle"
    BY DEF Work, Route, Lock, ListSideChats, CheckReceipt, Decide, Accept, Decline, Refuse,
           commitRejectedCommand, NoteNothingDone, commitCommand, Answer
  <2> QED BY <2>1, WorkLocal DEF TypeOK, FibersOK, StoredOK, DispatchAssumption
<1>1. /\ call[c] \in Commands /\ call[c].id \in Ids /\ call[c].thread \in Threads
  BY <1>0, CallIsCommand
<1>2. /\ \A a \in Given : AgreesWithReceipt(a)
      /\ Unanswered(c)
      /\ ReceiptsOfCommands
  BY DEF GivenOK
\* Steps that give no verdict.
<1>3. ASSUME UNCHANGED <<receipts, answers, answer>>, pc'[c] # "answering", Unanswered(c)'
      PROVE  GivenOK'
  <2>1. \A a \in Given' : a \in Given
    BY <1>0, <1>3, GivenGrows
  <2> QED BY <1>0, <1>3, <2>1, GivenQuiet
\* Steps that give one.
<1>4. ASSUME NEW verdict \in Verdicts, NEW n, Answering(c, verdict, n)
      PROVE  /\ pc'[c] = "answering"
             /\ answer'[c] = [verdict |-> verdict, sequence |-> n]
             /\ \A d \in Callers \ {c} : answer'[d] = answer[d]
             /\ Unanswered(c)'
  <2>1. /\ pc'[c] = "answering"
        /\ answer'[c] = [verdict |-> verdict, sequence |-> n]
        /\ \A d \in Callers \ {c} : answer'[d] = answer[d]
    BY <1>0, <1>4 DEF Answering, Goto
  <2> QED BY <2>1 DEF Unanswered, Deciding
<1>5. ASSUME NEW verdict \in {"conflict", "refused", "failed"}, Answering(c, verdict, 0),
             UNCHANGED <<receipts, answers>>
      PROVE  GivenOK'
  <2>1. /\ \A d \in Callers \ {c} : answer'[d] = answer[d]
        /\ answer'[c].verdict = verdict /\ Unanswered(c)'
    <3>1. verdict \in Verdicts /\ Answering(c, verdict, 0)
      BY <1>5 DEF Verdicts
    <3>2. /\ \A d \in Callers \ {c} : answer'[d] = answer[d]
          /\ answer'[c] = [verdict |-> verdict, sequence |-> 0]
          /\ Unanswered(c)'
      BY <1>4, <3>1
    <3> QED BY <3>2
  <2>2. \A a \in Given' : a \in Given
    BY <1>0, <1>5, <2>1, GivenGrows
  <2> QED BY <1>0, <1>5, <2>1, <2>2, GivenQuiet
<1>6. ASSUME NEW verdict \in {"accepted", "rejected"}, NEW n, Answering(c, verdict, n),
             UNCHANGED <<answers, call>>, pc[c] \in Locked,
             \A id \in Ids : receipts[id] # NoReceipt => receipts'[id] = receipts[id],
             \A id \in Ids : receipts[id] = NoReceipt /\ receipts'[id] # NoReceipt =>
                id = call[c].id /\ receipts'[id].thread = call[c].thread,
             AgreesWithReceipt(Pending(c))',
             \A b \in Given :
                b.id = call[c].id /\ b.thread = call[c].thread => b = Pending(c)'
      PROVE  GivenOK'
  <2>1. /\ \A d \in Callers \ {c} : answer'[d] = answer[d]
        /\ Unanswered(c)'
    BY <1>4, <1>6 DEF Verdicts
  <2>2. Pending(c)'.id = call[c].id /\ Pending(c)'.thread = call[c].thread
    BY <1>6 DEF Pending
  <2>3. ASSUME NEW a \in Given', a \notin Given
        PROVE  /\ pc[c] \in Locked /\ a = Pending(c)'
               /\ a.id = call[c].id /\ a.thread = call[c].thread
               /\ AgreesWithReceipt(a)'
               /\ \A b \in Given : b.id = a.id /\ b.thread = a.thread => b = a
    <3>1. a = Pending(c)'
      BY <1>0, <1>6, <2>1, <2>3, GivenGrows
    <3>2. AgreesWithReceipt(a)'
      BY <1>6, <3>1 DEF AgreesWithReceipt
    <3> QED BY <1>6, <2>2, <3>1, <3>2
  <2> QED BY <1>0, <1>6, <2>1, <2>3, GivenChange
<1>7. CASE Route(c)
  <2>1. CASE Unroutable(call[c])
    BY <1>5, <1>7, <2>1 DEF Route, stored
  <2>2. CASE ~Unroutable(call[c])
    <3>1. UNCHANGED <<receipts, answers, answer>> /\ pc'[c] = "locking"
      BY <1>0, <1>7, <2>2 DEF Route, Goto, stored
    <3> QED BY <1>3, <3>1 DEF Unanswered, Deciding
  <2> QED BY <2>1, <2>2
<1>8. CASE Lock(c) \/ ListSideChats(c)
  <2>1. UNCHANGED <<receipts, answers, answer>> /\ pc'[c] \in {"locking", "listing", "checking"}
    BY <1>0, <1>8 DEF Lock, ListSideChats, Goto, stored
  <2> QED BY <1>3, <2>1 DEF Unanswered, Deciding
<1>9. CASE CheckReceipt(c)
  <2> DEFINE receipt == receipts[call[c].id]
  <2>1. pc[c] \in Locked /\ UNCHANGED <<receipts, answers, call>>
    BY <1>9 DEF CheckReceipt, stored, Locked
  <2>2. CASE receipt = NoReceipt
    <3>1. pc'[c] = "planning" /\ UNCHANGED answer
      BY <1>0, <1>9, <2>2 DEF CheckReceipt, Goto
    <3>2. \A a \in Given : a.id # call[c].id
      BY <1>2, <2>2 DEF AgreesWithReceipt
    <3>3. \A a \in Given' : a \in Given
      BY <1>0, <2>1, <3>1, GivenGrows
    <3>4. Unanswered(c)'
      BY <2>1, <2>2, <3>1, <3>2, <3>3 DEF Unanswered
    <3> QED BY <1>3, <2>1, <3>1, <3>4
  <2>3. CASE receipt # NoReceipt
    <3>1. receipt.status \in {"accepted", "rejected"}
      BY <1>0, <1>1, <2>3 DEF Receipts
    <3>2. CASE receipt.status = "accepted" /\ receipt.thread # call[c].thread
      BY <1>5, <1>9, <2>1, <2>3, <3>2 DEF CheckReceipt
    <3>3. CASE receipt.status = "rejected" \/ receipt.thread = call[c].thread
      <4> DEFINE n == IF receipt.status = "accepted" THEN receipt.sequence ELSE 0
      <4>1. Answering(c, receipt.status, n)
        BY <1>9, <2>3, <3>1, <3>3 DEF CheckReceipt
      <4>2. Pending(c)' = [id |-> call[c].id, thread |-> call[c].thread,
                           verdict |-> receipt.status, sequence |-> n]
        <5>1. receipt.status \in Verdicts
          BY <3>1 DEF Verdicts
        <5> HIDE DEF receipt, n
        <5>2. answer'[c] = [verdict |-> receipt.status, sequence |-> n]
          BY <1>4, <4>1, <5>1
        <5> QED BY <2>1, <5>2 DEF Pending
      <4>3. AgreesWithReceipt(Pending(c))'
        BY <2>1, <2>3, <3>1, <4>2 DEF AgreesWithReceipt
      <4>4. ASSUME NEW b \in Given, b.id = call[c].id, b.thread = call[c].thread
            PROVE  b = Pending(c)'
        <5>1. b.verdict = receipt.status /\ b.sequence = n
          BY <1>2, <2>3, <3>3, <4>4 DEF AgreesWithReceipt
        <5>2. b = [id |-> b.id, thread |-> b.thread,
                   verdict |-> b.verdict, sequence |-> b.sequence]
          BY DEF Given, Pending, TypeOK
        <5> QED BY <4>2, <4>4, <5>1, <5>2
      <4> QED BY <1>6, <2>1, <3>1, <4>1, <4>3, <4>4
    <3> QED BY <3>1, <3>2, <3>3
  <2> QED BY <2>2, <2>3
<1>10. CASE Decide(c)
  <2>1. /\ pc[c] = "planning" /\ UNCHANGED <<receipts, answers, call>>
    BY <1>10 DEF Decide, Accept, Decline, Refuse, stored
  <2>2. CASE Refuse(c)
    BY <1>5, <2>1, <2>2 DEF Refuse
  <2>3. CASE Accept(c) \/ Decline(c)
    <3>1. /\ UNCHANGED answer
          /\ pc'[c] \in {"noting", "committing", "rejecting"}
          /\ pc'[c] = "noting" => call[c].type = "settle"
      BY <1>0, <2>3 DEF Accept, Decline, Goto
    <3>2. \A a \in Given' : a \in Given
      BY <1>0, <2>1, <3>1, GivenGrows
    <3>3. Unanswered(c)'
      BY <1>2, <2>1, <3>1, <3>2 DEF Unanswered, Deciding
    <3> QED BY <1>3, <2>1, <3>1, <3>3
  <2> QED BY <1>10, <2>2, <2>3 DEF Decide
\* A call that records a receipt, or finds one of another thread.
<1>11. ASSUME pc[c] \in Deciding, UNCHANGED <<answers, call>>,
              NEW receipt \in Receipts, insertIfAbsent(c, receipt),
              receipt.thread = call[c].thread,
              NEW verdict \in {"accepted", "rejected"}, NEW n, Answering(c, verdict, n),
              receipts[call[c].id] = NoReceipt =>
                 receipt.status = verdict /\ n = IF verdict = "accepted" THEN receipt.sequence ELSE 0,
              receipts[call[c].id] # NoReceipt =>
                 \/ receipts[call[c].id].status = "accepted" /\ verdict = "rejected"
                 \/ /\ receipts[call[c].id].status = verdict
                    /\ n = IF verdict = "accepted" THEN receipts[call[c].id].sequence ELSE 0
       PROVE  GivenOK'
  <2>1. Pending(c)' = [id |-> call[c].id, thread |-> call[c].thread,
                       verdict |-> verdict, sequence |-> n]
    <3>1. verdict \in Verdicts /\ Answering(c, verdict, n)
      BY <1>11 DEF Verdicts
    <3>2. answer'[c] = [verdict |-> verdict, sequence |-> n]
      BY <1>4, <3>1
    <3> QED BY <1>11, <3>2 DEF Pending
  <2>2. /\ receipts[call[c].id] = NoReceipt => receipts'[call[c].id] = receipt
        /\ receipts[call[c].id] # NoReceipt => UNCHANGED receipts
        /\ \A id \in Ids : id # call[c].id => receipts'[id] = receipts[id]
    BY <1>0, <1>1, <1>11 DEF insertIfAbsent
  <2>3. receipts[call[c].id] # NoReceipt => receipts[call[c].id].thread # call[c].thread
    BY <1>2, <1>11 DEF Unanswered
  <2>4. AgreesWithReceipt(Pending(c))'
    BY <1>0, <1>11, <2>1, <2>2, <2>3 DEF AgreesWithReceipt
  <2>5. \A b \in Given : b.id = call[c].id => b.thread # call[c].thread
    BY <1>2, <1>11 DEF Unanswered
  <2>6. pc[c] \in Locked
    BY <1>11 DEF Deciding, Locked
  <2> QED BY <1>6, <1>11, <2>2, <2>4, <2>5, <2>6
<1>12. CASE commitRejectedCommand(c)
  <2>1. /\ pc[c] \in Deciding /\ UNCHANGED <<answers, call>>
        /\ insertIfAbsent(c, Receipt(c, "rejected", Len(log)))
        /\ Answering(c, "rejected", 0)
    BY <1>12 DEF commitRejectedCommand, Deciding
  <2>2. Len(log) \in Nat
    BY DEF TypeOK, StoredOK
  <2>3. /\ Receipt(c, "rejected", Len(log)) \in Receipts
        /\ Receipt(c, "rejected", Len(log)).thread = call[c].thread
        /\ Receipt(c, "rejected", Len(log)).status = "rejected"
    BY <1>1, <2>2 DEF Receipt, Receipts
  <2>4. receipts[call[c].id] # NoReceipt =>
            receipts[call[c].id].status \in {"accepted", "rejected"}
    BY <1>0, <1>1 DEF Receipts
  <2> QED BY <1>11, <2>1, <2>3, <2>4
<1>13. CASE NoteNothingDone(c)
  <2>1. /\ pc[c] \in Deciding /\ pc[c] = "noting" /\ UNCHANGED <<answers, call>>
        /\ insertIfAbsent(c, Receipt(c, "accepted", Len(log)))
        /\ Answering(c, "accepted", Len(log))
    BY <1>13 DEF NoteNothingDone, Deciding
  <2>2. Len(log) \in Nat
    BY DEF TypeOK, StoredOK
  <2>3. /\ Receipt(c, "accepted", Len(log)) \in Receipts
        /\ Receipt(c, "accepted", Len(log)).thread = call[c].thread
        /\ Receipt(c, "accepted", Len(log)).status = "accepted"
        /\ Receipt(c, "accepted", Len(log)).sequence = Len(log)
    BY <1>1, <2>2 DEF Receipt, Receipts
  <2>4. receipts[call[c].id] = NoReceipt
    <3> SUFFICES ASSUME receipts[call[c].id] # NoReceipt
                 PROVE  FALSE
      OBVIOUS
    <3>1. /\ call[c].type = "settle"
          /\ receipts[call[c].id].thread # call[c].thread
      BY <1>2, <2>1 DEF Unanswered
    <3>2. PICK cmd \in Commands :
              cmd.id = call[c].id /\ cmd.thread = receipts[call[c].id].thread
      BY <1>1, <1>2 DEF ReceiptsOfCommands
    <3> QED BY <1>1, <3>1, <3>2 DEF SettlesAlone
  <2> QED BY <1>11, <2>1, <2>3, <2>4
<1>14. CASE commitCommand(c)
  <2>1. /\ pc[c] \in Deciding /\ UNCHANGED <<answers, call>>
        /\ insertIfAbsent(c, Receipt(c, "accepted", Len(log) + 1))
    BY <1>14 DEF commitCommand, Deciding
  <2>2. Len(log) + 1 \in Nat
    BY DEF TypeOK, StoredOK
  <2>3. /\ Receipt(c, "accepted", Len(log) + 1) \in Receipts
        /\ Receipt(c, "accepted", Len(log) + 1).thread = call[c].thread
        /\ Receipt(c, "accepted", Len(log) + 1).status = "accepted"
        /\ Receipt(c, "accepted", Len(log) + 1).sequence = Len(log) + 1
    BY <1>1, <2>2 DEF Receipt, Receipts
  <2>4. CASE receipts[call[c].id] = NoReceipt
    <3>1. Answering(c, "accepted", Len(log) + 1)
      BY <1>14, <2>4 DEF commitCommand
    <3> QED BY <1>11, <2>1, <2>3, <2>4, <3>1
  <2>5. CASE receipts[call[c].id] # NoReceipt /\ receipts[call[c].id].status = "rejected"
    <3>1. Answering(c, "rejected", 0)
      BY <1>14, <2>5 DEF commitCommand
    <3> QED BY <1>11, <2>1, <2>3, <2>5, <3>1
  <2>6. CASE receipts[call[c].id] # NoReceipt /\ receipts[call[c].id].status # "rejected"
    <3>1. Answering(c, "accepted", receipts[call[c].id].sequence)
      BY <1>14, <2>6 DEF commitCommand
    <3>2. receipts[call[c].id].status = "accepted"
      BY <1>0, <1>1, <2>6 DEF Receipts
    <3> QED BY <1>11, <2>1, <2>3, <2>6, <3>1, <3>2
  <2> QED BY <2>4, <2>5, <2>6
<1>15. CASE Answer(c)
  <2>1. /\ pc[c] = "answering" /\ pc'[c] = "idle" /\ UNCHANGED receipts
        /\ answers' = answers \cup {Pending(c)}
        /\ \A d \in Callers \ {c} : answer'[d] = answer[d]
    BY <1>0, <1>15 DEF Answer, Ends, Goto, Pending, stored
  <2>2. ASSUME NEW a \in Given'
        PROVE  a \in Given
    <3>1. CASE a \in answers'
      BY <2>1, <2>2, <3>1 DEF Given
    <3>2. CASE a \notin answers'
      <4>1. PICK d \in Callers : pc'[d] = "answering" /\ a = Pending(d)'
        BY <2>2, <3>2 DEF Given
      <4>2. pc[d] = "answering" /\ a = Pending(d)
        BY <1>0, <2>1, <4>1 DEF Local, Pending
      <4>3. a.verdict \in {"accepted", "rejected"}
        BY <2>2 DEF Given
      <4> QED BY <4>2, <4>3 DEF Given
    <3> QED BY <3>1, <3>2
  <2>3. Unanswered(c)'
    BY <2>1 DEF Unanswered, Deciding
  <2> QED BY <1>0, <2>1, <2>2, <2>3, GivenQuiet
<1> QED
  BY <1>7, <1>8, <1>9, <1>10, <1>12, <1>13, <1>14, <1>15 DEF Work
\* Every step keeps what has been answered in agreement.
LEMMA GivenStep ==
    ASSUME DispatchAssumption, TypeOK, WritesOK, GivenOK, SettlesAlone, [Next]_vars
    PROVE  GivenOK'
<1>1. ASSUME NEW c \in Callers, Work(c)
      PROVE  GivenOK'
  BY <1>1, GivenWork
<1>2. ASSUME NEW c \in Callers, Call(c) \/ Interrupt(c)
      PROVE  GivenOK'
  <2>1. /\ Local(c) /\ pc'[c] \in {"routing", "idle"} /\ UNCHANGED <<receipts, answers>>
        /\ \A d \in Callers \ {c} : answer'[d] = answer[d]
    BY <1>2, EndsLocal DEF Call, Interrupt, Ends, Goto, Local, TypeOK, FibersOK, stored
  <2>2. \A a \in Given' : a \in Given
    BY <2>1, GivenGrows
  <2>3. Unanswered(c)'
    BY <2>1 DEF Unanswered, Deciding
  <2> QED BY <2>1, <2>2, <2>3, GivenQuiet
<1>3. CASE UNCHANGED vars
  BY <1>3 DEF vars, stored, fiber, GivenOK, Given, Pending, AgreesWithReceipt, Unanswered,
              ReceiptsOfCommands
<1> QED BY <1>1, <1>2, <1>3 DEF Next

\* At first nobody has been told anything.
LEMMA GivenInit ==
    ASSUME DispatchAssumption, Init
    PROVE  GivenOK
<1>1. Given = {}
  BY DEF Init, Given
<1> QED BY <1>1 DEF Init, GivenOK, Unanswered, Deciding, ReceiptsOfCommands

\* Callers that send one command to one thread are told one thing, with one sequence,
\* whoever is interrupted, and whichever other threads the id is used for, unless the
\* id of a settlement is used again (Orchestrator.ts:13681-13711 answers that a command
\* with nothing to do is accepted whatever receipt it finds).
THEOREM CallersToldOneThing ==
    ASSUME SettlesAlone
    PROVE  Spec => []AnswersAgree
<1>1. Init => GivenOK
  BY GivenInit, DispatchAssumption
<1>2. TypeOK /\ WritesOK /\ GivenOK /\ [Next]_vars => GivenOK'
  BY GivenStep, DispatchAssumption, SettlesAlone
<1>3. TypeOK /\ GivenOK => AnswersAgree
  BY DEF GivenOK, Given, AnswersAgree
<1> QED BY <1>1, <1>2, <1>3, WritesInvariant, PTL DEF Spec
=============================================================================
