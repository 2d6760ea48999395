--------------------- MODULE ConnectionSupervisorProofs ---------------------
(***************************************************************************)
(* Theorems about ConnectionSupervisor, for every number of users, calls   *)
(* and failures.                                                           *)
(***************************************************************************)
EXTENDS ConnectionSupervisor, TLAPS

(***************************************************************************)
(* What the operations on the queue do to the signals that are coming.     *)
(***************************************************************************)
LEMMA AppendKeeps ==
    ASSUME signals \in Seq(Signals), NEW sig \in Signals, signals' = Append(signals, sig),
           NEW S
    PROVE  /\ signals' \in Seq(Signals)
           /\ Len(signals') = Len(signals) + 1
           /\ \A i \in 1..Len(signals) : signals'[i] = signals[i]
           /\ signals'[Len(signals) + 1] = sig
           /\ Queued(S) => Queued(S)'
           /\ sig \in S => Queued(S)'
<1>1. /\ signals' \in Seq(Signals)
      /\ Len(signals') = Len(signals) + 1
      /\ \A i \in 1..Len(signals) : signals'[i] = signals[i]
      /\ signals'[Len(signals) + 1] = sig
      /\ Len(signals) \in Nat
  OBVIOUS
<1>2. Queued(S) => Queued(S)'
  BY <1>1 DEF Queued
<1>3. sig \in S => Queued(S)'
  BY <1>1 DEF Queued
<1> QED BY <1>1, <1>2, <1>3

LEMMA TailKeeps ==
    ASSUME signals \in Seq(Signals), signals # <<>>, signals' = Tail(signals), NEW S
    PROVE  /\ signals' \in Seq(Signals)
           /\ Len(signals) \in Nat /\ Len(signals) > 0
           /\ Len(signals') = Len(signals) - 1
           /\ \A i \in 1..Len(signals') : signals'[i] = signals[i + 1]
           /\ Head(signals) = signals[1] /\ Head(signals) \in Signals
           /\ Queued(S) => Queued(S)' \/ Head(signals) \in S
<1>1. /\ signals' \in Seq(Signals)
      /\ Len(signals) \in Nat /\ Len(signals) > 0
      /\ Len(signals') = Len(signals) - 1
      /\ \A i \in 1..Len(signals') : signals'[i] = signals[i + 1]
      /\ Head(signals) = signals[1] /\ Head(signals) \in Signals
  OBVIOUS
<1>2. ASSUME Queued(S), Head(signals) \notin S
      PROVE  Queued(S)'
  <2>1. PICK i \in 1..Len(signals) : signals[i] \in S
    BY <1>2 DEF Queued
  <2>2. i # 1 /\ i - 1 \in 1..Len(signals') /\ signals'[i - 1] = signals[i]
    BY <1>1, <1>2, <2>1
  <2> QED BY <2>1, <2>2 DEF Queued
<1> QED BY <1>1, <1>2

LEMMA ComingWhileTaken ==
    ASSUME TypeOK, signals # <<>>, signals' = Tail(signals), UNCHANGED sending, NEW S
    PROVE  Coming(S) => Coming(S)' \/ Head(signals) \in S
<1>1. signals \in Seq(Signals)
  BY DEF TypeOK
<1>2. Queued(S) => Queued(S)' \/ Head(signals) \in S
  BY <1>1, TailKeeps
<1> QED BY <1>2 DEF Coming

LEMMA ComingWhileInput ==
    ASSUME TypeOK, NEW u \in Senders, NEW sig \in Waking, Input(u, sig), UNCHANGED signals,
           NEW S, "none" \notin S
    PROVE  /\ Coming(S) => Coming(S)'
           /\ sig \in S => Coming(S)'
<1>1. /\ sending' \in [Senders -> Waking \cup {"none"}]
      /\ sending'[u] = sig
      /\ \A v \in Senders : v # u => sending'[v] = sending[v]
      /\ sending[u] = "none"
  BY DEF TypeOK, Input
<1>2. Queued(S) => Queued(S)'
  BY DEF Queued
<1> QED BY <1>1, <1>2 DEF Coming

LEMMA ComingWhileSent ==
    ASSUME TypeOK, NEW u \in Senders, Send(u), NEW S
    PROVE  Coming(S) => Coming(S)'
<1>1. signals \in Seq(Signals) /\ sending[u] \in Signals
  BY DEF TypeOK, Send, Signals
<1>2. /\ Queued(S) => Queued(S)'
      /\ sending[u] \in S => Queued(S)'
  BY <1>1, AppendKeeps DEF Send
<1>3. \A v \in Senders : v # u => sending'[v] = sending[v]
  BY DEF TypeOK, Send
<1> QED BY <1>2, <1>3 DEF Coming

LEMMA ComingWhileStill ==
    ASSUME UNCHANGED <<sending, signals>>, NEW S
    PROVE  Coming(S) <=> Coming(S)'
BY DEF Coming, Queued

LEMMA ComingGrows ==
    ASSUME NEW S, NEW T, S \subseteq T
    PROVE  Coming(S) => Coming(T)
BY DEF Coming, Queued

-----------------------------------------------------------------------------
(***************************************************************************)
(* The inductive invariant.  The wake-ups need to know that an attempt or a*)
(* session that fails leaves its signals to the loop, and a switch needs to*)
(* know where a report of a better route may stand in the queue.           *)
(***************************************************************************)
IInv == TypeOK /\ NoLostWakeup /\ RetryNotLeaked /\ FailureLeavesSignals /\ NoStaleReport

\* What is coming keeps coming.
Kept ==
    /\ Coming(Waking) => Coming(Waking)'
    /\ Coming({"disconnect"}) => Coming({"disconnect"})'
    /\ Coming({"offline"}) => Coming({"offline"})'
    /\ Coming({"retry"}) => Coming({"retry"})'

LEMMA StillKept == UNCHANGED <<sending, signals>> => Kept
BY ComingWhileStill DEF Kept

LEMMA NoneIsNoSignal == "none" \notin Signals /\ "better" \notin Waking
BY DEF Signals, Waking, Probing

LEMMA InitialInv == Init => IInv
<1> SUFFICES ASSUME Init PROVE IInv
  OBVIOUS
<1>1. signals \in Seq(Signals) /\ Len(signals) = 0
  BY DEF Init
<1>2. TypeOK
  <2>1. sending \in [Senders -> Waking \cup {"none"}]
    BY DEF Init
  <2>2. outcome \in [tag : {"none", "stop", "replace", "failed", "blocked"}, established : BOOLEAN]
        /\ outcome.tag = "none"
    BY DEF Init, NoOutcome
  <2>3. phase \in Waits \cup {"connecting", "connected"}
    BY DEF Init, Waits
  <2>4. failures \in 0..MaxFailures /\ inputs \in 0..MaxInputs
    BY SupervisorAssumption DEF Init
  <2>5. {desired, online, resetRetry, replacing, probeUnanswered, preferred} \subseteq BOOLEAN
    BY DEF Init
  <2> QED BY <1>1, <2>1, <2>2, <2>3, <2>4, <2>5 DEF Init, TypeOK
<1> QED BY <1>2 DEF IInv, Init, NoLostWakeup, RetryNotLeaked, FailureLeavesSignals, NoStaleReport, Waits

\* However an attempt or a session ends.
LEMMA LeaveInv ==
    ASSUME IInv, pc \in {"establishing", "connected", "probing"},
           NEW tag \in {"stop", "replace", "failed", "blocked"}, Leave(tag),
           signals' \in Seq(Signals),
           {resetRetry, preferred, probeUnanswered}' \subseteq BOOLEAN,
           tag \in {"failed", "blocked"} => UNCHANGED <<signals, resetRetry>>
    PROVE  IInv'
<1>1. TypeOK'
  BY DEF IInv, TypeOK, Leave, intent
<1>2. NoLostWakeup' /\ RetryNotLeaked' /\ NoStaleReport'
  BY DEF Leave, NoLostWakeup, RetryNotLeaked, NoStaleReport, Waits
<1>3. FailureLeavesSignals'
  <2> SUFFICES ASSUME tag \in {"failed", "blocked"}
               PROVE  FailureLeavesSignals'
    BY DEF Leave, FailureLeavesSignals
  <2>1. Kept
    BY StillKept DEF Leave
  <2> QED BY <2>1 DEF IInv, NoLostWakeup, RetryNotLeaked, Kept, Leave, intent, FailureLeavesSignals
<1> QED BY <1>1, <1>2, <1>3 DEF IInv

-----------------------------------------------------------------------------
(***************************************************************************)
(* Users, the platform and the senders.                                    *)
(***************************************************************************)
LEMMA InputKept ==
    ASSUME TypeOK, NEW u \in Senders, NEW sig \in Waking, Input(u, sig), UNCHANGED signals
    PROVE  /\ Kept
           /\ \A S \in {Waking, {"disconnect"}, {"offline"}, {"retry"}} : sig \in S => Coming(S)'
<1>1. "none" \notin Waking
  BY NoneIsNoSignal DEF Signals
<1>2. \A S \in {Waking, {"disconnect"}, {"offline"}, {"retry"}} :
          (Coming(S) => Coming(S)') /\ (sig \in S => Coming(S)')
  BY <1>1, ComingWhileInput
<1> QED BY <1>2 DEF Kept

LEMMA InputTypes ==
    ASSUME TypeOK, NEW u \in Senders, NEW sig \in Waking, Input(u, sig),
           {desired, online, resetRetry}' \subseteq BOOLEAN,
           UNCHANGED <<signals, pc, phase, leasing, ladder>>
    PROVE  TypeOK'
BY SupervisorAssumption DEF TypeOK, Input, leasing, ladder

LEMMA ConnectInv ==
    ASSUME IInv, NEW u \in Users, Connect(u)
    PROVE  IInv'
<1>1. u \in Senders /\ "connect" \in Waking
  BY DEF Senders, Waking
<1>2. TypeOK'
  BY <1>1, InputTypes DEF IInv, TypeOK, Connect
<1>3. Kept /\ Coming(Waking)'
  BY <1>1, InputKept DEF IInv, Connect
<1>4. NoLostWakeup' /\ RetryNotLeaked' /\ FailureLeavesSignals'
  BY <1>3 DEF IInv, Kept, Connect, NoLostWakeup, RetryNotLeaked, FailureLeavesSignals, ladder
<1>5. NoStaleReport'
  BY DEF IInv, Connect, NoStaleReport, Queued, ladder, leasing
<1> QED BY <1>2, <1>4, <1>5 DEF IInv

LEMMA DisconnectInv ==
    ASSUME IInv, NEW u \in Users, Disconnect(u)
    PROVE  IInv'
<1>1. u \in Senders /\ "disconnect" \in Waking
  BY DEF Senders, Waking
<1>2. TypeOK'
  BY <1>1, InputTypes DEF IInv, TypeOK, Disconnect
<1>3. Kept /\ Coming(Waking)' /\ Coming({"disconnect"})'
  BY <1>1, InputKept DEF IInv, Disconnect
<1>4. NoLostWakeup' /\ RetryNotLeaked' /\ FailureLeavesSignals'
  BY <1>3 DEF IInv, Kept, Disconnect, NoLostWakeup, RetryNotLeaked, FailureLeavesSignals, ladder
<1>5. NoStaleReport'
  BY DEF IInv, Disconnect, NoStaleReport, Queued, ladder, leasing
<1> QED BY <1>2, <1>4, <1>5 DEF IInv

LEMMA RetryNowInv ==
    ASSUME IInv, NEW u \in Users, RetryNow(u)
    PROVE  IInv'
<1>1. u \in Senders /\ "retry" \in Waking
  BY DEF Senders, Waking, Probing
<1>2. TypeOK'
  BY <1>1, InputTypes DEF IInv, TypeOK, RetryNow, intent
<1>3. Kept /\ Coming({"retry"})'
  BY <1>1, InputKept DEF IInv, RetryNow
<1>4. NoLostWakeup' /\ RetryNotLeaked' /\ FailureLeavesSignals'
  BY <1>3 DEF IInv, Kept, RetryNow, NoLostWakeup, RetryNotLeaked, FailureLeavesSignals, ladder, intent
<1>5. NoStaleReport'
  BY DEF IInv, RetryNow, NoStaleReport, Queued, ladder, leasing
<1> QED BY <1>2, <1>4, <1>5 DEF IInv

LEMMA NetworkChangesInv ==
    ASSUME IInv, NetworkChanges
    PROVE  IInv'
<1> DEFINE sig == IF online THEN "offline" ELSE "online"
<1>1. "connectivity" \in Senders /\ sig \in Waking
  BY DEF Senders, Platform, Waking, Probing
<1>2. TypeOK'
  BY <1>1, InputTypes DEF IInv, TypeOK, NetworkChanges
<1>3. Kept /\ Coming(Waking)' /\ (online => Coming({"offline"})')
  BY <1>1, InputKept DEF IInv, NetworkChanges
<1>4. NoLostWakeup' /\ RetryNotLeaked' /\ FailureLeavesSignals'
  BY <1>3 DEF IInv, TypeOK, Kept, NetworkChanges, NoLostWakeup, RetryNotLeaked,
              FailureLeavesSignals, ladder
<1>5. NoStaleReport'
  BY DEF IInv, NetworkChanges, NoStaleReport, Queued, ladder, leasing
<1> QED BY <1>2, <1>4, <1>5 DEF IInv

LEMMA WakesInv ==
    ASSUME IInv, Wakes
    PROVE  IInv'
<1>1. PICK reason \in Activating \cup {"credentials"} : Input("wakeups", reason)
  BY DEF Wakes
<1>2. "wakeups" \in Senders /\ reason \in Waking
  BY DEF Senders, Platform, Waking, Probing, Activating
<1>3. TypeOK'
  BY <1>1, <1>2, InputTypes DEF IInv, TypeOK, Wakes, intent
<1>4. Kept
  BY <1>1, <1>2, InputKept DEF IInv, Wakes
<1>5. NoLostWakeup' /\ RetryNotLeaked' /\ FailureLeavesSignals'
  BY <1>4 DEF IInv, Kept, Wakes, NoLostWakeup, RetryNotLeaked, FailureLeavesSignals, ladder, intent
<1>6. NoStaleReport'
  BY DEF IInv, Wakes, NoStaleReport, Queued, ladder, leasing
<1> QED BY <1>3, <1>5, <1>6 DEF IInv

LEMMA SendInv ==
    ASSUME IInv, NEW u \in Senders, Send(u)
    PROVE  IInv'
<1>1. sending[u] \in Waking /\ sending[u] \in Signals /\ signals \in Seq(Signals)
  BY DEF IInv, TypeOK, Send, Signals
<1>2. /\ signals' \in Seq(Signals)
      /\ Len(signals') = Len(signals) + 1
      /\ \A i \in 1..Len(signals) : signals'[i] = signals[i]
      /\ signals'[Len(signals) + 1] # "better"
      /\ Len(signals) \in Nat
  BY <1>1, AppendKeeps, NoneIsNoSignal DEF Send
<1>3. TypeOK'
  BY <1>2 DEF IInv, TypeOK, Send, intent, leasing, ladder
<1>4. Kept
  BY ComingWhileSent DEF IInv, Kept
<1>5. NoLostWakeup' /\ RetryNotLeaked' /\ FailureLeavesSignals'
  BY <1>4 DEF IInv, Kept, Send, NoLostWakeup, RetryNotLeaked, FailureLeavesSignals, ladder, intent
<1>6. \A i \in 1..Len(signals') : signals'[i] = "better" => i \in 1..Len(signals) /\ signals[i] = "better"
  BY <1>2
<1>7. NoStaleReport'
  BY <1>2, <1>6 DEF IInv, TypeOK, NoStaleReport, Queued, Send, leasing, ladder
<1> QED BY <1>3, <1>5, <1>7 DEF IInv

-----------------------------------------------------------------------------
(***************************************************************************)
(* The loop.                                                               *)
(***************************************************************************)
LEMMA BeginInv ==
    ASSUME IInv, Begin
    PROVE  IInv'
<1>1. Len(signals) \in Nat
  BY DEF IInv, TypeOK
<1>2. TypeOK'
  <2>0. failures \in 0..MaxFailures /\ MaxFailures \in Nat /\ preferred \in BOOLEAN
    BY SupervisorAssumption DEF IInv, TypeOK
  <2>1. failures' \in 0..MaxFailures
    BY <2>0 DEF Begin
  <2>6. preferred' \in BOOLEAN
    BY <2>0 DEF Begin
  <2>2. /\ pc' \in Waits \cup {"establishing"}
        /\ phase' \in Waits \cup {"connecting", "connected"}
    BY DEF IInv, TypeOK, Begin, Waits
  <2>3. backlog' \in 0..Len(signals) /\ (backlog' # 0 => pc' = "establishing")
    BY <1>1 DEF IInv, TypeOK, Begin
  <2>4. pc = "head" /\ resetRetry' = FALSE
        /\ UNCHANGED <<desired, online, sending, signals, session, probe, asked, checking,
                       replacing, outcome, probeUnanswered, inputs>>
    BY DEF Begin, intent
  <2>5. pc' \notin {"connected", "probing", "closing"}
    BY <2>2 DEF Waits
  <2> QED BY <2>1, <2>2, <2>3, <2>4, <2>5, <2>6 DEF IInv, TypeOK
<1>3. NoLostWakeup' /\ RetryNotLeaked' /\ FailureLeavesSignals'
  BY DEF IInv, TypeOK, Begin, intent, Waits, NoLostWakeup, RetryNotLeaked, FailureLeavesSignals
<1>4. NoStaleReport'
  BY <1>1 DEF IInv, TypeOK, Begin, NoStaleReport, Waits
<1> QED BY <1>2, <1>3, <1>4 DEF IInv

LEMMA WaitInv ==
    ASSUME IInv, Wait
    PROVE  IInv'
<1>1. signals' \in Seq(Signals) /\ Head(signals) \in Signals /\ backlog = 0
  BY TailKeeps DEF IInv, TypeOK, Wait, Waits
<1>2. TypeOK'
  BY <1>1, SupervisorAssumption DEF IInv, TypeOK, Wait, Waits, intent, leasing
<1>3. CASE Head(signals) = "better"
  <2>1. Kept
    BY <1>3, ComingWhileTaken, NoneIsNoSignal DEF IInv, Wait, Kept
  <2>2. NoLostWakeup' /\ RetryNotLeaked' /\ FailureLeavesSignals'
    BY <1>3, <2>1 DEF IInv, Kept, Wait, Waits, intent, NoLostWakeup, RetryNotLeaked, FailureLeavesSignals
  <2> QED BY <1>2, <1>3, <2>2 DEF IInv, TypeOK, Wait, Waits, leasing, NoStaleReport
<1>4. CASE Head(signals) # "better"
  BY <1>2, <1>4 DEF IInv, TypeOK, Wait, Waits, leasing, NoLostWakeup, RetryNotLeaked,
     FailureLeavesSignals, NoStaleReport
<1> QED BY <1>3, <1>4

LEMMA DelayedInv ==
    ASSUME IInv, Delayed
    PROVE  IInv'
<1>1. TypeOK'
  BY DEF IInv, TypeOK, Delayed, Waits, intent, queueing, leasing, ladder
<1>2. session = "none"
  BY DEF IInv, TypeOK, Delayed
<1>3. session' = "none" /\ pc' = "head"
  BY <1>2 DEF Delayed, leasing
<1> QED BY <1>1, <1>3 DEF IInv, Waits, NoLostWakeup, RetryNotLeaked, FailureLeavesSignals,
        NoStaleReport

LEMMA ConcludeInv ==
    ASSUME IInv, Conclude
    PROVE  IInv'
<1>1. TypeOK'
  <2>1. outcome' \in [tag : {"none", "stop", "replace", "failed", "blocked"}, established : BOOLEAN]
        /\ outcome'.tag = "none"
    BY DEF Conclude, NoOutcome
  <2>2. /\ failures' \in 0..MaxFailures
        /\ pc' \in {"head", "blocked", "backoff"}
        /\ phase' \in Waits \cup {"connecting", "connected"}
    BY SupervisorAssumption DEF IInv, TypeOK, Conclude, Waits
  <2>3. replacing' \in BOOLEAN /\ probeUnanswered' = FALSE
    BY DEF Conclude
  <2> QED BY <2>1, <2>2, <2>3 DEF IInv, TypeOK, Conclude, Waits, intent, queueing, leasing
<1>2. NoStaleReport'
  BY DEF IInv, TypeOK, Conclude, leasing, NoStaleReport
<1>3. pc' \in {"head", "blocked", "backoff"}
  BY DEF Conclude
<1>4. NoLostWakeup' /\ RetryNotLeaked' /\ FailureLeavesSignals'
  <2>1. CASE pc' = "head"
    BY <2>1 DEF NoLostWakeup, RetryNotLeaked, FailureLeavesSignals, Waits
  <2>2. CASE pc' \in {"blocked", "backoff"}
    <3>1. outcome.tag \in {"failed", "blocked"}
      BY <2>2 DEF Conclude
    <3>2. /\ ~desired => Coming(Waking)
          /\ resetRetry => Coming({"retry"})
      BY <3>1, ComingGrows DEF IInv, Conclude, FailureLeavesSignals, Waking
    <3>3. Kept
      BY StillKept DEF Conclude, queueing
    <3> QED BY <2>2, <3>2, <3>3 DEF Kept, Conclude, intent, queueing, NoLostWakeup, RetryNotLeaked,
            FailureLeavesSignals
  <2> QED BY <1>3, <2>1, <2>2
<1> QED BY <1>1, <1>2, <1>4 DEF IInv

-----------------------------------------------------------------------------
(***************************************************************************)
(* An attempt that connects.                                               *)
(***************************************************************************)
LEMMA ProgressInv ==
    ASSUME IInv, Progress
    PROVE  IInv'
<1>1. TypeOK'
  BY DEF IInv, TypeOK, Progress, intent, queueing, leasing, ladder
<1>2. Kept
  BY StillKept DEF Progress, queueing
<1> QED BY <1>1, <1>2 DEF IInv, Kept, Progress, intent, queueing, leasing, ladder, NoLostWakeup,
        RetryNotLeaked, FailureLeavesSignals, NoStaleReport, Queued

LEMMA TakeEstablishingInv ==
    ASSUME IInv, TakeEstablishing
    PROVE  IInv'
<1>1. /\ signals' \in Seq(Signals)
      /\ Len(signals) \in Nat /\ Len(signals) > 0 /\ Len(signals') = Len(signals) - 1
      /\ \A i \in 1..Len(signals') : signals'[i] = signals[i + 1]
  BY TailKeeps DEF IInv, TypeOK, TakeEstablishing
<1>2. CASE \E tag \in {"stop", "replace"} : Leave(tag)
  BY <1>1, <1>2, LeaveInv DEF IInv, TypeOK, TakeEstablishing
<1>3. CASE /\ Head(signals) \in {"connect", "online", "active", "probe", "better"}
           /\ backlog' = IF backlog > 0 THEN backlog - 1 ELSE 0
           /\ UNCHANGED <<intent, sending, pc, phase, session, probe, asked, checking, failures,
                          replacing, outcome, inputs>>
  <2>1. TypeOK'
    BY <1>1, <1>3 DEF IInv, TypeOK, TakeEstablishing, intent
  <2>2. /\ Coming({"disconnect"}) => Coming({"disconnect"})'
        /\ Coming({"offline"}) => Coming({"offline"})'
        /\ Coming({"retry"}) => Coming({"retry"})'
    BY <1>3, ComingWhileTaken DEF IInv, TakeEstablishing
  <2>3. NoLostWakeup' /\ RetryNotLeaked' /\ FailureLeavesSignals'
    BY <1>3, <2>2 DEF IInv, TakeEstablishing, intent, NoLostWakeup, RetryNotLeaked,
       FailureLeavesSignals, Waits
  <2>4. NoStaleReport'
    <3>1. \A i \in backlog' + 1..Len(signals') : i + 1 \in backlog + 1..Len(signals)
      BY <1>1, <1>3 DEF IInv, TypeOK
    <3>2. \A i \in backlog' + 1..Len(signals') : i \in 1..Len(signals') /\ signals'[i] # "better"
      BY <1>1, <1>3, <3>1 DEF IInv, TypeOK, NoStaleReport, TakeEstablishing
    <3> QED BY <1>3, <3>2 DEF IInv, TypeOK, NoStaleReport, TakeEstablishing
  <2> QED BY <2>1, <2>3, <2>4 DEF IInv
<1> QED BY <1>2, <1>3 DEF TakeEstablishing

LEMMA EstablishFailsInv ==
    ASSUME IInv, EstablishFails
    PROVE  IInv'
BY LeaveInv DEF IInv, TypeOK, EstablishFails

LEMMA EstablishesInv ==
    ASSUME IInv, Establishes
    PROVE  IInv'
<1>1. CASE Leave("stop")
  BY <1>1, LeaveInv DEF IInv, TypeOK, Establishes
<1>2. CASE /\ desired
           /\ session' \in {"lan", "relay"}
           /\ pc' = "connected"
           /\ phase' = "connected"
           /\ UNCHANGED <<intent, sending, probe, asked, checking, failures, replacing, outcome,
                          backlog, inputs>>
  <2>1. TypeOK'
    BY <1>2 DEF IInv, TypeOK, Establishes, intent
  <2>2. Kept
    BY <1>2, StillKept DEF Establishes
  <2>3. NoLostWakeup' /\ RetryNotLeaked' /\ FailureLeavesSignals'
    BY <1>2, <2>2 DEF IInv, Kept, Establishes, intent, NoLostWakeup, RetryNotLeaked,
       FailureLeavesSignals, Waits
  <2>4. NoStaleReport'
    BY <1>2 DEF IInv, TypeOK, Establishes, NoStaleReport, Queued
  <2> QED BY <2>1, <2>3, <2>4 DEF IInv
<1> QED BY <1>1, <1>2 DEF IInv, TypeOK, Establishes

-----------------------------------------------------------------------------
(***************************************************************************)
(* A session and its probes.                                               *)
(***************************************************************************)
\* What the monitor does with a signal that does not end the session.
LEMMA HeedInv ==
    ASSUME IInv, pc \in {"connected", "probing"}, signals # <<>>, signals' = Tail(signals),
           Answered(Head(signals)), Head(signals) # "disconnect", TypeOK',
           pc' \in {"connected", "probing"}, UNCHANGED <<intent, sending, session>>
    PROVE  IInv'
<1>1. /\ Len(signals) \in Nat /\ Len(signals') = Len(signals) - 1
      /\ \A i \in 1..Len(signals') : signals'[i] = signals[i + 1]
  BY TailKeeps DEF IInv, TypeOK
<1>2. /\ Coming({"disconnect"}) => Coming({"disconnect"})'
      /\ Coming({"retry"}) => Coming({"retry"})' \/ Head(signals) = "retry"
  BY ComingWhileTaken DEF IInv
<1>3. NoLostWakeup' /\ RetryNotLeaked' /\ FailureLeavesSignals'
  BY <1>2 DEF IInv, Answered, intent, NoLostWakeup, RetryNotLeaked, FailureLeavesSignals, Waits
<1>4. NoStaleReport'
  BY <1>1 DEF IInv, NoStaleReport, Queued
<1> QED BY <1>3, <1>4 DEF IInv

LEMMA TakeConnectedInv ==
    ASSUME IInv, TakeConnected
    PROVE  IInv'
<1> DEFINE sig == Head(signals)
<1>1. signals' \in Seq(Signals) /\ sig \in Signals /\ resetRetry' \in BOOLEAN
  BY TailKeeps DEF IInv, TypeOK, TakeConnected, Answered
<1>2. CASE Ending(sig)
  <2>1. PICK tag \in {"stop", "replace"} : Leave(tag)
    BY <1>2 DEF TakeConnected, EndLease
  <2> QED BY <1>1, <1>2, <2>1, LeaveInv DEF IInv, TypeOK, TakeConnected, EndLease
<1>3. CASE ~Ending(sig)
  <2>1. sig # "disconnect"
    BY <1>3 DEF Ending
  <2>2. asked' = asked \/ (session = "relay" /\ asked' = "current")
    BY <1>3 DEF TakeConnected, Request
  <2>3. \/ pc' = "probing" /\ probe' \in Probing /\ probeUnanswered' = TRUE
        \/ UNCHANGED <<pc, probe, probeUnanswered>>
    BY <1>3 DEF TakeConnected
  <2>4. "none" \notin Probing
    BY DEF Probing
  <2>5. UNCHANGED <<intent, sending, phase, session, preferred, checking, failures, replacing,
                   outcome, backlog, inputs>>
    BY <1>3 DEF TakeConnected
  <2>6. TypeOK'
    <3>1. /\ asked' \in {"no", "current", "old"}
          /\ "current" \in {asked, checking}' => session = "relay"
      BY <2>2, <2>5 DEF IInv, TypeOK
    <3>2. /\ pc = "connected" /\ session # "none" /\ pc' \in {"connected", "probing"}
          /\ probe' \in Probing \cup {"none"} /\ (probe' # "none" <=> pc' = "probing")
          /\ probeUnanswered' \in BOOLEAN /\ (probeUnanswered' => pc' = "probing")
      <4>1. pc = "connected" /\ session # "none" /\ probe = "none" /\ probeUnanswered = FALSE
        BY DEF IInv, TypeOK, TakeConnected
      <4>2. CASE pc' = "probing" /\ probe' \in Probing /\ probeUnanswered' = TRUE
        BY <2>4, <4>1, <4>2
      <4>3. CASE UNCHANGED <<pc, probe, probeUnanswered>>
        BY <4>1, <4>3
      <4> QED BY <2>3, <4>2, <4>3
    <3>3. backlog' \in 0..Len(signals') /\ backlog' = 0
      BY <1>1, <2>5, <3>2, TailKeeps DEF IInv, TypeOK, TakeConnected
    <3> QED BY <1>1, <2>5, <3>1, <3>2, <3>3 DEF IInv, TypeOK, intent
  <2> QED BY <2>1, <2>3, <2>5, <2>6, HeedInv DEF TakeConnected
<1> QED BY <1>2, <1>3

LEMMA TakeProbingInv ==
    ASSUME IInv, TakeProbing
    PROVE  IInv'
<1> DEFINE sig == Head(signals)
<1>1. signals' \in Seq(Signals) /\ sig \in Signals /\ resetRetry' \in BOOLEAN
  BY TailKeeps DEF IInv, TypeOK, TakeProbing, Answered
<1>2. CASE Ending(sig)
  <2>1. PICK tag \in {"stop", "replace"} : Leave(tag)
    BY <1>2 DEF TakeProbing, EndLease
  <2> QED BY <1>1, <1>2, <2>1, LeaveInv DEF IInv, TypeOK, TakeProbing, EndLease
<1>3. CASE ~Ending(sig)
  <2>1. sig # "disconnect"
    BY <1>3 DEF Ending
  <2>2. probe' \in Probing /\ "none" \notin Probing
    BY <1>3 DEF IInv, TypeOK, TakeProbing, Tightened, Probing
  <2>3. TypeOK'
    BY <1>1, <1>3, <2>2 DEF IInv, TypeOK, TakeProbing, intent
  <2> QED BY <1>3, <2>1, <2>3, HeedInv DEF TakeProbing
<1> QED BY <1>2, <1>3

LEMMA ProbeAnsweredInv ==
    ASSUME IInv, ProbeAnswered
    PROVE  IInv'
<1>1. TypeOK'
  BY DEF IInv, TypeOK, ProbeAnswered, intent, queueing
<1>2. Kept
  BY StillKept DEF ProbeAnswered, queueing
<1> QED BY <1>1, <1>2 DEF IInv, Kept, ProbeAnswered, intent, queueing, NoLostWakeup,
        RetryNotLeaked, FailureLeavesSignals, NoStaleReport, Queued, Waits

LEMMA ProbeFailsInv ==
    ASSUME IInv, ProbeFails
    PROVE  IInv'
BY LeaveInv DEF IInv, TypeOK, ProbeFails

LEMMA ClosesInv ==
    ASSUME IInv, Closes
    PROVE  IInv'
BY LeaveInv DEF IInv, TypeOK, Closes

-----------------------------------------------------------------------------
(***************************************************************************)
(* Better routes.                                                          *)
(***************************************************************************)
LEMMA TickInv ==
    ASSUME IInv, Tick
    PROVE  IInv'
<1>1. TypeOK'
  BY DEF IInv, TypeOK, Tick, Request, Checks, intent, ladder
<1>2. Kept
  BY StillKept DEF Tick, Checks
<1> QED BY <1>1, <1>2 DEF IInv, Kept, Tick, Checks, intent, ladder, NoLostWakeup,
        RetryNotLeaked, FailureLeavesSignals, NoStaleReport, Queued

LEMMA StartCheckInv ==
    ASSUME IInv, StartCheck
    PROVE  IInv'
<1>1. TypeOK'
  BY DEF IInv, TypeOK, StartCheck, Checks, intent, ladder
<1>2. Kept
  BY StillKept DEF StartCheck, Checks
<1> QED BY <1>1, <1>2 DEF IInv, Kept, StartCheck, Checks, intent, ladder, NoLostWakeup,
        RetryNotLeaked, FailureLeavesSignals, NoStaleReport, Queued

LEMMA FinishCheckInv ==
    ASSUME IInv, FinishCheck
    PROVE  IInv'
<1>1. CASE UNCHANGED signals
  <2>1. TypeOK'
    BY <1>1 DEF IInv, TypeOK, FinishCheck, Checks, intent, ladder
  <2>2. Kept
    BY <1>1, StillKept DEF FinishCheck, Checks
  <2> QED BY <1>1, <2>1, <2>2 DEF IInv, Kept, FinishCheck, Checks, intent, ladder, NoLostWakeup,
          RetryNotLeaked, FailureLeavesSignals, NoStaleReport, Queued
<1>2. CASE checking = "current" /\ signals' = Append(signals, "better")
  <2>1. session = "relay" /\ pc \in {"connected", "probing"}
    BY <1>2 DEF IInv, TypeOK
  <2>2. signals \in Seq(Signals) /\ "better" \in Signals
    BY DEF IInv, TypeOK, Signals
  <2>3. signals' \in Seq(Signals) /\ Len(signals') = Len(signals) + 1 /\ Len(signals) \in Nat
    BY <1>2, <2>2
  <2>4. TypeOK'
    BY <1>2, <2>3 DEF IInv, TypeOK, FinishCheck, Checks, intent, ladder
  <2>5. \A S \in {Waking, {"disconnect"}, {"offline"}, {"retry"}} : Queued(S) => Queued(S)'
    BY <1>2, <2>2, AppendKeeps
  <2>6. Kept
    BY <2>5 DEF Kept, Coming, FinishCheck, Checks
  <2>7. NoLostWakeup' /\ RetryNotLeaked' /\ FailureLeavesSignals'
    BY <2>1, <2>6 DEF IInv, Kept, FinishCheck, Checks, intent, ladder, NoLostWakeup,
       RetryNotLeaked, FailureLeavesSignals, Waits
  <2>8. NoStaleReport'
    BY <2>1 DEF FinishCheck, Checks, NoStaleReport
  <2> QED BY <2>4, <2>7, <2>8 DEF IInv
<1> QED BY <1>1, <1>2 DEF FinishCheck

-----------------------------------------------------------------------------
(***************************************************************************)
(* The theorems.                                                           *)
(***************************************************************************)
LEMMA StutterInv ==
    ASSUME IInv, UNCHANGED vars
    PROVE  IInv'
<1>1. TypeOK'
  BY DEF IInv, TypeOK, vars, intent, queueing, leasing, ladder
<1>2. Kept
  BY StillKept DEF vars, queueing
<1> QED BY <1>1, <1>2 DEF IInv, Kept, vars, intent, queueing, leasing, ladder, NoLostWakeup,
        RetryNotLeaked, FailureLeavesSignals, NoStaleReport, Queued

LEMMA StepInv == IInv /\ [Next]_vars => IInv'
<1> SUFFICES ASSUME IInv, [Next]_vars PROVE IInv'
  OBVIOUS
<1>1. CASE \E u \in Users : Connect(u) \/ Disconnect(u) \/ RetryNow(u)
  BY <1>1, ConnectInv, DisconnectInv, RetryNowInv
<1>2. CASE NetworkChanges \/ Wakes \/ \E u \in Senders : Send(u)
  BY <1>2, NetworkChangesInv, WakesInv, SendInv
<1>3. CASE Loop
  BY <1>3, BeginInv, WaitInv, DelayedInv, ConcludeInv, ProgressInv, TakeEstablishingInv,
     EstablishFailsInv, EstablishesInv DEF Loop, Establishment
<1>4. CASE Monitor \/ Closes
  BY <1>4, TakeConnectedInv, TakeProbingInv, ProbeAnsweredInv, ProbeFailsInv, ClosesInv DEF Monitor
<1>5. CASE Tick \/ StartCheck \/ FinishCheck
  BY <1>5, TickInv, StartCheckInv, FinishCheckInv
<1>6. CASE UNCHANGED vars
  BY <1>6, StutterInv
<1> QED BY <1>1, <1>2, <1>3, <1>4, <1>5, <1>6 DEF Next

LEMMA InvAlways == Spec => []IInv
BY InitialInv, StepInv, PTL DEF Spec

\* The state of the supervisor keeps its types; in particular a session is published exactly
\* while its monitor watches it, and a check for the present session means it is on the relay
\* (run, monitorConnectedLease, clearLease).
THEOREM SupervisorTypes == Spec => []TypeOK
<1>1. IInv => TypeOK
  BY DEF IInv
<1> QED BY <1>1, InvAlways, PTL

\* Whatever users and the platform do between two steps of the loop, no wait, attempt or
\* session outlives the intent that has been withdrawn without a signal on its way to it
\* (setDesired, the watchers of the platform, waitForSignal and its kin).
THEOREM WakeupsKept == Spec => []NoLostWakeup
<1>1. IInv => NoLostWakeup
  BY DEF IInv
<1> QED BY <1>1, InvAlways, PTL

\* A retry that a probe has answered is forgotten: it resets no later backoff
\* (resetRetryState in retryNow, run and the monitor).
THEOREM RetryAnsweredOnce == Spec => []RetryNotLeaked
<1>1. IInv => RetryNotLeaked
  BY DEF IInv
<1> QED BY <1>1, InvAlways, PTL

\* Only a session on the relay is given up for the LAN, however late the report of the LAN
\* is (checkBetterRoutes and connectedLeaseEnd).
THEOREM SwitchOnlyFromRelay == Spec => NoNeedlessSwitch
<1>1. ASSUME IInv, signals # <<>>, Head(signals) = "better", pc \in {"connected", "probing"}
      PROVE  session = "relay"
  <2>1. Queued({"better"})
    BY <1>1, TailKeeps DEF IInv, TypeOK, Queued
  <2> QED BY <1>1, <2>1 DEF IInv, TypeOK, NoStaleReport
<1>2. IInv /\ [Next]_vars => [~preferred /\ preferred' => session = "relay"]_vars
  <2> SUFFICES ASSUME IInv, Next, ~preferred, preferred'
               PROVE  session = "relay"
    OBVIOUS
  <2>1. CASE TakeConnected
    BY <1>1, <2>1 DEF TakeConnected, EndLease
  <2>2. CASE TakeProbing
    BY <1>1, <2>2 DEF TakeProbing, EndLease
  <2>3. CASE Loop
    BY <2>3 DEF Loop, Establishment, Begin, Wait, Delayed, Conclude, Progress, TakeEstablishing,
       EstablishFails, Establishes, leasing
  <2>4. CASE ProbeAnswered \/ ProbeFails \/ Closes
    BY <2>4 DEF ProbeAnswered, ProbeFails, Closes
  <2>5. CASE Tick \/ StartCheck \/ FinishCheck
    BY <2>5 DEF Tick, StartCheck, FinishCheck, Checks
  <2>6. CASE \/ \E u \in Users : Connect(u) \/ Disconnect(u) \/ RetryNow(u)
             \/ NetworkChanges \/ Wakes \/ \E u \in Senders : Send(u)
    BY <2>6 DEF Connect, Disconnect, RetryNow, NetworkChanges, Wakes, Send, leasing
  <2> QED BY <2>1, <2>2, <2>3, <2>4, <2>5, <2>6 DEF Next, Monitor
<1> QED BY <1>2, InvAlways, PTL DEF Spec, NoNeedlessSwitch
=============================================================================
