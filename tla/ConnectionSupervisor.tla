------------------------ MODULE ConnectionSupervisor ------------------------
(***************************************************************************)
(* How a client keeps its connection to one server: supervisor.ts of the   *)
(* client runtime, for a server that is reached over a LAN, which is       *)
(* preferred, or over a relay.                                             *)
(*                                                                         *)
(* Users and the platform change what is intended and then signal it, in   *)
(* two steps.  One fiber, the loop, reads the intent, runs an attempt until*)
(* its session ends, and otherwise waits for a signal.  Whoever takes a    *)
(* signal decides what becomes of it: the loop that waits, the race of an  *)
(* attempt that connects, the monitor of a session, its probe.  A further  *)
(* fiber checks whether the LAN answers while a session runs over the      *)
(* relay.                                                                  *)
(***************************************************************************)
EXTENDS Integers, Sequences

CONSTANTS
    Users,          \* callers of connect, disconnect and retryNow
    MaxFailures,    \* bound: the retry ladder is not told apart beyond it
    MaxInputs,      \* bound: calls of users and reports of the platform
    MaxQueue        \* bound: no better route is reported to a longer queue

Platform == {"connectivity", "wakeups"}

ASSUME SupervisorAssumption ==
    /\ Users \cap (Platform \cup {"none"}) = {}
    /\ {MaxFailures, MaxInputs, MaxQueue} \subseteq Nat

Senders == Users \cup Platform

VARIABLES
    desired, online,    \* intent
    sending,    \* the signal each sender has still to put into the queue
    signals,
    resetRetry, \* resetRetryState: the next round starts a new retry ladder
    pc,         \* where the loop stands
    phase,      \* state.phase: what is published
    failures,   \* failureCount
    replacing,  \* the attempt replaces a session that is suspect, offline or not
    outcome,    \* of the attempt that ends: [tag, established]
    backlog,    \* the signals that were queued before the attempt and are still
    session,    \* the route of the published session
    probe,      \* the probe of that session
    probeUnanswered,
    preferred,  \* preferredRouteId: the LAN is tried first
    asked, checking, \* betterRouteChecks and the check that runs: for which lease
    inputs

intent == <<desired, online>>
queueing == <<sending, signals, resetRetry>>
leasing == <<session, probe, preferred, asked, checking>>
ladder == <<failures, replacing, outcome, backlog, probeUnanswered>>
vars == <<intent, queueing, pc, phase, leasing, ladder, inputs>>

Waits == {"available", "offline", "blocked", "backoff"}
Probing == {"active", "probe", "long", "retry", "offline"}      \* probeTimeoutFor
Activating == {"active", "probe", "long"}                       \* resetsRetryBackoff
Waking == Probing \cup {"connect", "disconnect", "online", "credentials"}
Signals == Waking \cup {"better"}

NoOutcome == [tag |-> "none", established |-> FALSE]

Init ==
    /\ desired \in BOOLEAN
    /\ online \in BOOLEAN
    /\ sending = [u \in Senders |-> "none"]
    /\ signals = <<>>
    /\ resetRetry = FALSE
    /\ pc = "head"
    /\ phase = IF ~desired THEN "available" ELSE IF online THEN "connecting" ELSE "offline"
    /\ failures = 0
    /\ replacing = FALSE
    /\ outcome = NoOutcome
    /\ backlog = 0
    /\ session = "none"
    /\ probe = "none"
    /\ probeUnanswered = FALSE
    /\ preferred = FALSE
    /\ asked = "no"
    /\ checking = "no"
    /\ inputs = 0

-----------------------------------------------------------------------------
(***************************************************************************)
(* Users and the platform.                                                 *)
(***************************************************************************)
Input(u, sig) ==
    /\ sending[u] = "none"
    /\ inputs < MaxInputs
    /\ inputs' = inputs + 1
    /\ sending' = [sending EXCEPT ![u] = sig]

Connect(u) ==
    /\ Input(u, "connect")
    /\ desired' = TRUE
    /\ UNCHANGED <<online, signals, resetRetry, pc, phase, leasing, ladder>>

Disconnect(u) ==
    /\ Input(u, "disconnect")
    /\ desired' = FALSE
    /\ UNCHANGED <<online, signals, resetRetry, pc, phase, leasing, ladder>>

RetryNow(u) ==
    /\ Input(u, "retry")
    /\ resetRetry' = TRUE
    /\ UNCHANGED <<intent, signals, pc, phase, leasing, ladder>>

\* Mutant of NetworkChanges: only the loss of the network is signalled.
LossSignalled ==
    /\ Input("connectivity", IF online THEN "offline" ELSE "none")
    /\ online' = ~online
    /\ UNCHANGED <<desired, signals, resetRetry, pc, phase, leasing, ladder>>

\* A report that changes nothing is dropped.
NetworkChanges ==
    /\ Input("connectivity", IF online THEN "offline" ELSE "online")
    /\ online' = ~online
    /\ UNCHANGED <<desired, signals, resetRetry, pc, phase, leasing, ladder>>

\* "probe" stands for application-active-probe and network-changed, "long" for a return
\* from a long suspension.
Wakes ==
    /\ \E reason \in Activating \cup {"credentials"} : Input("wakeups", reason)
    /\ UNCHANGED <<intent, signals, resetRetry, pc, phase, leasing, ladder>>

Send(u) ==
    /\ sending[u] # "none"
    /\ signals' = Append(signals, sending[u])
    /\ sending' = [sending EXCEPT ![u] = "none"]
    /\ UNCHANGED <<intent, resetRetry, pc, phase, leasing, ladder, inputs>>

-----------------------------------------------------------------------------
(***************************************************************************)
(* The loop: run.                                                          *)
(***************************************************************************)
\* One round begins: the intent is read, and the loop parks or an attempt starts.
Begin ==
    LET left == IF resetRetry THEN 0 ELSE failures IN
    /\ pc = "head"
    /\ resetRetry' = FALSE
    /\ \/ /\ ~desired
          /\ pc' = "available" /\ phase' = "available" /\ failures' = 0
          /\ UNCHANGED <<preferred, backlog>>
       \/ /\ desired /\ ~online /\ ~replacing
          /\ pc' = "offline" /\ phase' = "offline" /\ failures' = left
          /\ UNCHANGED <<preferred, backlog>>
       \/ /\ desired /\ (online \/ replacing)
          /\ pc' = "establishing" /\ failures' = left
          /\ preferred' = FALSE
          /\ backlog' = Len(signals)
          /\ UNCHANGED phase
    /\ UNCHANGED <<intent, sending, signals, session, probe, asked, checking, replacing, outcome,
                   probeUnanswered, inputs>>

\* waitForSignal and waitForRetrySignal: any signal wakes the loop, except for the report of
\* a better route.
Wait ==
    /\ pc \in Waits
    /\ signals # <<>>
    /\ signals' = Tail(signals)
    /\ pc' = IF Head(signals) = "better" THEN pc ELSE "head"
    /\ failures' = IF Head(signals) \in Activating THEN 0 ELSE failures
    /\ UNCHANGED <<intent, sending, resetRetry, phase, leasing, replacing, outcome, backlog,
                   probeUnanswered, inputs>>

\* The delay of the backoff is over.
Delayed ==
    /\ pc = "backoff"
    /\ pc' = "head"
    /\ UNCHANGED <<intent, queueing, phase, leasing, ladder, inputs>>

\* What the end of an attempt does at once: clearLease.
Leave(tag) ==
    /\ pc' = "closing"
    /\ outcome' = [tag |-> tag, established |-> session # "none"]
    /\ session' = "none"
    /\ probe' = "none"
    /\ asked' = IF asked = "current" THEN "old" ELSE asked
    /\ checking' = IF checking = "current" THEN "old" ELSE checking
    /\ backlog' = 0
    /\ UNCHANGED <<intent, sending, phase, failures, replacing, inputs>>

\* The scope of the attempt has been closed, and the loop sees what became of it.
Conclude ==
    LET Higher(n) == IF n < MaxFailures THEN n + 1 ELSE n
    IN
    /\ pc = "closing"
    /\ replacing' = (outcome.tag = "replace")
    /\ probeUnanswered' = FALSE
    /\ outcome' = NoOutcome
    /\ \E stable \in {FALSE, outcome.established} :
          LET left == IF stable THEN 0 ELSE failures IN
          \/ /\ outcome.tag = "stop"
             /\ failures' = left /\ pc' = "head" /\ UNCHANGED phase
          \/ /\ outcome.tag = "replace"
             /\ failures' = 0 /\ pc' = "head" /\ UNCHANGED phase
          \/ /\ outcome.tag = "blocked"
             /\ failures' = left /\ pc' = "blocked" /\ phase' = "blocked"
          \/ /\ outcome.tag = "failed" /\ probeUnanswered
             /\ failures' = 0 /\ pc' = "head" /\ phase' = "connecting"
          \/ /\ outcome.tag = "failed" /\ ~probeUnanswered
             /\ failures' = Higher(left) /\ pc' = "backoff" /\ phase' = "backoff"
    /\ UNCHANGED <<intent, queueing, leasing, backlog, inputs>>

-----------------------------------------------------------------------------
(***************************************************************************)
(* An attempt that connects: runAttempt and waitForEstablishmentInterrupt. *)
(***************************************************************************)
Progress ==
    /\ pc = "establishing"
    /\ phase # "connecting"
    /\ phase' = "connecting"
    /\ UNCHANGED <<intent, queueing, pc, leasing, ladder, inputs>>

\* The signals that end an attempt; the others are dropped.
TakeEstablishing ==
    /\ pc = "establishing"
    /\ signals # <<>>
    /\ signals' = Tail(signals)
    /\ UNCHANGED <<resetRetry, preferred, probeUnanswered>>
    /\ \/ Head(signals) \in {"disconnect", "retry", "offline", "credentials"} /\ Leave("stop")
       \/ Head(signals) = "long" /\ Leave("replace")
       \/ /\ Head(signals) \in {"connect", "online", "active", "probe", "better"}
          /\ backlog' = IF backlog > 0 THEN backlog - 1 ELSE 0
          /\ UNCHANGED <<intent, sending, pc, phase, session, probe, asked, checking, failures,
                         replacing, outcome, inputs>>

\* Every route has failed, or the time for all of them is over.
EstablishFails ==
    /\ pc = "establishing"
    /\ \E tag \in {"failed", "blocked"} : Leave(tag)
    /\ UNCHANGED <<signals, resetRetry, preferred, probeUnanswered>>

\* The driver returns a session.  By then the race has taken what was queued before.  The
\* intent is read again.
Establishes ==
    /\ pc = "establishing"
    /\ backlog = 0
    /\ IF ~desired \/ (~online /\ ~replacing)
       THEN Leave("stop")
       ELSE /\ session' \in {"lan", "relay"}
            /\ pc' = "connected"
            /\ phase' = "connected"
            /\ UNCHANGED <<intent, sending, probe, asked, checking, failures, replacing, outcome,
                           backlog, inputs>>
    /\ UNCHANGED <<signals, resetRetry, preferred, probeUnanswered>>

-----------------------------------------------------------------------------
(***************************************************************************)
(* A session: monitorConnectedLease and its probes.                        *)
(***************************************************************************)
\* Mutant of Answered: the retry stays recorded.
StillRecorded(sig) == UNCHANGED resetRetry

\* A probe answers an explicit retry, which must not reset the backoff of a later failure.
Answered(sig) == resetRetry' = (resetRetry /\ sig # "retry")

\* connectedLeaseEnd: the signals that end a session.
Ending(sig) ==
    sig \in {"disconnect", "better"} \/ (sig = "credentials" /\ session = "relay")

EndLease(sig) ==
    /\ Leave(IF sig = "better" THEN "replace" ELSE "stop")
    /\ preferred' = (preferred \/ sig = "better")

\* requestBetterRouteCheck: the queue of checks keeps one.
Request == asked' = IF session = "relay" /\ asked = "no" THEN "current" ELSE asked

\* A signal that calls for a probe starts one.
TakeConnected ==
    LET sig == Head(signals) IN
    /\ pc = "connected"
    /\ signals # <<>>
    /\ signals' = Tail(signals)
    /\ Answered(sig)
    /\ \/ Ending(sig) /\ EndLease(sig) /\ UNCHANGED probeUnanswered
       \/ /\ ~Ending(sig)
          /\ IF sig \in Activating \cup {"online"} THEN Request ELSE UNCHANGED asked
          /\ IF sig \in Probing
             THEN pc' = "probing" /\ probe' = sig /\ probeUnanswered' = TRUE
             ELSE UNCHANGED <<pc, probe, probeUnanswered>>
          /\ UNCHANGED <<intent, sending, phase, session, preferred, checking, failures,
                         replacing, outcome, backlog, inputs>>

\* armSilentSocketCheck and longResume: what the running probe answers for from now on.
Tightened(sig) ==
    IF sig = "long" \/ (probe = "active" /\ sig \in Probing) THEN sig ELSE probe

\* Mutant of TakeProbing: what ends the session is left to the monitor that waits for the probe.
TakeWithoutEnding ==
    LET sig == Head(signals) IN
    /\ pc = "probing"
    /\ signals # <<>>
    /\ signals' = Tail(signals)
    /\ Answered(sig)
    /\ probe' = Tightened(sig)
    /\ UNCHANGED <<intent, sending, pc, phase, session, preferred, asked, checking, ladder, inputs>>

\* Further signals may end the session, or tighten the probe that runs.
TakeProbing ==
    LET sig == Head(signals) IN
    /\ pc = "probing"
    /\ signals # <<>>
    /\ signals' = Tail(signals)
    /\ Answered(sig)
    /\ UNCHANGED probeUnanswered
    /\ \/ Ending(sig) /\ EndLease(sig)
       \/ /\ ~Ending(sig)
          /\ probe' = Tightened(sig)
          /\ UNCHANGED <<intent, sending, pc, phase, session, preferred, asked, checking, failures,
                         replacing, outcome, backlog, inputs>>

\* Mutant of ProbeAnswered: the answer is not noted.
ProbeAnsweredUnnoted ==
    /\ pc = "probing"
    /\ pc' = "connected"
    /\ probe' = "none"
    /\ UNCHANGED <<intent, queueing, phase, session, preferred, asked, checking, ladder, inputs>>

ProbeAnswered ==
    /\ pc = "probing"
    /\ pc' = "connected"
    /\ probe' = "none"
    /\ probeUnanswered' = FALSE
    /\ UNCHANGED <<intent, queueing, phase, session, preferred, asked, checking, failures,
                   replacing, outcome, backlog, inputs>>

\* The probe fails or its time is over; after a long suspension a late answer is as good as
\* none, and a socket that is silent while its host answers is replaced at once.  The probe
\* of a return to the app alone does not look for that.
ProbeFails ==
    /\ pc = "probing"
    /\ \E tag \in {"failed", "blocked", "replace"} :
          /\ tag = "replace" => probe # "active"
          /\ Leave(tag)
    /\ UNCHANGED <<signals, resetRetry, preferred, probeUnanswered>>

\* The session closes by itself.
Closes ==
    /\ pc \in {"connected", "probing"}
    /\ \E tag \in {"failed", "blocked"} : Leave(tag)
    /\ UNCHANGED <<signals, resetRetry, preferred, probeUnanswered>>

-----------------------------------------------------------------------------
(***************************************************************************)
(* Better routes: checkBetterRoutes.                                       *)
(***************************************************************************)
Checks == <<intent, sending, resetRetry, pc, phase, session, probe, preferred, ladder, inputs>>

\* Every minute.
Tick ==
    /\ pc \in {"connected", "probing"}
    /\ Request
    /\ UNCHANGED <<Checks, signals, checking>>

StartCheck ==
    /\ checking = "no"
    /\ asked # "no"
    /\ checking' = asked
    /\ asked' = "no"
    /\ UNCHANGED <<Checks, signals>>

\* Mutant of FinishCheck: the session is not compared with the one that was checked.
FinishAnyCheck ==
    /\ checking # "no"
    /\ checking' = "no"
    /\ \/ UNCHANGED signals
       \/ Len(signals) < MaxQueue /\ signals' = Append(signals, "better")
    /\ UNCHANGED <<Checks, asked>>

\* The LAN answers or not; it is reported only to the session that was checked.
FinishCheck ==
    /\ checking # "no"
    /\ checking' = "no"
    /\ \/ UNCHANGED signals
       \/ checking = "current" /\ Len(signals) < MaxQueue /\ signals' = Append(signals, "better")
    /\ UNCHANGED <<Checks, asked>>

-----------------------------------------------------------------------------
Establishment == Progress \/ TakeEstablishing \/ EstablishFails \/ Establishes

Monitor == TakeConnected \/ TakeProbing \/ ProbeAnswered \/ ProbeFails

Loop == Begin \/ Wait \/ Delayed \/ Conclude \/ Establishment

Next ==
    \/ \E u \in Users : Connect(u) \/ Disconnect(u) \/ RetryNow(u)
    \/ NetworkChanges \/ Wakes
    \/ \E u \in Senders : Send(u)
    \/ Loop \/ Monitor \/ Closes
    \/ Tick \/ StartCheck \/ FinishCheck

Spec == Init /\ [][Next]_vars

\* Senders send, the loop and the monitor go on: an attempt and a probe have deadlines.
\* Sessions need not close, and nobody has to call.
FairSpec ==
    /\ Spec
    /\ \A u \in Senders : WF_vars(Send(u))
    /\ WF_vars(Loop)
    /\ WF_vars(Monitor)

-----------------------------------------------------------------------------
(***************************************************************************)
(* Properties.                                                             *)
(***************************************************************************)
Queued(sigs) == \E i \in 1..Len(signals) : signals[i] \in sigs

\* A signal of sigs is in the queue or about to be.
Coming(sigs) == Queued(sigs) \/ \E u \in Senders : sending[u] \in sigs

\* Types; there is a session exactly while the monitor watches one, a probe is unanswered
\* only while it runs or its session ends, and a check is for the present lease only while
\* that is on the relay.
TypeOK ==
    /\ {desired, online, resetRetry, replacing, probeUnanswered, preferred} \subseteq BOOLEAN
    /\ sending \in [Senders -> Waking \cup {"none"}]
    /\ signals \in Seq(Signals)
    /\ pc \in Waits \cup {"head", "establishing", "connected", "probing", "closing"}
    /\ phase \in Waits \cup {"connecting", "connected"}
    /\ failures \in 0..MaxFailures
    /\ backlog \in 0..Len(signals)
    /\ backlog # 0 => pc = "establishing"
    /\ {asked, checking} \subseteq {"no", "current", "old"}
    /\ outcome \in [tag : {"none", "stop", "replace", "failed", "blocked"}, established : BOOLEAN]
    /\ outcome.tag # "none" <=> pc = "closing"
    /\ inputs \in 0..MaxInputs
    /\ session # "none" <=> pc \in {"connected", "probing"}
    /\ session \in {"none", "lan", "relay"}
    /\ probe \in Probing \cup {"none"}
    /\ probe # "none" <=> pc = "probing"
    /\ probeUnanswered => pc \in {"probing", "closing"}
    /\ "current" \in {asked, checking} => session = "relay"

\* What a strengthening of the two properties below says of the end of an attempt: a session
\* or an attempt that fails leaves the signals it has not taken to the loop.
FailureLeavesSignals ==
    pc = "closing" /\ outcome.tag \in {"failed", "blocked"} =>
        /\ ~desired => Coming({"disconnect"})
        /\ resetRetry => Coming({"retry"})

\* A report of a better route waits only where it is dropped or where it was made for.
NoStaleReport ==
    /\ session = "lan" => ~Queued({"better"})
    /\ pc = "establishing" => \A i \in backlog + 1..Len(signals) : signals[i] # "better"

\* No wake-up is lost: where the intent contradicts what the loop waits for or works on, a
\* signal that will tell it is in the queue, or its sender is about to put it there.
NoLostWakeup ==
    /\ pc = "available" /\ desired => Coming(Waking)
    /\ pc \in Waits \ {"available"} /\ ~desired => Coming(Waking)
    /\ pc = "offline" /\ online => Coming(Waking)
    /\ pc \in {"establishing", "connected", "probing"} /\ ~desired => Coming({"disconnect"})
    /\ pc = "establishing" /\ ~online /\ ~replacing => Coming({"offline"})

\* An explicit retry resets the ladder once: the record of it is never left over to reset the
\* backoff of a later failure, when its signal has already been answered by a probe.
RetryNotLeaked == resetRetry => Coming({"retry"}) \/ pc \in {"head", "closing"}

\* A session is given up for the LAN only if it runs over the relay, although the check that
\* found the LAN may have begun for a session that has since been replaced.
NoNeedlessSwitch == [][~preferred /\ preferred' => session = "relay"]_vars

\* What is intended comes about: a disconnection ends every attempt and every session,
\* probes included, and a server that is wanted while there is a network is tried, unless a
\* user has to act first.
IntentRealised ==
    /\ ~desired ~> desired \/ (phase = "available" /\ session = "none")
    /\ (desired /\ online) ~>
          (~desired \/ ~online \/ pc \in {"establishing", "connected", "probing", "blocked"})
=============================================================================
