---------------------------- MODULE MCEventSink ----------------------------
(***************************************************************************)
(* An instance of EventSink: two clients, what they ask for, and what a    *)
(* transaction may append.                                                 *)
(***************************************************************************)
EXTENDS EventSink, TLC

CONSTANTS w1, w2, app, whole

\* Two types of agent events.
MCKinds == {"message", "run"}

\* One event of a type, one of a project, and a pair in one transaction.
MCBatches == {<<"run">>, <<"project">>, <<"message", "run">>}

\* The application stream and the stream of all agent events.
MCHubOf == [s \in Subscribers |-> IF s = app THEN "application" ELSE "all"]

\* The application client skips messages.
MCWants == [s \in Subscribers |-> IF s = app THEN {"run", "project"} ELSE MCKinds]

WriterSymmetry == Permutations(Writers)
=============================================================================
