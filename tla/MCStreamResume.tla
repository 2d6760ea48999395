--------------------------- MODULE MCStreamResume ---------------------------
(***************************************************************************)
(* An instance of StreamResume: the shell stream of one client that skips  *)
(* messages, behind two writers.                                           *)
(***************************************************************************)
EXTENDS StreamResume, TLC

CONSTANTS w1, w2, app

MCKinds == {"message", "run"}

\* One event of a type, one of a project, and a pair in one transaction.
MCBatches == {<<"run">>, <<"project">>, <<"message", "run">>}

MCHubOf == [s \in Subscribers |-> "application"]

MCWants == [s \in Subscribers |-> {"run", "project"}]
=============================================================================
