----------------------- MODULE MCDelegatedCompletion -----------------------
(***************************************************************************)
(* Instances of DelegatedCompletion: task a wakes the parent at once, task *)
(* b is watched by a blocking wait.                                        *)
(***************************************************************************)
EXTENDS DelegatedCompletion

CONSTANTS a, b
=============================================================================
