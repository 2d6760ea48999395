----------------------- MODULE MCConnectionSupervisor -----------------------
(***************************************************************************)
(* An instance of ConnectionSupervisor: two users beside the platform.     *)
(***************************************************************************)
EXTENDS ConnectionSupervisor, TLC

CONSTANTS u1, u2
=============================================================================
