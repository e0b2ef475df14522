---------------------------- MODULE MCHAManager ----------------------------
(***************************************************************************)
(* One manager of three peers, the one of the middle rank, against every   *)
(* environment.  Managers do not read each other's state here, so one is   *)
(* enough.                                                                 *)
(***************************************************************************)
EXTENDS HAManager

MCPeer == {1, 2, 3}
MCManager == {2}
MCThreshold == 2
=============================================================================
