-------------------------- MODULE MCSessionDaemon --------------------------
(***************************************************************************)
(* Small instances of SessionDaemon for TLC.                               *)
(***************************************************************************)
EXTENDS SessionDaemon

CONSTANTS tui, ide, s1, s2, k1, k2
=============================================================================
