-------------------------- MODULE MCChildSessions --------------------------
(***************************************************************************)
(* Small instances of ChildSessions for TLC.                               *)
(***************************************************************************)
EXTENDS ChildSessions

CONSTANTS c1, c2, c3
=============================================================================
