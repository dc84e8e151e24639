---------------------------- MODULE MCSandboxes ----------------------------
(***************************************************************************)
(* A small instance of Sandboxes for TLC.                                  *)
(***************************************************************************)
EXTENDS Sandboxes

CONSTANTS b1, b2
=============================================================================
