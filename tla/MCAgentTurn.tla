----------------------------- MODULE MCAgentTurn -----------------------------
(***************************************************************************)
(* Small instances of AgentTurn for TLC.                                   *)
(***************************************************************************)
EXTENDS AgentTurn, TLC

CONSTANTS read, edit, run, deploy, delegate, ghost

AllCalls == (read :> "read") @@ (edit :> "write") @@ (run :> "command") @@ (deploy :> "deploy")
              @@ (delegate :> "delegate") @@ (ghost :> "unknown")
SensitiveCalls == {edit} \cap Call

KindOf == [c \in Call |-> AllCalls[c]]
=============================================================================
