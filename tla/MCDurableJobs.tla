---------------------------- MODULE MCDurableJobs ----------------------------
(***************************************************************************)
(* Small instances of DurableJobs for TLC.                                 *)
(***************************************************************************)
EXTENDS DurableJobs, TLC

CONSTANTS j1, j2, d1, d2

(* j1 was enqueued before j2.                                              *)
FirstThenSecond == [j \in Job |-> IF j = j1 THEN 1 ELSE 2]

(* Actions are told apart by their digest only.                            *)
Symmetry == Permutations(Digest)
=============================================================================
