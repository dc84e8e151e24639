----------------------------- MODULE MCAgentRuns -----------------------------
(***************************************************************************)
(* Small instances of AgentRuns for TLC: the task graphs, the estimates    *)
(* and the parallelism each configuration picks its constants from.        *)
(***************************************************************************)
EXTENDS AgentRuns, TLC

CONSTANTS r1, r2, s1, s2, s3, t1, t2, o1, o2

(* One run of two steps, as startCodingRun builds them: a chain.           *)
Chain == [s \in Step |-> IF s = s2 THEN {s1} ELSE {}]
(* Steps that do not wait for each other.                                  *)
Free == [s \in Step |-> {}]
(* Two steps of one run that a third joins.                                *)
Join == [s \in Step |-> IF s = s3 THEN {s1, s2} ELSE {}]

OneRun  == [s \in Step |-> r1]
EachItsOwnRun == [s \in Step |-> IF s = s1 THEN r1 ELSE r2]

Serial == [r \in Run |-> 1]
Two    == [r \in Run |-> 2]

Cheap == [s \in Step |-> 1]
Dear  == [s \in Step |-> 2]

(* Ticks differ in nothing but their names.                                *)
TickSymmetry == Permutations(Tick)
=============================================================================
