-------------------------- MODULE MCScheduledRuns --------------------------
(***************************************************************************)
(* Small instances of ScheduledRuns for TLC.                               *)
(***************************************************************************)
EXTENDS ScheduledRuns, TLC

CONSTANTS task1, task2, digest

Limits == [coding |-> 2, calendar |-> 1]

(* Schedules that always have a next occurrence.                           *)
Endless == [s \in Schedules |-> MaxTime + 2]

(* A schedule for the 29th of February: after its first occurrence there   *)
(* is none for more than 370 days.                                         *)
LeapDay == task1 :> 1 @@ task2 :> MaxTime + 2 @@ digest :> MaxTime + 2
=============================================================================
