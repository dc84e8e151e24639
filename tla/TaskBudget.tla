------------------------------ MODULE TaskBudget ------------------------------
(***************************************************************************)
(* What the hosted control plane promises about a task's money, and the    *)
(* only thing it promises: an approved cap, what has been spent, and what  *)
(* is reserved for work in flight.  A reservation is taken only when it    *)
(* fits under the cap, it is settled for at most its own amount, and the   *)
(* cap only ever rises.  apps/web/lib/agent-budget.ts states this on       *)
(* paper; module AgentRuns is shown to implement it.                       *)
(***************************************************************************)
EXTENDS Integers

CONSTANT Quote        \* the cap the task was quoted with

VARIABLES maxRwf, spentRwf, reservedRwf

budget == <<maxRwf, spentRwf, reservedRwf>>

Init == maxRwf = Quote /\ spentRwf = 0 /\ reservedRwf = 0

(* A reservation is allowed when the projected total stays under the cap.  *)
Reserve == /\ reservedRwf' > reservedRwf
           /\ spentRwf + reservedRwf' <= maxRwf
           /\ UNCHANGED <<maxRwf, spentRwf>>

(* Settling gives a reservation back and charges at most that reservation; *)
(* releasing one is settling it for nothing.                               *)
Settle == LET settled == reservedRwf - reservedRwf'
              actual  == spentRwf' - spentRwf
          IN  /\ settled >= 0 /\ reservedRwf' >= 0
              /\ actual >= 0 /\ actual <= settled
              /\ spentRwf' <= maxRwf
              /\ UNCHANGED maxRwf

(* A new, higher cap was approved.                                         *)
RaiseCap == maxRwf' > maxRwf /\ UNCHANGED <<spentRwf, reservedRwf>>

Next == Reserve \/ Settle \/ RaiseCap

Spec == Init /\ [][Next]_budget
=============================================================================
