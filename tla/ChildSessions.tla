--------------------------- MODULE ChildSessions ---------------------------
(***************************************************************************)
(* ChildSessionRegistry of child-session.ts for one parent session: the    *)
(* children it spawns, the pool their budgets are reserved from, the git   *)
(* worktrees they work in, and the teardown of the parent.  A child is a   *)
(* session of the daemon, reduced here to the turns it runs.               *)
(*                                                                         *)
(* The parent spawns nothing more once it is torn down; what it was still  *)
(* spawning goes on.                                                       *)
(***************************************************************************)
EXTENDS Naturals, FiniteSets, Functions

CONSTANTS
  Children, NoChild,
  Total,          \* parentRemainingRwf: what the pool starts with
  Amounts,        \* the ceilings (maxRwf) children are spawned with
  MaxChildTurns        \* bound on the turns of a child

ASSUME ChildAssumption ==
  IsFiniteSet(Children) /\ NoChild \notin Children /\ Total \in Nat /\ Amounts \subseteq Nat /\ MaxChildTurns \in Nat

VARIABLES
  remaining, reservations,    \* the ChildBudgetPool
  phase,
  ceiling,        \* the maxRwf of a child: what one turn of it may cost
  worktree,       \* the child's worktree: "left" is one that could not be removed
  busy, turns,    \* is a turn running, how many were begun
  spentRwf,       \* what the registry recorded for a child
  billed,         \* history: what the model provider charged for it
  kept,           \* history: what the pool kept of its reservation
  missed,         \* history: a charge was not recorded when the pool settled
  teardown, toFinish, finishing,
  late            \* history: children still being spawned at the teardown

childVars == <<remaining, reservations, phase, ceiling, worktree, busy, turns, spentRwf,
          billed, kept, missed, teardown, toFinish, finishing, late>>

money == <<remaining, reservations, kept>>
work == <<busy, turns, spentRwf, billed>>
tearing == <<teardown, toFinish, finishing, late>>

Spawning == {"worktree", "opening"}
Listed == {"live", "settled", "disposed", "stranded"}     \* in sessions and childrenOf
Absent == {"new", "gone", "failed"}

Zero == [c \in Children |-> 0]
ChildInit ==
  /\ remaining = Total /\ reservations = Zero
  /\ phase = [c \in Children |-> "new"] /\ ceiling = Zero
  /\ worktree = [c \in Children |-> "none"]
  /\ busy = [c \in Children |-> FALSE] /\ turns = Zero
  /\ spentRwf = Zero /\ billed = Zero /\ kept = Zero /\ missed = {}
  /\ teardown = "no" /\ toFinish = {} /\ finishing = NoChild /\ late = {}

Goto(c, to) == phase' = [phase EXCEPT ![c] = to]

Lesser(a, b) == IF a < b THEN a ELSE b

(* Mutant: the reservation is not given up.                              *)
SettleKeepsIt(c, spent) ==
  LET charge == Lesser(spent, reservations[c]) IN
  /\ remaining' = remaining + (reservations[c] - charge)
  /\ reservations' = reservations
  /\ kept' = [kept EXCEPT ![c] = charge]

(* settle: keeps what was spent, at most the reservation, refunds the rest.*)
Settle(c, spent) ==
  LET charge == Lesser(spent, reservations[c]) IN
  /\ remaining' = remaining + (reservations[c] - charge)
  /\ reservations' = [reservations EXCEPT ![c] = 0]
  /\ kept' = [kept EXCEPT ![c] = charge]
-----------------------------------------------------------------------------
(* Mutant: the pool is not asked whether the amount fits.                *)
SpawnUnchecked(c, amount) ==
  /\ phase[c] = "new" /\ teardown = "no"
  /\ amount > 0
  /\ remaining' = remaining - amount
  /\ reservations' = [reservations EXCEPT ![c] = amount]
  /\ ceiling' = [ceiling EXCEPT ![c] = amount]
  /\ Goto(c, "worktree")
  /\ UNCHANGED <<kept, worktree, work, missed, tearing>>

(* spawn reserves first: a child the pool cannot pay for leaves nothing.   *)
Spawn(c, amount) ==
  /\ phase[c] = "new" /\ teardown = "no"
  /\ amount > 0 /\ amount <= remaining
  /\ remaining' = remaining - amount
  /\ reservations' = [reservations EXCEPT ![c] = amount]
  /\ ceiling' = [ceiling EXCEPT ![c] = amount]
  /\ Goto(c, "worktree")
  /\ UNCHANGED <<kept, worktree, work, missed, tearing>>

WorktreeAdded(c) ==
  /\ phase[c] = "worktree"
  /\ worktree' = [worktree EXCEPT ![c] = "added"]
  /\ Goto(c, "opening")
  /\ UNCHANGED <<money, ceiling, work, missed, tearing>>

SpawnEnds(c) ==
  /\ phase[c] = "opening"
  /\ Goto(c, "live")
  /\ UNCHANGED <<money, ceiling, worktree, work, missed, tearing>>

(* The worktree or the session could not be made.                          *)
SpawnFails(c) ==
  /\ phase[c] \in Spawning
  /\ Settle(c, 0)
  /\ Goto(c, IF worktree[c] = "added" THEN "failing" ELSE "failed")
  /\ UNCHANGED <<ceiling, worktree, work, missed, tearing>>

(* removeChildWorktree: its failure is swallowed, and the child forgotten  *)
(* with the worktree still there.                                          *)
RemovesWorktree(c, way) == worktree' = [worktree EXCEPT ![c] = way]

SpawnUndone(c, way) ==
  /\ phase[c] = "failing"
  /\ RemovesWorktree(c, way)
  /\ Goto(c, "failed")
  /\ UNCHANGED <<money, ceiling, work, missed, tearing>>
-----------------------------------------------------------------------------
TurnBegins(c) ==
  /\ phase[c] = "live" /\ ~busy[c] /\ turns[c] < MaxChildTurns
  /\ busy' = [busy EXCEPT ![c] = TRUE]
  /\ turns' = [turns EXCEPT ![c] = @ + 1]
  /\ UNCHANGED <<money, phase, ceiling, worktree, spentRwf, billed, missed, tearing>>

(* Mutant: a turn replaces what earlier turns spent.                     *)
TurnEndsOverwrites(c, cost) ==
  /\ busy[c]
  /\ busy' = [busy EXCEPT ![c] = FALSE]
  /\ billed' = [billed EXCEPT ![c] = @ + cost]
  /\ spentRwf' = [spentRwf EXCEPT ![c] = cost]
  /\ missed' = IF phase[c] = "live" \/ cost = 0 THEN missed ELSE missed \cup {c}
  /\ UNCHANGED <<money, phase, ceiling, worktree, turns, tearing>>

(* The registry adds what a turn cost to what the child spent before.     *)
ChildTurnEnds(c, cost) ==
  /\ busy[c]
  /\ busy' = [busy EXCEPT ![c] = FALSE]
  /\ billed' = [billed EXCEPT ![c] = @ + cost]
  /\ spentRwf' = [spentRwf EXCEPT ![c] = @ + cost]
  /\ missed' = IF phase[c] = "live" \/ cost = 0 THEN missed ELSE missed \cup {c}
  /\ UNCHANGED <<money, phase, ceiling, worktree, turns, tearing>>

(* The calls of a turn that throws are charged, and returned to nobody.    *)
TurnThrows(c, cost) ==
  /\ busy[c]
  /\ busy' = [busy EXCEPT ![c] = FALSE]
  /\ billed' = [billed EXCEPT ![c] = @ + cost]
  /\ missed' = IF cost = 0 THEN missed ELSE missed \cup {c}
  /\ UNCHANGED <<money, phase, ceiling, worktree, turns, spentRwf, tearing>>
-----------------------------------------------------------------------------
(* finish settles before it awaits the session, the running turn included. *)
(* A second finish of the same child throws there: it has no reservation.  *)
(* A child that outlived the teardown has no pool to be settled with.      *)
Finishes(c) ==
  /\ phase[c] = "live"
  /\ IF teardown = "done" THEN UNCHANGED money ELSE Settle(c, spentRwf[c])
  /\ Goto(c, "settled")
  /\ UNCHANGED <<ceiling, worktree, work, missed>>

FinishChild(c) == Finishes(c) /\ UNCHANGED tearing

SessionDisposed(c) ==
  /\ phase[c] = "settled" /\ ~busy[c]
  /\ Goto(c, "disposed")
  /\ UNCHANGED <<money, ceiling, worktree, work, missed, tearing>>

NowFinishing(c) == IF finishing = c THEN NoChild ELSE finishing


(* Closing the agent's journal, workspace or tooling may throw once its    *)
(* turns are over.  finish ends there with the child still listed and its  *)
(* worktree in place, and whoever finishes the child again throws too.     *)
DisposeThrows(c) ==
  /\ phase[c] = "settled" /\ ~busy[c]
  /\ Goto(c, "stranded")
  /\ finishing' = NowFinishing(c)
  /\ UNCHANGED <<money, ceiling, worktree, work, missed, teardown, toFinish, late>>

(* Mutant: the worktree is not removed.                                  *)
FinishEndsKeepsWorktree(c, way) ==
  /\ phase[c] = "disposed"
  /\ Goto(c, "gone")
  /\ finishing' = NowFinishing(c)
  /\ UNCHANGED <<money, ceiling, worktree, work, missed, teardown, toFinish, late>>

FinishEnds(c, way) ==
  /\ phase[c] = "disposed"
  /\ RemovesWorktree(c, way)
  /\ Goto(c, "gone")
  /\ finishing' = NowFinishing(c)
  /\ UNCHANGED <<money, ceiling, work, missed, teardown, toFinish, late>>

(* disposeAll: the children listed now, one after the other.               *)
TeardownBegins ==
  /\ teardown = "no"
  /\ teardown' = "tearing"
  /\ toFinish' = {c \in Children : phase[c] \in Listed}
  /\ late' = {c \in Children : phase[c] \in Spawning}
  /\ UNCHANGED <<money, phase, ceiling, worktree, work, missed, finishing>>

TeardownFinishes(c) ==
  /\ teardown = "tearing" /\ finishing = NoChild /\ c \in toFinish
  /\ Finishes(c)
  /\ toFinish' = toFinish \ {c} /\ finishing' = c
  /\ UNCHANGED <<teardown, late>>

(* Mutant: one finish that throws ends the teardown.                     *)
TeardownAborts(c) ==
  /\ teardown = "tearing" /\ finishing = NoChild /\ c \in toFinish
  /\ phase[c] # "live"
  /\ toFinish' = {}
  /\ UNCHANGED <<money, phase, ceiling, worktree, work, missed, teardown, finishing, late>>

(* Another call is finishing the child, or failed to: this one throws and  *)
(* is caught.                                                              *)
TeardownSkips(c) ==
  /\ teardown = "tearing" /\ finishing = NoChild /\ c \in toFinish
  /\ phase[c] # "live"
  /\ toFinish' = toFinish \ {c}
  /\ UNCHANGED <<money, phase, ceiling, worktree, work, missed, teardown, finishing, late>>

TeardownEnds ==
  /\ teardown = "tearing" /\ finishing = NoChild /\ toFinish = {}
  /\ teardown' = "done"
  /\ UNCHANGED <<money, phase, ceiling, worktree, work, missed, toFinish, finishing, late>>
-----------------------------------------------------------------------------
Settles(c) ==
  \/ SessionDisposed(c) \/ DisposeThrows(c)
  \/ TeardownFinishes(c) \/ TeardownSkips(c)
  \/ WorktreeAdded(c) \/ SpawnEnds(c) \/ SpawnFails(c)
  \/ \E way \in {"none", "left"} : FinishEnds(c, way) \/ SpawnUndone(c, way)

(* One turn costs at most the ceiling of a turn.                           *)
TurnReturns(c) == \E cost \in 0..ceiling[c] : ChildTurnEnds(c, cost) \/ TurnThrows(c, cost)

ChildNext ==
  \/ \E c \in Children :
       \/ \E amount \in Amounts : Spawn(c, amount)
       \/ Settles(c) \/ TurnBegins(c) \/ TurnReturns(c) \/ FinishChild(c)
  \/ TeardownBegins \/ TeardownEnds

ChildSpec == ChildInit /\ [][ChildNext]_childVars

(* Turns are bounded, and the registry's own calls go on after an await.   *)
ChildFairSpec ==
  /\ ChildSpec
  /\ \A c \in Children : WF_childVars(Settles(c)) /\ WF_childVars(TurnReturns(c))
  /\ WF_childVars(TeardownEnds)
-----------------------------------------------------------------------------
(* The pool, the children and the teardown of the parent.                  *)
ChildTypeOK ==
  /\ remaining \in 0..Total /\ reservations \in [Children -> 0..Total]
  /\ phase \in [Children -> Spawning \cup Listed \cup Absent \cup {"failing"}]
  /\ ceiling \in [Children -> {0} \cup Amounts]
  /\ worktree \in [Children -> {"none", "added", "left"}] /\ busy \in [Children -> BOOLEAN]
  /\ turns \in [Children -> 0..MaxChildTurns]
  /\ {spentRwf, billed} \subseteq [Children -> Nat] /\ kept \in [Children -> 0..Total]
  /\ missed \subseteq Children /\ late \subseteq Children
  /\ teardown \in {"no", "tearing", "done"} /\ toFinish \subseteq Children
  /\ finishing \in Children \cup {NoChild}

SumOf(f) == SumFunctionOnSet(f, Children)

(* The pool loses and creates no money: what remains, what is reserved and *)
(* what finished children were charged is what the parent put in, however  *)
(* spawns fail and finishes overlap.                                       *)
PoolReconciles == remaining + SumOf(reservations) + SumOf(kept) = Total

(* Children whose charges were all recorded, and whose turns together cost *)
(* no more than the one reservation made for them, spend no more together  *)
(* than the parent had.                                                    *)
SiblingsShareThePool ==
  missed = {} /\ (\A c \in Children : billed[c] <= ceiling[c]) => SumOf(billed) <= Total

(* The pool is sound and shared.                                           *)
PoolIsShared == ChildTypeOK /\ PoolReconciles /\ SiblingsShareThePool

(* A torn down parent leaves no child at work and no reservation, and no   *)
(* worktree that nobody tried to remove: each of its children is gone,     *)
(* still with another call that is ending it, or stranded by a session     *)
(* that could not be closed; but for a child it was still spawning.        *)
TeardownLeavesNothing ==
  teardown = "done" =>
    \A c \in Children \ late :
      /\ reservations[c] = 0 /\ phase[c] \in Absent \cup {"settled", "disposed", "failing", "stranded"}
      /\ phase[c] \in Absent \cup {"stranded"} => ~busy[c]
      /\ phase[c] \in Absent => worktree[c] # "added"

-----------------------------------------------------------------------------
(* Stated by a comment, and refuted (README, disagreements): children      *)
(* racing for one pool cannot collectively spend more than it holds        *)
(* (child-session.ts:21).                                                  *)
CannotCollectivelyOutspend == SumOf(billed) <= Total

(* Likewise that finish "removes its worktree" (child-session.ts:335), and *)
(* the worktree must not outlive a spawn that failed (310).                *)
NoWorktreeOutlivesItsChild == \A c \in Children : phase[c] \in Absent => worktree[c] = "none"
=============================================================================
