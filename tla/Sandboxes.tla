----------------------------- MODULE Sandboxes -----------------------------
(***************************************************************************)
(* The hosted sandboxes of one run: the worker that makes, reuses,         *)
(* suspends and abandons them (coding-worker.ts), the run's record of its  *)
(* sandbox and the transitions that release it (agentRuns.ts), and the     *)
(* reaper that asks the provider what exists (sandboxCleanup.ts).          *)
(*                                                                         *)
(* The coding steps of a plan are a chain, so one at a time is claimed; a  *)
(* worker whose lease ran out goes on beside its successor until it looks. *)
(* A sandbox whose timeout expires is suspended by the provider; it still  *)
(* exists and answers, and no property tells the two apart.                *)
(***************************************************************************)
EXTENDS Naturals, FiniteSets

CONSTANTS
  Boxes,          \* the sandboxes the provider may make
  MaxClaims,      \* bound on the attempts of all steps; a worker is its claim
  Steps,          \* coding steps of the plan
  MaxAttempts,    \* of one step: maxAttempts in the code
  MaxFaults,      \* bound on the crashes and the provider calls that fail
  None

ASSUME SandboxAssumption ==
  /\ None \notin Boxes
  /\ {MaxClaims, Steps, MaxAttempts} \subseteq Nat \ {0} /\ MaxFaults \in Nat

Workers == 1..MaxClaims
Nobody == 0

VARIABLES
  run,               \* status of the run
  left, tries,       \* steps to do, attempts of the present one
  owner, lapsed,     \* who claimed it, and whether the lease ran out
  runBox,            \* sandboxId of the run
  preview,           \* the window of a completed run
  claims,            \* the workers there have been
  phase, reuse, box, \* of a worker: where it is, what it was told, what it holds
  vm, old,           \* at the provider; those older than the reaper's cutoff
  kills,             \* the scheduled destroySandbox
  sweep, doomed,     \* the reaper's candidates, and the one it found dead
  faults

vars == <<run, left, tries, owner, lapsed, runBox, preview, claims, phase, reuse, box,
          vm, old, kills, sweep, doomed, faults>>
lease == <<left, tries, owner, lapsed, claims>>
record == <<run, runBox, preview>>
workers == <<phase, reuse, box>>
provider == <<vm, old>>
reaper == <<sweep, doomed>>

Ended == {"completed", "failed", "cancelled"}
Exists(b) == b \in Boxes /\ vm[b] \in {"running", "suspended"}

Init ==
  /\ run = "queued" /\ left = Steps /\ tries = 0
  /\ owner = Nobody /\ lapsed = FALSE
  /\ runBox = None /\ preview = "none" /\ claims = 0
  /\ phase = [w \in Workers |-> "idle"]
  /\ reuse = [w \in Workers |-> None] /\ box = [w \in Workers |-> None]
  /\ vm = [b \in Boxes |-> "none"] /\ old = {} /\ kills = {}
  /\ sweep = {} /\ doomed = None /\ faults = 0

Fault == faults < MaxFaults /\ faults' = faults + 1
NoFault == UNCHANGED faults
Goes(w, p) == phase' = [phase EXCEPT ![w] = p]
-----------------------------------------------------------------------------
(* Mutant: the lease is looked at, and not who claimed the step.           *)
HoldsAny(w) == ~lapsed

(* heartbeatStep: whose the step is, and that the lease still runs.        *)
Holds(w) == owner = w /\ ~lapsed

(* claimStep hands the run's sandbox on to the worker.                     *)
Claim(w) ==
  /\ run \in {"queued", "running"} /\ left > 0 /\ owner = Nobody /\ w = claims + 1
  /\ claims' = w /\ owner' = w /\ lapsed' = FALSE /\ tries' = tries + 1
  /\ run' = "running"
  /\ Goes(w, "starts") /\ reuse' = [reuse EXCEPT ![w] = runBox]
  /\ UNCHANGED <<left, runBox, preview, box, provider, kills, reaper, faults>>

Lapse ==
  /\ owner # Nobody /\ ~lapsed
  /\ lapsed' = TRUE
  /\ UNCHANGED <<record, left, tries, owner, claims, workers, provider, kills, reaper, faults>>

(* releaseRunSandbox.                                                      *)
Release ==
  /\ runBox' = None
  /\ kills' = kills \cup (IF runBox = None THEN {} ELSE {runBox})

(* Mutant: a run that ended is cancelled too.                              *)
CancelAnything ==
  /\ run # "cancelled"
  /\ run' = "cancelled" /\ Release
  /\ UNCHANGED <<preview, lease, workers, provider, reaper, faults>>

(* cancelRun: the worker is not told, the sandbox is destroyed at once.    *)
Cancel ==
  /\ run \notin Ended
  /\ run' = "cancelled" /\ Release
  /\ UNCHANGED <<preview, lease, workers, provider, reaper, faults>>

(* recoverExpiredLeases.                                                   *)
Recover ==
  /\ owner # Nobody /\ lapsed
  /\ owner' = Nobody
  /\ \/ run = "cancelled" /\ UNCHANGED <<run, runBox, kills>>
     \/ run # "cancelled" /\ tries >= MaxAttempts /\ run' = "failed" /\ Release
     \/ run # "cancelled" /\ tries < MaxAttempts /\ run' = "queued" /\ UNCHANGED <<runBox, kills>>
  /\ UNCHANGED <<preview, left, tries, lapsed, claims, workers, provider, reaper, faults>>
-----------------------------------------------------------------------------
(* The worker.  Its first heartbeat, then acquireSandbox: the sandbox the  *)
(* run had, when it answers, or else a new one.                            *)
Join(w) ==
  /\ phase[w] = "starts" /\ Holds(w) /\ run # "cancelled" /\ Exists(reuse[w])
  /\ vm' = [vm EXCEPT ![reuse[w]] = "running"]
  /\ box' = [box EXCEPT ![w] = reuse[w]] /\ Goes(w, "acquired")
  /\ UNCHANGED <<record, lease, reuse, old, kills, reaper, faults>>

Create(w) ==
  /\ phase[w] = "starts" /\ Holds(w) /\ run # "cancelled"
  /\ IF Exists(reuse[w]) THEN Fault ELSE NoFault
  /\ \E b \in Boxes :
       /\ vm[b] = "none"
       /\ vm' = [vm EXCEPT ![b] = "running"]
       /\ box' = [box EXCEPT ![w] = b]
  /\ Goes(w, "acquired")
  /\ UNCHANGED <<record, lease, reuse, old, kills, reaper>>

(* It starts after the run was cancelled, or without its lease.            *)
StartsInVain(w) ==
  /\ phase[w] = "starts" /\ (~Holds(w) \/ run = "cancelled")
  /\ Goes(w, IF Holds(w) THEN "over" ELSE "throws")
  /\ UNCHANGED <<record, lease, reuse, box, provider, kills, reaper, faults>>

(* The heartbeat with the sandbox: the run remembers it.  For a cancelled  *)
(* run it changes nothing and does not throw.                              *)
Bind(w) ==
  /\ phase[w] = "acquired" /\ Holds(w)
  /\ runBox' = IF run = "cancelled" THEN runBox ELSE box[w]
  /\ Goes(w, "planning")
  /\ UNCHANGED <<run, preview, lease, reuse, box, provider, kills, reaper, faults>>

(* A heartbeat that throws outside the guard leaves the sandbox alone.     *)
Disowned(w) ==
  /\ phase[w] \in {"acquired", "planning"} /\ ~Holds(w)
  /\ Goes(w, "throws")
  /\ UNCHANGED <<record, lease, reuse, box, provider, kills, reaper, faults>>

(* The plan is ready and the run not cancelled; the phase is reported.     *)
PlanReady(w) ==
  /\ phase[w] = "planning" /\ Holds(w) /\ run # "cancelled"
  /\ Goes(w, "building")
  /\ UNCHANGED <<record, lease, reuse, box, provider, kills, reaper, faults>>

(* abandonSandbox: no plan, a refusal, a plan that is not ready, a         *)
(* cancelled run.  The sandbox is stopped, a new one or not, lease or not. *)
Abandon(w) ==
  /\ phase[w] = "planning"
  /\ \/ vm' = [vm EXCEPT ![box[w]] = "gone"] /\ NoFault
     \/ Exists(box[w]) /\ UNCHANGED vm /\ Fault
  /\ \E p \in {"throws", "failed", "over"} :
       /\ p = "over" => run = "cancelled"
       /\ Goes(w, p)
  /\ UNCHANGED <<record, lease, reuse, box, old, kills, reaper>>

(* The build ends, and the sandbox is suspended; a sandbox that is gone    *)
(* makes a command, or at last the suspension, throw.                      *)
BuildEnds(w) ==
  /\ phase[w] = "building" /\ Exists(box[w])
  /\ vm' = [vm EXCEPT ![box[w]] = "suspended"]
  /\ \E p \in {"throws", "failed", "built", "stopped", "over"} :
       /\ p = "over" => run = "cancelled"
       /\ Goes(w, p)
  /\ UNCHANGED <<record, lease, reuse, box, old, kills, reaper, faults>>

BuildThrows(w) ==
  /\ phase[w] = "building"
  /\ IF Exists(box[w]) THEN Fault ELSE NoFault
  /\ Goes(w, "throws")
  /\ UNCHANGED <<record, lease, reuse, box, provider, kills, reaper>>

(* The worker's host dies.                                                 *)
Crash(w) ==
  /\ phase[w] \notin {"idle", "over"} /\ Fault
  /\ Goes(w, "over")
  /\ UNCHANGED <<record, lease, reuse, box, provider, kills, reaper>>
-----------------------------------------------------------------------------
(* What runCodingStep makes of the outcome.  recordStepOutcome of the last *)
(* step opens the preview window.                                          *)
Records(w) == Holds(w) /\ run # "cancelled"

Completed(w) ==
  /\ phase[w] = "built" /\ Records(w)
  /\ owner' = Nobody /\ left' = left - 1 /\ tries' = 0
  /\ run' = IF left = 1 THEN "completed" ELSE "queued"
  /\ preview' = IF left = 1 /\ runBox # None THEN "open" ELSE preview
  /\ Goes(w, "over")
  /\ UNCHANGED <<runBox, lapsed, claims, reuse, box, provider, kills, reaper, faults>>

(* recordStepOutcome of a failure, also of a worker that threw.            *)
Fails(w) ==
  /\ phase[w] \in {"failed", "throws", "stopped"} /\ Records(w)
  /\ owner' = Nobody /\ run' = "failed" /\ Release
  /\ Goes(w, "over")
  /\ UNCHANGED <<preview, left, tries, lapsed, claims, reuse, box, provider, reaper, faults>>

(* releaseStepForRetry looks at the claim and not at the lease; a          *)
(* checkpoint is resumed by the next attempt.                              *)
GivesBack(w) ==
  /\ \/ phase[w] = "throws" /\ owner = w /\ tries < MaxAttempts
     \/ phase[w] = "stopped" /\ Records(w)
  /\ owner' = Nobody /\ run' = IF run = "cancelled" THEN run ELSE "queued"
  /\ Goes(w, "over")
  /\ UNCHANGED <<runBox, preview, left, tries, lapsed, claims, reuse, box, provider, kills,
                 reaper, faults>>

(* The mutation throws, and nothing is recorded.                           *)
NotRecorded(w) ==
  /\ phase[w] \in {"built", "failed", "throws", "stopped"} /\ ~Records(w)
  /\ Goes(w, "over")
  /\ UNCHANGED <<record, lease, reuse, box, provider, kills, reaper, faults>>
-----------------------------------------------------------------------------
(* The window closes, and the destroy that was delayed to then comes due.  *)
PreviewCloses ==
  /\ preview = "open"
  /\ preview' = "over" /\ kills' = kills \cup {runBox}
  /\ UNCHANGED <<run, runBox, lease, workers, provider, reaper, faults>>

(* Stopping a sandbox may fail.                                            *)
Stop(b) ==
  \/ vm' = [vm EXCEPT ![b] = "gone"] /\ NoFault
  \/ UNCHANGED vm /\ Fault

Destroy(b) ==
  /\ b \in kills
  /\ kills' = kills \ {b} /\ Stop(b)
  /\ UNCHANGED <<record, lease, workers, old, reaper>>

(* The cutoff is longer than any lease: a worker that still has its lease  *)
(* has made its sandbox known before that is old.                          *)
Ages(b) ==
  /\ Exists(b) /\ b \notin old
  /\ \A w \in Workers : phase[w] = "acquired" /\ box[w] = b => ~Holds(w)
  /\ old' = old \cup {b}
  /\ UNCHANGED <<record, lease, workers, vm, kills, reaper, faults>>

(* reapAbandonedSandboxes: listOwnedSandboxes, then isSandboxLive of each, *)
(* and between that and the stop anything may happen.                      *)
ReapLists ==
  /\ sweep = {} /\ doomed = None
  /\ sweep' = {b \in old : Exists(b)} /\ sweep' # {}
  /\ UNCHANGED <<record, lease, workers, provider, kills, doomed, faults>>

(* Mutants: only a running run is live; the window is not looked at; what  *)
(* the run remembers is live for ever.                                     *)
LiveWhileRunning(b) == runBox = b /\ (run = "running" \/ preview = "open")
LiveWithoutWindow(b) == runBox = b /\ run \notin Ended
LiveForEver(b) == runBox = b
IsSandboxLive(b) == runBox = b /\ (run \notin Ended \/ preview = "open")

ReapChecks(b) ==
  /\ b \in sweep /\ doomed = None
  /\ sweep' = sweep \ {b}
  /\ doomed' = IF IsSandboxLive(b) THEN None ELSE b
  /\ UNCHANGED <<record, lease, workers, provider, kills, faults>>

ReapStops ==
  /\ doomed # None
  /\ Stop(doomed) /\ doomed' = None
  /\ UNCHANGED <<record, lease, workers, old, kills, sweep>>
-----------------------------------------------------------------------------
Works(w) ==
  \/ Join(w) \/ Create(w) \/ StartsInVain(w) \/ Bind(w) \/ Disowned(w)
  \/ PlanReady(w) \/ Abandon(w) \/ BuildEnds(w) \/ BuildThrows(w)
  \/ Completed(w) \/ Fails(w) \/ GivesBack(w) \/ NotRecorded(w)

Reaps == ReapLists \/ (\E b \in Boxes : ReapChecks(b)) \/ ReapStops

Next ==
  \/ Lapse \/ Cancel \/ Recover \/ PreviewCloses \/ Reaps
  \/ \E w \in Workers : Claim(w) \/ Works(w) \/ Crash(w)
  \/ \E b \in Boxes : Destroy(b) \/ Ages(b)

Spec == Init /\ [][Next]_vars

(* A scheduled destroy runs, the reaper is a cron, sandboxes get older,    *)
(* the window closes, and a worker goes on unless it crashes.              *)
FairSpec ==
  /\ Spec
  /\ WF_vars(Reaps) /\ WF_vars(PreviewCloses)
  /\ \A w \in Workers : WF_vars(Works(w))
  /\ \A b \in Boxes : WF_vars(Destroy(b)) /\ WF_vars(Ages(b))
-----------------------------------------------------------------------------
(* The run, its workers and the provider.                                  *)
TypeOK ==
  /\ run \in {"queued", "running"} \cup Ended
  /\ left \in 0..Steps /\ tries \in Nat
  /\ owner \in {Nobody} \cup Workers /\ lapsed \in BOOLEAN
  /\ runBox \in Boxes \cup {None} /\ preview \in {"none", "open", "over"}
  /\ preview # "none" => run = "completed" /\ runBox # None
  /\ claims \in 0..MaxClaims
  /\ phase \in [Workers -> {"idle", "starts", "acquired", "planning", "building",
                            "built", "failed", "stopped", "throws", "over"}]
  /\ reuse \in [Workers -> Boxes \cup {None}] /\ box \in [Workers -> Boxes \cup {None}]
  /\ vm \in [Boxes -> {"none", "running", "suspended", "gone"}]
  /\ old \subseteq Boxes /\ kills \subseteq Boxes /\ sweep \subseteq Boxes
  /\ doomed \in Boxes \cup {None} /\ faults \in 0..MaxFaults

(* The worker that has the lease of a live run and a sandbox in hand.      *)
AtWork(w) ==
  owner = w /\ ~lapsed /\ run \notin Ended /\ phase[w] \in {"acquired", "planning", "building"}

(* The reaper never destroys a workspace out from under a step, although   *)
(* it decides on what it read before (sandboxCleanupModel.ts:8).           *)
ReaperSparesTheWorkspace ==
  \A w \in Workers : AtWork(w) => doomed # box[w] /\ box[w] \notin kills

(* What the run remembers, hands to the next step and shows as a preview   *)
(* is the workspace its step is in, whatever an earlier worker still does. *)
RunBoxIsTheWorkspace ==
  \A w \in Workers : AtWork(w) /\ phase[w] \in {"planning", "building"} => runBox = box[w]

(* While the preview window is open nothing is about to destroy its        *)
(* sandbox, neither a destroy that was scheduled nor the reaper.           *)
PreviewIsSafe == preview = "open" => runBox \notin kills \cup {doomed}

(* A sandbox in use, by a step or by a person looking at it, is the right  *)
(* one and is safe.                                                        *)
BoxesAreSafe == TypeOK /\ ReaperSparesTheWorkspace /\ RunBoxIsTheWorkspace /\ PreviewIsSafe

(* Every sandbox of a run that ended is destroyed in the end, also the one *)
(* the run never knew of and the one whose destroy failed.                 *)
Over == run \in Ended /\ preview # "open"
SandboxesAreCollected == \A b \in Boxes : Over /\ Exists(b) ~> vm[b] = "gone"
=============================================================================
