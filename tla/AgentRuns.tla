------------------------------- MODULE AgentRuns -------------------------------
(***************************************************************************)
(* The hosted control plane's core: one task, its runs and their steps, as *)
(* the Convex mutations of apps/web/convex change them.  A mutation is a   *)
(* serializable transaction, so each is one action here.  What is not      *)
(* atomic is everything around them: dispatch ticks read a snapshot and    *)
(* claim from it later, workers hold the arguments of a claim that may     *)
(* have been taken from them, startCodingRun makes several mutations one   *)
(* after another, and people pause, cancel and decide at any moment.       *)
(*                                                                         *)
(* A worker id is a fresh UUID for every claim, so the pair of a step and  *)
(* the number of the claim stands for it.  A lease is live or lapsed: a    *)
(* heartbeat keeps a live one live, time lapses it.  Sandboxes, artifacts, *)
(* events and notifications are no part of this module.                    *)
(***************************************************************************)
EXTENDS Integers, FiniteSets, FiniteSetsExt, Functions

CONSTANTS
  Run, Step,
  RunOf,              \* [Step -> Run]
  DependsOn,          \* [Step -> SUBSET Step]
  Gated,              \* the steps created with requiresApproval
  MaxParallelism,     \* [Run -> 1..8]
  GlobalParallelism,  \* 4 in dispatchTick
  Estimate,           \* [Step -> Nat]: the reservation of one attempt
  Quote,              \* the cap the task was quoted with
  MaxAttempts,        \* 3: MAX_STEP_ATTEMPTS and the recovery cron
  MaxResumes,         \* MAX_STEP_RESUMES
  StartModes,         \* which costApproval modes of startCodingRun are used
  ProvidersVanish,    \* may a run's own provider lose its configuration?
  Tick,               \* concurrent dispatchTick actions
  Overage,            \* identities of budget_overage approvals (a bound)
  MaxClaims           \* bound on the claims of one step

ASSUME MoneyAssumption ==
  /\ Quote \in Nat
  /\ Estimate \in [Step -> Nat \ {0}]

ASSUME GraphAssumption ==
  /\ RunOf \in [Step -> Run]
  /\ DependsOn \in [Step -> SUBSET Step]
  /\ Gated \subseteq Step
  /\ Step # {} /\ IsFiniteSet(Step) /\ IsFiniteSet(Overage)

ASSUME BoundAssumption ==
  /\ MaxClaims \in Nat
  /\ MaxResumes \in Nat
  /\ MaxAttempts \in Nat \ {0}
  /\ MaxParallelism \in [Run -> Nat \ {0}]
  /\ GlobalParallelism \in Nat \ {0}
  /\ StartModes \subseteq {"required", "pre-authorized"}
  /\ ProvidersVanish \in BOOLEAN

VARIABLES
  task,       \* the task row: status and the three amounts
  hold,       \* its paymentHolds row, the execution budget
  runs,       \* run status
  steps,      \* the agentSteps rows
  quote,      \* the task_start approval of each run
  gate,       \* the execute_step approval of each gated step
  overages,   \* the budget_overage approvals
  ledger,     \* usageLedger
  workers,    \* executeClaimedStep actions that have not returned
  ticks,      \* the dispatch decisions each tick has still to claim
  starting,   \* runs whose startCodingRun has still to ask for the quote
  past        \* a history: what came too late, or left work behind

approvals == <<quote, gate, overages>>
vars == <<task, hold, runs, steps, quote, gate, overages, ledger, workers, ticks, starting, past>>

TaskStatus == {"awaiting_approval", "running", "blocked", "completed", "cancelled"}
RunStatus  == {"absent", "queued", "running", "awaiting_approval", "paused",
               "blocked", "completed", "failed", "cancelled"}
StepStatus == {"pending", "ready", "running", "completed", "failed", "cancelled"}
ApprovalStatus == {"none", "pending", "approved", "rejected", "expired"}

Worker == [step : Step, claim : Nat, reservation : Nat]
Usage  == [step : Step, claim : Nat, amountRwf : Nat]

NoClaim    == 0
NoOverage  == [status |-> "none", step |-> CHOOSE s \in Step : TRUE, requestedRwf |-> 0]
FreshStep  == [status |-> "pending", claimedBy |-> NoClaim, leaseLive |-> FALSE,
               reservedRwf |-> 0, attempts |-> 0, resumes |-> 0]

Init ==
  /\ task = [status |-> "awaiting_approval", maxRwf |-> Quote, spentRwf |-> 0, reservedRwf |-> 0]
  /\ hold = [status |-> "authorized", amountRwf |-> Quote]
  /\ runs = [r \in Run |-> "absent"]
  /\ steps = [s \in Step |-> FreshStep]
  /\ quote = [r \in Run |-> "none"]
  /\ gate = [s \in Step |-> "none"]
  /\ overages = [o \in Overage |-> NoOverage]
  /\ ledger = {}
  /\ workers = {}
  /\ ticks = [t \in Tick |-> {}]
  /\ starting = {}
  /\ past = [asked |-> {}, decided |-> {}, outlived |-> {}, excused |-> [s \in Step |-> 0]]
-----------------------------------------------------------------------------
StepsOf(r) == {s \in Step : RunOf[s] = r}
WithStatus(r, S) == {s \in StepsOf(r) : steps[s].status \in S}
Dispatchable(r) == runs[r] \in {"queued", "running"}
SomeDependencyDone(s) ==                                              \* a mutant
  DependsOn[s] = {} \/ \E d \in DependsOn[s] : steps[d].status = "completed"
DependenciesDone(s) == \A d \in DependsOn[s] : steps[d].status = "completed"

(* A run no further work is expected of, as cancelRun sees its siblings.   *)
Settled(r) == runs[r] \in {"absent", "completed", "failed", "blocked", "cancelled"}
TaskClosed == task.status \in {"completed", "cancelled"}

SetRun(r, status) == runs' = [runs EXCEPT ![r] = status]
SetTask(status) == [task EXCEPT !.status = status]

(* Where a run goes when one of its steps leaves "running" unfinished.     *)
RequeuedAsStep(s) == "pending"                                        \* a mutant
RequeuedStatus(s) ==
  IF WithStatus(RunOf[s], {"running"}) \ {s} # {} THEN "running" ELSE "queued"

(* The task once a step's reservation is given back.                       *)
NothingReleased(s) == task                                            \* a mutant
ReleasedAll(s) == [task EXCEPT !.reservedRwf = 0]                     \* a mutant
Released(s) == [task EXCEPT !.reservedRwf = @ - steps[s].reservedRwf]

(* The fields a step gives up with its lease.                              *)
Unclaimed(step) == [step EXCEPT !.claimedBy = NoClaim, !.leaseLive = FALSE, !.reservedRwf = 0]
Closed(step, status) == [step EXCEPT !.status = status, !.leaseLive = FALSE, !.reservedRwf = 0]
(* A timed checkpoint gives up the lease and counts against the resumes.   *)
Checkpointed(step) == [Unclaimed(step) EXCEPT !.status = "ready", !.resumes = step.resumes + 1]
(* A granted claim takes the lease, the reservation and one attempt.       *)
Claimed(step, amount) ==
  [step EXCEPT !.status = "running", !.claimedBy = step.attempts + 1, !.leaseLive = TRUE,
               !.reservedRwf = amount, !.attempts = step.attempts + 1]

-----------------------------------------------------------------------------
(* The history.  The code keeps none of it, and no guard reads it: the     *)
(* properties name with it the behaviours a promise does not reach.        *)

(* The quote of a run that had ended was asked for.                        *)
NotesQuestion(r) ==
  past' = [past EXCEPT !.asked =
             IF runs[r] \in {"completed", "failed", "cancelled"} THEN @ \union {r} ELSE @]

(* An overage was decided when its step no longer waited for it.           *)
NotesDecision(o) ==
  past' = [past EXCEPT !.decided =
             IF steps[overages[o].step].status \in {"pending", "ready"} THEN @ ELSE @ \union {o}]

(* A run failed with a step while another of its steps was running.        *)
NotesFailure(s) ==
  past' = [past EXCEPT !.outlived =
             IF WithStatus(RunOf[s], {"running"}) \ {s} # {} THEN @ \union {RunOf[s]} ELSE @]

(* A step was released, out of attempts, for want of a provider.           *)
NotesRelease(w) ==
  past' = [past EXCEPT !.excused[w.step] = IF w.claim < MaxAttempts THEN @ ELSE @ + 1]
-----------------------------------------------------------------------------
(* Starting a run.  startCodingRun creates the run in one mutation and     *)
(* asks for the quote in the next; a pre-authorized caller never asks.     *)

CreateTaskRun(r) ==
  /\ runs[r] = "absent"
  /\ ~TaskClosed
  /\ SetRun(r, "queued")
  /\ gate' = [s \in Step |-> IF s \in StepsOf(r) \cap Gated THEN "pending" ELSE gate[s]]
  /\ \/ "required" \in StartModes /\ starting' = starting \union {r}
     \/ "pre-authorized" \in StartModes /\ UNCHANGED starting
  /\ UNCHANGED <<task, hold, steps, quote, overages, ledger, workers, ticks, past>>

(* The quote is recorded; within the automation ceiling it is accepted by  *)
(* the same mutation, otherwise the run waits for a person.                *)
RequestTaskStartApproval(r) ==
  /\ r \in starting
  /\ starting' = starting \ {r}
  /\ NotesQuestion(r)
  /\ \/ /\ quote' = [quote EXCEPT ![r] = "pending"]
        /\ SetRun(r, "awaiting_approval")
     \/ /\ quote' = [quote EXCEPT ![r] = "approved"]
        /\ SetRun(r, "queued")
  /\ UNCHANGED <<task, hold, steps, gate, overages, ledger, workers, ticks>>

-----------------------------------------------------------------------------
(* Deciding approvals: decide and settleApproval.                          *)

ApproveQuote(r) ==
  /\ quote[r] = "pending" /\ ~TaskClosed
  /\ quote' = [quote EXCEPT ![r] = "approved"]
  /\ SetRun(r, "queued")
  /\ UNCHANGED <<task, hold, steps, gate, overages, ledger, workers, ticks, starting, past>>

DeclineRunOnly(r) ==                                                  \* a mutant
  /\ quote[r] = "pending" /\ ~TaskClosed
  /\ quote' = [quote EXCEPT ![r] = "rejected"]
  /\ SetRun(r, "cancelled")
  /\ UNCHANGED <<task, hold, steps, gate, overages, ledger, workers, ticks, starting, past>>
DeclineQuote(r) ==
  /\ quote[r] = "pending" /\ ~TaskClosed
  /\ quote' = [quote EXCEPT ![r] = "rejected"]
  /\ SetRun(r, "cancelled")
  /\ task' = SetTask("cancelled")
  /\ UNCHANGED <<hold, steps, gate, overages, ledger, workers, ticks, starting, past>>

(* The step and run effects of any approval that names a step: they are    *)
(* written whatever the step and the run are doing.                        *)
GrantStep(s) ==
  /\ steps' = [steps EXCEPT ![s].status = "pending"]
  /\ SetRun(RunOf[s], "queued")
RefuseStep(s) ==
  /\ steps' = [steps EXCEPT ![s].status = "cancelled"]
  /\ SetRun(RunOf[s], "blocked")

ApproveStep(s) ==
  /\ gate[s] = "pending" /\ ~TaskClosed
  /\ gate' = [gate EXCEPT ![s] = "approved"]
  /\ GrantStep(s)
  /\ UNCHANGED <<task, hold, quote, overages, ledger, workers, ticks, starting, past>>

RejectStep(s) ==
  /\ gate[s] = "pending" /\ ~TaskClosed
  /\ gate' = [gate EXCEPT ![s] = "rejected"]
  /\ RefuseStep(s)
  /\ task' = SetTask("blocked")
  /\ UNCHANGED <<hold, quote, overages, ledger, workers, ticks, starting, past>>

(* applyApprovedOverage: the cap and the hold that must cover it move      *)
(* together, and only upwards.                                             *)
RaiseCapOnly(requested) ==                                            \* a mutant
  /\ task' = [task EXCEPT !.maxRwf = IF requested > @ THEN requested ELSE @]
  /\ UNCHANGED hold
RaiseBy(requested) ==                                                 \* a mutant
  /\ task' = [task EXCEPT !.maxRwf = @ + requested]
  /\ hold' = [status |-> "authorized", amountRwf |-> task.maxRwf + requested]
RaiseTo(requested) ==
  IF requested > task.maxRwf
  THEN /\ task' = [task EXCEPT !.maxRwf = requested]
       /\ hold' = [status |-> "authorized", amountRwf |-> requested]
  ELSE UNCHANGED <<task, hold>>

ApproveOverage(o) ==
  /\ overages[o].status = "pending" /\ ~TaskClosed
  /\ RaiseTo(overages[o].requestedRwf)
  /\ overages' = [overages EXCEPT ![o].status = "approved"]
  /\ GrantStep(overages[o].step)
  /\ NotesDecision(o)
  /\ UNCHANGED <<quote, gate, ledger, workers, ticks, starting>>

RejectOverage(o) ==
  /\ overages[o].status = "pending" /\ ~TaskClosed
  /\ overages' = [overages EXCEPT ![o].status = "rejected"]
  /\ RefuseStep(overages[o].step)
  /\ task' = SetTask("blocked")
  /\ NotesDecision(o)
  /\ UNCHANGED <<hold, quote, gate, ledger, workers, ticks, starting>>
-----------------------------------------------------------------------------
(* Pausing, resuming and cancelling.                                       *)

PauseRun(r) ==
  /\ Dispatchable(r)
  /\ SetRun(r, "paused")
  /\ UNCHANGED <<task, hold, steps, quote, gate, overages, ledger, workers, ticks, starting, past>>

ResumeRun(r) ==
  /\ runs[r] = "paused"
  /\ SetRun(r, "queued")
  /\ UNCHANGED <<task, hold, steps, quote, gate, overages, ledger, workers, ticks, starting, past>>

Cancellable(r) == runs[r] \notin {"absent", "completed", "failed", "cancelled"}

Expired(status) == IF status = "pending" THEN "expired" ELSE status

(* cancelRun for every run of R: steps not in flight are cancelled and no  *)
(* approval of the run stays decidable.                                    *)
CancelRuns(R) ==
  /\ runs' = [r \in Run |-> IF r \in R THEN "cancelled" ELSE runs[r]]
  /\ steps' = [s \in Step |->
       IF RunOf[s] \in R /\ steps[s].status \in {"pending", "ready"}
       THEN [steps[s] EXCEPT !.status = "cancelled"] ELSE steps[s]]

ExpireQuotesAndGates(R) ==                                            \* a mutant
  /\ quote' = [r \in Run |-> IF r \in R THEN Expired(quote[r]) ELSE quote[r]]
  /\ gate' = [s \in Step |-> IF RunOf[s] \in R THEN Expired(gate[s]) ELSE gate[s]]
  /\ UNCHANGED overages
ExpireEveryApproval(R) ==                                             \* a mutant
  /\ quote' = [r \in Run |-> Expired(quote[r])]
  /\ gate' = [s \in Step |-> Expired(gate[s])]
  /\ overages' = [o \in Overage |-> [overages[o] EXCEPT !.status = Expired(@)]]
ExpireApprovals(R) ==
  /\ quote' = [r \in Run |-> IF r \in R THEN Expired(quote[r]) ELSE quote[r]]
  /\ gate' = [s \in Step |-> IF RunOf[s] \in R THEN Expired(gate[s]) ELSE gate[s]]
  /\ overages' = [o \in Overage |-> IF RunOf[overages[o].step] \in R
       THEN [overages[o] EXCEPT !.status = Expired(@)] ELSE overages[o]]

(* requestCancellation.  The task follows once no run is left to work.     *)
RequestCancellation(r) ==
  /\ Cancellable(r)
  /\ CancelRuns({r})
  /\ ExpireApprovals({r})
  /\ task' = IF \A q \in Run \ {r} : Settled(q)
             THEN SetTask(IF \E q \in Run \ {r} : runs[q] \in {"failed", "blocked"}
                          THEN "blocked" ELSE "cancelled")
             ELSE task
  /\ UNCHANGED <<hold, ledger, workers, ticks, starting, past>>

(* requestTaskCancellation cancels every run that can be, one after the    *)
(* other in one transaction, and withdraws every approval of the task.     *)
RequestTaskCancellation ==
  LET R == {r \in Run : Cancellable(r)} IN
  /\ CancelRuns(R)
  /\ ExpireApprovals(Run)
  /\ task' = IF R = {} /\ TaskClosed THEN task
             ELSE SetTask(IF R # {} /\ \E q \in Run : runs[q] = "failed"
                          THEN "blocked" ELSE "cancelled")
  /\ UNCHANGED <<hold, ledger, workers, ticks, starting, past>>
-----------------------------------------------------------------------------
(* Dispatching.  A tick plans on a snapshot and claims afterwards.         *)

(* scheduleReadySteps: what a run offers and how much of it.               *)
Offered(r) == IF Dispatchable(r) THEN {s \in WithStatus(r, {"pending"}) : DependenciesDone(s)} ELSE {}
FreeSlots(r) == Max({0, MaxParallelism[r] - Cardinality(WithStatus(r, {"running", "ready"}))})
GlobalSlots ==
  Max({0, GlobalParallelism
          - Cardinality(UNION {WithStatus(r, {"running", "ready"}) : r \in {q \in Run : Dispatchable(q)}})})

(* The selections scheduleAcrossRuns may make, whatever order the steps    *)
(* and the runs were stored in: the slots are filled round-robin, so a run *)
(* is passed over only when it has nothing left to offer.                  *)
Selections ==
  LET share(r)    == Min({FreeSlots(r), Cardinality(Offered(r))})
      taken(D, r) == Cardinality(D \cap StepsOf(r))
  IN  {D \in SUBSET UNION {Offered(r) : r \in Run} :
         /\ Cardinality(D) = Min({GlobalSlots, MapThenSumSet(share, Run)})
         /\ \A r, q \in Run : /\ taken(D, r) <= share(r)
                              /\ taken(D, r) >= Min({share(r), taken(D, q) - 1})}

(* evaluateBudget on the snapshot: "allowed" or "warning".                 *)
Affordable(s) == Estimate[s] <= task.maxRwf - task.spentRwf - task.reservedRwf

(* planDispatch: a gated step and one the budget cannot cover are decided  *)
(* against, and no approval is asked for here.                             *)
DispatchTick(t) ==
  /\ ticks[t] = {}
  /\ \E D \in Selections :
       ticks' = [ticks EXCEPT ![t] = {s \in D \ Gated : Affordable(s)}]
  /\ UNCHANGED <<task, hold, runs, steps, quote, gate, overages, ledger, workers, starting, past>>

(* claimStep, which rechecks everything against the current rows.          *)
ClaimableOnTrust(s) ==                                                \* a mutant
  /\ Dispatchable(RunOf[s])
  /\ s \notin Gated
  /\ hold.status = "authorized" /\ hold.amountRwf >= task.maxRwf
Claimable(s) ==
  /\ Dispatchable(RunOf[s])
  /\ steps[s].status \in {"pending", "ready"}
  /\ DependenciesDone(s)
  /\ Cardinality(WithStatus(RunOf[s], {"running"})) < MaxParallelism[RunOf[s]]
  /\ s \notin Gated
  /\ hold.status = "authorized" /\ hold.amountRwf >= task.maxRwf

ProjectedFromSpent(s) == task.spentRwf + Estimate[s]                  \* a mutant
Projected(s) == task.spentRwf + task.reservedRwf + Estimate[s]
OverCap(s) == Projected(s) > task.maxRwf
Unrecorded(o) == overages[o].status = "none"

(* What the bounds of the model leave no room for is refused as well.      *)
OutOfBounds(s) == IF OverCap(s) THEN \A o \in Overage : ~Unrecorded(o)
                                ELSE steps[s].attempts >= MaxClaims

ClaimRefused(t, s) ==
  /\ s \in ticks[t]
  /\ ~Claimable(s) \/ OutOfBounds(s)
  /\ ticks' = [ticks EXCEPT ![t] = @ \ {s}]
  /\ UNCHANGED <<task, hold, runs, steps, quote, gate, overages, ledger, workers, starting, past>>

ClaimNeedsOverage(t, s, o) ==
  /\ s \in ticks[t]
  /\ Claimable(s) /\ OverCap(s) /\ Unrecorded(o)
  /\ ticks' = [ticks EXCEPT ![t] = @ \ {s}]
  /\ overages' = [overages EXCEPT ![o] = [status |-> "pending", step |-> s, requestedRwf |-> Projected(s)]]
  /\ SetRun(RunOf[s], "awaiting_approval")
  /\ UNCHANGED <<task, hold, steps, quote, gate, ledger, workers, starting, past>>

(* The reservation, the lease and the scheduled executor, all in one       *)
(* transaction.                                                            *)
ClaimGranted(t, s) ==
  /\ s \in ticks[t]
  /\ Claimable(s) /\ ~OverCap(s) /\ steps[s].attempts < MaxClaims
  /\ ticks' = [ticks EXCEPT ![t] = @ \ {s}]
  /\ task' = [task EXCEPT !.status = "running", !.reservedRwf = @ + Estimate[s]]
  /\ steps' = [steps EXCEPT ![s] = Claimed(@, Estimate[s])]
  /\ SetRun(RunOf[s], "running")
  /\ workers' = workers \union {[step |-> s, claim |-> steps[s].attempts + 1, reservation |-> Estimate[s]]}
  /\ UNCHANGED <<hold, quote, gate, overages, ledger, starting, past>>
-----------------------------------------------------------------------------
(* Workers: executeClaimedStep and runCodingStep, with the mutations they  *)
(* end in.                                                                 *)

OwnsStep(w) == steps[w.step].status = "running"                       \* a mutant
Owns(w) == steps[w.step].status = "running" /\ steps[w.step].claimedBy = w.claim

(* recordStepOutcome accepts a settlement only from the owner, in time, of *)
(* a run that is not cancelled, within the reservation and the cap.        *)
CanSettleAnything(w, actual) ==                                       \* a mutant
  /\ Owns(w) /\ steps[w.step].leaseLive
  /\ runs[RunOf[w.step]] # "cancelled"
  /\ steps[w.step].reservedRwf <= task.reservedRwf
CanSettleWhenCancelled(w, actual) ==                                  \* a mutant
  LET reserved == steps[w.step].reservedRwf IN
  /\ Owns(w) /\ steps[w.step].leaseLive
  /\ reserved <= task.reservedRwf
  /\ actual <= reserved
  /\ task.spentRwf + actual <= task.maxRwf
CanSettle(w, actual) ==
  LET reserved == steps[w.step].reservedRwf IN
  /\ Owns(w) /\ steps[w.step].leaseLive
  /\ runs[RunOf[w.step]] # "cancelled"
  /\ reserved <= task.reservedRwf
  /\ actual <= reserved
  /\ task.spentRwf + actual <= task.maxRwf

Returns(w) == workers' = workers \ {w}

SettledTask(w, actual) ==
  [Released(w.step) EXCEPT !.spentRwf = @ + actual]
ChargeReservation(w, actual) ==                                       \* a mutant
  ledger' = ledger \union {[step |-> w.step, claim |-> w.claim, amountRwf |-> w.reservation]}
Charge(w, actual) ==
  ledger' = ledger \union {[step |-> w.step, claim |-> w.claim, amountRwf |-> actual]}

(* The run after a completed step; the statuses are those of the other     *)
(* steps, the finished one counts as completed.                            *)
StatusWhenNothingIsLeft(s) ==                                         \* a mutant
  LET others == {steps[q].status : q \in StepsOf(RunOf[s]) \ {s}} IN
  CASE others \cap {"pending", "running", "ready"} = {} -> "completed"
    [] others \cap {"running", "ready"} # {}           -> "running"
    [] OTHER                                           -> "queued"
StatusAfterCompletion(s) ==
  LET others == {steps[q].status : q \in StepsOf(RunOf[s]) \ {s}} IN
  CASE others \subseteq {"completed"}              -> "completed"
    [] others \cap {"running", "ready"} # {}       -> "running"
    [] OTHER                                       -> "queued"

OthersSettled(r) == \A q \in Run \ {r} : Settled(q)                   \* a mutant
OthersCompleted(r) == \A q \in Run \ {r} : runs[q] \in {"absent", "completed"}

CompleteStep(w, actual) ==
  LET s == w.step  r == RunOf[s]  next == StatusAfterCompletion(s) IN
  /\ CanSettle(w, actual)
  /\ Returns(w) /\ Charge(w, actual)
  /\ steps' = [steps EXCEPT ![s] = Closed(@, "completed")]
  /\ SetRun(r, next)
  /\ task' = IF next = "completed" /\ OthersCompleted(r)
             THEN [SettledTask(w, actual) EXCEPT !.status = "completed"]
             ELSE SettledTask(w, actual)
  /\ UNCHANGED <<hold, quote, gate, overages, ticks, starting, past>>

(* A verdict against the work, an error out of attempts, or a checkpoint   *)
(* that may not be resumed: all three settle, fail the run and block the   *)
(* task.                                                                   *)
FailStep(w, actual) ==
  LET s == w.step IN
  /\ CanSettle(w, actual)
  /\ Returns(w) /\ Charge(w, actual)
  /\ steps' = [steps EXCEPT ![s] = Closed(@, "failed")]
  /\ SetRun(RunOf[s], "failed")
  /\ task' = [SettledTask(w, actual) EXCEPT !.status = "blocked"]
  /\ NotesFailure(s)
  /\ UNCHANGED <<hold, quote, gate, overages, ticks, starting>>

(* decideStepResume: the step stopped for time with work still to do, and  *)
(* both the resume budget and the cap allow one more attempt.              *)
MayResume(w, actual) ==
  /\ steps[w.step].resumes < MaxResumes
  /\ task.spentRwf + actual + (task.reservedRwf - steps[w.step].reservedRwf) + w.reservation <= task.maxRwf

CheckpointStep(w, actual) ==
  LET s == w.step IN
  /\ CanSettle(w, actual) /\ MayResume(w, actual)
  /\ Returns(w) /\ Charge(w, actual)
  /\ steps' = [steps EXCEPT ![s] = Checkpointed(@)]
  /\ SetRun(RunOf[s], RequeuedStatus(s))
  /\ task' = SettledTask(w, actual)
  /\ UNCHANGED <<hold, quote, gate, overages, ticks, starting, past>>

(* releaseStepForRetry: a transient failure with attempts left, or a       *)
(* provider that is not configured when the executor starts.  The lease    *)
(* need not be live.                                                       *)
ReleaseStepForRetry(w) ==
  LET s == w.step  r == RunOf[s] IN
  /\ w.claim < MaxAttempts \/ ProvidersVanish
  /\ Owns(w)
  /\ steps[s].reservedRwf <= task.reservedRwf
  /\ Returns(w)
  /\ task' = Released(s)
  /\ steps' = [steps EXCEPT ![s] = [Unclaimed(@) EXCEPT !.status = "pending"]]
  /\ runs' = IF runs[r] = "cancelled" THEN runs ELSE [runs EXCEPT ![r] = RequeuedStatus(s)]
  /\ NotesRelease(w)
  /\ UNCHANGED <<hold, quote, gate, overages, ledger, ticks, starting>>

(* The worker is gone without a word: it crashed, it saw the cancellation  *)
(* at a checkpoint, or a mutation refused it and threw.                    *)
WorkerStops(w) ==
  /\ Returns(w)
  /\ UNCHANGED <<task, hold, runs, steps, quote, gate, overages, ledger, ticks, starting, past>>

(* No heartbeat for the length of the lease.                               *)
LeaseLapses(s) ==
  /\ steps[s].status = "running" /\ steps[s].leaseLive
  /\ steps' = [steps EXCEPT ![s].leaseLive = FALSE]
  /\ UNCHANGED <<task, hold, runs, quote, gate, overages, ledger, workers, ticks, starting, past>>

LapsedOfLiveRun(s) ==                                                 \* a mutant
  steps[s].status = "running" /\ ~steps[s].leaseLive /\ runs[RunOf[s]] # "cancelled"
Lapsed(s) == steps[s].status = "running" /\ ~steps[s].leaseLive

ExhaustedOneLate(s) == steps[s].attempts > MaxAttempts                \* a mutant
Exhausted(s) == steps[s].attempts >= MaxAttempts

(* recoverExpiredLeases, for one of the expired steps the sweep visits.    *)
RecoverExpiredLease(s) ==
  LET r == RunOf[s] IN
  /\ Lapsed(s)
  /\ steps[s].reservedRwf <= task.reservedRwf
  /\ \/ /\ runs[r] = "cancelled"
        /\ steps' = [steps EXCEPT ![s] = Closed(@, "cancelled")]
        /\ task' = Released(s) /\ UNCHANGED <<runs, past>>
     \/ /\ runs[r] # "cancelled" /\ Exhausted(s)
        /\ steps' = [steps EXCEPT ![s] = Closed(@, "failed")]
        /\ task' = [Released(s) EXCEPT !.status = "blocked"] /\ SetRun(r, "failed")
        /\ NotesFailure(s)
     \/ /\ runs[r] # "cancelled" /\ ~Exhausted(s)
        /\ steps' = [steps EXCEPT ![s] = [Unclaimed(@) EXCEPT !.status = "pending"]]
        /\ task' = Released(s) /\ SetRun(r, "queued")
        /\ UNCHANGED past
  /\ UNCHANGED <<hold, quote, gate, overages, ledger, workers, ticks, starting>>
-----------------------------------------------------------------------------
People ==
  \/ \E r \in Run : \/ ApproveQuote(r) \/ DeclineQuote(r)
                    \/ PauseRun(r) \/ ResumeRun(r) \/ RequestCancellation(r)
  \/ \E s \in Step : ApproveStep(s) \/ RejectStep(s)
  \/ \E o \in Overage : ApproveOverage(o) \/ RejectOverage(o)
  \/ RequestTaskCancellation

Starter == \E r \in Run : CreateTaskRun(r) \/ RequestTaskStartApproval(r)

Claim(t, s) == \/ ClaimRefused(t, s)
               \/ \E o \in Overage : ClaimNeedsOverage(t, s, o)
               \/ ClaimGranted(t, s)

Dispatcher == \E t \in Tick : DispatchTick(t) \/ \E s \in Step : Claim(t, s)

(* What a worker reports may exceed what it reserved; it is then refused.  *)
Settles(w) == \E actual \in 0 .. w.reservation + 1 :
                CompleteStep(w, actual) \/ FailStep(w, actual) \/ CheckpointStep(w, actual)

Workers == \E w \in workers : Settles(w) \/ ReleaseStepForRetry(w) \/ WorkerStops(w)

Recovery == \E s \in Step : LeaseLapses(s) \/ RecoverExpiredLease(s)

Next == People \/ Starter \/ Dispatcher \/ Workers \/ Recovery

Spec == Init /\ [][Next]_vars

-----------------------------------------------------------------------------
(* Fairness.  Scheduled functions and crons run, and an action ends within *)
(* Convex's ten minutes, so a worker returns one way or another.  A lease  *)
(* lapses when nobody is left to renew it.  People owe nothing.            *)

WorkerActs(s, c) ==
  \E w \in workers : w.step = s /\ w.claim = c /\ (Settles(w) \/ ReleaseStepForRetry(w) \/ WorkerStops(w))

Abandoned(s) == ~ \E w \in workers : w.step = s /\ Owns(w)

Fairness ==
  /\ \A t \in Tick : WF_vars(DispatchTick(t)) /\ WF_vars(\E s \in Step : Claim(t, s))
  /\ \A s \in Step : /\ WF_vars(Abandoned(s) /\ LeaseLapses(s))
                     /\ WF_vars(RecoverExpiredLease(s))
                     /\ \A c \in 1 .. MaxClaims : WF_vars(WorkerActs(s, c))

FairSpec == Spec /\ Fairness
-----------------------------------------------------------------------------
(* Types.                                                                  *)

TaskRow == [status : TaskStatus, maxRwf : Nat, spentRwf : Nat, reservedRwf : Nat]
HoldRow == [status : {"pending", "authorized"}, amountRwf : Nat]
StepRow == [status : StepStatus, claimedBy : Nat, leaseLive : BOOLEAN,
            reservedRwf : Nat, attempts : Nat, resumes : Nat]
OverageRow == [status : ApprovalStatus, step : Step, requestedRwf : Nat]
PastRow == [asked : SUBSET Run, decided : SUBSET Overage, outlived : SUBSET Run,
            excused : [Step -> Nat]]

ApprovalsOK ==
  /\ quote \in [Run -> ApprovalStatus]
  /\ gate \in [Step -> ApprovalStatus]
  /\ overages \in [Overage -> OverageRow]

(* Every variable has its type; in particular no amount ever turns         *)
(* negative, whatever order reservations are taken and given back in.      *)
TypeOK ==
  /\ task \in TaskRow /\ hold \in HoldRow
  /\ steps \in [Step -> StepRow]
  /\ ApprovalsOK
  /\ runs \in [Run -> RunStatus]
  /\ ledger \subseteq Usage
  /\ workers \subseteq Worker
  /\ ticks \in [Tick -> SUBSET Step]
  /\ starting \subseteq Run
  /\ past \in PastRow
-----------------------------------------------------------------------------
(* Money.                                                                  *)

Running == {s \in Step : steps[s].status = "running"}
ReservedByRunning == SumFunctionOnSet([s \in Step |-> steps[s].reservedRwf], Running)

(* What is spent and what is promised to work in flight never exceed the   *)
(* approved cap, however claims, settlements and releases interleave.      *)
CapRespected == task.spentRwf + task.reservedRwf <= task.maxRwf

(* The execution budget always covers the cap, so claimStep never meets    *)
(* the "execution_budget_required" state that has no approval to decide.   *)
HoldCoversCap == hold.status = "authorized" /\ hold.amountRwf >= task.maxRwf

(* Money is promised and spent only as people approved it.                 *)
ApprovedMoneyOnly == CapRespected /\ HoldCoversCap

(* The balance covers the reservations of all running steps, so the sweep  *)
(* of recoverExpiredLeases never throws and takes every other tenant's     *)
(* recovery down with it.                                                  *)
RecoveryNeverWedged == ReservedByRunning <= task.reservedRwf

(* The reserved balance is what the running steps own, and what decisions  *)
(* on overages took from a step that was no longer waiting for them: each  *)
(* of those leaves at most one reservation behind that nobody owns.        *)
Orphaned == SumFunctionOnSet([o \in Overage |-> Estimate[overages[o].step]], past.decided)
ReservationsOwned ==
  /\ ReservedByRunning <= task.reservedRwf
  /\ task.reservedRwf <= ReservedByRunning + Orphaned

(* The money spent is the sum of the usage ledger.                         *)
LedgerReconciles == task.spentRwf = SumFunctionOnSet([u \in ledger |-> u.amountRwf], ledger)

(* The books of a task agree with its steps and with its ledger.           *)
BooksBalance == LedgerReconciles /\ RecoveryNeverWedged

(* Usage is charged only to the latest claim of a step that is running: a  *)
(* worker whose step was recovered, released or reclaimed charges nothing. *)
OnlyTheLatestClaimCharges ==
  [][\A u \in ledger' \ ledger :
       steps[u.step].status = "running" /\ steps[u.step].attempts = u.claim]_vars

(* The cap only rises, and only to what an overage somebody approved in    *)
(* that very step had asked for.                                           *)
CapRaisedOnlyByApproval ==
  [][task'.maxRwf # task.maxRwf =>
       /\ task'.maxRwf > task.maxRwf
       /\ \E o \in Overage : /\ overages[o].status = "pending"
                             /\ overages'[o].status = "approved"
                             /\ overages[o].requestedRwf = task'.maxRwf]_vars

(* The detailed mutations implement the abstract task ledger.              *)
Budget == INSTANCE TaskBudget WITH
            maxRwf <- task.maxRwf, spentRwf <- task.spentRwf, reservedRwf <- task.reservedRwf
ImplementsTaskBudget == Budget!Spec
-----------------------------------------------------------------------------
(* Work.                                                                   *)

(* No run has more steps running than its maxParallelism, though ticks     *)
(* overlap.                                                                *)
ParallelismRespected ==
  \A r \in Run : Cardinality(WithStatus(r, {"running"})) <= MaxParallelism[r]

(* No more steps run at once than dispatchTick's global parallelism.       *)
GlobalParallelismRespected == Cardinality(Running) <= GlobalParallelism

(* The late decisions on overages of one step.                             *)
LateFor(s) == {o \in past.decided : overages[o].step = s}

(* A step runs only on the completed work of all its dependencies; only a  *)
(* late decision on a dependency takes that work from under it.            *)
DependenciesHeld ==
  \A s \in Running : \A d \in DependsOn[s] :
    steps[d].status = "completed" \/ LateFor(d) # {}

(* A completed step stays completed, unless a person decides in that very  *)
(* step on an overage that was asked for it before.                        *)
CompletedStepsStayCompleted ==
  [][\A s \in Step : steps[s].status = "completed" =>
       \/ steps'[s].status = "completed"
       \/ \E o \in Overage : /\ overages[o].step = s /\ overages[o].status = "pending"
                             /\ overages'[o].status \in {"approved", "rejected"}]_vars

(* A task is completed only when every run it has is, and every step; only *)
(* a quote asked for after a run had ended takes it back from there.       *)
TaskCompletedMeansWorkDone ==
  task.status = "completed" =>
    /\ \A r \in Run : runs[r] \in {"absent", "completed"} \/ r \in past.asked
    /\ \A s \in Step : runs[RunOf[s]] = "completed" => steps[s].status = "completed"

(* Crashes, lapsed leases and retries share one budget of attempts, to     *)
(* which timed checkpoints, releases for want of a provider and late       *)
(* decisions add, each of them one.                                        *)
AttemptsBounded ==
  \A s \in Step : steps[s].attempts <= MaxAttempts + steps[s].resumes + past.excused[s]
                                        + Cardinality(LateFor(s))

(* However ticks, crashes, retries and decisions interleave, claims keep   *)
(* to the plan, its parallelism, its dependencies and its attempts, and to *)
(* the money they reserved.                                                *)
ClaimsFollowThePlan ==
  ParallelismRespected /\ DependenciesHeld /\ AttemptsBounded /\ ReservationsOwned

(* The quote of a run was declined while its task had other runs: the      *)
(* declined run is cancelled and the task closed, the others go on.        *)
DeclinedBeside(r) == quote[r] = "rejected" /\ \E q \in Run \ {r} : runs[q] # "absent"

(* A cancelled run is cancelled for good, unless its quote has still to be *)
(* asked for, or was declined beside runs that may reopen the task.        *)
CancelledRunsStayCancelled ==
  [][\A r \in Run : runs[r] = "cancelled" =>
       runs'[r] = "cancelled" \/ r \in starting \/ DeclinedBeside(r)]_vars

(* What people decide stands: no report, sweep or late answer revives what *)
(* they cancelled, and none raises what they approved.                     *)
DecisionsStand == CancelledRunsStayCancelled /\ CapRaisedOnlyByApproval

(* A run the stopping of its task may not have reached: its quote was      *)
(* asked for after it had ended, it failed while other steps of it were    *)
(* running, or the task was stopped by declining the quote of another run. *)
Stray(r) == \/ r \in past.asked \union past.outlived
            \/ \E q \in Run \ {r} : DeclinedBeside(q)

Stands == /\ task'.status = "cancelled"
          /\ task'.spentRwf = task.spentRwf /\ task'.reservedRwf <= task.reservedRwf

(* Stopping a task is final, and no worker charges it from then on; the    *)
(* only steps that do are steps of stray runs.                             *)
StoppedTaskSpendsNothing ==
  [][task.status = "cancelled" =>
       \/ Stands
       \/ \E r \in Run : Stray(r) /\ (runs'[r] # runs[r] \/ \E s \in StepsOf(r) : steps'[s] # steps[s])]_vars

(* What is done is done: completed work is not redone and a stopped task   *)
(* not resumed, by whatever was in flight at the time.                     *)
DoneIsDone == CompletedStepsStayCompleted /\ StoppedTaskSpendsNothing

PendingOf(r) == \/ quote[r] = "pending"
                \/ \E s \in StepsOf(r) : gate[s] = "pending"
                \/ \E o \in Overage : overages[o].status = "pending" /\ RunOf[overages[o].step] = r

(* A cancelled run leaves no approval behind that decide would accept: one *)
(* would requeue the run and authorize money against it.  Declining a      *)
(* quote withdraws nothing else, and relies on the task staying closed.    *)
NothingDecidableAfterCancel ==
  \A r \in Run : runs[r] = "cancelled" => TaskClosed \/ ~PendingOf(r) \/ DeclinedBeside(r)

(* A run that waits for a decision has one to ask for, unless its task is  *)
(* over: it never waits behind an approval nobody can see.                 *)
AwaitingMeansAskable ==
  \A r \in Run : runs[r] = "awaiting_approval" => TaskClosed \/ PendingOf(r)

(* The rows of a task, its runs, its steps and its approvals are written   *)
(* by different mutations and tell one story.                              *)
StatusesAgree == TaskCompletedMeansWorkDone /\ NothingDecidableAfterCancel /\ AwaitingMeansAskable

(* Work declined at its quote is not taken up by any other decision, as    *)
(* long as no other run reopens the task.                                  *)
DeclinedQuoteIsFinal ==
  \A r \in Run : quote[r] = "rejected" => runs[r] = "cancelled" \/ DeclinedBeside(r)
-----------------------------------------------------------------------------
(* What documents and comments promise without the exceptions above, and   *)
(* TLC refutes.                                                            *)

(* A cancelled run is cancelled for good, also when its quote has still to *)
(* be asked for.                                                           *)
CancelledForGood ==
  [][\A r \in Run : runs[r] = "cancelled" => runs'[r] = "cancelled"]_vars

(* Completed work is not redone, whatever people decide and when.          *)
CompletedForGood ==
  [][\A s \in Step : steps[s].status = "completed" => steps'[s].status = "completed"]_vars

(* A run that failed is failed for good.                                   *)
FailedRunsStayFailed ==
  [][\A r \in Run : runs[r] = "failed" => runs'[r] = "failed"]_vars

(* Stopping a task stops every run it has.                                 *)
StoppedForGood == [][task.status = "cancelled" => Stands]_vars

(* Each running step owns its reservation, and nobody else owns any.       *)
EachReservationOwned == task.reservedRwf = ReservedByRunning

(* Every attempt at a step but the resumed ones is counted.                *)
AttemptsCounted == \A s \in Step : steps[s].attempts <= MaxAttempts + steps[s].resumes

(* A paused run takes up work again only because somebody resumed it.      *)
PausedUntilResumed ==
  [][\A r \in Run : runs[r] = "paused" /\ runs'[r] \in {"queued", "running"} => ResumeRun(r)]_vars

(* Nothing executes before the quote that was asked for is accepted.       *)
NothingRunsBeforeQuote ==
  \A s \in Running : RunOf[s] \notin starting /\ quote[RunOf[s]] # "pending"
-----------------------------------------------------------------------------
(* Progress, under FairSpec.                                               *)

(* No step stays claimed forever: whatever happens to its worker, it is    *)
(* settled, released or recovered, also when its run was cancelled.        *)
EveryClaimEnds == \A s \in Step : steps[s].status = "running" ~> steps[s].status # "running"

(* Nothing is idle either: as long as a run is dispatchable, a step it     *)
(* offers and its cap can pay for is claimed sooner or later.              *)
Workable(r) == Dispatchable(r) /\ \E s \in Offered(r) \ Gated : Affordable(s)
WorkGoesOn == EveryClaimEnds /\ \A r \in Run : Workable(r) ~> ~Workable(r)

(* A checkpointed step is handed back to the queue and continued.          *)
CheckpointsContinue ==
  \A s \in Step : steps[s].status = "ready" /\ Dispatchable(RunOf[s])
                    ~> steps[s].status # "ready" \/ ~Dispatchable(RunOf[s])

(* Work that the rest of the cap cannot pay for is put before a person: a  *)
(* run does not sit in the queue with nothing it can afford and nobody     *)
(* asked.                                                                  *)
OverBudget(r) == Dispatchable(r) /\ Offered(r) # {} /\ \A s \in Offered(r) : ~Affordable(s)
OverBudgetAsks == \A r \in Run : OverBudget(r) ~> PendingOf(r) \/ ~OverBudget(r)
=============================================================================
