--------------------------- MODULE AgentRuns_proofs ---------------------------
(***************************************************************************)
(* Proofs about AgentRuns, for every set of runs and steps, every graph,   *)
(* every quote and every bound.                                            *)
(***************************************************************************)
EXTENDS AgentRuns, Sums, TLAPS

-----------------------------------------------------------------------------
(* Types.  First the rows the mutations write.                             *)

LEMMA InitTypes == Init => TypeOK
BY MoneyAssumption, GraphAssumption
DEF Init, TypeOK, TaskRow, HoldRow, StepRow, OverageRow, ApprovalsOK, TaskStatus, RunStatus,
    StepStatus, ApprovalStatus, Usage, Worker, NoClaim, NoOverage, FreshStep, PastRow

(* A task row keeps its type when its status changes. *)
LEMMA TaskStatusType ==
  ASSUME NEW row \in TaskRow, NEW status \in TaskStatus
  PROVE  [row EXCEPT !.status = status] \in TaskRow
BY DEF TaskRow

LEMMA TaskReservedType ==
  ASSUME NEW row \in TaskRow, NEW status \in TaskStatus, NEW amount \in Nat
  PROVE  [row EXCEPT !.status = status, !.reservedRwf = amount] \in TaskRow
BY DEF TaskRow

(* A reservation that the balance covers is given back exactly. *)
LEMMA ReleasedType ==
  ASSUME task \in TaskRow, steps \in [Step -> StepRow], NEW s \in Step,
         steps[s].reservedRwf <= task.reservedRwf
  PROVE  /\ Released(s) \in TaskRow
         /\ Released(s).maxRwf = task.maxRwf
         /\ Released(s).spentRwf = task.spentRwf
         /\ Released(s).reservedRwf = task.reservedRwf - steps[s].reservedRwf
BY DEF TaskRow, StepRow, Released

(* A step row keeps its type through every way it is written. *)
LEMMA StepStatusType ==
  ASSUME NEW row \in StepRow, NEW status \in StepStatus
  PROVE  [row EXCEPT !.status = status] \in StepRow
BY DEF StepRow

LEMMA StepClosedType ==
  ASSUME NEW row \in StepRow, NEW status \in StepStatus
  PROVE  Closed(row, status) \in StepRow
BY DEF StepRow, Closed

LEMMA StepUnclaimedType ==
  ASSUME NEW row \in StepRow
  PROVE  Unclaimed(row) \in StepRow
BY DEF StepRow, Unclaimed, NoClaim

LEMMA StepCheckpointedType ==
  ASSUME NEW row \in StepRow
  PROVE  Checkpointed(row) \in StepRow
<1>1. row.resumes + 1 \in Nat
  BY DEF StepRow
<1>2. \A n \in Nat : [Unclaimed(row) EXCEPT !.status = "ready", !.resumes = n] \in StepRow
  BY StepUnclaimedType DEF StepRow, StepStatus
<1> QED BY <1>1, <1>2 DEF Checkpointed

LEMMA StepClaimedType ==
  ASSUME NEW row \in StepRow, NEW amount \in Nat
  PROVE  Claimed(row, amount) \in StepRow
<1>1. row.attempts + 1 \in Nat
  BY DEF StepRow
<1>2. \A n \in Nat : [row EXCEPT !.status = "running", !.claimedBy = n, !.leaseLive = TRUE,
                                 !.reservedRwf = amount, !.attempts = n] \in StepRow
  BY DEF StepRow, StepStatus
<1> QED BY <1>1, <1>2 DEF Claimed

LEMMA StepUpdate ==
  ASSUME steps \in [Step -> StepRow], NEW s \in Step, NEW row \in StepRow
  PROVE  [steps EXCEPT ![s] = row] \in [Step -> StepRow]
OBVIOUS

LEMMA OverageUpdate ==
  ASSUME overages \in [Overage -> OverageRow], NEW o \in Overage, NEW row \in OverageRow
  PROVE  [overages EXCEPT ![o] = row] \in [Overage -> OverageRow]
OBVIOUS

LEMMA OverageStatusType ==
  ASSUME NEW row \in OverageRow, NEW status \in ApprovalStatus
  PROVE  [row EXCEPT !.status = status] \in OverageRow
BY DEF OverageRow

LEMMA RunUpdate ==
  ASSUME runs \in [Run -> RunStatus], NEW r \in Run, NEW status \in RunStatus, SetRun(r, status)
  PROVE  runs' \in [Run -> RunStatus]
BY DEF SetRun

LEMMA ExpiredType == ASSUME NEW status \in ApprovalStatus PROVE Expired(status) \in ApprovalStatus
BY DEF Expired, ApprovalStatus

LEMMA RequeuedType == ASSUME NEW s \in Step PROVE RequeuedStatus(s) \in RunStatus
BY DEF RequeuedStatus, RunStatus

LEMMA AfterCompletionType == ASSUME NEW s \in Step PROVE StatusAfterCompletion(s) \in RunStatus
BY DEF StatusAfterCompletion, RunStatus

(* A tick plans steps of the graph and nothing else. *)
LEMMA SelectionsAreSteps == ASSUME NEW D \in Selections PROVE D \subseteq Step
BY DEF Selections, Offered, WithStatus, StepsOf

(* Cancelling runs and withdrawing their approvals. *)
LEMMA CancelRunsType ==
  ASSUME TypeOK, NEW R \in SUBSET Run, CancelRuns(R)
  PROVE  runs' \in [Run -> RunStatus] /\ steps' \in [Step -> StepRow]
<1>1. runs' \in [Run -> RunStatus]
  BY DEF CancelRuns, TypeOK, RunStatus
<1>2. \A s \in Step : [steps[s] EXCEPT !.status = "cancelled"] \in StepRow
  BY StepStatusType DEF TypeOK, StepStatus
<1>3. steps' \in [Step -> StepRow]
  BY <1>2 DEF CancelRuns, TypeOK
<1> QED BY <1>1, <1>3

LEMMA ExpireApprovalsType ==
  ASSUME TypeOK, NEW R \in SUBSET Run, ExpireApprovals(R)
  PROVE  ApprovalsOK'
<1>1. quote' \in [Run -> ApprovalStatus] /\ gate' \in [Step -> ApprovalStatus]
  BY ExpiredType DEF ExpireApprovals, TypeOK, ApprovalsOK
<1>2. \A o \in Overage : [overages[o] EXCEPT !.status = Expired(@)] \in OverageRow
  <2> SUFFICES ASSUME NEW o \in Overage PROVE [overages[o] EXCEPT !.status = Expired(@)] \in OverageRow
    OBVIOUS
  <2>1. overages[o] \in OverageRow /\ overages[o].status \in ApprovalStatus
    BY DEF TypeOK, ApprovalsOK, OverageRow
  <2> QED BY <2>1, ExpiredType, OverageStatusType
<1>3. overages' \in [Overage -> OverageRow]
  BY <1>2 DEF ExpireApprovals, TypeOK, ApprovalsOK
<1> QED BY <1>1, <1>3 DEF ApprovalsOK

(* What deciding an approval does to the step and the run it names. *)
LEMMA GrantStepType ==
  ASSUME TypeOK, NEW s \in Step, GrantStep(s)
  PROVE  runs' \in [Run -> RunStatus] /\ steps' \in [Step -> StepRow]
<1> DEFINE row == [steps[s] EXCEPT !.status = "pending"]
<1>1. row \in StepRow
  BY StepStatusType DEF TypeOK, StepStatus
<1>2. steps' = [steps EXCEPT ![s] = row]
  BY DEF GrantStep
<1>3. steps' \in [Step -> StepRow]
  BY <1>1, <1>2, StepUpdate DEF TypeOK
<1>4. runs' \in [Run -> RunStatus]
  BY GraphAssumption DEF GrantStep, SetRun, TypeOK, RunStatus
<1> QED BY <1>3, <1>4

LEMMA RefuseStepType ==
  ASSUME TypeOK, NEW s \in Step, RefuseStep(s)
  PROVE  runs' \in [Run -> RunStatus] /\ steps' \in [Step -> StepRow]
<1> DEFINE row == [steps[s] EXCEPT !.status = "cancelled"]
<1>1. row \in StepRow
  BY StepStatusType DEF TypeOK, StepStatus
<1>2. steps' = [steps EXCEPT ![s] = row]
  BY DEF RefuseStep
<1>3. steps' \in [Step -> StepRow]
  BY <1>1, <1>2, StepUpdate DEF TypeOK
<1>4. runs' \in [Run -> RunStatus]
  BY GraphAssumption DEF RefuseStep, SetRun, TypeOK, RunStatus
<1> QED BY <1>3, <1>4

LEMMA RaiseToType ==
  ASSUME TypeOK, NEW requested \in Nat, RaiseTo(requested)
  PROVE  task' \in TaskRow /\ hold' \in HoldRow
BY DEF TypeOK, RaiseTo, TaskRow, HoldRow

(* The history only ever gains. *)
PastGrows ==
  /\ past.asked \subseteq past'.asked /\ past.decided \subseteq past'.decided
  /\ past.outlived \subseteq past'.outlived
  /\ \A s \in Step : past.excused[s] <= past'.excused[s]

LEMMA NotesType ==
  ASSUME TypeOK,
         \/ \E r \in Run : NotesQuestion(r)
         \/ \E o \in Overage : NotesDecision(o)
         \/ \E s \in Step : NotesFailure(s)
         \/ \E w \in workers : NotesRelease(w)
         \/ past' = past
  PROVE  past' \in PastRow /\ PastGrows
<1> DEFINE Noted == past' \in PastRow /\ PastGrows
<1> USE DEF PastGrows
<1>1. past \in PastRow /\ \A s \in Step : past.excused[s] \in Nat
  BY DEF TypeOK, PastRow
<1>2. ASSUME NEW r \in Run, NotesQuestion(r) PROVE Noted
  BY <1>1, <1>2 DEF NotesQuestion, PastRow
<1>3. ASSUME NEW o \in Overage, NotesDecision(o) PROVE Noted
  BY <1>1, <1>3 DEF NotesDecision, PastRow
<1>4. ASSUME NEW s \in Step, NotesFailure(s) PROVE Noted
  BY <1>1, <1>4, GraphAssumption DEF NotesFailure, PastRow
<1>5. ASSUME NEW w \in workers, NotesRelease(w) PROVE Noted
  <2>1. w.step \in Step
    BY DEF TypeOK, Worker
  <2> QED BY <1>1, <1>5, <2>1 DEF NotesRelease, PastRow
<1>6. past' = past => Noted
  BY <1>1
<1> QED BY <1>2, <1>3, <1>4, <1>5, <1>6

(* Starting a run and the people's mutations. *)
LEMMA PeopleTypes == ASSUME TypeOK, People PROVE TypeOK'
<1> USE GraphAssumption DEF TypeOK
<1>1. ASSUME NEW r \in Run, ApproveQuote(r) PROVE TypeOK'
  BY <1>1 DEF ApproveQuote, SetRun, RunStatus, ApprovalsOK, ApprovalStatus
<1>2. ASSUME NEW r \in Run, DeclineQuote(r) PROVE TypeOK'
  <2>1. task' \in TaskRow
    BY <1>2, TaskStatusType DEF DeclineQuote, SetTask, TaskStatus
  <2> QED BY <1>2, <2>1 DEF DeclineQuote, SetRun, RunStatus, ApprovalsOK, ApprovalStatus
<1>3. ASSUME NEW r \in Run, PauseRun(r) PROVE TypeOK'
  BY <1>3 DEF PauseRun, SetRun, RunStatus, ApprovalsOK
<1>4. ASSUME NEW r \in Run, ResumeRun(r) PROVE TypeOK'
  BY <1>4 DEF ResumeRun, SetRun, RunStatus, ApprovalsOK
<1>5. ASSUME NEW r \in Run, RequestCancellation(r) PROVE TypeOK'
  <2>1. runs' \in [Run -> RunStatus] /\ steps' \in [Step -> StepRow]
    BY <1>5, CancelRunsType DEF RequestCancellation
  <2>2. ApprovalsOK'
    BY <1>5, ExpireApprovalsType DEF RequestCancellation
  <2>3. task' \in TaskRow
    BY <1>5, TaskStatusType DEF RequestCancellation, SetTask, TaskStatus
  <2> QED BY <1>5, <2>1, <2>2, <2>3 DEF RequestCancellation
<1>6. ASSUME NEW s \in Step, ApproveStep(s) PROVE TypeOK'
  <2>1. runs' \in [Run -> RunStatus] /\ steps' \in [Step -> StepRow]
    BY <1>6, GrantStepType DEF ApproveStep
  <2>2. ApprovalsOK'
    BY <1>6 DEF ApproveStep, ApprovalsOK, ApprovalStatus
  <2> QED BY <1>6, <2>1, <2>2 DEF ApproveStep
<1>7. ASSUME NEW s \in Step, RejectStep(s) PROVE TypeOK'
  <2>1. runs' \in [Run -> RunStatus] /\ steps' \in [Step -> StepRow]
    BY <1>7, RefuseStepType DEF RejectStep
  <2>2. ApprovalsOK'
    BY <1>7 DEF RejectStep, ApprovalsOK, ApprovalStatus
  <2>3. task' \in TaskRow
    BY <1>7, TaskStatusType DEF RejectStep, SetTask, TaskStatus
  <2> QED BY <1>7, <2>1, <2>2, <2>3 DEF RejectStep
<1>8. ASSUME NEW o \in Overage, NEW status \in {"approved", "rejected"},
             overages' = [overages EXCEPT ![o].status = status],
             UNCHANGED <<quote, gate>>
      PROVE  ApprovalsOK'
  <2> DEFINE row == [overages[o] EXCEPT !.status = status]
  <2>1. row \in OverageRow
    BY OverageStatusType DEF ApprovalsOK, ApprovalStatus
  <2>2. overages' \in [Overage -> OverageRow]
    BY <1>8, <2>1, OverageUpdate DEF ApprovalsOK
  <2> QED BY <1>8, <2>2 DEF ApprovalsOK
<1>9. ASSUME NEW o \in Overage, ApproveOverage(o) PROVE TypeOK'
  <2>1. overages[o].step \in Step /\ overages[o].requestedRwf \in Nat
    BY DEF ApprovalsOK, OverageRow
  <2>2. runs' \in [Run -> RunStatus] /\ steps' \in [Step -> StepRow]
    BY <1>9, <2>1, GrantStepType DEF ApproveOverage
  <2>3. task' \in TaskRow /\ hold' \in HoldRow
    BY <1>9, <2>1, RaiseToType DEF ApproveOverage
  <2>4. ApprovalsOK'
    BY <1>8, <1>9 DEF ApproveOverage
  <2>5. past' \in PastRow
    BY <1>9, NotesType DEF ApproveOverage
  <2> QED BY <1>9, <2>2, <2>3, <2>4, <2>5 DEF ApproveOverage
<1>10. ASSUME NEW o \in Overage, RejectOverage(o) PROVE TypeOK'
  <2>1. overages[o].step \in Step
    BY DEF ApprovalsOK, OverageRow
  <2>2. runs' \in [Run -> RunStatus] /\ steps' \in [Step -> StepRow]
    BY <1>10, <2>1, RefuseStepType DEF RejectOverage
  <2>3. task' \in TaskRow
    BY <1>10, TaskStatusType DEF RejectOverage, SetTask, TaskStatus
  <2>4. ApprovalsOK'
    BY <1>8, <1>10 DEF RejectOverage
  <2>5. past' \in PastRow
    BY <1>10, NotesType DEF RejectOverage
  <2> QED BY <1>10, <2>2, <2>3, <2>4, <2>5 DEF RejectOverage
<1>11. CASE RequestTaskCancellation
  <2> DEFINE R == {r \in Run : Cancellable(r)}
  <2>1. runs' \in [Run -> RunStatus] /\ steps' \in [Step -> StepRow]
    BY <1>11, CancelRunsType DEF RequestTaskCancellation
  <2>2. ApprovalsOK'
    BY <1>11, ExpireApprovalsType DEF RequestTaskCancellation
  <2>3. task' \in TaskRow
    BY <1>11, TaskStatusType DEF RequestTaskCancellation, SetTask, TaskStatus
  <2> QED BY <1>11, <2>1, <2>2, <2>3 DEF RequestTaskCancellation
<1> QED BY <1>1, <1>2, <1>3, <1>4, <1>5, <1>6, <1>7, <1>9, <1>10, <1>11 DEF People

LEMMA StarterTypes == ASSUME TypeOK, Starter PROVE TypeOK'
<1> USE GraphAssumption DEF TypeOK, RunStatus, ApprovalsOK, ApprovalStatus
<1>1. ASSUME NEW r \in Run, CreateTaskRun(r) PROVE TypeOK'
  BY <1>1 DEF CreateTaskRun, SetRun
<1>2. ASSUME NEW r \in Run, RequestTaskStartApproval(r) PROVE TypeOK'
  <2>1. past' \in PastRow
    BY <1>2, NotesType DEF RequestTaskStartApproval
  <2> QED BY <1>2, <2>1 DEF RequestTaskStartApproval, SetRun
<1> QED BY <1>1, <1>2 DEF Starter

(* A claim writes the reservation, the lease and the worker it schedules. *)
LEMMA ClaimGrantedTypes ==
  ASSUME TypeOK, NEW t \in Tick, NEW s \in Step, ClaimGranted(t, s) PROVE TypeOK'
<1> USE GraphAssumption, MoneyAssumption DEF TypeOK
<1> DEFINE row == Claimed(steps[s], Estimate[s])
<1>1. steps[s].attempts + 1 \in Nat /\ Estimate[s] \in Nat
  BY DEF StepRow
<1>2. task' \in TaskRow
  <2>1. task.reservedRwf + Estimate[s] \in Nat
    BY <1>1 DEF TaskRow
  <2> QED BY <2>1, TaskReservedType DEF ClaimGranted, TaskStatus
<1>3. row \in StepRow
  BY <1>1, StepClaimedType
<1>4. steps' = [steps EXCEPT ![s] = row]
  BY DEF ClaimGranted
<1>5. steps' \in [Step -> StepRow]
  BY <1>3, <1>4, StepUpdate
<1>6. runs' \in [Run -> RunStatus]
  BY DEF ClaimGranted, SetRun, RunStatus
<1>7. workers' \subseteq Worker
  BY <1>1 DEF ClaimGranted, Worker
<1>8. ticks' \in [Tick -> SUBSET Step]
  BY DEF ClaimGranted
<1> QED BY <1>2, <1>5, <1>6, <1>7, <1>8 DEF ClaimGranted, ApprovalsOK

LEMMA DispatcherTypes == ASSUME TypeOK, Dispatcher PROVE TypeOK'
<1> USE GraphAssumption, MoneyAssumption DEF TypeOK
<1>1. ASSUME NEW t \in Tick, DispatchTick(t) PROVE TypeOK'
  <2>1. ticks' \in [Tick -> SUBSET Step]
    BY <1>1, SelectionsAreSteps DEF DispatchTick
  <2> QED BY <1>1, <2>1 DEF DispatchTick, ApprovalsOK
<1>2. ASSUME NEW t \in Tick, NEW s \in Step, ClaimRefused(t, s) PROVE TypeOK'
  BY <1>2 DEF ClaimRefused, ApprovalsOK
<1>3. ASSUME NEW t \in Tick, NEW s \in Step, NEW o \in Overage, ClaimNeedsOverage(t, s, o)
      PROVE  TypeOK'
  <2> DEFINE row == [status |-> "pending", step |-> s, requestedRwf |-> Projected(s)]
  <2>1. Projected(s) \in Nat
    BY DEF Projected, TaskRow
  <2>2. row \in OverageRow
    BY <2>1 DEF OverageRow, ApprovalStatus
  <2>3. ApprovalsOK'
    BY <1>3, <2>2, OverageUpdate DEF ClaimNeedsOverage, ApprovalsOK
  <2>4. runs' \in [Run -> RunStatus] /\ ticks' \in [Tick -> SUBSET Step]
    BY <1>3 DEF ClaimNeedsOverage, SetRun, RunStatus
  <2> QED BY <1>3, <2>3, <2>4 DEF ClaimNeedsOverage
<1>4. ASSUME NEW t \in Tick, NEW s \in Step, ClaimGranted(t, s) PROVE TypeOK'
  BY <1>4, ClaimGrantedTypes
<1> QED BY <1>1, <1>2, <1>3, <1>4 DEF Dispatcher, Claim

(* What settling leaves behind: the balance loses the reservation, what    *)
(* was spent gains at most as much.                                        *)
LEMMA SettledTaskType ==
  ASSUME TypeOK, NEW w \in workers, NEW actual \in Nat, CanSettle(w, actual)
  PROVE  /\ SettledTask(w, actual) \in TaskRow
         /\ SettledTask(w, actual).maxRwf = task.maxRwf
         /\ SettledTask(w, actual).spentRwf = task.spentRwf + actual
         /\ SettledTask(w, actual).reservedRwf = task.reservedRwf - steps[w.step].reservedRwf
         /\ actual <= steps[w.step].reservedRwf
         /\ steps[w.step].reservedRwf \in Nat
         /\ task.spentRwf + actual <= task.maxRwf
<1>1. w.step \in Step
  BY DEF TypeOK, Worker
<1>2. steps[w.step].reservedRwf \in Nat /\ steps[w.step].reservedRwf <= task.reservedRwf
  BY <1>1 DEF TypeOK, StepRow, CanSettle
<1>3. Released(w.step) \in TaskRow
  /\ Released(w.step).maxRwf = task.maxRwf
  /\ Released(w.step).spentRwf = task.spentRwf
  /\ Released(w.step).reservedRwf = task.reservedRwf - steps[w.step].reservedRwf
  BY <1>1, <1>2, ReleasedType DEF TypeOK
<1>4. actual <= steps[w.step].reservedRwf /\ task.spentRwf + actual <= task.maxRwf
  BY DEF CanSettle
<1> QED BY <1>2, <1>3, <1>4 DEF SettledTask, TaskRow

LEMMA ChargeType ==
  ASSUME TypeOK, NEW w \in workers, NEW actual \in Nat, Charge(w, actual)
  PROVE  ledger' \subseteq Usage
BY DEF TypeOK, Charge, Usage, Worker

LEMMA SettlesTypes ==
  ASSUME TypeOK, NEW w \in workers, Settles(w) PROVE TypeOK'
<1> USE GraphAssumption DEF TypeOK
<1>1. PICK actual \in 0 .. w.reservation + 1 :
        CompleteStep(w, actual) \/ FailStep(w, actual) \/ CheckpointStep(w, actual)
  BY DEF Settles
<1>2. w.step \in Step /\ w.reservation \in Nat
  BY DEF Worker
<1>3. actual \in Nat
  BY <1>2
<1>4. CanSettle(w, actual) /\ Returns(w) /\ Charge(w, actual)
  BY <1>1 DEF CompleteStep, FailStep, CheckpointStep
<1>5. ledger' \subseteq Usage /\ workers' \subseteq Worker
  BY <1>3, <1>4, ChargeType DEF Returns
<1>6. SettledTask(w, actual) \in TaskRow
  BY <1>3, <1>4, SettledTaskType
<1>7. RunOf[w.step] \in Run
  BY <1>2
<1>8. CASE CompleteStep(w, actual)
  <2>1. task' \in TaskRow
    BY <1>6, <1>8, TaskStatusType DEF CompleteStep, TaskStatus
  <2>2. Closed(steps[w.step], "completed") \in StepRow
    BY <1>2, StepClosedType DEF StepStatus
  <2>3. steps' = [steps EXCEPT ![w.step] = Closed(steps[w.step], "completed")]
    BY <1>8 DEF CompleteStep
  <2>4. steps' \in [Step -> StepRow]
    BY <1>2, <2>2, <2>3, StepUpdate
  <2>5. runs' \in [Run -> RunStatus]
    BY <1>2, <1>7, <1>8, AfterCompletionType DEF CompleteStep, SetRun
  <2> QED BY <1>5, <1>8, <2>1, <2>4, <2>5 DEF CompleteStep, ApprovalsOK
<1>9. CASE FailStep(w, actual)
  <2>1. task' \in TaskRow
    BY <1>6, <1>9, TaskStatusType DEF FailStep, TaskStatus
  <2>2. Closed(steps[w.step], "failed") \in StepRow
    BY <1>2, StepClosedType DEF StepStatus
  <2>3. steps' = [steps EXCEPT ![w.step] = Closed(steps[w.step], "failed")]
    BY <1>9 DEF FailStep
  <2>4. steps' \in [Step -> StepRow]
    BY <1>2, <2>2, <2>3, StepUpdate
  <2>5. runs' \in [Run -> RunStatus]
    BY <1>7, <1>9 DEF FailStep, SetRun, RunStatus
  <2>6. past' \in PastRow
    BY <1>2, <1>9, NotesType DEF FailStep
  <2> QED BY <1>5, <1>9, <2>1, <2>4, <2>5, <2>6 DEF FailStep, ApprovalsOK
<1>10. CASE CheckpointStep(w, actual)
  <2> DEFINE row == Checkpointed(steps[w.step])
  <2>2. row \in StepRow
    BY <1>2, StepCheckpointedType
  <2>3. steps' = [steps EXCEPT ![w.step] = row]
    BY <1>10 DEF CheckpointStep
  <2>4. steps' \in [Step -> StepRow]
    BY <1>2, <2>2, <2>3, StepUpdate
  <2>5. runs' \in [Run -> RunStatus]
    BY <1>2, <1>7, <1>10, RequeuedType DEF CheckpointStep, SetRun
  <2> QED BY <1>5, <1>6, <1>10, <2>4, <2>5 DEF CheckpointStep, ApprovalsOK
<1> QED BY <1>1, <1>8, <1>9, <1>10

LEMMA WorkersTypes == ASSUME TypeOK, Workers PROVE TypeOK'
<1> USE GraphAssumption DEF TypeOK
<1>1. PICK w \in workers : Settles(w) \/ ReleaseStepForRetry(w) \/ WorkerStops(w)
  BY DEF Workers
<1>2. w.step \in Step /\ RunOf[w.step] \in Run
  BY DEF Worker
<1>3. CASE ReleaseStepForRetry(w)
  <2> DEFINE row == [Unclaimed(steps[w.step]) EXCEPT !.status = "pending"]
  <2>1. task' \in TaskRow
    BY <1>2, <1>3, ReleasedType DEF ReleaseStepForRetry
  <2>2. row \in StepRow
    BY <1>2, StepUnclaimedType, StepStatusType DEF StepStatus
  <2>3. steps' = [steps EXCEPT ![w.step] = row]
    BY <1>3 DEF ReleaseStepForRetry
  <2>4. steps' \in [Step -> StepRow]
    BY <1>2, <2>2, <2>3, StepUpdate
  <2>5. runs' \in [Run -> RunStatus]
    BY <1>2, <1>3, RequeuedType DEF ReleaseStepForRetry
  <2>6. past' \in PastRow
    BY <1>3, NotesType DEF ReleaseStepForRetry
  <2> QED BY <1>3, <2>1, <2>4, <2>5, <2>6 DEF ReleaseStepForRetry, Returns, ApprovalsOK
<1>4. CASE WorkerStops(w)
  BY <1>4 DEF WorkerStops, Returns, ApprovalsOK
<1> QED BY <1>1, <1>3, <1>4, SettlesTypes

LEMMA RecoveryTypes == ASSUME TypeOK, Recovery PROVE TypeOK'
<1> USE GraphAssumption DEF TypeOK
<1>1. ASSUME NEW s \in Step, LeaseLapses(s) PROVE TypeOK'
  <2> DEFINE row == [steps[s] EXCEPT !.leaseLive = FALSE]
  <2>1. row \in StepRow
    BY DEF StepRow
  <2>2. steps' = [steps EXCEPT ![s] = row]
    BY <1>1 DEF LeaseLapses
  <2>3. steps' \in [Step -> StepRow]
    BY <2>1, <2>2, StepUpdate
  <2> QED BY <1>1, <2>3 DEF LeaseLapses, ApprovalsOK
<1>2. ASSUME NEW s \in Step, RecoverExpiredLease(s) PROVE TypeOK'
  <2>1. Released(s) \in TaskRow
    BY <1>2, ReleasedType DEF RecoverExpiredLease
  <2>2. task' \in TaskRow
    BY <1>2, <2>1, TaskStatusType DEF RecoverExpiredLease, TaskStatus
  <2>3. PICK row \in StepRow : steps' = [steps EXCEPT ![s] = row]
    <3>1. Closed(steps[s], "cancelled") \in StepRow /\ Closed(steps[s], "failed") \in StepRow
      BY StepClosedType DEF StepStatus
    <3>2. [Unclaimed(steps[s]) EXCEPT !.status = "pending"] \in StepRow
      BY StepUnclaimedType, StepStatusType DEF StepStatus
    <3> QED BY <1>2, <3>1, <3>2 DEF RecoverExpiredLease
  <2>4. steps' \in [Step -> StepRow]
    BY <2>3, StepUpdate
  <2>5. runs' \in [Run -> RunStatus]
    BY <1>2 DEF RecoverExpiredLease, SetRun, RunStatus
  <2>6. past' \in PastRow
    BY <1>2, NotesType DEF RecoverExpiredLease
  <2> QED BY <1>2, <2>2, <2>4, <2>5, <2>6 DEF RecoverExpiredLease, ApprovalsOK
<1> QED BY <1>1, <1>2 DEF Recovery

LEMMA NextTypes == ASSUME TypeOK, [Next]_vars PROVE TypeOK'
<1>1. CASE Next
  BY <1>1, PeopleTypes, StarterTypes, DispatcherTypes, WorkersTypes, RecoveryTypes DEF Next
<1>2. CASE UNCHANGED vars
  BY <1>2 DEF vars, TypeOK, ApprovalsOK
<1> QED BY <1>1, <1>2

(* Every variable keeps its type; no amount of money turns negative,       *)
(* whatever order reservations are taken, settled, released and recovered. *)
THEOREM TypeCorrect == Spec => []TypeOK
<1>1. Init => TypeOK
  BY InitTypes
<1>2. TypeOK /\ [Next]_vars => TypeOK'
  BY NextTypes
<1> QED BY <1>1, <1>2, PTL DEF Spec

-----------------------------------------------------------------------------
(* Money.  Every mutation reserves, settles, raises the cap or leaves the  *)
(* amounts alone; what is spent has to be under the cap before, because a  *)
(* release settles for nothing.                                            *)

amounts == <<task.maxRwf, task.spentRwf, task.reservedRwf>>

(* Giving a reservation back. *)
LEMMA ReleaseSettles ==
  ASSUME TypeOK, CapRespected, NEW s \in Step, steps[s].reservedRwf <= task.reservedRwf,
         NEW status \in TaskStatus,
         task' = Released(s) \/ task' = [Released(s) EXCEPT !.status = status]
  PROVE  Budget!Settle
<1>1. Released(s) \in TaskRow /\ Released(s).maxRwf = task.maxRwf
  /\ Released(s).spentRwf = task.spentRwf
  /\ Released(s).reservedRwf = task.reservedRwf - steps[s].reservedRwf
  BY ReleasedType DEF TypeOK
<1>2. /\ task'.maxRwf = task.maxRwf /\ task'.spentRwf = task.spentRwf
      /\ task'.reservedRwf = task.reservedRwf - steps[s].reservedRwf
  BY <1>1 DEF TaskRow
<1>3. /\ steps[s].reservedRwf \in Nat /\ task.spentRwf \in Nat
      /\ task.reservedRwf \in Nat /\ task.maxRwf \in Nat
  BY DEF TypeOK, TaskRow, StepRow
<1>4. task.spentRwf <= task.maxRwf
  BY <1>3 DEF CapRespected
<1> QED BY <1>2, <1>3, <1>4 DEF Budget!Settle

LEMMA WorkerBudget ==
  ASSUME TypeOK, CapRespected, NEW w \in workers,
         Settles(w) \/ ReleaseStepForRetry(w) \/ WorkerStops(w)
  PROVE  Budget!Settle \/ UNCHANGED amounts
<1>1. w.step \in Step /\ w.reservation \in Nat
  BY DEF TypeOK, Worker
<1>2. CASE Settles(w)
  <2>1. PICK actual \in 0 .. w.reservation + 1 :
          CompleteStep(w, actual) \/ FailStep(w, actual) \/ CheckpointStep(w, actual)
    BY <1>2 DEF Settles
  <2>2. actual \in Nat /\ CanSettle(w, actual)
    BY <1>1, <2>1 DEF CompleteStep, FailStep, CheckpointStep
  <2> DEFINE settled == SettledTask(w, actual)
  <2>3. /\ settled \in TaskRow /\ settled.maxRwf = task.maxRwf
        /\ settled.spentRwf = task.spentRwf + actual
        /\ settled.reservedRwf = task.reservedRwf - steps[w.step].reservedRwf
        /\ actual <= steps[w.step].reservedRwf /\ steps[w.step].reservedRwf \in Nat
        /\ task.spentRwf + actual <= task.maxRwf
    BY <2>2, SettledTaskType
  <2>4. task' = settled \/ \E status \in TaskStatus : task' = [settled EXCEPT !.status = status]
    BY <2>1 DEF CompleteStep, FailStep, CheckpointStep, TaskStatus
  <2> HIDE DEF settled
  <2>5. /\ task'.maxRwf = settled.maxRwf /\ task'.spentRwf = settled.spentRwf
        /\ task'.reservedRwf = settled.reservedRwf
    BY <2>3, <2>4 DEF TaskRow
  <2>6. steps[w.step].reservedRwf <= task.reservedRwf
    BY <2>2 DEF CanSettle
  <2>7. task.spentRwf \in Nat /\ task.reservedRwf \in Nat /\ task.maxRwf \in Nat
    BY DEF TypeOK, TaskRow
  <2> QED BY <2>2, <2>3, <2>5, <2>6, <2>7 DEF Budget!Settle
<1>3. CASE ReleaseStepForRetry(w)
  BY <1>1, <1>3, ReleaseSettles DEF ReleaseStepForRetry, TaskStatus
<1>4. CASE WorkerStops(w)
  BY <1>4 DEF WorkerStops, amounts
<1> QED BY <1>2, <1>3, <1>4

LEMMA RaiseToBudget ==
  ASSUME TypeOK, NEW requested \in Nat, RaiseTo(requested)
  PROVE  Budget!RaiseCap \/ UNCHANGED amounts
BY DEF TypeOK, TaskRow, RaiseTo, Budget!RaiseCap, amounts

(* A new status of the task leaves its amounts alone. *)
LEMMA StatusLeavesAmounts ==
  ASSUME TypeOK, NEW status \in TaskStatus, task' = task \/ task' = SetTask(status)
  PROVE  UNCHANGED amounts
BY DEF TypeOK, TaskRow, SetTask, amounts

(* Apart from an approved overage, people only move the task's status.     *)
LEMMA PeopleStatuses ==
  ASSUME People, ~ \E o \in Overage : ApproveOverage(o)
  PROVE  task' = task \/ \E status \in TaskStatus : task' = SetTask(status)
<1>1. ASSUME NEW r \in Run, \/ ApproveQuote(r) \/ DeclineQuote(r) \/ PauseRun(r)
                            \/ ResumeRun(r) \/ RequestCancellation(r)
      PROVE  task' = task \/ \E status \in TaskStatus : task' = SetTask(status)
  BY <1>1 DEF ApproveQuote, DeclineQuote, PauseRun, ResumeRun, RequestCancellation, TaskStatus
<1>2. ASSUME NEW s \in Step, ApproveStep(s) \/ RejectStep(s)
      PROVE  task' = task \/ \E status \in TaskStatus : task' = SetTask(status)
  BY <1>2 DEF ApproveStep, RejectStep, TaskStatus
<1>3. ASSUME NEW o \in Overage, RejectOverage(o)
      PROVE  \E status \in TaskStatus : task' = SetTask(status)
  BY <1>3 DEF RejectOverage, TaskStatus
<1>4. ASSUME RequestTaskCancellation
      PROVE  task' = task \/ \E status \in TaskStatus : task' = SetTask(status)
  BY <1>4 DEF RequestTaskCancellation, TaskStatus
<1> QED BY <1>1, <1>2, <1>3, <1>4 DEF People

LEMMA ClaimBudget ==
  ASSUME TypeOK, NEW t \in Tick, NEW s \in Step, ClaimGranted(t, s) PROVE Budget!Reserve
<1>1. /\ Estimate[s] \in Nat \ {0} /\ task.reservedRwf \in Nat
      /\ task.spentRwf \in Nat /\ task.maxRwf \in Nat
  BY MoneyAssumption DEF TypeOK, TaskRow
<1>2. task.spentRwf + task.reservedRwf + Estimate[s] <= task.maxRwf
  BY <1>1 DEF ClaimGranted, OverCap, Projected
<1>3. /\ task'.maxRwf = task.maxRwf /\ task'.spentRwf = task.spentRwf
      /\ task'.reservedRwf = task.reservedRwf + Estimate[s]
  BY DEF TypeOK, TaskRow, ClaimGranted
<1> QED BY <1>1, <1>2, <1>3 DEF Budget!Reserve

(* Unless an overage is approved, a step reserves, settles or leaves the   *)
(* amounts alone.                                                          *)
LEMMA QuietBudget ==
  ASSUME TypeOK, CapRespected, [Next]_vars, ~ \E o \in Overage : ApproveOverage(o)
  PROVE  Budget!Reserve \/ Budget!Settle \/ UNCHANGED amounts
<1>1. ASSUME People PROVE UNCHANGED amounts
  <2>1. PICK status \in TaskStatus : task' = task \/ task' = SetTask(status)
    BY <1>1, PeopleStatuses DEF TaskStatus
  <2> QED BY <2>1, StatusLeavesAmounts
<1>2. ASSUME Starter PROVE UNCHANGED amounts
  BY <1>2 DEF Starter, CreateTaskRun, RequestTaskStartApproval, amounts
<1>3. ASSUME Dispatcher PROVE Budget!Reserve \/ UNCHANGED amounts
  <2>1. ASSUME NEW t \in Tick, DispatchTick(t) PROVE UNCHANGED amounts
    BY <2>1 DEF DispatchTick, amounts
  <2>2. ASSUME NEW t \in Tick, NEW s \in Step, Claim(t, s)
        PROVE  Budget!Reserve \/ UNCHANGED amounts
    BY <2>2, ClaimBudget DEF Claim, ClaimRefused, ClaimNeedsOverage, amounts
  <2> QED BY <1>3, <2>1, <2>2 DEF Dispatcher
<1>4. ASSUME Workers PROVE Budget!Settle \/ UNCHANGED amounts
  BY <1>4, WorkerBudget DEF Workers
<1>5. ASSUME Recovery PROVE Budget!Settle \/ UNCHANGED amounts
  <2>1. ASSUME NEW s \in Step, LeaseLapses(s) PROVE UNCHANGED amounts
    BY <2>1 DEF LeaseLapses, amounts
  <2>2. ASSUME NEW s \in Step, RecoverExpiredLease(s) PROVE Budget!Settle
    BY <2>2, ReleaseSettles DEF RecoverExpiredLease, TaskStatus
  <2> QED BY <1>5, <2>1, <2>2 DEF Recovery
<1>6. ASSUME UNCHANGED vars PROVE UNCHANGED amounts
  BY <1>6 DEF vars, amounts
<1> QED BY <1>1, <1>2, <1>3, <1>4, <1>5, <1>6 DEF Next

LEMMA ApproveOverageBudget ==
  ASSUME TypeOK, NEW o \in Overage, ApproveOverage(o)
  PROVE  Budget!RaiseCap \/ UNCHANGED amounts
<1>1. overages[o].requestedRwf \in Nat
  BY DEF TypeOK, ApprovalsOK, OverageRow
<1> QED BY <1>1, RaiseToBudget DEF ApproveOverage

(* Every step of the detailed machine is a step of the abstract ledger.    *)
LEMMA NextBudget ==
  ASSUME TypeOK, CapRespected, [Next]_vars
  PROVE  Budget!Next \/ UNCHANGED amounts
BY QuietBudget, ApproveOverageBudget DEF Budget!Next

(* A step of the abstract ledger cannot leave the cap.                     *)
LEMMA BudgetKeepsCap ==
  ASSUME TypeOK, TypeOK', CapRespected, Budget!Next \/ UNCHANGED amounts
  PROVE  CapRespected'
<1>1. /\ task.maxRwf \in Nat /\ task.spentRwf \in Nat /\ task.reservedRwf \in Nat
      /\ task'.maxRwf \in Nat /\ task'.spentRwf \in Nat /\ task'.reservedRwf \in Nat
  BY DEF TypeOK, TaskRow
<1> QED BY <1>1 DEF CapRespected, Budget!Next, Budget!Reserve, Budget!Settle, Budget!RaiseCap, amounts

BudgetInv == TypeOK /\ CapRespected

LEMMA InitBudget == Init => BudgetInv /\ Budget!Init
<1> SUFFICES ASSUME Init PROVE BudgetInv /\ Budget!Init
  OBVIOUS
<1>1. task.maxRwf = Quote /\ task.spentRwf = 0 /\ task.reservedRwf = 0
  BY DEF Init
<1>2. CapRespected
  BY <1>1, MoneyAssumption DEF CapRespected
<1> QED BY <1>1, <1>2, InitTypes DEF BudgetInv, Budget!Init

LEMMA BudgetInductive == BudgetInv /\ [Next]_vars => BudgetInv'
BY NextTypes, NextBudget, BudgetKeepsCap DEF BudgetInv

(* Spent and reserved money together never exceed the approved cap,        *)
(* whatever ticks, workers, retries, recoveries and decisions interleave:  *)
(* claimStep's check of the projected total is enough on its own.          *)
THEOREM CapTheorem == Spec => []CapRespected
<1>1. Init => BudgetInv
  BY InitBudget
<1>2. BudgetInv => CapRespected
  BY DEF BudgetInv
<1> QED BY <1>1, <1>2, BudgetInductive, PTL DEF Spec

(* The mutations implement the task ledger: no step of any of them does    *)
(* to the three amounts what neither a reservation, a settlement within    *)
(* one, nor an approved higher cap does.                                   *)
THEOREM LedgerRefinement == Spec => ImplementsTaskBudget
<1>1. Init => BudgetInv /\ Budget!Init
  BY InitBudget
<1>2. BudgetInv /\ [Next]_vars => [Budget!Next]_(Budget!budget)
  BY NextBudget DEF BudgetInv, amounts, Budget!budget
<1> QED BY <1>1, <1>2, BudgetInductive, PTL DEF Spec, ImplementsTaskBudget, Budget!Spec

-----------------------------------------------------------------------------
(* The execution budget.  Only an approved overage writes the cap or the   *)
(* hold, and it writes both.                                               *)

LEMMA HoldWrittenByOverages ==
  ASSUME [Next]_vars, ~ \E o \in Overage : ApproveOverage(o)
  PROVE  hold' = hold
<1>1. People => hold' = hold
  BY DEF People, ApproveQuote, DeclineQuote, PauseRun, ResumeRun, RequestCancellation,
         ApproveStep, RejectStep, RejectOverage, RequestTaskCancellation
<1>2. Starter => hold' = hold
  BY DEF Starter, CreateTaskRun, RequestTaskStartApproval
<1>3. Dispatcher => hold' = hold
  BY DEF Dispatcher, DispatchTick, Claim, ClaimRefused, ClaimNeedsOverage, ClaimGranted
<1>4. Workers => hold' = hold
  BY DEF Workers, Settles, CompleteStep, FailStep, CheckpointStep, ReleaseStepForRetry, WorkerStops
<1>5. Recovery => hold' = hold
  BY DEF Recovery, LeaseLapses, RecoverExpiredLease
<1> QED BY <1>1, <1>2, <1>3, <1>4, <1>5 DEF Next, vars

LEMMA CapWrittenByOverages ==
  ASSUME TypeOK, CapRespected, [Next]_vars, ~ \E o \in Overage : ApproveOverage(o)
  PROVE  task'.maxRwf = task.maxRwf
BY QuietBudget DEF Budget!Reserve, Budget!Settle, amounts

(* What an approved overage does to the cap and the hold. *)
LEMMA OverageRaises ==
  ASSUME TypeOK, NEW o \in Overage, ApproveOverage(o)
  PROVE  /\ overages[o].status = "pending" /\ overages'[o].status = "approved"
         /\ \/ task' = task /\ hold' = hold
            \/ /\ task'.maxRwf = overages[o].requestedRwf /\ task'.maxRwf > task.maxRwf
               /\ hold' = [status |-> "authorized", amountRwf |-> task'.maxRwf]
<1>1. overages[o] \in OverageRow /\ overages'= [overages EXCEPT ![o].status = "approved"]
  BY DEF ApproveOverage, TypeOK, ApprovalsOK
<1>2. overages[o].status = "pending" /\ overages'[o].status = "approved"
  BY <1>1 DEF ApproveOverage, TypeOK, ApprovalsOK, OverageRow
<1>3. \/ task' = task /\ hold' = hold
      \/ /\ task'.maxRwf = overages[o].requestedRwf /\ task'.maxRwf > task.maxRwf
         /\ hold' = [status |-> "authorized", amountRwf |-> task'.maxRwf]
  BY <1>1 DEF ApproveOverage, RaiseTo, TypeOK, TaskRow, OverageRow
<1> QED BY <1>2, <1>3

(* The authorized execution budget always covers the cap, so a claim is    *)
(* never answered with "execution_budget_required", a state for which      *)
(* there is no approval a person could decide.                             *)
THEOREM HoldTheorem == Spec => []HoldCoversCap
<1> DEFINE HoldInv == BudgetInv /\ HoldCoversCap
<1>1. Init => HoldInv
  <2>1. Init => HoldCoversCap
    BY MoneyAssumption DEF Init, HoldCoversCap
  <2> QED BY <2>1, InitBudget
<1>2. HoldInv /\ [Next]_vars => HoldInv'
  <2> SUFFICES ASSUME BudgetInv, HoldCoversCap, [Next]_vars PROVE HoldCoversCap'
    BY BudgetInductive
  <2>1. task.maxRwf \in Nat /\ task'.maxRwf \in Nat
    BY BudgetInductive DEF BudgetInv, TypeOK, TaskRow
  <2>2. ASSUME NEW o \in Overage, ApproveOverage(o) PROVE HoldCoversCap'
    BY <2>1, <2>2, OverageRaises DEF BudgetInv, HoldCoversCap
  <2>3. ASSUME ~ \E o \in Overage : ApproveOverage(o) PROVE HoldCoversCap'
    BY <2>3, HoldWrittenByOverages, CapWrittenByOverages DEF BudgetInv, HoldCoversCap
  <2> QED BY <2>2, <2>3
<1> QED BY <1>1, <1>2, PTL DEF Spec

(* Money is promised and spent only within the approved cap, which the     *)
(* authorized budget covers.                                               *)
THEOREM ApprovedMoneyTheorem == Spec => []ApprovedMoneyOnly
BY CapTheorem, HoldTheorem, PTL DEF ApprovedMoneyOnly

(* The cap changes only upwards, and only to what an overage asked for     *)
(* that a person approved in that very step.                               *)
THEOREM CapRaiseTheorem == Spec => CapRaisedOnlyByApproval
<1> DEFINE Raised == task'.maxRwf # task.maxRwf =>
       /\ task'.maxRwf > task.maxRwf
       /\ \E o \in Overage : /\ overages[o].status = "pending"
                             /\ overages'[o].status = "approved"
                             /\ overages[o].requestedRwf = task'.maxRwf
<1>1. BudgetInv /\ [Next]_vars => [Raised]_vars
  BY OverageRaises, CapWrittenByOverages DEF BudgetInv
<1>2. Init => BudgetInv
  BY InitBudget
<1> QED BY <1>1, <1>2, BudgetInductive, PTL DEF Spec, CapRaisedOnlyByApproval

-----------------------------------------------------------------------------
(* Claims.                                                                 *)

(* A running step is held by its latest claim: the attempt counter and the *)
(* owner of the lease move together.                                       *)
HeldByLatestClaim ==
  \A s \in Step : steps[s].status = "running" => steps[s].claimedBy = steps[s].attempts

(* A step that was not claimed in this transaction either is not running   *)
(* after it, or keeps its owner and its attempts.                          *)
NotClaimedNow(s) ==
  \/ steps'[s].status # "running"
  \/ steps[s].status = "running" /\ steps'[s].claimedBy = steps[s].claimedBy
                                 /\ steps'[s].attempts = steps[s].attempts

LEMMA PeopleDoNotClaim ==
  ASSUME TypeOK, People, NEW s \in Step PROVE NotClaimedNow(s)
<1>1. steps[s] \in StepRow /\ steps \in [Step -> StepRow]
  BY DEF TypeOK
<1>2. steps' = steps => NotClaimedNow(s)
  BY DEF NotClaimedNow
<1>3. ASSUME NEW q \in Step, NEW status \in {"pending", "cancelled"},
             steps' = [steps EXCEPT ![q].status = status]
      PROVE  NotClaimedNow(s)
  BY <1>1, <1>3 DEF NotClaimedNow, StepRow
<1>4. ASSUME NEW R, CancelRuns(R) PROVE NotClaimedNow(s)
  BY <1>1, <1>4 DEF CancelRuns, NotClaimedNow, StepRow
<1>5. ASSUME NEW o \in Overage PROVE overages[o].step \in Step
  BY DEF TypeOK, ApprovalsOK, OverageRow
<1> QED BY <1>2, <1>3, <1>4, <1>5
        DEF People, ApproveQuote, DeclineQuote, PauseRun, ResumeRun, RequestCancellation,
            ApproveStep, RejectStep, ApproveOverage, RejectOverage, RequestTaskCancellation,
            GrantStep, RefuseStep

(* Every way a worker or the sweep writes a step takes it off "running". *)
LEMMA WorkersDoNotClaim ==
  ASSUME TypeOK, Workers, NEW s \in Step PROVE NotClaimedNow(s)
<1>1. PICK w \in workers : Settles(w) \/ ReleaseStepForRetry(w) \/ WorkerStops(w)
  BY DEF Workers
<1>2. w.step \in Step /\ steps \in [Step -> StepRow]
  BY <1>1 DEF TypeOK, Worker
<1>3. \/ steps' = steps
      \/ steps' = [steps EXCEPT ![w.step] = Closed(steps[w.step], "completed")]
      \/ steps' = [steps EXCEPT ![w.step] = Closed(steps[w.step], "failed")]
      \/ steps' = [steps EXCEPT ![w.step] = Checkpointed(steps[w.step])]
      \/ steps' = [steps EXCEPT ![w.step] = [Unclaimed(steps[w.step]) EXCEPT !.status = "pending"]]
  BY <1>1 DEF Settles, CompleteStep, FailStep, CheckpointStep, ReleaseStepForRetry, WorkerStops
<1>4. /\ Closed(steps[w.step], "completed").status = "completed"
      /\ Closed(steps[w.step], "failed").status = "failed"
      /\ Checkpointed(steps[w.step]).status = "ready"
      /\ [Unclaimed(steps[w.step]) EXCEPT !.status = "pending"].status = "pending"
  BY <1>2 DEF Closed, Checkpointed, Unclaimed, StepRow
<1>5. PICK row : steps' = steps \/ (steps' = [steps EXCEPT ![w.step] = row] /\ row.status # "running")
  BY <1>3, <1>4
<1> QED BY <1>2, <1>5 DEF NotClaimedNow

LEMMA RecoveryDoesNotClaim ==
  ASSUME TypeOK, Recovery, NEW s \in Step PROVE NotClaimedNow(s)
<1>1. steps \in [Step -> StepRow]
  BY DEF TypeOK
<1>2. ASSUME NEW q \in Step, LeaseLapses(q) PROVE NotClaimedNow(s)
  BY <1>1, <1>2 DEF LeaseLapses, NotClaimedNow, StepRow
<1>3. ASSUME NEW q \in Step, RecoverExpiredLease(q) PROVE NotClaimedNow(s)
  <2>1. \/ steps' = [steps EXCEPT ![q] = Closed(steps[q], "cancelled")]
        \/ steps' = [steps EXCEPT ![q] = Closed(steps[q], "failed")]
        \/ steps' = [steps EXCEPT ![q] = [Unclaimed(steps[q]) EXCEPT !.status = "pending"]]
    BY <1>3 DEF RecoverExpiredLease
  <2>2. /\ Closed(steps[q], "cancelled").status = "cancelled"
        /\ Closed(steps[q], "failed").status = "failed"
        /\ [Unclaimed(steps[q]) EXCEPT !.status = "pending"].status = "pending"
    BY <1>1 DEF Closed, Unclaimed, StepRow
  <2>3. PICK row : steps' = [steps EXCEPT ![q] = row] /\ row.status # "running"
    BY <2>1, <2>2
  <2> QED BY <1>1, <2>3 DEF NotClaimedNow
<1> QED BY <1>2, <1>3 DEF Recovery

LEMMA HeldInductive == TypeOK /\ HeldByLatestClaim /\ [Next]_vars => HeldByLatestClaim'
<1> SUFFICES ASSUME TypeOK, HeldByLatestClaim, [Next]_vars, NEW s \in Step,
                    steps'[s].status = "running"
             PROVE  steps'[s].claimedBy = steps'[s].attempts
  BY DEF HeldByLatestClaim
<1>1. NotClaimedNow(s) => steps'[s].claimedBy = steps'[s].attempts
  BY DEF NotClaimedNow, HeldByLatestClaim
<1>2. steps' = steps => NotClaimedNow(s)
  BY DEF NotClaimedNow
<1>3. ASSUME NEW t \in Tick, NEW q \in Step, ClaimGranted(t, q)
      PROVE  steps'[s].claimedBy = steps'[s].attempts
  <2>1. steps \in [Step -> StepRow]
    BY DEF TypeOK
  <2>2. steps' = [steps EXCEPT ![q] = Claimed(steps[q], Estimate[q])]
    BY <1>3 DEF ClaimGranted
  <2>3. Claimed(steps[q], Estimate[q]).claimedBy = Claimed(steps[q], Estimate[q]).attempts
    BY <2>1 DEF Claimed, StepRow
  <2>4. CASE s = q
    BY <2>1, <2>2, <2>3, <2>4
  <2>5. CASE s # q
    BY <2>1, <2>2, <2>5 DEF HeldByLatestClaim
  <2> QED BY <2>4, <2>5
<1>4. Dispatcher => steps'[s].claimedBy = steps'[s].attempts
  BY <1>1, <1>2, <1>3 DEF Dispatcher, DispatchTick, Claim, ClaimRefused, ClaimNeedsOverage
<1>5. Starter => steps' = steps
  BY DEF Starter, CreateTaskRun, RequestTaskStartApproval
<1>6. UNCHANGED vars => steps' = steps
  BY DEF vars
<1> QED BY <1>1, <1>2, <1>4, <1>5, <1>6, PeopleDoNotClaim, WorkersDoNotClaim, RecoveryDoesNotClaim
        DEF Next

(* Only settlements write the ledger, and they name the worker's claim.    *)
LEMMA ChargedByWorkers ==
  ASSUME Next, NEW u \in ledger' \ ledger
  PROVE  \E w \in workers : Owns(w) /\ u.step = w.step /\ u.claim = w.claim
<1>1. People => ledger' = ledger
  BY DEF People, ApproveQuote, DeclineQuote, PauseRun, ResumeRun, RequestCancellation,
         ApproveStep, RejectStep, ApproveOverage, RejectOverage, RequestTaskCancellation
<1>2. Starter => ledger' = ledger
  BY DEF Starter, CreateTaskRun, RequestTaskStartApproval
<1>3. Dispatcher => ledger' = ledger
  BY DEF Dispatcher, DispatchTick, Claim, ClaimRefused, ClaimNeedsOverage, ClaimGranted
<1>4. Recovery => ledger' = ledger
  BY DEF Recovery, LeaseLapses, RecoverExpiredLease
<1>5. PICK w \in workers : Settles(w) \/ ReleaseStepForRetry(w) \/ WorkerStops(w)
  BY <1>1, <1>2, <1>3, <1>4 DEF Next, Workers
<1>6. PICK actual : CanSettle(w, actual) /\ Charge(w, actual)
  BY <1>5 DEF Settles, CompleteStep, FailStep, CheckpointStep, ReleaseStepForRetry, WorkerStops
<1>7. u = [step |-> w.step, claim |-> w.claim, amountRwf |-> actual]
  BY <1>6 DEF Charge
<1> QED BY <1>6, <1>7 DEF CanSettle

(* A worker whose step was recovered, released, reclaimed or cancelled     *)
(* charges nothing: a charge always comes from the latest claim of a step  *)
(* that is still running.                                                  *)
THEOREM ChargeTheorem == Spec => OnlyTheLatestClaimCharges
<1> DEFINE Charges == \A u \in ledger' \ ledger :
                        steps[u.step].status = "running" /\ steps[u.step].attempts = u.claim
<1>1. Init => TypeOK /\ HeldByLatestClaim
  <2>1. Init => HeldByLatestClaim
    BY DEF Init, HeldByLatestClaim, FreshStep
  <2> QED BY <2>1, InitTypes
<1>2. TypeOK /\ HeldByLatestClaim /\ [Next]_vars => TypeOK' /\ HeldByLatestClaim'
  BY NextTypes, HeldInductive
<1>3. TypeOK /\ HeldByLatestClaim /\ [Next]_vars => [Charges]_vars
  <2> SUFFICES ASSUME TypeOK, HeldByLatestClaim, Next, NEW u \in ledger' \ ledger
               PROVE  steps[u.step].status = "running" /\ steps[u.step].attempts = u.claim
    OBVIOUS
  <2>1. PICK w \in workers : Owns(w) /\ u.step = w.step /\ u.claim = w.claim
    BY ChargedByWorkers
  <2>2. w.step \in Step
    BY DEF TypeOK, Worker
  <2> QED BY <2>1, <2>2 DEF Owns, HeldByLatestClaim
<1> QED BY <1>1, <1>2, <1>3, PTL DEF Spec, OnlyTheLatestClaimCharges
-----------------------------------------------------------------------------
(* What one transaction does to one step, whichever mutation it is.        *)

(* An approval that names a step was decided, whatever the step was doing. *)
DecidedNow(s) ==
  /\ steps'[s] \in {[steps[s] EXCEPT !.status = "pending"], [steps[s] EXCEPT !.status = "cancelled"]}
  /\ \/ s \in Gated
     \/ \E o \in Overage : overages[o].step = s /\ (ApproveOverage(o) \/ RejectOverage(o))

WithdrawnNow(s) ==
  /\ steps[s].status \in {"pending", "ready"}
  /\ steps'[s] = [steps[s] EXCEPT !.status = "cancelled"]

ClaimedNow(s) ==
  /\ Claimable(s) /\ ~OverCap(s)
  /\ steps'[s] = Claimed(steps[s], Estimate[s])

LapsedNow(s) ==
  /\ steps[s].status = "running"
  /\ steps'[s] = [steps[s] EXCEPT !.leaseLive = FALSE]

(* A running step is given up: it ends, waits to be continued, or waits    *)
(* for another attempt, while it has attempts left or because it lost its  *)
(* provider.                                                               *)
GivenUpNow(s) ==
  /\ steps[s].status = "running"
  /\ \/ \E status \in {"completed", "failed", "cancelled"} : steps'[s] = Closed(steps[s], status)
     \/ steps'[s] = Checkpointed(steps[s])
     \/ /\ steps[s].attempts < MaxAttempts \/ past'.excused[s] = past.excused[s] + 1
        /\ steps'[s] = [Unclaimed(steps[s]) EXCEPT !.status = "pending"]

StepMoves(s) ==
  \/ steps'[s] = steps[s]
  \/ DecidedNow(s) \/ WithdrawnNow(s) \/ ClaimedNow(s) \/ LapsedNow(s) \/ GivenUpNow(s)

(* Only gated steps have an approval of their own, and they are never      *)
(* claimed: planDispatch and claimStep both pass them over.                *)
GatesWait ==
  /\ \A s \in Step : gate[s] # "none" => s \in Gated
  /\ \A s \in Gated : steps[s].status \in {"pending", "cancelled"} /\ steps[s].attempts = 0

LEMMA PeopleMoveSteps ==
  ASSUME TypeOK, GatesWait, People, NEW s \in Step
  PROVE  steps'[s] = steps[s] \/ DecidedNow(s) \/ WithdrawnNow(s)
<1> DEFINE Moved == steps'[s] = steps[s] \/ DecidedNow(s) \/ WithdrawnNow(s)
<1> HIDE DEF Moved
<1>1. steps \in [Step -> StepRow]
  BY DEF TypeOK
<1>2. steps' = steps => Moved
  BY DEF Moved
<1>3. ASSUME NEW R, CancelRuns(R) PROVE Moved
  BY <1>1, <1>3 DEF CancelRuns, Moved, WithdrawnNow
<1>4. ASSUME NEW q \in Step, ApproveStep(q) \/ RejectStep(q) PROVE Moved
  <2>1. q \in Gated
    BY <1>4 DEF ApproveStep, RejectStep, GatesWait
  <2>2. \/ steps' = [steps EXCEPT ![q] = [steps[q] EXCEPT !.status = "pending"]]
        \/ steps' = [steps EXCEPT ![q] = [steps[q] EXCEPT !.status = "cancelled"]]
    BY <1>4 DEF ApproveStep, RejectStep, GrantStep, RefuseStep
  <2> QED BY <1>1, <2>1, <2>2 DEF Moved, DecidedNow
<1>5. ASSUME NEW o \in Overage, ApproveOverage(o) \/ RejectOverage(o) PROVE Moved
  <2> DEFINE q == overages[o].step
  <2>1. q \in Step
    BY DEF TypeOK, ApprovalsOK, OverageRow
  <2>2. \/ steps' = [steps EXCEPT ![q] = [steps[q] EXCEPT !.status = "pending"]]
        \/ steps' = [steps EXCEPT ![q] = [steps[q] EXCEPT !.status = "cancelled"]]
    BY <1>5 DEF ApproveOverage, RejectOverage, GrantStep, RefuseStep
  <2>3. s # q => steps'[s] = steps[s]
    BY <1>1, <2>1, <2>2
  <2>4. steps'[q] \in {[steps[q] EXCEPT !.status = "pending"], [steps[q] EXCEPT !.status = "cancelled"]}
    BY <1>1, <2>1, <2>2
  <2>5. s = q => DecidedNow(s)
    BY <1>5, <2>4 DEF DecidedNow
  <2> QED BY <2>3, <2>5 DEF Moved
<1> QED BY <1>2, <1>3, <1>4, <1>5
        DEF People, ApproveQuote, DeclineQuote, PauseRun, ResumeRun, RequestCancellation,
            RequestTaskCancellation, Moved

LEMMA DispatcherMovesSteps ==
  ASSUME TypeOK, Dispatcher, NEW s \in Step
  PROVE  steps'[s] = steps[s] \/ ClaimedNow(s)
<1>1. ASSUME NEW t \in Tick, NEW q \in Step, ClaimGranted(t, q)
      PROVE  steps'[s] = steps[s] \/ ClaimedNow(s)
  <2>1. steps' = [steps EXCEPT ![q] = Claimed(steps[q], Estimate[q])] /\ Claimable(q) /\ ~OverCap(q)
    BY <1>1 DEF ClaimGranted
  <2> QED BY <2>1 DEF TypeOK, ClaimedNow
<1> QED BY <1>1 DEF Dispatcher, DispatchTick, Claim, ClaimRefused, ClaimNeedsOverage

LEMMA WorkersMoveSteps ==
  ASSUME TypeOK, HeldByLatestClaim, Workers, NEW s \in Step
  PROVE  steps'[s] = steps[s] \/ GivenUpNow(s)
<1>1. PICK w \in workers : Settles(w) \/ ReleaseStepForRetry(w) \/ WorkerStops(w)
  BY DEF Workers
<1> DEFINE q == w.step
<1>2. q \in Step /\ steps \in [Step -> StepRow]
  BY <1>1 DEF TypeOK, Worker
<1>3. Settles(w) \/ ReleaseStepForRetry(w) => Owns(w)
  BY DEF Settles, CompleteStep, FailStep, CheckpointStep, CanSettle, ReleaseStepForRetry
<1>4. ASSUME Owns(w)
      PROVE  steps[q].status = "running" /\ steps[q].attempts = w.claim
  BY <1>2, <1>4 DEF Owns, HeldByLatestClaim
<1>5. ASSUME Settles(w)
      PROVE  \/ steps' = [steps EXCEPT ![q] = Closed(steps[q], "completed")]
             \/ steps' = [steps EXCEPT ![q] = Closed(steps[q], "failed")]
             \/ steps' = [steps EXCEPT ![q] = Checkpointed(steps[q])]
  BY <1>5 DEF Settles, CompleteStep, FailStep, CheckpointStep
<1>6. ASSUME ReleaseStepForRetry(w)
      PROVE  /\ w.claim < MaxAttempts \/ past'.excused[q] = past.excused[q] + 1
             /\ steps' = [steps EXCEPT ![q] = [Unclaimed(steps[q]) EXCEPT !.status = "pending"]]
  BY <1>2, <1>6 DEF ReleaseStepForRetry, NotesRelease, TypeOK, PastRow
<1>7. WorkerStops(w) => steps' = steps
  BY DEF WorkerStops
<1> HIDE DEF q
<1>8. Settles(w) => steps'[s] = steps[s] \/ GivenUpNow(s)
  BY <1>2, <1>3, <1>4, <1>5 DEF GivenUpNow
<1>9. ReleaseStepForRetry(w) => steps'[s] = steps[s] \/ GivenUpNow(s)
  BY <1>2, <1>3, <1>4, <1>6 DEF GivenUpNow
<1> QED BY <1>1, <1>7, <1>8, <1>9

LEMMA RecoveryMovesSteps ==
  ASSUME TypeOK, Recovery, NEW s \in Step
  PROVE  steps'[s] = steps[s] \/ LapsedNow(s) \/ GivenUpNow(s)
<1>1. steps \in [Step -> StepRow]
  BY DEF TypeOK
<1>2. ASSUME NEW q \in Step, LeaseLapses(q) PROVE steps'[s] = steps[s] \/ LapsedNow(s)
  BY <1>1, <1>2 DEF LeaseLapses, LapsedNow
<1>3. ASSUME NEW q \in Step, RecoverExpiredLease(q) PROVE steps'[s] = steps[s] \/ GivenUpNow(s)
  <2>1. /\ steps[q].status = "running" /\ steps[q].attempts \in Nat
        /\ \/ steps' = [steps EXCEPT ![q] = Closed(steps[q], "cancelled")]
           \/ steps' = [steps EXCEPT ![q] = Closed(steps[q], "failed")]
           \/ /\ ~Exhausted(q)
              /\ steps' = [steps EXCEPT ![q] = [Unclaimed(steps[q]) EXCEPT !.status = "pending"]]
    BY <1>1, <1>3 DEF RecoverExpiredLease, Lapsed, StepRow
  <2>2. ~Exhausted(q) => steps[q].attempts < MaxAttempts
    BY <2>1, BoundAssumption DEF Exhausted
  <2> QED BY <1>1, <2>1, <2>2 DEF GivenUpNow
<1> QED BY <1>2, <1>3 DEF Recovery

LEMMA NextMovesSteps ==
  ASSUME TypeOK, HeldByLatestClaim, GatesWait, [Next]_vars, NEW s \in Step
  PROVE  StepMoves(s)
<1>1. Starter \/ UNCHANGED vars => steps'[s] = steps[s]
  BY DEF Starter, CreateTaskRun, RequestTaskStartApproval, vars
<1> QED BY <1>1, PeopleMoveSteps, DispatcherMovesSteps, WorkersMoveSteps, RecoveryMovesSteps
        DEF Next, StepMoves

(* The rows those moves write. *)
LEMMA MovedRows ==
  ASSUME TypeOK, NEW s \in Step
  PROVE  /\ steps[s] \in StepRow /\ steps[s].attempts \in Nat /\ steps[s].resumes \in Nat
         /\ steps[s].reservedRwf \in Nat
         /\ (DecidedNow(s) \/ WithdrawnNow(s)) =>
                   /\ steps'[s].status \in {"pending", "cancelled"}
                   /\ steps'[s].attempts = steps[s].attempts
                   /\ steps'[s].resumes = steps[s].resumes
                   /\ steps'[s].reservedRwf = steps[s].reservedRwf
                   /\ WithdrawnNow(s) => steps'[s].status = "cancelled"
         /\ (ClaimedNow(s)) =>
                   /\ steps'[s].status = "running" /\ steps'[s].attempts = steps[s].attempts + 1
                   /\ steps'[s].resumes = steps[s].resumes
                   /\ steps'[s].reservedRwf = Estimate[s]
         /\ (LapsedNow(s)) =>
                   /\ steps'[s].status = "running" /\ steps'[s].attempts = steps[s].attempts
                   /\ steps'[s].resumes = steps[s].resumes
                   /\ steps'[s].reservedRwf = steps[s].reservedRwf
         /\ (GivenUpNow(s)) =>
                   /\ steps'[s].attempts = steps[s].attempts
                   /\ \/ /\ steps'[s].status \in {"completed", "failed", "cancelled"}
                         /\ steps'[s].resumes = steps[s].resumes
                      \/ /\ steps'[s].status = "ready"
                         /\ steps'[s].resumes = steps[s].resumes + 1
                      \/ /\ steps'[s].status = "pending"
                         /\ steps[s].attempts < MaxAttempts \/ past'.excused[s] = past.excused[s] + 1
                         /\ steps'[s].resumes = steps[s].resumes
<1>1. steps[s] \in StepRow
  BY DEF TypeOK
<1>2. /\ steps[s].attempts \in Nat /\ steps[s].resumes \in Nat /\ steps[s].reservedRwf \in Nat
  BY <1>1 DEF StepRow
<1>3. ASSUME DecidedNow(s) \/ WithdrawnNow(s)
      PROVE  /\ steps'[s].status \in {"pending", "cancelled"}
             /\ steps'[s].attempts = steps[s].attempts
             /\ steps'[s].resumes = steps[s].resumes
             /\ steps'[s].reservedRwf = steps[s].reservedRwf
             /\ WithdrawnNow(s) => steps'[s].status = "cancelled"
  BY <1>1, <1>3 DEF DecidedNow, WithdrawnNow, StepRow
<1>4. ASSUME ClaimedNow(s)
      PROVE  /\ steps'[s].status = "running" /\ steps'[s].attempts = steps[s].attempts + 1
             /\ steps'[s].resumes = steps[s].resumes
             /\ steps'[s].reservedRwf = Estimate[s]
  BY <1>1, <1>4 DEF ClaimedNow, Claimed, StepRow
<1>5. ASSUME LapsedNow(s)
      PROVE  /\ steps'[s].status = "running" /\ steps'[s].attempts = steps[s].attempts
             /\ steps'[s].resumes = steps[s].resumes
             /\ steps'[s].reservedRwf = steps[s].reservedRwf
  BY <1>1, <1>5 DEF LapsedNow, StepRow
<1>6. ASSUME GivenUpNow(s)
      PROVE  /\ steps'[s].attempts = steps[s].attempts
             /\ \/ /\ steps'[s].status \in {"completed", "failed", "cancelled"}
                   /\ steps'[s].resumes = steps[s].resumes
                \/ /\ steps'[s].status = "ready"
                   /\ steps'[s].resumes = steps[s].resumes + 1
                \/ /\ steps'[s].status = "pending"
                   /\ steps[s].attempts < MaxAttempts \/ past'.excused[s] = past.excused[s] + 1
                   /\ steps'[s].resumes = steps[s].resumes
  BY <1>1, <1>6 DEF GivenUpNow, Closed, Checkpointed, Unclaimed, StepRow
<1> QED BY <1>1, <1>2, <1>3, <1>4, <1>5, <1>6

(* Gated steps stay gated and unclaimed.                                   *)
LEMMA GatesWaitInductive ==
  TypeOK /\ HeldByLatestClaim /\ GatesWait /\ [Next]_vars => GatesWait'
<1> SUFFICES ASSUME TypeOK, HeldByLatestClaim, GatesWait, [Next]_vars PROVE GatesWait'
  OBVIOUS
<1>1. ASSUME NEW s \in Step, gate'[s] # "none" PROVE s \in Gated
  <2>1. gate \in [Step -> ApprovalStatus]
    BY DEF TypeOK, ApprovalsOK
  <2>2. gate' = gate => s \in Gated
    BY <1>1 DEF GatesWait
  <2>3. ASSUME NEW q \in Step, gate[q] = "pending",
               \E status : gate' = [gate EXCEPT ![q] = status]
        PROVE  s \in Gated
    BY <1>1, <2>1, <2>3 DEF GatesWait
  <2>4. ASSUME NEW R, ExpireApprovals(R) PROVE s \in Gated
    BY <1>1, <2>1, <2>4 DEF ExpireApprovals, Expired, GatesWait
  <2>5. People => s \in Gated
    BY <2>2, <2>3, <2>4 DEF People, ApproveQuote, DeclineQuote, PauseRun, ResumeRun,
         RequestCancellation, ApproveStep, RejectStep, ApproveOverage, RejectOverage,
         RequestTaskCancellation
  <2>6. Starter => s \in Gated
    BY <1>1, <2>2 DEF Starter, CreateTaskRun, RequestTaskStartApproval, GatesWait
  <2>7. Dispatcher => gate' = gate
    BY DEF Dispatcher, DispatchTick, Claim, ClaimRefused, ClaimNeedsOverage, ClaimGranted
  <2>8. Workers => gate' = gate
    BY DEF Workers, Settles, CompleteStep, FailStep, CheckpointStep, ReleaseStepForRetry, WorkerStops
  <2>9. Recovery => gate' = gate
    BY DEF Recovery, LeaseLapses, RecoverExpiredLease
  <2> QED BY <2>2, <2>5, <2>6, <2>7, <2>8, <2>9 DEF Next, vars
<1>2. ASSUME NEW s \in Gated
      PROVE  steps'[s].status \in {"pending", "cancelled"} /\ steps'[s].attempts = 0
  <2>1. s \in Step /\ StepMoves(s)
    BY GraphAssumption, NextMovesSteps
  <2>2. steps[s].status \in {"pending", "cancelled"} /\ steps[s].attempts = 0
    BY DEF GatesWait
  <2>3. ~ClaimedNow(s) /\ ~LapsedNow(s) /\ ~GivenUpNow(s)
    BY <2>2 DEF ClaimedNow, Claimable, LapsedNow, GivenUpNow
  <2> QED BY <2>1, <2>2, <2>3, MovedRows DEF StepMoves
<1> QED BY <1>1, <1>2 DEF GatesWait

StepsInv == TypeOK /\ HeldByLatestClaim /\ GatesWait

LEMMA StepsInit == Init => StepsInv
<1>1. Init => HeldByLatestClaim /\ GatesWait
  BY GraphAssumption DEF Init, HeldByLatestClaim, GatesWait, FreshStep
<1> QED BY <1>1, InitTypes DEF StepsInv

(* What holds of steps and their claims whatever is decided and when.      *)
LEMMA StepsInductive == StepsInv /\ [Next]_vars => StepsInv'
BY NextTypes, HeldInductive, GatesWaitInductive DEF StepsInv

-----------------------------------------------------------------------------
(* What one transaction does to the reserved balance: it takes the         *)
(* reservation of the one step it claims, gives back that of the one step  *)
(* it takes off "running", or leaves the balance alone.                    *)

OnlyStep(s) == \A q \in Step : q # s => steps'[q] = steps[q]

Takes(s) ==
  /\ Claimable(s) /\ OnlyStep(s)
  /\ steps'[s].status = "running" /\ steps'[s].reservedRwf = Estimate[s]
  /\ task'.reservedRwf = task.reservedRwf + Estimate[s]

GivesBack(s) ==
  /\ steps[s].status = "running" /\ OnlyStep(s)
  /\ steps'[s].status # "running"
  /\ steps[s].reservedRwf <= task.reservedRwf
  /\ task'.reservedRwf = task.reservedRwf - steps[s].reservedRwf

LeavesBalance ==
  /\ task'.reservedRwf = task.reservedRwf
  /\ \A s \in Step :
       /\ steps'[s].status = "running" =>
            steps[s].status = "running" /\ steps'[s].reservedRwf = steps[s].reservedRwf
       /\ steps[s].status = "running" => steps'[s].status = "running" \/ DecidedNow(s)

BalanceMoves == \/ \E s \in Step : Takes(s) \/ GivesBack(s)
                \/ LeavesBalance

LEMMA WorkerMovesBalance ==
  ASSUME TypeOK, NEW w \in workers, Settles(w) \/ ReleaseStepForRetry(w)
  PROVE  w.step \in Step /\ GivesBack(w.step)
<1> DEFINE s == w.step
<1>1. s \in Step /\ w.reservation \in Nat /\ steps \in [Step -> StepRow]
  BY DEF TypeOK, Worker
<1>2. CASE Settles(w)
  <2>1. PICK actual \in 0 .. w.reservation + 1 :
          CompleteStep(w, actual) \/ FailStep(w, actual) \/ CheckpointStep(w, actual)
    BY <1>2 DEF Settles
  <2>2. actual \in Nat /\ CanSettle(w, actual)
    BY <1>1, <2>1 DEF CompleteStep, FailStep, CheckpointStep
  <2>3. /\ SettledTask(w, actual) \in TaskRow
        /\ SettledTask(w, actual).reservedRwf = task.reservedRwf - steps[s].reservedRwf
    BY <2>2, SettledTaskType
  <2>4. task'.reservedRwf = SettledTask(w, actual).reservedRwf
    BY <2>1, <2>3 DEF CompleteStep, FailStep, CheckpointStep, TaskRow
  <2>5. \/ steps' = [steps EXCEPT ![s] = Closed(steps[s], "completed")]
        \/ steps' = [steps EXCEPT ![s] = Closed(steps[s], "failed")]
        \/ steps' = [steps EXCEPT ![s] = Checkpointed(steps[s])]
    BY <2>1 DEF CompleteStep, FailStep, CheckpointStep
  <2>6. /\ Closed(steps[s], "completed").status = "completed"
        /\ Closed(steps[s], "failed").status = "failed"
        /\ Checkpointed(steps[s]).status = "ready"
    BY <1>1 DEF Closed, Checkpointed, Unclaimed, StepRow
  <2>7. OnlyStep(s) /\ steps'[s].status # "running"
    BY <1>1, <2>5, <2>6 DEF OnlyStep
  <2>8. steps[s].status = "running" /\ steps[s].reservedRwf <= task.reservedRwf
    BY <2>2 DEF CanSettle, Owns
  <2> QED BY <1>1, <2>3, <2>4, <2>7, <2>8 DEF GivesBack
<1>3. CASE ReleaseStepForRetry(w)
  <2>1. /\ steps[s].status = "running" /\ steps[s].reservedRwf <= task.reservedRwf
        /\ task' = Released(s)
        /\ steps' = [steps EXCEPT ![s] = [Unclaimed(steps[s]) EXCEPT !.status = "pending"]]
    BY <1>3 DEF ReleaseStepForRetry, Owns
  <2>2. task'.reservedRwf = task.reservedRwf - steps[s].reservedRwf
    BY <1>1, <2>1, ReleasedType DEF TypeOK
  <2>3. [Unclaimed(steps[s]) EXCEPT !.status = "pending"].status = "pending"
    BY <1>1 DEF Unclaimed, StepRow
  <2>4. OnlyStep(s) /\ steps'[s].status # "running"
    BY <1>1, <2>1, <2>3 DEF OnlyStep
  <2> QED BY <1>1, <2>1, <2>2, <2>4 DEF GivesBack
<1> QED BY <1>2, <1>3

LEMMA RecoveryMovesBalance ==
  ASSUME TypeOK, NEW s \in Step, RecoverExpiredLease(s)
  PROVE  GivesBack(s)
<1>1. steps \in [Step -> StepRow]
  BY DEF TypeOK
<1>2. steps[s].status = "running" /\ steps[s].reservedRwf <= task.reservedRwf
  BY DEF RecoverExpiredLease, Lapsed
<1>3. Released(s) \in TaskRow /\ Released(s).reservedRwf = task.reservedRwf - steps[s].reservedRwf
  BY <1>2, ReleasedType DEF TypeOK
<1>4. task'.reservedRwf = task.reservedRwf - steps[s].reservedRwf
  <2>1. task' = Released(s) \/ task' = [Released(s) EXCEPT !.status = "blocked"]
    BY DEF RecoverExpiredLease
  <2> HIDE DEF Released
  <2> QED BY <1>3, <2>1 DEF TaskRow
<1>5. \/ steps' = [steps EXCEPT ![s] = Closed(steps[s], "cancelled")]
      \/ steps' = [steps EXCEPT ![s] = Closed(steps[s], "failed")]
      \/ steps' = [steps EXCEPT ![s] = [Unclaimed(steps[s]) EXCEPT !.status = "pending"]]
  BY DEF RecoverExpiredLease
<1>6. /\ Closed(steps[s], "cancelled").status = "cancelled"
      /\ Closed(steps[s], "failed").status = "failed"
      /\ [Unclaimed(steps[s]) EXCEPT !.status = "pending"].status = "pending"
  BY <1>1 DEF Closed, Unclaimed, StepRow
<1>7. OnlyStep(s) /\ steps'[s].status # "running"
  BY <1>1, <1>5, <1>6 DEF OnlyStep
<1> QED BY <1>2, <1>4, <1>7 DEF GivesBack

LEMMA ClaimMovesBalance ==
  ASSUME TypeOK, NEW t \in Tick, NEW s \in Step, ClaimGranted(t, s)
  PROVE  Takes(s)
<1>1. steps \in [Step -> StepRow] /\ task \in TaskRow
  BY DEF TypeOK
<1>2. Claimable(s) /\ steps' = [steps EXCEPT ![s] = Claimed(steps[s], Estimate[s])]
  BY DEF ClaimGranted
<1>3. /\ Claimed(steps[s], Estimate[s]).status = "running"
      /\ Claimed(steps[s], Estimate[s]).reservedRwf = Estimate[s]
  BY <1>1 DEF Claimed, StepRow
<1>4. task'.reservedRwf = task.reservedRwf + Estimate[s]
  BY <1>1 DEF ClaimGranted, TaskRow
<1> QED BY <1>1, <1>2, <1>3, <1>4 DEF Takes, OnlyStep

LEMMA NextMovesBalance ==
  ASSUME TypeOK, [Next]_vars, GatesWait, HeldByLatestClaim
  PROVE  BalanceMoves
<1>2. ASSUME People PROVE LeavesBalance
  <2>1. task'.reservedRwf = task.reservedRwf
    <3>1. CASE \E o \in Overage : ApproveOverage(o)
      <4>1. PICK o \in Overage : ApproveOverage(o)
        BY <3>1
      <4>2. overages[o].requestedRwf \in Nat
        BY DEF TypeOK, ApprovalsOK, OverageRow
      <4> QED BY <4>1, <4>2 DEF ApproveOverage, RaiseTo, TypeOK, TaskRow
    <3>2. CASE ~ \E o \in Overage : ApproveOverage(o)
      <4>1. PICK status \in TaskStatus : task' = task \/ task' = SetTask(status)
        BY <1>2, <3>2, PeopleStatuses DEF TaskStatus
      <4> QED BY <4>1, StatusLeavesAmounts DEF amounts
    <3> QED BY <3>1, <3>2
  <2>2. ASSUME NEW s \in Step
        PROVE  /\ steps'[s].status = "running" =>
                    steps[s].status = "running" /\ steps'[s].reservedRwf = steps[s].reservedRwf
               /\ steps[s].status = "running" => steps'[s].status = "running" \/ DecidedNow(s)
    BY <1>2, PeopleMoveSteps, MovedRows DEF WithdrawnNow
  <2> QED BY <2>1, <2>2 DEF LeavesBalance
<1>3. ASSUME UNCHANGED <<task, steps>> PROVE LeavesBalance
  BY <1>3 DEF LeavesBalance
<1>4. Starter \/ UNCHANGED vars => UNCHANGED <<task, steps>>
  BY DEF Starter, CreateTaskRun, RequestTaskStartApproval, vars
<1>5. Dispatcher => BalanceMoves
  BY <1>3, ClaimMovesBalance
  DEF BalanceMoves, Dispatcher, DispatchTick, Claim, ClaimRefused, ClaimNeedsOverage
<1>6. ASSUME Workers PROVE BalanceMoves
  <2>1. PICK w \in workers : Settles(w) \/ ReleaseStepForRetry(w) \/ WorkerStops(w)
    BY <1>6 DEF Workers
  <2>2. WorkerStops(w) => UNCHANGED <<task, steps>>
    BY DEF WorkerStops
  <2> QED BY <1>3, <2>1, <2>2, WorkerMovesBalance DEF BalanceMoves
<1>7. ASSUME Recovery PROVE BalanceMoves
  <2>1. ASSUME NEW s \in Step, LeaseLapses(s) PROVE LeavesBalance
    BY <2>1 DEF LeaseLapses, LeavesBalance, TypeOK, StepRow
  <2> QED BY <1>7, <2>1, RecoveryMovesBalance DEF BalanceMoves, Recovery
<1> QED BY <1>2, <1>3, <1>4, <1>5, <1>6, <1>7 DEF Next, BalanceMoves

(* The sum of the running steps' reservations follows.                     *)
Reserved == [s \in Step |-> steps[s].reservedRwf]

ReservedOK ==
  /\ Reserved \in [Step -> Nat] /\ Running \subseteq Step /\ IsFiniteSet(Running)
  /\ ReservedByRunning = SumFunctionOnSet(Reserved, Running)
  /\ ReservedByRunning \in Nat

LEMMA ReservedType == TypeOK => ReservedOK
<1> SUFFICES ASSUME TypeOK PROVE ReservedOK
  OBVIOUS
<1>1. Reserved \in [Step -> Nat]
  BY DEF TypeOK, StepRow, Reserved
<1>2. Running \subseteq Step /\ IsFiniteSet(Running)
  BY GraphAssumption, FS_Subset DEF Running
<1>3. ReservedByRunning = SumFunctionOnSet(Reserved, Running)
  BY DEF ReservedByRunning, Reserved
<1>4. SumFunctionOnSet(Reserved, Running) \in Nat
  BY <1>1, <1>2, SumType
<1> QED BY <1>1, <1>2, <1>3, <1>4 DEF ReservedOK

LEMMA ReservedNextType == TypeOK' => ReservedOK'
BY ReservedType, PTL

LEMMA ReservedTaken ==
  ASSUME TypeOK, TypeOK', NEW s \in Step, Takes(s)
  PROVE  /\ Running' = Running \union {s} /\ s \notin Running
         /\ ReservedByRunning' = ReservedByRunning + Estimate[s]
<1>1. s \notin Running
  BY DEF Takes, Claimable, Running
<1>2. Running' = Running \union {s}
  BY DEF Takes, OnlyStep, Running
<1>3. /\ Reserved \in [Step -> Nat] /\ Reserved' \in [Step -> Nat] /\ IsFiniteSet(Running)
      /\ IsFiniteSet(Running')
      /\ ReservedByRunning = SumFunctionOnSet(Reserved, Running)
      /\ ReservedByRunning' = SumFunctionOnSet(Reserved', Running')
  BY ReservedType, ReservedNextType DEF ReservedOK
<1>4. \A q \in Running : Reserved'[q] = Reserved[q]
  BY <1>1 DEF Takes, OnlyStep, Reserved, Running
<1>5. Reserved'[s] = Estimate[s]
  BY DEF Takes, Reserved
<1>6. SumFunctionOnSet(Reserved', Running) = SumFunctionOnSet(Reserved, Running)
  BY <1>3, <1>4, SumAgrees
<1>7. \A q \in Running' : Reserved'[q] \in Int
  BY <1>2, <1>3 DEF Running
<1>8. SumFunctionOnSet(Reserved', Running') = Reserved'[s] + SumFunctionOnSet(Reserved', Running' \ {s})
  BY <1>2, <1>3, <1>7, SumWithout
<1>9. Running' \ {s} = Running
  BY <1>1, <1>2
<1>10. ReservedByRunning \in Nat /\ Estimate[s] \in Nat
  BY ReservedType, MoneyAssumption DEF ReservedOK
<1>11. ReservedByRunning' = Estimate[s] + SumFunctionOnSet(Reserved', Running' \ {s})
  BY <1>3, <1>5, <1>8
<1>12. ReservedByRunning' = Estimate[s] + ReservedByRunning
  BY <1>3, <1>6, <1>9, <1>11
<1>13. ReservedByRunning' = ReservedByRunning + Estimate[s]
  BY <1>10, <1>12
<1> QED BY <1>1, <1>2, <1>13

LEMMA ReservedGivenBack ==
  ASSUME TypeOK, TypeOK', NEW s \in Step, GivesBack(s)
  PROVE  /\ Running' = Running \ {s} /\ s \in Running
         /\ ReservedByRunning' = ReservedByRunning - steps[s].reservedRwf
<1>1. s \in Running
  BY DEF GivesBack, Running
<1>2. Running' = Running \ {s}
  BY DEF GivesBack, OnlyStep, Running
<1>3. /\ Reserved \in [Step -> Nat] /\ Reserved' \in [Step -> Nat] /\ IsFiniteSet(Running)
      /\ IsFiniteSet(Running')
      /\ ReservedByRunning = SumFunctionOnSet(Reserved, Running)
      /\ ReservedByRunning' = SumFunctionOnSet(Reserved', Running')
      /\ ReservedByRunning' \in Nat
  BY ReservedType, ReservedNextType DEF ReservedOK
<1>4. \A q \in Running' : Reserved[q] = Reserved'[q]
  BY <1>2 DEF GivesBack, OnlyStep, Reserved, Running
<1>5. SumFunctionOnSet(Reserved, Running') = SumFunctionOnSet(Reserved', Running')
  BY <1>3, <1>4, SumAgrees
<1>6. \A q \in Running : Reserved[q] \in Int
  BY <1>3 DEF Running
<1>7. SumFunctionOnSet(Reserved, Running) = Reserved[s] + SumFunctionOnSet(Reserved, Running \ {s})
  BY <1>1, <1>3, <1>6, SumWithout
<1>8. Reserved[s] = steps[s].reservedRwf /\ Reserved[s] \in Nat
  BY <1>3 DEF Reserved
<1> QED BY <1>1, <1>2, <1>3, <1>5, <1>7, <1>8

(* A step that a late decision takes off "running" takes its reservation   *)
(* out of the sum and leaves it in the balance.                            *)
LEMMA ReservedLeft ==
  ASSUME TypeOK, TypeOK', LeavesBalance
  PROVE  /\ Running' \subseteq Running
         /\ ReservedByRunning' <= ReservedByRunning
         /\ Running' = Running => ReservedByRunning' = ReservedByRunning
<1>1. Running' \subseteq Running
  BY DEF LeavesBalance, Running
<1>2. /\ Reserved \in [Step -> Nat] /\ Reserved' \in [Step -> Nat] /\ IsFiniteSet(Running)
      /\ IsFiniteSet(Running')
      /\ ReservedByRunning = SumFunctionOnSet(Reserved, Running)
      /\ ReservedByRunning' = SumFunctionOnSet(Reserved', Running')
      /\ ReservedByRunning' \in Nat
  BY ReservedType, ReservedNextType DEF ReservedOK
<1>3. \A q \in Running' : Reserved[q] = Reserved'[q]
  BY DEF LeavesBalance, Reserved, Running
<1>4. SumFunctionOnSet(Reserved, Running') = SumFunctionOnSet(Reserved', Running')
  BY <1>2, <1>3, SumAgrees
<1>5. \A q \in Running : Reserved[q] \in Nat
  BY <1>2 DEF Running
<1>6. SumFunctionOnSet(Reserved, Running') <= SumFunctionOnSet(Reserved, Running)
  BY <1>1, <1>2, <1>5, SumMonotonic
<1> QED BY <1>1, <1>2, <1>4, <1>6

(* The balance covers the reservations of all running steps, whatever is   *)
(* decided late, so no expired lease makes the recovery sweep throw.       *)
LEMMA RecoveryInductive ==
  ASSUME TypeOK, TypeOK', GatesWait, HeldByLatestClaim, [Next]_vars, RecoveryNeverWedged
  PROVE  RecoveryNeverWedged'
<1>1. /\ task.reservedRwf \in Nat /\ task'.reservedRwf \in Nat
      /\ ReservedByRunning \in Nat /\ ReservedByRunning' \in Nat
      /\ \A s \in Step : Estimate[s] \in Nat /\ steps[s].reservedRwf \in Nat
  BY ReservedType, ReservedNextType, MoneyAssumption DEF ReservedOK, TypeOK, TaskRow, StepRow
<1>2. ReservedByRunning <= task.reservedRwf
  BY DEF RecoveryNeverWedged
<1>3. ASSUME NEW s \in Step, Takes(s) PROVE ReservedByRunning' <= task'.reservedRwf
  BY <1>1, <1>2, <1>3, ReservedTaken DEF Takes
<1>4. ASSUME NEW s \in Step, GivesBack(s) PROVE ReservedByRunning' <= task'.reservedRwf
  BY <1>1, <1>2, <1>4, ReservedGivenBack DEF GivesBack
<1>5. LeavesBalance => ReservedByRunning' <= task'.reservedRwf
  BY <1>1, <1>2, ReservedLeft DEF LeavesBalance
<1> QED BY <1>3, <1>4, <1>5, NextMovesBalance DEF BalanceMoves, RecoveryNeverWedged

-----------------------------------------------------------------------------
(* The usage ledger.  What keeps it a set without losing a charge is that  *)
(* a claim settles once: its step leaves "running" with the charge, and    *)
(* runs again only under the next number.                                  *)
ChargedOnce ==
  /\ IsFiniteSet(ledger)
  /\ \A u \in ledger :
       /\ u.claim <= steps[u.step].attempts
       /\ steps[u.step].status = "running" => u.claim < steps[u.step].attempts

SettledNow(w, actual) ==
  /\ actual \in Nat /\ Owns(w) /\ GivesBack(w.step) /\ Charge(w, actual)
  /\ runs[RunOf[w.step]] # "cancelled"
  /\ task'.spentRwf = task.spentRwf + actual

ChargesNothing == ledger' = ledger /\ task'.spentRwf = task.spentRwf

LEMMA WorkersCharge ==
  ASSUME TypeOK, NEW w \in workers, Settles(w) \/ ReleaseStepForRetry(w) \/ WorkerStops(w)
  PROVE  ChargesNothing \/ \E actual \in Nat : SettledNow(w, actual)
<1>1. w.step \in Step /\ w.reservation \in Nat
  BY DEF TypeOK, Worker
<1>2. CASE Settles(w)
  <2>1. PICK actual \in 0 .. w.reservation + 1 :
          CompleteStep(w, actual) \/ FailStep(w, actual) \/ CheckpointStep(w, actual)
    BY <1>2 DEF Settles
  <2>2. actual \in Nat /\ CanSettle(w, actual) /\ Charge(w, actual)
    BY <1>1, <2>1 DEF CompleteStep, FailStep, CheckpointStep
  <2>3. /\ SettledTask(w, actual) \in TaskRow
        /\ SettledTask(w, actual).spentRwf = task.spentRwf + actual
    BY <2>2, SettledTaskType
  <2>4. task'.spentRwf = SettledTask(w, actual).spentRwf
    BY <2>1, <2>3 DEF CompleteStep, FailStep, CheckpointStep, TaskRow
  <2>5. GivesBack(w.step)
    BY <1>2, WorkerMovesBalance
  <2>6. Owns(w) /\ runs[RunOf[w.step]] # "cancelled"
    BY <2>2 DEF CanSettle
  <2> QED BY <2>2, <2>3, <2>4, <2>5, <2>6 DEF SettledNow
<1>3. CASE ReleaseStepForRetry(w)
  <2>1. task' = Released(w.step) /\ ledger' = ledger /\ steps[w.step].reservedRwf <= task.reservedRwf
    BY <1>3 DEF ReleaseStepForRetry
  <2>2. task'.spentRwf = task.spentRwf
    BY <1>1, <2>1, ReleasedType DEF TypeOK
  <2> QED BY <2>1, <2>2 DEF ChargesNothing
<1>4. CASE WorkerStops(w)
  BY <1>4 DEF WorkerStops, ChargesNothing
<1> QED BY <1>2, <1>3, <1>4

LEMMA NextCharges ==
  ASSUME TypeOK, [Next]_vars
  PROVE  ChargesNothing \/ \E w \in workers, actual \in Nat : SettledNow(w, actual)
<1>1. ASSUME People PROVE ChargesNothing
  <2>1. ledger' = ledger
    BY <1>1 DEF People, ApproveQuote, DeclineQuote, PauseRun, ResumeRun, RequestCancellation,
         ApproveStep, RejectStep, ApproveOverage, RejectOverage, RequestTaskCancellation
  <2>2. task'.spentRwf = task.spentRwf
    <3>1. CASE \E o \in Overage : ApproveOverage(o)
      <4>1. PICK o \in Overage : ApproveOverage(o)
        BY <3>1
      <4>2. overages[o].requestedRwf \in Nat
        BY DEF TypeOK, ApprovalsOK, OverageRow
      <4> QED BY <4>1, <4>2 DEF ApproveOverage, RaiseTo, TypeOK, TaskRow
    <3>2. CASE ~ \E o \in Overage : ApproveOverage(o)
      <4>1. PICK status \in TaskStatus : task' = task \/ task' = SetTask(status)
        BY <1>1, <3>2, PeopleStatuses DEF TaskStatus
      <4> QED BY <4>1, StatusLeavesAmounts DEF amounts
    <3> QED BY <3>1, <3>2
  <2> QED BY <2>1, <2>2 DEF ChargesNothing
<1>2. Starter \/ UNCHANGED vars => ChargesNothing
  BY DEF Starter, CreateTaskRun, RequestTaskStartApproval, vars, ChargesNothing
<1>3. Dispatcher => ChargesNothing
  BY DEF Dispatcher, DispatchTick, Claim, ClaimRefused, ClaimNeedsOverage, ClaimGranted,
         ChargesNothing, TypeOK, TaskRow
<1>4. ASSUME Recovery PROVE ChargesNothing
  <2>1. ASSUME NEW s \in Step, LeaseLapses(s) PROVE ChargesNothing
    BY <2>1 DEF LeaseLapses, ChargesNothing
  <2>2. ASSUME NEW s \in Step, RecoverExpiredLease(s) PROVE ChargesNothing
    <3>1. /\ steps[s].reservedRwf <= task.reservedRwf /\ ledger' = ledger
          /\ task' = Released(s) \/ task' = [Released(s) EXCEPT !.status = "blocked"]
      BY <2>2 DEF RecoverExpiredLease
    <3>2. Released(s) \in TaskRow /\ Released(s).spentRwf = task.spentRwf
      BY <3>1, ReleasedType DEF TypeOK
    <3> HIDE DEF Released
    <3>3. task'.spentRwf = task.spentRwf
      BY <3>1, <3>2 DEF TaskRow
    <3> QED BY <3>1, <3>3 DEF ChargesNothing
  <2> QED BY <1>4, <2>1, <2>2 DEF Recovery
<1>5. Workers => ChargesNothing \/ \E w \in workers, actual \in Nat : SettledNow(w, actual)
  BY WorkersCharge DEF Workers
<1> QED BY <1>1, <1>2, <1>3, <1>4, <1>5 DEF Next

(* A settlement adds one record, of a claim that has none yet.             *)
LEMMA SettlementRecord ==
  ASSUME TypeOK, HeldByLatestClaim, ChargedOnce, NEW w \in workers, NEW actual, SettledNow(w, actual)
  PROVE  \E u \in Usage : /\ u \notin ledger /\ ledger' = ledger \union {u}
                          /\ u.amountRwf = actual /\ u.step = w.step
                          /\ u.claim = steps[w.step].attempts
<1>1. w.step \in Step /\ w.claim \in Nat /\ actual \in Nat
  BY DEF TypeOK, Worker, SettledNow
<1>2. steps[w.step].status = "running" /\ steps[w.step].attempts = w.claim
  BY <1>1 DEF SettledNow, Owns, HeldByLatestClaim
<1> DEFINE u == [step |-> w.step, claim |-> w.claim, amountRwf |-> actual]
<1>3. ledger' = ledger \union {u}
  BY DEF SettledNow, Charge
<1>4. u \in Usage /\ u.amountRwf = actual /\ u.step = w.step /\ u.claim = w.claim
  BY <1>1 DEF Usage
<1>5. u \notin ledger
  BY <1>1, <1>2, <1>4 DEF ChargedOnce
<1> QED BY <1>2, <1>3, <1>4, <1>5

LEMMA AttemptsOnlyGrow ==
  ASSUME StepsInv, [Next]_vars, NEW s \in Step
  PROVE  /\ steps[s].attempts \in Nat /\ steps'[s].attempts \in Nat
         /\ steps[s].attempts <= steps'[s].attempts
         /\ steps'[s].status = "running" =>
              \/ steps[s].status = "running" /\ steps'[s].attempts = steps[s].attempts
              \/ steps'[s].attempts = steps[s].attempts + 1
<1>1. TypeOK
  BY DEF StepsInv
<1>2. StepMoves(s) /\ steps[s].attempts \in Nat
  BY <1>1, NextMovesSteps, MovedRows DEF StepsInv
<1> QED BY <1>1, <1>2, MovedRows DEF StepMoves, LapsedNow

LEMMA ChargedOnceInductive ==
  ASSUME StepsInv, ChargedOnce, [Next]_vars
  PROVE  ChargedOnce'
<1>1. TypeOK /\ \A u \in ledger : u.step \in Step /\ u.claim \in Nat
  BY DEF StepsInv, TypeOK, Usage
<1>2. \A u \in ledger : /\ u.claim <= steps'[u.step].attempts
                        /\ steps'[u.step].status = "running" => u.claim < steps'[u.step].attempts
  <2> SUFFICES ASSUME NEW u \in ledger
               PROVE  /\ u.claim <= steps'[u.step].attempts
                      /\ steps'[u.step].status = "running" => u.claim < steps'[u.step].attempts
    OBVIOUS
  <2>1. /\ u.claim <= steps[u.step].attempts
        /\ steps[u.step].status = "running" => u.claim < steps[u.step].attempts
    BY DEF ChargedOnce
  <2> QED BY <1>1, <2>1, AttemptsOnlyGrow
<1>3. CASE ChargesNothing
  BY <1>2, <1>3 DEF ChargesNothing, ChargedOnce
<1>4. ASSUME NEW w \in workers, NEW actual \in Nat, SettledNow(w, actual) PROVE ChargedOnce'
  <2>1. PICK u \in Usage : /\ u \notin ledger /\ ledger' = ledger \union {u}
                           /\ u.amountRwf = actual /\ u.step = w.step
                           /\ u.claim = steps[w.step].attempts
    BY <1>4, SettlementRecord DEF StepsInv
  <2>2. IsFiniteSet(ledger')
    BY <2>1, FS_AddElement DEF ChargedOnce
  <2>3. w.step \in Step /\ steps'[w.step].status # "running"
    BY <1>1, <1>4 DEF SettledNow, GivesBack, TypeOK, Worker
  <2>4. u.claim <= steps'[u.step].attempts /\ steps'[u.step].status # "running"
    BY <2>1, <2>3, AttemptsOnlyGrow
  <2> QED BY <1>2, <2>1, <2>2, <2>4 DEF ChargedOnce
<1> QED BY <1>1, <1>3, <1>4, NextCharges

Amounts(L) == [u \in L |-> u.amountRwf]

LEMMA LedgerInductive ==
  ASSUME StepsInv, ChargedOnce, LedgerReconciles, [Next]_vars
  PROVE  LedgerReconciles'
<1>1. CASE ChargesNothing
  BY <1>1 DEF ChargesNothing, LedgerReconciles
<1>2. ASSUME NEW w \in workers, NEW actual \in Nat, SettledNow(w, actual) PROVE LedgerReconciles'
  <2>1. PICK u \in Usage : u \notin ledger /\ ledger' = ledger \union {u} /\ u.amountRwf = actual
    BY <1>2, SettlementRecord DEF StepsInv
  <2>2. IsFiniteSet(ledger) /\ IsFiniteSet(ledger')
    BY <2>1, FS_AddElement DEF ChargedOnce
  <2> DEFINE f == Amounts(ledger)
             g == Amounts(ledger \union {u})
  <2>3. \A v \in ledger \union {u} : g[v] \in Nat
    BY DEF StepsInv, TypeOK, Usage, Amounts
  <2>4. g[u] = actual /\ \A v \in ledger : g[v] = f[v]
    BY <2>1 DEF Amounts
  <2> HIDE DEF f, g
  <2>5. SumFunctionOnSet(g, ledger) = SumFunctionOnSet(f, ledger)
    BY <2>2, <2>4, SumAgrees
  <2>6. SumFunctionOnSet(g, ledger \union {u})
          = g[u] + SumFunctionOnSet(g, (ledger \union {u}) \ {u})
    BY <2>1, <2>2, <2>3, SumWithout
  <2>7. (ledger \union {u}) \ {u} = ledger
    BY <2>1
  <2>8. SumFunctionOnSet(g, ledger) \in Nat
    BY <2>2, <2>3, SumType
  <2>9. SumFunctionOnSet(g, ledger \union {u}) = SumFunctionOnSet(f, ledger) + actual
    BY <2>4, <2>5, <2>6, <2>7, <2>8
  <2>10. task.spentRwf = SumFunctionOnSet(f, ledger)
    BY DEF LedgerReconciles, f, Amounts
  <2>11. task'.spentRwf = SumFunctionOnSet(g, ledger \union {u})
    BY <1>2, <2>9, <2>10 DEF SettledNow
  <2> QED BY <2>1, <2>11 DEF LedgerReconciles, g, Amounts
<1> QED BY <1>1, <1>2, NextCharges DEF StepsInv

BooksInv == StepsInv /\ ChargedOnce /\ LedgerReconciles /\ RecoveryNeverWedged

LEMMA BooksInit == Init => BooksInv
<1> SUFFICES ASSUME Init PROVE BooksInv
  OBVIOUS
<1>1. TypeOK /\ StepsInv
  BY InitTypes, StepsInit
<1>2. IsFiniteSet({}) /\ \A f : SumFunctionOnSet(f, {}) = 0
  BY FS_EmptySet, SumUnfolds
<1>3. ledger = {} /\ task.spentRwf = 0 /\ task.reservedRwf = 0
  BY DEF Init
<1>4. Running = {}
  BY DEF Init, FreshStep, Running
<1>5. ChargedOnce /\ LedgerReconciles
  BY <1>2, <1>3 DEF ChargedOnce, LedgerReconciles
<1>6. ReservedByRunning = 0
  BY <1>2, <1>4 DEF ReservedByRunning
<1> QED BY <1>1, <1>3, <1>5, <1>6 DEF BooksInv, RecoveryNeverWedged

(* The ledger and the balance, on top of that.                             *)
LEMMA BooksInductive == BooksInv /\ [Next]_vars => BooksInv'
<1> SUFFICES ASSUME BooksInv, [Next]_vars PROVE BooksInv'
  OBVIOUS
<1>1. TypeOK' /\ StepsInv'
  BY StepsInductive DEF BooksInv, StepsInv
<1>2. ChargedOnce' /\ LedgerReconciles'
  BY ChargedOnceInductive, LedgerInductive DEF BooksInv
<1>3. RecoveryNeverWedged'
  BY <1>1, RecoveryInductive DEF BooksInv, StepsInv
<1> QED BY <1>1, <1>2, <1>3 DEF BooksInv

(* The books balance: what was spent is the sum of the usage ledger, to    *)
(* the franc, and the balance covers every running step's reservation, so  *)
(* that the recovery of expired leases never throws -- however claims,     *)
(* settlements, retries, recoveries and late decisions interleave.         *)
THEOREM BooksTheorem == Spec => []BooksBalance
<1>1. BooksInv => BooksBalance
  BY DEF BooksInv, BooksBalance
<1> QED BY <1>1, BooksInit, BooksInductive, PTL DEF Spec

-----------------------------------------------------------------------------
(* The plan.                                                               *)

(* No claim goes past a run's maxParallelism: ticks plan on old snapshots, *)
(* but claimStep counts again in the transaction that claims.              *)
LEMMA ParallelismInductive ==
  ASSUME StepsInv, StepsInv', ParallelismRespected, [Next]_vars
  PROVE  ParallelismRespected'
<1> DEFINE W(r) == WithStatus(r, {"running"})
<1>0. TypeOK /\ HeldByLatestClaim /\ GatesWait
  BY DEF StepsInv
<1> SUFFICES ASSUME NEW r \in Run PROVE Cardinality(W(r)') <= MaxParallelism[r]
  BY DEF ParallelismRespected
<1>1. /\ Cardinality(W(r)) <= MaxParallelism[r] /\ MaxParallelism[r] \in Nat
      /\ IsFiniteSet(W(r)) /\ IsFiniteSet(W(r)')
  <2>1. IsFiniteSet(StepsOf(r))
    BY GraphAssumption, FS_Subset DEF StepsOf
  <2>2. W(r) \subseteq StepsOf(r) /\ W(r)' \subseteq StepsOf(r)
    BY DEF WithStatus, StepsOf
  <2> QED BY <2>1, <2>2, BoundAssumption, FS_Subset DEF ParallelismRespected
<1>2. Cardinality(W(r)) \in Nat /\ Cardinality(W(r)') \in Nat
  BY <1>1, FS_CardinalityType
<1>3. W(r)' \subseteq W(r) => Cardinality(W(r)') <= Cardinality(W(r))
  BY <1>1, FS_Subset
<1>4. ASSUME NEW s \in Step, Takes(s) PROVE Cardinality(W(r)') <= MaxParallelism[r]
  <2>1. CASE RunOf[s] # r
    <3>1. W(r)' \subseteq W(r)
      BY <1>4, <2>1 DEF Takes, OnlyStep, WithStatus, StepsOf
    <3> QED BY <1>1, <1>2, <1>3, <3>1
  <2>2. CASE RunOf[s] = r
    <3>1. W(r)' \subseteq W(r) \union {s}
      BY <1>4 DEF Takes, OnlyStep, WithStatus, StepsOf
    <3>2. Cardinality(W(r)) < MaxParallelism[r]
      BY <1>4, <2>2 DEF Takes, Claimable
    <3>3. IsFiniteSet(W(r) \union {s}) /\ Cardinality(W(r) \union {s}) <= Cardinality(W(r)) + 1
      <4> HIDE DEF W
      <4>1. /\ IsFiniteSet(W(r) \union {s})
            /\ \/ Cardinality(W(r) \union {s}) = Cardinality(W(r))
               \/ Cardinality(W(r) \union {s}) = Cardinality(W(r)) + 1
        BY <1>1, FS_AddElement
      <4> QED BY <1>2, <4>1
    <3>4. Cardinality(W(r)') <= Cardinality(W(r) \union {s})
      BY <3>1, <3>3, FS_Subset
    <3>5. Cardinality(W(r) \union {s}) \in Nat
      BY <3>3, FS_CardinalityType
    <3> QED BY <1>1, <1>2, <3>2, <3>3, <3>4, <3>5
  <2> QED BY <2>1, <2>2
<1>5. ASSUME NEW s \in Step, GivesBack(s) PROVE W(r)' \subseteq W(r)
  BY <1>5 DEF GivesBack, OnlyStep, WithStatus, StepsOf
<1>6. LeavesBalance => W(r)' \subseteq W(r)
  BY DEF LeavesBalance, WithStatus, StepsOf
<1> QED BY <1>0, <1>1, <1>2, <1>3, <1>4, <1>5, <1>6, NextMovesBalance DEF BalanceMoves

LEMMA ParallelismInit == Init => ParallelismRespected
<1> SUFFICES ASSUME Init, NEW r \in Run
             PROVE  Cardinality(WithStatus(r, {"running"})) <= MaxParallelism[r]
  BY DEF ParallelismRespected
<1>1. WithStatus(r, {"running"}) = {}
  BY DEF Init, WithStatus, StepsOf, FreshStep
<1> QED BY <1>1, FS_EmptySet, BoundAssumption

(* No run ever has more steps running than its parallelism allows,         *)
(* however many ticks plan for it at once: claimStep counts again in its   *)
(* own transaction.                                                        *)
THEOREM ParallelismTheorem == Spec => []ParallelismRespected
BY StepsInit, StepsInductive, ParallelismInit, ParallelismInductive, PTL DEF Spec

(* The history.  Every action notes one thing of it or leaves it alone.    *)
LEMMA NextPast ==
  ASSUME TypeOK, [Next]_vars
  PROVE  /\ PastGrows
         /\ \/ past'.decided = past.decided
            \/ \E o \in Overage : ApproveOverage(o) \/ RejectOverage(o)
<1> DEFINE Decides == \E o \in Overage : ApproveOverage(o) \/ RejectOverage(o)
           Noted == \/ \E r \in Run : NotesQuestion(r)
                    \/ \E s \in Step : NotesFailure(s)
                    \/ \E w \in workers : NotesRelease(w)
                    \/ past' = past
<1>1. UNCHANGED vars => Noted
  BY DEF vars
<1>2. People => Noted \/ Decides
  BY DEF People, ApproveQuote, DeclineQuote, PauseRun, ResumeRun, RequestCancellation,
         ApproveStep, RejectStep, RequestTaskCancellation
<1>3. Starter => Noted
  BY DEF Starter, CreateTaskRun, RequestTaskStartApproval
<1>4. Dispatcher => Noted
  BY DEF Dispatcher, DispatchTick, Claim, ClaimRefused, ClaimNeedsOverage, ClaimGranted
<1>5. ASSUME Workers PROVE Noted
  <2>1. PICK w \in workers : Settles(w) \/ ReleaseStepForRetry(w) \/ WorkerStops(w)
    BY <1>5 DEF Workers
  <2>2. w.step \in Step
    BY DEF TypeOK, Worker
  <2> QED BY <2>1, <2>2
          DEF Settles, CompleteStep, FailStep, CheckpointStep, ReleaseStepForRetry, WorkerStops
<1>6. Recovery => Noted
  BY DEF Recovery, LeaseLapses, RecoverExpiredLease
<1>7. Decides => \E o \in Overage : NotesDecision(o)
  BY DEF ApproveOverage, RejectOverage
<1>8. Noted => past'.decided = past.decided
  BY DEF NotesQuestion, NotesFailure, NotesRelease, TypeOK, PastRow
<1>9. Noted \/ Decides
  BY <1>1, <1>2, <1>3, <1>4, <1>5, <1>6 DEF Next
<1> QED BY <1>7, <1>8, <1>9, NotesType

(* A decided overage is decided for good, and keeps its step. *)
LEMMA DecidedRows ==
  ASSUME TypeOK, [Next]_vars, NEW o \in Overage, overages[o].status \in {"approved", "rejected"}
  PROVE  overages'[o] = overages[o]
<1>0. overages \in [Overage -> OverageRow]
  BY DEF TypeOK, ApprovalsOK
<1>1. overages' = overages => overages'[o] = overages[o]
  OBVIOUS
<1>2. ASSUME NEW p \in Overage, ApproveOverage(p) \/ RejectOverage(p) PROVE overages'[o] = overages[o]
  BY <1>0, <1>2 DEF ApproveOverage, RejectOverage
<1>3. ASSUME NEW R, ExpireApprovals(R) PROVE overages'[o] = overages[o]
  BY <1>0, <1>3 DEF ExpireApprovals, Expired, OverageRow
<1>4. People => overages'[o] = overages[o]
  BY <1>1, <1>2, <1>3 DEF People, ApproveQuote, DeclineQuote, PauseRun, ResumeRun,
       RequestCancellation, ApproveStep, RejectStep, RequestTaskCancellation
<1>5. Starter => overages' = overages
  BY DEF Starter, CreateTaskRun, RequestTaskStartApproval
<1>6. Dispatcher => overages'[o] = overages[o]
  BY <1>0, <1>1 DEF Dispatcher, DispatchTick, Claim, ClaimRefused, ClaimNeedsOverage, Unrecorded,
       ClaimGranted
<1>7. Workers => overages' = overages
  BY DEF Workers, Settles, CompleteStep, FailStep, CheckpointStep, ReleaseStepForRetry, WorkerStops
<1>8. Recovery => overages' = overages
  BY DEF Recovery, LeaseLapses, RecoverExpiredLease
<1> QED BY <1>1, <1>4, <1>5, <1>6, <1>7, <1>8 DEF Next, vars

DecidedOK == \A o \in past.decided : overages[o].status \in {"approved", "rejected"}

LEMMA DecidedInductive ==
  ASSUME TypeOK, DecidedOK, [Next]_vars PROVE DecidedOK'
<1>0. past.decided \subseteq Overage /\ overages \in [Overage -> OverageRow]
  BY DEF TypeOK, ApprovalsOK, PastRow
<1>1. \A o \in past.decided : overages'[o].status \in {"approved", "rejected"}
  BY <1>0, DecidedRows DEF DecidedOK
<1>2. ASSUME NEW p \in Overage, ApproveOverage(p) \/ RejectOverage(p) PROVE DecidedOK'
  <2>1. past'.decided \subseteq past.decided \union {p}
    BY <1>2 DEF ApproveOverage, RejectOverage, NotesDecision, TypeOK, PastRow
  <2>2. overages'[p].status \in {"approved", "rejected"}
    BY <1>0, <1>2 DEF ApproveOverage, RejectOverage, OverageRow
  <2> QED BY <1>1, <2>1, <2>2 DEF DecidedOK
<1> QED BY <1>1, <1>2, NextPast DEF DecidedOK

(* settleApproval writes "pending" or "cancelled" into the step of the     *)
(* approval it decides, whatever has become of it: a step that was claimed *)
(* after all, once another one gave its reservation back, loses its lease  *)
(* to the decision, and one that completed its work.  Each late decision   *)
(* is one of an overage not decided before, and touches one step.          *)
LateNow(s) ==
  /\ OnlyStep(s)
  /\ \E o \in Overage :
       /\ overages[o].step = s /\ o \notin past.decided
       /\ overages[o].status = "pending" /\ overages'[o].status \in {"approved", "rejected"}
       /\ overages'[o].step = s /\ past'.decided = past.decided \union {o}

LEMMA DecidedLate ==
  ASSUME StepsInv, DecidedOK, NEW s \in Step, DecidedNow(s)
  PROVE  \/ steps[s].status \in {"pending", "ready"}
         \/ s \in Gated /\ steps[s].status = "cancelled" /\ steps[s].attempts = 0
         \/ LateNow(s)
<1>0. /\ overages \in [Overage -> OverageRow] /\ past \in PastRow /\ steps \in [Step -> StepRow]
  BY DEF StepsInv, TypeOK, ApprovalsOK
<1>1. CASE s \in Gated
  BY <1>1 DEF StepsInv, GatesWait
<1>2. CASE s \notin Gated
  <2>1. PICK o \in Overage : overages[o].step = s /\ (ApproveOverage(o) \/ RejectOverage(o))
    BY <1>2 DEF DecidedNow
  <2>2. /\ overages[o].status = "pending" /\ overages'[o].status \in {"approved", "rejected"}
        /\ overages'[o].step = s
    BY <1>0, <2>1 DEF ApproveOverage, RejectOverage, OverageRow
  <2>3. o \notin past.decided
    BY <2>2 DEF DecidedOK
  <2>4. steps[s].status \in {"pending", "ready"} \/ past'.decided = past.decided \union {o}
    BY <1>0, <2>1 DEF ApproveOverage, RejectOverage, NotesDecision, PastRow
  <2>5. OnlyStep(s)
    BY <1>0, <2>1 DEF ApproveOverage, RejectOverage, GrantStep, RefuseStep, OnlyStep
  <2> QED BY <2>1, <2>2, <2>3, <2>4, <2>5 DEF LateNow
<1> QED BY <1>1, <1>2

(* Unless it is decided late, a step that runs goes on running or is given *)
(* up by its worker or the sweep, and a completed one is left alone.       *)
LEMMA TimelyMoves ==
  ASSUME StepsInv, DecidedOK, [Next]_vars, NEW s \in Step, ~LateNow(s)
  PROVE  /\ steps[s].status = "completed" => steps'[s].status = "completed"
         /\ steps[s].status = "running" /\ steps'[s].status # "running" => GivenUpNow(s)
<1>1. TypeOK /\ StepMoves(s)
  BY NextMovesSteps DEF StepsInv
<1>3. DecidedNow(s) => steps[s].status \notin {"running", "completed"}
  BY DecidedLate
<1> QED BY <1>1, <1>3, MovedRows DEF StepMoves, ClaimedNow, Claimable, WithdrawnNow, LapsedNow, GivenUpNow

(* The late decisions of a step are counted once each. *)
LEMMA LateCounts ==
  ASSUME StepsInv, StepsInv', DecidedOK, [Next]_vars, NEW s \in Step
  PROVE  /\ LateFor(s) \subseteq LateFor(s)'
         /\ LateNow(s) => LateFor(s)' # {}
         /\ Cardinality(LateFor(s)) \in Nat /\ Cardinality(LateFor(s)') \in Nat
         /\ Cardinality(LateFor(s)) <= Cardinality(LateFor(s)')
         /\ LateNow(s) => Cardinality(LateFor(s)) + 1 <= Cardinality(LateFor(s)')
<1>0. TypeOK /\ past.decided \subseteq Overage /\ past'.decided \subseteq Overage
  BY DEF StepsInv, TypeOK, PastRow
<1>1. LateFor(s) \subseteq LateFor(s)'
  BY <1>0, NextPast, DecidedRows DEF LateFor, DecidedOK, PastGrows
<1>2. IsFiniteSet(LateFor(s)) /\ IsFiniteSet(LateFor(s)')
  <2>1. LateFor(s) \subseteq Overage /\ LateFor(s)' \subseteq Overage
    BY <1>0 DEF LateFor
  <2> QED BY <2>1, GraphAssumption, FS_Subset
<1>3. Cardinality(LateFor(s)) \in Nat /\ Cardinality(LateFor(s)') \in Nat
  BY <1>2, FS_CardinalityType
<1>4. Cardinality(LateFor(s)) <= Cardinality(LateFor(s)')
  BY <1>1, <1>2, FS_Subset
<1>5. ASSUME LateNow(s)
      PROVE  LateFor(s)' # {} /\ Cardinality(LateFor(s)) + 1 <= Cardinality(LateFor(s)')
  <2>1. PICK o \in Overage : o \in LateFor(s)' /\ o \notin LateFor(s)
    BY <1>5 DEF LateNow, LateFor
  <2> DEFINE L == LateFor(s)
  <2>2. L \union {o} \subseteq LateFor(s)'
    BY <1>1, <2>1
  <2> HIDE DEF L
  <2>3. IsFiniteSet(L \union {o}) /\ Cardinality(L \union {o}) = Cardinality(L) + 1
    BY <1>2, <2>1, FS_AddElement DEF L
  <2>4. Cardinality(L \union {o}) <= Cardinality(LateFor(s)')
    BY <1>2, <2>2, FS_Subset
  <2> QED BY <2>1, <2>3, <2>4 DEF L
<1> QED BY <1>1, <1>3, <1>4, <1>5

(* The claims a step may have had: its attempts, and one for each time it  *)
(* was handed back without having used one up.                             *)
ClaimsOf(s) == MaxAttempts + steps[s].resumes + past.excused[s] + Cardinality(LateFor(s))

(* One of them is left to every step that waits for a claim. *)
AttemptsLeft ==
  \A s \in Step :
    /\ steps[s].attempts <= ClaimsOf(s)
    /\ steps[s].status \in {"pending", "ready"} => steps[s].attempts < ClaimsOf(s)

LEMMA AttemptsInductive ==
  ASSUME StepsInv, StepsInv', DecidedOK, AttemptsLeft, [Next]_vars
  PROVE  AttemptsLeft'
<1> SUFFICES ASSUME NEW s \in Step
             PROVE  /\ steps'[s].attempts <= ClaimsOf(s)'
                    /\ steps'[s].status \in {"pending", "ready"} => steps'[s].attempts < ClaimsOf(s)'
  BY DEF AttemptsLeft
<1>1. TypeOK /\ TypeOK' /\ StepMoves(s)
  BY NextMovesSteps DEF StepsInv
<1>2. /\ steps[s].attempts \in Nat /\ steps[s].resumes \in Nat /\ MaxAttempts \in Nat \ {0}
      /\ steps'[s].attempts \in Nat /\ steps'[s].resumes \in Nat
      /\ past.excused[s] \in Nat /\ past'.excused[s] \in Nat
      /\ past.excused[s] <= past'.excused[s]
  BY <1>1, NextPast, BoundAssumption DEF PastGrows, TypeOK, StepRow, PastRow
<1>3. /\ steps[s].attempts <= ClaimsOf(s)
      /\ steps[s].status \in {"pending", "ready"} => steps[s].attempts < ClaimsOf(s)
  BY DEF AttemptsLeft
<1> DEFINE late == Cardinality(LateFor(s))
           lateNext == Cardinality(LateFor(s)')
<1>4. /\ late \in Nat /\ lateNext \in Nat /\ late <= lateNext
      /\ LateNow(s) => late + 1 <= lateNext
  BY LateCounts
<1>5. /\ ClaimsOf(s) = MaxAttempts + steps[s].resumes + past.excused[s] + late
      /\ ClaimsOf(s)' = MaxAttempts + steps'[s].resumes + past'.excused[s] + lateNext
  BY DEF ClaimsOf
<1> HIDE DEF late, lateNext
<1>6. CASE steps'[s] = steps[s]
  BY <1>2, <1>3, <1>4, <1>5, <1>6
<1>7. CASE DecidedNow(s)
  <2>1. steps'[s].attempts = steps[s].attempts /\ steps'[s].resumes = steps[s].resumes
    BY <1>1, <1>7, MovedRows
  <2>2. CASE steps[s].status \in {"pending", "ready"}
    BY <1>2, <1>3, <1>4, <1>5, <2>1, <2>2
  <2>3. CASE steps[s].attempts = 0
    BY <1>2, <1>4, <1>5, <2>1, <2>3
  <2>4. CASE LateNow(s)
    BY <1>2, <1>3, <1>4, <1>5, <2>1, <2>4
  <2> QED BY <1>7, <2>2, <2>3, <2>4, DecidedLate
<1>8. CASE WithdrawnNow(s)
  <2>1. /\ steps'[s].attempts = steps[s].attempts /\ steps'[s].resumes = steps[s].resumes
        /\ steps'[s].status = "cancelled"
    BY <1>1, <1>8, MovedRows
  <2> QED BY <1>2, <1>3, <1>4, <1>5, <2>1
<1>9. CASE ClaimedNow(s)
  <2>1. /\ steps'[s].attempts = steps[s].attempts + 1 /\ steps'[s].resumes = steps[s].resumes
        /\ steps'[s].status = "running" /\ steps[s].status \in {"pending", "ready"}
    BY <1>1, <1>9, MovedRows DEF ClaimedNow, Claimable
  <2> QED BY <1>2, <1>3, <1>4, <1>5, <2>1
<1>10. CASE LapsedNow(s)
  <2>1. /\ steps'[s].attempts = steps[s].attempts /\ steps'[s].resumes = steps[s].resumes
        /\ steps'[s].status = "running"
    BY <1>1, <1>10, MovedRows
  <2> QED BY <1>2, <1>3, <1>4, <1>5, <2>1
<1>11. CASE GivenUpNow(s)
  <2>1. /\ steps'[s].attempts = steps[s].attempts
        /\ \/ /\ steps'[s].status \in {"completed", "failed", "cancelled"}
              /\ steps'[s].resumes = steps[s].resumes
           \/ steps'[s].resumes = steps[s].resumes + 1
           \/ /\ steps[s].attempts < MaxAttempts \/ past'.excused[s] = past.excused[s] + 1
              /\ steps'[s].resumes = steps[s].resumes
    BY <1>1, <1>11, MovedRows
  <2> QED BY <1>2, <1>3, <1>4, <1>5, <2>1
<1> QED BY <1>1, <1>6, <1>7, <1>8, <1>9, <1>10, <1>11 DEF StepMoves

LEMMA DependenciesInductive ==
  ASSUME StepsInv, StepsInv', DecidedOK, DependenciesHeld, [Next]_vars
  PROVE  DependenciesHeld'
<1> SUFFICES ASSUME NEW s \in Step, steps'[s].status = "running", NEW d \in DependsOn[s]
             PROVE  steps'[d].status = "completed" \/ LateFor(d)' # {}
  BY DEF DependenciesHeld, Running
<1>1. TypeOK /\ StepMoves(s) /\ d \in Step
  BY NextMovesSteps, GraphAssumption DEF StepsInv
<1>2. steps[s].status = "running" \/ ClaimedNow(s)
  BY <1>1, MovedRows DEF StepMoves, LapsedNow
<1>3. steps[d].status = "completed" \/ LateFor(d) # {}
  BY <1>1, <1>2 DEF DependenciesHeld, Running, ClaimedNow, Claimable, DependenciesDone
<1> QED BY <1>1, <1>3, TimelyMoves, LateCounts

(* A running step has its estimate reserved. *)
ReservesEstimate == \A s \in Step : steps[s].status = "running" => steps[s].reservedRwf = Estimate[s]

LEMMA ReservesInductive ==
  ASSUME StepsInv, ReservesEstimate, [Next]_vars
  PROVE  ReservesEstimate'
<1> SUFFICES ASSUME NEW s \in Step, steps'[s].status = "running"
             PROVE  steps'[s].reservedRwf = Estimate[s]
  BY DEF ReservesEstimate
<1>1. TypeOK /\ StepMoves(s)
  BY NextMovesSteps DEF StepsInv
<1> QED BY <1>1, MovedRows DEF StepMoves, LapsedNow, ReservesEstimate

(* What late decisions left in the balance: one estimate each. *)
Left == [o \in Overage |-> Estimate[overages[o].step]]

LEMMA OrphanedGrows ==
  ASSUME StepsInv, StepsInv', DecidedOK, [Next]_vars
  PROVE  /\ Orphaned \in Nat /\ Orphaned' \in Nat /\ Orphaned <= Orphaned'
         /\ \A s \in Step : LateNow(s) => Orphaned' = Orphaned + Estimate[s]
<1> DEFINE D == past.decided
           E == past'.decided
           f == Left
           g == Left'
<1>0. TypeOK /\ D \subseteq Overage /\ E \subseteq Overage /\ D \subseteq E
  BY NextPast DEF StepsInv, TypeOK, PastRow, PastGrows
<1>1. IsFiniteSet(D) /\ IsFiniteSet(E)
  BY <1>0, GraphAssumption, FS_Subset
<1>2. \A o \in Overage : f[o] \in Nat /\ g[o] \in Nat
  <2>1. \A o \in Overage : overages[o].step \in Step /\ overages'[o].step \in Step
    BY DEF StepsInv, TypeOK, ApprovalsOK, OverageRow
  <2> QED BY <2>1, MoneyAssumption DEF Left
<1>3. \A o \in D : f[o] = g[o]
  BY <1>0, DecidedRows DEF DecidedOK, Left
<1>4. Orphaned = SumFunctionOnSet(f, D) /\ Orphaned' = SumFunctionOnSet(g, E)
  BY DEF Orphaned, Left
<1> HIDE DEF f, g
<1>5. SumFunctionOnSet(f, D) = SumFunctionOnSet(g, D)
  BY <1>1, <1>3, SumAgrees
<1>6. SumFunctionOnSet(g, D) <= SumFunctionOnSet(g, E)
  BY <1>0, <1>1, <1>2, SumMonotonic
<1>7. SumFunctionOnSet(f, D) \in Nat /\ SumFunctionOnSet(g, E) \in Nat
  BY <1>0, <1>1, <1>2, SumType
<1>8. ASSUME NEW s \in Step, LateNow(s) PROVE Orphaned' = Orphaned + Estimate[s]
  <2>1. PICK o \in Overage : o \notin D /\ E = D \union {o} /\ overages'[o].step = s
    BY <1>8 DEF LateNow
  <2>2. g[o] = Estimate[s]
    BY <2>1 DEF g, Left
  <2>3. o \in E /\ E \ {o} = D
    BY <2>1
  <2>4. SumFunctionOnSet(g, E) = g[o] + SumFunctionOnSet(g, E \ {o})
    BY <1>0, <1>1, <1>2, <2>3, SumWithout
  <2>5. SumFunctionOnSet(g, E) = Estimate[s] + SumFunctionOnSet(f, D)
    BY <1>5, <2>2, <2>3, <2>4
  <2>6. Estimate[s] \in Nat
    BY MoneyAssumption
  <2> QED BY <1>4, <1>7, <2>5, <2>6
<1> QED BY <1>4, <1>5, <1>6, <1>7, <1>8

(* The step a late decision takes off "running" leaves its reservation.    *)
LEMMA ReservedLost ==
  ASSUME TypeOK, TypeOK', ReservesEstimate, LeavesBalance, NEW s \in Running, OnlyStep(s),
         Running' # Running
  PROVE  ReservedByRunning' = ReservedByRunning - Estimate[s]
<1>1. s \in Step /\ Running' = Running \ {s}
  BY DEF LeavesBalance, Running, OnlyStep
<1>2. /\ Reserved \in [Step -> Nat] /\ Reserved' \in [Step -> Nat] /\ IsFiniteSet(Running)
      /\ IsFiniteSet(Running')
      /\ ReservedByRunning = SumFunctionOnSet(Reserved, Running)
      /\ ReservedByRunning' = SumFunctionOnSet(Reserved', Running')
      /\ ReservedByRunning' \in Nat
  BY ReservedType, ReservedNextType DEF ReservedOK
<1>3. \A q \in Running' : Reserved[q] = Reserved'[q]
  BY <1>1 DEF OnlyStep, Reserved, Running
<1>4. SumFunctionOnSet(Reserved, Running') = SumFunctionOnSet(Reserved', Running')
  BY <1>2, <1>3, SumAgrees
<1>5. \A q \in Running : Reserved[q] \in Int
  BY <1>2 DEF Running
<1>6. SumFunctionOnSet(Reserved, Running) = Reserved[s] + SumFunctionOnSet(Reserved, Running \ {s})
  BY <1>2, <1>5, SumWithout
<1>7. Reserved[s] = Estimate[s] /\ Estimate[s] \in Nat
  BY <1>1, MoneyAssumption DEF Reserved, Running, ReservesEstimate
<1> QED BY <1>1, <1>2, <1>4, <1>6, <1>7

LEMMA OwnedInductive ==
  ASSUME StepsInv, StepsInv', DecidedOK, ReservesEstimate, ReservationsOwned, [Next]_vars
  PROVE  ReservationsOwned'
<1>1. TypeOK /\ TypeOK' /\ HeldByLatestClaim /\ GatesWait
  BY DEF StepsInv
<1>2. /\ task.reservedRwf <= ReservedByRunning + Orphaned /\ ReservedByRunning \in Nat
      /\ ReservedByRunning' \in Nat
      /\ task.reservedRwf \in Nat /\ task'.reservedRwf \in Nat
      /\ \A s \in Step : Estimate[s] \in Nat /\ steps[s].reservedRwf \in Nat
  BY <1>1, ReservedType, ReservedNextType, MoneyAssumption
  DEF ReservedOK, ReservationsOwned, TypeOK, StepRow, TaskRow
<1>3. /\ Orphaned \in Nat /\ Orphaned' \in Nat /\ Orphaned <= Orphaned'
      /\ \A s \in Step : LateNow(s) => Orphaned' = Orphaned + Estimate[s]
  BY OrphanedGrows
<1> DEFINE Bounded == task'.reservedRwf <= ReservedByRunning' + Orphaned'
<1>4. ASSUME NEW s \in Step, Takes(s) PROVE Bounded
  <2>1. ReservedByRunning' = ReservedByRunning + Estimate[s]
    BY <1>1, <1>4, ReservedTaken
  <2> QED BY <1>2, <1>3, <1>4, <2>1 DEF Takes
<1>5. ASSUME NEW s \in Step, GivesBack(s) PROVE Bounded
  <2>1. ReservedByRunning' = ReservedByRunning - steps[s].reservedRwf
    BY <1>1, <1>5, ReservedGivenBack
  <2> QED BY <1>2, <1>3, <1>5, <2>1 DEF GivesBack
<1>6. ASSUME LeavesBalance PROVE Bounded
  <2>1. CASE Running' = Running
    <3>1. ReservedByRunning' = ReservedByRunning /\ task'.reservedRwf = task.reservedRwf
      BY <1>1, <1>6, <2>1, ReservedLeft DEF LeavesBalance
    <3> QED BY <1>2, <1>3, <3>1
  <2>2. CASE Running' # Running
    <3>1. PICK s \in Running : s \notin Running'
      BY <1>1, <1>6, <2>2, ReservedLeft
    <3>2. s \in Step /\ steps[s].status = "running" /\ steps'[s].status # "running"
      BY <3>1 DEF Running
    <3>3. DecidedNow(s)
      BY <1>6, <3>2 DEF LeavesBalance
    <3>4. LateNow(s) /\ OnlyStep(s)
      BY <3>2, <3>3, DecidedLate DEF LateNow
    <3>5. ReservedByRunning' = ReservedByRunning - Estimate[s]
      BY <1>1, <1>6, <2>2, <3>4, ReservedLost
    <3>6. task'.reservedRwf = task.reservedRwf /\ Orphaned' = Orphaned + Estimate[s]
      BY <1>3, <1>6, <3>2, <3>4 DEF LeavesBalance
    <3> QED BY <1>2, <1>3, <3>2, <3>5, <3>6
  <2> QED BY <2>1, <2>2
<1>7. Bounded
  BY <1>1, <1>4, <1>5, <1>6, NextMovesBalance DEF BalanceMoves
<1>8. RecoveryNeverWedged'
  BY <1>1, RecoveryInductive DEF ReservationsOwned, RecoveryNeverWedged
<1> QED BY <1>7, <1>8 DEF ReservationsOwned, RecoveryNeverWedged

PlanInv == /\ StepsInv /\ DecidedOK /\ ReservesEstimate
           /\ ParallelismRespected /\ DependenciesHeld /\ AttemptsLeft /\ ReservationsOwned

LEMMA PlanInit == Init => PlanInv
<1> SUFFICES ASSUME Init PROVE PlanInv
  OBVIOUS
<1>1. StepsInv /\ ParallelismRespected
  BY StepsInit, ParallelismInit
<1>2. Running = {} /\ past.decided = {}
  BY DEF Init, FreshStep, Running
<1>3. DependenciesHeld /\ DecidedOK
  BY <1>2 DEF DependenciesHeld, DecidedOK
<1>4. ReservesEstimate
  BY DEF Init, FreshStep, ReservesEstimate
<1>5. AttemptsLeft
  <2>1. \A s \in Step : LateFor(s) = {}
    BY <1>2 DEF LateFor
  <2>2. \A s \in Step : Cardinality(LateFor(s)) = 0
    BY <2>1, FS_EmptySet
  <2>3. \A s \in Step : steps[s].resumes = 0 /\ past.excused[s] = 0
    BY DEF Init, FreshStep
  <2>4. \A s \in Step : ClaimsOf(s) = MaxAttempts
    BY <2>2, <2>3, BoundAssumption DEF ClaimsOf
  <2> QED BY <2>4, BoundAssumption DEF Init, FreshStep, AttemptsLeft
<1>6. ReservationsOwned
  <2>1. \A f : SumFunctionOnSet(f, {}) = 0
    BY FS_EmptySet, SumUnfolds
  <2>2. ReservedByRunning = 0 /\ Orphaned = 0
    BY <1>2, <2>1 DEF ReservedByRunning, Orphaned
  <2> QED BY <2>2 DEF Init, ReservationsOwned
<1> QED BY <1>1, <1>3, <1>4, <1>5, <1>6 DEF PlanInv

(* What a claim may rely on. *)
LEMMA PlanInductive == PlanInv /\ [Next]_vars => PlanInv'
<1> SUFFICES ASSUME PlanInv, [Next]_vars PROVE PlanInv'
  OBVIOUS
<1>1. StepsInv /\ StepsInv' /\ TypeOK
  BY StepsInductive DEF PlanInv, StepsInv
<1>2. DecidedOK' /\ ReservesEstimate'
  BY <1>1, DecidedInductive, ReservesInductive DEF PlanInv
<1>3. ParallelismRespected'
  BY <1>1, ParallelismInductive DEF PlanInv
<1>4. DependenciesHeld'
  BY <1>1, DependenciesInductive DEF PlanInv
<1>5. AttemptsLeft'
  BY <1>1, AttemptsInductive DEF PlanInv
<1>6. ReservationsOwned'
  BY <1>1, OwnedInductive DEF PlanInv
<1> QED BY <1>1, <1>2, <1>3, <1>4, <1>5, <1>6 DEF PlanInv

(* However ticks, crashes, lapsed leases, retries, vanished providers and  *)
(* late decisions interleave, claims keep to the run's parallelism, to the *)
(* completed work of their dependencies and to the attempts a step has,    *)
(* and the balance is what the running steps reserved: a late decision on  *)
(* a dependency, on the step itself or on a running step is all that takes *)
(* from that, once each.                                                   *)
THEOREM PlanTheorem == Spec => []ClaimsFollowThePlan
<1>1. PlanInv => ClaimsFollowThePlan
  BY DEF PlanInv, AttemptsLeft, ClaimsOf, AttemptsBounded, ClaimsFollowThePlan
<1> QED BY <1>1, PlanInit, PlanInductive, PTL DEF Spec

(* Completed work is not redone, unless a person decides, in that very     *)
(* step, on an overage that was asked for it before it completed.          *)
THEOREM CompletedTheorem == Spec => CompletedStepsStayCompleted
<1> DEFINE Stays == \A s \in Step : steps[s].status = "completed" =>
             \/ steps'[s].status = "completed"
             \/ \E o \in Overage : /\ overages[o].step = s /\ overages[o].status = "pending"
                                   /\ overages'[o].status \in {"approved", "rejected"}
<1>1. PlanInv /\ [Next]_vars => [Stays]_vars
  BY TimelyMoves DEF PlanInv, LateNow
<1> QED BY <1>1, PlanInit, PlanInductive, PTL DEF Spec, CompletedStepsStayCompleted
-----------------------------------------------------------------------------
(* The statuses of a task, its runs, its steps and its approvals, which    *)
(* are written by different mutations.                                     *)

(* A run that waits has something to decide, a completed one has nothing   *)
(* left to do, no step runs for a run that has not started or is complete, *)
(* and the quote is asked for once.                                        *)
WaitingIsAskable == \A r \in Run : runs[r] = "awaiting_approval" => PendingOf(r)
CompletedIsDone  == \A s \in Step : runs[RunOf[s]] = "completed" => steps[s].status = "completed"
RunningIsStarted ==
  \A s \in Step : steps[s].status = "running" => runs[RunOf[s]] \notin {"absent", "completed"}
AskedOnce ==
  \A r \in Run : /\ r \in starting => quote[r] = "none" /\ runs[r] # "absent"
                 /\ runs[r] = "absent" => quote[r] = "none"

RunsInv == WaitingIsAskable /\ CompletedIsDone /\ RunningIsStarted /\ AskedOnce

(* What the end of a claim does, whoever ends it: its step leaves          *)
(* "running", and unless it was cancelled its run completes, fails or goes *)
(* on, the task with it.                                                   *)
RunEnds(s, status) == runs' = [runs EXCEPT ![RunOf[s]] = status]

GivesUpWork(s) ==
  /\ steps[s].status = "running" /\ steps'[s].status # "running" /\ OnlyStep(s)
  /\ UNCHANGED <<quote, gate, overages, starting>>
  /\ \/ runs[RunOf[s]] = "cancelled" /\ UNCHANGED <<runs, task.status>>
     \/ /\ runs[RunOf[s]] # "cancelled"
        /\ \/ /\ RunEnds(s, "completed")
              /\ \A q \in StepsOf(RunOf[s]) : steps'[q].status = "completed"
              /\ task'.status = IF OthersCompleted(RunOf[s]) THEN "completed" ELSE task.status
           \/ RunEnds(s, "failed") /\ task'.status = "blocked" /\ NotesFailure(s)
           \/ /\ RunEnds(s, "queued") \/ RunEnds(s, "running")
              /\ UNCHANGED task.status

LEMMA WorkersGiveUp ==
  ASSUME StepsInv, NEW w \in workers, Settles(w) \/ ReleaseStepForRetry(w)
  PROVE  w.step \in Step /\ GivesUpWork(w.step)
<1> DEFINE s == w.step
<1>0. TypeOK
  BY DEF StepsInv
<1>1. s \in Step /\ w.reservation \in Nat /\ GivesBack(s) /\ steps \in [Step -> StepRow]
  BY <1>0, WorkerMovesBalance DEF TypeOK, Worker
<1>2. steps[s].status = "running" /\ steps'[s].status # "running" /\ OnlyStep(s)
  BY <1>1 DEF GivesBack
<1>3. UNCHANGED <<quote, gate, overages, starting>>
  BY DEF Settles, CompleteStep, FailStep, CheckpointStep, ReleaseStepForRetry
<1>4. CASE Settles(w)
  <2>1. PICK actual \in 0 .. w.reservation + 1 :
          CompleteStep(w, actual) \/ FailStep(w, actual) \/ CheckpointStep(w, actual)
    BY <1>4 DEF Settles
  <2>2. actual \in Nat /\ CanSettle(w, actual) /\ runs[RunOf[s]] # "cancelled"
    BY <1>1, <2>1 DEF CompleteStep, FailStep, CheckpointStep, CanSettle
  <2>3. SettledTask(w, actual) \in TaskRow /\ SettledTask(w, actual).status = task.status
    BY <1>0, <2>2, SettledTaskType DEF SettledTask, Released, TypeOK, TaskRow
  <2>4. CASE CompleteStep(w, actual)
    <3> DEFINE next == StatusAfterCompletion(s)
    <3>1. RunEnds(s, next)
      BY <2>4 DEF CompleteStep, SetRun, RunEnds
    <3>2. task'.status = IF next = "completed" /\ OthersCompleted(RunOf[s]) THEN "completed" ELSE task.status
      BY <2>3, <2>4 DEF CompleteStep, TaskRow
    <3>3. next \in {"completed", "running", "queued"}
      BY DEF StatusAfterCompletion
    <3>4. ASSUME next = "completed", NEW q \in StepsOf(RunOf[s]) PROVE steps'[q].status = "completed"
      <4>1. {steps[p].status : p \in StepsOf(RunOf[s]) \ {s}} \subseteq {"completed"}
        BY <3>4 DEF StatusAfterCompletion
      <4>2. q # s => steps[q].status = "completed"
        BY <4>1
      <4>3. steps'[s].status = "completed"
        BY <1>1, <2>4 DEF CompleteStep, Closed, StepRow
      <4> QED BY <1>2, <4>2, <4>3 DEF OnlyStep, StepsOf
    <3> HIDE DEF next
    <3>5. CASE next = "completed"
      BY <1>1, <1>2, <1>3, <2>2, <3>1, <3>2, <3>4, <3>5 DEF GivesUpWork
    <3>6. CASE next # "completed"
      BY <1>1, <1>2, <1>3, <2>2, <3>1, <3>2, <3>3, <3>6 DEF GivesUpWork
    <3> QED BY <3>5, <3>6
  <2>5. CASE FailStep(w, actual)
    <3>1. RunEnds(s, "failed") /\ task'.status = "blocked" /\ NotesFailure(s)
      BY <2>3, <2>5 DEF FailStep, SetRun, RunEnds, TaskRow
    <3> QED BY <1>1, <1>2, <1>3, <2>2, <3>1 DEF GivesUpWork
  <2>6. CASE CheckpointStep(w, actual)
    <3>1. (RunEnds(s, "queued") \/ RunEnds(s, "running")) /\ task'.status = task.status
      BY <2>3, <2>6 DEF CheckpointStep, SetRun, RunEnds, RequeuedStatus
    <3> QED BY <1>1, <1>2, <1>3, <2>2, <3>1 DEF GivesUpWork
  <2> QED BY <2>1, <2>4, <2>5, <2>6
<1>5. CASE ReleaseStepForRetry(w)
  <2>1. task' = Released(s) /\ Released(s).status = task.status
    BY <1>0, <1>5 DEF ReleaseStepForRetry, Released, TypeOK, TaskRow
  <2>2. IF runs[RunOf[s]] = "cancelled" THEN runs' = runs ELSE RunEnds(s, "queued") \/ RunEnds(s, "running")
    BY <1>5 DEF ReleaseStepForRetry, RunEnds, RequeuedStatus
  <2> QED BY <1>1, <1>2, <1>3, <2>1, <2>2 DEF GivesUpWork
<1> QED BY <1>4, <1>5

LEMMA RecoveryGivesUp ==
  ASSUME StepsInv, NEW s \in Step, RecoverExpiredLease(s)
  PROVE  GivesUpWork(s)
<1>1. TypeOK /\ GivesBack(s)
  BY RecoveryMovesBalance DEF StepsInv
<1>2. steps[s].status = "running" /\ steps'[s].status # "running" /\ OnlyStep(s)
  BY <1>1 DEF GivesBack
<1>3. UNCHANGED <<quote, gate, overages, starting>>
  BY DEF RecoverExpiredLease
<1>4. Released(s) \in TaskRow /\ Released(s).status = task.status
  BY <1>1, ReleasedType DEF RecoverExpiredLease, Released, TypeOK, TaskRow
<1>5. \/ runs[RunOf[s]] = "cancelled" /\ runs' = runs /\ task'.status = task.status
      \/ /\ runs[RunOf[s]] # "cancelled" /\ RunEnds(s, "failed") /\ task'.status = "blocked"
         /\ NotesFailure(s)
      \/ runs[RunOf[s]] # "cancelled" /\ RunEnds(s, "queued") /\ task'.status = task.status
  <2> HIDE DEF Released
  <2> QED BY <1>4 DEF RecoverExpiredLease, SetRun, RunEnds, TaskRow
<1> QED BY <1>2, <1>3, <1>5 DEF GivesUpWork

(* Everything else workers, ticks and the sweep do leaves the statuses.    *)
LeavesStatuses ==
  /\ UNCHANGED <<runs, quote, gate, overages, starting, task.status>>
  /\ \A s \in Step : steps'[s].status = steps[s].status

GrantsClaim(s) ==
  /\ Claimable(s) /\ OnlyStep(s) /\ steps'[s].status = "running"
  /\ UNCHANGED <<quote, gate, overages, starting>>
  /\ RunEnds(s, "running") /\ task'.status = "running"

AsksOverage(s) ==
  /\ Claimable(s) /\ steps' = steps
  /\ UNCHANGED <<quote, gate, starting, task.status>>
  /\ RunEnds(s, "awaiting_approval")
  /\ \E o \in Overage, row \in OverageRow :
       /\ overages[o].status = "none" /\ row.status = "pending" /\ row.step = s
       /\ overages' = [overages EXCEPT ![o] = row]

LEMMA MachineMoves ==
  ASSUME StepsInv, Dispatcher \/ Workers \/ Recovery \/ UNCHANGED vars
  PROVE  \/ LeavesStatuses
         \/ \E s \in Step : GivesUpWork(s) \/ GrantsClaim(s) \/ AsksOverage(s)
<1>0. TypeOK /\ steps \in [Step -> StepRow]
  BY DEF StepsInv, TypeOK
<1>1. UNCHANGED vars => LeavesStatuses
  BY DEF vars, LeavesStatuses
<1>2. ASSUME NEW t \in Tick, DispatchTick(t) PROVE LeavesStatuses
  BY <1>2 DEF DispatchTick, LeavesStatuses
<1>3. ASSUME NEW t \in Tick, NEW s \in Step, ClaimRefused(t, s) PROVE LeavesStatuses
  BY <1>3 DEF ClaimRefused, LeavesStatuses
<1>4. ASSUME NEW t \in Tick, NEW s \in Step, ClaimGranted(t, s) PROVE GrantsClaim(s)
  <2>1. Takes(s)
    BY <1>0, <1>4, ClaimMovesBalance
  <2> QED BY <1>0, <1>4, <2>1 DEF Takes, GrantsClaim, ClaimGranted, SetRun, RunEnds, TypeOK, TaskRow
<1>5. ASSUME NEW t \in Tick, NEW s \in Step, NEW o \in Overage, ClaimNeedsOverage(t, s, o)
      PROVE  AsksOverage(s)
  <2> DEFINE row == [status |-> "pending", step |-> s, requestedRwf |-> Projected(s)]
  <2>1. Projected(s) \in Nat
    BY <1>0, MoneyAssumption DEF Projected, TypeOK, TaskRow
  <2>2. row \in OverageRow /\ row.status = "pending" /\ row.step = s
    BY <2>1 DEF OverageRow, ApprovalStatus
  <2>3. overages' = [overages EXCEPT ![o] = row]
    BY <1>5 DEF ClaimNeedsOverage
  <2> HIDE DEF row
  <2>4. overages[o].status = "none" /\ Claimable(s)
    BY <1>5 DEF ClaimNeedsOverage, Unrecorded
  <2>5. steps' = steps /\ UNCHANGED <<quote, gate, starting, task.status>> /\ RunEnds(s, "awaiting_approval")
    BY <1>5 DEF ClaimNeedsOverage, SetRun, RunEnds
  <2> QED BY <2>2, <2>3, <2>4, <2>5 DEF AsksOverage
<1>6. ASSUME NEW s \in Step, LeaseLapses(s) PROVE LeavesStatuses
  BY <1>0, <1>6 DEF LeaseLapses, LeavesStatuses, StepRow
<1>7. ASSUME NEW w \in workers, WorkerStops(w) PROVE LeavesStatuses
  BY <1>7 DEF WorkerStops, LeavesStatuses
<1>8. Dispatcher => LeavesStatuses \/ \E s \in Step : GrantsClaim(s) \/ AsksOverage(s)
  BY <1>2, <1>3, <1>4, <1>5 DEF Dispatcher, Claim
<1>9. Workers => LeavesStatuses \/ \E s \in Step : GivesUpWork(s)
  BY <1>7, WorkersGiveUp DEF Workers
<1>10. Recovery => LeavesStatuses \/ \E s \in Step : GivesUpWork(s)
  BY <1>6, RecoveryGivesUp DEF Recovery
<1> QED BY <1>1, <1>8, <1>9, <1>10

-----------------------------------------------------------------------------
(* RunsInv is inductive on its own.  First the machines' moves.            *)

LEMMA MachineRuns ==
  ASSUME StepsInv, RunsInv, Dispatcher \/ Workers \/ Recovery \/ UNCHANGED vars
  PROVE  RunsInv'
<1>0. /\ TypeOK /\ runs \in [Run -> RunStatus] /\ RunOf \in [Step -> Run]
      /\ overages \in [Overage -> OverageRow]
  BY GraphAssumption DEF StepsInv, TypeOK, ApprovalsOK
<1>1. CASE LeavesStatuses
  BY <1>0, <1>1 DEF LeavesStatuses, RunsInv, WaitingIsAskable, CompletedIsDone, RunningIsStarted,
                    AskedOnce, PendingOf, StepsOf
<1>2. ASSUME NEW s \in Step, GivesUpWork(s) PROVE RunsInv'
  <2>1. WaitingIsAskable'
    BY <1>0, <1>2 DEF GivesUpWork, RunEnds, RunsInv, WaitingIsAskable, PendingOf, StepsOf
  <2>2. CompletedIsDone'
    <3> SUFFICES ASSUME NEW q \in Step, runs'[RunOf[q]] = "completed"
                 PROVE  steps'[q].status = "completed"
      BY DEF CompletedIsDone
    <3>1. steps[s].status = "running" /\ OnlyStep(s)
      BY <1>2 DEF GivesUpWork
    <3>2. runs[RunOf[s]] # "completed"
      BY <3>1 DEF RunsInv, CompletedIsDone
    <3>3. CASE RunOf[q] = RunOf[s]
      BY <1>0, <1>2, <3>2, <3>3 DEF GivesUpWork, RunEnds, StepsOf
    <3>4. CASE RunOf[q] # RunOf[s]
      <4>1. runs'[RunOf[q]] = runs[RunOf[q]]
        BY <1>0, <1>2, <3>4 DEF GivesUpWork, RunEnds
      <4> QED BY <3>1, <3>4, <4>1 DEF OnlyStep, RunsInv, CompletedIsDone
    <3> QED BY <3>3, <3>4
  <2>3. RunningIsStarted'
    <3> SUFFICES ASSUME NEW q \in Step, steps'[q].status = "running"
                 PROVE  runs'[RunOf[q]] \notin {"absent", "completed"}
      BY DEF RunningIsStarted
    <3>1. q # s /\ steps[q].status = "running"
      BY <1>2 DEF GivesUpWork, OnlyStep
    <3>2. runs'[RunOf[q]] # "completed"
      BY <2>2 DEF CompletedIsDone
    <3>3. runs[RunOf[q]] # "absent"
      BY <3>1 DEF RunsInv, RunningIsStarted
    <3>4. runs'[RunOf[q]] # "absent"
      BY <1>0, <1>2, <3>3 DEF GivesUpWork, RunEnds
    <3> QED BY <3>2, <3>4
  <2>4. AskedOnce'
    <3>1. \A r \in Run : runs'[r] = "absent" <=> runs[r] = "absent"
      BY <1>0, <1>2 DEF GivesUpWork, RunEnds, RunsInv, RunningIsStarted
    <3> QED BY <1>2, <3>1 DEF GivesUpWork, RunsInv, AskedOnce
  <2> QED BY <2>1, <2>2, <2>3, <2>4 DEF RunsInv
<1>3. ASSUME NEW s \in Step, GrantsClaim(s) PROVE RunsInv'
  <2>1. WaitingIsAskable'
    BY <1>0, <1>3 DEF GrantsClaim, RunEnds, RunsInv, WaitingIsAskable, PendingOf, StepsOf
  <2>2. CompletedIsDone' /\ RunningIsStarted'
    BY <1>0, <1>3 DEF GrantsClaim, OnlyStep, RunEnds, RunsInv, CompletedIsDone, RunningIsStarted
  <2>3. AskedOnce'
    BY <1>0, <1>3 DEF GrantsClaim, Claimable, Dispatchable, RunEnds, RunsInv, AskedOnce
  <2> QED BY <2>1, <2>2, <2>3 DEF RunsInv
<1>4. ASSUME NEW s \in Step, AsksOverage(s) PROVE RunsInv'
  <2>1. PICK o \in Overage, row \in OverageRow :
          /\ overages[o].status = "none" /\ row.status = "pending" /\ row.step = s
          /\ overages' = [overages EXCEPT ![o] = row]
    BY <1>4 DEF AsksOverage
  <2>2. PendingOf(RunOf[s])'
    BY <1>0, <2>1 DEF PendingOf
  <2>3. \A r \in Run : PendingOf(r) => PendingOf(r)'
    BY <1>0, <1>4, <2>1 DEF AsksOverage, PendingOf
  <2>4. WaitingIsAskable'
    BY <1>0, <1>4, <2>2, <2>3 DEF AsksOverage, RunEnds, RunsInv, WaitingIsAskable
  <2>5. CompletedIsDone' /\ RunningIsStarted'
    BY <1>0, <1>4 DEF AsksOverage, RunEnds, RunsInv, CompletedIsDone, RunningIsStarted
  <2>6. AskedOnce'
    BY <1>0, <1>4 DEF AsksOverage, Claimable, Dispatchable, RunEnds, RunsInv, AskedOnce
  <2> QED BY <2>4, <2>5, <2>6 DEF RunsInv
<1> QED BY <1>1, <1>2, <1>3, <1>4, MachineMoves

LEMMA StarterRuns ==
  ASSUME StepsInv, RunsInv, Starter PROVE RunsInv'
<1>0. runs \in [Run -> RunStatus] /\ RunOf \in [Step -> Run] /\ quote \in [Run -> ApprovalStatus]
  BY GraphAssumption DEF StepsInv, TypeOK, ApprovalsOK
<1>1. ASSUME NEW r \in Run, CreateTaskRun(r) PROVE RunsInv'
  <2>1. \A q \in Run : PendingOf(q) => PendingOf(q)'
    BY <1>1 DEF CreateTaskRun, PendingOf, StepsOf
  <2>2. WaitingIsAskable'
    BY <1>0, <1>1, <2>1 DEF CreateTaskRun, SetRun, RunsInv, WaitingIsAskable
  <2>3. CompletedIsDone' /\ RunningIsStarted'
    BY <1>0, <1>1 DEF CreateTaskRun, SetRun, RunsInv, CompletedIsDone, RunningIsStarted
  <2>4. AskedOnce'
    BY <1>0, <1>1 DEF CreateTaskRun, SetRun, RunsInv, AskedOnce
  <2> QED BY <2>2, <2>3, <2>4 DEF RunsInv
<1>2. ASSUME NEW r \in Run, RequestTaskStartApproval(r) PROVE RunsInv'
  <2>1. quote[r] = "none" /\ runs[r] # "absent"
    BY <1>2 DEF RequestTaskStartApproval, RunsInv, AskedOnce
  <2>2. \A q \in Run \ {r} : PendingOf(q) => PendingOf(q)'
    BY <1>0, <1>2 DEF RequestTaskStartApproval, PendingOf
  <2>3. runs'[r] = "awaiting_approval" => PendingOf(r)'
    BY <1>0, <1>2 DEF RequestTaskStartApproval, SetRun, PendingOf
  <2>4. WaitingIsAskable'
    BY <1>0, <1>2, <2>2, <2>3 DEF RequestTaskStartApproval, SetRun, RunsInv, WaitingIsAskable
  <2>5. CompletedIsDone' /\ RunningIsStarted'
    BY <1>0, <1>2 DEF RequestTaskStartApproval, SetRun, RunsInv, CompletedIsDone, RunningIsStarted
  <2>6. AskedOnce'
    BY <1>0, <1>2, <2>1 DEF RequestTaskStartApproval, SetRun, RunsInv, AskedOnce
  <2> QED BY <2>4, <2>5, <2>6 DEF RunsInv
<1> QED BY <1>1, <1>2 DEF Starter

(* Deciding an approval that names a step, whichever kind it is. *)
DecidesStep(s) ==
  /\ ~TaskClosed /\ PendingOf(RunOf[s])
  /\ OnlyStep(s) /\ steps'[s].status \in {"pending", "cancelled"}
  /\ UNCHANGED <<quote, starting>>
  /\ \A r \in Run : r # RunOf[s] => PendingOf(r)' = PendingOf(r)
  /\ \/ RunEnds(s, "queued") /\ task'.status = task.status
     \/ RunEnds(s, "blocked") /\ task'.status = "blocked"

LEMMA StepDecisions ==
  ASSUME StepsInv, NEW s \in Step, ApproveStep(s) \/ RejectStep(s)
  PROVE  DecidesStep(s)
<1>0. /\ TypeOK /\ steps \in [Step -> StepRow] /\ gate \in [Step -> ApprovalStatus]
      /\ task \in TaskRow /\ RunOf[s] \in Run
  BY GraphAssumption DEF StepsInv, TypeOK, ApprovalsOK
<1>1. ~TaskClosed /\ gate[s] = "pending" /\ PendingOf(RunOf[s])
  BY DEF ApproveStep, RejectStep, PendingOf, StepsOf
<1>2. PICK status \in {"pending", "cancelled"} : steps' = [steps EXCEPT ![s].status = status]
  BY DEF ApproveStep, RejectStep, GrantStep, RefuseStep
<1>3. OnlyStep(s) /\ steps'[s].status \in {"pending", "cancelled"}
  BY <1>0, <1>2 DEF OnlyStep, StepRow
<1>4. UNCHANGED <<quote, starting, overages>>
  BY DEF ApproveStep, RejectStep
<1>5. \A q \in Step : q # s => gate'[q] = gate[q]
  BY <1>0 DEF ApproveStep, RejectStep
<1>6. \A r \in Run : r # RunOf[s] => PendingOf(r)' = PendingOf(r)
  BY <1>4, <1>5 DEF PendingOf, StepsOf
<1>7. \/ RunEnds(s, "queued") /\ task'.status = task.status
      \/ RunEnds(s, "blocked") /\ task'.status = "blocked"
  BY <1>0 DEF ApproveStep, RejectStep, GrantStep, RefuseStep, SetRun, RunEnds, SetTask, TaskRow
<1> QED BY <1>1, <1>3, <1>4, <1>6, <1>7 DEF DecidesStep

LEMMA OverageDecisions ==
  ASSUME StepsInv, NEW o \in Overage, ApproveOverage(o) \/ RejectOverage(o)
  PROVE  overages[o].step \in Step /\ DecidesStep(overages[o].step)
<1> DEFINE s == overages[o].step
<1>0. /\ TypeOK /\ steps \in [Step -> StepRow] /\ overages \in [Overage -> OverageRow]
      /\ task \in TaskRow /\ RunOf[s] \in Run /\ s \in Step
  BY GraphAssumption DEF StepsInv, TypeOK, ApprovalsOK, OverageRow
<1>1. ~TaskClosed /\ overages[o].status = "pending" /\ PendingOf(RunOf[s])
  BY DEF ApproveOverage, RejectOverage, PendingOf
<1>2. PICK status \in {"pending", "cancelled"} : steps' = [steps EXCEPT ![s].status = status]
  BY DEF ApproveOverage, RejectOverage, GrantStep, RefuseStep
<1>4. UNCHANGED <<quote, starting, gate>>
  BY DEF ApproveOverage, RejectOverage
<1>5. /\ \A p \in Overage : p # o => overages'[p] = overages[p]
      /\ overages'[o].step = s
  BY <1>0 DEF ApproveOverage, RejectOverage, OverageRow
<1>7. \/ RunEnds(s, "queued") /\ task'.status = task.status
      \/ RunEnds(s, "blocked") /\ task'.status = "blocked"
  BY <1>0 DEF ApproveOverage, RaiseTo, RejectOverage, GrantStep, RefuseStep, SetRun, RunEnds, SetTask, TaskRow
<1> HIDE DEF s
<1>3. OnlyStep(s) /\ steps'[s].status \in {"pending", "cancelled"}
  BY <1>0, <1>2 DEF OnlyStep, StepRow
<1>6. \A r \in Run : r # RunOf[s] => PendingOf(r)' = PendingOf(r)
  BY <1>4, <1>5 DEF PendingOf, s
<1>8. s \in Step /\ DecidesStep(s)
  BY <1>0, <1>1, <1>3, <1>4, <1>6, <1>7 DEF DecidesStep
<1> QED BY <1>8 DEF s

(* Cancelling runs withdraws what they still have to ask.                  *)
LEMMA CancelledAskNothing ==
  ASSUME StepsInv, NEW Q \in SUBSET Run, ExpireApprovals(Q)
  PROVE  /\ \A r \in Q : ~PendingOf(r)'
         /\ \A r \in Run \ Q : PendingOf(r)' = PendingOf(r)
         /\ \A r \in Run : /\ quote'[r] = "none" <=> quote[r] = "none"
                           /\ quote'[r] = "rejected" <=> quote[r] = "rejected"
<1>0. /\ quote \in [Run -> ApprovalStatus] /\ gate \in [Step -> ApprovalStatus]
      /\ overages \in [Overage -> OverageRow]
  BY DEF StepsInv, TypeOK, ApprovalsOK
<1>1. \A r \in Run : quote'[r] = IF r \in Q THEN Expired(quote[r]) ELSE quote[r]
  BY DEF ExpireApprovals
<1>2. \A s \in Step : gate'[s] = IF RunOf[s] \in Q THEN Expired(gate[s]) ELSE gate[s]
  BY DEF ExpireApprovals
<1>3. \A o \in Overage :
        /\ overages'[o].step = overages[o].step
        /\ overages'[o].status = IF RunOf[overages[o].step] \in Q THEN Expired(overages[o].status)
                                 ELSE overages[o].status
  BY <1>0 DEF ExpireApprovals, OverageRow
<1>4. \A status : Expired(status) # "pending"
  BY DEF Expired
<1>5. \A r \in Q : ~PendingOf(r)'
  BY <1>1, <1>2, <1>3, <1>4 DEF PendingOf, StepsOf
<1>6. \A r \in Run \ Q : PendingOf(r)' = PendingOf(r)
  BY <1>1, <1>2, <1>3 DEF PendingOf, StepsOf
<1>7. \A r \in Run : /\ quote'[r] = "none" <=> quote[r] = "none"
                     /\ quote'[r] = "rejected" <=> quote[r] = "rejected"
  BY <1>1 DEF Expired
<1> QED BY <1>5, <1>6, <1>7

LEMMA PeopleRuns ==
  ASSUME StepsInv, RunsInv, People PROVE RunsInv'
<1>0. /\ TypeOK /\ runs \in [Run -> RunStatus] /\ RunOf \in [Step -> Run]
      /\ quote \in [Run -> ApprovalStatus] /\ steps \in [Step -> StepRow]
  BY GraphAssumption DEF StepsInv, TypeOK, ApprovalsOK
<1>1. ASSUME NEW r \in Run, ApproveQuote(r) \/ DeclineQuote(r) PROVE RunsInv'
  <2>1. quote[r] = "pending" /\ runs[r] # "absent"
    BY <1>1 DEF ApproveQuote, DeclineQuote, RunsInv, AskedOnce
  <2>2. \A q \in Run \ {r} : quote'[q] = quote[q] /\ PendingOf(q)' = PendingOf(q)
    BY <1>0, <1>1 DEF ApproveQuote, DeclineQuote, PendingOf
  <2>3. /\ runs'[r] \in {"queued", "cancelled"} /\ \A q \in Run \ {r} : runs'[q] = runs[q]
        /\ UNCHANGED <<steps, starting>>
    BY <1>0, <1>1 DEF ApproveQuote, DeclineQuote, SetRun
  <2>4. WaitingIsAskable'
    BY <2>2, <2>3 DEF RunsInv, WaitingIsAskable
  <2>5. CompletedIsDone' /\ RunningIsStarted'
    BY <1>0, <2>3 DEF RunsInv, CompletedIsDone, RunningIsStarted
  <2>6. AskedOnce'
    BY <2>1, <2>2, <2>3 DEF RunsInv, AskedOnce
  <2> QED BY <2>4, <2>5, <2>6 DEF RunsInv
<1>2. ASSUME NEW r \in Run, PauseRun(r) \/ ResumeRun(r) PROVE RunsInv'
  <2>1. /\ runs[r] \in {"queued", "running", "paused"} /\ runs'[r] \in {"queued", "paused"}
        /\ \A q \in Run \ {r} : runs'[q] = runs[q]
        /\ UNCHANGED <<steps, starting, quote, gate, overages>>
    BY <1>0, <1>2 DEF PauseRun, ResumeRun, Dispatchable, SetRun
  <2>2. \A q \in Run : PendingOf(q)' = PendingOf(q)
    BY <2>1 DEF PendingOf
  <2>3. WaitingIsAskable'
    BY <2>1, <2>2 DEF RunsInv, WaitingIsAskable
  <2> QED BY <1>0, <2>1, <2>3 DEF RunsInv, CompletedIsDone, RunningIsStarted, AskedOnce
<1>3. ASSUME NEW s \in Step, DecidesStep(s) PROVE RunsInv'
  <2>1. \A r \in Run \ {RunOf[s]} : runs'[r] = runs[r] /\ PendingOf(r)' = PendingOf(r)
    BY <1>0, <1>3 DEF DecidesStep, RunEnds
  <2>2. /\ runs'[RunOf[s]] \in {"queued", "blocked"} /\ UNCHANGED <<quote, starting>>
        /\ OnlyStep(s) /\ steps'[s].status # "running"
    BY <1>0, <1>3 DEF DecidesStep, RunEnds
  <2>3. WaitingIsAskable'
    BY <2>1, <2>2 DEF RunsInv, WaitingIsAskable
  <2>4. CompletedIsDone' /\ RunningIsStarted'
    BY <1>0, <2>1, <2>2 DEF OnlyStep, RunsInv, CompletedIsDone, RunningIsStarted
  <2>5. AskedOnce'
    BY <1>0, <2>1, <2>2 DEF RunsInv, AskedOnce
  <2> QED BY <2>3, <2>4, <2>5 DEF RunsInv
<1>4. ASSUME NEW R \in SUBSET Run, NEW Q \in SUBSET Run, \A r \in R : Cancellable(r),
             \A r \in Q \ R : ~Cancellable(r),
             CancelRuns(R), ExpireApprovals(Q), UNCHANGED starting
      PROVE  RunsInv'
  <2>1. /\ \A r \in R : runs[r] \notin {"absent", "completed"} /\ runs'[r] = "cancelled"
        /\ \A r \in Run \ R : runs'[r] = runs[r]
        /\ \A r \in Q \ R : runs[r] # "awaiting_approval"
    BY <1>4 DEF Cancellable, CancelRuns
  <2>2. \A s \in Step : \/ steps'[s].status = steps[s].status
                        \/ RunOf[s] \in R /\ steps'[s].status = "cancelled"
    BY <1>0, <1>4 DEF CancelRuns, StepRow
  <2>3. WaitingIsAskable'
    BY <1>4, <2>1, CancelledAskNothing DEF RunsInv, WaitingIsAskable
  <2>4. CompletedIsDone' /\ RunningIsStarted'
    BY <1>0, <2>1, <2>2 DEF RunsInv, CompletedIsDone, RunningIsStarted
  <2>5. AskedOnce'
    BY <1>4, <2>1, CancelledAskNothing DEF RunsInv, AskedOnce
  <2> QED BY <2>3, <2>4, <2>5 DEF RunsInv
<1>5. ASSUME NEW r \in Run, RequestCancellation(r) PROVE RunsInv'
  BY <1>4, <1>5 DEF RequestCancellation
<1>6. ASSUME RequestTaskCancellation PROVE RunsInv'
  <2> DEFINE R == {r \in Run : Cancellable(r)}
  <2>1. CancelRuns(R) /\ ExpireApprovals(Run) /\ UNCHANGED starting
    BY <1>6 DEF RequestTaskCancellation
  <2> QED BY <1>4, <2>1
<1> QED BY <1>1, <1>2, <1>3, <1>5, <1>6, StepDecisions, OverageDecisions DEF People

LEMMA RunsInit == Init => RunsInv
BY GraphAssumption DEF Init, RunsInv, WaitingIsAskable, CompletedIsDone, RunningIsStarted, AskedOnce, FreshStep

(* What holds of the statuses of runs and of their quotes.                 *)
LEMMA RunsInductive == StepsInv /\ RunsInv /\ [Next]_vars => RunsInv'
BY PeopleRuns, StarterRuns, MachineRuns DEF Next

-----------------------------------------------------------------------------
(* Two things are for good: a run never goes back to where there was none, *)
(* and a declined quote stays declined.  So does, then, what the           *)
(* properties except.                                                      *)
LEMMA RunsRemain ==
  ASSUME StepsInv, RunsInv, [Next]_vars, NEW r \in Run
  PROVE  /\ runs[r] # "absent" => runs'[r] # "absent"
         /\ quote[r] = "rejected" => quote'[r] = "rejected"
<1>0. /\ runs \in [Run -> RunStatus] /\ RunOf \in [Step -> Run] /\ quote \in [Run -> ApprovalStatus]
  BY GraphAssumption DEF StepsInv, TypeOK, ApprovalsOK
<1> DEFINE Remain == /\ runs[r] # "absent" => runs'[r] # "absent"
                     /\ quote[r] = "rejected" => quote'[r] = "rejected"
<1> HIDE DEF Remain
<1>1. LeavesStatuses => Remain
  BY DEF LeavesStatuses, Remain
<1>2. ASSUME NEW s \in Step, GivesUpWork(s) \/ GrantsClaim(s) \/ AsksOverage(s) \/ DecidesStep(s)
      PROVE  Remain
  BY <1>0, <1>2 DEF GivesUpWork, GrantsClaim, AsksOverage, DecidesStep, RunEnds, Remain
<1>3. ASSUME NEW q \in Run, ApproveQuote(q) \/ DeclineQuote(q) PROVE Remain
  BY <1>0, <1>3 DEF ApproveQuote, DeclineQuote, SetRun, Remain
<1>4. ASSUME NEW q \in Run, PauseRun(q) \/ ResumeRun(q) PROVE Remain
  BY <1>0, <1>4 DEF PauseRun, ResumeRun, SetRun, Remain
<1>5. ASSUME NEW R, NEW Q \in SUBSET Run, CancelRuns(R), ExpireApprovals(Q) PROVE Remain
  BY <1>5, CancelledAskNothing DEF CancelRuns, Remain
<1>6. People => Remain
  BY <1>2, <1>3, <1>4, <1>5, StepDecisions, OverageDecisions
  DEF People, RequestCancellation, RequestTaskCancellation
<1>7. Starter => Remain
  BY <1>0 DEF Starter, CreateTaskRun, RequestTaskStartApproval, SetRun, RunsInv, AskedOnce, Remain
<1>8. Remain
  BY <1>1, <1>2, <1>6, <1>7, MachineMoves DEF Next
<1> QED BY <1>8 DEF Remain

LEMMA BesideStays ==
  ASSUME StepsInv, RunsInv, [Next]_vars, NEW r \in Run, DeclinedBeside(r)
  PROVE  DeclinedBeside(r)'
BY RunsRemain DEF DeclinedBeside

LEMMA StrayStays ==
  ASSUME StepsInv, RunsInv, [Next]_vars, NEW r \in Run, Stray(r)
  PROVE  Stray(r)'
<1>1. PastGrows
  BY NextPast DEF StepsInv
<1> QED BY <1>1, BesideStays DEF Stray, PastGrows

(* The only run of its task: nothing else can reopen the task.             *)
Alone(r) == \A q \in Run \ {r} : runs[q] = "absent"

LEMMA AloneBefore ==
  ASSUME StepsInv, RunsInv, [Next]_vars, NEW r \in Run, Alone(r)'
  PROVE  Alone(r)
BY RunsRemain DEF Alone

-----------------------------------------------------------------------------
(* A quote that was declined.  With its run the task is cancelled; as long *)
(* as there is no other run, nothing reopens the task or decides anything. *)
DeclinedIsClosed ==
  \A r \in Run : quote[r] = "rejected" /\ Alone(r) => runs[r] = "cancelled" /\ TaskClosed

(* Neither a worker, the dispatcher nor the sweep reopens declined work,   *)
LEMMA MachineDeclined ==
  ASSUME StepsInv, RunsInv, DeclinedIsClosed, Dispatcher \/ Workers \/ Recovery \/ UNCHANGED vars
  PROVE  DeclinedIsClosed'
<1>0. runs \in [Run -> RunStatus] /\ RunOf \in [Step -> Run] /\ [Next]_vars
  BY GraphAssumption DEF StepsInv, TypeOK, Next
<1> SUFFICES ASSUME NEW r \in Run, quote'[r] = "rejected", Alone(r)'
             PROVE  runs'[r] = "cancelled" /\ task'.status \in {"completed", "cancelled"}
  BY DEF DeclinedIsClosed, TaskClosed
<1>1. quote' = quote /\ Alone(r)
  BY <1>0, MachineMoves, AloneBefore DEF LeavesStatuses, GivesUpWork, GrantsClaim, AsksOverage
<1>2. runs[r] = "cancelled" /\ task.status \in {"completed", "cancelled"}
  BY <1>1 DEF DeclinedIsClosed, TaskClosed
<1>3. CASE LeavesStatuses
  BY <1>2, <1>3 DEF LeavesStatuses
<1>4. ASSUME NEW s \in Step, GivesUpWork(s)
      PROVE  runs'[r] = "cancelled" /\ task'.status \in {"completed", "cancelled"}
  <2>1. RunOf[s] = r
    BY <1>0, <1>1, <1>4 DEF GivesUpWork, RunsInv, RunningIsStarted, Alone
  <2> QED BY <1>2, <1>4, <2>1 DEF GivesUpWork
<1>5. ASSUME NEW s \in Step, GrantsClaim(s) \/ AsksOverage(s) PROVE FALSE
  BY <1>0, <1>1, <1>2, <1>5 DEF GrantsClaim, AsksOverage, Claimable, Dispatchable, Alone
<1> QED BY <1>3, <1>4, <1>5, MachineMoves

(* nor does another decision,                                              *)
LEMMA PeopleDeclined ==
  ASSUME StepsInv, RunsInv, DeclinedIsClosed, People
  PROVE  DeclinedIsClosed'
<1>0. /\ runs \in [Run -> RunStatus] /\ RunOf \in [Step -> Run] /\ task \in TaskRow
      /\ quote \in [Run -> ApprovalStatus] /\ [Next]_vars
  BY GraphAssumption DEF StepsInv, TypeOK, ApprovalsOK, Next
<1> SUFFICES ASSUME NEW r \in Run, quote'[r] = "rejected", Alone(r)'
             PROVE  runs'[r] = "cancelled" /\ task'.status \in {"completed", "cancelled"}
  BY DEF DeclinedIsClosed, TaskClosed
<1> DEFINE Closes == runs'[r] = "cancelled" /\ task'.status \in {"completed", "cancelled"}
<1> HIDE DEF Closes
<1>1. /\ \A q \in Run \ {r} : runs[q] = "absent"
      /\ quote[r] = "rejected" => runs[r] = "cancelled" /\ task.status \in {"completed", "cancelled"}
  BY <1>0, AloneBefore DEF DeclinedIsClosed, TaskClosed, Alone
<1>2. ASSUME NEW q \in Run, ApproveQuote(q) PROVE Closes
  <2>1. quote[r] = "rejected"
    BY <1>0, <1>2 DEF ApproveQuote
  <2> QED BY <1>1, <1>2, <2>1 DEF ApproveQuote, TaskClosed
<1>3. ASSUME NEW q \in Run, DeclineQuote(q) PROVE Closes
  <2>1. q = r
    BY <1>1, <1>3 DEF DeclineQuote, RunsInv, AskedOnce
  <2> QED BY <1>0, <1>3, <2>1 DEF DeclineQuote, SetRun, SetTask, TaskRow, Closes
<1>4. ASSUME NEW q \in Run, PauseRun(q) \/ ResumeRun(q) PROVE Closes
  <2>1. quote[r] = "rejected" /\ q = r
    BY <1>1, <1>4 DEF PauseRun, ResumeRun, Dispatchable
  <2> QED BY <1>1, <1>4, <2>1 DEF PauseRun, ResumeRun, Dispatchable
<1>5. ASSUME NEW s \in Step, DecidesStep(s) PROVE Closes
  BY <1>1, <1>5 DEF DecidesStep, TaskClosed
<1>6. ASSUME NEW q \in Run, RequestCancellation(q) PROVE Closes
  <2>1. ExpireApprovals({q}) /\ Cancellable(q)
    BY <1>6 DEF RequestCancellation
  <2>2. quote[r] = "rejected"
    BY <2>1, CancelledAskNothing
  <2> QED BY <1>1, <2>1, <2>2 DEF Cancellable
<1>7. ASSUME RequestTaskCancellation PROVE Closes
  <2> DEFINE R == {q \in Run : Cancellable(q)}
  <2>1. ExpireApprovals(Run) /\ CancelRuns(R)
    BY <1>7 DEF RequestTaskCancellation
  <2>2. quote[r] = "rejected"
    BY <2>1, CancelledAskNothing
  <2>3. R = {}
    BY <1>1, <2>2 DEF Cancellable
  <2>4. task' = task
    BY <1>1, <1>7, <2>2, <2>3 DEF RequestTaskCancellation, TaskClosed
  <2> QED BY <1>1, <2>1, <2>2, <2>3, <2>4 DEF CancelRuns, Closes
<1>8. Closes
  BY <1>2, <1>3, <1>4, <1>5, <1>6, <1>7, StepDecisions, OverageDecisions DEF People
<1> QED BY <1>8 DEF Closes

(* nor a quote asked for late.                                             *)
LEMMA StarterDeclined ==
  ASSUME StepsInv, RunsInv, DeclinedIsClosed, Starter
  PROVE  DeclinedIsClosed'
<1>0. runs \in [Run -> RunStatus] /\ quote \in [Run -> ApprovalStatus] /\ [Next]_vars
  BY DEF StepsInv, TypeOK, ApprovalsOK, Next
<1> SUFFICES ASSUME NEW r \in Run, quote'[r] = "rejected", Alone(r)' PROVE FALSE
  BY DEF DeclinedIsClosed
<1>1. quote[r] = "rejected" => runs[r] = "cancelled" /\ TaskClosed
  BY <1>0, AloneBefore DEF DeclinedIsClosed
<1>2. ASSUME NEW q \in Run, CreateTaskRun(q) PROVE FALSE
  BY <1>1, <1>2 DEF CreateTaskRun
<1>3. ASSUME NEW q \in Run, RequestTaskStartApproval(q) PROVE FALSE
  <2>1. q # r /\ runs[q] # "absent"
    BY <1>0, <1>3 DEF RequestTaskStartApproval, RunsInv, AskedOnce
  <2> QED BY <1>0, <2>1, AloneBefore DEF Alone
<1> QED BY <1>2, <1>3 DEF Starter

(* Work declined at its quote is not taken up by any other decision, by a  *)
(* worker or by the sweep, as long as no other run can reopen its task.    *)
THEOREM DeclinedTheorem == Spec => []DeclinedQuoteIsFinal
<1> DEFINE Inv == StepsInv /\ RunsInv /\ DeclinedIsClosed
<1>1. Init => Inv
  <2>1. Init => DeclinedIsClosed
    BY DEF Init, DeclinedIsClosed
  <2> QED BY <2>1, StepsInit, RunsInit
<1>2. Inv /\ [Next]_vars => Inv'
  BY StepsInductive, RunsInductive, PeopleDeclined, StarterDeclined, MachineDeclined DEF Next
<1>3. Inv => DeclinedQuoteIsFinal
  BY DEF DeclinedIsClosed, DeclinedQuoteIsFinal, DeclinedBeside, Alone
<1> QED BY <1>1, <1>2, <1>3, PTL DEF Spec

-----------------------------------------------------------------------------
(* A cancelled run.  Nothing it waited for can still be decided, or its    *)
(* quote was declined: the task is over with it, if it was the only run.   *)
Quiet(r) == ~PendingOf(r) \/ DeclinedBeside(r) \/ (TaskClosed /\ Alone(r))
CancelledIsQuiet == \A r \in Run : runs[r] = "cancelled" => Quiet(r)

StaysCancelled ==
  \A r \in Run : runs[r] = "cancelled" => runs'[r] = "cancelled" \/ r \in starting \/ DeclinedBeside(r)

(* A run stays quiet in a step that leaves its approvals alone and, when   *)
(* it is the only one, the task and the runs.                              *)
LEMMA QuietStays ==
  ASSUME StepsInv, RunsInv, [Next]_vars, NEW r \in Run, Quiet(r),
         PendingOf(r)' => PendingOf(r),
         TaskClosed /\ Alone(r) => TaskClosed' /\ Alone(r)'
  PROVE  Quiet(r)'
BY BesideStays DEF Quiet

LEMMA MachineCancelled ==
  ASSUME StepsInv, RunsInv, CancelledIsQuiet, Dispatcher \/ Workers \/ Recovery \/ UNCHANGED vars
  PROVE  StaysCancelled /\ CancelledIsQuiet'
<1>0. /\ runs \in [Run -> RunStatus] /\ RunOf \in [Step -> Run]
      /\ overages \in [Overage -> OverageRow] /\ [Next]_vars
  BY GraphAssumption DEF StepsInv, TypeOK, ApprovalsOK, Next
<1>1. CASE LeavesStatuses
  <2>1. \A r \in Run : /\ PendingOf(r)' = PendingOf(r) /\ TaskClosed' = TaskClosed
                       /\ Alone(r)' = Alone(r) /\ runs'[r] = runs[r]
    BY <1>1 DEF LeavesStatuses, PendingOf, TaskClosed, Alone
  <2> QED BY <1>0, <2>1, QuietStays DEF StaysCancelled, CancelledIsQuiet
<1>2. ASSUME NEW s \in Step, GivesUpWork(s) PROVE StaysCancelled /\ CancelledIsQuiet'
  <2>1. \A r \in Run : /\ runs'[r] = "cancelled" <=> runs[r] = "cancelled"
                       /\ PendingOf(r)' = PendingOf(r)
    BY <1>0, <1>2 DEF GivesUpWork, RunEnds, PendingOf
  <2>2. ASSUME NEW r \in Run, runs[r] = "cancelled", Alone(r)
        PROVE  TaskClosed' = TaskClosed /\ Alone(r)'
    <3>1. RunOf[s] = r
      BY <1>0, <1>2, <2>2 DEF GivesUpWork, RunsInv, RunningIsStarted, Alone
    <3> QED BY <1>2, <2>2, <3>1 DEF GivesUpWork, TaskClosed, Alone
  <2> QED BY <1>0, <2>1, <2>2, QuietStays DEF StaysCancelled, CancelledIsQuiet
<1>3. ASSUME NEW s \in Step, GrantsClaim(s) PROVE StaysCancelled /\ CancelledIsQuiet'
  <2>1. /\ runs[RunOf[s]] \in {"queued", "running"} /\ runs'[RunOf[s]] = "running"
        /\ \A r \in Run \ {RunOf[s]} : runs'[r] = runs[r]
        /\ \A r \in Run : PendingOf(r)' = PendingOf(r)
    BY <1>0, <1>3 DEF GrantsClaim, Claimable, Dispatchable, RunEnds, PendingOf
  <2>2. \A r \in Run : runs[r] = "cancelled" => ~Alone(r)
    BY <1>0, <2>1 DEF Alone
  <2> QED BY <1>0, <2>1, <2>2, QuietStays DEF StaysCancelled, CancelledIsQuiet
<1>4. ASSUME NEW s \in Step, AsksOverage(s) PROVE StaysCancelled /\ CancelledIsQuiet'
  <2>1. /\ runs[RunOf[s]] \in {"queued", "running"} /\ runs'[RunOf[s]] = "awaiting_approval"
        /\ \A r \in Run \ {RunOf[s]} : runs'[r] = runs[r]
    BY <1>0, <1>4 DEF AsksOverage, Claimable, Dispatchable, RunEnds
  <2>2. PICK o \in Overage, row \in OverageRow :
          /\ overages[o].status = "none" /\ row.status = "pending" /\ row.step = s
          /\ overages' = [overages EXCEPT ![o] = row]
    BY <1>4 DEF AsksOverage
  <2>3. \A r \in Run \ {RunOf[s]} : PendingOf(r)' = PendingOf(r)
    BY <1>0, <1>4, <2>2 DEF AsksOverage, PendingOf
  <2>4. \A r \in Run : runs[r] = "cancelled" => ~Alone(r)
    BY <1>0, <2>1 DEF Alone
  <2> QED BY <1>0, <2>1, <2>3, <2>4, QuietStays DEF StaysCancelled, CancelledIsQuiet
<1> QED BY <1>1, <1>2, <1>3, <1>4, MachineMoves

LEMMA StarterCancelled ==
  ASSUME StepsInv, RunsInv, CancelledIsQuiet, Starter
  PROVE  StaysCancelled /\ CancelledIsQuiet'
<1>0. /\ runs \in [Run -> RunStatus] /\ RunOf \in [Step -> Run] /\ quote \in [Run -> ApprovalStatus]
      /\ [Next]_vars
  BY GraphAssumption DEF StepsInv, TypeOK, ApprovalsOK, Next
<1>1. ASSUME NEW r \in Run, CreateTaskRun(r) PROVE StaysCancelled /\ CancelledIsQuiet'
  <2>1. /\ runs[r] = "absent" /\ runs'[r] = "queued" /\ \A q \in Run \ {r} : runs'[q] = runs[q]
        /\ ~TaskClosed /\ \A q \in Run \ {r} : PendingOf(q)' = PendingOf(q)
    BY <1>0, <1>1 DEF CreateTaskRun, SetRun, PendingOf, StepsOf
  <2> QED BY <1>0, <2>1, QuietStays DEF StaysCancelled, CancelledIsQuiet
<1>2. ASSUME NEW r \in Run, RequestTaskStartApproval(r) PROVE StaysCancelled /\ CancelledIsQuiet'
  <2>1. /\ r \in starting /\ runs[r] # "absent" /\ runs'[r] # "cancelled"
        /\ \A q \in Run \ {r} : runs'[q] = runs[q] /\ PendingOf(q)' = PendingOf(q)
    BY <1>0, <1>2 DEF RequestTaskStartApproval, SetRun, RunsInv, AskedOnce, PendingOf
  <2>2. \A q \in Run \ {r} : ~Alone(q)
    BY <2>1 DEF Alone
  <2> QED BY <1>0, <2>1, <2>2, QuietStays DEF StaysCancelled, CancelledIsQuiet
<1> QED BY <1>1, <1>2 DEF Starter

LEMMA PeopleCancelled ==
  ASSUME StepsInv, RunsInv, CancelledIsQuiet, People
  PROVE  StaysCancelled /\ CancelledIsQuiet'
<1>0. /\ runs \in [Run -> RunStatus] /\ RunOf \in [Step -> Run] /\ task \in TaskRow
      /\ quote \in [Run -> ApprovalStatus] /\ [Next]_vars
  BY GraphAssumption DEF StepsInv, TypeOK, ApprovalsOK, Next
<1> DEFINE Holds == StaysCancelled /\ CancelledIsQuiet'
<1> HIDE DEF Holds
<1>1. ASSUME NEW r \in Run, quote[r] = "pending", ~TaskClosed PROVE runs[r] # "cancelled"
  BY <1>1 DEF CancelledIsQuiet, Quiet, PendingOf, DeclinedBeside
<1>2. ASSUME NEW r \in Run, ApproveQuote(r) PROVE Holds
  <2>1. /\ runs[r] # "cancelled" /\ runs[r] # "absent" /\ runs'[r] = "queued"
        /\ \A q \in Run \ {r} : runs'[q] = runs[q] /\ PendingOf(q)' = PendingOf(q)
    BY <1>0, <1>1, <1>2 DEF ApproveQuote, SetRun, PendingOf, RunsInv, AskedOnce
  <2>2. \A q \in Run \ {r} : ~Alone(q)
    BY <2>1 DEF Alone
  <2> QED BY <1>0, <2>1, <2>2, QuietStays DEF Holds, StaysCancelled, CancelledIsQuiet
<1>3. ASSUME NEW r \in Run, DeclineQuote(r) PROVE Holds
  <2>1. /\ runs[r] # "cancelled" /\ runs[r] # "absent" /\ runs'[r] = "cancelled"
        /\ task'.status = "cancelled" /\ quote'[r] = "rejected"
        /\ \A q \in Run \ {r} : runs'[q] = runs[q] /\ PendingOf(q)' = PendingOf(q)
    BY <1>0, <1>1, <1>3 DEF DeclineQuote, SetRun, SetTask, TaskRow, PendingOf, RunsInv, AskedOnce
  <2>2. \A q \in Run \ {r} : ~Alone(q)
    BY <2>1 DEF Alone
  <2>3. Quiet(r)'
    BY <2>1 DEF Quiet, DeclinedBeside, Alone, TaskClosed
  <2> QED BY <1>0, <2>1, <2>2, <2>3, QuietStays DEF Holds, StaysCancelled, CancelledIsQuiet
<1>4. ASSUME NEW r \in Run, PauseRun(r) \/ ResumeRun(r) PROVE Holds
  <2>1. /\ runs[r] # "cancelled" /\ runs[r] # "absent" /\ runs'[r] # "cancelled"
        /\ \A q \in Run \ {r} : runs'[q] = runs[q]
        /\ \A q \in Run : PendingOf(q)' = PendingOf(q)
    BY <1>0, <1>4 DEF PauseRun, ResumeRun, Dispatchable, SetRun, PendingOf
  <2>2. \A q \in Run \ {r} : ~Alone(q)
    BY <2>1 DEF Alone
  <2> QED BY <1>0, <2>1, <2>2, QuietStays DEF Holds, StaysCancelled, CancelledIsQuiet
<1>5. ASSUME NEW s \in Step, DecidesStep(s) PROVE Holds
  <2>1. runs[RunOf[s]] = "cancelled" => DeclinedBeside(RunOf[s])
    BY <1>0, <1>5 DEF DecidesStep, CancelledIsQuiet, Quiet
  <2>2. /\ runs'[RunOf[s]] \in {"queued", "blocked"} /\ ~TaskClosed
        /\ \A q \in Run \ {RunOf[s]} : runs'[q] = runs[q] /\ PendingOf(q)' = PendingOf(q)
    BY <1>0, <1>5 DEF DecidesStep, RunEnds
  <2> QED BY <1>0, <2>1, <2>2, QuietStays DEF Holds, StaysCancelled, CancelledIsQuiet
<1>6. ASSUME NEW R \in SUBSET Run, NEW Q \in SUBSET Run, R \subseteq Q, CancelRuns(R), ExpireApprovals(Q),
             \A r \in Run \ Q : ~Alone(r)
      PROVE  Holds
  <2>1. \A r \in Run : runs[r] = "cancelled" => runs'[r] = "cancelled"
    BY <1>6 DEF CancelRuns
  <2>2. \A r \in Run \ Q : runs'[r] = runs[r] /\ PendingOf(r)' = PendingOf(r)
    BY <1>6, CancelledAskNothing DEF CancelRuns
  <2>3. \A r \in Q : Quiet(r)'
    BY <1>6, CancelledAskNothing DEF Quiet
  <2>4. \A r \in Run \ Q : Quiet(r) => Quiet(r)'
    BY <1>0, <1>6, <2>2, QuietStays
  <2> QED BY <2>1, <2>2, <2>3, <2>4 DEF Holds, StaysCancelled, CancelledIsQuiet
<1>7. ASSUME NEW r \in Run, RequestCancellation(r) PROVE Holds
  <2>1. CancelRuns({r}) /\ ExpireApprovals({r}) /\ runs[r] # "absent"
    BY <1>7 DEF RequestCancellation, Cancellable
  <2>2. \A q \in Run \ {r} : ~Alone(q)
    BY <2>1 DEF Alone
  <2> QED BY <1>6, <2>1, <2>2
<1>8. ASSUME RequestTaskCancellation PROVE Holds
  <2> DEFINE R == {q \in Run : Cancellable(q)}
  <2>1. ExpireApprovals(Run) /\ CancelRuns(R)
    BY <1>8 DEF RequestTaskCancellation
  <2> QED BY <1>6, <2>1
<1>9. Holds
  BY <1>2, <1>3, <1>4, <1>5, <1>7, <1>8, StepDecisions, OverageDecisions DEF People
<1> QED BY <1>9 DEF Holds

LEMMA CancelledInductive ==
  ASSUME StepsInv, RunsInv, CancelledIsQuiet, [Next]_vars
  PROVE  StaysCancelled /\ CancelledIsQuiet'
BY PeopleCancelled, StarterCancelled, MachineCancelled DEF Next

(* What people decide stands: no report, sweep or late answer revives a    *)
(* run they cancelled, only the question for its quote that was still to   *)
(* be asked, and decisions on a run whose quote was declined beside runs   *)
(* that reopened the task; and the cap rises only to what they approved.   *)
THEOREM DecisionsTheorem == Spec => DecisionsStand
<1> DEFINE Inv == StepsInv /\ RunsInv /\ CancelledIsQuiet
<1>1. Init => Inv
  <2>1. Init => CancelledIsQuiet
    BY DEF Init, CancelledIsQuiet
  <2> QED BY <2>1, StepsInit, RunsInit
<1>2. Inv /\ [Next]_vars => Inv'
  BY StepsInductive, RunsInductive, CancelledInductive
<1>3. Inv /\ [Next]_vars => [StaysCancelled]_vars
  BY CancelledInductive
<1>4. Spec => [][StaysCancelled]_vars
  BY <1>1, <1>2, <1>3, PTL DEF Spec
<1>5. [][StaysCancelled]_vars <=> CancelledRunsStayCancelled
  BY DEF StaysCancelled, CancelledRunsStayCancelled
<1> QED BY <1>4, <1>5, CapRaiseTheorem DEF DecisionsStand

-----------------------------------------------------------------------------
(* A completed task has no run that is not complete, unless its quote was  *)
(* asked for after it had ended.                                           *)
CompletedTaskIsDone ==
  task.status = "completed" => \A r \in Run : runs[r] \in {"absent", "completed"} \/ r \in past.asked

LEMMA MachineDone ==
  ASSUME StepsInv, RunsInv, CompletedTaskIsDone, Dispatcher \/ Workers \/ Recovery \/ UNCHANGED vars
  PROVE  CompletedTaskIsDone'
<1>0. /\ runs \in [Run -> RunStatus] /\ RunOf \in [Step -> Run] /\ past.asked \subseteq past'.asked
  BY GraphAssumption, NextPast DEF StepsInv, TypeOK, Next, PastGrows
<1>1. ASSUME NEW s \in Step, GivesUpWork(s) PROVE CompletedTaskIsDone'
  <2>1. task.status = "completed" => RunOf[s] \in past.asked
    BY <1>0, <1>1 DEF GivesUpWork, RunsInv, RunningIsStarted, CompletedTaskIsDone
  <2>2. \A r \in Run \ {RunOf[s]} : runs'[r] = runs[r]
    BY <1>0, <1>1 DEF GivesUpWork, RunEnds
  <2>3. task'.status = "completed" =>
          task.status = "completed" \/ (RunEnds(s, "completed") /\ OthersCompleted(RunOf[s]))
    BY <1>1 DEF GivesUpWork
  <2>4. CASE task.status = "completed"
    BY <1>0, <2>1, <2>2, <2>4 DEF CompletedTaskIsDone
  <2>5. CASE RunEnds(s, "completed") /\ OthersCompleted(RunOf[s])
    BY <1>0, <2>2, <2>5 DEF RunEnds, OthersCompleted, CompletedTaskIsDone
  <2> QED BY <2>3, <2>4, <2>5 DEF CompletedTaskIsDone
<1>2. ASSUME NEW s \in Step, GrantsClaim(s) PROVE CompletedTaskIsDone'
  BY <1>2 DEF GrantsClaim, CompletedTaskIsDone
<1>3. ASSUME NEW s \in Step, AsksOverage(s) PROVE CompletedTaskIsDone'
  <2>1. task.status = "completed" => RunOf[s] \in past.asked
    BY <1>0, <1>3 DEF AsksOverage, Claimable, Dispatchable, CompletedTaskIsDone
  <2> QED BY <1>0, <1>3, <2>1 DEF AsksOverage, RunEnds, CompletedTaskIsDone
<1>4. LeavesStatuses => CompletedTaskIsDone'
  BY <1>0 DEF LeavesStatuses, CompletedTaskIsDone
<1> QED BY <1>1, <1>2, <1>3, <1>4, MachineMoves

LEMMA DoneInductive ==
  ASSUME StepsInv, RunsInv, CompletedTaskIsDone, [Next]_vars
  PROVE  CompletedTaskIsDone'
<1>0. /\ runs \in [Run -> RunStatus] /\ RunOf \in [Step -> Run] /\ task \in TaskRow
      /\ past.asked \subseteq past'.asked
  BY GraphAssumption, NextPast DEF StepsInv, TypeOK, PastGrows
<1>1. CASE Starter
  <2>1. ASSUME NEW r \in Run, CreateTaskRun(r) PROVE CompletedTaskIsDone'
    BY <2>1 DEF CreateTaskRun, TaskClosed, CompletedTaskIsDone
  <2>2. ASSUME NEW r \in Run, RequestTaskStartApproval(r) PROVE CompletedTaskIsDone'
    <3>1. /\ task' = task /\ runs[r] # "absent" /\ \A q \in Run \ {r} : runs'[q] = runs[q]
      BY <1>0, <2>2 DEF RequestTaskStartApproval, SetRun, RunsInv, AskedOnce
    <3>2. runs[r] = "completed" => r \in past'.asked
      BY <2>2 DEF RequestTaskStartApproval, NotesQuestion, StepsInv, TypeOK, PastRow
    <3> QED BY <1>0, <3>1, <3>2 DEF CompletedTaskIsDone
  <2> QED BY <1>1, <2>1, <2>2 DEF Starter
<1>2. CASE People
  <2>1. ASSUME NEW r \in Run, ApproveQuote(r) \/ DeclineQuote(r) PROVE CompletedTaskIsDone'
    BY <1>0, <2>1 DEF ApproveQuote, DeclineQuote, SetTask, TaskRow, TaskClosed, CompletedTaskIsDone
  <2>2. ASSUME NEW r \in Run, PauseRun(r) \/ ResumeRun(r) PROVE CompletedTaskIsDone'
    <3>1. task' = task /\ \A q \in Run \ {r} : runs'[q] = runs[q]
      BY <1>0, <2>2 DEF PauseRun, ResumeRun, SetRun
    <3>2. task.status = "completed" => r \in past.asked
      BY <2>2 DEF PauseRun, ResumeRun, Dispatchable, CompletedTaskIsDone
    <3> QED BY <1>0, <3>1, <3>2 DEF CompletedTaskIsDone
  <2>3. ASSUME NEW s \in Step, DecidesStep(s) PROVE CompletedTaskIsDone'
    BY <2>3 DEF DecidesStep, TaskClosed, CompletedTaskIsDone
  <2>4. ASSUME NEW r \in Run, RequestCancellation(r) PROVE CompletedTaskIsDone'
    <3>1. task.status = "completed" => r \in past.asked
      BY <2>4 DEF RequestCancellation, Cancellable, CompletedTaskIsDone
    <3>2. task' = task \/ task' = SetTask("blocked") \/ task' = SetTask("cancelled")
      BY <2>4 DEF RequestCancellation
    <3>3. \A q \in Run \ {r} : runs'[q] = runs[q]
      BY <2>4 DEF RequestCancellation, CancelRuns
    <3> QED BY <1>0, <3>1, <3>2, <3>3 DEF SetTask, TaskRow, CompletedTaskIsDone
  <2>5. ASSUME RequestTaskCancellation PROVE CompletedTaskIsDone'
    <3> DEFINE R == {q \in Run : Cancellable(q)}
    <3>1. \/ task' = SetTask("blocked") \/ task' = SetTask("cancelled")
          \/ R = {} /\ task' = task
      BY <2>5 DEF RequestTaskCancellation
    <3>2. CancelRuns(R)
      BY <2>5 DEF RequestTaskCancellation
    <3>3. R = {} => \A r \in Run : runs'[r] = runs[r]
      BY <3>2 DEF CancelRuns
    <3> HIDE DEF R
    <3> QED BY <1>0, <3>1, <3>3 DEF SetTask, TaskRow, CompletedTaskIsDone
  <2> QED BY <1>2, <2>1, <2>2, <2>3, <2>4, <2>5, StepDecisions, OverageDecisions DEF People
<1> QED BY <1>1, <1>2, MachineDone DEF Next

(* The rows of a task, its runs, its steps and its approvals tell one      *)
(* story: a completed task has no work left, but in a run whose quote was  *)
(* asked for late, a cancelled run nothing to decide, unless declining its *)
(* quote left it something, and a run that waits has something to ask for. *)
THEOREM StatusesTheorem == Spec => []StatusesAgree
<1> DEFINE Inv == StepsInv /\ RunsInv /\ CancelledIsQuiet /\ CompletedTaskIsDone
<1>1. Init => Inv
  <2>1. Init => CancelledIsQuiet /\ CompletedTaskIsDone
    BY DEF Init, CancelledIsQuiet, CompletedTaskIsDone
  <2> QED BY <2>1, StepsInit, RunsInit
<1>2. Inv /\ [Next]_vars => Inv'
  BY StepsInductive, RunsInductive, CancelledInductive, DoneInductive
<1>3. Inv => StatusesAgree
  <2> SUFFICES ASSUME Inv PROVE StatusesAgree
    OBVIOUS
  <2>1. TaskCompletedMeansWorkDone
    BY DEF RunsInv, CompletedIsDone, CompletedTaskIsDone, TaskCompletedMeansWorkDone
  <2>2. NothingDecidableAfterCancel
    BY DEF CancelledIsQuiet, Quiet, NothingDecidableAfterCancel
  <2>3. AwaitingMeansAskable
    BY DEF RunsInv, WaitingIsAskable, AwaitingMeansAskable
  <2> QED BY <2>1, <2>2, <2>3 DEF StatusesAgree
<1> QED BY <1>1, <1>2, <1>3, PTL DEF Spec

-----------------------------------------------------------------------------
(* A stopped task.  A run that failed has nothing in flight that could     *)
(* still report, unless it failed beside other steps of its own: their     *)
(* reports are accepted and charged although the task was stopped since.   *)
FailedIsIdle ==
  \A s \in Step : steps[s].status = "running" => runs[RunOf[s]] # "failed" \/ RunOf[s] \in past.outlived

LEMMA FailedInductive ==
  ASSUME StepsInv, RunsInv, FailedIsIdle, [Next]_vars
  PROVE  FailedIsIdle'
<1>0. /\ runs \in [Run -> RunStatus] /\ RunOf \in [Step -> Run] /\ steps \in [Step -> StepRow]
      /\ past \in PastRow /\ past.outlived \subseteq past'.outlived
  BY GraphAssumption, NextPast DEF StepsInv, TypeOK, PastGrows
<1> SUFFICES ASSUME NEW q \in Step, steps'[q].status = "running"
             PROVE  runs'[RunOf[q]] # "failed" \/ RunOf[q] \in past'.outlived
  BY DEF FailedIsIdle
<1> DEFINE Idle == runs'[RunOf[q]] # "failed" \/ RunOf[q] \in past'.outlived
<1>1. CASE LeavesStatuses
  BY <1>0, <1>1 DEF LeavesStatuses, FailedIsIdle
<1>2. ASSUME NEW s \in Step, GivesUpWork(s) PROVE Idle
  <2>1. q # s /\ steps[q].status = "running"
    BY <1>2 DEF GivesUpWork, OnlyStep
  <2>2. CASE RunOf[q] # RunOf[s]
    <3>1. runs'[RunOf[q]] = runs[RunOf[q]]
      BY <1>0, <1>2, <2>2 DEF GivesUpWork, RunEnds
    <3> QED BY <1>0, <2>1, <3>1 DEF FailedIsIdle
  <2>3. CASE RunOf[q] = RunOf[s]
    <3>1. q \in WithStatus(RunOf[s], {"running"}) \ {s}
      BY <2>1, <2>3 DEF WithStatus, StepsOf
    <3>2. NotesFailure(s) => RunOf[q] \in past'.outlived
      BY <1>0, <2>3, <3>1 DEF NotesFailure, PastRow
    <3>3. runs'[RunOf[q]] = "failed" => NotesFailure(s)
      BY <1>0, <1>2, <2>3 DEF GivesUpWork, RunEnds
    <3> QED BY <3>2, <3>3
  <2> QED BY <2>2, <2>3
<1>3. ASSUME NEW s \in Step, GrantsClaim(s) \/ AsksOverage(s) PROVE Idle
  BY <1>0, <1>3 DEF GrantsClaim, AsksOverage, OnlyStep, RunEnds, FailedIsIdle
<1>4. ASSUME People \/ Starter PROVE Idle
  <2>1. steps[q].status = "running"
    BY <1>0, <1>4, PeopleMoveSteps, MovedRows
    DEF StepsInv, Starter, CreateTaskRun, RequestTaskStartApproval
  <2>2. runs'[RunOf[q]] = runs[RunOf[q]] \/ runs'[RunOf[q]] # "failed"
    BY <1>0, <1>4, StepDecisions, OverageDecisions
    DEF People, ApproveQuote, DeclineQuote, PauseRun, ResumeRun, RequestCancellation,
        RequestTaskCancellation, CancelRuns, DecidesStep, RunEnds, SetRun,
        Starter, CreateTaskRun, RequestTaskStartApproval
  <2> QED BY <1>0, <2>1, <2>2 DEF FailedIsIdle
<1> QED BY <1>1, <1>2, <1>3, <1>4, MachineMoves DEF Next

(* A stopped task has nothing to go on with but in its stray runs.         *)
Ended(r) == runs[r] \in {"absent", "completed", "failed", "cancelled"}
StoppedIsIdle == task.status = "cancelled" => \A r \in Run : Ended(r) \/ Stray(r)

(* While it is stopped, no step runs but of a cancelled or a stray run.    *)
LEMMA StoppedWork ==
  ASSUME RunsInv, FailedIsIdle, StoppedIsIdle, task.status = "cancelled", NEW s \in Step
  PROVE  /\ Dispatchable(RunOf[s]) => Stray(RunOf[s])
         /\ steps[s].status = "running" => runs[RunOf[s]] = "cancelled" \/ Stray(RunOf[s])
<1>1. RunOf[s] \in Run /\ (Ended(RunOf[s]) \/ Stray(RunOf[s]))
  BY GraphAssumption DEF StoppedIsIdle
<1>2. Dispatchable(RunOf[s]) => ~Ended(RunOf[s])
  BY DEF Dispatchable, Ended
<1>3. ASSUME steps[s].status = "running"
      PROVE  /\ runs[RunOf[s]] \notin {"absent", "completed"}
             /\ runs[RunOf[s]] = "failed" => RunOf[s] \in past.outlived
  BY <1>3 DEF RunsInv, RunningIsStarted, FailedIsIdle
<1> QED BY <1>1, <1>2, <1>3 DEF Ended, Stray

LEMMA MachineStopped ==
  ASSUME StepsInv, RunsInv, FailedIsIdle, StoppedIsIdle,
         Dispatcher \/ Workers \/ Recovery \/ UNCHANGED vars
  PROVE  StoppedIsIdle'
<1>0. runs \in [Run -> RunStatus] /\ RunOf \in [Step -> Run] /\ [Next]_vars
  BY GraphAssumption DEF StepsInv, TypeOK, Next
<1>1. \A r \in Run : Stray(r) => Stray(r)'
  BY <1>0, StrayStays
<1>2. LeavesStatuses => StoppedIsIdle'
  BY <1>1 DEF LeavesStatuses, StoppedIsIdle, Ended
<1>3. ASSUME NEW s \in Step, GivesUpWork(s) PROVE StoppedIsIdle'
  <2>1. task'.status = "cancelled" => task.status = "cancelled"
    BY <1>3 DEF GivesUpWork
  <2>2. \A r \in Run \ {RunOf[s]} : runs'[r] = runs[r]
    BY <1>0, <1>3 DEF GivesUpWork, RunEnds
  <2>3. runs[RunOf[s]] = "cancelled" => runs' = runs
    BY <1>3 DEF GivesUpWork
  <2>4. task.status = "cancelled" => runs[RunOf[s]] = "cancelled" \/ Stray(RunOf[s])
    BY <1>3, StoppedWork DEF GivesUpWork
  <2> QED BY <1>0, <1>1, <2>1, <2>2, <2>3, <2>4 DEF StoppedIsIdle, Ended
<1>4. ASSUME NEW s \in Step, GrantsClaim(s) PROVE StoppedIsIdle'
  BY <1>4 DEF GrantsClaim, StoppedIsIdle
<1>5. ASSUME NEW s \in Step, AsksOverage(s) PROVE StoppedIsIdle'
  <2>1. task'.status = task.status /\ \A r \in Run \ {RunOf[s]} : runs'[r] = runs[r]
    BY <1>0, <1>5 DEF AsksOverage, RunEnds
  <2>2. task.status = "cancelled" => Stray(RunOf[s])
    BY <1>5, StoppedWork DEF AsksOverage, Claimable
  <2> QED BY <1>0, <1>1, <2>1, <2>2 DEF StoppedIsIdle, Ended
<1> QED BY <1>2, <1>3, <1>4, <1>5, MachineMoves

LEMMA PeopleStopped ==
  ASSUME StepsInv, RunsInv, StoppedIsIdle, People
  PROVE  StoppedIsIdle'
<1>0. /\ runs \in [Run -> RunStatus] /\ RunOf \in [Step -> Run] /\ task \in TaskRow
      /\ quote \in [Run -> ApprovalStatus] /\ [Next]_vars
  BY GraphAssumption DEF StepsInv, TypeOK, ApprovalsOK, Next
<1>1. \A r \in Run : Stray(r) => Stray(r)'
  BY <1>0, StrayStays
<1>2. ASSUME NEW r \in Run, ApproveQuote(r) PROVE StoppedIsIdle'
  BY <1>2 DEF ApproveQuote, TaskClosed, StoppedIsIdle
<1>3. ASSUME NEW r \in Run, DeclineQuote(r) PROVE StoppedIsIdle'
  <2>1. runs'[r] = "cancelled" /\ quote'[r] = "rejected" /\ \A q \in Run \ {r} : runs'[q] = runs[q]
    BY <1>0, <1>3 DEF DeclineQuote, SetRun
  <2>2. ASSUME NEW q \in Run \ {r}, runs'[q] # "absent" PROVE Stray(q)'
    <3>1. DeclinedBeside(r)'
      BY <2>1, <2>2 DEF DeclinedBeside
    <3> QED BY <2>2, <3>1 DEF Stray
  <2> QED BY <2>1, <2>2 DEF StoppedIsIdle, Ended
<1>4. ASSUME NEW r \in Run, PauseRun(r) \/ ResumeRun(r) PROVE StoppedIsIdle'
  <2>1. task' = task /\ \A q \in Run \ {r} : runs'[q] = runs[q]
    BY <1>0, <1>4 DEF PauseRun, ResumeRun, SetRun
  <2>2. task.status = "cancelled" => Stray(r)
    BY <1>4 DEF PauseRun, ResumeRun, Dispatchable, StoppedIsIdle, Ended
  <2> QED BY <1>1, <2>1, <2>2 DEF StoppedIsIdle, Ended
<1>5. ASSUME NEW s \in Step, DecidesStep(s) PROVE StoppedIsIdle'
  BY <1>5 DEF DecidesStep, TaskClosed, StoppedIsIdle
<1>6. ASSUME NEW r \in Run, RequestCancellation(r) PROVE StoppedIsIdle'
  <2>1. runs'[r] = "cancelled" /\ \A q \in Run \ {r} : runs'[q] = runs[q]
    BY <1>6 DEF RequestCancellation, CancelRuns
  <2>2. ASSUME task'.status = "cancelled", task.status # "cancelled", NEW q \in Run \ {r}
        PROVE  runs[q] \in {"absent", "completed", "cancelled"}
    BY <1>0, <1>6, <2>2 DEF RequestCancellation, Settled, SetTask, TaskRow
  <2> QED BY <1>1, <2>1, <2>2 DEF StoppedIsIdle, Ended
<1>7. ASSUME RequestTaskCancellation PROVE StoppedIsIdle'
  <2> DEFINE R == {q \in Run : Cancellable(q)}
  <2>1. CancelRuns(R)
    BY <1>7 DEF RequestTaskCancellation
  <2>2. \A q \in Run : runs'[q] \in {"absent", "completed", "failed", "cancelled"}
    BY <1>0, <2>1 DEF CancelRuns, Cancellable
  <2> QED BY <2>2 DEF StoppedIsIdle, Ended
<1> QED BY <1>2, <1>3, <1>4, <1>5, <1>6, <1>7, StepDecisions, OverageDecisions DEF People

LEMMA StarterStopped ==
  ASSUME StepsInv, RunsInv, StoppedIsIdle, Starter
  PROVE  StoppedIsIdle'
<1>0. runs \in [Run -> RunStatus] /\ past \in PastRow /\ [Next]_vars
  BY DEF StepsInv, TypeOK, Next
<1>1. \A r \in Run : Stray(r) => Stray(r)'
  BY <1>0, StrayStays
<1>2. ASSUME NEW r \in Run, CreateTaskRun(r) PROVE StoppedIsIdle'
  BY <1>2 DEF CreateTaskRun, TaskClosed, StoppedIsIdle
<1>3. ASSUME NEW r \in Run, RequestTaskStartApproval(r) PROVE StoppedIsIdle'
  <2>1. task' = task /\ runs[r] # "absent" /\ \A q \in Run \ {r} : runs'[q] = runs[q]
    BY <1>0, <1>3 DEF RequestTaskStartApproval, SetRun, RunsInv, AskedOnce
  <2>2. runs[r] \in {"completed", "failed", "cancelled"} => r \in past'.asked
    BY <1>0, <1>3 DEF RequestTaskStartApproval, NotesQuestion, PastRow
  <2>3. task.status = "cancelled" => Stray(r)'
    BY <1>1, <2>1, <2>2 DEF StoppedIsIdle, Ended, Stray
  <2> QED BY <1>1, <2>1, <2>3 DEF StoppedIsIdle, Ended
<1> QED BY <1>2, <1>3 DEF Starter

LEMMA StoppedInductive ==
  ASSUME StepsInv, RunsInv, FailedIsIdle, StoppedIsIdle, [Next]_vars
  PROVE  StoppedIsIdle'
BY PeopleStopped, StarterStopped, MachineStopped DEF Next

(* A step that leaves every stray run as it is.                            *)
StraysRest ==
  \A r \in Run : Stray(r) => runs'[r] = runs[r] /\ \A s \in StepsOf(r) : steps'[s] = steps[s]

LEMMA StoppedStays ==
  ASSUME StepsInv, RunsInv, FailedIsIdle, StoppedIsIdle, [Next]_vars, task.status = "cancelled",
         StraysRest
  PROVE  task'.status = "cancelled"
<1>0. RunOf \in [Step -> Run] /\ \A s \in Step : s \in StepsOf(RunOf[s])
  BY GraphAssumption DEF StepsOf
<1>1. LeavesStatuses => task'.status = "cancelled"
  BY DEF LeavesStatuses
<1>2. ASSUME NEW s \in Step, GivesUpWork(s) PROVE task'.status = "cancelled"
  <2>1. steps'[s] # steps[s]
    BY <1>2 DEF GivesUpWork
  <2>2. runs[RunOf[s]] = "cancelled"
    BY <1>0, <1>2, <2>1, StoppedWork DEF GivesUpWork, StraysRest
  <2> QED BY <1>2, <2>2 DEF GivesUpWork
<1>3. ASSUME NEW s \in Step, GrantsClaim(s) PROVE FALSE
  <2>1. steps'[s] # steps[s]
    BY <1>3 DEF GrantsClaim, Claimable
  <2> QED BY <1>0, <1>3, <2>1, StoppedWork DEF GrantsClaim, Claimable, StraysRest
<1>4. ASSUME NEW s \in Step, AsksOverage(s) PROVE task'.status = "cancelled"
  BY <1>4 DEF AsksOverage
<1>5. ASSUME NEW r \in Run, Cancellable(r) PROVE Stray(r)
  BY <1>5 DEF Cancellable, StoppedIsIdle, Ended
<1>6. ASSUME NEW r \in Run, RequestCancellation(r) PROVE FALSE
  BY <1>5, <1>6 DEF RequestCancellation, CancelRuns, Cancellable, StraysRest
<1>7. ASSUME RequestTaskCancellation PROVE task'.status = "cancelled"
  <2> DEFINE R == {q \in Run : Cancellable(q)}
  <2>1. CancelRuns(R)
    BY <1>7 DEF RequestTaskCancellation
  <2>2. R = {}
    BY <1>5, <2>1 DEF CancelRuns, Cancellable, StraysRest
  <2> QED BY <1>7, <2>2 DEF RequestTaskCancellation, TaskClosed
<1>8. ASSUME NEW s \in Step, DecidesStep(s) PROVE FALSE
  BY <1>8 DEF DecidesStep, TaskClosed
<1>9. People => task'.status = "cancelled"
  BY <1>6, <1>7, <1>8, StepDecisions, OverageDecisions
  DEF People, ApproveQuote, DeclineQuote, PauseRun, ResumeRun, TaskClosed
<1>10. Starter => task'.status = "cancelled"
  BY DEF Starter, CreateTaskRun, RequestTaskStartApproval
<1> QED BY <1>1, <1>2, <1>3, <1>4, <1>9, <1>10, MachineMoves DEF Next

(* nor charges it, nor reserves more of it.                                *)
LEMMA StoppedSpends ==
  ASSUME StepsInv, RunsInv, FailedIsIdle, StoppedIsIdle, [Next]_vars, task.status = "cancelled",
         StraysRest
  PROVE  task'.spentRwf = task.spentRwf /\ task'.reservedRwf <= task.reservedRwf
<1>0. /\ TypeOK /\ GatesWait /\ HeldByLatestClaim /\ task.reservedRwf \in Nat
      /\ RunOf \in [Step -> Run] /\ \A s \in Step : s \in StepsOf(RunOf[s])
  BY GraphAssumption DEF StepsInv, TypeOK, TaskRow, StepsOf
<1>1. task'.spentRwf = task.spentRwf
  <2>1. ASSUME NEW w \in workers, NEW actual \in Nat, SettledNow(w, actual) PROVE FALSE
    <3>1. w.step \in Step /\ steps[w.step].status = "running" /\ steps'[w.step] # steps[w.step]
      BY <1>0, <2>1 DEF SettledNow, GivesBack, TypeOK, Worker
    <3>2. runs[RunOf[w.step]] # "cancelled"
      BY <2>1 DEF SettledNow
    <3> QED BY <1>0, <3>1, <3>2, StoppedWork DEF StraysRest
  <2> QED BY <1>0, <2>1, NextCharges DEF ChargesNothing
<1>2. task'.reservedRwf <= task.reservedRwf
  <2>1. ASSUME NEW s \in Step, Takes(s) PROVE FALSE
    <3>1. steps'[s] # steps[s]
      BY <2>1 DEF Takes, Claimable
    <3> QED BY <1>0, <2>1, <3>1, StoppedWork DEF Takes, Claimable, StraysRest
  <2>2. ASSUME NEW s \in Step, GivesBack(s) PROVE task'.reservedRwf <= task.reservedRwf
    <3>1. steps[s].reservedRwf \in Nat
      BY <1>0 DEF TypeOK, StepRow
    <3> QED BY <1>0, <2>2, <3>1 DEF GivesBack
  <2>3. LeavesBalance => task'.reservedRwf <= task.reservedRwf
    BY <1>0 DEF LeavesBalance
  <2> QED BY <1>0, <2>1, <2>2, <2>3, NextMovesBalance DEF BalanceMoves
<1> QED BY <1>1, <1>2

StoppedStep ==
  task.status = "cancelled" =>
    \/ Stands
    \/ \E r \in Run : Stray(r) /\ (runs'[r] # runs[r] \/ \E s \in StepsOf(r) : steps'[s] # steps[s])

LEMMA StoppedTheorem == Spec => StoppedTaskSpendsNothing
<1> DEFINE Inv == StepsInv /\ RunsInv /\ FailedIsIdle /\ StoppedIsIdle
<1>1. Init => Inv
  <2>1. Init => FailedIsIdle /\ StoppedIsIdle
    BY GraphAssumption DEF Init, FreshStep, FailedIsIdle, StoppedIsIdle
  <2> QED BY <2>1, StepsInit, RunsInit
<1>2. Inv /\ [Next]_vars => Inv'
  BY StepsInductive, RunsInductive, FailedInductive, StoppedInductive
<1>3. Inv /\ [Next]_vars => [StoppedStep]_vars
  <2> SUFFICES ASSUME Inv, [Next]_vars, task.status = "cancelled", StraysRest PROVE Stands
    BY DEF StoppedStep, StraysRest
  <2> QED BY StoppedStays, StoppedSpends DEF Stands
<1>4. Spec => [][StoppedStep]_vars
  BY <1>1, <1>2, <1>3, PTL DEF Spec
<1> QED BY <1>4 DEF StoppedStep, StoppedTaskSpendsNothing

(* What is done is done: completed work is not redone, unless by a         *)
(* decision of that very step, and a stopped task is neither resumed nor   *)
(* charged by whatever was in flight at the time, but for the steps of its *)
(* stray runs.                                                             *)
THEOREM DoneTheorem == Spec => DoneIsDone
BY StoppedTheorem, CompletedTheorem DEF DoneIsDone
=============================================================================
