-------------------------- MODULE DurableJobs_proofs --------------------------
(***************************************************************************)
(* Proofs about DurableJobs, for every set of jobs and actions, every      *)
(* order of enqueueing and every bound.                                    *)
(***************************************************************************)
EXTENDS DurableJobs, TLAPS

-----------------------------------------------------------------------------
(* Types.  First the rows the store's operations write.                    *)

LEMMA NewJobType == NewJob \in JobRow
BY DEF NewJob, NoDecision, JobRow, JobStatus

(* A record keeps its type when its status changes. *)
LEMMA StatusType ==
  ASSUME NEW row \in JobRow, NEW status \in JobStatus
  PROVE  [row EXCEPT !.status = status] \in JobRow
BY DEF JobRow

LEMMA UnleasedType ==
  ASSUME NEW row \in JobRow
  PROVE  Unleased(row) \in JobRow
BY DEF JobRow, Unleased

LEMMA UnaskedType ==
  ASSUME NEW row \in JobRow
  PROVE  Unasked(row) \in JobRow
BY DEF JobRow, Unasked, NoDecision

LEMMA ParkedType ==
  ASSUME NEW row \in JobRow, NEW d \in Digest
  PROVE  Parked(row, d) \in JobRow
BY UnaskedType DEF JobRow, JobStatus, Parked

(* One record is written, the others stay. *)
LEMMA JobUpdate ==
  ASSUME jobs \in [Job -> JobRow], NEW j \in Job, NEW row \in JobRow
  PROVE  [jobs EXCEPT ![j] = row] \in [Job -> JobRow]
OBVIOUS

LEMMA RecoveredType ==
  ASSUME jobs \in [Job -> JobRow]
  PROVE  Recovered \in [Job -> JobRow]
<1>1. ASSUME NEW j \in Job, NEW status \in {"failed", "queued"}
      PROVE  [Unleased(Unasked(jobs[j])) EXCEPT !.status = status] \in JobRow
  BY <1>1, UnaskedType, UnleasedType, StatusType DEF JobStatus
<1> QED BY <1>1 DEF Recovered

LEMMA ClaimedType ==
  ASSUME NEW row \in JobRow, NEW w \in Job
  PROVE  Claimed(row, w) \in JobRow
<1>1. row.attempts + 1 \in Nat
  BY DEF JobRow
<1>2. \A n \in Nat : [Unasked(row) EXCEPT !.status = "running", !.worker = w,
                                          !.leaseLive = TRUE, !.attempts = n] \in JobRow
  BY UnaskedType DEF JobRow, JobStatus
<1> QED BY <1>1, <1>2 DEF Claimed

LEMMA LapsedType == ASSUME NEW row \in JobRow PROVE [row EXCEPT !.leaseLive = FALSE] \in JobRow
BY DEF JobRow

LEMMA DueType == ASSUME NEW row \in JobRow PROVE [row EXCEPT !.due = TRUE] \in JobRow
BY DEF JobRow

LEMMA DecisionType ==
  ASSUME NEW row \in JobRow, NEW decision \in Decision \union {None},
         NEW d \in Digest \union {None}
  PROVE  [row EXCEPT !.approvalDecision = [decision |-> decision, actionDigest |-> d]] \in JobRow
BY DEF JobRow

LEMMA FinishedType ==
  ASSUME jobs \in [Job -> JobRow], NEW j \in Job, NEW outcome \in {"completed", "failed"}
  PROVE  Finished(j, outcome) \in JobRow
<1>1. Unleased(jobs[j]) \in JobRow
  BY UnleasedType
<1> QED BY <1>1, StatusType DEF Finished, JobRow, JobStatus

LEMMA ConsumedType ==
  ASSUME jobs \in [Job -> JobRow], NEW j \in Job, jobs[j].pendingApproval # None, ~Unusable(j)
  PROVE  /\ jobs[j].approvalDecision.actionDigest \in Digest
         /\ [Unasked(jobs[j]) EXCEPT !.status = "running",
               !.executedApprovals = Spent(j, jobs[j].approvalDecision)] \in JobRow
<1>1. jobs[j].approvalDecision.actionDigest \in Digest
  BY DEF Unusable, JobRow
<1>2. Spent(j, jobs[j].approvalDecision) \in SUBSET Digest
  BY <1>1 DEF Spent, JobRow
<1>3. Unasked(jobs[j]) \in JobRow
  BY UnaskedType
<1> QED BY <1>1, <1>2, <1>3 DEF JobRow, JobStatus

LEMMA InitTypes == Init => TypeOK
BY NewJobType DEF Init, TypeOK, WorkersOK, Working

(* A worker goes from one state without a job to another. *)
LEMMA IdleMove ==
  ASSUME WorkersOK, NEW w \in Job, held[w] = None, UNCHANGED turnVars,
         NEW place \in {"free", "sleeping", "exited"}, pc[w] # "waiting",
         pc' = [pc EXCEPT ![w] = place]
  PROVE  WorkersOK'
BY JobAssumption DEF WorkersOK, Working, turnVars

LEMMA DeniedTypes ==
  ASSUME WorkersOK, NEW w \in Job, pc[w] \in Working, Denied(w), UNCHANGED held
  PROVE  WorkersOK'
BY JobAssumption DEF WorkersOK, Working, Denied

LEMMA TurnEnds ==
  ASSUME WorkersOK, NEW w \in Job, NEW place \in {"checking", "exited"},
         pc' = [pc EXCEPT ![w] = place], held' = [held EXCEPT ![w] = None],
         asking' = [asking EXCEPT ![w] = None], granted' = [granted EXCEPT ![w] = {}]
  PROVE  WorkersOK'
BY JobAssumption DEF WorkersOK, Working

LEMMA PeopleTypes == ASSUME TypeOK, People PROVE TypeOK'
<1> USE DEF TypeOK
<1>w. ASSUME UNCHANGED workerVars PROVE WorkersOK' /\ asks' \in Nat /\ performed' \in [Job -> [Digest -> Nat]]
  BY <1>w DEF workerVars, turnVars, WorkersOK
<1>1. CASE ListJobs
  BY <1>1, <1>w, RecoveredType DEF ListJobs, personVars
<1>2. ASSUME NEW j \in Job, Enqueue(j) PROVE TypeOK'
  <2>1. [jobs[j] EXCEPT !.status = "queued"] \in JobRow
    BY StatusType DEF JobStatus
  <2> QED BY <1>2, <1>w, <2>1, JobUpdate DEF Enqueue, personVars
<1>3. ASSUME NEW j \in Job, Spawn(j) PROVE TypeOK'
  <2>1. WorkersOK'
    <3>1. held[j] = None
      BY <1>3 DEF Spawn, WorkersOK, Working
    <3> QED BY <1>3, <3>1, IdleMove DEF Spawn
  <2> QED BY <1>3, <2>1 DEF Spawn, personVars
<1>4. ASSUME NEW j \in Job, ReadRequest(j) PROVE TypeOK'
  <2>1. Recovered[j].pendingApproval \in Digest \union {None}
    BY RecoveredType DEF JobRow
  <2> QED BY <1>4, <1>w, <2>1, RecoveredType DEF ReadRequest
<1>5. ASSUME NEW j \in Job, Cancel(j) PROVE TypeOK'
  <2>1. [Unleased(jobs[j]) EXCEPT !.status = "cancelled"] \in JobRow
    BY UnleasedType, StatusType DEF JobStatus
  <2> QED BY <1>5, <1>w, <2>1, JobUpdate DEF Cancel, personVars
<1>6. ASSUME NEW j \in Job, NEW decision \in Decision, ResolveApproval(j, decision) PROVE TypeOK'
  <2>1. ASSUME Answers(j)
        PROVE  [jobs[j] EXCEPT !.approvalDecision =
                  [decision |-> decision, actionDigest |-> jobs[j].pendingApproval]] \in JobRow
    <3>1. jobs[j].pendingApproval \in Digest \union {None}
      BY DEF JobRow
    <3> QED BY <3>1, DecisionType
  <2>2. jobs' \in [Job -> JobRow]
    BY <1>6, <2>1, JobUpdate DEF ResolveApproval
  <2>3. shown' \in [Job -> Digest \union {None}] /\ answered' \subseteq Job \X Digest
    BY <1>6 DEF ResolveApproval
  <2> QED BY <1>6, <1>w, <2>2, <2>3 DEF ResolveApproval
<1> QED BY <1>1, <1>2, <1>3, <1>4, <1>5, <1>6 DEF People

LEMMA TimeTypes == ASSUME TypeOK, Time PROVE TypeOK'
<1> USE DEF TypeOK
<1>1. ASSUME NEW j \in Job, LeaseLapses(j) PROVE TypeOK'
  <2>1. [jobs[j] EXCEPT !.leaseLive = FALSE] \in JobRow
    BY LapsedType
  <2> QED BY <1>1, <2>1, JobUpdate DEF LeaseLapses, workerVars, turnVars, personVars, WorkersOK
<1>2. ASSUME NEW j \in Job, FallsDue(j) PROVE TypeOK'
  <2>1. [jobs[j] EXCEPT !.due = TRUE] \in JobRow
    BY DueType
  <2>2. WorkersOK'
    BY <1>2, JobAssumption DEF FallsDue, WorkersOK, Working, turnVars
  <2> QED BY <1>2, <2>1, <2>2, JobUpdate DEF FallsDue, turnVars, personVars
<1> QED BY <1>1, <1>2 DEF Time

LEMMA WorkerTypes == ASSUME TypeOK, NEW w \in Job, Worker(w) PROVE TypeOK'
<1> USE DEF TypeOK
<1>h. ASSUME pc[w] \in Working PROVE held[w] \in Job
  BY <1>h DEF WorkersOK
<1>i. ASSUME pc[w] \in {"free", "checking"} PROVE held[w] = None /\ pc[w] # "waiting"
  BY <1>i DEF WorkersOK, Working
<1>1. CASE ClaimNothing(w)
  BY <1>1, <1>i, IdleMove DEF ClaimNothing, personVars
<1>2. ASSUME NEW j \in Job, RetireExhausted(w, j) PROVE TypeOK'
  <2>1. [Unleased(jobs[j]) EXCEPT !.status = "failed"] \in JobRow
    BY UnleasedType, StatusType DEF JobStatus
  <2>2. WorkersOK'
    BY <1>2, <1>i, IdleMove DEF RetireExhausted
  <2> QED BY <1>2, <2>1, <2>2, JobUpdate DEF RetireExhausted, personVars
<1>3. ASSUME NEW j \in Job, Claim(w, j) PROVE TypeOK'
  <2>1. jobs' \in [Job -> JobRow]
    <3>1. Claimed(jobs[j], w) \in JobRow
      BY ClaimedType
    <3> QED BY <1>3, <3>1, JobUpdate DEF Claim
  <2>2. WorkersOK'
    BY <1>3, JobAssumption DEF Claim, WorkersOK, Working
  <2> QED BY <1>3, <2>1, <2>2 DEF Claim, personVars
<1>4. ASSUME NEW d \in Digest, RequestApproval(w, d) PROVE TypeOK'
  <2>1. held[w] \in Job
    BY <1>4, <1>h DEF RequestApproval, Working
  <2>2. jobs' \in [Job -> JobRow]
    <3>1. Parked(jobs[held[w]], d) \in JobRow
      BY <2>1, ParkedType
    <3> QED BY <1>4, <2>1, <3>1, JobUpdate DEF RequestApproval
  <2>3. WorkersOK'
    <3>1. CASE Denied(w)
      BY <1>4, <3>1, DeniedTypes DEF RequestApproval, Working
    <3>2. CASE /\ pc' = [pc EXCEPT ![w] = "waiting"]
               /\ asking' = [asking EXCEPT ![w] = d]
               /\ UNCHANGED <<granted, held>>
      BY <2>1, <3>2, JobAssumption DEF WorkersOK, Working
    <3> QED BY <1>4, <3>1, <3>2 DEF RequestApproval
  <2> QED BY <1>4, <2>2, <2>3 DEF RequestApproval, personVars
<1>5. ASSUME NEW d \in Digest, Perform(w, d) PROVE TypeOK'
  <2>1. held[w] \in Job
    BY <1>5, <1>h DEF Perform, Working
  <2>2. WorkersOK'
    BY <1>5, JobAssumption DEF Perform, WorkersOK, Working
  <2>3. performed' \in [Job -> [Digest -> Nat]]
    BY <1>5, <2>1 DEF Perform
  <2> QED BY <1>5, <2>2, <2>3 DEF Perform, personVars
<1>6. CASE ConsumeApproval(w)
  <2>1. held[w] \in Job /\ asking[w] \in Digest
    BY <1>6, <1>h DEF ConsumeApproval, WorkersOK, Working
  <2>2. jobs' \in [Job -> JobRow]
    <3>1. [jobs[held[w]] EXCEPT !.approvalDecision = NoDecision] \in JobRow
      BY <2>1, DecisionType DEF NoDecision
    <3> QED BY <1>6, <2>1, <3>1, ConsumedType, JobUpdate DEF ConsumeApproval, Deliverable
  <2>3. WorkersOK'
    <3>1. CASE Denied(w)
      BY <1>6, <3>1, DeniedTypes DEF ConsumeApproval, Working
    <3>2. CASE UNCHANGED <<pc, asking, granted>>
      BY <1>6, <3>2 DEF ConsumeApproval, WorkersOK
    <3>3. CASE /\ pc' = [pc EXCEPT ![w] = "approved"]
               /\ granted' = [granted EXCEPT ![w] = @ \union {asking[w]}]
               /\ asking' = [asking EXCEPT ![w] = None]
      BY <1>6, <2>1, <3>3, JobAssumption DEF ConsumeApproval, WorkersOK, Working
    <3> QED BY <1>6, <3>1, <3>2, <3>3 DEF ConsumeApproval
  <2> QED BY <1>6, <2>2, <2>3 DEF ConsumeApproval, personVars
<1>7. CASE ApprovalTimesOut(w)
  BY <1>7, DeniedTypes DEF ApprovalTimesOut, Working, personVars
<1>8. ASSUME NEW outcome \in {"completed", "failed"}, Finish(w, outcome) PROVE TypeOK'
  <2>1. held[w] \in Job
    BY <1>8, <1>h DEF Finish, Working
  <2>2. jobs' \in [Job -> JobRow]
    BY <1>8, <2>1, FinishedType, JobUpdate DEF Finish
  <2>3. WorkersOK'
    BY <1>8, TurnEnds DEF Finish
  <2> QED BY <1>8, <2>2, <2>3 DEF Finish, personVars
<1>9. CASE CheckForMore(w)
  BY <1>9, <1>i, IdleMove, RecoveredType DEF CheckForMore, personVars
<1>10. CASE Crash(w)
  BY <1>10, TurnEnds DEF Crash, personVars
<1> QED BY <1>1, <1>2, <1>3, <1>4, <1>5, <1>6, <1>7, <1>8, <1>9, <1>10 DEF Worker

LEMMA NextTypes == ASSUME TypeOK, [Next]_vars PROVE TypeOK'
<1>1. CASE UNCHANGED vars
  BY <1>1 DEF TypeOK, WorkersOK, vars, workerVars, turnVars, personVars
<1>2. CASE Next
  BY <1>2, PeopleTypes, TimeTypes, WorkerTypes DEF Next
<1> QED BY <1>1, <1>2

(* Every variable keeps its type, and every worker stands where its locals *)
(* say, whatever crashes, lapses and is cancelled.                         *)
THEOREM TypeCorrect == Spec => []TypeOK
BY InitTypes, NextTypes, PTL DEF Spec

-----------------------------------------------------------------------------
(* What any step does to a record, unless it is the answer of a person:    *)
(* spent approvals stay spent, a decision stays with its question or goes, *)
(* attempts stay within their bound, and what has ended has ended.         *)
RecordKept(old, new) ==
  /\ old.executedApprovals \subseteq new.executedApprovals
  /\ \/ new.approvalDecision = NoDecision
     \/ /\ new.approvalDecision = old.approvalDecision
        /\ new.pendingApproval = old.pendingApproval
  /\ new.attempts <= old.attempts \/ new.attempts <= MaxAttempts
  /\ old.status \in TERMINAL => new.status = old.status

LEMMA SameRecord == ASSUME NEW row \in JobRow PROVE RecordKept(row, row)
BY DEF RecordKept, JobRow

LEMMA RestatedRecord ==
  ASSUME NEW row \in JobRow, NEW status \in JobStatus, row.status \notin TERMINAL
  PROVE  /\ RecordKept(row, [row EXCEPT !.status = status])
         /\ RecordKept(row, [Unleased(row) EXCEPT !.status = status])
         /\ RecordKept(row, [Unleased(Unasked(row)) EXCEPT !.status = status])
         /\ RecordKept(row, [Unleased(row) EXCEPT !.status = status, !.attempts = 0, !.due = FALSE])
BY JobAssumption DEF RecordKept, JobRow, Unleased, Unasked, NoDecision

LEMMA TimedRecord ==
  ASSUME NEW row \in JobRow
  PROVE  /\ RecordKept(row, [row EXCEPT !.leaseLive = FALSE])
         /\ RecordKept(row, [row EXCEPT !.due = TRUE])
         /\ RecordKept(row, [row EXCEPT !.approvalDecision = NoDecision])
BY DEF RecordKept, JobRow, NoDecision

LEMMA ClaimedRecord ==
  ASSUME NEW row \in JobRow, NEW w \in Job, row.status \notin TERMINAL,
         row.attempts + 1 <= MaxAttempts
  PROVE  RecordKept(row, Claimed(row, w))
BY DEF RecordKept, JobRow, Claimed, Unasked, NoDecision

LEMMA ParkedRecord ==
  ASSUME NEW row \in JobRow, NEW d \in Digest, row.status \notin TERMINAL
  PROVE  RecordKept(row, Parked(row, d))
BY DEF RecordKept, JobRow, Parked, Unasked, NoDecision

LEMMA ConsumedRecord ==
  ASSUME NEW row \in JobRow, row.status \notin TERMINAL,
         NEW spent \in SUBSET Digest, row.executedApprovals \subseteq spent
  PROVE  RecordKept(row, [Unasked(row) EXCEPT !.status = "running", !.executedApprovals = spent])
BY DEF RecordKept, JobRow, Unasked, NoDecision

LEMMA RecoveredRecord ==
  ASSUME jobs \in [Job -> JobRow], NEW j \in Job
  PROVE  RecordKept(jobs[j], Recovered[j])
<1>1. CASE Stale(j)
  <2>1. jobs[j].status \notin TERMINAL
    BY <1>1 DEF Stale, Leased, TERMINAL
  <2> QED BY <1>1, <2>1, RestatedRecord DEF Recovered, JobStatus
<1>2. CASE ~Stale(j)
  BY <1>2, SameRecord DEF Recovered
<1> QED BY <1>1, <1>2

(* One record changes and keeps what it should, so every record does. *)
LEMMA OneRecord ==
  ASSUME jobs \in [Job -> JobRow], NEW k \in Job, NEW row, RecordKept(jobs[k], row),
         jobs' = [jobs EXCEPT ![k] = row], NEW j \in Job
  PROVE  RecordKept(jobs[j], jobs'[j])
BY SameRecord

LEMMA RecordsKept ==
  ASSUME TypeOK, [Next]_vars, NEW j \in Job
  PROVE  \/ RecordKept(jobs[j], jobs'[j])
         \/ \E decision \in Decision : ResolveApproval(j, decision) /\ Answers(j)
<1> DEFINE Goal == \/ RecordKept(jobs[j], jobs'[j])
                   \/ \E decision \in Decision : ResolveApproval(j, decision) /\ Answers(j)
<1> SUFFICES Goal
  OBVIOUS
<1>t. jobs \in [Job -> JobRow] /\ \A w \in Job : pc[w] \in Working => held[w] \in Job
  BY DEF TypeOK, WorkersOK
<1>o. ASSUME NEW k \in Job, NEW w \in Job, OwnedBy(k, w) PROVE jobs[k].status \notin TERMINAL
  BY <1>o DEF OwnedBy, Leased, TERMINAL
<1>c. ASSUME NEW k \in Job, Claimable(k) PROVE jobs[k].status \notin TERMINAL
  BY <1>c DEF Claimable, Stale, Leased, TERMINAL
<1>s. ASSUME UNCHANGED jobs PROVE Goal
  BY <1>s, <1>t, SameRecord
<1>r. ASSUME jobs' = Recovered PROVE Goal
  BY <1>r, <1>t, RecoveredRecord
<1>1. CASE ListJobs
  BY <1>1, <1>r DEF ListJobs
<1>2. ASSUME NEW k \in Job, Enqueue(k) PROVE Goal
  <2>1. RecordKept(jobs[k], [jobs[k] EXCEPT !.status = "queued"])
    BY <1>2, <1>t, RestatedRecord DEF Enqueue, TERMINAL, JobStatus
  <2> QED BY <1>2, <2>1, <1>t, OneRecord DEF Enqueue
<1>3. ASSUME NEW k \in Job, Spawn(k) PROVE Goal
  BY <1>3, <1>s DEF Spawn
<1>4. ASSUME NEW k \in Job, ReadRequest(k) PROVE Goal
  BY <1>4, <1>r DEF ReadRequest
<1>5. ASSUME NEW k \in Job, Cancel(k) PROVE Goal
  <2>1. RecordKept(jobs[k], [Unleased(jobs[k]) EXCEPT !.status = "cancelled"])
    BY <1>5, <1>t, RestatedRecord DEF Cancel, JobStatus
  <2> QED BY <1>5, <2>1, <1>t, OneRecord DEF Cancel
<1>6. ASSUME NEW k \in Job, NEW decision \in Decision, ResolveApproval(k, decision) PROVE Goal
  <2>1. CASE ~Answers(k)
    BY <1>6, <2>1, <1>s DEF ResolveApproval
  <2>2. CASE Answers(k) /\ k = j
    BY <1>6, <2>2
  <2>3. CASE Answers(k) /\ k # j
    <3>1. jobs'[j] = jobs[j]
      BY <1>6, <2>3, <1>t DEF ResolveApproval
    <3> QED BY <3>1, <1>t, SameRecord
  <2> QED BY <2>1, <2>2, <2>3
<1>7. ASSUME NEW k \in Job, LeaseLapses(k) PROVE Goal
  BY <1>7, <1>t, TimedRecord, OneRecord DEF LeaseLapses
<1>8. ASSUME NEW k \in Job, FallsDue(k) PROVE Goal
  BY <1>8, <1>t, TimedRecord, OneRecord DEF FallsDue
<1>9. ASSUME NEW w \in Job, Worker(w) PROVE Goal
  <2>1. CASE ClaimNothing(w)
    BY <2>1, <1>s DEF ClaimNothing
  <2>2. ASSUME NEW k \in Job, RetireExhausted(w, k) PROVE Goal
    <3>1. RecordKept(jobs[k], [Unleased(jobs[k]) EXCEPT !.status = "failed"])
      BY <2>2, <1>c, <1>t, RestatedRecord DEF RetireExhausted, IsOldest, JobStatus
    <3> QED BY <2>2, <3>1, <1>t, OneRecord DEF RetireExhausted
  <2>3. ASSUME NEW k \in Job, Claim(w, k) PROVE Goal
    <3>1. jobs[k].attempts \in Nat /\ jobs[k].attempts + 1 <= MaxAttempts
      BY <2>3, <1>t, JobAssumption DEF Claim, Exhausted, JobRow
    <3>2. RecordKept(jobs[k], Claimed(jobs[k], w))
      BY <2>3, <3>1, <1>c, <1>t, ClaimedRecord DEF Claim, IsOldest
    <3> QED BY <2>3, <3>2, <1>t, OneRecord DEF Claim
  <2>4. ASSUME NEW d \in Digest, RequestApproval(w, d) PROVE Goal
    <3>1. held[w] \in Job
      BY <2>4, <1>t DEF RequestApproval, Working
    <3>2. CASE UNCHANGED jobs
      BY <3>2, <1>s
    <3>3. CASE OwnedBy(held[w], w) /\ jobs' = [jobs EXCEPT ![held[w]] = Parked(@, d)]
      BY <3>1, <3>3, <1>o, <1>t, ParkedRecord, OneRecord
    <3> QED BY <2>4, <3>2, <3>3 DEF RequestApproval
  <2>5. ASSUME NEW d \in Digest, Perform(w, d) PROVE Goal
    BY <2>5, <1>s DEF Perform
  <2>6. CASE ConsumeApproval(w)
    <3>1. held[w] \in Job
      BY <2>6, <1>t DEF ConsumeApproval, Working
    <3>2. CASE Unusable(held[w])
      BY <2>6, <3>1, <3>2, <1>t, TimedRecord, OneRecord DEF ConsumeApproval
    <3>3. CASE ~Unusable(held[w])
      <4> DEFINE spent == Spent(held[w], jobs[held[w]].approvalDecision)
      <4>1. jobs[held[w]].approvalDecision.actionDigest \in Digest
        BY <2>6, <3>1, <3>3, <1>t, ConsumedType DEF ConsumeApproval, Deliverable
      <4>2. spent \in SUBSET Digest /\ jobs[held[w]].executedApprovals \subseteq spent
        BY <3>1, <4>1, <1>t DEF Spent, JobRow
      <4>3. jobs[held[w]].status \notin TERMINAL
        BY <2>6, <3>1, <1>o DEF ConsumeApproval, Deliverable
      <4>4. RecordKept(jobs[held[w]], [Unasked(jobs[held[w]]) EXCEPT !.status = "running",
                                         !.executedApprovals = spent])
        BY <3>1, <4>2, <4>3, <1>t, ConsumedRecord
      <4> QED BY <2>6, <3>1, <3>3, <4>4, <1>t, OneRecord DEF ConsumeApproval
    <3> QED BY <3>2, <3>3
  <2>7. CASE ApprovalTimesOut(w)
    BY <2>7, <1>s DEF ApprovalTimesOut
  <2>8. ASSUME NEW outcome \in {"completed", "failed"}, Finish(w, outcome) PROVE Goal
    <3>1. held[w] \in Job
      BY <2>8, <1>t DEF Finish, Working
    <3>2. CASE OwnedBy(held[w], w)
      <4>1. RecordKept(jobs[held[w]], Finished(held[w], outcome))
        BY <3>1, <3>2, <1>o, <1>t, RestatedRecord DEF Finished, JobStatus
      <4> QED BY <2>8, <3>1, <3>2, <4>1, <1>t, OneRecord DEF Finish
    <3>3. CASE ~OwnedBy(held[w], w)
      BY <2>8, <3>3, <1>s DEF Finish
    <3> QED BY <3>2, <3>3
  <2>9. CASE CheckForMore(w)
    BY <2>9, <1>r DEF CheckForMore
  <2>10. CASE Crash(w)
    BY <2>10, <1>s DEF Crash
  <2> QED BY <1>9, <2>1, <2>2, <2>3, <2>4, <2>5, <2>6, <2>7, <2>8, <2>9, <2>10 DEF Worker
<1>10. CASE UNCHANGED vars
  BY <1>10, <1>s DEF vars
<1> QED BY <1>1, <1>2, <1>3, <1>4, <1>5, <1>6, <1>7, <1>8, <1>9, <1>10 DEF Next, People, Time

(* A person's answer changes nothing but the decision.                     *)
LEMMA AnsweredRecord ==
  ASSUME TypeOK, NEW j \in Job, NEW decision \in Decision, ResolveApproval(j, decision), Answers(j)
  PROVE  /\ jobs'[j].executedApprovals = jobs[j].executedApprovals
         /\ jobs'[j].attempts = jobs[j].attempts
         /\ jobs'[j].status = jobs[j].status
         /\ jobs'[j].pendingApproval = jobs[j].pendingApproval
         /\ jobs'[j].approvalDecision.decision = decision
         /\ jobs'[j].approvalDecision.actionDigest = jobs[j].pendingApproval
<1>1. jobs'[j] = [jobs[j] EXCEPT !.approvalDecision =
                    [decision |-> decision, actionDigest |-> jobs[j].pendingApproval]]
  BY DEF ResolveApproval, TypeOK
<1> QED BY <1>1 DEF TypeOK, JobRow

-----------------------------------------------------------------------------
(* Jobs.                                                                   *)

(* What is completed, failed or cancelled stays so: no operation of the    *)
(* store takes a job out of a terminal state.                              *)
THEOREM TerminalTheorem == Spec => TerminalNeverMoves
<1>1. ASSUME TypeOK, [Next]_vars, NEW j \in Job, jobs[j].status \in TERMINAL
      PROVE  jobs'[j].status = jobs[j].status
  BY <1>1, RecordsKept, AnsweredRecord DEF RecordKept
<1>2. TypeOK /\ [Next]_vars =>
        [\A j \in Job : jobs[j].status \in TERMINAL => jobs'[j].status = jobs[j].status]_vars
  BY <1>1
<1> QED BY <1>2, TypeCorrect, PTL DEF Spec, TerminalNeverMoves

(* A job that keeps killing its workers is given up in time.               *)
THEOREM AttemptsTheorem == Spec => []AttemptsBounded
<1>1. Init => AttemptsBounded
  BY JobAssumption DEF Init, AttemptsBounded, NewJob
<1>2. ASSUME TypeOK, AttemptsBounded, [Next]_vars PROVE AttemptsBounded'
  <2>1. ASSUME NEW j \in Job PROVE jobs'[j].attempts <= MaxAttempts
    <3>1. jobs[j].attempts \in Nat /\ jobs[j].attempts <= MaxAttempts /\ jobs'[j].attempts \in Nat
      BY <1>2, NextTypes DEF TypeOK, JobRow, AttemptsBounded
    <3>2. CASE RecordKept(jobs[j], jobs'[j])
      BY <3>1, <3>2, JobAssumption DEF RecordKept
    <3>3. ASSUME NEW decision \in Decision, ResolveApproval(j, decision), Answers(j)
          PROVE  jobs'[j].attempts <= MaxAttempts
      BY <1>2, <3>1, <3>3, AnsweredRecord
    <3> QED BY <1>2, <3>2, <3>3, RecordsKept
  <2> QED BY <2>1 DEF AttemptsBounded
<1> QED BY <1>1, <1>2, TypeCorrect, PTL DEF Spec

(* Records stay well formed and no job is attempted more often than it may *)
(* be, whoever counts the attempts.                                        *)
THEOREM RecordsTheorem == Spec => []RecordsOK
BY TypeCorrect, AttemptsTheorem, PTL DEF RecordsOK

(* A delivered decision answers the request that is parked.                *)
THEOREM DecisionTheorem == Spec => []DecisionsAnswerTheRequest
<1>1. Init => DecisionsAnswerTheRequest
  BY DEF Init, DecisionsAnswerTheRequest, NewJob
<1>2. ASSUME TypeOK, DecisionsAnswerTheRequest, [Next]_vars PROVE DecisionsAnswerTheRequest'
  <2>1. ASSUME NEW j \in Job, jobs'[j].approvalDecision # NoDecision
        PROVE  jobs'[j].pendingApproval = jobs'[j].approvalDecision.actionDigest
    <3>1. CASE RecordKept(jobs[j], jobs'[j])
      BY <1>2, <2>1, <3>1 DEF RecordKept, DecisionsAnswerTheRequest
    <3>2. ASSUME NEW decision \in Decision, ResolveApproval(j, decision), Answers(j)
          PROVE  jobs'[j].pendingApproval = jobs'[j].approvalDecision.actionDigest
      BY <1>2, <3>2, AnsweredRecord
    <3> QED BY <1>2, <3>1, <3>2, RecordsKept
  <2> QED BY <2>1 DEF DecisionsAnswerTheRequest
<1> QED BY <1>1, <1>2, TypeCorrect, PTL DEF Spec

-----------------------------------------------------------------------------
(* Leases.                                                                 *)

LEMMA LeaseFields ==
  ASSUME NEW row \in JobRow
  PROVE  /\ \A d \in Digest : Parked(row, d).worker = row.worker
         /\ \A status, spent : [Unasked(row) EXCEPT !.status = status,
                                  !.executedApprovals = spent].worker = row.worker
         /\ [row EXCEPT !.leaseLive = FALSE].worker = row.worker
         /\ [row EXCEPT !.due = TRUE].worker = row.worker
         /\ \A status : [row EXCEPT !.status = status].worker = row.worker
         /\ \A answer : [row EXCEPT !.approvalDecision = answer].worker = row.worker
         /\ [Unleased(row) EXCEPT !.status = "cancelled"].status = "cancelled"
BY DEF JobRow, Parked, Unasked, Unleased

LEMMA LeaseKept ==
  ASSUME TypeOK, [Next]_vars, NEW j \in Job, NEW w \in Job, OwnedBy(j, w)
  PROVE  jobs'[j].worker = w \/ jobs'[j].status = "cancelled" \/ pc'[w] = "checking"
<1> DEFINE Goal == jobs'[j].worker = w \/ jobs'[j].status = "cancelled" \/ pc'[w] = "checking"
<1> SUFFICES Goal
  OBVIOUS
<1>t. /\ jobs \in [Job -> JobRow] /\ jobs[j].worker = w
      /\ \A v \in Job : pc[v] \in Working => held[v] \in Job
  BY DEF TypeOK, WorkersOK, OwnedBy
<1>c. ~Claimable(j) /\ ~Stale(j) /\ jobs[j].status # "absent"
  BY DEF Claimable, Stale, OwnedBy, Leased
<1>s. ASSUME UNCHANGED jobs PROVE Goal
  BY <1>s, <1>t
<1>r. ASSUME jobs' = Recovered PROVE Goal
  BY <1>r, <1>t, <1>c DEF Recovered
<1>u. ASSUME NEW k \in Job, NEW row, jobs' = [jobs EXCEPT ![k] = row],
             k # j \/ row.worker = jobs[k].worker
      PROVE  Goal
  BY <1>u, <1>t
<1>1. CASE ListJobs
  BY <1>1, <1>r DEF ListJobs
<1>2. ASSUME NEW k \in Job, Enqueue(k) PROVE Goal
  <2>1. k # j
    BY <1>2, <1>c DEF Enqueue
  <2> QED BY <1>2, <2>1, <1>u DEF Enqueue
<1>3. ASSUME NEW k \in Job, Spawn(k) PROVE Goal
  BY <1>3, <1>s DEF Spawn
<1>4. ASSUME NEW k \in Job, ReadRequest(k) PROVE Goal
  BY <1>4, <1>r DEF ReadRequest
<1>5. ASSUME NEW k \in Job, Cancel(k) PROVE Goal
  <2>1. CASE k = j
    BY <1>5, <2>1, <1>t, LeaseFields DEF Cancel
  <2>2. CASE k # j
    BY <1>5, <2>2, <1>u DEF Cancel
  <2> QED BY <2>1, <2>2
<1>6. ASSUME NEW k \in Job, NEW decision \in Decision, ResolveApproval(k, decision) PROVE Goal
  <2>1. CASE UNCHANGED jobs
    BY <2>1, <1>s
  <2>2. CASE jobs' = [jobs EXCEPT ![k].approvalDecision =
                        [decision |-> decision, actionDigest |-> jobs[k].pendingApproval]]
    BY <2>2, <1>t, <1>u, LeaseFields
  <2> QED BY <1>6, <2>1, <2>2 DEF ResolveApproval
<1>7. ASSUME NEW k \in Job, LeaseLapses(k) PROVE Goal
  BY <1>7, <1>t, <1>u, LeaseFields DEF LeaseLapses
<1>8. ASSUME NEW k \in Job, FallsDue(k) PROVE Goal
  BY <1>8, <1>t, <1>u, LeaseFields DEF FallsDue
<1>9. ASSUME NEW v \in Job, Worker(v) PROVE Goal
  <2>1. CASE ClaimNothing(v)
    BY <2>1, <1>s DEF ClaimNothing
  <2>2. ASSUME NEW k \in Job, RetireExhausted(v, k) PROVE Goal
    <3>1. k # j
      BY <2>2, <1>c DEF RetireExhausted, IsOldest
    <3> QED BY <2>2, <3>1, <1>u DEF RetireExhausted
  <2>3. ASSUME NEW k \in Job, Claim(v, k) PROVE Goal
    <3>1. k # j
      BY <2>3, <1>c DEF Claim, IsOldest
    <3> QED BY <2>3, <3>1, <1>u DEF Claim
  <2>4. ASSUME NEW d \in Digest, RequestApproval(v, d) PROVE Goal
    <3>1. held[v] \in Job
      BY <2>4, <1>t DEF RequestApproval, Working
    <3>2. CASE UNCHANGED jobs
      BY <3>2, <1>s
    <3>3. CASE jobs' = [jobs EXCEPT ![held[v]] = Parked(@, d)]
      BY <3>1, <3>3, <1>t, <1>u, LeaseFields
    <3> QED BY <2>4, <3>2, <3>3 DEF RequestApproval
  <2>5. ASSUME NEW d \in Digest, Perform(v, d) PROVE Goal
    BY <2>5, <1>s DEF Perform
  <2>6. CASE ConsumeApproval(v)
    <3>1. held[v] \in Job
      BY <2>6, <1>t DEF ConsumeApproval, Working
    <3>2. CASE Unusable(held[v])
      <4> DEFINE row == [jobs[held[v]] EXCEPT !.approvalDecision = NoDecision]
      <4>1. row.worker = jobs[held[v]].worker
        BY <3>1, <1>t, LeaseFields
      <4>2. jobs' = [jobs EXCEPT ![held[v]] = row]
        BY <2>6, <3>2 DEF ConsumeApproval
      <4> HIDE DEF row
      <4> QED BY <3>1, <4>1, <4>2, <1>u
    <3>3. CASE ~Unusable(held[v])
      <4> DEFINE spent == Spent(held[v], jobs[held[v]].approvalDecision)
      <4>1. [Unasked(jobs[held[v]]) EXCEPT !.status = "running", !.executedApprovals = spent].worker
              = jobs[held[v]].worker
        BY <3>1, <1>t, LeaseFields
      <4> QED BY <2>6, <3>1, <3>3, <4>1, <1>u DEF ConsumeApproval
    <3> QED BY <3>2, <3>3
  <2>7. CASE ApprovalTimesOut(v)
    BY <2>7, <1>s DEF ApprovalTimesOut
  <2>8. ASSUME NEW outcome \in {"completed", "failed"}, Finish(v, outcome) PROVE Goal
    <3>1. held[v] \in Job /\ pc'[v] = "checking"
      BY <2>8, <1>t DEF Finish, Working, TypeOK, WorkersOK
    <3>2. CASE ~OwnedBy(held[v], v)
      BY <2>8, <3>2, <1>s DEF Finish
    <3>3. CASE OwnedBy(held[v], v) /\ held[v] = j
      BY <3>1, <3>3, <1>t DEF OwnedBy
    <3>4. CASE OwnedBy(held[v], v) /\ held[v] # j
      BY <2>8, <3>1, <3>4, <1>u DEF Finish
    <3> QED BY <3>2, <3>3, <3>4
  <2>9. CASE CheckForMore(v)
    BY <2>9, <1>r DEF CheckForMore
  <2>10. CASE Crash(v)
    BY <2>10, <1>s DEF Crash
  <2> QED BY <1>9, <2>1, <2>2, <2>3, <2>4, <2>5, <2>6, <2>7, <2>8, <2>9, <2>10 DEF Worker
<1>10. CASE UNCHANGED vars
  BY <1>10, <1>s DEF vars
<1> QED BY <1>1, <1>2, <1>3, <1>4, <1>5, <1>6, <1>7, <1>8, <1>9, <1>10 DEF Next, People, Time

(* A worker whose lease is live keeps its job until it reports, or somebody *)
(* cancels it: neither claims nor recoveries take it away.                 *)
THEOREM LeaseTheorem == Spec => LiveLeaseIsKept
<1>1. TypeOK /\ [Next]_vars =>
        [\A j, w \in Job : OwnedBy(j, w) /\ jobs'[j].worker # w =>
           jobs'[j].status = "cancelled" \/ pc'[w] = "checking"]_vars
  BY LeaseKept
<1> QED BY <1>1, TypeCorrect, PTL DEF Spec, LiveLeaseIsKept

(* Nobody takes over what another worker holds or undoes what is settled.  *)
THEOREM StandTheorem == Spec => LeasesAndOutcomesStand
BY LeaseTheorem, TerminalTheorem, PTL DEF LeasesAndOutcomesStand

-----------------------------------------------------------------------------
(* Approved actions.                                                       *)

(* A granted action is spent in its job's record, has not been executed    *)
(* yet, and is granted to one worker; an executed one is spent.            *)
GrantsSpent ==
  /\ \A w \in Job : \A d \in granted[w] :
       d \in jobs[held[w]].executedApprovals /\ performed[held[w]][d] = 0
  /\ \A w, v \in Job : w # v /\ held[w] = held[v] => granted[w] \cap granted[v] = {}
  /\ \A j \in Job, d \in Digest : performed[j][d] > 0 => d \in jobs[j].executedApprovals

GrantInv == GrantsSpent /\ AtMostOncePerAction

LEMMA SpentStaysSpent ==
  ASSUME TypeOK, [Next]_vars, NEW j \in Job
  PROVE  jobs[j].executedApprovals \subseteq jobs'[j].executedApprovals
<1>1. CASE RecordKept(jobs[j], jobs'[j])
  BY <1>1 DEF RecordKept
<1>2. ASSUME NEW decision \in Decision, ResolveApproval(j, decision), Answers(j)
      PROVE  jobs'[j].executedApprovals = jobs[j].executedApprovals
  BY <1>2, AnsweredRecord
<1> QED BY <1>1, <1>2, RecordsKept

(* A holder of grants holds a job. *)
LEMMA GrantsHeld ==
  ASSUME TypeOK, NEW w \in Job, granted[w] # {}
  PROVE  held[w] \in Job /\ granted[w] \subseteq Digest
BY DEF TypeOK, WorkersOK

(* Nothing granted, nothing executed, and spent approvals stay spent. *)
LEMMA QuietGrants ==
  ASSUME TypeOK, GrantInv, [Next]_vars, UNCHANGED <<held, granted, performed>>
  PROVE  GrantInv'
<1>1. \A w \in Job : \A d \in granted[w] :
        d \in jobs'[held[w]].executedApprovals /\ performed[held[w]][d] = 0
  BY SpentStaysSpent, GrantsHeld DEF GrantInv, GrantsSpent
<1>2. \A j \in Job, d \in Digest : performed[j][d] > 0 => d \in jobs'[j].executedApprovals
  BY SpentStaysSpent DEF GrantInv, GrantsSpent
<1> QED BY <1>1, <1>2 DEF GrantInv, GrantsSpent, AtMostOncePerAction

(* A worker without grants may take a job or give one up. *)
LEMMA EmptyHands ==
  ASSUME TypeOK, GrantInv, [Next]_vars, NEW w \in Job, UNCHANGED performed,
         granted' = [granted EXCEPT ![w] = {}],
         \A v \in Job : v # w => held'[v] = held[v]
  PROVE  GrantInv'
<1>g. granted' \in [Job -> SUBSET Digest] /\ granted'[w] = {}
      /\ \A v \in Job : v # w => granted'[v] = granted[v]
  BY DEF TypeOK, WorkersOK
<1>1. \A v \in Job : \A d \in granted'[v] :
        d \in jobs'[held'[v]].executedApprovals /\ performed[held'[v]][d] = 0
  BY <1>g, SpentStaysSpent, GrantsHeld DEF GrantInv, GrantsSpent
<1>2. \A u, v \in Job : u # v /\ held'[u] = held'[v] => granted'[u] \cap granted'[v] = {}
  BY <1>g DEF GrantInv, GrantsSpent
<1>3. \A j \in Job, d \in Digest : performed[j][d] > 0 => d \in jobs'[j].executedApprovals
  BY SpentStaysSpent DEF GrantInv, GrantsSpent
<1> QED BY <1>1, <1>2, <1>3 DEF GrantInv, GrantsSpent, AtMostOncePerAction

LEMMA PerformGrants ==
  ASSUME TypeOK, GrantInv, NEW w \in Job, NEW d \in Digest, Perform(w, d)
  PROVE  GrantInv'
<1>t. /\ held[w] \in Job /\ UNCHANGED <<jobs, held>>
      /\ performed \in [Job -> [Digest -> Nat]]
      /\ granted \in [Job -> SUBSET Digest]
      /\ d \in granted[w]
  BY GrantsHeld DEF Perform, TypeOK, WorkersOK
<1>g. /\ granted'[w] = granted[w] \ {d}
      /\ \A v \in Job : v # w => granted'[v] = granted[v]
  BY <1>t DEF Perform
<1>p. /\ performed'[held[w]][d] = performed[held[w]][d] + 1
      /\ \A j \in Job, e \in Digest : j # held[w] \/ e # d => performed'[j][e] = performed[j][e]
  BY <1>t DEF Perform
<1>1. performed[held[w]][d] = 0 /\ d \in jobs[held[w]].executedApprovals
  BY <1>t DEF GrantInv, GrantsSpent
<1>2. ASSUME NEW v \in Job, NEW e \in granted'[v]
      PROVE  e \in jobs[held[v]].executedApprovals /\ performed'[held[v]][e] = 0
  <2>1. e \in granted[v] /\ e \in Digest /\ held[v] \in Job
    BY <1>2, <1>g, <1>t, GrantsHeld
  <2>2. held[v] # held[w] \/ e # d
    BY <1>2, <2>1, <1>g, <1>t DEF GrantInv, GrantsSpent
  <2> QED BY <2>1, <2>2, <1>p DEF GrantInv, GrantsSpent
<1>3. \A u, v \in Job : u # v /\ held[u] = held[v] => granted'[u] \cap granted'[v] = {}
  BY <1>g DEF GrantInv, GrantsSpent
<1>4. \A j \in Job, e \in Digest : performed'[j][e] > 0 => e \in jobs[j].executedApprovals
  BY <1>1, <1>p DEF GrantInv, GrantsSpent
<1>5. \A j \in Job, e \in Digest : performed'[j][e] <= 1
  BY <1>1, <1>p, <1>t DEF GrantInv, AtMostOncePerAction
<1> QED BY <1>2, <1>3, <1>4, <1>5, <1>t DEF GrantInv, GrantsSpent, AtMostOncePerAction

(* A decision is spent where it is granted, so it was nobody's before. *)
LEMMA ApprovedGrants ==
  ASSUME TypeOK, GrantInv, [Next]_vars, NEW w \in Job, ConsumeApproval(w), ~Unusable(held[w]),
         jobs[held[w]].approvalDecision.decision = "allow",
         jobs[held[w]].approvalDecision.actionDigest = asking[w],
         granted' = [granted EXCEPT ![w] = @ \union {asking[w]}]
  PROVE  GrantInv'
<1>t. /\ held[w] \in Job /\ asking[w] \in Digest /\ UNCHANGED <<held, performed>>
      /\ granted \in [Job -> SUBSET Digest] /\ jobs[held[w]] \in JobRow
      /\ performed \in [Job -> [Digest -> Nat]]
  BY DEF ConsumeApproval, TypeOK, WorkersOK, Working
<1>1. asking[w] \notin jobs[held[w]].executedApprovals
  BY DEF Unusable
<1>2. asking[w] \in jobs'[held[w]].executedApprovals
  <2>1. asking[w] \in Spent(held[w], jobs[held[w]].approvalDecision)
    BY DEF Spent
  <2>2. \A spent : [Unasked(jobs[held[w]]) EXCEPT !.status = "running",
                                                 !.executedApprovals = spent].executedApprovals = spent
    BY <1>t DEF Unasked, JobRow
  <2>3. jobs'[held[w]].executedApprovals = Spent(held[w], jobs[held[w]].approvalDecision)
    BY <1>t, <2>2 DEF ConsumeApproval, TypeOK
  <2> QED BY <2>1, <2>3
<1>3. performed[held[w]][asking[w]] = 0
  BY <1>1, <1>t DEF GrantInv, GrantsSpent
<1>4. \A v \in Job : held[v] = held[w] => asking[w] \notin granted[v]
  BY <1>1 DEF GrantInv, GrantsSpent
<1>g. /\ granted'[w] = granted[w] \union {asking[w]}
      /\ \A v \in Job : v # w => granted'[v] = granted[v]
  BY <1>t
<1>5. ASSUME NEW v \in Job, NEW e \in granted'[v]
      PROVE  e \in jobs'[held[v]].executedApprovals /\ performed[held[v]][e] = 0
  <2>1. CASE e \in granted[v]
    BY <2>1, SpentStaysSpent, GrantsHeld DEF GrantInv, GrantsSpent
  <2>2. CASE v = w /\ e = asking[w]
    BY <2>2, <1>2, <1>3
  <2> QED BY <1>5, <2>1, <2>2, <1>g
<1>6. \A u, v \in Job : u # v /\ held[u] = held[v] => granted'[u] \cap granted'[v] = {}
  BY <1>4, <1>g DEF GrantInv, GrantsSpent
<1>7. \A j \in Job, e \in Digest : performed[j][e] > 0 => e \in jobs'[j].executedApprovals
  BY SpentStaysSpent DEF GrantInv, GrantsSpent
<1> QED BY <1>5, <1>6, <1>7, <1>t DEF GrantInv, GrantsSpent, AtMostOncePerAction

LEMMA GrantInductive == ASSUME TypeOK, GrantInv, [Next]_vars PROVE GrantInv'
<1>t. granted \in [Job -> SUBSET Digest] /\ held \in [Job -> Job \union {None}]
  BY DEF TypeOK, WorkersOK
<1>d. ASSUME NEW w \in Job, Denied(w), UNCHANGED <<held, performed>> PROVE GrantInv'
  BY <1>d, EmptyHands DEF Denied
<1>1. CASE UNCHANGED vars
  BY <1>1, QuietGrants DEF vars, workerVars, turnVars
<1>2. CASE People \/ Time
  BY <1>2, QuietGrants DEF People, Time, ListJobs, Enqueue, Spawn, ReadRequest, Cancel, ResolveApproval,
       LeaseLapses, FallsDue, workerVars, turnVars
<1>3. ASSUME NEW w \in Job, Worker(w) PROVE GrantInv'
  <2>1. CASE ClaimNothing(w) \/ CheckForMore(w) \/ \E j \in Job : RetireExhausted(w, j)
    BY <2>1, QuietGrants DEF ClaimNothing, CheckForMore, RetireExhausted, turnVars
  <2>2. ASSUME NEW j \in Job, Claim(w, j) PROVE GrantInv'
    <3>1. granted[w] = {}
      BY <2>2 DEF Claim, TypeOK, WorkersOK, Working
    <3>2. granted' = [granted EXCEPT ![w] = {}]
      BY <2>2, <3>1, <1>t DEF Claim
    <3> QED BY <2>2, <3>2, <1>t, EmptyHands DEF Claim
  <2>3. ASSUME NEW d \in Digest, RequestApproval(w, d) PROVE GrantInv'
    BY <2>3, <1>d, QuietGrants DEF RequestApproval
  <2>4. ASSUME NEW d \in Digest, Perform(w, d) PROVE GrantInv'
    BY <2>4, PerformGrants
  <2>5. CASE ConsumeApproval(w)
    BY <2>5, <1>d, QuietGrants, ApprovedGrants DEF ConsumeApproval
  <2>6. CASE ApprovalTimesOut(w)
    BY <2>6, <1>d DEF ApprovalTimesOut
  <2>7. ASSUME NEW outcome \in {"completed", "failed"}, Finish(w, outcome) PROVE GrantInv'
    BY <2>7, <1>t, EmptyHands DEF Finish
  <2>8. CASE Crash(w)
    BY <2>8, <1>t, EmptyHands DEF Crash
  <2> QED BY <1>3, <2>1, <2>2, <2>3, <2>4, <2>5, <2>6, <2>7, <2>8 DEF Worker
<1> QED BY <1>1, <1>2, <1>3 DEF Next

(* An action is executed at most once under people's decisions, however    *)
(* often its job is claimed, lost, recovered, or asked about again.        *)
THEOREM OnceTheorem == Spec => []AtMostOncePerAction
<1>1. Init => GrantInv
  BY DEF Init, GrantInv, GrantsSpent, AtMostOncePerAction
<1>2. TypeOK /\ GrantInv /\ [Next]_vars => GrantInv'
  BY GrantInductive
<1>3. GrantInv => AtMostOncePerAction
  BY DEF GrantInv
<1> QED BY <1>1, <1>2, <1>3, TypeCorrect, PTL DEF Spec

-----------------------------------------------------------------------------
(* Allowed actions.                                                        *)

(* Every "allow" that is delivered, granted or executed was given by a     *)
(* person who had read that action.                                        *)
Delivered(answer) == answer # NoDecision /\ answer.decision = "allow"

AllowedInv ==
  /\ \A j \in Job : Delivered(jobs[j].approvalDecision) =>
                       <<j, jobs[j].approvalDecision.actionDigest>> \in answered
  /\ \A w \in Job : \A d \in granted[w] : <<held[w], d>> \in answered
  /\ OnlyWhatWasAllowed

LEMMA AnswersStay == ASSUME [Next]_vars PROVE answered \subseteq answered'
BY DEF Next, People, Time, Worker, vars, personVars, ListJobs, Enqueue, Spawn, ReadRequest, Cancel,
     ResolveApproval, LeaseLapses, FallsDue, ClaimNothing, RetireExhausted, Claim, RequestApproval,
     Perform, ConsumeApproval, ApprovalTimesOut, Finish, CheckForMore, Crash

(* What is delivered after a step was delivered before it, or allowed in it. *)
LEMMA DeliveredAllowed ==
  ASSUME TypeOK, AllowedInv, [Next]_vars, NEW j \in Job, Delivered(jobs'[j].approvalDecision)
  PROVE  <<j, jobs'[j].approvalDecision.actionDigest>> \in answered'
<1>1. CASE RecordKept(jobs[j], jobs'[j])
  <2>1. jobs'[j].approvalDecision = jobs[j].approvalDecision
    BY <1>1 DEF RecordKept, Delivered
  <2> QED BY <2>1, AnswersStay DEF AllowedInv
<1>2. ASSUME NEW decision \in Decision, ResolveApproval(j, decision), Answers(j)
      PROVE  <<j, jobs'[j].approvalDecision.actionDigest>> \in answered'
  <2>1. decision = "allow" /\ jobs'[j].approvalDecision.actionDigest = shown[j]
    BY <1>2, AnsweredRecord DEF Delivered, Answers
  <2> QED BY <1>2, <2>1 DEF ResolveApproval
<1> QED BY <1>1, <1>2, RecordsKept

(* Nothing is granted and nothing executed. *)
LEMMA QuietAllowed ==
  ASSUME TypeOK, AllowedInv, [Next]_vars, UNCHANGED performed,
         \A w \in Job : granted'[w] = {} \/ (granted'[w] = granted[w] /\ held'[w] = held[w])
  PROVE  AllowedInv'
BY AnswersStay, DeliveredAllowed DEF AllowedInv, OnlyWhatWasAllowed

LEMMA PerformAllowed ==
  ASSUME TypeOK, AllowedInv, [Next]_vars, NEW w \in Job, NEW d \in Digest, Perform(w, d)
  PROVE  AllowedInv'
<1>t. /\ held[w] \in Job /\ UNCHANGED held
      /\ performed \in [Job -> [Digest -> Nat]]
      /\ granted \in [Job -> SUBSET Digest]
      /\ d \in granted[w]
  BY GrantsHeld DEF Perform, TypeOK, WorkersOK
<1>1. \A v \in Job : granted'[v] \subseteq granted[v]
  BY <1>t DEF Perform
<1>2. \A j \in Job, e \in Digest : j # held[w] \/ e # d => performed'[j][e] = performed[j][e]
  BY <1>t DEF Perform
<1>3. \A j \in Job, e \in Digest : performed'[j][e] > 0 => <<j, e>> \in answered'
  BY <1>t, <1>2, AnswersStay DEF AllowedInv, OnlyWhatWasAllowed
<1> QED BY <1>t, <1>1, <1>3, AnswersStay, DeliveredAllowed DEF AllowedInv, OnlyWhatWasAllowed

LEMMA ApprovedAllowed ==
  ASSUME TypeOK, AllowedInv, [Next]_vars, NEW w \in Job, ConsumeApproval(w),
         jobs[held[w]].approvalDecision.decision = "allow",
         jobs[held[w]].approvalDecision.actionDigest = asking[w],
         granted' = [granted EXCEPT ![w] = @ \union {asking[w]}]
  PROVE  AllowedInv'
<1>t. /\ held[w] \in Job /\ UNCHANGED <<held, performed>>
      /\ granted \in [Job -> SUBSET Digest]
  BY DEF ConsumeApproval, TypeOK, WorkersOK, Working
<1>1. <<held[w], asking[w]>> \in answered
  <2>1. Delivered(jobs[held[w]].approvalDecision)
    BY DEF ConsumeApproval, Deliverable, Delivered
  <2> QED BY <1>t, <2>1 DEF AllowedInv
<1>2. \A v \in Job : \A d \in granted'[v] : d \in granted[v] \/ (v = w /\ d = asking[w])
  BY <1>t
<1> QED BY <1>t, <1>1, <1>2, AnswersStay, DeliveredAllowed DEF AllowedInv, OnlyWhatWasAllowed

LEMMA AllowedInductive == ASSUME TypeOK, AllowedInv, [Next]_vars PROVE AllowedInv'
<1>t. granted \in [Job -> SUBSET Digest] /\ held \in [Job -> Job \union {None}]
  BY DEF TypeOK, WorkersOK
<1>s. ASSUME UNCHANGED <<held, granted, performed>> PROVE AllowedInv'
  BY <1>s, QuietAllowed
<1>d. ASSUME NEW w \in Job, Denied(w), UNCHANGED <<held, performed>> PROVE AllowedInv'
  BY <1>d, <1>t, QuietAllowed DEF Denied
<1>e. ASSUME NEW w \in Job, UNCHANGED performed, granted' = [granted EXCEPT ![w] = {}],
             \A v \in Job : v # w => held'[v] = held[v]
      PROVE  AllowedInv'
  BY <1>e, <1>t, QuietAllowed
<1>1. CASE UNCHANGED vars
  BY <1>1, <1>s DEF vars, workerVars, turnVars
<1>2. CASE People \/ Time
  BY <1>2, <1>s DEF People, Time, ListJobs, Enqueue, Spawn, ReadRequest, Cancel, ResolveApproval,
       LeaseLapses, FallsDue, workerVars, turnVars
<1>3. ASSUME NEW w \in Job, Worker(w) PROVE AllowedInv'
  <2>1. CASE ClaimNothing(w) \/ CheckForMore(w) \/ \E j \in Job : RetireExhausted(w, j)
    BY <2>1, <1>s DEF ClaimNothing, CheckForMore, RetireExhausted, turnVars
  <2>2. ASSUME NEW j \in Job, Claim(w, j) PROVE AllowedInv'
    <3>1. granted[w] = {}
      BY <2>2 DEF Claim, TypeOK, WorkersOK, Working
    <3>2. granted' = [granted EXCEPT ![w] = {}]
      BY <2>2, <3>1, <1>t DEF Claim
    <3> QED BY <2>2, <3>2, <1>t, <1>e DEF Claim
  <2>3. ASSUME NEW d \in Digest, RequestApproval(w, d) PROVE AllowedInv'
    BY <2>3, <1>d, <1>s DEF RequestApproval
  <2>4. ASSUME NEW d \in Digest, Perform(w, d) PROVE AllowedInv'
    BY <2>4, PerformAllowed
  <2>5. CASE ConsumeApproval(w)
    BY <2>5, <1>d, <1>s, ApprovedAllowed DEF ConsumeApproval
  <2>6. CASE ApprovalTimesOut(w)
    BY <2>6, <1>d DEF ApprovalTimesOut
  <2>7. ASSUME NEW outcome \in {"completed", "failed"}, Finish(w, outcome) PROVE AllowedInv'
    BY <2>7, <1>t, <1>e DEF Finish
  <2>8. CASE Crash(w)
    BY <2>8, <1>t, <1>e DEF Crash
  <2> QED BY <1>3, <2>1, <2>2, <2>3, <2>4, <2>5, <2>6, <2>7, <2>8 DEF Worker
<1> QED BY <1>1, <1>2, <1>3 DEF Next

(* Nothing is executed that a person did not allow after reading exactly   *)
(* that action, whatever took the place of the request in the meantime.    *)
THEOREM AllowedTheorem == Spec => []OnlyWhatWasAllowed
<1>1. Init => AllowedInv
  BY DEF Init, AllowedInv, OnlyWhatWasAllowed, Delivered, NewJob
<1>2. TypeOK /\ AllowedInv /\ [Next]_vars => AllowedInv'
  BY AllowedInductive
<1>3. AllowedInv => OnlyWhatWasAllowed
  BY DEF AllowedInv
<1> QED BY <1>1, <1>2, <1>3, TypeCorrect, PTL DEF Spec

(* An approved action is executed at most once, as a person allowed it, in *)
(* answer to the very request that was read.                               *)
THEOREM HonouredTheorem == Spec => []ApprovalsAreHonoured
BY OnceTheorem, AllowedTheorem, DecisionTheorem, PTL DEF ApprovalsAreHonoured
=============================================================================
