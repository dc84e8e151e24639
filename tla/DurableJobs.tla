----------------------------- MODULE DurableJobs -----------------------------
(***************************************************************************)
(* Nova's durable background jobs: the job store of nova-cli/jobs.ts, the  *)
(* worker processes of job-worker.ts that claim from it, and the people    *)
(* at a terminal who list, answer and cancel.  Every operation on the      *)
(* store runs under the store's lock, so each is one action; a worker      *)
(* does many of them one after another, may be suspended for longer than   *)
(* its lease, and may die at any point.                                    *)
(*                                                                         *)
(* A worker is spawned for a job and is named after it here, but claims    *)
(* whatever is oldest.  A lease is live or lapsed: heartbeats keep a live  *)
(* one live and change nothing else, so they are stutters.  Of the four    *)
(* decisions a person may give, the "always" ones differ only inside the   *)
(* worker's own PermissionLedger and are not told apart.                   *)
(***************************************************************************)
EXTENDS Integers, FiniteSets

CONSTANTS
  Job,
  CreatedAt,      \* [Job -> Nat], the order the jobs are enqueued in
  Recurring,      \* the jobs with a cadence
  Digest,         \* the actions a worker may have to ask about
  MaxAttempts,    \* MAX_ATTEMPTS, 3
  MaxAsks,        \* bound on the requests of all workers together
  None

ASSUME JobAssumption ==
  /\ CreatedAt \in [Job -> Nat]
  /\ \A j, k \in Job : CreatedAt[j] = CreatedAt[k] => j = k
  /\ Recurring \subseteq Job
  /\ MaxAttempts \in Nat \ {0}
  /\ MaxAsks \in Nat
  /\ None \notin Job /\ None \notin Digest

VARIABLES
  jobs,       \* the store's records
  pc,         \* where each worker process is
  held,       \* the job a worker claimed and is working on
  asking,     \* the action a worker asked about
  granted,    \* the actions of its current batch of tool calls that were allowed
  asks,       \* how many requests were made
  shown,      \* the request a person has read and may still answer
  answered,   \* the <<job, action>> pairs a person has allowed
  performed   \* how often each action was executed under a decision

turnVars == <<held, asking, granted>>
workerVars == <<pc, turnVars, asks, performed>>
personVars == <<shown, answered>>
vars == <<jobs, workerVars, personVars>>

JobStatus == {"absent", "queued", "running", "paused", "completed", "failed", "cancelled"}
TERMINAL == {"completed", "failed", "cancelled"}
Leased == {"running", "paused"}
Decision == {"allow", "deny"}

NoDecision == [decision |-> None, actionDigest |-> None]

NewJob == [status |-> "absent", worker |-> None, leaseLive |-> FALSE, attempts |-> 0, due |-> TRUE,
           pendingApproval |-> None, approvalDecision |-> NoDecision, executedApprovals |-> {}]

Init ==
  /\ jobs = [j \in Job |-> NewJob]
  /\ pc = [w \in Job |-> "absent"]
  /\ held = [w \in Job |-> None]
  /\ asking = [w \in Job |-> None]
  /\ granted = [w \in Job |-> {}]
  /\ asks = 0
  /\ shown = [j \in Job |-> None]
  /\ answered = {}
  /\ performed = [j \in Job |-> [d \in Digest |-> 0]]
-----------------------------------------------------------------------------
(* Leases.                                                                 *)

OwnedOnTrust(j, w) == held[w] = j                                     \* a mutant
OwnedBy(j, w) == jobs[j].status \in Leased /\ jobs[j].worker = w /\ jobs[j].leaseLive

StaleEvenIfLive(j) == jobs[j].status \in Leased                       \* a mutant
Stale(j) == jobs[j].status \in Leased /\ jobs[j].worker # None /\ ~jobs[j].leaseLive

Unleased(job) == [job EXCEPT !.worker = None, !.leaseLive = FALSE]
QuestionDropped(job) == [job EXCEPT !.pendingApproval = None]          \* a mutant
Unasked(job) == [job EXCEPT !.pendingApproval = None, !.approvalDecision = NoDecision]

(* recoverStale, over the whole store.                                     *)
Recovered ==
  [j \in Job |->
     IF ~Stale(j) THEN jobs[j]
     ELSE [Unleased(Unasked(jobs[j])) EXCEPT
             !.status = IF jobs[j].attempts >= MaxAttempts THEN "failed" ELSE "queued"]]

(* The lease runs out: the worker died, hangs, or sleeps with its machine. *)
LeaseLapses(j) ==
  /\ jobs[j].status \in Leased /\ jobs[j].leaseLive
  /\ jobs' = [jobs EXCEPT ![j].leaseLive = FALSE]
  /\ UNCHANGED <<workerVars, personVars>>

(* nextRunAt arrives; a worker that slept for it wakes.                    *)
FallsDue(j) ==
  /\ ~jobs[j].due
  /\ jobs' = [jobs EXCEPT ![j].due = TRUE]
  /\ pc' = [pc EXCEPT ![j] = IF @ = "sleeping" THEN "free" ELSE @]
  /\ UNCHANGED <<turnVars, asks, performed, personVars>>
-----------------------------------------------------------------------------
(* People at a terminal.                                                   *)

Enqueue(j) ==
  /\ jobs[j].status = "absent"
  /\ \A k \in Job : CreatedAt[k] < CreatedAt[j] => jobs[k].status # "absent"
  /\ jobs' = [jobs EXCEPT ![j].status = "queued"]
  /\ UNCHANGED <<workerVars, personVars>>

(* spawnJobWorker.  A process without a configured provider reports a      *)
(* failure it has no lease for, is refused and ends: a crash, in effect.   *)
Spawn(w) ==
  /\ pc[w] = "absent" /\ jobs[w].status # "absent"
  /\ pc' = [pc EXCEPT ![w] = "free"]
  /\ UNCHANGED <<jobs, turnVars, asks, performed, personVars>>

(* listJobs and getJob recover silently dead workers before they read.     *)
ListJobs ==
  /\ jobs' = Recovered
  /\ UNCHANGED <<workerVars, personVars>>

(* The first half of /jobs approve and of /attach: read what is asked.     *)
ReadRequest(j) ==
  /\ jobs' = Recovered
  /\ Recovered[j].pendingApproval # None
  /\ shown' = [shown EXCEPT ![j] = Recovered[j].pendingApproval]
  /\ UNCHANGED <<workerVars, answered>>

(* The second half: the decision names the action that was read, and is    *)
(* refused if that is not what the job asks about now.                     *)
AnswersWhateverIsAsked(j) == jobs[j].pendingApproval # None           \* a mutant
Answers(j) == jobs[j].pendingApproval # None /\ jobs[j].pendingApproval = shown[j]

ResolveApproval(j, decision) ==
  /\ shown[j] # None
  /\ shown' = [shown EXCEPT ![j] = None]
  /\ IF Answers(j)
     THEN /\ jobs' = [jobs EXCEPT ![j].approvalDecision =
                        [decision |-> decision, actionDigest |-> jobs[j].pendingApproval]]
          /\ answered' = IF decision = "allow" THEN answered \union {<<j, shown[j]>>} ELSE answered
     ELSE UNCHANGED <<jobs, answered>>
  /\ UNCHANGED workerVars

(* Cancelling leaves the request and the decision in the record.  The      *)
(* SIGTERM that follows ends the worker's turn as a failed one.            *)
Cancel(j) ==
  /\ jobs[j].status \notin TERMINAL \union {"absent"}
  /\ jobs' = [jobs EXCEPT ![j] = [Unleased(@) EXCEPT !.status = "cancelled"]]
  /\ UNCHANGED <<workerVars, personVars>>
-----------------------------------------------------------------------------
(* Workers: runJobWorkerForever around runJobWorkerOnce.                   *)

Claimable(j) == \/ jobs[j].status = "queued" /\ jobs[j].due
                \/ Stale(j)

IsOldest(j, S) == j \in S /\ \A k \in S : CreatedAt[j] <= CreatedAt[k]

ExhaustedLate(j) == jobs[j].attempts > MaxAttempts                    \* a mutant
Exhausted(j) == jobs[j].attempts + 1 > MaxAttempts

(* claim takes the oldest job there is.  With nothing to claim, and also   *)
(* when all it did was to retire an exhausted job, the worker ends.        *)
ClaimNothing(w) ==
  /\ pc[w] = "free"
  /\ \A j \in Job : ~Claimable(j)
  /\ pc' = [pc EXCEPT ![w] = "exited"]
  /\ UNCHANGED <<jobs, turnVars, asks, performed, personVars>>

RetireExhausted(w, j) ==
  /\ pc[w] = "free"
  /\ IsOldest(j, {k \in Job : Claimable(k)}) /\ Exhausted(j)
  /\ jobs' = [jobs EXCEPT ![j] = [Unleased(@) EXCEPT !.status = "failed"]]
  /\ pc' = [pc EXCEPT ![w] = "exited"]
  /\ UNCHANGED <<turnVars, asks, performed, personVars>>

Claimed(job, w) == [Unasked(job) EXCEPT !.status = "running", !.worker = w,
                                        !.leaseLive = TRUE, !.attempts = job.attempts + 1]

Claim(w, j) ==
  /\ pc[w] = "free"
  /\ IsOldest(j, {k \in Job : Claimable(k)}) /\ ~Exhausted(j)
  /\ jobs' = [jobs EXCEPT ![j] = Claimed(@, w)]
  /\ pc' = [pc EXCEPT ![w] = "working"]
  /\ held' = [held EXCEPT ![w] = j]
  /\ UNCHANGED <<asking, granted, asks, performed, personVars>>

(* Every call of a batch is approved before the first of them is made, and *)
(* one refusal ends the turn as blocked.                                   *)
Denied(w) ==
  /\ pc' = [pc EXCEPT ![w] = "denied"]
  /\ asking' = [asking EXCEPT ![w] = None]
  /\ granted' = [granted EXCEPT ![w] = {}]

(* requestApproval parks the job; a refusal reads as "deny".               *)
Parked(job, d) == [Unasked(job) EXCEPT !.status = "paused", !.pendingApproval = d]

RequestApproval(w, d) ==
  LET j == held[w] IN
  /\ pc[w] \in {"working", "approved"} /\ asks < MaxAsks
  /\ asks' = asks + 1
  /\ IF OwnedBy(j, w) /\ d \notin jobs[j].executedApprovals
     THEN /\ jobs' = [jobs EXCEPT ![j] = Parked(@, d)]
          /\ pc' = [pc EXCEPT ![w] = "waiting"]
          /\ asking' = [asking EXCEPT ![w] = d]
          /\ UNCHANGED granted
     ELSE Denied(w) /\ UNCHANGED jobs
  /\ UNCHANGED <<held, performed, personVars>>

Deliverable(j, w) ==
  OwnedBy(j, w) /\ jobs[j].approvalDecision # NoDecision /\ jobs[j].pendingApproval # None

(* A decision that answers another question, or one already spent.         *)
Unusable(j) == \/ jobs[j].pendingApproval # jobs[j].approvalDecision.actionDigest
               \/ jobs[j].approvalDecision.actionDigest \in jobs[j].executedApprovals

(* consumeApproval spends the decision in the transition that puts the job *)
(* back to work, or drops one that cannot be used and stays parked.        *)
NothingSpent(j, answer) == jobs[j].executedApprovals                  \* a mutant
Spent(j, answer) == jobs[j].executedApprovals \union
                      (IF answer.decision = "allow" THEN {answer.actionDigest} ELSE {})

ConsumeApproval(w) ==
  LET j == held[w]  answer == jobs[j].approvalDecision IN
  /\ pc[w] = "waiting" /\ Deliverable(j, w)
  /\ IF Unusable(j)
     THEN /\ jobs' = [jobs EXCEPT ![j].approvalDecision = NoDecision]
          /\ UNCHANGED <<pc, asking, granted>>
     ELSE /\ jobs' = [jobs EXCEPT ![j] = [Unasked(@) EXCEPT !.status = "running",
                                            !.executedApprovals = Spent(j, answer)]]
          /\ IF answer.decision = "allow" /\ answer.actionDigest = asking[w]
             THEN /\ pc' = [pc EXCEPT ![w] = "approved"]
                  /\ granted' = [granted EXCEPT ![w] = @ \union {asking[w]}]
                  /\ asking' = [asking EXCEPT ![w] = None]
             ELSE Denied(w)
  /\ UNCHANGED <<held, asks, performed, personVars>>

(* Silence past the deadline is a denial; the record stays paused.         *)
TimesOutUnreported(w) ==                                              \* a mutant
  /\ pc[w] = "waiting"
  /\ pc' = [pc EXCEPT ![w] = "free"]
  /\ UNCHANGED <<jobs, turnVars, asks, performed, personVars>>
ApprovalTimesOut(w) ==
  /\ pc[w] = "waiting"
  /\ Denied(w)
  /\ UNCHANGED <<jobs, held, asks, performed, personVars>>

(* The calls of the batch are made, one after another.                     *)
Perform(w, d) ==
  /\ pc[w] \in {"approved", "performing"} /\ d \in granted[w]
  /\ performed' = [performed EXCEPT ![held[w]][d] = @ + 1]
  /\ granted' = [granted EXCEPT ![w] = @ \ {d}]
  /\ pc' = [pc EXCEPT ![w] = IF granted[w] = {d} THEN "working" ELSE "performing"]
  /\ UNCHANGED <<jobs, held, asking, asks, personVars>>

(* finish: a completed occurrence of recurring work is queued again, every *)
(* other outcome is final.                                                 *)
Finished(j, outcome) ==
  IF outcome = "completed" /\ j \in Recurring
  THEN [Unleased(jobs[j]) EXCEPT !.status = "queued", !.attempts = 0, !.due = FALSE]
  ELSE [Unleased(jobs[j]) EXCEPT !.status = outcome]

(* The turn ends, or throws; from a worker that no longer owns the job the *)
(* report is refused.                                                      *)
Finish(w, outcome) ==
  LET j == held[w] IN
  /\ \/ pc[w] = "working"
     \/ pc[w] \in {"waiting", "approved", "performing", "denied"} /\ outcome = "failed"
  /\ jobs' = IF OwnedBy(j, w) THEN [jobs EXCEPT ![j] = Finished(j, outcome)] ELSE jobs
  /\ pc' = [pc EXCEPT ![w] = "checking"]
  /\ held' = [held EXCEPT ![w] = None]
  /\ asking' = [asking EXCEPT ![w] = None]
  /\ granted' = [granted EXCEPT ![w] = {}]
  /\ UNCHANGED <<asks, performed, personVars>>

(* runJobWorkerForever looks at the job it was spawned for, whichever job  *)
(* it has just worked on, and goes on only for another occurrence of it.   *)
CheckForMore(w) ==
  LET again == Recovered[w].status = "queued" /\ w \in Recurring IN
  /\ pc[w] = "checking"
  /\ jobs' = Recovered
  /\ pc' = [pc EXCEPT ![w] = IF ~again THEN "exited" ELSE IF Recovered[w].due THEN "free" ELSE "sleeping"]
  /\ UNCHANGED <<turnVars, asks, performed, personVars>>

(* A process that dies with a job in its hands says so to nobody.  (One    *)
(* that dies without a job is one that takes no further step.)             *)
Crash(w) ==
  /\ held[w] # None
  /\ pc' = [pc EXCEPT ![w] = "exited"]
  /\ held' = [held EXCEPT ![w] = None]
  /\ asking' = [asking EXCEPT ![w] = None]
  /\ granted' = [granted EXCEPT ![w] = {}]
  /\ UNCHANGED <<jobs, asks, performed, personVars>>
-----------------------------------------------------------------------------
People ==
  \/ ListJobs
  \/ \E j \in Job : \/ Enqueue(j) \/ Spawn(j) \/ ReadRequest(j) \/ Cancel(j)
                    \/ \E decision \in Decision : ResolveApproval(j, decision)

Worker(w) ==
  \/ ClaimNothing(w)
  \/ \E j \in Job : RetireExhausted(w, j) \/ Claim(w, j)
  \/ \E d \in Digest : RequestApproval(w, d) \/ Perform(w, d)
  \/ ConsumeApproval(w) \/ ApprovalTimesOut(w)
  \/ \E outcome \in {"completed", "failed"} : Finish(w, outcome)
  \/ CheckForMore(w) \/ Crash(w)

Time == \E j \in Job : LeaseLapses(j) \/ FallsDue(j)

Next == People \/ Time \/ \E w \in Job : Worker(w)

Spec == Init /\ [][Next]_vars
-----------------------------------------------------------------------------
JobRow == [status : JobStatus, worker : Job \union {None}, leaseLive : BOOLEAN,
           attempts : Nat, due : BOOLEAN, pendingApproval : Digest \union {None},
           approvalDecision : [decision : Decision \union {None}, actionDigest : Digest \union {None}],
           executedApprovals : SUBSET Digest]

Working == {"working", "waiting", "approved", "performing", "denied"}

(* A worker holds a job exactly while it works on one, has asked about an  *)
(* action exactly while it waits, and has something to do once approved.   *)
WorkersOK ==
  /\ pc \in [Job -> {"absent", "free", "checking", "sleeping", "exited"} \union Working]
  /\ held \in [Job -> Job \union {None}]
  /\ asking \in [Job -> Digest \union {None}]
  /\ granted \in [Job -> SUBSET Digest]
  /\ \A w \in Job : /\ (held[w] # None) <=> (pc[w] \in Working)
                    /\ (asking[w] # None) <=> (pc[w] = "waiting")
                    /\ pc[w] \in {"approved", "performing"} => granted[w] # {}
                    /\ held[w] = None => granted[w] = {}

(* Every variable has its type, and workers are where their locals say.    *)
TypeOK ==
  /\ jobs \in [Job -> JobRow]
  /\ WorkersOK
  /\ asks \in Nat
  /\ shown \in [Job -> Digest \union {None}]
  /\ answered \subseteq Job \X Digest
  /\ performed \in [Job -> [Digest -> Nat]]

(* An action is executed at most once under people's decisions, however    *)
(* often the job is claimed, crashes, is recovered or asked about again.   *)
AtMostOncePerAction == \A j \in Job, d \in Digest : performed[j][d] <= 1

(* Nothing is executed that a person did not allow after reading exactly   *)
(* that action, whatever took the place of the request in the meantime.    *)
OnlyWhatWasAllowed == \A j \in Job, d \in Digest : performed[j][d] > 0 => <<j, d>> \in answered

(* A delivered decision answers the request that is parked: the two never  *)
(* drift apart, and no decision outlives its question.                     *)
DecisionsAnswerTheRequest ==
  \A j \in Job : jobs[j].approvalDecision # NoDecision =>
                    jobs[j].pendingApproval = jobs[j].approvalDecision.actionDigest

(* What people answer is what happens: once, as allowed, to what they read. *)
ApprovalsAreHonoured == AtMostOncePerAction /\ OnlyWhatWasAllowed /\ DecisionsAnswerTheRequest

(* A job that keeps killing its workers is given up in time: recovery and  *)
(* claims count the same attempts.                                         *)
AttemptsBounded == \A j \in Job : jobs[j].attempts <= MaxAttempts

(* Every record is well formed, and its attempts count as they should.     *)
RecordsOK == TypeOK /\ AttemptsBounded

(* A worker whose lease has not lapsed keeps its job until it reports, or  *)
(* somebody cancels: nobody claims or recovers it away.                    *)
LiveLeaseIsKept ==
  [][\A j, w \in Job : OwnedBy(j, w) /\ jobs'[j].worker # w =>
       jobs'[j].status = "cancelled" \/ pc'[w] = "checking"]_vars

(* What is completed, failed or cancelled stays so, though suspended       *)
(* workers wake up, report, heartbeat and collect decisions afterwards.    *)
TerminalNeverMoves ==
  [][\A j \in Job : jobs[j].status \in TERMINAL => jobs'[j].status = jobs[j].status]_vars

(* Nobody takes over what another worker holds or undoes what is settled.  *)
LeasesAndOutcomesStand == LiveLeaseIsKept /\ TerminalNeverMoves

(* A worker ends only when the job it was spawned for is gone: finished,   *)
(* cancelled, or in the hands of another worker.                           *)
WorkersEndOnlyWhenDone ==
  [][\A w \in Job : pc[w] \in {"free", "checking"} /\ pc'[w] = "exited" =>
       jobs'[w].status # "queued"]_vars

(* A failed occurrence does not end the schedule of a recurring job.       *)
ScheduleOutlivesFailure ==
  [][\A j \in Recurring, w \in Job :
       OwnedBy(j, w) /\ held[w] = j /\ pc'[w] = "checking" => jobs'[j].status = "queued"]_vars
=============================================================================
