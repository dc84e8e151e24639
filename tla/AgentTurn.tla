------------------------------ MODULE AgentTurn ------------------------------
(***************************************************************************)
(* One conversation with Nova's local agent: NovaAgent.send, which runs a  *)
(* turn through BoundedAgentRuntime.execute, the sub-agents its delegate   *)
(* tool starts in runtimes of their own, and the PermissionLedger that     *)
(* asks a person about effectful calls on behalf of both.                  *)
(*                                                                         *)
(* A runtime is a loop over model replies.  The main one and a delegate's  *)
(* are the same code, so one record describes either; delegate_task is not *)
(* parallel-safe and the main loop waits for it.  A model reply is chosen  *)
(* freely.  Money is counted in units of which one pays for the smallest   *)
(* reply; a tool call is known by its action, whose digest is the same     *)
(* whenever the same action is proposed again.                             *)
(***************************************************************************)
EXTENDS Integers, Sequences, FiniteSets

CONSTANTS
  Call,                        \* the tool calls a model may make
  Kind,                        \* [Call -> Tool]
  Sensitive,                   \* the actions assessToolSafety flags
  Modes,                       \* the modes the session is opened in
  Ceilings,                    \* what maxRwf may be for a turn
  Costs,                       \* what one model call may cost
  MaxIterations, DelegateIterations, MaxToolCalls, DelegateToolCalls, MaxCallsPerTurn,
  MaxProviderRetries, MaxLengthContinuations, MaxVerificationNudges,
  MaxToolTurnRecoveries, MaxUnavailableToolRecoveries,
  MaxTurns,                    \* bound on the turns of the conversation
  None

Tool == {"read", "write", "command", "deploy", "delegate", "unknown"}
Mode == {"plan", "build", "auto", "defender"}

Level == {"main", "delegate"}
Outcome == {"completed", "failed", "blocked", "needs_verification", "cancelled", "iteration_limit"}
TurnStatus == {"queued", "running", "waiting_approval"} \cup Outcome
Active == {"queued", "running", "waiting_approval"}

ASSUME AgentAssumption ==
  /\ Kind \in [Call -> Tool] /\ Sensitive \subseteq Call
  /\ None \notin Call \cup TurnStatus \cup {"allow", "deny", "threw"}
  /\ Modes \subseteq Mode
  /\ Ceilings \subseteq Nat /\ Costs \subseteq Nat
  /\ MaxIterations \in Nat \ {0} /\ DelegateIterations \in Nat \ {0}
  /\ MaxToolCalls \in Nat /\ DelegateToolCalls \in Nat /\ MaxCallsPerTurn \in Nat \ {0}
  /\ MaxProviderRetries \in Nat /\ MaxLengthContinuations \in Nat /\ MaxVerificationNudges \in Nat
  /\ MaxToolTurnRecoveries \in Nat /\ MaxUnavailableToolRecoveries \in Nat
  /\ MaxTurns \in Nat

VARIABLES
  mode,        \* the agent's mode, fixed until the session is reopened
  turn,        \* the turn: its number, status, ceiling and accounts
  loop,        \* the main runtime and the delegate's
  cancelled,
  standing,    \* PermissionLedger.standing
  saved,       \* the approvals in the session record
  always,      \* history: what the person allowed for good, in this session
  unrecorded   \* history: money spent that session.totalRwf does not include

vars == <<mode, turn, loop, cancelled, standing, saved, always, unrecorded>>

TRANSITIONS ==
  [queued |-> {"running", "cancelled", "failed"},
   running |-> {"waiting_approval"} \cup Outcome,
   waiting_approval |-> {"running", "blocked", "cancelled", "failed"}]
Legal(from, to) == from \in Active /\ to \in TRANSITIONS[from]

Least(a, b) == IF a <= b THEN a ELSE b
-----------------------------------------------------------------------------
(* Tools.                                                                  *)

Effect(c) == CASE Kind[c] \in {"write", "command"} -> "workspace"
               [] Kind[c] = "deploy" -> "external"
               [] OTHER -> "none"

ParallelSafe(c) == Kind[c] = "read"

(* What the mode's capabilities and the level leave of the tools.          *)
Offered(l) == {c \in Call : /\ Kind[c] # "unknown"
                            /\ Kind[c] = "delegate" => l = "main"
                            /\ mode = "plan" => Effect(c) = "none"}

(* What executing a call may yield; "check" and "tests" are successes that *)
(* carry passing verification evidence.                                    *)
Results(c) == CASE Kind[c] = "command" -> {"ok", "error", "check", "tests"}
                [] Kind[c] = "deploy" -> {"ok", "error", "tests"}
                [] OTHER -> {"ok", "error"}
Evidence == {"check", "tests"}
EVIDENCE_RANK == [check |-> 1, tests |-> 2]
-----------------------------------------------------------------------------
(* A runtime's record.                                                     *)

(* unverified and credit are history: whether the workspace holds a change  *)
(* of this runtime that nothing verified, and the single permissions given  *)
(* for this batch and not yet used.                                         *)
NoCredit == [c \in Call |-> 0]

Fresh(iterations, toolCalls, reservation) ==
  [pc |-> "top", limit |-> iterations, toolCalls |-> toolCalls, iteration |-> 0, attempt |-> 0, reservation |-> reservation, spent |-> 0,
   executed |-> 0, continuations |-> 0, nudges |-> 0, recoveries |-> 0, unavailable |-> 0, strongest |-> 0,
   askedForTests |-> FALSE, needsVerification |-> FALSE, unverified |-> FALSE,
   credit |-> NoCredit, batch |-> <<>>, marks |-> <<>>, at |-> 1, status |-> None]
Off == [Fresh(0, 0, 0) EXCEPT !.pc = "off"]

NoBatch(r) == [r EXCEPT !.batch = <<>>, !.marks = <<>>, !.at = 1, !.credit = NoCredit]
Ended(r, s) == [Off EXCEPT !.pc = "ended", !.status = s, !.reservation = r.reservation, !.spent = r.spent,
                           !.unverified = r.unverified]
Top(r) == [NoBatch(r) EXCEPT !.pc = "top"]

(* The loop that is doing something: a delegate's while there is one.      *)
Current == IF loop["delegate"].pc # "off" THEN "delegate" ELSE "main"
Waits(l, pc) == l = Current /\ turn.status \in Active /\ loop[l].pc = pc

Step(l, r) == loop' = [loop EXCEPT ![l] = r]
ledgerVars == <<mode, cancelled, standing, saved, always>>

Init ==
  /\ mode \in Modes
  /\ turn = [number |-> 0, status |-> None, ceiling |-> 0, compaction |-> 0, delegated |-> 0, threw |-> FALSE]
  /\ loop = [l \in Level |-> Off]
  /\ cancelled = FALSE
  /\ standing = [c \in Call |-> None] /\ saved = [c \in Call |-> None]
  /\ always = {}
  /\ unrecorded = 0
-----------------------------------------------------------------------------
(* NovaAgent.                                                              *)

Idle == turn.status \notin Active

(* The session is opened again, perhaps in another mode.                   *)
Resume(m) ==
  /\ Idle /\ turn.number > 0 /\ m # mode
  /\ mode' = m
  /\ standing' = saved
  /\ UNCHANGED <<turn, loop, cancelled, saved, always, unrecorded>>

Send(ceiling) ==
  /\ Idle /\ turn.number < MaxTurns
  /\ turn' = [number |-> turn.number + 1, status |-> "running", ceiling |-> ceiling,
              compaction |-> 0, delegated |-> 0, threw |-> FALSE]
  /\ cancelled' = FALSE
  /\ unrecorded' = 0
  /\ UNCHANGED <<mode, loop, standing, saved, always>>

Cancel ==
  /\ ~Idle /\ ~cancelled
  /\ cancelled' = TRUE
  /\ UNCHANGED <<mode, turn, loop, standing, saved, always, unrecorded>>

Preparing == turn.status = "running" /\ loop["main"].pc = "off"

FailTurn ==
  /\ turn' = [turn EXCEPT !.status = "failed", !.threw = TRUE]
  /\ loop' = [l \in Level |-> Off]

(* compactIfNeeded: its one call to the model is not retried.              *)
CompactionFails ==
  /\ Preparing
  /\ FailTurn
  /\ UNCHANGED <<ledgerVars, unrecorded>>

CompactionOverruns(cost) ==
  /\ Preparing /\ cost > turn.ceiling
  /\ FailTurn
  /\ unrecorded' = unrecorded + cost
  /\ UNCHANGED ledgerVars

(* The runtime starts; a turn that needed no compaction paid nothing.      *)
Execute(cost) ==
  /\ Preparing /\ cost <= turn.ceiling
  /\ turn' = [turn EXCEPT !.compaction = cost]
  /\ Step("main", Fresh(MaxIterations, MaxToolCalls, turn.ceiling - cost))
  /\ unrecorded' = unrecorded + cost
  /\ UNCHANGED ledgerVars
-----------------------------------------------------------------------------
(* Ends of a runtime.                                                      *)

Stop(l, s) == Step(l, Ended(loop[l], s))

(* execute throws: of a delegate the tool call reports an error, of the    *)
(* main loop the turn fails with nothing kept.                             *)
Threw(l) ==
  IF l = "main"
  THEN FailTurn
  ELSE /\ Step(l, Ended(loop[l], "threw"))
       /\ turn' = [turn EXCEPT !.threw = TRUE]
-----------------------------------------------------------------------------
(* The model.                                                              *)

TopOfLoop(l) ==
  /\ Waits(l, "top")
  /\ LET r == loop[l] IN
     \/ /\ r.iteration = r.limit \/ (~cancelled /\ r.spent >= r.reservation)
        /\ Stop(l, "iteration_limit")
     \/ /\ r.iteration < r.limit /\ cancelled
        /\ Stop(l, "cancelled")
     \/ /\ r.iteration < r.limit /\ ~cancelled /\ r.spent < r.reservation
        /\ Step(l, [r EXCEPT !.pc = "calling", !.iteration = @ + 1, !.attempt = 0])
     /\ UNCHANGED <<ledgerVars, turn, unrecorded>>

BackoffUncounted(r) == [r EXCEPT !.pc = "backoff"]                     \* a mutant
Backoff(r) == [r EXCEPT !.pc = "backoff", !.attempt = @ + 1]

(* A failed request is repeated only if nothing of its reply was seen.     *)
ProviderFails(l, mayRetry) ==
  /\ Waits(l, "calling")
  /\ LET r == loop[l] IN
     \/ /\ cancelled
        /\ Stop(l, "cancelled") /\ UNCHANGED turn
     \/ /\ ~cancelled /\ (~mayRetry \/ r.attempt >= MaxProviderRetries)
        /\ Threw(l)
     \/ /\ ~cancelled /\ mayRetry /\ r.attempt < MaxProviderRetries
        /\ Step(l, Backoff(r)) /\ UNCHANGED turn
  /\ UNCHANGED <<ledgerVars, unrecorded>>

RetryRegardless(l) ==                                                  \* a mutant
  /\ Waits(l, "backoff")
  /\ Step(l, [loop[l] EXCEPT !.pc = "calling"])
  /\ UNCHANGED <<ledgerVars, turn, unrecorded>>
RetryProvider(l) ==
  /\ Waits(l, "backoff")
  /\ IF cancelled THEN Stop(l, "cancelled")
     ELSE Step(l, [loop[l] EXCEPT !.pc = "calling"])
  /\ UNCHANGED <<ledgerVars, turn, unrecorded>>

Overruns(l, cost) ==
  /\ Waits(l, "calling") /\ loop[l].spent + cost > loop[l].reservation
  /\ unrecorded' = unrecorded + cost
  /\ Threw(l)
  /\ UNCHANGED ledgerVars

(* A reply that was paid for, and the loop's record when it was.           *)
Answered(l, cost) ==
  /\ Waits(l, "calling") /\ loop[l].spent + cost <= loop[l].reservation
  /\ unrecorded' = unrecorded + cost
  /\ UNCHANGED <<ledgerVars, turn>>
Paid(l, cost) == [loop[l] EXCEPT !.spent = @ + cost, !.attempt = 0]

Refuses(l, cost) ==
  /\ Answered(l, cost)
  /\ Step(l, Ended(Paid(l, cost), "blocked"))

RunsOutOfOutput(l, cost) ==
  /\ Answered(l, cost)
  /\ LET r == Paid(l, cost) IN
     Step(l, IF r.continuations >= MaxLengthContinuations THEN Ended(r, "iteration_limit")
             ELSE Top([r EXCEPT !.continuations = @ + 1]))

Says(l, cost) ==
  /\ Answered(l, cost)
  /\ LET r == Paid(l, cost)
         nudge == r.needsVerification /\ r.nudges < MaxVerificationNudges
         ask == r.strongest = EVIDENCE_RANK["check"] /\ ~r.askedForTests IN
     Step(l, CASE nudge -> Top([r EXCEPT !.nudges = @ + 1])
               [] ~nudge /\ ask -> Top([r EXCEPT !.askedForTests = TRUE])
               [] OTHER -> Ended(r, IF r.needsVerification THEN "needs_verification" ELSE "completed"))

(* Calls that are none, too many, or malformed.                            *)
Recovered(r) == IF r.recoveries >= MaxToolTurnRecoveries THEN Ended(r, "failed")
                ELSE Top([r EXCEPT !.recoveries = @ + 1])

CallsUnusably(l, cost) ==
  /\ Answered(l, cost)
  /\ Step(l, Recovered(Paid(l, cost)))

TooManyOnceThere(r, calls) == r.executed > r.toolCalls                 \* a mutant
TooMany(r, calls) == r.executed + Len(calls) > r.toolCalls

Requested(l, r, calls) ==
  IF TooMany(r, calls) THEN Ended(r, "iteration_limit")
  ELSE IF \A i \in DOMAIN calls : calls[i] \in Offered(l)
       THEN [r EXCEPT !.pc = "approving", !.batch = calls, !.at = 1,
                      !.marks = [i \in DOMAIN calls |-> "waiting"]]
       ELSE IF r.unavailable >= MaxUnavailableToolRecoveries THEN Ended(r, "failed")
            ELSE Top([r EXCEPT !.unavailable = @ + 1])

CallsTools(l, cost, calls) ==
  /\ Answered(l, cost)
  /\ Step(l, Requested(l, Paid(l, cost), calls))
-----------------------------------------------------------------------------
(* PermissionLedger.decide, for the calls of a batch in their order.       *)

TrustsAnyEdit(c) == mode = "auto" /\ Effect(c) # "none"               \* a mutant
AutoApproves(c) == mode = "auto" /\ Effect(c) = "workspace" /\ c \notin Sensitive
Unasked(c) == Effect(c) = "none" \/ AutoApproves(c) \/ standing[c] = "allow"

(* The positions of the batch that are still to be decided on.             *)
Undecided(l) == {i \in DOMAIN loop[l].batch : i >= loop[l].at /\ ~Unasked(loop[l].batch[i])}
Next1(S) == CHOOSE i \in S : \A j \in S : i <= j

Approved(l) ==
  /\ Waits(l, "approving") /\ Undecided(l) = {}
  /\ Step(l, [loop[l] EXCEPT !.pc = "executing"])
  /\ UNCHANGED <<ledgerVars, turn, unrecorded>>

DeniedForGood(l) ==
  /\ Waits(l, "approving") /\ Undecided(l) # {}
  /\ standing[loop[l].batch[Next1(Undecided(l))]] = "deny"
  /\ Stop(l, "blocked")
  /\ UNCHANGED <<ledgerVars, turn, unrecorded>>

(* The turn waits for the person.  A turn that already waits cannot begin  *)
(* to: the transition throws, out of decide and out of the runtime.        *)
Prompts(l) ==
  /\ Waits(l, "approving") /\ Undecided(l) # {}
  /\ LET i == Next1(Undecided(l)) IN
     /\ standing[loop[l].batch[i]] = None
     /\ IF Legal(turn.status, "waiting_approval")
        THEN /\ Step(l, [loop[l] EXCEPT !.pc = "prompting", !.at = i])
             /\ turn' = [turn EXCEPT !.status = "waiting_approval"]
        ELSE Threw(l)
  /\ UNCHANGED <<ledgerVars, unrecorded>>

Asked(l) == loop[l].batch[loop[l].at]

Allows(l, forGood) ==
  /\ Waits(l, "prompting")
  /\ LET c == Asked(l) IN
     /\ standing' = IF forGood THEN [standing EXCEPT ![c] = "allow"] ELSE standing
     /\ always' = IF forGood THEN always \cup {c} ELSE always
     /\ Step(l, [loop[l] EXCEPT !.pc = "approving", !.at = @ + 1, !.credit[c] = IF forGood THEN @ ELSE @ + 1])
  /\ turn' = [turn EXCEPT !.status = "running"]
  /\ UNCHANGED <<mode, cancelled, saved, unrecorded>>

Denies(l, forGood) ==
  /\ Waits(l, "prompting")
  /\ standing' = IF forGood THEN [standing EXCEPT ![Asked(l)] = "deny"] ELSE standing
  /\ Stop(l, "blocked")
  /\ UNCHANGED <<mode, turn, cancelled, saved, always, unrecorded>>
-----------------------------------------------------------------------------
(* Executing a batch.                                                      *)

InHand == {"announced", "running"}
Done(m) == m \notin {"waiting"} \cup InHand

(* Adjacent parallel-safe calls form a group and run together; any other   *)
(* call runs alone, in its place.                                          *)
Concurrent(c) == ParallelSafe(c) /\ Effect(c) = "none"
JoinsWhateverWasLast(calls, i, j) == \A k \in (i + 1)..j : Concurrent(calls[k])   \* a mutant
Together(calls, i, j) == \A k \in i..j : Concurrent(calls[k])
MayStart(l, i) ==
  /\ loop[l].marks[i] = "waiting"
  /\ \A j \in 1..(i - 1) : Done(loop[l].marks[j]) \/ Together(loop[l].batch, j, i)

Marked(r, i, m) == [r EXCEPT !.marks[i] = m]

(* runOne looks at the signal, then announces the call and waits for the    *)
(* entry to be in the journal, and for what a hook before the tool says;   *)
(* only then the tool is called, and nothing looks at the signal again.    *)
StartsCancelled(l, i) ==
  /\ Waits(l, "executing") /\ i \in DOMAIN loop[l].batch /\ MayStart(l, i)
  /\ cancelled
  /\ Step(l, Marked(loop[l], i, "error"))
  /\ UNCHANGED <<ledgerVars, turn, unrecorded>>

AnnouncesRegardless(l, i) ==                                           \* a mutant
  /\ Waits(l, "executing") /\ i \in DOMAIN loop[l].batch /\ MayStart(l, i)
  /\ Step(l, Marked(loop[l], i, "announced"))
  /\ UNCHANGED <<ledgerVars, turn, unrecorded>>
Announces(l, i) ==
  /\ Waits(l, "executing") /\ i \in DOMAIN loop[l].batch /\ MayStart(l, i)
  /\ ~cancelled
  /\ Step(l, Marked(loop[l], i, "announced"))
  /\ UNCHANGED <<ledgerVars, turn, unrecorded>>

Announced(l, i) ==
  /\ Waits(l, "executing") /\ i \in DOMAIN loop[l].batch
  /\ loop[l].marks[i] = "announced"

(* A hook before the tool may block the call; its permission stays unused. *)
HookBlocks(l, i) ==
  /\ Announced(l, i)
  /\ Step(l, Marked(loop[l], i, "error"))
  /\ UNCHANGED <<ledgerVars, turn, unrecorded>>

(* A permission for one execution is used by it.                           *)
Consented(c) == \/ Effect(c) = "none" \/ c \in always
                \/ mode = "auto" /\ Effect(c) = "workspace" /\ c \notin Sensitive

StartsCall(l, i) ==
  /\ Announced(l, i)
  /\ LET c == loop[l].batch[i] IN
     /\ Kind[c] # "delegate"
     /\ Step(l, [Marked(loop[l], i, "running") EXCEPT !.credit[c] = IF Consented(c) THEN @ ELSE @ - 1])
  /\ UNCHANGED <<ledgerVars, turn, unrecorded>>

(* What the turn has left when a delegation asks; half of the ceiling, if  *)
(* that is less.                                                           *)
RemainingAfterCompaction == turn.ceiling - turn.compaction             \* a mutant
RemainingRwf == IF turn.ceiling >= turn.compaction + turn.delegated
                THEN turn.ceiling - turn.compaction - turn.delegated ELSE 0
Reservation == Least(RemainingRwf, turn.ceiling \div 2)

(* Half of an odd ceiling is no whole amount, and validateRequest throws.  *)
Fractional == turn.ceiling % 2 = 1 /\ 2 * RemainingRwf > turn.ceiling

Delegates(i) ==
  /\ Announced("main", i) /\ Kind[loop["main"].batch[i]] = "delegate"
  /\ IF Fractional
     THEN /\ Step("main", Marked(loop["main"], i, "error"))
          /\ turn' = [turn EXCEPT !.threw = TRUE]
     ELSE /\ loop' = [main |-> Marked(loop["main"], i, "running"),
                      delegate |-> Fresh(Least(DelegateIterations, MaxIterations),
                                        Least(DelegateToolCalls, MaxToolCalls), Reservation)]
          /\ UNCHANGED turn
  /\ UNCHANGED <<ledgerVars, unrecorded>>

(* Running position of the main loop whose call is the delegation.         *)
Delegation(i) == /\ i \in DOMAIN loop["main"].batch /\ loop["main"].marks[i] = "running"
                 /\ Kind[loop["main"].batch[i]] = "delegate"

DelegateReturns(i) ==
  /\ loop["delegate"].pc = "ended" /\ Delegation(i)
  /\ LET d == loop["delegate"] IN
     /\ loop' = [main |-> Marked(loop["main"], i, IF d.status = "threw" THEN "error" ELSE "ok"), delegate |-> Off]
     /\ turn' = IF d.status = "threw" THEN turn ELSE [turn EXCEPT !.delegated = @ + d.spent]
  /\ UNCHANGED <<ledgerVars, unrecorded>>

(* A call ends.  unverified follows the workspace itself.                  *)
FinishesCall(l, i, m) ==
  /\ Waits(l, "executing") /\ i \in DOMAIN loop[l].batch
  /\ loop[l].marks[i] = "running" /\ m \in Results(loop[l].batch[i])
  /\ Kind[loop[l].batch[i]] # "delegate"
  /\ LET r == Marked(loop[l], i, m) IN
     Step(l, [r EXCEPT !.unverified = IF m \in Evidence THEN FALSE
                                      ELSE @ \/ (m = "ok" /\ Effect(r.batch[i]) = "workspace")])
  /\ UNCHANGED <<ledgerVars, turn, unrecorded>>

(* The results enter the transcript in the order of the batch.             *)
Tells(r) == {i \in DOMAIN r.batch : \/ r.marks[i] \in Evidence
                                    \/ r.marks[i] = "ok" /\ Effect(r.batch[i]) = "workspace"}
Latest(S) == CHOOSE i \in S : \A j \in S : j <= i
Earliest(S) == Next1(S)                                               \* a mutant
UnverifiedByFirst(r) ==                                               \* a mutant
  IF Tells(r) = {} THEN r.needsVerification ELSE r.marks[Earliest(Tells(r))] \notin Evidence
StillUnverified(r) == IF Tells(r) = {} THEN r.needsVerification ELSE r.marks[Latest(Tells(r))] \notin Evidence
Ranks(r) == {r.strongest} \cup {EVIDENCE_RANK[r.marks[i]] : i \in {j \in DOMAIN r.marks : r.marks[j] \in Evidence}}

Absorbed(r) == [r EXCEPT !.executed = @ + Len(r.batch),
                         !.needsVerification = StillUnverified(r),
                         !.strongest = Latest(Ranks(r))]

(* full: the transcript has no room for more tool results.                 *)
Absorbs(l, full) ==
  /\ Waits(l, "executing") /\ \A i \in DOMAIN loop[l].marks : Done(loop[l].marks[i])
  /\ LET r == Absorbed(loop[l]) IN
     Step(l, IF full THEN Ended(r, "iteration_limit") ELSE Top(r))
  /\ UNCHANGED <<ledgerVars, turn, unrecorded>>
-----------------------------------------------------------------------------
(* The end of a turn.                                                      *)

WithoutDelegates == turn.compaction + loop["main"].spent              \* a mutant
TurnRwf == turn.compaction + loop["main"].spent + turn.delegated

(* The session takes the result, then the turn its status; only a turn     *)
(* that could is written to disk.                                          *)
Returns ==
  /\ loop["main"].pc = "ended"
  /\ LET s == loop["main"].status IN
     IF Legal(turn.status, s)
     THEN /\ turn' = [turn EXCEPT !.status = s]
          /\ saved' = standing
     ELSE /\ turn' = [turn EXCEPT !.status = "failed", !.threw = TRUE]
          /\ UNCHANGED saved
  /\ unrecorded' = unrecorded - TurnRwf
  /\ loop' = [l \in Level |-> Off]
  /\ UNCHANGED <<mode, cancelled, standing, always>>
-----------------------------------------------------------------------------
Prepares == CompactionFails \/ \E cost \in Costs : CompactionOverruns(cost) \/ Execute(cost)

Batches == UNION {[1..n -> Call] : n \in 1..MaxCallsPerTurn}

Model(l) ==
  \/ TopOfLoop(l) \/ RetryProvider(l)
  \/ \E mayRetry \in BOOLEAN : ProviderFails(l, mayRetry)
  \/ \E cost \in Costs :
       \/ Overruns(l, cost) \/ Refuses(l, cost) \/ RunsOutOfOutput(l, cost)
       \/ Says(l, cost) \/ CallsUnusably(l, cost)
       \/ \E calls \in Batches : CallsTools(l, cost, calls)

Tools(l) ==
  \/ Approved(l) \/ DeniedForGood(l) \/ Prompts(l)
  \/ \E i \in 1..MaxCallsPerTurn :
       \/ StartsCancelled(l, i) \/ Announces(l, i) \/ HookBlocks(l, i) \/ StartsCall(l, i)
       \/ \E m \in {"ok", "error"} \cup Evidence : FinishesCall(l, i, m)
  \/ \E full \in BOOLEAN : Absorbs(l, full)

Delegating == \E i \in 1..MaxCallsPerTurn : Delegates(i) \/ DelegateReturns(i)

Answers(l) == \E forGood \in BOOLEAN : Allows(l, forGood) \/ Denies(l, forGood)

Works == Prepares \/ Returns \/ Delegating \/ \E l \in Level : Model(l) \/ Tools(l)

User == \/ \E m \in Modes : Resume(m)
        \/ \E ceiling \in Ceilings : Send(ceiling)
        \/ Cancel

Next == User \/ Works \/ \E l \in Level : Answers(l)

(* The agent's own code runs to its end: a provider answers or fails (the  *)
(* SDKs time out), commands are bounded, and a prompt is answered.         *)
Fairness == WF_vars(Works) /\ WF_vars(\E l \in Level : Answers(l))

Spec == Init /\ [][Next]_vars
FairSpec == Spec /\ Fairness
-----------------------------------------------------------------------------
(* Properties.                                                             *)

LoopType ==
  [pc : {"off", "top", "calling", "backoff", "approving", "prompting", "executing", "ended"},
   limit : 0..MaxIterations, toolCalls : 0..MaxToolCalls, iteration : 0..MaxIterations, attempt : 0..MaxProviderRetries,
   reservation : Nat, spent : Nat, executed : 0..MaxToolCalls,
   continuations : 0..MaxLengthContinuations, nudges : 0..MaxVerificationNudges,
   recoveries : 0..MaxToolTurnRecoveries, unavailable : 0..MaxUnavailableToolRecoveries,
   strongest : 0..2, askedForTests : BOOLEAN, needsVerification : BOOLEAN, unverified : BOOLEAN,
   credit : [Call -> Int], batch : Seq(Call), marks : Seq({"waiting", "ok", "error"} \cup InHand \cup Evidence),
   at : Nat \ {0}, status : Outcome \cup {"threw", None}]

(* Every variable has its type, and every counter of a runtime keeps to    *)
(* the limit the request or a constant of agent-runtime.ts gives it.       *)
TypeOK ==
  /\ mode \in Mode /\ cancelled \in BOOLEAN
  /\ turn \in [number : 0..MaxTurns, status : TurnStatus \cup {None}, ceiling : Nat, compaction : Nat,
               delegated : Nat, threw : BOOLEAN]
  /\ loop \in [Level -> LoopType]
  /\ standing \in [Call -> {"allow", "deny", None}] /\ saved \in [Call -> {"allow", "deny", None}]
  /\ always \subseteq Call /\ unrecorded \in Int

(* A call that changes something runs alone: whatever was emitted before   *)
(* it has ended and nothing emitted after it is even announced, so every   *)
(* call sees exactly the changes emitted before it.  The order argument of *)
(* the grouping in execute.                                                *)
EffectsInEmittedOrder ==
  \A l \in Level : \A i \in DOMAIN loop[l].batch :
    (loop[l].marks[i] \in InHand /\ Effect(loop[l].batch[i]) # "none")
      => \A j \in DOMAIN loop[l].batch \ {i} :
           IF j < i THEN Done(loop[l].marks[j]) ELSE loop[l].marks[j] = "waiting"

(* No effect without consent: each execution of an action is covered by a  *)
(* permission for good, by auto mode for harmless workspace changes, or    *)
(* uses up one single permission given for this very batch; and nothing    *)
(* with an effect runs in plan mode.  Of PermissionLedger.decide and the   *)
(* approval loop in execute, for both levels of runtime.                   *)
EveryEffectWasConsented ==
  /\ \A l \in Level : \A c \in Call : loop[l].credit[c] >= 0
  /\ mode = "plan" => \A l \in Level : \A i \in DOMAIN loop[l].batch :
                        loop[l].marks[i] = "running" => Effect(loop[l].batch[i]) = "none"

(* Effects happen in the order they were asked for and as they were        *)
(* consented to.                                                           *)
EffectsAsConsented == EffectsInEmittedOrder /\ EveryEffectWasConsented

(* A runtime says "completed" only if no successful change of its own is   *)
(* left without passing verification after it, and "needs_verification"    *)
(* only if one is: the flag the runtime keeps, reading results one by one  *)
(* after a batch, agrees with what happened to the workspace.              *)
CompletedMeansVerified ==
  \A l \in Level : /\ loop[l].status = "completed" => ~loop[l].unverified
                   /\ loop[l].status = "needs_verification" => loop[l].unverified

(* All the money of a turn that did not throw is in the session's total:   *)
(* what compaction, the main runtime and every delegate spent.             *)
BillReconciles == (Idle /\ turn.number > 0 /\ ~turn.threw) => unrecorded = 0

(* However often a turn delegates, its delegates together spend no more    *)
(* than the ceiling leaves after compaction, and no runtime spends more    *)
(* than its reservation.  Of createDelegateRunner and execute.             *)
DelegatesWithinTheCeiling ==
  /\ \A l \in Level : loop[l].spent <= loop[l].reservation
  /\ ~Idle => turn.compaction + turn.delegated + loop["delegate"].spent <= turn.ceiling

(* The state of a turn is well formed and its bill adds up.                *)
TurnBooks == TypeOK /\ BillReconciles /\ DelegatesWithinTheCeiling

NoneAnnounced == \A l \in Level : \A i \in DOMAIN loop[l].marks : loop[l].marks[i] # "announced"

(* Once the person cancels, no request to the model begins and no call     *)
(* passes the check before its start, in the main runtime or in a          *)
(* delegate.  What still starts had passed it and was waiting for its      *)
(* journal entry or a hook; and at most one effect is among it, for when a *)
(* call with an effect starts no other call is left to.  Of the checks in  *)
(* execute and of its grouping.                                            *)
NothingNewAfterCancel ==
  [][(cancelled /\ cancelled') =>
       \A l \in Level :
         /\ loop'[l].pc = "calling" => loop[l].pc = "calling"
         /\ \A i \in DOMAIN loop'[l].marks :
              loop'[l].marks[i] \in InHand =>
                /\ i \in DOMAIN loop[l].marks /\ loop[l].marks[i] \in {"announced", loop'[l].marks[i]}
                /\ (loop'[l].marks[i] # loop[l].marks[i] /\ Effect(loop[l].batch[i]) # "none") => NoneAnnounced']_vars

(* Every turn comes to an end: the loop is bounded whatever the model      *)
(* replies, and no runtime waits for another that waits for it.            *)
TurnsEnd == (turn.status \in Active) ~> Idle

(* A call does not start once the person has cancelled: "Tool execution    *)
(* cancelled before start" (agent-runtime.ts:812).                         *)
NothingStartsAfterCancel ==
  [][(cancelled /\ cancelled') =>
       \A l \in Level : \A i \in DOMAIN loop'[l].marks :
         loop'[l].marks[i] = "running" => i \in DOMAIN loop[l].marks /\ loop[l].marks[i] = "running"]_vars

(* The status a turn ends in is the one its runtime stopped with.          *)
TurnReportsItsResult ==
  [][(loop["main"].pc = "ended" /\ loop'["main"].pc = "off") => turn'.status = loop["main"].status]_vars

(* maxRwf is the "ceiling for one turn of work".                           *)
TurnCostWithinCeiling == loop["main"].pc = "ended" => TurnRwf <= turn.ceiling
=============================================================================
