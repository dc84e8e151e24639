--------------------------- MODULE ScheduledRuns ---------------------------
(***************************************************************************)
(* The recurring schedules of the hosted product: scheduledRunsModel.ts,   *)
(* scheduledRuns.ts and the same path for calendar digests in              *)
(* googleCalendarModel.ts and googleCalendar.ts, over one pair of tables.  *)
(*                                                                         *)
(* A mutation is one step; a sweep (an action) makes several, and can be   *)
(* cut off between any two.  Occurrences of a schedule are numbered, and   *)
(* Last is its last one that nextCronOccurrence finds within 370 days.     *)
(***************************************************************************)
EXTENDS Naturals, Sequences, FiniteSets, FiniteSetsExt

CONSTANTS
  Coding, Calendar,       \* the schedules of either template
  Last,                   \* the last occurrence that is found, per schedule
  TakeLimit,              \* rows the claim of a sweep reads: 5 or 10 in the code
  MaxTime, MaxEdits, MaxCuts   \* bounds on the occurrences, status changes, cut sweeps

Schedules == Coding \cup Calendar
Sweeps == {"coding", "calendar"}
OfSweep(w) == IF w = "coding" THEN Coding ELSE Calendar

ASSUME ScheduleAssumption ==
  /\ IsFiniteSet(Schedules) /\ Coding \cap Calendar = {}
  /\ Last \in [Schedules -> Nat]
  /\ TakeLimit \in [Sweeps -> Nat \ {0}] /\ {MaxTime, MaxEdits, MaxCuts} \subseteq Nat

VARIABLES
  time,           \* the occurrence whose time it is
  status,         \* of a schedule
  nextRun,        \* the occurrence it is to run next, or None
  since,          \* history: the occurrence it was activated for
  runs,           \* connectorScheduleRuns: the status of an occurrence
  lapsed,         \* the claimed occurrences whose lease has run out
  todo, verdict,  \* the claims a sweep still has, what became of the first
  started,        \* history: the occurrences a task was started for
  edits, cuts

scheduleVars == <<time, status, nextRun, since, runs, lapsed, todo, verdict, started, edits, cuts>>

NotScheduled == 0
Occurrence == Schedules \X (1..MaxTime)

ScheduleInit ==
  /\ time = 0
  /\ status = [s \in Schedules |-> "paused"]
  /\ nextRun = [s \in Schedules |-> NotScheduled] /\ since = nextRun
  /\ runs = [o \in Occurrence |-> "none"] /\ lapsed = {}
  /\ todo = [w \in Sweeps |-> <<>>] /\ verdict = [w \in Sweeps |-> "none"]
  /\ started = {} /\ edits = 0 /\ cuts = 0

HasNext(s, k) == k < Last[s]

Pass ==
  /\ time < MaxTime
  /\ time' = time + 1
  /\ UNCHANGED <<status, nextRun, since, runs, lapsed, todo, verdict, started, edits, cuts>>

LeaseLapses(o) ==
  /\ runs[o] = "claimed" /\ o \notin lapsed
  /\ lapsed' = lapsed \cup {o}
  /\ UNCHANGED <<time, status, nextRun, since, runs, todo, verdict, started, edits, cuts>>

(* setScheduleStatus.                                                      *)
Activate(s) ==
  /\ edits < MaxEdits /\ HasNext(s, time) /\ time < MaxTime
  /\ edits' = edits + 1
  /\ status' = [status EXCEPT ![s] = "active"]
  /\ nextRun' = [nextRun EXCEPT ![s] = time + 1]
  /\ since' = [since EXCEPT ![s] = time + 1]
  /\ UNCHANGED <<time, runs, lapsed, todo, verdict, started, cuts>>

Deactivate(s) ==
  /\ edits < MaxEdits /\ status[s] = "active"
  /\ edits' = edits + 1
  /\ status' = [status EXCEPT ![s] = "paused"]
  /\ nextRun' = [nextRun EXCEPT ![s] = NotScheduled]
  /\ UNCHANGED <<time, since, runs, lapsed, todo, verdict, started, cuts>>
-----------------------------------------------------------------------------
Due == {s \in Schedules : status[s] = "active" /\ nextRun[s] # NotScheduled /\ nextRun[s] <= time}

(* take(limit) of an index: the first rows, in the order of the index.     *)
FirstOf(S, n, key(_)) ==
  {T \in kSubset(IF Cardinality(S) < n THEN Cardinality(S) ELSE n, S) :
     \A t \in T, u \in S \ T : key(t) <= key(u)}

(* Mutant: a sweep does not expire what lapsed.                            *)
ExpirableNone(w) == {{}}
Expirable(w) == FirstOf(lapsed, TakeLimit[w], LAMBDA o : 0)
Taken(w) == FirstOf(Due, TakeLimit[w], LAMBDA s : nextRun[s])

SeqsOf(S) == {q \in [1..Cardinality(S) -> S] : \A i, j \in DOMAIN q : q[i] = q[j] => i = j}

(* What a claim makes of one due schedule of its template: an occurrence   *)
(* that has a run is passed over.                                          *)
(* Mutant: the next occurrence after the present moment.                   *)
FollowingNow(s) == time + 1
(* Mutant: the schedule is not moved on.                                   *)
FollowingSame(s) == nextRun[s]
Following(s) == nextRun[s] + 1
Fresh(S) == {s \in S : runs[<<s, nextRun[s]>>] = "none"}

Claimed(own) == {<<s, nextRun[s]>> : s \in Fresh(own)}

(* What a claim writes.  One schedule with no next occurrence makes the    *)
(* whole mutation throw.                                                   *)
ClaimRows(w, expired, own) ==
  /\ expired # {} \/ own # {}
  /\ \A s \in own : HasNext(s, nextRun[s])
  /\ \E order \in SeqsOf(Claimed(own)) : todo' = [todo EXCEPT ![w] = order]
  /\ runs' = [o \in Occurrence |->
       IF o \in expired THEN "failed" ELSE IF o \in Claimed(own) THEN "claimed" ELSE runs[o]]
  /\ lapsed' = lapsed \ expired
  /\ nextRun' = [s \in Schedules |-> IF s \in own THEN Following(s) ELSE nextRun[s]]

(* claimDueCodingSchedules, claimDueSchedules: expires the claims it finds *)
(* lapsed, of either template, and claims what is due of its own.          *)
Claim(w) ==
  /\ todo[w] = <<>>
  /\ \E expired \in Expirable(w), taken \in Taken(w) :
       ClaimRows(w, expired, taken \cap OfSweep(w))
  /\ UNCHANGED <<time, status, since, verdict, started, edits, cuts>>

Decided(w, to) == verdict' = [verdict EXCEPT ![w] = to]

(* startCodingRun, idempotent by the run's id; or the calendar is read.    *)
Start(w) ==
  /\ todo[w] # <<>> /\ verdict[w] = "none"
  /\ Decided(w, "completed")
  /\ started' = IF w = "coding" THEN started \cup {Head(todo[w])} ELSE started
  /\ UNCHANGED <<time, status, nextRun, since, runs, lapsed, todo, edits, cuts>>

(* Mutant: a start that throws is recorded as a start.                     *)
StartThrowsUnnoticed(w) ==
  /\ todo[w] # <<>> /\ verdict[w] = "none"
  /\ Decided(w, "completed")
  /\ UNCHANGED <<time, status, nextRun, since, runs, lapsed, todo, started, edits, cuts>>

(* It throws, before or after it created the task.                         *)
StartThrows(w) ==
  /\ todo[w] # <<>> /\ verdict[w] = "none"
  /\ Decided(w, "failed")
  /\ started' \in {started, IF w = "coding" THEN started \cup {Head(todo[w])} ELSE started}
  /\ UNCHANGED <<time, status, nextRun, since, runs, lapsed, todo, edits, cuts>>

(* Mutants: the claim's status, or its lease, is not looked at.            *)
OwnsWithoutStatus(o) == o \notin lapsed
OwnsWithoutLease(o) == runs[o] = "claimed"
OwnsActiveClaim(o) == runs[o] = "claimed" /\ o \notin lapsed

(* completeCodingScheduleRun, completeScheduleRun.                         *)
Complete(w) ==
  /\ todo[w] # <<>> /\ verdict[w] # "none" /\ OwnsActiveClaim(Head(todo[w]))
  /\ runs' = [runs EXCEPT ![Head(todo[w])] = verdict[w]]
  /\ todo' = [todo EXCEPT ![w] = Tail(@)] /\ Decided(w, "none")
  /\ UNCHANGED <<time, status, nextRun, since, lapsed, started, edits, cuts>>

(* The completion throws; the one in the catch throws as well, and with it *)
(* the sweep: the claims it had not come to are left as they are.          *)
CompleteThrows(w) ==
  /\ todo[w] # <<>> /\ verdict[w] # "none" /\ ~OwnsActiveClaim(Head(todo[w]))
  /\ todo' = [todo EXCEPT ![w] = <<>>] /\ Decided(w, "none")
  /\ UNCHANGED <<time, status, nextRun, since, runs, lapsed, started, edits, cuts>>

(* The sweep is cut off: its host dies or its time is up.                  *)
CutOff(w) ==
  /\ todo[w] # <<>> /\ cuts < MaxCuts
  /\ cuts' = cuts + 1
  /\ todo' = [todo EXCEPT ![w] = <<>>] /\ Decided(w, "none")
  /\ UNCHANGED <<time, status, nextRun, since, runs, lapsed, started, edits>>
-----------------------------------------------------------------------------
Sweep(w) == Claim(w) \/ Start(w) \/ StartThrows(w) \/ Complete(w) \/ CompleteThrows(w)

ScheduleNext ==
  \/ Pass
  \/ \E o \in Occurrence : LeaseLapses(o)
  \/ \E s \in Schedules : Activate(s) \/ Deactivate(s)
  \/ \E w \in Sweeps : Sweep(w) \/ CutOff(w)

ScheduleSpec == ScheduleInit /\ [][ScheduleNext]_scheduleVars

(* The crons start either sweep again and again, a sweep goes on unless it *)
(* is cut off, and every lease runs out in the end.                        *)
ScheduleFairSpec ==
  /\ ScheduleSpec
  /\ \A w \in Sweeps : WF_scheduleVars(Sweep(w))
  /\ WF_scheduleVars(\E o \in Occurrence : LeaseLapses(o))
-----------------------------------------------------------------------------
(* The two tables and the two sweeps.                                      *)
ScheduleTypeOK ==
  /\ time \in 0..MaxTime
  /\ status \in [Schedules -> {"active", "paused"}]
  /\ nextRun \in [Schedules -> 0..(MaxTime + 1)]
  /\ since \in [Schedules -> 0..MaxTime]
  /\ runs \in [Occurrence -> {"none", "claimed", "completed", "failed"}]
  /\ lapsed \subseteq {o \in Occurrence : runs[o] = "claimed"}
  /\ todo \in [Sweeps -> Seq(Occurrence)]
  /\ verdict \in [Sweeps -> {"none", "completed", "failed"}]
  /\ started \subseteq Occurrence
  /\ edits \in 0..MaxEdits /\ cuts \in 0..MaxCuts

(* While a schedule stays active, no occurrence is passed over, however    *)
(* late the sweep comes: each one before the next has its run.             *)
NoOccurrenceSkipped ==
  \A s \in Schedules : status[s] = "active" =>
    \A k \in since[s]..(nextRun[s] - 1) : runs[<<s, k>>] # "none"

(* A run that reads completed had its task started, also when the lease    *)
(* of its claim ran out and the other sweep expired it meanwhile.          *)
CompletedMeansStarted ==
  \A o \in Occurrence : o[1] \in Coding /\ runs[o] = "completed" => o \in started

(* Occurrences are neither skipped nor claimed to have happened.           *)
OccurrencesAreKept == ScheduleTypeOK /\ NoOccurrenceSkipped /\ CompletedMeansStarted

(* The outcome that is recorded for an occurrence is never replaced: not   *)
(* by a sweep that comes late, after another expired its claim.            *)
RecordedOutcomesStand ==
  [][\A o \in Occurrence : runs[o] \in {"completed", "failed"} => runs'[o] = runs[o]]_scheduleVars

(* Every claim is resolved, though its sweep was cut off or threw: another *)
(* sweep expires it.                                                       *)
ClaimsAreResolved ==
  \A s \in Schedules : []<>(\A k \in 1..MaxTime : runs[<<s, k>>] # "claimed")

(* Every due schedule is claimed (scheduledRuns.ts:9), although a sweep    *)
(* reads a limited number of due schedules, of both templates.             *)
DueSchedulesAreClaimed == \A s \in Schedules : []<>(s \notin Due)

(* Schedules go on being claimed, and their claims being resolved.         *)
SchedulesGoOn == ClaimsAreResolved /\ DueSchedulesAreClaimed
=============================================================================
