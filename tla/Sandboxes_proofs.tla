-------------------------- MODULE Sandboxes_proofs --------------------------
(***************************************************************************)
(* What holds of a run's sandboxes for every number of them, of steps, of  *)
(* attempts and of faults.                                                 *)
(***************************************************************************)
EXTENDS Sandboxes, TLAPS

USE SandboxAssumption DEF Workers, Nobody

LEMMA Bounds ==
  MaxClaims \in Nat /\ Steps \in Nat /\ MaxAttempts \in Nat /\ MaxFaults \in Nat
OBVIOUS

(* A step that is claimed is to be done, by a worker that was counted.     *)
Claimed == owner # Nobody => left > 0 /\ owner <= claims

(* A run that completed or failed has no step claimed, and a sandbox is    *)
(* scheduled to be destroyed only when its run has ended.                  *)
EndsUnclaimed == run \in {"completed", "failed"} => owner = Nobody
KillsAfterEnd == kills # {} => run \in Ended

(* What the reaper reads is old, and what is old was made.                 *)
ReapsOld ==
  /\ sweep \subseteq old /\ (doomed # None => doomed \in old)
  /\ \A b \in old : vm[b] # "none"

(* The sandbox of a live run was not found dead.                           *)
RunBoxSpared == run \notin Ended /\ doomed # None => doomed # runBox

(* A worker that has the lease was told the sandbox the run has, and one   *)
(* that has acquired another has made it a moment ago.                     *)
ToldTheRunBox ==
  \A w \in Workers : Holds(w) /\ run \notin Ended /\ phase[w] = "starts" => reuse[w] = runBox
AcquiredFresh ==
  \A w \in Workers : AtWork(w) /\ phase[w] = "acquired" => box[w] = runBox \/ box[w] \notin old
HoldsABox ==
  \A w \in Workers : phase[w] \in {"acquired", "planning", "building"} => box[w] \in Boxes

IInv ==
  /\ TypeOK /\ Claimed /\ EndsUnclaimed /\ KillsAfterEnd /\ ReapsOld /\ RunBoxSpared
  /\ ToldTheRunBox /\ AcquiredFresh /\ HoldsABox
  /\ ReaperSparesTheWorkspace /\ RunBoxIsTheWorkspace /\ PreviewIsSafe
-----------------------------------------------------------------------------
(* The actions that leave the run, its record and the step's claim alone.  *)
Aside(w) ==
  \/ Join(w) \/ Create(w) \/ StartsInVain(w) \/ Disowned(w) \/ PlanReady(w) \/ Abandon(w)
  \/ BuildEnds(w) \/ BuildThrows(w) \/ NotRecorded(w) \/ Crash(w)
ReapsAside == ReapLists \/ ReapStops \/ \E b \in Boxes : ReapChecks(b)

LEMMA AsideChanges ==
  /\ \A w : Aside(w) => UNCHANGED <<run, runBox, preview, lease, kills, reaper, old>>
  /\ ReapsAside => UNCHANGED <<run, runBox, preview, lease, kills, workers, old>>
  /\ \A b : Destroy(b) => UNCHANGED <<run, runBox, preview, lease, workers, old, reaper>>
  /\ \A b : Ages(b) => UNCHANGED <<run, runBox, preview, lease, workers, kills, reaper, vm>>
BY DEF Aside, ReapsAside, Join, Create, StartsInVain, Disowned, PlanReady, Abandon, BuildEnds,
       BuildThrows, NotRecorded, Crash, ReapLists, ReapStops, ReapChecks, Destroy, Ages,
       record, lease, workers, provider, reaper

LEMMA StepCases ==
  ASSUME [Next]_vars
  PROVE  \/ Lapse \/ Cancel \/ Recover \/ PreviewCloses \/ ReapsAside \/ UNCHANGED vars
         \/ \E w \in Workers : \/ Claim(w) \/ Bind(w) \/ Completed(w) \/ Fails(w)
                              \/ GivesBack(w) \/ Aside(w)
         \/ \E b \in Boxes : Destroy(b) \/ Ages(b)
BY DEF Next, Works, Reaps, Aside, ReapsAside

(* The records keep their types.                                           *)
LEMMA TypeStep == TypeOK /\ Claimed /\ EndsUnclaimed /\ HoldsABox /\ [Next]_vars => TypeOK'
<1> SUFFICES ASSUME TypeOK, Claimed, EndsUnclaimed, HoldsABox, [Next]_vars PROVE TypeOK'
  OBVIOUS
<1> USE Bounds
<1>1. CASE Lapse BY <1>1 DEF Lapse, TypeOK, record, workers, provider, reaper
<1>2. CASE Cancel
  BY <1>2 DEF Cancel, Release, TypeOK, Ended, lease, workers, provider, reaper
<1>3. CASE Recover
  <2>1. run # "completed" /\ preview = "none" BY <1>3 DEF Recover, EndsUnclaimed, TypeOK
  <2>2. run' \in {"queued", "running"} \cup Ended /\ runBox' \in Boxes \cup {None}
    BY <1>3 DEF Recover, Release, TypeOK, Ended
  <2>3. kills' \subseteq Boxes BY <1>3 DEF Recover, Release, TypeOK
  <2> QED BY <1>3, <2>1, <2>2, <2>3 DEF Recover, TypeOK, workers, provider, reaper
<1>4. CASE PreviewCloses
  BY <1>4 DEF PreviewCloses, TypeOK, lease, workers, provider, reaper
<1>5. ASSUME NEW w \in Workers, Claim(w) PROVE TypeOK'
  <2>1. preview = "none" BY <1>5 DEF Claim, TypeOK
  <2>2. claims' \in 0..MaxClaims /\ owner' \in Workers /\ tries' \in Nat
    BY <1>5 DEF Claim, TypeOK
  <2>3. phase' \in [Workers -> {"idle", "starts", "acquired", "planning", "building",
                                "built", "failed", "stopped", "throws", "over"}]
    BY <1>5 DEF Claim, Goes, TypeOK
  <2>4. reuse' \in [Workers -> Boxes \cup {None}] BY <1>5 DEF Claim, TypeOK
  <2> QED BY <1>5, <2>1, <2>2, <2>3, <2>4 DEF Claim, TypeOK, provider, reaper
<1>6. ASSUME NEW w \in Workers, Bind(w) PROVE TypeOK'
  <2>1. box[w] \in Boxes BY <1>6 DEF Bind, HoldsABox
  <2> QED BY <1>6, <2>1 DEF Bind, Goes, TypeOK, lease, provider, reaper
<1>7. ASSUME NEW w \in Workers, Completed(w) PROVE TypeOK'
  <2>1. owner = w /\ left > 0 /\ run # "cancelled"
    BY <1>7 DEF Completed, Records, Holds, Claimed
  <2>2. run # "completed" /\ preview = "none" BY <2>1 DEF EndsUnclaimed, TypeOK
  <2>3. left' \in 0..Steps BY <1>7, <2>1 DEF Completed, TypeOK
  <2>4. phase' \in [Workers -> {"idle", "starts", "acquired", "planning", "building",
                                "built", "failed", "stopped", "throws", "over"}]
    BY <1>7 DEF Completed, Goes, TypeOK
  <2> QED BY <1>7, <2>2, <2>3, <2>4 DEF Completed, TypeOK, Ended, provider, reaper
<1>8. ASSUME NEW w \in Workers, Fails(w) PROVE TypeOK'
  <2>1. preview = "none" BY <1>8 DEF Fails, Records, Holds, EndsUnclaimed, TypeOK
  <2>2. kills' \subseteq Boxes BY <1>8 DEF Fails, Release, TypeOK
  <2>3. phase' \in [Workers -> {"idle", "starts", "acquired", "planning", "building",
                                "built", "failed", "stopped", "throws", "over"}]
    BY <1>8 DEF Fails, Goes, TypeOK
  <2> QED BY <1>8, <2>1, <2>2, <2>3 DEF Fails, Release, TypeOK, Ended, provider, reaper
<1>9. ASSUME NEW w \in Workers, GivesBack(w) PROVE TypeOK'
  <2>1. preview = "none" BY <1>9 DEF GivesBack, Records, Holds, EndsUnclaimed, TypeOK
  <2>2. phase' \in [Workers -> {"idle", "starts", "acquired", "planning", "building",
                                "built", "failed", "stopped", "throws", "over"}]
    BY <1>9 DEF GivesBack, Goes, TypeOK
  <2> QED BY <1>9, <2>1, <2>2 DEF GivesBack, TypeOK, Ended, provider, reaper
<1>10. ASSUME NEW w \in Workers, Aside(w) PROVE TypeOK'
  <2>1. UNCHANGED <<run, runBox, preview, lease, kills, reaper, old>> BY <1>10, AsideChanges
  <2>2. /\ phase' \in [Workers -> {"idle", "starts", "acquired", "planning", "building",
                                   "built", "failed", "stopped", "throws", "over"}]
        /\ UNCHANGED reuse
    BY <1>10 DEF Aside, Join, Create, StartsInVain, Disowned, PlanReady, Abandon, BuildEnds,
       BuildThrows, NotRecorded, Crash, Goes, TypeOK, workers
  <2>3. box' \in [Workers -> Boxes \cup {None}] /\ faults' \in 0..MaxFaults
    BY <1>10 DEF Aside, Join, Create, StartsInVain, Disowned, PlanReady, Abandon, BuildEnds,
       BuildThrows, NotRecorded, Crash, Fault, NoFault, Exists, TypeOK
  <2>4. vm' \in [Boxes -> {"none", "running", "suspended", "gone"}]
    BY <1>10 DEF Aside, Join, Create, StartsInVain, Disowned, PlanReady, Abandon, BuildEnds,
       BuildThrows, NotRecorded, Crash, TypeOK, provider
  <2> QED BY <2>1, <2>2, <2>3, <2>4 DEF TypeOK, lease, reaper
<1>11. CASE ReapsAside
  BY <1>11 DEF ReapsAside, ReapLists, ReapChecks, ReapStops, Stop, Fault, NoFault, TypeOK,
     record, lease, workers, provider
<1>12. ASSUME NEW b \in Boxes, Destroy(b) PROVE TypeOK'
  BY <1>12 DEF Destroy, Stop, Fault, NoFault, TypeOK, record, lease, workers, reaper
<1>13. ASSUME NEW b \in Boxes, Ages(b) PROVE TypeOK'
  BY <1>13 DEF Ages, TypeOK, record, lease, workers, reaper
<1>14. CASE UNCHANGED vars BY <1>14 DEF vars, TypeOK
<1> QED BY StepCases, <1>1, <1>2, <1>3, <1>4, <1>5, <1>6, <1>7, <1>8, <1>9, <1>10, <1>11,
           <1>12, <1>13, <1>14

(* Who holds the lease, and what a claim and the end of a run mean for it. *)
LEMMA LeaseStep ==
  TypeOK /\ Claimed /\ EndsUnclaimed /\ KillsAfterEnd /\ [Next]_vars
    => Claimed' /\ EndsUnclaimed' /\ KillsAfterEnd'
<1> SUFFICES ASSUME TypeOK, Claimed, EndsUnclaimed, KillsAfterEnd, [Next]_vars
             PROVE  Claimed' /\ EndsUnclaimed' /\ KillsAfterEnd'
  OBVIOUS
<1> USE Bounds DEF Claimed, EndsUnclaimed, KillsAfterEnd, TypeOK
<1>1. CASE Lapse BY <1>1 DEF Lapse, record
<1>2. CASE Cancel BY <1>2 DEF Cancel, Release, Ended, lease
<1>3. CASE Recover BY <1>3 DEF Recover, Release, Ended
<1>4. CASE PreviewCloses BY <1>4 DEF PreviewCloses, Ended, lease
<1>5. ASSUME NEW w \in Workers, Claim(w) PROVE Claimed' /\ EndsUnclaimed' /\ KillsAfterEnd'
  BY <1>5 DEF Claim, Ended
<1>6. ASSUME NEW w \in Workers, Bind(w) \/ Aside(w)
      PROVE  Claimed' /\ EndsUnclaimed' /\ KillsAfterEnd'
  <2>1. UNCHANGED <<run, lease, kills>> BY <1>6, AsideChanges DEF Bind
  <2> QED BY <2>1 DEF lease
<1>7. ASSUME NEW w \in Workers, Completed(w) \/ Fails(w) \/ GivesBack(w)
      PROVE  Claimed' /\ EndsUnclaimed' /\ KillsAfterEnd'
  <2>1. owner = w /\ owner' = Nobody
    BY <1>7 DEF Completed, Fails, GivesBack, Records, Holds
  <2>2. KillsAfterEnd'
    BY <1>7, <2>1 DEF Completed, Fails, GivesBack, Records, Release, Ended
  <2> QED BY <2>1, <2>2
<1>8. CASE ReapsAside
  <2>1. UNCHANGED <<run, lease, kills>> BY <1>8, AsideChanges
  <2> QED BY <2>1 DEF lease
<1>9. ASSUME NEW b \in Boxes, Destroy(b) \/ Ages(b)
      PROVE  Claimed' /\ EndsUnclaimed' /\ KillsAfterEnd'
  <2>1. UNCHANGED <<run, lease>> /\ kills' \subseteq kills BY <1>9, AsideChanges DEF Destroy
  <2> QED BY <2>1 DEF lease
<1>10. CASE UNCHANGED vars BY <1>10 DEF vars
<1> QED BY StepCases, <1>1, <1>2, <1>3, <1>4, <1>5, <1>6, <1>7, <1>8, <1>9, <1>10

(* The reaper reads what is old, and a sandbox is never made again.        *)
LEMMA ReapStep == TypeOK /\ HoldsABox /\ ReapsOld /\ [Next]_vars => ReapsOld'
<1> SUFFICES ASSUME TypeOK, HoldsABox, ReapsOld, [Next]_vars PROVE ReapsOld' OBVIOUS
<1>1. ASSUME UNCHANGED <<old, sweep, doomed>>,
             \A b \in Boxes : vm[b] # "none" => vm'[b] # "none"
      PROVE  ReapsOld'
  BY <1>1 DEF ReapsOld, TypeOK
<1>2. ASSUME NEW w \in Workers, Aside(w) PROVE ReapsOld'
  <2>1. UNCHANGED <<old, sweep, doomed>> BY <1>2, AsideChanges DEF reaper
  <2>2. \A b \in Boxes : vm[b] # "none" => vm'[b] # "none"
    BY <1>2 DEF Aside, Join, Create, StartsInVain, Disowned, PlanReady, Abandon, BuildEnds,
       BuildThrows, NotRecorded, Crash, TypeOK, provider
  <2> QED BY <1>1, <2>1, <2>2
<1>3. CASE ReapsAside
  <2>1. sweep' \subseteq old /\ (doomed' # None => doomed' \in old) /\ UNCHANGED old
    BY <1>3 DEF ReapsAside, ReapLists, ReapChecks, ReapStops, ReapsOld, provider
  <2>2. \A b \in Boxes : vm[b] # "none" => vm'[b] # "none"
    BY <1>3 DEF ReapsAside, ReapLists, ReapChecks, ReapStops, Stop, TypeOK, provider
  <2> QED BY <2>1, <2>2 DEF ReapsOld, TypeOK
<1>4. ASSUME NEW b \in Boxes, Destroy(b) PROVE ReapsOld'
  <2>1. UNCHANGED <<old, sweep, doomed>> BY <1>4 DEF Destroy, reaper
  <2>2. \A c \in Boxes : vm[c] # "none" => vm'[c] # "none"
    BY <1>4 DEF Destroy, Stop, TypeOK
  <2> QED BY <1>1, <2>1, <2>2
<1>5. ASSUME NEW b \in Boxes, Ages(b) PROVE ReapsOld'
  BY <1>5 DEF Ages, Exists, ReapsOld, reaper
<1>6. CASE UNCHANGED <<provider, reaper>>
  BY <1>1, <1>6 DEF provider, reaper
<1> QED BY StepCases, <1>2, <1>3, <1>4, <1>5, <1>6 DEF Lapse, Cancel, Recover, PreviewCloses,
       Claim, Bind, Completed, Fails, GivesBack, vars, provider, reaper

(* A worker past its start has a sandbox.                                  *)
LEMMA BoxStep == TypeOK /\ HoldsABox /\ [Next]_vars => HoldsABox'
<1> SUFFICES ASSUME TypeOK, HoldsABox, [Next]_vars PROVE HoldsABox' OBVIOUS
<1>1. CASE UNCHANGED workers BY <1>1 DEF HoldsABox, workers
<1>2. ASSUME NEW w \in Workers, Claim(w) \/ Bind(w) \/ Completed(w) \/ Fails(w) \/ GivesBack(w)
      PROVE  HoldsABox'
  <2>1. UNCHANGED box BY <1>2 DEF Claim, Bind, Completed, Fails, GivesBack
  <2>2. \A v \in Workers : phase'[v] = phase[v] \/ phase[v] = "acquired"
                           \/ phase'[v] \in {"starts", "over"}
    BY <1>2 DEF Claim, Bind, Completed, Fails, GivesBack, Goes, TypeOK
  <2> QED BY <2>1, <2>2 DEF HoldsABox
<1>3. ASSUME NEW w \in Workers, Join(w) \/ Create(w) PROVE HoldsABox'
  <2>1. box'[w] \in Boxes BY <1>3 DEF Join, Create, Exists, TypeOK
  <2>2. \A v \in Workers \ {w} : box'[v] = box[v] /\ phase'[v] = phase[v]
    BY <1>3 DEF Join, Create, Goes, TypeOK
  <2> QED BY <2>1, <2>2 DEF HoldsABox
<1>4. ASSUME NEW w \in Workers, Aside(w), ~Join(w), ~Create(w) PROVE HoldsABox'
  <2>1. UNCHANGED box
    BY <1>4 DEF Aside, StartsInVain, Disowned, PlanReady, Abandon, BuildEnds, BuildThrows,
       NotRecorded, Crash, workers
  <2>2. \A v \in Workers : \/ phase'[v] = phase[v] \/ phase[v] = "planning"
                           \/ phase'[v] \notin {"acquired", "planning", "building"}
    BY <1>4 DEF Aside, StartsInVain, Disowned, PlanReady, Abandon, BuildEnds, BuildThrows,
       NotRecorded, Crash, Goes, TypeOK
  <2> QED BY <2>1, <2>2 DEF HoldsABox
<1>5. ASSUME NEW b \in Boxes, Destroy(b) \/ Ages(b) PROVE UNCHANGED workers
  BY <1>5, AsideChanges
<1> QED BY StepCases, AsideChanges, <1>1, <1>2, <1>3, <1>4, <1>5 DEF Lapse, Cancel, Recover,
       PreviewCloses, vars, workers

(* What is said of the run's sandbox, of its worker and of the preview.    *)
WorkerInv ==
  ToldTheRunBox /\ AcquiredFresh /\ ReaperSparesTheWorkspace /\ RunBoxIsTheWorkspace
BoxInv == RunBoxSpared /\ WorkerInv /\ PreviewIsSafe

(* A run that ended has neither worker nor preview to lose.                *)
LEMMA EndStep ==
  ASSUME IInv,
         \/ Cancel \/ Recover \/ PreviewCloses
         \/ \E w \in Workers : Completed(w) \/ Fails(w) \/ GivesBack(w)
  PROVE  BoxInv'
<1> USE DEF IInv
<1>1. ASSUME Cancel PROVE BoxInv'
  <2>1. WorkerInv'
    <3>1. \A w \in Workers : ~(Holds(w)' /\ run' \notin Ended) BY <1>1 DEF Cancel, Ended
    <3> QED BY <3>1 DEF WorkerInv, ToldTheRunBox, AcquiredFresh, ReaperSparesTheWorkspace,
               RunBoxIsTheWorkspace, AtWork, Holds
  <2>2. RunBoxSpared' BY <1>1 DEF Cancel, RunBoxSpared, Ended
  <2>3. PreviewIsSafe' BY <1>1 DEF Cancel, PreviewIsSafe, TypeOK, Ended
  <2> QED BY <2>1, <2>2, <2>3 DEF BoxInv
<1>2. ASSUME PreviewCloses PROVE BoxInv'
  <2>1. run = "completed" /\ run' = run /\ preview' = "over"
    BY <1>2 DEF PreviewCloses, TypeOK
  <2>2. WorkerInv'
    BY <2>1 DEF WorkerInv, ToldTheRunBox, AcquiredFresh, ReaperSparesTheWorkspace,
       RunBoxIsTheWorkspace, AtWork, Ended
  <2> QED BY <2>1, <2>2 DEF BoxInv, RunBoxSpared, PreviewIsSafe, Ended
<1>3. ASSUME owner # Nobody, owner' = Nobody, UNCHANGED doomed,
             \/ Recover \/ \E w \in Workers : Completed(w) \/ Fails(w) \/ GivesBack(w)
      PROVE  BoxInv'
  <2>1. run \notin {"completed", "failed"} /\ preview = "none"
    BY <1>3 DEF EndsUnclaimed, TypeOK
  <2>2. WorkerInv'
    BY <1>3 DEF WorkerInv, ToldTheRunBox, AcquiredFresh, ReaperSparesTheWorkspace,
       RunBoxIsTheWorkspace, AtWork, Holds
  <2>3. RunBoxSpared'
    BY <1>3, <2>1 DEF RunBoxSpared, Recover, Completed, Fails, GivesBack, Records, Release, Ended
  <2>4. PreviewIsSafe'
    <3>1. CASE preview' # "open" BY <3>1 DEF PreviewIsSafe
    <3>2. CASE preview' = "open"
      <4>1. PICK w \in Workers : Completed(w)
        BY <1>3, <2>1, <3>2 DEF Recover, Fails, GivesBack
      <4>2. run \notin Ended /\ runBox # None /\ UNCHANGED <<runBox, kills>>
        BY <2>1, <3>2, <4>1 DEF Completed, Records, Ended
      <4>3. kills = {} /\ doomed # runBox
        BY <4>2 DEF KillsAfterEnd, RunBoxSpared
      <4> QED BY <1>3, <4>2, <4>3 DEF PreviewIsSafe
    <3> QED BY <3>1, <3>2
  <2> QED BY <2>2, <2>3, <2>4 DEF BoxInv
<1>4. ASSUME Recover \/ \E w \in Workers : Completed(w) \/ Fails(w) \/ GivesBack(w)
      PROVE  owner # Nobody /\ owner' = Nobody /\ UNCHANGED doomed
  BY <1>4 DEF Recover, Completed, Fails, GivesBack, Records, Holds, reaper
<1> QED BY <1>1, <1>2, <1>3, <1>4

(* The worker's own steps: it was told the run's sandbox, joins that or    *)
(* makes one, and binds it before it plans and builds.                     *)
LEMMA WorkStep ==
  ASSUME IInv,
         \E w \in Workers : Claim(w) \/ Bind(w) \/ Aside(w)
  PROVE  BoxInv'
<1> USE DEF IInv
<1>1. ASSUME NEW w \in Workers, Claim(w) PROVE BoxInv'
  <2>1. /\ run \notin Ended /\ run' = "running" /\ owner' = w /\ preview = "none"
        /\ UNCHANGED <<runBox, preview, kills, doomed>>
    BY <1>1 DEF Claim, Ended, TypeOK, reaper
  <2>2. phase'[w] = "starts" /\ reuse'[w] = runBox BY <1>1 DEF Claim, Goes, TypeOK
  <2>3. WorkerInv'
    BY <2>1, <2>2 DEF WorkerInv, ToldTheRunBox, AcquiredFresh, ReaperSparesTheWorkspace,
       RunBoxIsTheWorkspace, AtWork, Holds
  <2> QED BY <2>1, <2>3 DEF BoxInv, RunBoxSpared, PreviewIsSafe
<1>2. ASSUME NEW w \in Workers, Bind(w) PROVE BoxInv'
  <2>1. /\ owner = w /\ ~lapsed /\ phase[w] = "acquired" /\ phase'[w] = "planning"
        /\ UNCHANGED <<run, preview, owner, lapsed, box, kills, doomed, old>>
    BY <1>2 DEF Bind, Holds, Goes, TypeOK, lease, reaper, provider
  <2>2. run \notin {"completed", "failed"} /\ preview = "none"
    BY <2>1 DEF EndsUnclaimed, TypeOK
  <2>3. PreviewIsSafe' BY <2>1, <2>2 DEF PreviewIsSafe
  <2>4. CASE run = "cancelled"
    BY <2>1, <2>3, <2>4 DEF BoxInv, RunBoxSpared, WorkerInv, ToldTheRunBox, AcquiredFresh,
       ReaperSparesTheWorkspace, RunBoxIsTheWorkspace, AtWork, Ended
  <2>5. CASE run # "cancelled"
    <3>1. run \notin Ended /\ runBox' = box[w] BY <1>2, <2>2, <2>5 DEF Bind, Ended
    <3>2. doomed # box[w] /\ box[w] \notin kills
      BY <2>1, <3>1 DEF ReaperSparesTheWorkspace, AtWork
    <3>3. WorkerInv'
      BY <2>1, <3>1, <3>2 DEF WorkerInv, ToldTheRunBox, AcquiredFresh,
         ReaperSparesTheWorkspace, RunBoxIsTheWorkspace, AtWork, Holds
    <3> QED BY <2>1, <2>3, <3>1, <3>2, <3>3 DEF BoxInv, RunBoxSpared
  <2> QED BY <2>4, <2>5
<1>3. ASSUME NEW w \in Workers, Aside(w) PROVE RunBoxSpared' /\ PreviewIsSafe'
  <2>1. UNCHANGED <<run, runBox, preview, kills, doomed>> BY <1>3, AsideChanges DEF reaper
  <2> QED BY <2>1 DEF RunBoxSpared, PreviewIsSafe
<1>4. ASSUME NEW w \in Workers, Join(w) \/ Create(w) PROVE WorkerInv'
  <2>1. /\ owner = w /\ ~lapsed /\ run # "cancelled" /\ phase[w] = "starts"
        /\ UNCHANGED <<run, runBox, owner, lapsed, reuse, old, kills, doomed>>
    BY <1>4 DEF Join, Create, Holds, record, lease, reaper
  <2>2. run \notin Ended BY <2>1 DEF EndsUnclaimed, Ended
  <2>3. reuse[w] = runBox /\ kills = {}
    BY <2>1, <2>2 DEF ToldTheRunBox, Holds, KillsAfterEnd
  <2>4. /\ phase'[w] = "acquired" /\ box'[w] # doomed
        /\ box'[w] = runBox \/ box'[w] \notin old
    <3>1. CASE Join(w)
      <4>1. box'[w] = runBox /\ runBox \in Boxes /\ phase'[w] = "acquired"
        BY <2>3, <3>1 DEF Join, Exists, Goes, TypeOK
      <4> QED BY <2>2, <4>1 DEF RunBoxSpared
    <3>2. CASE Create(w)
      <4>1. PICK b \in Boxes : vm[b] = "none" /\ box' = [box EXCEPT ![w] = b]
        BY <3>2 DEF Create
      <4>2. b \notin old /\ b # doomed BY <4>1 DEF ReapsOld
      <4> QED BY <3>2, <4>1, <4>2 DEF Create, Goes, TypeOK
    <3> QED BY <1>4, <3>1, <3>2
  <2> QED BY <2>1, <2>3, <2>4 DEF WorkerInv, ToldTheRunBox, AcquiredFresh,
             ReaperSparesTheWorkspace, RunBoxIsTheWorkspace, AtWork, Holds
<1>5. ASSUME NEW w \in Workers, Aside(w), ~Join(w), ~Create(w) PROVE WorkerInv'
  <2>1. UNCHANGED <<run, runBox, lease, kills, doomed, old>> BY <1>5, AsideChanges DEF reaper
  <2>2. UNCHANGED <<box, reuse>>
    BY <1>5 DEF Aside, StartsInVain, Disowned, PlanReady, Abandon, BuildEnds, BuildThrows,
       NotRecorded, Crash, workers
  <2>3. \A v \in Workers : \/ phase'[v] = phase[v]
                           \/ phase[v] = "planning" /\ phase'[v] = "building"
                           \/ phase'[v] \notin {"starts", "acquired", "planning", "building"}
    BY <1>5 DEF Aside, StartsInVain, Disowned, PlanReady, Abandon, BuildEnds, BuildThrows,
       NotRecorded, Crash, Goes, TypeOK
  <2> QED BY <2>1, <2>2, <2>3 DEF WorkerInv, ToldTheRunBox, AcquiredFresh,
             ReaperSparesTheWorkspace, RunBoxIsTheWorkspace, AtWork, Holds, lease
<1> QED BY <1>1, <1>2, <1>3, <1>4, <1>5 DEF BoxInv

(* The reaper, the clock and the scheduled destroys: what is found dead is *)
(* old and not the run's, so no worker with the lease is in it.            *)
LEMMA OutsideStep ==
  ASSUME IInv,
         Lapse \/ ReapsAside \/ (\E b \in Boxes : Destroy(b) \/ Ages(b)) \/ UNCHANGED vars
  PROVE  BoxInv'
<1> USE DEF IInv
<1>1. ASSUME Lapse PROVE BoxInv'
  <2>1. UNCHANGED <<run, runBox, preview, kills, doomed>> /\ lapsed'
    BY <1>1 DEF Lapse, record, reaper
  <2> QED BY <2>1 DEF BoxInv, WorkerInv, RunBoxSpared, PreviewIsSafe, ToldTheRunBox,
             AcquiredFresh, ReaperSparesTheWorkspace, RunBoxIsTheWorkspace, AtWork, Holds
<1>2. ASSUME UNCHANGED <<run, runBox, preview, lease, workers>>, kills' \subseteq kills,
             doomed' \in {doomed, None}, old' = old
      PROVE  BoxInv'
  <2>1. PreviewIsSafe' BY <1>2 DEF PreviewIsSafe, TypeOK
  <2>2. RunBoxSpared' BY <1>2 DEF RunBoxSpared
  <2>3. ReaperSparesTheWorkspace'
    BY <1>2 DEF ReaperSparesTheWorkspace, HoldsABox, AtWork, lease, workers
  <2> QED BY <1>2, <2>1, <2>2, <2>3 DEF BoxInv, WorkerInv, ToldTheRunBox, AcquiredFresh,
             RunBoxIsTheWorkspace, AtWork, Holds, lease, workers
<1>3. ASSUME NEW b \in Boxes, ReapChecks(b) PROVE BoxInv'
  <2>1. UNCHANGED <<run, runBox, preview, lease, kills, workers, old>>
    BY <1>3 DEF ReapChecks, record, provider
  <2>2. CASE doomed' = None BY <1>2, <2>1, <2>2
  <2>3. CASE doomed' # None
    <3>1. doomed' = b /\ b \in old /\ ~IsSandboxLive(b)
      BY <1>3, <2>3 DEF ReapChecks, ReapsOld
    <3>2. run \notin Ended \/ preview = "open" => b # runBox BY <3>1 DEF IsSandboxLive
    <3>3. \A w \in Workers : AtWork(w) => box[w] # b
      BY <3>1, <3>2 DEF AcquiredFresh, RunBoxIsTheWorkspace, AtWork
    <3>4. ReaperSparesTheWorkspace'
      BY <2>1, <3>1, <3>3 DEF ReaperSparesTheWorkspace, AtWork, lease, workers
    <3>5. RunBoxSpared' /\ PreviewIsSafe'
      BY <2>1, <3>1, <3>2 DEF RunBoxSpared, PreviewIsSafe
    <3> QED BY <2>1, <3>4, <3>5 DEF BoxInv, WorkerInv, ToldTheRunBox, AcquiredFresh,
               RunBoxIsTheWorkspace, AtWork, Holds, lease, workers
  <2> QED BY <2>2, <2>3
<1>4. ASSUME ReapLists \/ ReapStops PROVE BoxInv'
  <2>1. UNCHANGED <<run, runBox, preview, lease, kills, workers, old>> /\ doomed' \in {doomed, None}
    BY <1>4 DEF ReapLists, ReapStops, record, provider
  <2> QED BY <1>2, <1>4, <2>1
<1>5. ASSUME NEW b \in Boxes, Destroy(b) PROVE BoxInv'
  <2>1. UNCHANGED <<run, runBox, preview, lease, workers, old, doomed>> /\ kills' \subseteq kills
    BY <1>5 DEF Destroy, record, reaper
  <2> QED BY <1>2, <1>5, <2>1
<1>6. ASSUME NEW b \in Boxes, Ages(b) PROVE BoxInv'
  <2>1. UNCHANGED <<run, runBox, preview, lease, workers, kills, doomed>> /\ old' = old \cup {b}
    BY <1>6 DEF Ages, record, reaper
  <2>2. \A w \in Workers : AtWork(w) /\ phase[w] = "acquired" => box[w] # b
    BY <1>6 DEF Ages, AtWork, Holds
  <2>3. AcquiredFresh' BY <2>1, <2>2 DEF AcquiredFresh, AtWork, lease, workers
  <2> QED BY <2>1, <2>3 DEF BoxInv, WorkerInv, RunBoxSpared, PreviewIsSafe, ToldTheRunBox,
             ReaperSparesTheWorkspace, RunBoxIsTheWorkspace, AtWork, Holds, lease, workers
<1>7. ASSUME UNCHANGED vars PROVE BoxInv'
  <2>1. UNCHANGED <<run, runBox, preview, lease, kills, workers, old, doomed>>
    BY <1>7 DEF vars, lease, workers
  <2> QED BY <1>2, <1>7, <2>1
<1> QED BY <1>1, <1>3, <1>4, <1>5, <1>6, <1>7 DEF ReapsAside

LEMMA Inductive == Spec => []IInv
<1>1. Init => IInv
  <2> SUFFICES ASSUME Init PROVE IInv OBVIOUS
  <2>1. TypeOK
    <3>1. /\ phase \in [Workers -> {"idle", "starts", "acquired", "planning", "building",
                                    "built", "failed", "stopped", "throws", "over"}]
          /\ reuse \in [Workers -> Boxes \cup {None}] /\ box \in [Workers -> Boxes \cup {None}]
          /\ vm \in [Boxes -> {"none", "running", "suspended", "gone"}]
      BY DEF Init
    <3>2. left \in 0..Steps /\ tries \in Nat /\ claims \in 0..MaxClaims /\ faults \in 0..MaxFaults
      BY Bounds DEF Init
    <3> QED BY <3>1, <3>2 DEF Init, TypeOK
  <2>2. \A w \in Workers : phase[w] = "idle" BY DEF Init
  <2>3. Claimed /\ EndsUnclaimed /\ KillsAfterEnd /\ ReapsOld /\ RunBoxSpared /\ PreviewIsSafe
    BY DEF Init, Claimed, EndsUnclaimed, KillsAfterEnd, ReapsOld, RunBoxSpared, PreviewIsSafe
  <2>4. ToldTheRunBox /\ AcquiredFresh /\ HoldsABox /\ ReaperSparesTheWorkspace
        /\ RunBoxIsTheWorkspace
    BY <2>2 DEF ToldTheRunBox, AcquiredFresh, HoldsABox, ReaperSparesTheWorkspace,
       RunBoxIsTheWorkspace, AtWork
  <2> QED BY <2>1, <2>3, <2>4 DEF IInv
<1>2. IInv /\ [Next]_vars => IInv'
  <2> SUFFICES ASSUME IInv, [Next]_vars PROVE IInv' OBVIOUS
  <2>1. BoxInv' BY StepCases, EndStep, WorkStep, OutsideStep
  <2>2. TypeOK' /\ Claimed' /\ EndsUnclaimed' /\ KillsAfterEnd' /\ ReapsOld' /\ HoldsABox'
    BY TypeStep, LeaseStep, ReapStep, BoxStep DEF IInv
  <2> QED BY <2>1, <2>2 DEF IInv, BoxInv, WorkerInv
<1> QED BY <1>1, <1>2, PTL DEF Spec
-----------------------------------------------------------------------------
(* The run, its workers and the provider keep their types.                 *)
THEOREM TypeCorrect == Spec => []TypeOK
<1>1. IInv => TypeOK BY DEF IInv
<1> QED BY <1>1, Inductive, PTL

(* The reaper and the scheduled destroys spare the workspace of a step.    *)
THEOREM ReaperTheorem == Spec => []ReaperSparesTheWorkspace
<1>1. IInv => ReaperSparesTheWorkspace BY DEF IInv
<1> QED BY <1>1, Inductive, PTL

(* The run remembers the workspace its step is in.                         *)
THEOREM RunBoxTheorem == Spec => []RunBoxIsTheWorkspace
<1>1. IInv => RunBoxIsTheWorkspace BY DEF IInv
<1> QED BY <1>1, Inductive, PTL

(* Nothing is about to destroy the sandbox of an open preview window.      *)
THEOREM PreviewTheorem == Spec => []PreviewIsSafe
<1>1. IInv => PreviewIsSafe BY DEF IInv
<1> QED BY <1>1, Inductive, PTL

(* A sandbox in use by a step or a preview is the run's own and is safe.   *)
THEOREM SafetyTheorem == Spec => []BoxesAreSafe
BY TypeCorrect, ReaperTheorem, RunBoxTheorem, PreviewTheorem, PTL DEF BoxesAreSafe
=============================================================================
