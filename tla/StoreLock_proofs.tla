--------------------------- MODULE StoreLock_proofs ---------------------------
(***************************************************************************)
(* Proofs about StoreLock for any number of processes, updates, attempts   *)
(* and crashes.  The inductive invariant adds to the properties what a     *)
(* process inside knows: the file is still the one its write builds on.    *)
(***************************************************************************)
EXTENDS StoreLock, TLAPS

(* Nobody's update is in the file, or in what was read of it, before it    *)
(* was made.                                                               *)
Made(shows) == \A p \in Process : \A n \in 1..MaxUpdates : <<p, n>> \in shows => n <= made[p]
MadeBeforeShown == Made(file.shows) /\ \A p \in Process : Made(seen[p].shows) /\ Made(copy[p].shows)

(* A process about to write has an update left to make; one that renamed   *)
(* made one.                                                               *)
RoomLeft == \A p \in Process : /\ pc[p] \notin {"idle", "renamed"} => made[p] < MaxUpdates
                               /\ pc[p] = "renamed" => made[p] # 0

(* An equal revision means an equal content, and no copy is ahead.         *)
CopiesBehind ==
  kind = "session" => \A p \in Process : /\ copy[p].revision <= file.revision
                                         /\ copy[p].revision = file.revision => copy[p] = file

(* What a write builds on is what the file still shows.                    *)
BaseIsCurrent == \A p \in Process : pc[p] \in {"read", "written"} => Base(p) = file
RenamedShows == \A p \in Process : pc[p] = "renamed" => <<p, made[p]>> \in file.shows

IInv ==
  /\ TypeOK /\ MadeBeforeShown /\ RoomLeft
  /\ HoldersOwnTheLock /\ NothingLost
  /\ ~clash => CopiesBehind /\ BaseIsCurrent /\ RenamedShows

(* The initial state satisfies the invariant.                              *)
LEMMA InitIInv == Init => IInv
<1> SUFFICES ASSUME Init PROVE IInv
  OBVIOUS
<1> USE StoreAssumption
<1>1. TypeOK
  <2>1. Empty \in Content
    BY DEF Empty, Content
  <2>2. lock \in [exists : BOOLEAN, owner : Process \cup {NoProcess}, old : BOOLEAN]
    BY DEF Init, NoLock
  <2>3. 0 \in 0..Attempts /\ 0 \in 0..MaxUpdates /\ 0 \in 0..MaxCrashes
    OBVIOUS
  <2>4. kind \in {"jobs", "session"} /\ acknowledged \subseteq Update /\ clash \in BOOLEAN
    BY DEF Init
  <2> QED BY <2>1, <2>2, <2>3, <2>4 DEF Init, TypeOK
<1>2. MadeBeforeShown /\ RoomLeft
  BY DEF Init, MadeBeforeShown, Made, RoomLeft, Empty
<1>3. HoldersOwnTheLock /\ NothingLost /\ CopiesBehind /\ BaseIsCurrent /\ RenamedShows
  BY DEF Init, HoldersOwnTheLock, NothingLost, CopiesBehind, BaseIsCurrent, RenamedShows, Empty, Inside
<1> QED BY <1>1, <1>2, <1>3 DEF IInv

(* Every step keeps the types.                                             *)
LEMMA TypeStep ==
  TypeOK /\ RoomLeft /\ [Next]_vars => TypeOK'
<1> SUFFICES ASSUME TypeOK /\ RoomLeft, [Next]_vars PROVE TypeOK'
  OBVIOUS
<1> USE StoreAssumption
<1>1. ASSUME LockAges PROVE TypeOK'
  BY <1>1 DEF LockAges, TypeOK
<1>2. ASSUME NEW p \in Process, Begin(p) PROVE TypeOK'
  BY <1>2 DEF Begin, Goto, TypeOK, Content
<1>3. ASSUME NEW p \in Process, CreatesLock(p) PROVE TypeOK'
  BY <1>3 DEF CreatesLock, LockOf, Creatable, MayTry, Goto, TypeOK, Inside
<1>4. ASSUME NEW p \in Process, FindsLock(p) PROVE TypeOK'
  BY <1>4 DEF FindsLock, MayTry, Goto, TypeOK
<1>5. ASSUME NEW p \in Process, Stats(p) PROVE TypeOK'
  BY <1>5 DEF Stats, Stale, Goto, TypeOK
<1>6. ASSUME NEW p \in Process, UnlinksStale(p) PROVE TypeOK'
  BY <1>6 DEF UnlinksStale, Unlinks, NoLock, Goto, TypeOK
<1>7. ASSUME NEW p \in Process, ReportsBusy(p) PROVE TypeOK'
  BY <1>7 DEF ReportsBusy, MayTry, Goto, TypeOK
<1>8. ASSUME NEW p \in Process, Reads(p) PROVE TypeOK'
  BY <1>8 DEF Reads, Conflicts, Goto, TypeOK, Content, Inside
<1>9. ASSUME NEW p \in Process, Writes(p) PROVE TypeOK'
  BY <1>9 DEF Writes, Goto, TypeOK, Inside
<1>10. ASSUME NEW p \in Process, Renames(p) PROVE TypeOK'
  <2>1. Base(p) \in Content
    BY DEF Base, TypeOK
  <2>2. made[p] \in 0..MaxUpdates /\ made[p] < MaxUpdates
    BY <1>10 DEF Renames, RoomLeft, TypeOK
  <2>3. Mine(p) \in Update
    BY <2>2 DEF Mine, Update
  <2>4. Next1(p) \in Content
    BY <2>1, <2>3 DEF Next1, Content
  <2>5. made[p] + 1 \in 0..MaxUpdates
    BY <2>2
  <2>6. pc' \in [Process -> {"idle", "trying", "stat", "unlinking"} \cup Inside]
    BY <1>10 DEF Renames, Goto, Inside, TypeOK
  <2> QED BY <1>10, <2>4, <2>5, <2>6 DEF Renames, TypeOK
<1>11. ASSUME NEW p \in Process, Releases(p) PROVE TypeOK'
  <2>1. CASE pc[p] = "renamed"
    <3>1. made[p] \in 1..MaxUpdates
      BY <2>1 DEF RoomLeft, TypeOK
    <3>2. <<p, made[p]>> \in Update
      BY <3>1 DEF Update
    <3> QED BY <1>11, <2>1, <3>2 DEF Releases, Unlinks, NoLock, Goto, TypeOK
  <2>2. CASE pc[p] # "renamed"
    BY <1>11, <2>2 DEF Releases, Unlinks, NoLock, Goto, TypeOK
  <2> QED BY <2>1, <2>2
<1>12. ASSUME NEW p \in Process, Loads(p) PROVE TypeOK'
  BY <1>12 DEF Loads, TypeOK, Content
<1>13. ASSUME NEW p \in Process, Crashes(p) PROVE TypeOK'
  BY <1>13 DEF Crashes, Goto, TypeOK, Content
<1>14. CASE UNCHANGED vars
  BY <1>14 DEF vars, TypeOK
<1> QED BY <1>1, <1>2, <1>3, <1>4, <1>5, <1>6, <1>7, <1>8, <1>9, <1>10, <1>11, <1>12, <1>13, <1>14 DEF Next, Continues

(* Every step keeps the order of making and showing.                       *)
LEMMA MadeStep ==
  TypeOK /\ RoomLeft /\ MadeBeforeShown /\ [Next]_vars => RoomLeft' /\ MadeBeforeShown'
<1> SUFFICES ASSUME TypeOK /\ RoomLeft /\ MadeBeforeShown, [Next]_vars PROVE RoomLeft' /\ MadeBeforeShown'
  OBVIOUS
<1> USE StoreAssumption
<1>1. ASSUME LockAges PROVE RoomLeft' /\ MadeBeforeShown'
  BY <1>1 DEF LockAges, MadeBeforeShown, Made, RoomLeft, TypeOK
<1>2. ASSUME NEW p \in Process, Begin(p) PROVE RoomLeft' /\ MadeBeforeShown'
  BY <1>2 DEF Begin, Goto, MadeBeforeShown, Made, RoomLeft, TypeOK
<1>3. ASSUME NEW p \in Process, CreatesLock(p) PROVE RoomLeft' /\ MadeBeforeShown'
  BY <1>3 DEF CreatesLock, LockOf, Creatable, MayTry, Goto, MadeBeforeShown, Made, RoomLeft, TypeOK
<1>4. ASSUME NEW p \in Process, FindsLock(p) PROVE RoomLeft' /\ MadeBeforeShown'
  BY <1>4 DEF FindsLock, MayTry, Goto, MadeBeforeShown, Made, RoomLeft, TypeOK
<1>5. ASSUME NEW p \in Process, Stats(p) PROVE RoomLeft' /\ MadeBeforeShown'
  BY <1>5 DEF Stats, Stale, Goto, MadeBeforeShown, Made, RoomLeft, TypeOK
<1>6. ASSUME NEW p \in Process, UnlinksStale(p) PROVE RoomLeft' /\ MadeBeforeShown'
  BY <1>6 DEF UnlinksStale, Unlinks, NoLock, Goto, MadeBeforeShown, Made, RoomLeft, TypeOK
<1>7. ASSUME NEW p \in Process, ReportsBusy(p) PROVE RoomLeft' /\ MadeBeforeShown'
  BY <1>7 DEF ReportsBusy, MayTry, Goto, MadeBeforeShown, Made, RoomLeft, TypeOK
<1>8. ASSUME NEW p \in Process, Reads(p) PROVE RoomLeft' /\ MadeBeforeShown'
  BY <1>8 DEF Reads, Conflicts, Goto, MadeBeforeShown, Made, RoomLeft, TypeOK
<1>9. ASSUME NEW p \in Process, Writes(p) PROVE RoomLeft' /\ MadeBeforeShown'
  BY <1>9 DEF Writes, Goto, MadeBeforeShown, Made, RoomLeft, TypeOK
<1>10. ASSUME NEW p \in Process, Renames(p) PROVE RoomLeft' /\ MadeBeforeShown'
  <2>1. made[p] \in Nat /\ made[p] < MaxUpdates /\ made' = [made EXCEPT ![p] = made[p] + 1]
    BY <1>10 DEF Renames, RoomLeft, TypeOK
  <2>2. RoomLeft'
    BY <1>10, <2>1 DEF Renames, Goto, RoomLeft, TypeOK
  <2> DEFINE Later(shows) == \A q \in Process : \A n \in 1..MaxUpdates : <<q, n>> \in shows => n <= made'[q]
  <2>3. \A shows : Made(shows) => Later(shows)
    BY <2>1 DEF Made, TypeOK
  <2>4. Later(Next1(p).shows)
    <3>1. Made(Base(p).shows)
      BY DEF Base, MadeBeforeShown
    <3>2. ASSUME NEW q \in Process, NEW n \in 1..MaxUpdates, <<q, n>> \in Next1(p).shows PROVE n <= made'[q]
      <4>1. CASE <<q, n>> \in Base(p).shows
        BY <2>3, <3>1, <4>1
      <4>2. CASE <<q, n>> = Mine(p)
        BY <2>1, <4>2 DEF Mine, TypeOK
      <4> QED BY <3>2, <4>1, <4>2 DEF Next1
    <3> QED BY <3>2
  <2>5. file' = Next1(p) /\ copy' = [copy EXCEPT ![p] = Next1(p)] /\ seen' = seen
    BY <1>10 DEF Renames
  <2>6. MadeBeforeShown'
    <3>1. Later(file'.shows) /\ \A q \in Process : Later(seen'[q].shows) /\ Later(copy'[q].shows)
      <4> HIDE DEF Later
      <4> QED BY <2>3, <2>4, <2>5 DEF MadeBeforeShown, TypeOK
    <3> QED BY <3>1 DEF MadeBeforeShown, Made
  <2> QED BY <2>2, <2>6
<1>11. ASSUME NEW p \in Process, Releases(p) PROVE RoomLeft' /\ MadeBeforeShown'
  BY <1>11 DEF Releases, Unlinks, NoLock, Goto, MadeBeforeShown, Made, RoomLeft, TypeOK
<1>12. ASSUME NEW p \in Process, Loads(p) PROVE RoomLeft' /\ MadeBeforeShown'
  BY <1>12 DEF Loads, MadeBeforeShown, Made, RoomLeft, TypeOK
<1>13. ASSUME NEW p \in Process, Crashes(p) PROVE RoomLeft' /\ MadeBeforeShown'
  BY <1>13 DEF Crashes, Goto, MadeBeforeShown, Made, RoomLeft, TypeOK
<1>14. CASE UNCHANGED vars
  BY <1>14 DEF vars, MadeBeforeShown, Made, RoomLeft, TypeOK
<1> QED BY <1>1, <1>2, <1>3, <1>4, <1>5, <1>6, <1>7, <1>8, <1>9, <1>10, <1>11, <1>12, <1>13, <1>14 DEF Next, Continues

(* While locks are only taken from the dead, whoever is inside owns it.    *)
LEMMA HolderStep ==
  TypeOK /\ ~clash' /\ HoldersOwnTheLock /\ [Next]_vars => HoldersOwnTheLock'
<1> SUFFICES ASSUME TypeOK /\ ~clash' /\ HoldersOwnTheLock, [Next]_vars PROVE HoldersOwnTheLock'
  OBVIOUS
<1> USE StoreAssumption
<1>1. ASSUME LockAges PROVE HoldersOwnTheLock'
  BY <1>1 DEF LockAges, HoldersOwnTheLock, TypeOK, Inside
<1>2. ASSUME NEW p \in Process, Begin(p) PROVE HoldersOwnTheLock'
  BY <1>2 DEF Begin, Goto, HoldersOwnTheLock, TypeOK, Inside
<1>3. ASSUME NEW p \in Process, CreatesLock(p) PROVE HoldersOwnTheLock'
  <2>1. ~lock.exists /\ lock' = LockOf(p) /\ (\A q \in Process \ {p} : pc'[q] = pc[q]) /\ clash' = clash
    BY <1>3 DEF CreatesLock, Creatable, Goto, TypeOK
  <2>2. \A q \in Process \ {p} : pc[q] \notin Inside
    BY <2>1 DEF HoldersOwnTheLock
  <2> QED BY <2>1, <2>2 DEF HoldersOwnTheLock, LockOf
<1>4. ASSUME NEW p \in Process, FindsLock(p) PROVE HoldersOwnTheLock'
  BY <1>4 DEF FindsLock, MayTry, Goto, HoldersOwnTheLock, TypeOK, Inside
<1>5. ASSUME NEW p \in Process, Stats(p) PROVE HoldersOwnTheLock'
  BY <1>5 DEF Stats, Stale, Goto, HoldersOwnTheLock, TypeOK, Inside
<1>6. ASSUME NEW p \in Process, UnlinksStale(p) PROVE HoldersOwnTheLock'
  <2>1. lock.owner \in {p, NoProcess} /\ ~clash
    BY <1>6 DEF UnlinksStale, Unlinks, TypeOK
  <2>2. \A q \in Process \ {p} : pc[q] \notin Inside
    BY <2>1 DEF HoldersOwnTheLock, TypeOK
  <2>3. ~clash /\ (\A q \in Process \ {p} : pc'[q] = pc[q]) /\ pc'[p] \notin Inside
    BY <1>6 DEF UnlinksStale, Unlinks, Goto, TypeOK, Inside
  <2> QED BY <2>2, <2>3 DEF HoldersOwnTheLock
<1>7. ASSUME NEW p \in Process, ReportsBusy(p) PROVE HoldersOwnTheLock'
  BY <1>7 DEF ReportsBusy, MayTry, Goto, HoldersOwnTheLock, TypeOK, Inside
<1>8. ASSUME NEW p \in Process, Reads(p) PROVE HoldersOwnTheLock'
  BY <1>8 DEF Reads, Conflicts, Goto, HoldersOwnTheLock, TypeOK, Inside
<1>9. ASSUME NEW p \in Process, Writes(p) PROVE HoldersOwnTheLock'
  BY <1>9 DEF Writes, Goto, HoldersOwnTheLock, TypeOK, Inside
<1>10. ASSUME NEW p \in Process, Renames(p) PROVE HoldersOwnTheLock'
  BY <1>10 DEF Renames, Next1, Mine, Base, Goto, HoldersOwnTheLock, TypeOK, Inside
<1>11. ASSUME NEW p \in Process, Releases(p) PROVE HoldersOwnTheLock'
  <2>1. lock.owner \in {p, NoProcess} /\ ~clash
    BY <1>11 DEF Releases, Unlinks, TypeOK
  <2>2. \A q \in Process \ {p} : pc[q] \notin Inside
    BY <2>1 DEF HoldersOwnTheLock, TypeOK
  <2>3. ~clash /\ (\A q \in Process \ {p} : pc'[q] = pc[q]) /\ pc'[p] \notin Inside
    BY <1>11 DEF Releases, Unlinks, Goto, TypeOK, Inside
  <2> QED BY <2>2, <2>3 DEF HoldersOwnTheLock
<1>12. ASSUME NEW p \in Process, Loads(p) PROVE HoldersOwnTheLock'
  BY <1>12 DEF Loads, HoldersOwnTheLock, TypeOK, Inside
<1>13. ASSUME NEW p \in Process, Crashes(p) PROVE HoldersOwnTheLock'
  BY <1>13 DEF Crashes, Goto, HoldersOwnTheLock, TypeOK, Inside
<1>14. CASE UNCHANGED vars
  BY <1>14 DEF vars, HoldersOwnTheLock, TypeOK, Inside
<1> QED BY <1>1, <1>2, <1>3, <1>4, <1>5, <1>6, <1>7, <1>8, <1>9, <1>10, <1>11, <1>12, <1>13, <1>14 DEF Next, Continues

(* What a process inside knows stays true.                                 *)
LEMMA GuardedStep ==
  TypeOK /\ ~clash /\ ~clash' /\ HoldersOwnTheLock /\ NothingLost /\ CopiesBehind /\ BaseIsCurrent /\ RenamedShows /\ [Next]_vars => NothingLost' /\ CopiesBehind' /\ BaseIsCurrent' /\ RenamedShows'
<1> SUFFICES ASSUME TypeOK /\ ~clash /\ ~clash' /\ HoldersOwnTheLock /\ NothingLost /\ CopiesBehind /\ BaseIsCurrent /\ RenamedShows, [Next]_vars PROVE NothingLost' /\ CopiesBehind' /\ BaseIsCurrent' /\ RenamedShows'
  OBVIOUS
<1> USE StoreAssumption
<1>1. ASSUME LockAges PROVE NothingLost' /\ CopiesBehind' /\ BaseIsCurrent' /\ RenamedShows'
  BY <1>1 DEF LockAges, HoldersOwnTheLock, NothingLost, CopiesBehind, BaseIsCurrent, RenamedShows, TypeOK, Inside, Base
<1>2. ASSUME NEW p \in Process, Begin(p) PROVE NothingLost' /\ CopiesBehind' /\ BaseIsCurrent' /\ RenamedShows'
  BY <1>2 DEF Begin, Goto, HoldersOwnTheLock, NothingLost, CopiesBehind, BaseIsCurrent, RenamedShows, TypeOK, Inside, Base
<1>3. ASSUME NEW p \in Process, CreatesLock(p) PROVE NothingLost' /\ CopiesBehind' /\ BaseIsCurrent' /\ RenamedShows'
  BY <1>3 DEF CreatesLock, LockOf, Creatable, MayTry, Goto, HoldersOwnTheLock, NothingLost, CopiesBehind, BaseIsCurrent, RenamedShows, TypeOK, Inside, Base
<1>4. ASSUME NEW p \in Process, FindsLock(p) PROVE NothingLost' /\ CopiesBehind' /\ BaseIsCurrent' /\ RenamedShows'
  BY <1>4 DEF FindsLock, MayTry, Goto, HoldersOwnTheLock, NothingLost, CopiesBehind, BaseIsCurrent, RenamedShows, TypeOK, Inside, Base
<1>5. ASSUME NEW p \in Process, Stats(p) PROVE NothingLost' /\ CopiesBehind' /\ BaseIsCurrent' /\ RenamedShows'
  BY <1>5 DEF Stats, Stale, Goto, HoldersOwnTheLock, NothingLost, CopiesBehind, BaseIsCurrent, RenamedShows, TypeOK, Inside, Base
<1>6. ASSUME NEW p \in Process, UnlinksStale(p) PROVE NothingLost' /\ CopiesBehind' /\ BaseIsCurrent' /\ RenamedShows'
  BY <1>6 DEF UnlinksStale, Unlinks, NoLock, Goto, HoldersOwnTheLock, NothingLost, CopiesBehind, BaseIsCurrent, RenamedShows, TypeOK, Inside, Base
<1>7. ASSUME NEW p \in Process, ReportsBusy(p) PROVE NothingLost' /\ CopiesBehind' /\ BaseIsCurrent' /\ RenamedShows'
  BY <1>7 DEF ReportsBusy, MayTry, Goto, HoldersOwnTheLock, NothingLost, CopiesBehind, BaseIsCurrent, RenamedShows, TypeOK, Inside, Base
<1>8. ASSUME NEW p \in Process, Reads(p) PROVE NothingLost' /\ CopiesBehind' /\ BaseIsCurrent' /\ RenamedShows'
  BY <1>8 DEF Reads, Conflicts, Goto, HoldersOwnTheLock, NothingLost, CopiesBehind, BaseIsCurrent, RenamedShows, TypeOK, Inside, Base
<1>9. ASSUME NEW p \in Process, Writes(p) PROVE NothingLost' /\ CopiesBehind' /\ BaseIsCurrent' /\ RenamedShows'
  BY <1>9 DEF Writes, Goto, HoldersOwnTheLock, NothingLost, CopiesBehind, BaseIsCurrent, RenamedShows, TypeOK, Inside, Base
<1>10. ASSUME NEW p \in Process, Renames(p) PROVE NothingLost' /\ CopiesBehind' /\ BaseIsCurrent' /\ RenamedShows'
  <2>1. /\ pc[p] = "written" /\ clash' = clash /\ acknowledged' = acknowledged /\ kind' = kind /\ seen' = seen
         /\ file' = Next1(p) /\ copy' = [copy EXCEPT ![p] = Next1(p)] /\ made' = [made EXCEPT ![p] = made[p] + 1]
         /\ pc' = [pc EXCEPT ![p] = "renamed"]
    BY <1>10 DEF Renames, Goto
  <2>2. Base(p) = file
    BY <2>1 DEF BaseIsCurrent
  <2>3. file'.revision = file.revision + 1 /\ file'.shows = file.shows \cup {Mine(p)}
    BY <2>1, <2>2 DEF Next1
  <2>4. \A q \in Process \ {p} : pc[q] \notin Inside /\ pc'[q] = pc[q]
    BY <2>1 DEF HoldersOwnTheLock, Inside, TypeOK
  <2>5. NothingLost'
    BY <2>1, <2>3 DEF NothingLost
  <2>6. CopiesBehind'
    BY <2>1, <2>3 DEF CopiesBehind, TypeOK, Content
  <2>7. BaseIsCurrent'
    BY <2>1, <2>4 DEF BaseIsCurrent, Inside, TypeOK
  <2>8. made'[p] = made[p] + 1 /\ pc'[p] = "renamed"
    BY <2>1 DEF TypeOK
  <2>9. RenamedShows'
    BY <2>3, <2>4, <2>8 DEF RenamedShows, Inside, Mine
  <2> QED BY <2>5, <2>6, <2>7, <2>9
<1>11. ASSUME NEW p \in Process, Releases(p) PROVE NothingLost' /\ CopiesBehind' /\ BaseIsCurrent' /\ RenamedShows'
  <2>1. acknowledged' \subseteq file'.shows
    BY <1>11 DEF Releases, NothingLost, RenamedShows
  <2>2. NothingLost'
    BY <2>1 DEF NothingLost
  <2> QED BY <1>11, <2>2 DEF Releases, Unlinks, Goto, CopiesBehind, BaseIsCurrent, Base, RenamedShows, TypeOK
<1>12. ASSUME NEW p \in Process, Loads(p) PROVE NothingLost' /\ CopiesBehind' /\ BaseIsCurrent' /\ RenamedShows'
  <2>1. kind' = kind /\ file' = file /\ copy' = [copy EXCEPT ![p] = file] /\ file.revision \in Nat
    BY <1>12 DEF Loads, TypeOK, Content
  <2>2. CopiesBehind'
    BY <2>1 DEF CopiesBehind, TypeOK
  <2>3. \A q \in Process : pc'[q] \in Inside => q # p /\ pc'[q] = pc[q] /\ seen'[q] = seen[q] /\ copy'[q] = copy[q]
    BY <1>12 DEF Loads, TypeOK, Inside
  <2>4. BaseIsCurrent' /\ RenamedShows' /\ NothingLost'
    BY <1>12, <2>1, <2>3 DEF Loads, BaseIsCurrent, RenamedShows, NothingLost, Base, Inside
  <2> QED BY <2>2, <2>4
<1>13. ASSUME NEW p \in Process, Crashes(p) PROVE NothingLost' /\ CopiesBehind' /\ BaseIsCurrent' /\ RenamedShows'
  <2>1. kind' = kind /\ file' = file /\ copy' = [copy EXCEPT ![p] = file] /\ file.revision \in Nat
    BY <1>13 DEF Crashes, Goto, TypeOK, Content
  <2>2. CopiesBehind'
    BY <2>1 DEF CopiesBehind, TypeOK
  <2>3. \A q \in Process : pc'[q] \in Inside => q # p /\ pc'[q] = pc[q] /\ seen'[q] = seen[q] /\ copy'[q] = copy[q]
    BY <1>13 DEF Crashes, Goto, TypeOK, Inside
  <2>4. BaseIsCurrent' /\ RenamedShows' /\ NothingLost'
    BY <1>13, <2>1, <2>3 DEF Crashes, BaseIsCurrent, RenamedShows, NothingLost, Base, Inside
  <2> QED BY <2>2, <2>4
<1>14. CASE UNCHANGED vars
  BY <1>14 DEF vars, HoldersOwnTheLock, NothingLost, CopiesBehind, BaseIsCurrent, RenamedShows, TypeOK, Inside, Base
<1> QED BY <1>1, <1>2, <1>3, <1>4, <1>5, <1>6, <1>7, <1>8, <1>9, <1>10, <1>11, <1>12, <1>13, <1>14 DEF Next, Continues

(* A removal of a living process's lock is never forgotten.                *)
LEMMA ClashStays == TypeOK /\ [Next]_vars /\ ~clash' => ~clash
  BY DEF Next, Continues, vars, LockAges, Begin, CreatesLock, FindsLock, Stats, UnlinksStale, Unlinks, ReportsBusy, Reads,
         Writes, Renames, Releases, Loads, Crashes, TypeOK

(* The invariant is inductive.                                             *)
LEMMA NextIInv == IInv /\ [Next]_vars => IInv'
<1> SUFFICES ASSUME IInv, [Next]_vars PROVE IInv'
  OBVIOUS
<1>1. TypeOK' /\ RoomLeft' /\ MadeBeforeShown'
  BY TypeStep, MadeStep DEF IInv
<1>2. CASE clash'
  BY <1>1, <1>2 DEF IInv, HoldersOwnTheLock, NothingLost
<1>3. CASE ~clash'
  <2>1. ~clash
    BY <1>3, ClashStays DEF IInv
  <2>2. HoldersOwnTheLock'
    BY <1>3, HolderStep DEF IInv
  <2>3. NothingLost' /\ CopiesBehind' /\ BaseIsCurrent' /\ RenamedShows'
    BY <1>3, <2>1, GuardedStep DEF IInv
  <2> QED BY <1>1, <2>2, <2>3 DEF IInv
<1> QED BY <1>2, <1>3

(* It holds of every behaviour.                                            *)
LEMMA Invariant == Spec => []IInv
<1>1. Init => IInv
  BY InitIInv
<1>2. IInv /\ [Next]_vars => IInv'
  BY NextIInv
<1> QED BY <1>1, <1>2, PTL DEF Spec

(* Every variable keeps its type and no call tries too often.              *)
THEOREM TypeCorrect == Spec => []TypeOK
<1>1. IInv => TypeOK
  BY DEF IInv
<1> QED BY <1>1, Invariant, PTL

(* Until a living process's lock is removed, whoever is inside owns it.    *)
THEOREM ExclusionTheorem == Spec => []HoldersOwnTheLock
<1>1. IInv => HoldersOwnTheLock
  BY DEF IInv
<1> QED BY <1>1, Invariant, PTL

(* Until then no acknowledged update is missing from the file.             *)
THEOREM NothingLostTheorem == Spec => []NothingLost
<1>1. IInv => NothingLost
  BY DEF IInv
<1> QED BY <1>1, Invariant, PTL

(* Until then the lock is the holder's and the file has every update.      *)
THEOREM SafetyTheorem == Spec => []StoreIsSafe
BY TypeCorrect, ExclusionTheorem, NothingLostTheorem, PTL DEF StoreIsSafe

(* A rename adds the update of its caller to what is there, a release      *)
(* acknowledges it, and nothing else is seen of the file.                  *)
LEMMA StepImplements == IInv /\ [Next]_vars => clash' \/ Store!Next \/ UNCHANGED Store!vars
<1> SUFFICES ASSUME IInv, [Next]_vars, ~clash' PROVE Store!Next \/ UNCHANGED Store!vars
  OBVIOUS
<1> USE StoreAssumption
<1>1. ~clash /\ TypeOK
  BY ClashStays DEF IInv
<1>2. ASSUME NEW p \in Process, Renames(p) PROVE Store!Next
  <2>1. file' = Next1(p) /\ acknowledged' = acknowledged /\ Base(p) = file
    BY <1>1, <1>2 DEF Renames, IInv, BaseIsCurrent
  <2>2. made[p] \in Nat /\ made[p] + 1 \in 1..MaxUpdates
    BY <1>1, <1>2 DEF Renames, IInv, RoomLeft, TypeOK
  <2>3. Mine(p) \in Update /\ Mine(p) \notin file.shows
    BY <2>2 DEF Mine, Update, IInv, MadeBeforeShown, Made
  <2>4. file'.shows = file.shows \cup {Mine(p)}
    BY <2>1 DEF Next1
  <2>5. Store!Put(Mine(p))
    BY <2>1, <2>3, <2>4 DEF Store!Put
  <2> QED BY <2>3, <2>5 DEF Store!Next
<1>3. ASSUME NEW p \in Process, Releases(p) PROVE Store!Next \/ UNCHANGED Store!vars
  <2>1. CASE pc[p] = "renamed"
    <3>1. <<p, made[p]>> \in Update
      BY <1>1, <2>1 DEF IInv, RoomLeft, TypeOK, Update
    <3>2. Store!Acknowledge(<<p, made[p]>>)
      BY <1>1, <1>3, <2>1 DEF Releases, IInv, RenamedShows, Store!Acknowledge
    <3> QED BY <3>1, <3>2 DEF Store!Next
  <2>2. CASE pc[p] # "renamed"
    BY <1>3, <2>2 DEF Releases, Store!vars
  <2> QED BY <2>1, <2>2
<1>4. ASSUME NEW p \in Process, Begin(p) \/ CreatesLock(p) \/ FindsLock(p) \/ Stats(p) \/ UnlinksStale(p)
               \/ ReportsBusy(p) \/ Reads(p) \/ Writes(p) \/ Loads(p) \/ Crashes(p)
      PROVE UNCHANGED Store!vars
  BY <1>4 DEF Begin, CreatesLock, FindsLock, Stats, UnlinksStale, ReportsBusy, Reads, Writes, Loads, Crashes, Store!vars
<1>5. ASSUME LockAges PROVE UNCHANGED Store!vars
  BY <1>5 DEF LockAges, Store!vars
<1>6. CASE UNCHANGED vars
  BY <1>6 DEF vars, Store!vars
<1> QED BY <1>2, <1>3, <1>4, <1>5, <1>6 DEF Next, Continues

(* Until a living process's lock is removed, withJobs and saveSession      *)
(* implement the atomic store.                                             *)
THEOREM RefinementTheorem == Spec => ImplementsAtomicStore
<1>1. Init => Store!Init
  BY DEF Init, Store!Init, Empty
<1>2. IInv /\ [Next]_vars => [clash' \/ Store!Next \/ UNCHANGED Store!vars]_vars
  BY StepImplements
<1> QED BY <1>1, <1>2, Invariant, PTL DEF Spec, ImplementsAtomicStore
=============================================================================
