------------------------ MODULE HistoryIndex_proofs ------------------------
(***************************************************************************)
(* What holds of the index of a workspace for any number of processes,     *)
(* sessions, turns and faults.                                             *)
(***************************************************************************)
EXTENDS HistoryIndex, TLAPS

USE HistoryAssumption

(* A snapshot is saved after its turn was appended.                        *)
SavedBehind ==
  \A s \in Session : /\ saved[s] <= journal[s]
                     /\ turn[s] = "appended" => saved[s] < journal[s]

(* What is due was written, and a corrupt file owes nothing.               *)
DueWritten ==
  \A s \in Session : due[s] # NoRow => /\ Shows(Written(s), due[s])
                                       /\ due[s].journal > 0 /\ due[s].saved > 0
DamageFrees == damaged => due = NoRows

(* A round indexes a generation there has been.                            *)
BeganBehind == \A p \in Process : began[p] <= gen[p]

(* A sidecar has rows in hand only while it reads, and a session open only *)
(* half-way through it.                                                    *)
Clean ==
  \A q \in Sidecar : /\ side[q].at \notin {"reading", "halfway"} => side[q].got = NoRows
                     /\ IF side[q].at = "halfway" THEN side[q].now \in Session
                        ELSE side[q].now = NoSession

(* A sidecar with record r does not undo what is due of session s: it is   *)
(* not about to remove the file, its listing has s, and a row it has of s  *)
(* shows what is due or is dropped.                                        *)
Past == {"comparing", "deleting", "reading", "halfway"}
Harmless(r, s, d) ==
  /\ r.at # "removing"
  /\ r.at \in Past =>
       /\ s \in r.snaps
       /\ r.at = "comparing" => s \in r.left
       /\ r.at = "deleting" => s \notin r.stale
       /\ \/ r.got[s] = NoRow /\ r.now # s
          \/ Shows(r.got[s], d)
          \/ r.at = "halfway" /\ r.now = s /\ r.got[s].journal >= d.journal

(* That is so of every sidecar but the owner's own, and also of that one   *)
(* once the sources of s no longer verify.                                 *)
OthersHarmless ==
  \A s \in Session : \A q \in Sidecar :
    due[s] # NoRow /\ (q # Owner[s] \/ altered[s] # {}) => Harmless(side[q], s, due[s])

AlteredShown ==
  \A s \in Session : due[s] # NoRow /\ altered[s] # {} => Shows(index[s], due[s])

(* A process that awaits no rebuild has an idle sidecar, or one that       *)
(* replaces a corrupt file on behalf of a query.                           *)
IdleOrQuery ==
  \A p \in Process : history[p] = "idle" =>
    \/ ~Busy(p)
    \/ /\ side[p].at = "removing" /\ side[p].query
       /\ \A s \in Owned(p) : Marked(s) => due[s] = NoRow

(* A round for the latest generation reads what is due of s, has read it,  *)
(* or has written it.                                                      *)
ToRead(r, s) == s \in r.left /\ r.got[s] = NoRow /\ r.now # s
HasRead(r, s, d) ==
  \/ r.at = "halfway" /\ r.now = s /\ r.got[s].journal >= d.journal
  \/ Shows(r.got[s], d)
HasWritten(r, s, d) == r.got[s] = NoRow /\ r.now # s /\ Shows(index[s], d)
Catching(r, s, d) ==
  /\ r.at \in {"listing"} \cup Past => r.file = file
  /\ r.at \in Past => s \in r.snaps
  /\ r.at \in {"comparing", "deleting"} => ToRead(r, s)
  /\ r.at = "deleting" => s \notin r.stale
  /\ r.at \in {"reading", "halfway"} => ToRead(r, s) \/ HasRead(r, s, d) \/ HasWritten(r, s, d)
LatestRound(p) == history[p] = "refreshing" /\ began[p] = gen[p]
RoundCatches ==
  \A s \in Session :
    due[s] # NoRow /\ Marked(s) /\ LatestRound(Owner[s]) => Catching(side[Owner[s]], s, due[s])

TypeInv == TypeOK /\ SavedBehind /\ Clean
IInv ==
  /\ TypeInv /\ DueWritten /\ DamageFrees /\ BeganBehind
  /\ OthersHarmless /\ AlteredShown /\ IdleOrQuery /\ RoundCatches /\ NextReadObserves

LEMMA Rows == /\ NoRow \in Row /\ NoRows \in [Session -> Row] /\ Idle \in SidecarState
BY DEF NoRow, NoRows, Row, Idle, SidecarState

(* A step of a sidecar changes what that sidecar is doing and nothing else *)
(* of side.                                                                *)
LEMMA OneSidecar ==
  ASSUME side \in [Sidecar -> SidecarState], NEW q \in Sidecar, NEW to, Step(q, to)
  PROVE  /\ side'[q] = to
         /\ \A x \in Sidecar \ {q} : side'[x] = side[x]
         /\ to \in SidecarState => side' \in [Sidecar -> SidecarState]
BY DEF Step

LEMMA Reads ==
  ASSUME NEW r \in SidecarState, NEW s \in Session, NEW row \in Row
  PROVE  /\ [r EXCEPT !.at = "halfway", !.now = s, !.left = @ \ {s}, !.got[s] = row] \in SidecarState
         /\ [r EXCEPT !.at = "reading", !.now = NoSession, !.got[s] = row] \in SidecarState
BY DEF SidecarState
-----------------------------------------------------------------------------
(* What each step of a sidecar makes of its record.                        *)

LEMMA Opening ==
  ASSUME TypeOK, NEW q \in Process, Opens(q) \/ FindsCorrupt(q) \/ QueryFindsCorrupt(q)
  PROVE  /\ q \in Sidecar /\ side[q].at = "idle"
         /\ side' \in [Sidecar -> SidecarState]
         /\ \A x \in Sidecar \ {q} : side'[x] = side[x]
         /\ side'[q].got = NoRows /\ side'[q].now = NoSession
         /\ \/ ~damaged /\ side'[q].at = "listing" /\ side'[q].file = file
            \/ damaged /\ side'[q].at = "removing" /\ (history[q] = "idle" => side'[q].query)
<1>1. q \in Sidecar /\ side[q].at = "idle"
  BY DEF Opens, FindsCorrupt, QueryFindsCorrupt, Busy, Sidecar
<1>2. PICK to \in SidecarState :
        /\ Step(q, to) /\ to.got = NoRows /\ to.now = NoSession
        /\ \/ ~damaged /\ to.at = "listing" /\ to.file = file
           \/ damaged /\ to.at = "removing" /\ (history[q] = "idle" => to.query)
  <2>1. CASE Opens(q)
    <3>1. [Idle EXCEPT !.at = "listing", !.file = file] \in SidecarState
      BY Rows DEF TypeOK, SidecarState
    <3> QED BY <2>1, <3>1 DEF Opens, Idle
  <2>2. CASE FindsCorrupt(q)
    <3>1. [Idle EXCEPT !.at = "removing"] \in SidecarState BY Rows DEF SidecarState
    <3> QED BY <2>2, <3>1 DEF FindsCorrupt, Idle
  <2>3. CASE QueryFindsCorrupt(q)
    <3>1. [Idle EXCEPT !.at = "removing", !.query = TRUE] \in SidecarState BY Rows DEF SidecarState
    <3> QED BY <2>3, <3>1 DEF QueryFindsCorrupt, Idle
  <2> QED BY <2>1, <2>2, <2>3
<1> QED BY <1>1, <1>2, OneSidecar DEF TypeOK

LEMMA Removing ==
  ASSUME TypeOK, NEW q \in Sidecar, RemovesFile(q)
  PROVE  /\ side[q].at = "removing"
         /\ side' \in [Sidecar -> SidecarState]
         /\ \A x \in Sidecar \ {q} : side'[x] = side[x]
         /\ \/ side[q].query /\ side'[q] = Idle
            \/ /\ ~side[q].query /\ side'[q].at = "listing" /\ side'[q].file = file'
               /\ side'[q].got = side[q].got /\ side'[q].now = side[q].now
<1> DEFINE to == [side[q] EXCEPT !.at = "listing", !.file = file + 1]
<1>1. side[q] \in SidecarState /\ to \in SidecarState
  <2>1. side[q] \in SidecarState /\ file + 1 \in Nat BY DEF TypeOK
  <2> QED BY <2>1 DEF SidecarState
<1>2. to.at = "listing" /\ to.file = file + 1 /\ to.got = side[q].got /\ to.now = side[q].now
  BY <1>1 DEF SidecarState
<1>3. CASE side[q].query
  BY <1>3, OneSidecar, Rows DEF RemovesFile, TypeOK
<1>4. CASE ~side[q].query
  <2>1. Step(q, to) BY <1>4 DEF RemovesFile
  <2> HIDE DEF to
  <2> QED BY <1>1, <1>2, <1>4, <2>1, OneSidecar DEF RemovesFile, TypeOK
<1> QED BY <1>3, <1>4
LEMMA Listing ==
  ASSUME TypeOK, NEW q \in Sidecar, Lists(q)
  PROVE  /\ side[q].at = "listing"
         /\ side' \in [Sidecar -> SidecarState]
         /\ \A x \in Sidecar \ {q} : side'[x] = side[x]
         /\ side'[q].at = "comparing" /\ side'[q].left = Listed
         /\ side'[q].snaps = {s \in Session : saved[s] > 0} /\ side'[q].stale = side[q].stale
         /\ side'[q].got = side[q].got /\ side'[q].now = side[q].now /\ side'[q].file = side[q].file
<1> DEFINE snaps == {s \in Session : saved[s] > 0}
           to == [side[q] EXCEPT !.at = "comparing", !.left = Listed, !.snaps = snaps]
<1>1. side[q] \in SidecarState /\ Listed \in SUBSET Session /\ snaps \in SUBSET Session
  BY DEF TypeOK, Listed
<1>2. to \in SidecarState /\ to.at = "comparing" /\ to.left = Listed /\ to.snaps = snaps
      /\ to.stale = side[q].stale /\ to.got = side[q].got /\ to.now = side[q].now /\ to.file = side[q].file
  <2> HIDE DEF snaps
  <2> QED BY <1>1 DEF SidecarState
<1>3. Step(q, to) /\ side[q].at = "listing" BY DEF Lists
<1> HIDE DEF to
<1> QED BY <1>2, <1>3, OneSidecar DEF TypeOK

LEMMA Comparing ==
  ASSUME TypeOK, NEW q \in Sidecar, Compares(q)
  PROVE  /\ side[q].at = "comparing"
         /\ side' \in [Sidecar -> SidecarState]
         /\ \A x \in Sidecar \ {q} : side'[x] = side[x]
         /\ side'[q].at \in {"reading", "deleting"} /\ side'[q].stale \cap side[q].left = {}
         /\ side'[q].left = side[q].left /\ side'[q].snaps = side[q].snaps
         /\ side'[q].got = side[q].got /\ side'[q].now = side[q].now /\ side'[q].file = side[q].file
<1>1. PICK gone \in SUBSET Session, at \in {"reading", "deleting"} :
        gone \cap side[q].left = {} /\ Step(q, [side[q] EXCEPT !.at = at, !.stale = gone])
  <2> DEFINE known == IF Holds(q) THEN {s \in Session : index[s] # NoRow} ELSE {}
             gone == known \ side[q].left
  <2>1. gone \in SUBSET Session /\ gone \cap side[q].left = {} OBVIOUS
  <2>2. Step(q, [side[q] EXCEPT !.at = IF gone = {} THEN "reading" ELSE "deleting", !.stale = gone])
    BY DEF Compares
  <2> HIDE DEF gone
  <2>3. CASE gone = {} BY <2>1, <2>2, <2>3
  <2>4. CASE gone # {} BY <2>1, <2>2, <2>4
  <2> QED BY <2>3, <2>4
<1> DEFINE to == [side[q] EXCEPT !.at = at, !.stale = gone]
<1>2. side[q] \in SidecarState BY DEF TypeOK
<1>3. /\ to \in SidecarState /\ to.at = at /\ to.stale = gone /\ to.left = side[q].left
      /\ to.snaps = side[q].snaps /\ to.got = side[q].got /\ to.now = side[q].now
      /\ to.file = side[q].file
  BY <1>2 DEF SidecarState
<1>4. Step(q, to) /\ side[q].at = "comparing" BY <1>1 DEF Compares
<1> HIDE DEF to
<1> QED BY <1>1, <1>3, <1>4, OneSidecar DEF TypeOK

LEMMA Deleting ==
  ASSUME TypeOK, NEW q \in Sidecar, Deletes(q)
  PROVE  /\ side[q].at = "deleting"
         /\ side' \in [Sidecar -> SidecarState]
         /\ \A x \in Sidecar \ {q} : side'[x] = side[x]
         /\ side'[q].at = "reading" /\ side'[q].stale = {}
         /\ side'[q].left = side[q].left /\ side'[q].snaps = side[q].snaps
         /\ side'[q].got = side[q].got /\ side'[q].now = side[q].now /\ side'[q].file = side[q].file
<1> DEFINE to == [side[q] EXCEPT !.at = "reading", !.stale = {}]
<1>1. side[q] \in SidecarState BY DEF TypeOK
<1>2. /\ to \in SidecarState /\ to.at = "reading" /\ to.stale = {} /\ to.left = side[q].left
      /\ to.snaps = side[q].snaps /\ to.got = side[q].got /\ to.now = side[q].now
      /\ to.file = side[q].file
  BY <1>1 DEF SidecarState
<1>3. Step(q, to) /\ side[q].at = "deleting" BY DEF Deletes
<1> HIDE DEF to
<1> QED BY <1>2, <1>3, OneSidecar DEF TypeOK
LEMMA Reading ==
  ASSUME TypeOK, NEW q \in Sidecar, ReadsJournal(q)
  PROVE  /\ side[q].at = "reading"
         /\ side' \in [Sidecar -> SidecarState]
         /\ \A x \in Sidecar \ {q} : side'[x] = side[x]
         /\ side'[q].snaps = side[q].snaps /\ side'[q].stale = side[q].stale
         /\ side'[q].file = side[q].file
         /\ \E s \in side[q].left :
              /\ s \in Session /\ side'[q].left = side[q].left \ {s}
              /\ \A x \in Session \ {s} : side'[q].got[x] = side[q].got[x]
              /\ \/ /\ side'[q].at = "halfway" /\ side'[q].now = s
                    /\ side'[q].got[s] = [journal |-> journal[s], saved |-> 0]
                 \/ /\ altered[s] # {} /\ side'[q].at = "reading"
                    /\ side'[q].now = side[q].now /\ side'[q].got[s] = side[q].got[s]
<1> DEFINE s == CHOOSE x \in side[q].left : TRUE
<1>1. side[q] \in SidecarState /\ side[q].at = "reading" BY DEF TypeOK, ReadsJournal
<1>2. s \in side[q].left BY DEF ReadsJournal
<1>3. s \in Session BY <1>1, <1>2 DEF SidecarState
<1>4. \/ /\ Verifies(s, "journal")
         /\ Step(q, [side[q] EXCEPT !.at = "halfway", !.now = s, !.left = @ \ {s},
                                    !.got[s] = [journal |-> Complete(s), saved |-> 0]])
      \/ ~Verifies(s, "journal") /\ Step(q, [side[q] EXCEPT !.left = @ \ {s}])
  BY DEF ReadsJournal
<1> HIDE DEF s
<1>5. CASE Verifies(s, "journal")
  <2> DEFINE row == [journal |-> journal[s], saved |-> 0]
             to == [side[q] EXCEPT !.at = "halfway", !.now = s, !.left = @ \ {s}, !.got[s] = row]
  <2>1. row \in Row BY <1>3 DEF TypeOK, Row
  <2>2. Complete(s) = journal[s] BY <1>5 DEF Complete, Verifies
  <2>3. Step(q, to) BY <1>4, <1>5, <2>2
  <2>4. to \in SidecarState
    <3> HIDE DEF row
    <3> QED BY <1>1, <1>3, <2>1, Reads
  <2>5. /\ to.at = "halfway" /\ to.now = s /\ to.left = side[q].left \ {s} /\ to.got[s] = row
        /\ to.snaps = side[q].snaps /\ to.stale = side[q].stale /\ to.file = side[q].file
        /\ \A x \in Session \ {s} : to.got[x] = side[q].got[x]
    <3> HIDE DEF row
    <3> QED BY <1>1, <1>3 DEF SidecarState
  <2> HIDE DEF to
  <2>6. /\ side' \in [Sidecar -> SidecarState] /\ side'[q] = to
        /\ \A x \in Sidecar \ {q} : side'[x] = side[x]
    BY <2>3, <2>4, OneSidecar DEF TypeOK
  <2> QED BY <1>1, <1>2, <1>3, <2>5, <2>6
<1>6. CASE ~Verifies(s, "journal")
  <2> DEFINE to == [side[q] EXCEPT !.left = @ \ {s}]
  <2>1. /\ to \in SidecarState /\ to.at = "reading" /\ to.now = side[q].now
        /\ to.left = side[q].left \ {s} /\ to.got = side[q].got
        /\ to.snaps = side[q].snaps /\ to.stale = side[q].stale /\ to.file = side[q].file
    BY <1>1 DEF SidecarState
  <2>2. Step(q, to) /\ altered[s] # {} BY <1>4, <1>6 DEF Verifies
  <2> HIDE DEF to
  <2>3. /\ side' \in [Sidecar -> SidecarState] /\ side'[q] = to
        /\ \A x \in Sidecar \ {q} : side'[x] = side[x]
    BY <2>1, <2>2, OneSidecar DEF TypeOK
  <2>4. \A x \in Session \ {s} : to.got[x] = side[q].got[x] BY <2>1
  <2> QED BY <1>1, <1>2, <1>3, <2>1, <2>2, <2>3, <2>4
<1> QED BY <1>5, <1>6

LEMMA ReadingOn ==
  ASSUME TypeOK, NEW q \in Sidecar, ReadsSnapshot(q), side[q].now \in Session
  PROVE  /\ side[q].at = "halfway"
         /\ side' \in [Sidecar -> SidecarState]
         /\ \A x \in Sidecar \ {q} : side'[x] = side[x]
         /\ side'[q].at = "reading" /\ side'[q].now = NoSession
         /\ side'[q].left = side[q].left /\ side'[q].snaps = side[q].snaps
         /\ side'[q].stale = side[q].stale /\ side'[q].file = side[q].file
         /\ \A x \in Session \ {side[q].now} : side'[q].got[x] = side[q].got[x]
         /\ LET s == side[q].now IN
            \/ s \notin side[q].snaps /\ side'[q].got[s] = side[q].got[s]
            \/ /\ side'[q].got[s].journal = side[q].got[s].journal
               /\ side'[q].got[s].saved = saved[s]
            \/ altered[s] # {} /\ side'[q].got[s] = NoRow
<1> DEFINE s == side[q].now
           row == IF s \notin side[q].snaps THEN side[q].got[s]
                  ELSE IF Verifies(s, "snapshot") THEN [side[q].got[s] EXCEPT !.saved = Snapshot(s)]
                  ELSE Skipped(q, s)
           to == [side[q] EXCEPT !.at = "reading", !.now = NoSession, !.got[s] = row]
<1>1. side[q] \in SidecarState /\ side[q].at = "halfway" /\ s \in Session
  BY DEF TypeOK, ReadsSnapshot
<1>2. Step(q, to) BY DEF ReadsSnapshot
<1>3. side[q].got[s] \in Row /\ saved[s] \in 0..MaxTurns BY <1>1 DEF SidecarState, TypeOK
<1>4. /\ row \in Row
      /\ \/ s \notin side[q].snaps /\ row = side[q].got[s]
         \/ row.journal = side[q].got[s].journal /\ row.saved = saved[s]
         \/ altered[s] # {} /\ row = NoRow
  <2>1. CASE s \notin side[q].snaps BY <1>3, <2>1
  <2>2. CASE s \in side[q].snaps /\ Verifies(s, "snapshot")
    <3>1. Snapshot(s) = saved[s] BY <2>2 DEF Verifies, Snapshot
    <3>2. row = [side[q].got[s] EXCEPT !.saved = saved[s]] BY <2>2, <3>1
    <3> QED BY <1>3, <3>2 DEF Row
  <2>3. CASE s \in side[q].snaps /\ ~Verifies(s, "snapshot")
    BY <2>3, Rows DEF Verifies, Skipped
  <2> QED BY <2>1, <2>2, <2>3
<1> HIDE DEF row
<1>5. /\ to.at = "reading" /\ to.now = NoSession /\ to.left = side[q].left /\ to.got[s] = row
      /\ to.snaps = side[q].snaps /\ to.stale = side[q].stale /\ to.file = side[q].file
      /\ \A x \in Session \ {s} : to.got[x] = side[q].got[x]
  BY <1>1 DEF SidecarState
<1>6. to \in SidecarState BY <1>1, <1>4, Reads
<1> HIDE DEF to, s
<1>7. s = side[q].now BY DEF s
<1> QED BY <1>1, <1>2, <1>4, <1>5, <1>6, <1>7, OneSidecar DEF TypeOK

LEMMA Writing ==
  ASSUME TypeOK, NEW q \in Sidecar, WritesBatch(q)
  PROVE  /\ side[q].at = "reading"
         /\ side' \in [Sidecar -> SidecarState]
         /\ \A x \in Sidecar \ {q} : side'[x] = side[x]
         /\ side'[q].at = "reading" /\ side'[q].got = NoRows /\ side'[q].now = side[q].now
         /\ side'[q].left = side[q].left /\ side'[q].snaps = side[q].snaps
         /\ side'[q].stale = side[q].stale /\ side'[q].file = side[q].file
<1> DEFINE to == [side[q] EXCEPT !.got = NoRows]
<1>1. side[q] \in SidecarState BY DEF TypeOK
<1>2. /\ to \in SidecarState /\ to.at = side[q].at /\ to.got = NoRows /\ to.now = side[q].now
      /\ to.left = side[q].left /\ to.snaps = side[q].snaps
      /\ to.stale = side[q].stale /\ to.file = side[q].file
  BY <1>1, Rows DEF SidecarState
<1>3. Step(q, to) /\ side[q].at = "reading" BY DEF WritesBatch
<1> HIDE DEF to
<1> QED BY <1>2, <1>3, OneSidecar DEF TypeOK

LEMMA Finishing ==
  ASSUME TypeOK, NEW q \in Sidecar, (q \in Process /\ Reports(q)) \/ ReportsToNobody(q)
  PROVE  /\ side[q].at = "reading" /\ side[q].left = {} /\ side[q].got = NoRows
         /\ side' \in [Sidecar -> SidecarState]
         /\ \A x \in Sidecar \ {q} : side'[x] = side[x]
         /\ side'[q] = Idle
BY Rows, OneSidecar DEF Reports, ReportsToNobody, Finished, TypeOK
-----------------------------------------------------------------------------
(* Types.                                                                  *)

Wakes(q) == q \in Process /\ (Opens(q) \/ FindsCorrupt(q) \/ QueryFindsCorrupt(q))

(* The steps of a sidecar that leave the index alone.                      *)
Aside(q) ==
  \/ Wakes(q) \/ Lists(q) \/ Compares(q)
  \/ ReadsJournal(q) \/ ReadsSnapshot(q) \/ ReportsToNobody(q)

LEMMA StepCases ==
  ASSUME [Next]_vars
  PROVE  \/ UNCHANGED vars
         \/ \E s \in Session : Append(s) \/ Save(s) \/ SaveThrows(s) \/ MarkDirty(s)
         \/ \E p \in Process : Refresh(p) \/ Disable(p) \/ Crash(p) \/ Reports(p)
         \/ \E q \in Sidecar : Aside(q) \/ RemovesFile(q) \/ Deletes(q) \/ WritesBatch(q)
         \/ \E s \in Session, source \in {"journal", "snapshot"} : Alters(s, source)
         \/ Damages
BY DEF Next, Works, Aside, Wakes

LEMMA SidecarsKept ==
  ASSUME TypeOK, Clean, NEW q \in Sidecar,
         \/ Aside(q) \/ RemovesFile(q) \/ Deletes(q) \/ WritesBatch(q)
         \/ q \in Process /\ Reports(q)
  PROVE  /\ side' \in [Sidecar -> SidecarState]
         /\ \A x \in Sidecar \ {q} : side'[x] = side[x]
         /\ Clean'
<1>1. \A x \in Sidecar : side[x] \in SidecarState BY DEF TypeOK
<1>2. CASE Wakes(q) BY <1>2, Opening, <1>1 DEF Wakes, Clean
<1>3. CASE Lists(q) BY <1>3, Listing, <1>1 DEF Clean
<1>4. CASE Compares(q) BY <1>4, Comparing, <1>1 DEF Clean
<1>5. CASE ReadsJournal(q)
  <2>1. side[q].now = NoSession BY <1>5, Reading DEF Clean
  <2>2. /\ side' \in [Sidecar -> SidecarState] /\ \A x \in Sidecar \ {q} : side'[x] = side[x]
        /\ \/ side'[q].at = "reading" /\ side'[q].now = NoSession
           \/ side'[q].at = "halfway" /\ side'[q].now \in Session
    BY <1>5, <2>1, Reading
  <2> QED BY <2>2 DEF Clean
<1>6. CASE ReadsSnapshot(q)
  <2>1. side[q].now \in Session BY <1>6 DEF Clean, ReadsSnapshot
  <2> QED BY <1>6, <2>1, ReadingOn, <1>1 DEF Clean
<1>7. CASE (q \in Process /\ Reports(q)) \/ ReportsToNobody(q)
  BY <1>7, Finishing, <1>1 DEF Clean, Idle
<1>8. CASE RemovesFile(q) BY <1>8, Removing, <1>1 DEF Clean, Idle
<1>9. CASE Deletes(q) BY <1>9, Deleting, <1>1 DEF Clean
<1>10. CASE WritesBatch(q) BY <1>10, Writing, <1>1 DEF Clean
<1> QED BY <1>2, <1>3, <1>4, <1>5, <1>6, <1>7, <1>8, <1>9, <1>10 DEF Aside
LEMMA AsideChanges ==
  ASSUME NEW q, Aside(q) PROVE UNCHANGED <<sources, reader, store, faults, due>>
BY DEF Aside, Wakes, Opens, FindsCorrupt, QueryFindsCorrupt, Lists, Compares, ReadsJournal,
       ReadsSnapshot, ReportsToNobody

LEMMA RowsKept ==
  ASSUME TypeOK, NEW q \in Sidecar, RemovesFile(q) \/ Deletes(q) \/ WritesBatch(q)
  PROVE  index' \in [Session -> Row] /\ UNCHANGED <<sources, reader, faults, due>>
<1>1. CASE RemovesFile(q) BY <1>1, Rows DEF RemovesFile
<1>2. CASE Deletes(q)
  <2>1. [s \in Session |-> IF s \in side[q].stale THEN NoRow ELSE index[s]] \in [Session -> Row]
    BY Rows DEF TypeOK
  <2> QED BY <1>2, <2>1 DEF Deletes, Put, TypeOK
<1>3. CASE WritesBatch(q)
  <2>1. side[q].got \in [Session -> Row] BY DEF TypeOK, SidecarState
  <2>2. [s \in Session |-> IF side[q].got[s] # NoRow THEN side[q].got[s] ELSE index[s]] \in [Session -> Row]
    BY <2>1 DEF TypeOK
  <2> QED BY <1>3, <2>2 DEF WritesBatch, Put, TypeOK
<1> QED BY <1>1, <1>2, <1>3

LEMMA TypeStep == TypeInv /\ [Next]_vars => TypeInv'
<1> SUFFICES ASSUME TypeOK, SavedBehind, Clean, [Next]_vars PROVE TypeOK' /\ SavedBehind' /\ Clean'
  BY DEF TypeInv
<1>0. MaxTurns \in Nat /\ MaxFaults \in Nat OBVIOUS
<1>1. ASSUME NEW s \in Session, Append(s) PROVE TypeOK' /\ SavedBehind' /\ Clean'
  <2>1. TypeOK' BY <1>0, <1>1 DEF Append, TypeOK, reader, store
  <2>2. SavedBehind' BY <1>1 DEF Append, TypeOK, SavedBehind
  <2>3. Clean' BY <1>1 DEF Append, Clean
  <2> QED BY <2>1, <2>2, <2>3
<1>2. ASSUME NEW s \in Session, Save(s) PROVE TypeOK' /\ SavedBehind' /\ Clean'
  <2>1. saved[s] + 1 \in 0..MaxTurns BY <1>0, <1>2 DEF Save, TypeOK, SavedBehind
  <2>2. [journal |-> journal[s], saved |-> saved[s] + 1] \in Row BY <2>1 DEF TypeOK, Row
  <2>3. due' \in [Session -> Row]
    <3> HIDE DEF Row
    <3> QED BY <1>2, <2>2 DEF Save, TypeOK
  <2>4. TypeOK' BY <1>2, <2>1, <2>3 DEF Save, TypeOK, reader, store
  <2>5. SavedBehind' BY <1>2 DEF Save, TypeOK, SavedBehind
  <2>6. Clean' BY <1>2 DEF Save, Clean
  <2> QED BY <2>4, <2>5, <2>6
<1>3. ASSUME NEW s \in Session, SaveThrows(s) PROVE TypeOK' /\ SavedBehind' /\ Clean'
  BY <1>3 DEF SaveThrows, TypeOK, SavedBehind, Clean, reader, store
<1>4. ASSUME NEW s \in Session, MarkDirty(s) PROVE TypeOK' /\ SavedBehind' /\ Clean'
  <2>1. Owner[s] \in Process OBVIOUS
  <2>2. /\ gen' \in [Process -> Nat] /\ began' \in [Process -> Nat]
        /\ history' \in [Process -> {"idle", "refreshing", "fallback"}]
    BY <1>4, <2>1 DEF MarkDirty, Rebuilds, TypeOK
  <2>3. TypeOK' BY <1>4, <2>2 DEF MarkDirty, TypeOK, store
  <2> QED BY <1>4, <2>3 DEF MarkDirty, TypeOK, SavedBehind, Clean
<1>5. ASSUME NEW p \in Process, Refresh(p) PROVE TypeOK' /\ SavedBehind' /\ Clean'
  BY <1>5 DEF Refresh, Rebuilds, TypeOK, SavedBehind, Clean, sources, store
<1>6. ASSUME NEW p \in Process, Disable(p) PROVE TypeOK' /\ SavedBehind' /\ Clean'
  <2>0. /\ side \in [Sidecar -> SidecarState] /\ p \in Sidecar
        /\ side' = side \/ side' = [side EXCEPT ![p] = Idle]
    BY <1>6 DEF Disable, TypeOK, Sidecar
  <2>1. side' \in [Sidecar -> SidecarState] /\ Clean'
    <3>1. CASE side' = side BY <2>0, <3>1 DEF Clean
    <3>2. CASE side' = [side EXCEPT ![p] = Idle]
      <4>1. side' \in [Sidecar -> SidecarState] BY <2>0, <3>2, Rows
      <4>2. side'[p] = Idle /\ \A x \in Sidecar \ {p} : side'[x] = side[x] BY <2>0, <3>2
      <4> QED BY <4>1, <4>2 DEF Clean, Idle
    <3> QED BY <2>0, <3>1, <3>2
  <2>2. TypeOK' BY <1>0, <1>6, <2>1 DEF Disable, TypeOK, sources, store
  <2> QED BY <1>6, <2>1, <2>2 DEF Disable, SavedBehind, sources
<1>7. ASSUME NEW p \in Process, Reports(p) PROVE TypeOK' /\ SavedBehind' /\ Clean'
  <2>1. side' \in [Sidecar -> SidecarState] /\ Clean' BY <1>7, SidecarsKept DEF Sidecar
  <2>2. /\ began' \in [Process -> Nat] /\ indexed' \in [Process -> Nat]
        /\ history' \in [Process -> {"idle", "refreshing", "fallback"}]
    BY <1>7 DEF Reports, Rebuilds, IndexedBy, NextRound, TypeOK
  <2>3. TypeOK' BY <1>7, <2>1, <2>2 DEF Reports, TypeOK, sources, store
  <2> QED BY <1>7, <2>1, <2>3 DEF Reports, SavedBehind, sources
<1>8. ASSUME NEW q \in Sidecar, Aside(q) PROVE TypeOK' /\ SavedBehind' /\ Clean'
  BY <1>8, SidecarsKept, AsideChanges DEF TypeOK, SavedBehind, sources, reader, store
<1>9. ASSUME NEW q \in Sidecar, RemovesFile(q) \/ Deletes(q) \/ WritesBatch(q)
      PROVE  TypeOK' /\ SavedBehind' /\ Clean'
  <2>1. side' \in [Sidecar -> SidecarState] /\ Clean' BY <1>9, SidecarsKept
  <2>2. file' \in Nat /\ damaged' \in BOOLEAN
    <3>1. CASE RemovesFile(q)
      <4>1. file' = file + 1 /\ damaged' = FALSE BY <3>1 DEF RemovesFile
      <4>2. file \in Nat BY DEF TypeOK
      <4>3. file + 1 \in Nat BY <4>2
      <4> QED BY <4>1, <4>3
    <3>2. CASE Deletes(q) BY <3>2 DEF Deletes, TypeOK
    <3>3. CASE WritesBatch(q) BY <3>3 DEF WritesBatch, TypeOK
    <3> QED BY <1>9, <3>1, <3>2, <3>3
  <2> QED BY <1>9, <2>1, <2>2, RowsKept DEF TypeOK, SavedBehind, sources, reader
<1>10. ASSUME NEW p \in Process, Crash(p) PROVE TypeOK' /\ SavedBehind' /\ Clean'
  <2>0. side \in [Sidecar -> SidecarState] /\ p \in Sidecar /\ Orphan \in Sidecar /\ p # Orphan
    BY DEF TypeOK, Sidecar
  <2>1. side' \in [Sidecar -> SidecarState] /\ Clean'
    <3>1. side' = [side EXCEPT ![p] = Idle, ![Orphan] = side[p]] BY <1>10 DEF Crash
    <3>2. side' \in [Sidecar -> SidecarState] BY <2>0, <3>1, Rows
    <3>3. /\ side'[p] = Idle /\ side'[Orphan] = side[p]
          /\ \A x \in Sidecar \ {p, Orphan} : side'[x] = side[x]
      BY <2>0, <3>1
    <3> QED BY <2>0, <3>2, <3>3 DEF Clean, Idle
  <2>2. torn' \in [Session -> BOOLEAN] /\ turn' \in [Session -> {"idle", "appended", "saved"}]
    BY <1>10 DEF Crash, TypeOK
  <2>3. due' \in [Session -> Row] BY <1>10, Rows DEF Crash, TypeOK
  <2>4. TypeOK' BY <1>0, <1>10, <2>1, <2>2, <2>3 DEF Crash, TypeOK, store
  <2>5. SavedBehind' BY <1>10 DEF Crash, TypeOK, SavedBehind
  <2> QED BY <2>1, <2>4, <2>5
<1>11. ASSUME NEW s \in Session, NEW source \in {"journal", "snapshot"}, Alters(s, source)
       PROVE  TypeOK' /\ SavedBehind' /\ Clean'
  <2>1. due' \in [Session -> Row] BY <1>11, Rows DEF Alters, TypeOK
  <2>2. altered' \in [Session -> SUBSET {"journal", "snapshot"}] BY <1>11 DEF Alters, TypeOK
  <2>3. TypeOK' BY <1>0, <1>11, <2>1, <2>2 DEF Alters, TypeOK, reader, store
  <2> QED BY <1>11, <2>3 DEF Alters, SavedBehind, Clean
<1>12. CASE Damages
  BY <1>0, <1>12, Rows DEF Damages, TypeOK, SavedBehind, Clean, sources, reader
<1>13. CASE UNCHANGED vars
  BY <1>13 DEF vars, TypeOK, SavedBehind, Clean, sources, reader, store
<1> QED BY StepCases, <1>1, <1>2, <1>3, <1>4, <1>5, <1>6, <1>7, <1>8, <1>9, <1>10, <1>11, <1>12, <1>13
-----------------------------------------------------------------------------
(* Sources only grow, and once altered stay so.                            *)
LEMMA SourcesGrow ==
  ASSUME TypeOK, [Next]_vars, NEW s \in Session
  PROVE  journal[s] <= journal'[s] /\ saved[s] <= saved'[s] /\ altered[s] \subseteq altered'[s]
<1>0. journal[s] \in Nat /\ saved[s] \in Nat BY DEF TypeOK
<1>1. ASSUME NEW t \in Session, Append(t)
      PROVE  journal[s] <= journal'[s] /\ saved' = saved /\ altered' = altered
  BY <1>0, <1>1 DEF Append, TypeOK
<1>2. ASSUME NEW t \in Session, Save(t)
      PROVE  saved[s] <= saved'[s] /\ journal' = journal /\ altered' = altered
  BY <1>0, <1>2 DEF Save, TypeOK
<1>3. ASSUME NEW t \in Session, NEW source, Alters(t, source)
      PROVE  saved' = saved /\ journal' = journal /\ altered[s] \subseteq altered'[s]
  BY <1>3 DEF Alters, TypeOK
<1>4. \/ UNCHANGED vars
      \/ \E t \in Session : SaveThrows(t) \/ MarkDirty(t)
      \/ \E p \in Process : Refresh(p) \/ Disable(p) \/ Crash(p) \/ Reports(p)
      \/ Damages
      => UNCHANGED <<journal, saved, altered>>
  BY DEF vars, SaveThrows, MarkDirty, Refresh, Disable, Crash, Reports, Damages, sources
<1>5. ASSUME NEW q \in Sidecar, Aside(q) \/ RemovesFile(q) \/ Deletes(q) \/ WritesBatch(q)
      PROVE  UNCHANGED <<journal, saved, altered>>
  BY <1>5, AsideChanges, RowsKept DEF sources
<1> QED BY <1>0, <1>1, <1>2, <1>3, <1>4, <1>5, StepCases

(* What a save entitles its process to.                                    *)
Owes(s) == [journal |-> journal[s], saved |-> saved[s] + 1]

LEMMA DueStep ==
  ASSUME TypeOK, [Next]_vars, NEW s \in Session
  PROVE  \/ due'[s] = due[s] \/ due'[s] = NoRow
         \/ Save(s) /\ Undisturbed(s) /\ due'[s] = Owes(s)
<1>1. ASSUME NEW t \in Session, Save(t)
      PROVE  due'[s] = due[s] \/ (t = s /\ Undisturbed(s) /\ due'[s] = Owes(s))
  <2>1. due \in [Session -> Row] BY DEF TypeOK
  <2> QED BY <1>1, <2>1 DEF Save, Owes
<1>2. ASSUME NEW p \in Process, Crash(p) PROVE due'[s] = due[s] \/ due'[s] = NoRow
  BY <1>2 DEF Crash
<1>3. ASSUME NEW t \in Session, NEW source, Alters(t, source)
      PROVE  due'[s] = due[s] \/ due'[s] = NoRow
  <2>1. due \in [Session -> Row] BY DEF TypeOK
  <2> QED BY <1>3, <2>1 DEF Alters
<1>4. Damages => due'[s] = NoRow BY DEF Damages, NoRows
<1>5. \/ UNCHANGED vars
      \/ \E t \in Session : Append(t) \/ SaveThrows(t) \/ MarkDirty(t)
      \/ \E p \in Process : Refresh(p) \/ Disable(p) \/ Reports(p)
      => due' = due
  BY DEF vars, Append, SaveThrows, MarkDirty, Refresh, Disable, Reports
<1>6. ASSUME NEW q \in Sidecar, Aside(q) \/ RemovesFile(q) \/ Deletes(q) \/ WritesBatch(q)
      PROVE  due' = due
  BY <1>6, AsideChanges, RowsKept
<1> QED BY <1>1, <1>2, <1>3, <1>4, <1>5, <1>6, StepCases

LEMMA WrittenStep == TypeInv /\ DueWritten /\ [Next]_vars => DueWritten'
<1> SUFFICES ASSUME TypeInv, TypeOK, SavedBehind, DueWritten, [Next]_vars, NEW s \in Session, due'[s] # NoRow
             PROVE  /\ journal'[s] >= due'[s].journal /\ saved'[s] >= due'[s].saved
                    /\ due'[s].journal > 0 /\ due'[s].saved > 0
  BY DEF DueWritten, TypeInv, Shows, Written
<1>0. /\ journal[s] \in Nat /\ saved[s] \in Nat
      /\ due[s].journal \in Nat /\ due[s].saved \in Nat
  BY DEF TypeOK, Row
<1>1. CASE due'[s] = due[s]
  <2>1. /\ journal[s] >= due[s].journal /\ saved[s] >= due[s].saved
        /\ due[s].journal > 0 /\ due[s].saved > 0
    BY <1>1 DEF DueWritten, Shows, Written
  <2>2. journal'[s] \in Nat /\ saved'[s] \in Nat BY TypeStep DEF TypeInv, TypeOK
  <2> QED BY <1>0, <1>1, <2>1, <2>2, SourcesGrow
<1>2. CASE Save(s) /\ due'[s] = Owes(s)
  <2>1. saved[s] < journal[s] BY <1>2 DEF Save, SavedBehind
  <2>2. journal'[s] = journal[s] /\ saved'[s] = saved[s] + 1 BY <1>2 DEF Save, TypeOK
  <2> QED BY <1>0, <1>2, <2>1, <2>2 DEF Owes
<1> QED BY <1>1, <1>2, DueStep
LEMMA DamageStep == TypeOK /\ DamageFrees /\ [Next]_vars => DamageFrees'
<1> SUFFICES ASSUME TypeOK, DamageFrees, [Next]_vars, damaged' PROVE due' = NoRows
  BY DEF DamageFrees
<1>1. ASSUME NEW s \in Session, Save(s) PROVE due' = NoRows
  <2>1. damaged BY <1>1 DEF Save, store
  <2>2. ~Undisturbed(s) BY <2>1 DEF Undisturbed
  <2> QED BY <1>1, <2>1, <2>2 DEF Save, DamageFrees
<1>2. ASSUME NEW p \in Process, Crash(p) PROVE due' = NoRows
  BY <1>2 DEF Crash, store, DamageFrees, NoRows
<1>3. ASSUME NEW t \in Session, NEW source, Alters(t, source) PROVE due' = NoRows
  BY <1>3 DEF Alters, store, DamageFrees, NoRows
<1>4. CASE Damages BY <1>4 DEF Damages
<1>5. \/ UNCHANGED vars
      \/ \E t \in Session : Append(t) \/ SaveThrows(t) \/ MarkDirty(t)
      \/ \E p \in Process : Refresh(p) \/ Disable(p) \/ Reports(p)
      => due' = due /\ damaged' = damaged
  BY DEF vars, Append, SaveThrows, MarkDirty, Refresh, Disable, Reports, store
<1>6. ASSUME NEW q \in Sidecar, Aside(q) PROVE due' = due /\ damaged' = damaged
  BY <1>6, AsideChanges DEF store
<1>7. ASSUME NEW q \in Sidecar, Deletes(q) \/ WritesBatch(q) PROVE due' = due /\ damaged' = damaged
  BY <1>7 DEF Deletes, WritesBatch
<1>8. ASSUME NEW q \in Sidecar, RemovesFile(q) PROVE ~damaged'
  BY <1>8 DEF RemovesFile
<1> QED BY <1>1, <1>2, <1>3, <1>4, <1>5, <1>6, <1>7, <1>8, StepCases DEF DamageFrees

LEMMA BeganStep == TypeOK /\ BeganBehind /\ [Next]_vars => BeganBehind'
<1> SUFFICES ASSUME TypeOK, BeganBehind, [Next]_vars, NEW p \in Process PROVE began'[p] <= gen'[p]
  BY DEF BeganBehind
<1>0. began[p] <= gen[p] /\ began[p] \in Nat /\ gen[p] \in Nat
      /\ gen \in [Process -> Nat] /\ began \in [Process -> Nat]
  BY DEF BeganBehind, TypeOK
<1>1. ASSUME NEW s \in Session, MarkDirty(s) PROVE began'[p] <= gen'[p]
  <2>1. Owner[s] \in Process OBVIOUS
  <2>2. gen' = [gen EXCEPT ![Owner[s]] = @ + 1]
        /\ (began' = began \/ began' = [began EXCEPT ![Owner[s]] = gen[Owner[s]] + 1])
    BY <1>1 DEF MarkDirty, Rebuilds
  <2> QED BY <1>0, <2>1, <2>2
<1>2. ASSUME NEW r \in Process, Refresh(r) \/ Disable(r) \/ Reports(r)
      PROVE  gen' = gen /\ (began' = began \/ \E n \in {0, gen[r]} : began' = [began EXCEPT ![r] = n])
  BY <1>2 DEF Refresh, Disable, Reports, Rebuilds, NextRound, sources
<1>3. ASSUME NEW r \in Process, Crash(r) PROVE began'[p] <= gen'[p]
  BY <1>0, <1>3 DEF Crash
<1>4. \/ UNCHANGED vars \/ Damages
      \/ \E s \in Session : Append(s) \/ Save(s) \/ SaveThrows(s)
      \/ \E s \in Session, source \in {"journal", "snapshot"} : Alters(s, source)
      => gen' = gen /\ began' = began
  BY DEF vars, Append, Save, SaveThrows, Alters, Damages, reader
<1>5. ASSUME NEW q \in Sidecar, Aside(q) \/ RemovesFile(q) \/ Deletes(q) \/ WritesBatch(q)
      PROVE  gen' = gen /\ began' = began
  BY <1>5, AsideChanges, RowsKept DEF reader
<1>6. ASSUME NEW r \in Process, Refresh(r) \/ Disable(r) \/ Reports(r) PROVE began'[p] <= gen'[p]
  BY <1>0, <1>2, <1>6
<1> QED BY <1>0, <1>1, <1>3, <1>4, <1>5, <1>6, StepCases

(* What is in hand or in the index was written.                            *)
LEMMA RowsStep == TypeInv /\ RowsWereWritten /\ [Next]_vars => RowsWereWritten'
<1> SUFFICES ASSUME TypeInv, RowsWereWritten, [Next]_vars PROVE RowsWereWritten'
  OBVIOUS
<1>0. TypeOK /\ Clean /\ TypeOK' BY TypeStep DEF TypeInv
<1> DEFINE Fits(row, s) == row.journal <= journal[s] /\ row.saved <= saved[s]
<1>1. ASSUME NEW s \in Session, NEW row \in Row, Fits(row, s) \/ row = NoRow
      PROVE  Shows(Written(s)', row)
  <2>1. journal[s] \in Nat /\ saved[s] \in Nat /\ journal'[s] \in Nat /\ saved'[s] \in Nat
        /\ row.journal \in Nat /\ row.saved \in Nat
    BY <1>0 DEF TypeOK, Row
  <2>2. journal[s] <= journal'[s] /\ saved[s] <= saved'[s] BY <1>0, SourcesGrow
  <2>3. row.journal <= journal'[s] /\ row.saved <= saved'[s]
    BY <1>1, <2>1, <2>2 DEF NoRow
  <2> QED BY <2>1, <2>3 DEF Shows, Written
<1>2. ASSUME NEW s \in Session
      PROVE  Fits(index[s], s) /\ \A q \in Sidecar : Fits(side[q].got[s], s)
  <2>1. /\ index[s] \in Row /\ journal[s] \in Nat /\ saved[s] \in Nat
        /\ \A q \in Sidecar : side[q].got[s] \in Row
    BY <1>0 DEF TypeOK, SidecarState
  <2> QED BY <2>1 DEF RowsWereWritten, Shows, Written, Row
<1>3. ASSUME NEW s \in Session
      PROVE  /\ Fits(index'[s], s) \/ index'[s] = NoRow
             /\ \A q \in Sidecar : Fits(side'[q].got[s], s) \/ side'[q].got[s] = NoRow
  <2>1. CASE UNCHANGED <<side, index>> BY <1>2, <2>1
  <2>2. ASSUME NEW p \in Process, Disable(p)
        PROVE  index' = index /\ \A q \in Sidecar : side'[q] \in {side[q], Idle}
    BY <1>0, <2>2 DEF Disable, store, TypeOK, Sidecar
  <2>3. ASSUME NEW p \in Process, Crash(p)
        PROVE  index' = index /\ \A q \in Sidecar : side'[q] \in {side[q], Idle, side[p]}
    BY <1>0, <2>3 DEF Crash, store, TypeOK, Sidecar
  <2>4. CASE Damages BY <1>2, <2>4 DEF Damages, NoRows
  <2>5. ASSUME NEW q \in Sidecar,
               \/ Aside(q) \/ RemovesFile(q) \/ Deletes(q) \/ WritesBatch(q)
               \/ q \in Process /\ Reports(q)
        PROVE  Fits(side'[q].got[s], s) \/ side'[q].got[s] = NoRow
    <3>0. journal[s] \in Nat /\ saved[s] \in Nat BY <1>0 DEF TypeOK
    <3>1. NoRows[s] = NoRow /\ Idle.got = NoRows BY DEF NoRows, Idle
    <3>2. CASE side'[q].got[s] = side[q].got[s] BY <1>2, <3>2
    <3>3. CASE Wakes(q) BY <1>0, <3>1, <3>3, Opening DEF Wakes
    <3>4. CASE RemovesFile(q) BY <1>0, <1>2, <3>1, <3>4, Removing
    <3>5. CASE Lists(q) BY <1>0, <3>2, <3>5, Listing
    <3>6. CASE Compares(q) BY <1>0, <3>2, <3>6, Comparing
    <3>7. CASE Deletes(q) BY <1>0, <3>2, <3>7, Deleting
    <3>8. CASE ReadsJournal(q)
      <4>1. \/ side'[q].got[s] = side[q].got[s]
            \/ side'[q].got[s] = [journal |-> journal[s], saved |-> 0]
        BY <1>0, <3>8, Reading
      <4> QED BY <3>0, <3>2, <4>1
    <3>9. CASE ReadsSnapshot(q)
      <4>1. side[q].now \in Session BY <1>0, <3>9 DEF ReadsSnapshot, Clean
      <4>2. \/ side'[q].got[s] = side[q].got[s] \/ side'[q].got[s] = NoRow
            \/ /\ side'[q].got[s].journal = side[q].got[s].journal
               /\ side'[q].got[s].saved = saved[s]
        BY <1>0, <3>9, <4>1, ReadingOn
      <4> QED BY <1>2, <3>0, <3>2, <4>2
    <3>10. CASE WritesBatch(q) BY <1>0, <3>1, <3>10, Writing
    <3>11. CASE (q \in Process /\ Reports(q)) \/ ReportsToNobody(q)
      BY <1>0, <3>1, <3>11, Finishing
    <3> QED BY <2>5, <3>3, <3>4, <3>5, <3>6, <3>7, <3>8, <3>9, <3>10, <3>11 DEF Aside
  <2>6. ASSUME NEW q \in Sidecar, RemovesFile(q) \/ Deletes(q) \/ WritesBatch(q)
        PROVE  Fits(index'[s], s) \/ index'[s] = NoRow
    <3>1. index'[s] = index[s] \/ index'[s] = NoRow \/ index'[s] = side[q].got[s]
      BY <2>6 DEF RemovesFile, Deletes, WritesBatch, Put, NoRows
    <3> QED BY <1>2, <3>1
  <2>7. ASSUME NEW q \in Sidecar,
               \/ Aside(q) \/ RemovesFile(q) \/ Deletes(q) \/ WritesBatch(q)
               \/ q \in Process /\ Reports(q)
        PROVE  \A x \in Sidecar \ {q} : side'[x] = side[x]
    BY <1>0, <2>7, SidecarsKept
  <2>8. ASSUME NEW q \in Sidecar, Aside(q) \/ (q \in Process /\ Reports(q))
        PROVE  index' = index
    BY <2>8, AsideChanges DEF Reports, store
  <2>9. Idle.got[s] = NoRow BY DEF Idle, NoRows
  <2>10. \/ \E t \in Session : Append(t) \/ Save(t) \/ SaveThrows(t) \/ MarkDirty(t)
         \/ \E p \in Process : Refresh(p)
         \/ \E t \in Session, source \in {"journal", "snapshot"} : Alters(t, source)
         \/ UNCHANGED vars
         => UNCHANGED <<side, index>>
    BY DEF vars, Append, Save, SaveThrows, MarkDirty, Refresh, Alters, store
  <2>11. ASSUME NEW p \in Process, Disable(p) \/ Crash(p)
         PROVE  /\ Fits(index'[s], s) \/ index'[s] = NoRow
                /\ \A q \in Sidecar : Fits(side'[q].got[s], s) \/ side'[q].got[s] = NoRow
    <3>1. p \in Sidecar BY DEF Sidecar
    <3>2. index' = index /\ \A q \in Sidecar : side'[q] \in {side[q], Idle, side[p]}
      BY <2>2, <2>3, <2>11
    <3> QED BY <1>2, <2>9, <3>1, <3>2
  <2>12. ASSUME NEW q \in Sidecar,
                \/ Aside(q) \/ RemovesFile(q) \/ Deletes(q) \/ WritesBatch(q)
                \/ q \in Process /\ Reports(q)
         PROVE  /\ Fits(index'[s], s) \/ index'[s] = NoRow
                /\ \A x \in Sidecar : Fits(side'[x].got[s], s) \/ side'[x].got[s] = NoRow
    BY <1>2, <2>5, <2>6, <2>7, <2>8, <2>12
  <2> HIDE DEF Fits
  <2> QED BY StepCases, <2>1, <2>4, <2>10, <2>11, <2>12 DEF Sidecar
<1> QED BY <1>0, <1>1, <1>3 DEF RowsWereWritten, TypeOK, SidecarState
-----------------------------------------------------------------------------
(* The owner reads what is due.                                            *)

(* Whatever a harmless sidecar does next is harmless, keeps the file and   *)
(* keeps the row of s or writes one that shows what is due.                *)
LEMMA HarmlessStep ==
  ASSUME TypeInv, DueWritten, DamageFrees, NEW s \in Session, due[s] # NoRow, NEW q \in Sidecar,
         \/ Aside(q) \/ RemovesFile(q) \/ Deletes(q) \/ WritesBatch(q)
         \/ q \in Process /\ Reports(q),
         Harmless(side[q], s, due[s])
  PROVE  /\ Harmless(side'[q], s, due[s])
         /\ index'[s] = index[s] \/ Shows(index'[s], due[s])
         /\ UNCHANGED <<file, damaged>>
<1> DEFINE d == due[s]
           r == side[q]
           t == side'[q]
<1>0. TypeOK /\ Clean /\ r \in SidecarState BY DEF TypeInv, TypeOK
<1>1. /\ d.journal \in Nat /\ d.saved \in Nat /\ d.journal > 0 /\ d.saved > 0
      /\ journal[s] \in Nat /\ saved[s] \in Nat
      /\ journal[s] >= d.journal /\ saved[s] >= d.saved /\ ~damaged
  BY <1>0 DEF DueWritten, Shows, Written, TypeOK, Row, DamageFrees, NoRows
<1>2. ASSUME Aside(q) \/ (q \in Process /\ Reports(q)) PROVE UNCHANGED <<index, file, damaged>>
  BY <1>2, AsideChanges DEF Reports, store
<1>3. NoRows[s] = NoRow /\ s # NoSession BY DEF NoRows
<1>4. ASSUME Wakes(q) PROVE Harmless(t, s, d)
  <2>1. t.at = "listing" BY <1>0, <1>1, <1>4, Opening DEF Wakes
  <2> QED BY <2>1 DEF Harmless, Past
<1>5. ASSUME Lists(q) PROVE Harmless(t, s, d)
  <2>1. s \in Listed /\ s \in {x \in Session : saved[x] > 0} BY <1>1 DEF Listed
  <2>2. r.got = NoRows /\ r.now = NoSession BY <1>0, <1>5 DEF Clean, Lists
  <2>3. t.at = "comparing" /\ s \in t.snaps /\ s \in t.left /\ t.got[s] = NoRow /\ t.now # s
    BY <1>0, <1>3, <1>5, <2>1, <2>2, Listing
  <2> QED BY <2>3 DEF Harmless, Past
<1>6. ASSUME Compares(q) PROVE Harmless(t, s, d)
  <2>1. s \in r.left /\ s \in r.snaps BY <1>6 DEF Compares, Harmless, Past
  <2>2. r.got = NoRows /\ r.now = NoSession BY <1>0, <1>6 DEF Clean, Compares
  <2>3. /\ t.at \in {"reading", "deleting"} /\ s \notin t.stale /\ s \in t.snaps
        /\ t.got[s] = NoRow /\ t.now # s
    BY <1>0, <1>3, <1>6, <2>1, <2>2, Comparing
  <2> QED BY <2>3 DEF Harmless, Past
<1>7. ASSUME Deletes(q) PROVE Harmless(t, s, d) /\ index'[s] = index[s]
  <2>1. s \notin r.stale /\ s \in r.snaps BY <1>7 DEF Deletes, Harmless, Past
  <2>2. r.got = NoRows /\ r.now = NoSession BY <1>0, <1>7 DEF Clean, Deletes
  <2>3. t.at = "reading" /\ s \in t.snaps /\ t.got[s] = NoRow /\ t.now # s
    BY <1>0, <1>3, <1>7, <2>1, <2>2, Deleting
  <2>4. index'[s] = index[s] BY <1>7, <2>1 DEF Deletes, Put
  <2> QED BY <2>3, <2>4 DEF Harmless, Past
<1>8. ~RemovesFile(q) BY DEF RemovesFile, Harmless
<1>9. ASSUME ReadsJournal(q) PROVE Harmless(t, s, d)
  <2>0. r.now = NoSession BY <1>0, <1>9 DEF Clean, ReadsJournal
  <2>1. /\ r.at = "reading" /\ t.at \in {"reading", "halfway"} /\ t.snaps = r.snaps
        /\ \/ t.got[s] = r.got[s] /\ t.now # s
           \/ t.at = "halfway" /\ t.now = s /\ t.got[s] = [journal |-> journal[s], saved |-> 0]
    <3>1. /\ r.at = "reading" /\ t.snaps = r.snaps
          /\ \E x \in r.left :
               /\ \A y \in Session \ {x} : t.got[y] = r.got[y]
               /\ \/ /\ t.at = "halfway" /\ t.now = x
                     /\ t.got[x] = [journal |-> journal[x], saved |-> 0]
                  \/ t.at = "reading" /\ t.now = r.now /\ t.got[x] = r.got[x]
      BY <1>0, <1>9, Reading
    <3> HIDE DEF r, t
    <3> QED BY <1>3, <2>0, <3>1
  <2>2. s \in r.snaps /\ (r.got[s] = NoRow \/ Shows(r.got[s], d)) BY <2>1 DEF Harmless, Past
  <2>3. CASE t.got[s] = r.got[s] /\ t.now # s BY <2>1, <2>2, <2>3 DEF Harmless
  <2>4. CASE t.at = "halfway" /\ t.now = s /\ t.got[s] = [journal |-> journal[s], saved |-> 0]
    <3>1. t.got[s].journal >= d.journal BY <1>1, <2>4
    <3> QED BY <2>1, <2>2, <2>4, <3>1 DEF Harmless
  <2> QED BY <2>1, <2>3, <2>4
<1>10. ASSUME ReadsSnapshot(q) PROVE Harmless(t, s, d)
  <2>1. r.now \in Session BY <1>0, <1>10 DEF Clean, ReadsSnapshot
  <2>2. /\ s \in r.snaps /\ r.at = "halfway"
        /\ \/ r.got[s] = NoRow /\ r.now # s
           \/ Shows(r.got[s], d)
           \/ r.now = s /\ r.got[s].journal >= d.journal
    BY <1>10 DEF ReadsSnapshot, Harmless, Past
  <2>3. /\ t.at = "reading" /\ t.snaps = r.snaps /\ t.now = NoSession
        /\ \/ r.now # s /\ t.got[s] = r.got[s]
           \/ /\ r.now = s /\ t.got[s].journal = r.got[s].journal
              /\ t.got[s].saved = saved[s]
           \/ t.got[s] = NoRow
    BY <1>0, <1>10, <2>1, <2>2, ReadingOn
  <2>4. t.got[s] = NoRow \/ Shows(t.got[s], d)
    <3>1. CASE r.now # s /\ t.got[s] = r.got[s] BY <2>2, <3>1
    <3>2. CASE r.now = s /\ t.got[s].journal = r.got[s].journal /\ t.got[s].saved = saved[s]
      <4>1. r.got[s].journal >= d.journal BY <2>2, <3>2 DEF Shows
      <4> QED BY <1>1, <3>2, <4>1 DEF Shows
    <3> QED BY <2>3, <3>1, <3>2
  <2> QED BY <1>3, <2>2, <2>3, <2>4 DEF Harmless
<1>11. ASSUME WritesBatch(q)
       PROVE  Harmless(t, s, d) /\ (index'[s] = index[s] \/ Shows(index'[s], d))
  <2>1. r.at = "reading" /\ r.now = NoSession BY <1>0, <1>11 DEF WritesBatch, Clean
  <2>2. s \in r.snaps /\ (r.got[s] = NoRow \/ Shows(r.got[s], d)) BY <2>1 DEF Harmless, Past
  <2>3. t.at = "reading" /\ t.snaps = r.snaps /\ t.got[s] = NoRow /\ t.now # s
    BY <1>0, <1>3, <1>11, <2>1, Writing
  <2>4. index'[s] = index[s] \/ (r.got[s] # NoRow /\ index'[s] = r.got[s])
    BY <1>11 DEF WritesBatch, Put
  <2> QED BY <2>2, <2>3, <2>4 DEF Harmless
<1>12. ASSUME (q \in Process /\ Reports(q)) \/ ReportsToNobody(q) PROVE Harmless(t, s, d)
  <2>1. t.at = "idle" BY <1>0, <1>12, Finishing DEF Idle
  <2> QED BY <2>1 DEF Harmless, Past
<1>13. ASSUME Deletes(q) \/ WritesBatch(q) PROVE UNCHANGED <<file, damaged>>
  BY <1>13 DEF Deletes, WritesBatch
<1> HIDE DEF d, r, t
<1>14. Harmless(t, s, d) /\ (index'[s] = index[s] \/ Shows(index'[s], d)) /\ UNCHANGED <<file, damaged>>
  BY <1>2, <1>4, <1>5, <1>6, <1>7, <1>8, <1>9, <1>10, <1>11, <1>12, <1>13 DEF Aside
<1> QED BY <1>14 DEF d, t
LEMMA IdleHarmless ==
  ASSUME NEW r, r.at = "idle", NEW s, NEW d PROVE Harmless(r, s, d)
BY DEF Harmless, Past

(* Only Alters alters, and it leaves due what is shown while nobody works. *)
LEMMA NewlyAltered ==
  ASSUME TypeOK, [Next]_vars, NEW s \in Session, altered[s] = {}, altered'[s] # {}, due'[s] # NoRow
  PROVE  /\ Shows(index[s], due[s]) /\ due'[s] = due[s]
         /\ UNCHANGED <<turn, reader, side, store>>
         /\ \A q \in Sidecar : ~Busy(q)
<1>1. PICK t \in Session, source \in {"journal", "snapshot"} : Alters(t, source)
  <2>1. \/ UNCHANGED vars
        \/ \E t \in Session : Append(t) \/ Save(t) \/ SaveThrows(t) \/ MarkDirty(t)
        \/ \E p \in Process : Refresh(p) \/ Disable(p) \/ Crash(p) \/ Reports(p)
        \/ Damages
        => altered' = altered
    BY DEF vars, Append, Save, SaveThrows, MarkDirty, Refresh, Disable, Crash, Reports, Damages, sources
  <2>2. ASSUME NEW q \in Sidecar, Aside(q) \/ RemovesFile(q) \/ Deletes(q) \/ WritesBatch(q)
        PROVE  altered' = altered
    BY <2>2, AsideChanges, RowsKept DEF sources
  <2> QED BY <2>1, <2>2, StepCases
<1>2. t = s BY <1>1 DEF Alters, TypeOK
<1>3. due \in [Session -> Row] BY DEF TypeOK
<1> QED BY <1>1, <1>2, <1>3 DEF Alters

LEMMA OthersHarmlessStep ==
  TypeInv /\ DueWritten /\ DamageFrees /\ OthersHarmless /\ [Next]_vars => OthersHarmless'
<1> SUFFICES ASSUME TypeInv, DueWritten, DamageFrees, OthersHarmless, [Next]_vars,
                    NEW s \in Session, NEW q \in Sidecar, due'[s] # NoRow,
                    q # Owner[s] \/ altered'[s] # {}
             PROVE  Harmless(side'[q], s, due'[s])
  BY DEF OthersHarmless
<1>0. TypeOK /\ Clean /\ Owner[s] \in Process /\ Idle.at = "idle" BY DEF TypeInv, Idle
<1>1. CASE Save(s) /\ Undisturbed(s)
  <2>1. side' = side /\ altered' = altered /\ q # Owner[s] /\ side[q].at = "idle"
    BY <1>1 DEF Save, Undisturbed, Busy
  <2> QED BY <2>1, IdleHarmless
<1>2. CASE due'[s] = due[s] /\ q = Owner[s] /\ altered[s] = {}
  <2>1. side' = side /\ side[q].at = "idle" BY <1>0, <1>2, NewlyAltered DEF Busy
  <2> QED BY <2>1, IdleHarmless
<1>3. CASE due'[s] = due[s] /\ (q # Owner[s] \/ altered[s] # {})
  <2>1. Harmless(side[q], s, due[s]) BY <1>3 DEF OthersHarmless
  <2>2. \/ UNCHANGED vars \/ Damages
        \/ \E t \in Session : Append(t) \/ Save(t) \/ SaveThrows(t) \/ MarkDirty(t)
        \/ \E p \in Process : Refresh(p)
        \/ \E t \in Session, source \in {"journal", "snapshot"} : Alters(t, source)
        => side' = side
    BY DEF vars, Append, Save, SaveThrows, MarkDirty, Refresh, Alters, Damages
  <2>3. ASSUME NEW x \in Sidecar,
               \/ Aside(x) \/ RemovesFile(x) \/ Deletes(x) \/ WritesBatch(x)
               \/ x \in Process /\ Reports(x)
        PROVE  Harmless(side'[q], s, due[s])
    <3>1. CASE x = q BY <1>3, <2>1, <2>3, <3>1, HarmlessStep
    <3>2. CASE x # q BY <1>0, <2>1, <2>3, <3>2, SidecarsKept
    <3> QED BY <3>1, <3>2
  <2>4. ASSUME NEW p \in Process, Disable(p) PROVE Harmless(side'[q], s, due[s])
    <3>1. side'[q] = side[q] \/ side'[q] = Idle BY <1>0, <2>4 DEF Disable, TypeOK
    <3> QED BY <1>0, <2>1, <3>1, IdleHarmless
  <2>5. ASSUME NEW p \in Process, Crash(p) PROVE Harmless(side'[q], s, due[s])
    <3>1. side'[q] \in {side[q], Idle, side[p]} BY <1>0, <2>5 DEF Crash, TypeOK
    <3>2. CASE side'[q] = side[p]
      <4>1. CASE p = Owner[s]
        <5>1. ~Busy(p) BY <1>3, <2>5, <4>1 DEF Crash, Owned
        <5> QED BY <3>2, <5>1, IdleHarmless DEF Busy
      <4>2. CASE p # Owner[s]
        BY <1>3, <3>2, <4>2 DEF OthersHarmless, Sidecar
      <4> QED BY <4>1, <4>2
    <3> QED BY <1>0, <2>1, <3>1, <3>2, IdleHarmless
  <2>6. Harmless(side'[q], s, due[s])
    BY <2>1, <2>2, <2>3, <2>4, <2>5, StepCases DEF Sidecar
  <2> QED BY <1>3, <2>6
<1> QED BY <1>0, <1>1, <1>2, <1>3, DueStep

(* What a step does to the row and the file of s if no sidecar, or only    *)
(* the owner's, may undo what is due.                                      *)
LEMMA OthersKeep ==
  ASSUME TypeInv, DueWritten, DamageFrees, OthersHarmless, [Next]_vars, NEW s \in Session,
         due[s] # NoRow, due'[s] # NoRow,
         \/ altered[s] # {}
         \/ \A t \in {"removing", "deleting", "reading"} : side[Owner[s]].at # t
         \/ side'[Owner[s]] = side[Owner[s]]
  PROVE  /\ index'[s] = index[s] \/ Shows(index'[s], due[s])
         /\ UNCHANGED <<file, damaged>>
<1>0. TypeOK BY DEF TypeInv
<1>1. \/ UNCHANGED vars
      \/ \E t \in Session : Append(t) \/ Save(t) \/ SaveThrows(t) \/ MarkDirty(t)
      \/ \E p \in Process : Refresh(p) \/ Disable(p) \/ Crash(p) \/ Reports(p)
      \/ \E t \in Session, source \in {"journal", "snapshot"} : Alters(t, source)
      => UNCHANGED store
  BY DEF vars, Append, Save, SaveThrows, MarkDirty, Refresh, Disable, Crash, Reports, Alters
<1>2. ~Damages BY DEF Damages, NoRows
<1>3. ASSUME NEW q \in Sidecar, Aside(q) PROVE UNCHANGED store
  BY <1>3, AsideChanges
<1>4. ASSUME NEW q \in Sidecar, RemovesFile(q) \/ Deletes(q) \/ WritesBatch(q)
      PROVE  /\ index'[s] = index[s] \/ Shows(index'[s], due[s])
             /\ UNCHANGED <<file, damaged>>
  <2>1. CASE q # Owner[s] \/ altered[s] # {}
    <3>1. Harmless(side[q], s, due[s]) BY <2>1 DEF OthersHarmless
    <3> QED BY <1>4, <3>1, HarmlessStep
  <2>2. CASE q = Owner[s] /\ side'[q] = side[q]
    <3>1. WritesBatch(q) /\ side[q].got = NoRows
      BY <1>0, <1>4, <2>2, Removing, Deleting, Writing DEF Idle
    <3> QED BY <3>1 DEF WritesBatch
  <2>3. CASE q = Owner[s] /\ side[q].at \notin {"removing", "deleting", "reading"}
    BY <1>4, <2>3 DEF RemovesFile, Deletes, WritesBatch
  <2> QED BY <2>1, <2>2, <2>3
<1> QED BY <1>1, <1>2, <1>3, <1>4, StepCases DEF store

LEMMA AlteredShownStep ==
  TypeInv /\ DueWritten /\ DamageFrees /\ OthersHarmless /\ AlteredShown /\ [Next]_vars => AlteredShown'
<1> SUFFICES ASSUME TypeInv, DueWritten, DamageFrees, OthersHarmless, AlteredShown, [Next]_vars,
                    NEW s \in Session, due'[s] # NoRow, altered'[s] # {}
             PROVE  Shows(index'[s], due'[s])
  BY DEF AlteredShown
<1>0. TypeOK BY DEF TypeInv
<1>1. CASE altered[s] = {} BY <1>0, <1>1, NewlyAltered DEF store
<1>2. CASE altered[s] # {}
  <2>1. due'[s] = due[s] BY <1>0, <1>2, DueStep DEF Undisturbed
  <2>2. Shows(index[s], due[s]) BY <1>2, <2>1 DEF AlteredShown
  <2> QED BY <1>2, <2>1, <2>2, OthersKeep
<1> QED BY <1>1, <1>2

(* What moves a process' own refresh on, and what leaves it where it is.   *)
Moves(p) == Crash(p) \/ Disable(p) \/ Refresh(p) \/ Reports(p) \/ \E t \in Owned(p) : MarkDirty(t)
Stays(p) ==
  /\ UNCHANGED <<gen[p], indexed[p], began[p], history[p]>>
  /\ \A s \in Owned(p) : Marked(s)' => Marked(s)
  /\ side'[p] = side[p] \/ Aside(p) \/ RemovesFile(p) \/ Deletes(p) \/ WritesBatch(p)

LEMMA MovesOrStays ==
  ASSUME TypeOK, Clean, [Next]_vars, NEW p \in Process PROVE Moves(p) \/ Stays(p)
<1> SUFFICES ASSUME ~Moves(p) PROVE Stays(p) OBVIOUS
<1>0. p \in Sidecar /\ p # Orphan /\ Owned(p) \subseteq Session BY DEF Sidecar, Owned
<1>1. ASSUME UNCHANGED <<turn, reader, side[p]>> PROVE Stays(p)
  BY <1>1 DEF reader, Stays, Marked
<1>2. CASE \/ UNCHANGED vars \/ Damages
           \/ \E t \in Session, source \in {"journal", "snapshot"} : Alters(t, source)
  <2>1. UNCHANGED <<turn, reader, side>> BY <1>2 DEF vars, sources, Damages, Alters
  <2> QED BY <1>1, <2>1
<1>3. ASSUME NEW t \in Session, Append(t) \/ Save(t) \/ SaveThrows(t) PROVE Stays(p)
  <2>1. UNCHANGED <<reader, side>> /\ \A s \in Session : turn'[s] = turn[s] \/ turn[s] # "saved"
    BY <1>3 DEF Append, Save, SaveThrows, TypeOK
  <2> QED BY <1>0, <2>1 DEF reader, Stays, Marked
<1>4. ASSUME NEW t \in Session, MarkDirty(t) PROVE Stays(p)
  <2>1. Owner[t] # p /\ Owner[t] \in Process BY <1>4 DEF Moves, Owned
  <2>2. UNCHANGED <<gen[p], indexed[p], began[p], history[p], side>>
    BY <1>4, <2>1 DEF MarkDirty, Rebuilds, TypeOK
  <2>3. \A s \in Owned(p) : turn'[s] = turn[s] BY <1>4, <2>1 DEF MarkDirty, Owned, TypeOK
  <2> QED BY <2>2, <2>3 DEF Stays, Marked
<1>5. ASSUME NEW r \in Process, Refresh(r) \/ Disable(r) \/ Reports(r) PROVE Stays(p)
  <2>1. r # p BY <1>5 DEF Moves
  <2>2. UNCHANGED <<gen[p], indexed[p], began[p], history[p], side[p], turn>>
    BY <1>0, <1>5, <2>1 DEF Refresh, Disable, Reports, Rebuilds, TypeOK, Step, sources
  <2> QED BY <2>2 DEF Stays, Marked
<1>6. ASSUME NEW r \in Process, Crash(r) PROVE Stays(p)
  <2>1. r # p BY <1>6 DEF Moves
  <2>2. UNCHANGED <<gen[p], indexed[p], began[p], history[p], side[p]>>
    BY <1>0, <1>6, <2>1 DEF Crash, TypeOK
  <2>3. \A s \in Owned(p) : turn'[s] = turn[s] BY <1>6, <2>1 DEF Crash, Owned
  <2> QED BY <2>2, <2>3 DEF Stays, Marked
<1>7. ASSUME NEW q \in Sidecar, Aside(q) \/ RemovesFile(q) \/ Deletes(q) \/ WritesBatch(q)
      PROVE  Stays(p)
  <2>1. UNCHANGED <<turn, reader>> BY <1>7, AsideChanges, RowsKept DEF sources
  <2>2. q = p \/ side'[p] = side[p] BY <1>0, <1>7, SidecarsKept
  <2> QED BY <1>7, <2>1, <2>2 DEF reader, Stays, Marked
<1> QED BY <1>2, <1>3, <1>4, <1>5, <1>6, <1>7, StepCases

LEMMA IdleOrQueryStep ==
  TypeInv /\ DamageFrees /\ IdleOrQuery /\ [Next]_vars => IdleOrQuery'
<1> SUFFICES ASSUME TypeInv, DamageFrees, IdleOrQuery, [Next]_vars,
                    NEW p \in Process, history'[p] = "idle"
             PROVE  \/ side'[p].at = "idle"
                    \/ /\ side'[p].at = "removing" /\ side'[p].query
                       /\ \A s \in Owned(p) : Marked(s)' => due'[s] = NoRow
  BY DEF IdleOrQuery, Busy, Owned
<1>0. TypeOK /\ Clean /\ p \in Sidecar /\ p # Orphan /\ Idle.at = "idle"
  BY DEF TypeInv, Sidecar, Idle
<1>1. CASE Moves(p)
  <2>1. Crash(p) => side'[p] = Idle BY <1>0 DEF Crash, TypeOK
  <2>2. Reports(p) => side'[p] = Idle BY <1>0, Finishing
  <2>3. ~Disable(p) /\ ~Refresh(p) BY <1>0 DEF Disable, Refresh, Rebuilds, TypeOK
  <2>4. ASSUME NEW t \in Owned(p), MarkDirty(t) PROVE FALSE
    BY <1>0, <2>4 DEF MarkDirty, Rebuilds, TypeOK, Owned
  <2> QED BY <1>0, <1>1, <2>1, <2>2, <2>3, <2>4 DEF Moves
<1>2. CASE Stays(p)
  <2>1. history[p] = "idle" /\ \A s \in Owned(p) : Marked(s)' => Marked(s)
    BY <1>2 DEF Stays
  <2>2. \/ side[p].at = "idle"
        \/ /\ side[p].at = "removing" /\ side[p].query
           /\ \A s \in Owned(p) : Marked(s) => due[s] = NoRow
    BY <2>1 DEF IdleOrQuery, Busy
  <2>3. CASE side'[p] = side[p]
    <3>1. ASSUME NEW s \in Owned(p), Marked(s)', Marked(s) => due[s] = NoRow PROVE due'[s] = NoRow
      <4>1. s \in Session /\ due[s] = NoRow BY <2>1, <3>1 DEF Owned
      <4>2. ~Save(s) BY <3>1, <4>1, <1>0 DEF Save, Marked, TypeOK
      <4> QED BY <1>0, <4>1, <4>2, DueStep
    <3> QED BY <2>2, <2>3, <3>1
  <2>4. CASE Wakes(p)
    <3>1. QueryFindsCorrupt(p) BY <2>1, <2>4 DEF Wakes, Opens, FindsCorrupt
    <3>2. damaged /\ due' = due BY <3>1 DEF QueryFindsCorrupt
    <3>3. due = NoRows BY <3>2 DEF DamageFrees
    <3>4. \A s \in Session : due'[s] = NoRow BY <3>2, <3>3 DEF NoRows
    <3>5. side'[p].at = "removing" /\ side'[p].query BY <1>0, <2>1, <2>4, <3>2, Opening DEF Wakes
    <3> QED BY <3>4, <3>5 DEF Owned
  <2>5. CASE RemovesFile(p) BY <1>0, <2>2, <2>5, Removing
  <2>6. CASE ReportsToNobody(p) BY <1>0, <2>6, Finishing
  <2>7. Lists(p) \/ Compares(p) \/ Deletes(p) \/ ReadsJournal(p) \/ ReadsSnapshot(p) \/ WritesBatch(p) => FALSE
    BY <2>2 DEF Lists, Compares, Deletes, ReadsJournal, ReadsSnapshot, WritesBatch
  <2> QED BY <1>2, <2>3, <2>4, <2>5, <2>6, <2>7 DEF Stays, Aside
<1> QED BY <1>0, <1>1, <1>2, MovesOrStays

(* A step of the owner's own sidecar in a round for the latest generation. *)
LEMMA CatchingStep ==
  ASSUME TypeInv, DueWritten, DamageFrees, AlteredShown, NEW s \in Session, due[s] # NoRow,
         NEW q \in Process, q = Owner[s],
         Aside(q) \/ RemovesFile(q) \/ Deletes(q) \/ WritesBatch(q),
         Catching(side[q], s, due[s])
  PROVE  Catching(side[q], s, due[s])'
<1> DEFINE d == due[s]
           r == side[q]
           t == side'[q]
<1>0. TypeOK /\ Clean /\ r \in SidecarState /\ q \in Sidecar BY DEF TypeInv, TypeOK, Sidecar
<1>1. /\ d.journal \in Nat /\ d.saved \in Nat /\ d.journal > 0 /\ d.saved > 0
      /\ journal[s] \in Nat /\ saved[s] \in Nat
      /\ journal[s] >= d.journal /\ saved[s] >= d.saved /\ ~damaged
  BY <1>0 DEF DueWritten, Shows, Written, TypeOK, Row, DamageFrees, NoRows
<1>2. due' = due BY AsideChanges, RowsKept, <1>0
<1>3. NoRows[s] = NoRow /\ s # NoSession /\ ~Shows(NoRow, d)
  BY <1>1 DEF NoRows, NoRow, Shows
<1>4. ASSUME Aside(q) PROVE index' = index /\ file' = file
  BY <1>4, AsideChanges DEF store
<1>5. Catching(side[q], s, due[s])' <=>
        /\ t.at \in {"listing"} \cup Past => t.file = file'
        /\ t.at \in Past => s \in t.snaps
        /\ t.at \in {"comparing", "deleting"} => ToRead(t, s)
        /\ t.at = "deleting" => s \notin t.stale
        /\ t.at \in {"reading", "halfway"} =>
             ToRead(t, s) \/ HasRead(t, s, d) \/ (t.got[s] = NoRow /\ t.now # s /\ Shows(index'[s], d))
  BY <1>2 DEF Catching, HasWritten, ToRead, HasRead, Shows
<1>6. CASE t.at \in {"idle", "removing"} BY <1>5, <1>6 DEF Past
<1>7. CASE Wakes(q)
  <2>1. t.at = "listing" /\ t.file = file BY <1>0, <1>1, <1>7, Opening DEF Wakes
  <2>2. file' = file BY <1>4, <1>7 DEF Aside
  <2> QED BY <1>5, <2>1, <2>2 DEF Past
<1>8. CASE RemovesFile(q)
  <2>1. t.at = "idle" \/ (t.at = "listing" /\ t.file = file')
    BY <1>0, <1>8, Removing DEF Idle
  <2> QED BY <1>5, <2>1 DEF Past
<1>9. CASE Lists(q)
  <2>1. s \in Listed /\ s \in {x \in Session : saved[x] > 0} BY <1>1 DEF Listed
  <2>2. r.got = NoRows /\ r.now = NoSession /\ r.file = file
    BY <1>0, <1>9 DEF Clean, Lists, Catching
  <2>3. /\ t.at = "comparing" /\ t.file = file /\ s \in t.snaps /\ s \in t.left
        /\ t.got[s] = NoRow /\ t.now # s
    BY <1>0, <1>3, <1>9, <2>1, <2>2, Listing
  <2>4. file' = file BY <1>4, <1>9 DEF Aside
  <2> QED BY <1>5, <2>3, <2>4 DEF Past, ToRead
<1>10. CASE Compares(q)
  <2>1. r.file = file /\ s \in r.snaps /\ s \in r.left /\ r.got[s] = NoRow /\ r.now # s
    BY <1>10 DEF Compares, Catching, Past, ToRead
  <2>2. /\ t.at \in {"reading", "deleting"} /\ s \notin t.stale /\ t.file = file /\ s \in t.snaps
        /\ s \in t.left /\ t.got[s] = NoRow /\ t.now # s
    BY <1>0, <1>10, <2>1, Comparing
  <2>3. file' = file BY <1>4, <1>10 DEF Aside
  <2> QED BY <1>5, <2>2, <2>3 DEF Past, ToRead
<1>11. CASE Deletes(q)
  <2>1. r.file = file /\ s \in r.snaps /\ s \in r.left /\ r.got[s] = NoRow /\ r.now # s
    BY <1>11 DEF Deletes, Catching, Past, ToRead
  <2>2. /\ t.at = "reading" /\ t.file = file /\ s \in t.snaps
        /\ s \in t.left /\ t.got[s] = NoRow /\ t.now # s
    BY <1>0, <1>11, <2>1, Deleting
  <2>3. file' = file BY <1>11 DEF Deletes
  <2> QED BY <1>5, <2>2, <2>3 DEF Past, ToRead
<1>12. CASE ReadsJournal(q)
  <2>0. r.now = NoSession /\ r.at = "reading" BY <1>0, <1>12 DEF Clean, ReadsJournal
  <2>1. /\ r.file = file /\ s \in r.snaps
        /\ \/ s \in r.left /\ r.got[s] = NoRow
           \/ Shows(r.got[s], d)
           \/ r.got[s] = NoRow /\ Shows(index[s], d)
    BY <2>0 DEF Catching, Past, ToRead, HasRead, HasWritten
  <2>2. file' = file /\ index' = index BY <1>4, <1>12 DEF Aside
  <2>3. /\ t.snaps = r.snaps /\ t.file = r.file
        /\ \E x \in r.left :
             /\ t.left = r.left \ {x}
             /\ \A y \in Session \ {x} : t.got[y] = r.got[y]
             /\ \/ /\ t.at = "halfway" /\ t.now = x
                   /\ t.got[x] = [journal |-> journal[x], saved |-> 0]
                \/ altered[x] # {} /\ t.at = "reading" /\ t.now = r.now /\ t.got[x] = r.got[x]
    BY <1>0, <1>12, Reading
  <2>4. altered[s] # {} => Shows(index[s], d) BY DEF AlteredShown
  <2> HIDE DEF r, t, d
  <2>5. /\ t.at \in {"reading", "halfway"} /\ t.file = file /\ s \in t.snaps
        /\ \/ t.at = "halfway" /\ t.now = s /\ t.got[s] = [journal |-> journal[s], saved |-> 0]
           \/ s \in t.left /\ t.got[s] = NoRow /\ t.now # s
           \/ Shows(t.got[s], d)
           \/ t.got[s] = NoRow /\ t.now # s /\ Shows(index[s], d)
    BY <1>3, <2>0, <2>1, <2>3, <2>4
  <2>6. CASE t.at = "halfway" /\ t.now = s /\ t.got[s] = [journal |-> journal[s], saved |-> 0]
    <3>1. t.got[s].journal >= d.journal BY <1>1, <2>6
    <3> QED BY <1>5, <2>2, <2>5, <2>6, <3>1 DEF HasRead
  <2> QED BY <1>5, <2>2, <2>5, <2>6 DEF ToRead, HasRead
<1>13. CASE ReadsSnapshot(q)
  <2>1. r.now \in Session /\ r.at = "halfway" BY <1>0, <1>13 DEF Clean, ReadsSnapshot
  <2>2. /\ r.file = file /\ s \in r.snaps
        /\ \/ s \in r.left /\ r.got[s] = NoRow /\ r.now # s
           \/ r.now = s /\ r.got[s].journal >= d.journal
           \/ Shows(r.got[s], d)
           \/ r.got[s] = NoRow /\ r.now # s /\ Shows(index[s], d)
    BY <2>1 DEF Catching, Past, ToRead, HasRead, HasWritten
  <2>3. file' = file /\ index' = index BY <1>4, <1>13 DEF Aside
  <2>4. /\ t.at = "reading" /\ t.now = NoSession /\ t.left = r.left
        /\ t.snaps = r.snaps /\ t.file = r.file
        /\ \/ r.now # s /\ t.got[s] = r.got[s]
           \/ r.now = s /\ t.got[s].journal = r.got[s].journal /\ t.got[s].saved = saved[s]
           \/ altered[s] # {} /\ t.got[s] = NoRow
    BY <1>0, <1>13, <2>1, <2>2, ReadingOn
  <2>5. altered[s] # {} => Shows(index[s], d) BY DEF AlteredShown
  <2>6. CASE r.now # s /\ t.got[s] = r.got[s]
    BY <1>3, <1>5, <2>2, <2>3, <2>4, <2>6 DEF ToRead, HasRead
  <2>7. CASE r.now = s /\ t.got[s].journal = r.got[s].journal /\ t.got[s].saved = saved[s]
    <3>1. r.got[s].journal >= d.journal BY <2>2, <2>7 DEF Shows
    <3>2. Shows(t.got[s], d) BY <1>1, <2>7, <3>1 DEF Shows
    <3> QED BY <1>5, <2>2, <2>3, <2>4, <3>2 DEF HasRead
  <2>8. CASE altered[s] # {} /\ t.got[s] = NoRow
    BY <1>3, <1>5, <2>2, <2>3, <2>4, <2>5, <2>8
  <2> QED BY <2>4, <2>6, <2>7, <2>8
<1>14. CASE WritesBatch(q)
  <2>0. r.now = NoSession /\ r.at = "reading" BY <1>0, <1>14 DEF Clean, WritesBatch
  <2>1. /\ r.file = file /\ s \in r.snaps
        /\ \/ s \in r.left /\ r.got[s] = NoRow
           \/ Shows(r.got[s], d)
           \/ r.got[s] = NoRow /\ Shows(index[s], d)
    BY <2>0 DEF Catching, Past, ToRead, HasRead, HasWritten
  <2>2. file' = file BY <1>14 DEF WritesBatch
  <2>3. index'[s] = IF r.got[s] # NoRow THEN r.got[s] ELSE index[s]
    BY <1>1, <1>14, <2>1 DEF WritesBatch, Put, Holds
  <2>4. /\ t.at = "reading" /\ t.got[s] = NoRow /\ t.now # s /\ t.left = r.left
        /\ t.snaps = r.snaps /\ t.file = r.file
    BY <1>0, <1>3, <1>14, <2>0, Writing
  <2> QED BY <1>3, <1>5, <2>1, <2>2, <2>3, <2>4 DEF ToRead
<1>15. CASE ReportsToNobody(q) BY <1>0, <1>6, <1>15, Finishing DEF Idle
<1> QED BY <1>7, <1>8, <1>9, <1>10, <1>11, <1>12, <1>13, <1>14, <1>15 DEF Aside

(* What stays due of a session whose process goes on as it was.            *)
LEMMA StillDue ==
  ASSUME TypeOK, [Next]_vars, NEW s \in Session, due'[s] # NoRow, Marked(s)', Stays(Owner[s])
  PROVE  Marked(s) /\ due[s] = due'[s]
<1>1. s \in Owned(Owner[s]) BY DEF Owned
<1>2. Marked(s) BY <1>1 DEF Stays
<1>3. ~Save(s) BY DEF Save, Marked, TypeOK
<1> QED BY <1>2, <1>3, DueStep

LEMMA RoundCatchesStep == IInv /\ [Next]_vars => RoundCatches'
<1> SUFFICES ASSUME IInv, [Next]_vars, NEW s \in Session, NEW p \in Process, p = Owner[s],
                    due'[s] # NoRow, Marked(s)', LatestRound(p)'
             PROVE  Catching(side[p], s, due[s])'
  BY DEF RoundCatches
<1>0. /\ TypeInv /\ TypeOK /\ Clean /\ p \in Sidecar /\ p # Orphan /\ Idle.at = "idle"
      /\ DueWritten /\ DamageFrees /\ OthersHarmless /\ AlteredShown
  BY DEF IInv, TypeInv, Sidecar, Idle
<1>1. ASSUME side'[p].at \in {"idle", "removing"} PROVE Catching(side[p], s, due[s])'
  BY <1>1 DEF Catching, Past
<1>2. ASSUME history[p] = "idle" PROVE side[p].at \in {"idle", "removing"}
  BY <1>2 DEF IInv, IdleOrQuery, Busy
<1>3. CASE Moves(p)
  <2>1. CASE Reports(p) BY <1>0, <1>1, <2>1, Finishing
  <2>2. CASE Refresh(p) BY <1>1, <1>2, <2>2 DEF Refresh
  <2>3. ~Crash(p) /\ ~Disable(p) BY <1>0 DEF Crash, Disable, LatestRound, TypeOK
  <2>4. ASSUME NEW t \in Owned(p), MarkDirty(t) PROVE Catching(side[p], s, due[s])'
    <3>1. Owner[t] = p BY DEF Owned
    <3>2. CASE history[p] = "idle" BY <1>1, <1>2, <2>4, <3>2 DEF MarkDirty
    <3>3. CASE history[p] # "idle"
      <4>1. /\ history'[p] = "refreshing" /\ began'[p] = gen'[p]
            /\ began' = began /\ gen' = [gen EXCEPT ![p] = @ + 1]
        BY <2>4, <3>1, <3>3 DEF MarkDirty, LatestRound
      <4>2. began[p] <= gen[p] /\ began[p] \in Nat /\ gen[p] \in Nat /\ gen'[p] = gen[p] + 1
        BY <1>0, <4>1 DEF IInv, BeganBehind, TypeOK
      <4> QED BY <4>1, <4>2
    <3> QED BY <3>2, <3>3
  <2> QED BY <1>3, <2>1, <2>2, <2>3, <2>4 DEF Moves
<1>4. CASE Stays(p)
  <2>1. Marked(s) /\ due[s] = due'[s] /\ LatestRound(p)
    BY <1>0, <1>4, StillDue DEF Stays, LatestRound
  <2>2. Catching(side[p], s, due[s]) BY <2>1 DEF IInv, RoundCatches
  <2>3. CASE side'[p] = side[p]
    <3>1. file' = file /\ (index'[s] = index[s] \/ Shows(index'[s], due[s]))
      BY <1>0, <2>1, <2>3, OthersKeep
    <3> QED BY <2>1, <2>2, <2>3, <3>1 DEF Catching, ToRead, HasRead, HasWritten, Shows
  <2>4. CASE Aside(p) \/ RemovesFile(p) \/ Deletes(p) \/ WritesBatch(p)
    BY <1>0, <2>1, <2>2, <2>4, CatchingStep
  <2> QED BY <1>4, <2>3, <2>4 DEF Stays
<1> QED BY <1>0, <1>3, <1>4, MovesOrStays

LEMMA NextReadStep == IInv /\ [Next]_vars => NextReadObserves'
<1> SUFFICES ASSUME IInv, [Next]_vars, NEW s \in Session, NEW p \in Process, p = Owner[s],
                    Current(p)', Marked(s)'
             PROVE  Shows(index'[s], due'[s])
  BY DEF NextReadObserves, Shows
<1>0. /\ TypeInv /\ TypeOK /\ TypeOK' /\ Clean /\ p \in Sidecar
      /\ DueWritten /\ DamageFrees /\ OthersHarmless
  BY TypeStep DEF IInv, TypeInv, Sidecar
<1>1. CASE due'[s] = NoRow
  <2>1. index'[s] \in Row BY <1>0 DEF TypeOK
  <2> QED BY <1>1, <2>1 DEF Shows, NoRow, Row
<1>2. CASE due'[s] # NoRow /\ Moves(p)
  <2>1. ~Crash(p) BY <1>0 DEF Crash, Current, NeedsIndexing, TypeOK
  <2>2. ~Disable(p) /\ ~Refresh(p)
    BY <1>0 DEF Disable, Refresh, Rebuilds, Current, TypeOK
  <2>3. ASSUME NEW t \in Owned(p), MarkDirty(t) PROVE FALSE
    BY <1>0, <2>3 DEF MarkDirty, Rebuilds, Current, TypeOK, Owned
  <2>4. CASE Reports(p)
    <3>1. /\ history[p] = "refreshing" /\ Finished(p)
          /\ UNCHANGED <<sources, gen, index, due>>
      BY <2>4 DEF Reports, Awaited, store
    <3>2. began[p] = gen[p]
      BY <1>0, <2>4 DEF Reports, Rebuilds, IndexedBy, Current, TypeOK
    <3>3. due[s] # NoRow /\ Marked(s) /\ LatestRound(p)
      BY <1>2, <3>1, <3>2 DEF sources, Marked, LatestRound
    <3>4. Catching(side[p], s, due[s]) BY <3>3 DEF IInv, RoundCatches
    <3>5. side[p].at = "reading" /\ side[p].left = {} /\ side[p].got[s] = NoRow
      BY <3>1 DEF Finished, NoRows
    <3>6. due[s].journal > 0 /\ due[s].journal \in Nat
      BY <1>0, <3>3 DEF DueWritten, TypeOK, Row
    <3>7. ~Shows(side[p].got[s], due[s]) BY <3>5, <3>6 DEF Shows, NoRow
    <3>8. HasWritten(side[p], s, due[s])
      BY <3>4, <3>5, <3>7 DEF Catching, ToRead, HasRead
    <3> QED BY <3>1, <3>8 DEF HasWritten
  <2> QED BY <1>2, <2>1, <2>2, <2>3, <2>4 DEF Moves
<1>3. CASE due'[s] # NoRow /\ Stays(p)
  <2>1. Marked(s) /\ due[s] = due'[s] /\ history[p] = "idle" /\ Current(p)
    BY <1>0, <1>3, StillDue DEF Stays, Current, NeedsIndexing
  <2>2. Shows(index[s], due[s]) BY <2>1 DEF IInv, NextReadObserves
  <2>3. s \in Owned(p) BY DEF Owned
  <2>4. side[p].at = "idle" BY <1>3, <2>1, <2>3 DEF IInv, IdleOrQuery, Busy
  <2>5. index'[s] = index[s] \/ Shows(index'[s], due[s])
    BY <1>0, <1>3, <2>1, <2>4, OthersKeep
  <2> QED BY <2>1, <2>2, <2>5
<1> QED BY <1>0, <1>1, <1>2, <1>3, MovesOrStays
-----------------------------------------------------------------------------
LEMMA InitHolds == Init => IInv /\ RowsWereWritten
<1> SUFFICES ASSUME Init PROVE IInv /\ RowsWereWritten OBVIOUS
<1>1. \A q \in Sidecar : side[q] = Idle BY DEF Init
<1>2. \A s \in Session : due[s] = NoRow /\ index[s] = NoRow /\ Idle.got[s] = NoRow
  BY DEF Init, NoRows, Idle
<1>3. MaxTurns \in Nat /\ MaxFaults \in Nat OBVIOUS
<1>4. TypeOK
  <2>1. 0 \in 0..MaxTurns /\ 0 \in 0..MaxFaults BY <1>3
  <2> QED BY <2>1, Rows DEF Init, TypeOK
<1>5. SavedBehind BY DEF Init, SavedBehind
<1>6. Clean BY <1>1 DEF Clean, Idle
<1>7. DueWritten /\ OthersHarmless /\ AlteredShown /\ RoundCatches
  BY <1>2 DEF DueWritten, OthersHarmless, AlteredShown, RoundCatches
<1>8. DamageFrees /\ BeganBehind BY DEF Init, DamageFrees, BeganBehind
<1>9. IdleOrQuery BY <1>1 DEF IdleOrQuery, Busy, Idle, Sidecar
<1>10. NextReadObserves BY <1>2 DEF NextReadObserves, Shows, NoRow
<1>11. RowsWereWritten
  <2>1. \A s \in Session : Shows(Written(s), NoRow) BY DEF Init, Shows, Written, NoRow
  <2> QED BY <1>1, <1>2, <2>1 DEF RowsWereWritten
<1> QED BY <1>4, <1>5, <1>6, <1>7, <1>8, <1>9, <1>10, <1>11 DEF IInv, TypeInv

LEMMA Invariance == IInv /\ [Next]_vars => IInv'
<1> SUFFICES ASSUME IInv, [Next]_vars PROVE IInv' OBVIOUS
<1>0. TypeInv /\ TypeOK /\ DueWritten /\ DamageFrees /\ BeganBehind /\ OthersHarmless /\ AlteredShown
      /\ IdleOrQuery
  BY DEF IInv, TypeInv
<1>1. TypeInv' /\ DueWritten' BY <1>0, TypeStep, WrittenStep
<1>2. DamageFrees' /\ BeganBehind' BY <1>0, DamageStep, BeganStep
<1>3. OthersHarmless' /\ AlteredShown' BY <1>0, OthersHarmlessStep, AlteredShownStep
<1>4. IdleOrQuery' BY <1>0, IdleOrQueryStep
<1>5. RoundCatches' /\ NextReadObserves' BY RoundCatchesStep, NextReadStep
<1> QED BY <1>1, <1>2, <1>3, <1>4, <1>5 DEF IInv

(* Whatever the processes, their sidecars and the faults do, the index and *)
(* what a sidecar is about to put there show nothing that was not written  *)
(* in full: read_journal takes the complete lines of a journal only, and   *)
(* no source that does not verify gets into a batch.                       *)
THEOREM HistoryTheorem == Spec => []HistoryIsTrue
<1>1. Init => TypeInv /\ RowsWereWritten BY InitHolds DEF IInv
<1>2. TypeInv /\ RowsWereWritten /\ [Next]_vars => (TypeInv /\ RowsWereWritten)'
  BY TypeStep, RowsStep
<1>3. TypeInv /\ RowsWereWritten => HistoryIsTrue BY DEF TypeInv, HistoryIsTrue
<1> QED BY <1>1, <1>2, <1>3, PTL DEF Spec

(* Whatever is due to a process is in the index it reads: the generation   *)
(* counter of CliStateHistory.refresh sends it round again until a rebuild *)
(* has listed every saved turn, and no later step of any sidecar, of a     *)
(* crashed process' one too, takes the row out or puts an older one there. *)
THEOREM NextReadTheorem == Spec => []NextReadObserves
<1>1. Init => IInv BY InitHolds
<1>2. IInv => NextReadObserves BY DEF IInv
<1> QED BY <1>1, <1>2, Invariance, PTL DEF Spec
=============================================================================
