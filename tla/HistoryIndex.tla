---------------------------- MODULE HistoryIndex ----------------------------
(***************************************************************************)
(* The searchable history of a workspace: sessions are written as a hash-  *)
(* chained journal (protocol.ts) and a snapshot (session.ts); each Nova    *)
(* process has a sidecar that projects them into one SQLite file they all  *)
(* share (nova-state), and asks for a new projection whenever it saved a   *)
(* turn (state-history.ts).                                                *)
(*                                                                         *)
(* A journal is the number of its complete records, a snapshot its         *)
(* revision, a row of the index what it shows of both.                     *)
(***************************************************************************)
EXTENDS Naturals, FiniteSets

CONSTANTS
  Process, Orphan,      \* Orphan: the sidecar a crashed process left behind
  Session, NoSession,
  Owner,                \* the process whose agent writes a session
  MaxTurns, MaxFaults,  \* bounds
  MaxBusy               \* bound on the sidecars at work at a time

ASSUME HistoryAssumption ==
  /\ Orphan \notin Process /\ NoSession \notin Session
  /\ Owner \in [Session -> Process]
  /\ MaxTurns \in Nat /\ MaxFaults \in Nat /\ MaxBusy \in Nat \ {0}

VARIABLES
  journal, torn, open,   \* per session: complete records, a torn last line; the open handles
  saved,                 \* per session: the revision of the snapshot
  altered,               \* per session: the sources that no longer verify
  turn,
  gen, indexed, began,   \* CliStateHistory: generation, the one indexed, the one being indexed
  history,               \* is a refresh under way, or was the sidecar given up
  side,                  \* what each sidecar is doing
  index, file, damaged,  \* the rows, which file holds them, is that file corrupt
  faults,
  due                    \* history variable: what a save entitles its process to read

sources == <<journal, torn, open, saved, altered, turn>>
reader == <<gen, indexed, began, history>>
store == <<index, file, damaged>>
vars == <<sources, reader, side, store, faults, due>>

Sidecar == Process \cup {Orphan}
Row == [journal : 0..MaxTurns, saved : 0..MaxTurns]
NoRow == [journal |-> 0, saved |-> 0]
NoRows == [s \in Session |-> NoRow]
Shows(row, r) == row.journal >= r.journal /\ row.saved >= r.saved

Idle == [at |-> "idle", query |-> FALSE, left |-> {}, snaps |-> {}, stale |-> {},
         now |-> NoSession, got |-> NoRows, file |-> 0]
Busy(q) == side[q].at # "idle"
Owned(p) == {s \in Session : Owner[s] = p}

Init ==
  /\ journal = [s \in Session |-> 0] /\ torn = [s \in Session |-> FALSE] /\ open = {}
  /\ saved = [s \in Session |-> 0] /\ altered = [s \in Session |-> {}]
  /\ turn = [s \in Session |-> "idle"]
  /\ gen = [p \in Process |-> 1] /\ indexed = [p \in Process |-> 0]
  /\ began = [p \in Process |-> 0] /\ history = [p \in Process |-> "idle"]
  /\ side = [q \in Sidecar |-> Idle]
  /\ index = NoRows /\ file = 0 /\ damaged = FALSE
  /\ faults = 0 /\ due = NoRows
-----------------------------------------------------------------------------
(* EventJournal.append and saveSession: a turn of the owner's agent.       *)

(* The first append of a process verifies the journal and cuts a torn line *)
(* off; one that does not verify fails the turn before it starts.          *)
Append(s) ==
  /\ turn[s] = "idle" /\ journal[s] < MaxTurns
  /\ s \in open \/ "journal" \notin altered[s]
  /\ torn' = [torn EXCEPT ![s] = FALSE]
  /\ open' = open \cup {s}
  /\ journal' = [journal EXCEPT ![s] = @ + 1]
  /\ turn' = [turn EXCEPT ![s] = "appended"]
  /\ UNCHANGED <<saved, altered, reader, side, store, faults, due>>

(* Nobody else is between two steps that write the index.                  *)
Undisturbed(s) == ~damaged /\ altered[s] = {} /\ \A q \in Sidecar \ {Owner[s]} : ~Busy(q)

Save(s) ==
  /\ turn[s] = "appended" /\ "snapshot" \notin altered[s]
  /\ saved' = [saved EXCEPT ![s] = @ + 1]
  /\ turn' = [turn EXCEPT ![s] = "saved"]
  /\ due' = IF Undisturbed(s) THEN [due EXCEPT ![s] = [journal |-> journal[s], saved |-> saved[s] + 1]]
            ELSE due
  /\ UNCHANGED <<journal, torn, open, altered, reader, side, store, faults>>

(* The snapshot is locked, conflicting or corrupt: the turn throws.        *)
SaveThrows(s) ==
  /\ turn[s] = "appended"
  /\ turn' = [turn EXCEPT ![s] = "idle"]
  /\ UNCHANGED <<journal, torn, open, saved, altered, reader, side, store, faults, due>>
-----------------------------------------------------------------------------
(* CliStateHistory.                                                        *)

NeedsIndexing(p) == indexed[p] # gen[p]

Rebuilds(p, generation) ==
  /\ history' = [history EXCEPT ![p] = "refreshing"]
  /\ began' = [began EXCEPT ![p] = generation]

(* nova.ts marks the history dirty after a turn and refreshes at once.     *)
MarkDirty(s) ==
  LET p == Owner[s] IN
  /\ turn[s] = "saved"
  /\ turn' = [turn EXCEPT ![s] = "idle"]
  /\ gen' = [gen EXCEPT ![p] = @ + 1]
  /\ IF history[p] = "idle" THEN Rebuilds(p, gen[p] + 1) ELSE UNCHANGED <<history, began>>
  /\ UNCHANGED <<journal, torn, open, saved, altered, indexed, side, store, faults, due>>

(* /history: an index that is not current is refreshed first.              *)
Refresh(p) ==
  /\ history[p] = "idle" /\ NeedsIndexing(p)
  /\ Rebuilds(p, gen[p])
  /\ UNCHANGED <<sources, gen, indexed, side, store, faults, due>>

(* A call that fails or times out gives the sidecar up for good; after a   *)
(* timeout it still finishes what it was doing.                            *)
Disable(p) ==
  /\ history[p] # "fallback" /\ (Busy(p) \/ history[p] = "refreshing")
  /\ faults < MaxFaults /\ faults' = faults + 1
  /\ history' = [history EXCEPT ![p] = "fallback"]
  /\ began' = [began EXCEPT ![p] = 0]
  /\ side' \in {side, [side EXCEPT ![p] = Idle]}
  /\ UNCHANGED <<sources, gen, indexed, store, due>>
-----------------------------------------------------------------------------
(* StateIndex::open, once per request.                                     *)

Step(q, to) == side' = [side EXCEPT ![q] = to]
Room == Cardinality({q \in Sidecar : Busy(q)}) < MaxBusy

(* The sidecar takes one request after the other.                          *)
Opens(p) ==
  /\ history[p] = "refreshing" /\ ~Busy(p) /\ Room /\ ~damaged
  /\ Step(p, [Idle EXCEPT !.at = "listing", !.file = file])
  /\ UNCHANGED <<sources, reader, store, faults, due>>

FindsCorrupt(p) ==
  /\ history[p] = "refreshing" /\ ~Busy(p) /\ Room /\ damaged
  /\ Step(p, [Idle EXCEPT !.at = "removing"])
  /\ UNCHANGED <<sources, reader, store, faults, due>>

(* Any other request on a current index: it opens the file like a rebuild  *)
(* does, and unless the file is corrupt it changes nothing.                *)
QueryFindsCorrupt(p) ==
  /\ history[p] = "idle" /\ ~NeedsIndexing(p) /\ ~Busy(p) /\ Room /\ damaged
  /\ Step(p, [Idle EXCEPT !.at = "removing", !.query = TRUE])
  /\ UNCHANGED <<sources, reader, store, faults, due>>

(* Removes whatever file there is by now and starts an empty one; whoever  *)
(* has the old one open goes on writing to a file nobody will open again.  *)
RemovesFile(q) ==
  /\ side[q].at = "removing"
  /\ index' = NoRows /\ damaged' = FALSE /\ file' = file + 1
  /\ Step(q, IF side[q].query THEN Idle ELSE [side[q] EXCEPT !.at = "listing", !.file = file + 1])
  /\ UNCHANGED <<sources, reader, faults, due>>
-----------------------------------------------------------------------------
(* StateIndex::rebuild_all.                                                *)

Holds(q) == side[q].file = file /\ ~damaged
Put(q, rows) == index' = IF Holds(q) THEN rows ELSE index

Listed == {s \in Session : journal[s] > 0}

Lists(q) ==
  /\ side[q].at = "listing"
  /\ Step(q, [side[q] EXCEPT !.at = "comparing", !.left = Listed,
                             !.snaps = {s \in Session : saved[s] > 0}])
  /\ UNCHANGED <<sources, reader, store, faults, due>>

Compares(q) ==
  LET known == IF Holds(q) THEN {s \in Session : index[s] # NoRow} ELSE {}
      gone == known \ side[q].left
  IN  /\ side[q].at = "comparing"
      /\ Step(q, [side[q] EXCEPT !.at = IF gone = {} THEN "reading" ELSE "deleting", !.stale = gone])
      /\ UNCHANGED <<sources, reader, store, faults, due>>

Deletes(q) ==
  /\ side[q].at = "deleting"
  /\ Put(q, [s \in Session |-> IF s \in side[q].stale THEN NoRow ELSE index[s]])
  /\ Step(q, [side[q] EXCEPT !.at = "reading", !.stale = {}])
  /\ UNCHANGED <<sources, reader, file, damaged, faults, due>>

(* read_journal: the complete lines; read_session: the snapshot if it was  *)
(* listed.  A source that does not verify leaves its session's row alone;  *)
(* taken at its word it would show what nobody wrote.                      *)
Forged == MaxTurns + 1
CountsTornLine(s) == journal[s] + (IF torn[s] THEN 1 ELSE 0)     \* a mutant
Complete(s) == IF "journal" \in altered[s] THEN Forged ELSE journal[s]
Snapshot(s) == IF "snapshot" \in altered[s] THEN Forged ELSE saved[s]

AnyVerifies(s, source) == TRUE                                   \* a mutant
Verifies(s, source) == source \notin altered[s]

ReadsJournal(q) ==
  LET s == CHOOSE x \in side[q].left : TRUE IN
  /\ side[q].at = "reading" /\ side[q].left # {}
  /\ Step(q, IF Verifies(s, "journal")
             THEN [side[q] EXCEPT !.at = "halfway", !.now = s, !.left = @ \ {s},
                                  !.got[s] = [journal |-> Complete(s), saved |-> 0]]
             ELSE [side[q] EXCEPT !.left = @ \ {s}])
  /\ UNCHANGED <<sources, reader, store, faults, due>>

PartialRow(q, s) == side[q].got[s]                               \* a mutant
Skipped(q, s) == NoRow

ReadsSnapshot(q) ==
  LET s == side[q].now IN
  /\ side[q].at = "halfway"
  /\ Step(q, [side[q] EXCEPT !.at = "reading", !.now = NoSession,
                !.got[s] = IF s \notin side[q].snaps THEN @
                           ELSE IF Verifies(s, "snapshot") THEN [@ EXCEPT !.saved = Snapshot(s)]
                           ELSE Skipped(q, s)])
  /\ UNCHANGED <<sources, reader, store, faults, due>>

(* write_batch: one transaction, at five thousand rows or at the end.      *)
WritesBatch(q) ==
  LET got == side[q].got IN
  /\ side[q].at = "reading" /\ got # NoRows
  /\ Put(q, [s \in Session |-> IF got[s] # NoRow THEN got[s] ELSE index[s]])
  /\ Step(q, [side[q] EXCEPT !.got = NoRows])
  /\ UNCHANGED <<sources, reader, file, damaged, faults, due>>

Awaited(q) == q \in Process /\ history[q] = "refreshing"
Finished(q) == side[q].at = "reading" /\ side[q].left = {} /\ side[q].got = NoRows

(* The report reaches refresh(), which goes round again if a turn was      *)
(* saved meanwhile.                                                        *)
WhateverIsCurrent(p) == gen[p]                                   \* a mutant
IndexedBy(p) == began[p]
FirstGeneration(p) == began[p]                                   \* a mutant
NextRound(p) == gen[p]

Reports(p) ==
  /\ Finished(p) /\ Awaited(p)
  /\ indexed' = [indexed EXCEPT ![p] = IndexedBy(p)]
  /\ IF IndexedBy(p) = gen[p]
     THEN history' = [history EXCEPT ![p] = "idle"] /\ began' = [began EXCEPT ![p] = 0]
     ELSE Rebuilds(p, NextRound(p))
  /\ Step(p, Idle)
  /\ UNCHANGED <<sources, gen, store, faults, due>>

ReportsToNobody(q) ==
  /\ Finished(q) /\ ~Awaited(q)
  /\ Step(q, Idle)
  /\ UNCHANGED <<sources, reader, store, faults, due>>
-----------------------------------------------------------------------------
(* Faults.                                                                 *)

(* A process dies, perhaps in the middle of a line.  Its sidecar finishes  *)
(* what it was doing, which may undo what the process indexes when it is   *)
(* back.                                                                   *)
Crash(p) ==
  /\ faults < MaxFaults /\ ~Busy(Orphan)
  /\ faults' = faults + 1
  /\ \E T \in SUBSET (Owned(p) \cap open) : torn' = [s \in Session |-> torn[s] \/ s \in T]
  /\ open' = open \ Owned(p)
  /\ turn' = [s \in Session |-> IF s \in Owned(p) THEN "idle" ELSE turn[s]]
  /\ gen' = [gen EXCEPT ![p] = 1] /\ indexed' = [indexed EXCEPT ![p] = 0]
  /\ began' = [began EXCEPT ![p] = 0]
  /\ history' = [history EXCEPT ![p] = "idle"]
  /\ side' = [side EXCEPT ![p] = Idle, ![Orphan] = side[p]]
  /\ due' = [s \in Session |-> IF s \in Owned(p) /\ Busy(p) THEN NoRow ELSE due[s]]
  /\ UNCHANGED <<journal, saved, altered, store>>

(* A source stops verifying: damage on disk, a newer version's format.  A  *)
(* row that is there by then, with nobody indexing, is promised to stay.   *)
Alters(s, source) ==
  /\ faults < MaxFaults /\ journal[s] > 0 /\ (source = "snapshot" => saved[s] > 0)
  /\ faults' = faults + 1
  /\ altered' = [altered EXCEPT ![s] = @ \cup {source}]
  /\ due' = IF Shows(index[s], due[s]) /\ \A q \in Sidecar : ~Busy(q) THEN due
            ELSE [due EXCEPT ![s] = NoRow]
  /\ UNCHANGED <<journal, torn, open, saved, turn, reader, side, store>>

(* The index file becomes unreadable and with it every row.                *)
Damages ==
  /\ faults < MaxFaults /\ ~damaged
  /\ faults' = faults + 1
  /\ damaged' = TRUE /\ index' = NoRows /\ due' = NoRows
  /\ UNCHANGED <<sources, reader, side, file>>

Works(q) ==
  \/ q \in Process /\ (Opens(q) \/ FindsCorrupt(q) \/ QueryFindsCorrupt(q) \/ Reports(q))
  \/ RemovesFile(q) \/ Lists(q) \/ Compares(q) \/ Deletes(q)
  \/ ReadsJournal(q) \/ ReadsSnapshot(q) \/ WritesBatch(q)
  \/ ReportsToNobody(q)

Next ==
  \/ \E s \in Session : Append(s) \/ Save(s) \/ SaveThrows(s) \/ MarkDirty(s)
  \/ \E p \in Process : Refresh(p) \/ Disable(p) \/ Crash(p)
  \/ \E q \in Sidecar : Works(q)
  \/ \E s \in Session, source \in {"journal", "snapshot"} : Alters(s, source)
  \/ Damages

(* Sidecars finish what they were asked; nobody need ask or crash.         *)
Fairness == \A q \in Sidecar : WF_vars(Works(q))

Spec == Init /\ [][Next]_vars
FairSpec == Spec /\ Fairness
-----------------------------------------------------------------------------
(* Properties.                                                             *)

SidecarState ==
  [at : {"idle", "removing", "listing", "comparing", "deleting", "reading", "halfway"},
   query : BOOLEAN, left : SUBSET Session, snaps : SUBSET Session, stale : SUBSET Session,
   now : Session \cup {NoSession}, got : [Session -> Row], file : Nat]

(* The sources, the sidecars and the index are well typed.                 *)
TypeOK ==
  /\ journal \in [Session -> 0..MaxTurns] /\ saved \in [Session -> 0..MaxTurns]
  /\ torn \in [Session -> BOOLEAN] /\ open \subseteq Session
  /\ altered \in [Session -> SUBSET {"journal", "snapshot"}]
  /\ turn \in [Session -> {"idle", "appended", "saved"}]
  /\ gen \in [Process -> Nat] /\ indexed \in [Process -> Nat] /\ began \in [Process -> Nat]
  /\ history \in [Process -> {"idle", "refreshing", "fallback"}]
  /\ side \in [Sidecar -> SidecarState]
  /\ index \in [Session -> Row] /\ file \in Nat /\ damaged \in BOOLEAN
  /\ faults \in 0..MaxFaults /\ due \in [Session -> Row]

(* Verified before visible: nothing is searchable that was not written in  *)
(* full to the sources, whoever indexes what in which order, also when a   *)
(* crash left half a line (read_journal).                                  *)
Written(s) == [journal |-> journal[s], saved |-> saved[s]]
RowsWereWritten ==
  \A s \in Session : /\ Shows(Written(s), index[s])
                     /\ \A q \in Sidecar : Shows(Written(s), side[q].got[s])
HistoryIsTrue == TypeOK /\ RowsWereWritten

(* "A saved turn changed canonical state; the next read must observe it":  *)
(* a turn that was saved while no other process was indexing is in every   *)
(* later answer to its own process, whatever other processes index, crash  *)
(* or time out afterwards, and also once its sources stop verifying.       *)
Current(p) == history[p] = "idle" /\ ~NeedsIndexing(p)
Marked(s) == turn[s] # "saved"
NextReadObserves ==
  \A s \in Session : Current(Owner[s]) /\ Marked(s) => Shows(index[s], due[s])

(* A refresh comes to an end, with the index current or given up, however  *)
(* many turns are saved while it runs.                                     *)
Restarted(p) == history[p] = "idle" /\ indexed[p] = 0
RefreshSettles ==
  \A p \in Process : history[p] = "refreshing" ~> (Current(p) \/ history[p] = "fallback" \/ Restarted(p))
=============================================================================
