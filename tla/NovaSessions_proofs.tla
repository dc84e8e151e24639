------------------------- MODULE NovaSessions_proofs -------------------------
(***************************************************************************)
(* Proofs about Nova's conversations, for every set of tools, clients,     *)
(* sessions and children, every bound and every price: the agent's turn    *)
(* (AgentTurn), the daemon that serves sessions (SessionDaemon) and the    *)
(* children that share their parent's budget (ChildSessions), one after    *)
(* the other.  Nothing here relates the three.                             *)
(***************************************************************************)
EXTENDS AgentTurn, SessionDaemon, ChildSessions, Sums, SequenceTheorems, TLAPS
-----------------------------------------------------------------------------
(* AgentTurn.  What a runtime's record looks like, whichever level it is   *)
(* at: the money it spent is reserved, the calls of the batch and their    *)
(* marks go together, and nothing of a batch has begun before all of it is *)
(* approved.                                                               *)
Shape(r) ==
  /\ r.pc = "off" => r = Off
  /\ r.pc # "ended" => r.status = None
  /\ r.executed + Len(r.batch) <= r.toolCalls
  /\ r.spent <= r.reservation
  /\ Len(r.marks) = Len(r.batch)
  /\ r.pc \notin {"approving", "prompting", "executing"} => r.batch = <<>>
  /\ r.pc \in {"approving", "prompting"} => \A i \in 1..Len(r.marks) : r.marks[i] = "waiting"
  /\ r.pc = "prompting" => r.at <= Len(r.batch)

(* A call has begun only after everything emitted before it has ended, but *)
(* for the parallel-safe calls of its own group.                           *)
InOrder(r) ==
  \A j \in 1..Len(r.marks) : r.marks[j] # "waiting" =>
     \A k \in 1..(j - 1) : Done(r.marks[k]) \/ Together(r.batch, k, j)

(* The workspace is unverified exactly if the flag the runtime keeps says  *)
(* so, once the results of the batch so far are read into it.              *)
Verified(r) ==
  /\ r.pc \notin {"off", "ended"} => r.unverified = StillUnverified(r)
  /\ r.status = "completed" => ~r.unverified
  /\ r.status = "needs_verification" => r.unverified

(* The single permissions a batch holds for an action: one for each of its *)
(* positions that were decided on and whose tool has not been called.      *)
Allowed(r, c) == {i \in 1..Len(r.batch) : r.batch[i] = c /\ r.marks[i] \in {"waiting", "announced"} /\ i < r.at}

Credited(r) ==
  \A c \in Call :
    /\ r.credit[c] >= 0
    /\ ~Consented(c) => r.credit[c] >= Cardinality(Allowed(r, c))

(* The calls of a batch are tools the runtime offers, and those beyond the *)
(* last one the person was asked about need no permission.                 *)
Granted(l, r) ==
  \A i \in 1..Len(r.batch) :
    /\ r.batch[i] \in Offered(l)
    /\ r.pc = "executing" /\ i >= r.at => Consented(r.batch[i])

RowOK(l, r) == Shape(r) /\ InOrder(r) /\ Verified(r) /\ Credited(r) /\ Granted(l, r)

(* A delegate works inside a tool call of the main runtime, and that       *)
(* inside a turn.                                                          *)
Nested ==
  /\ loop["delegate"].pc # "off" => loop["main"].pc = "executing" /\ \E i \in DOMAIN loop["main"].batch : Delegation(i)
  /\ Idle => loop["main"].pc = "off"

(* The turn's accounts: a delegate's reservation is covered by what the    *)
(* ceiling leaves, and what was paid and not yet recorded is what the      *)
(* accounts say, unless something threw.                                   *)
Money ==
  /\ ~Idle =>
       /\ turn.compaction + turn.delegated + loop["delegate"].reservation <= turn.ceiling
       /\ loop["main"].pc = "off" => turn.compaction = 0 /\ turn.delegated = 0
       /\ ~turn.threw => unrecorded = turn.compaction + loop["main"].spent
                                        + turn.delegated + loop["delegate"].spent
  /\ Idle /\ turn.number > 0 /\ ~turn.threw => unrecorded = 0
  /\ \A l \in Level : loop[l].status = "threw" => turn.threw

(* The ledger allows for good only what the person allowed for good.       *)
Grants == \A c \in Call : standing[c] = "allow" \/ saved[c] = "allow" => c \in always

TurnInv == TypeOK /\ (\A l \in Level : RowOK(l, loop[l])) /\ Nested /\ Money /\ Grants

(* The first and the last of a set of positions.                           *)
LEMMA FirstIn ==
  ASSUME NEW n \in Nat, NEW S \in SUBSET (0..n), S # {}
  PROVE  Next1(S) \in S /\ \A j \in S : Next1(S) <= j
<1> DEFINE P == 0..n
           B == {T \in SUBSET P : \E m \in S : T = 0..m}
<1>1. IsFiniteSet(P)
  BY FS_Interval
<1>2. B \in SUBSET SUBSET P /\ B # {}
  <2>1. PICK m \in S : TRUE
    OBVIOUS
  <2>2. 0..m \in B
    BY <2>1
  <2> QED BY <2>2
<1>3. PICK T \in B : \A U \in B : U \subseteq T => U = T
  <2> HIDE DEF B, P
  <2> QED BY <1>1, <1>2, MinimalSubset
<1>4. PICK m \in S : T = 0..m
  BY <1>3
<1>5. ASSUME NEW j \in S PROVE m <= j
  <2> SUFFICES ASSUME j < m PROVE FALSE
    OBVIOUS
  <2>1. 0..j \in B /\ 0..j \subseteq T
    BY <1>4
  <2>2. 0..j = T
    BY <1>3, <2>1
  <2>3. m \in 0..m /\ m \notin 0..j
    OBVIOUS
  <2> QED BY <1>4, <2>2, <2>3
<1> QED BY <1>5 DEF Next1

LEMMA LastIn ==
  ASSUME NEW n \in Nat, NEW S \in SUBSET (0..n), S # {}
  PROVE  Latest(S) \in S /\ \A j \in S : j <= Latest(S)
<1> DEFINE P == 0..n
           B == {T \in SUBSET P : \E m \in S : T = m..n}
<1>1. IsFiniteSet(P)
  BY FS_Interval
<1>2. B \in SUBSET SUBSET P /\ B # {}
  <2>1. PICK m \in S : TRUE
    OBVIOUS
  <2>2. m..n \in B
    BY <2>1
  <2> QED BY <2>2
<1>3. PICK T \in B : \A U \in B : U \subseteq T => U = T
  <2> HIDE DEF B, P
  <2> QED BY <1>1, <1>2, MinimalSubset
<1>4. PICK m \in S : T = m..n
  BY <1>3
<1>5. ASSUME NEW j \in S PROVE j <= m
  <2> SUFFICES ASSUME m < j PROVE FALSE
    OBVIOUS
  <2>1. j..n \in B /\ j..n \subseteq T
    BY <1>4
  <2>2. j..n = T
    BY <1>3, <2>1
  <2>3. m \in m..n /\ m \notin j..n
    OBVIOUS
  <2> QED BY <1>4, <2>2, <2>3
<1> QED BY <1>5 DEF Latest
-----------------------------------------------------------------------------
(* Records that hold no batch.                                             *)
Mark == {"waiting", "announced", "running", "ok", "error"} \cup Evidence
EmptyRow(r) ==
  /\ r.pc \in {"off", "top", "calling", "backoff", "ended"}
  /\ r.batch = <<>> /\ r.marks = <<>> /\ \A c \in Call : r.credit[c] >= 0
  /\ r.executed <= r.toolCalls /\ r.spent <= r.reservation
  /\ r.pc = "off" => r = Off
  /\ r.pc # "ended" => r.status = None
  /\ r.pc \notin {"off", "ended"} => r.unverified = r.needsVerification
  /\ r.status = "completed" => ~r.unverified
  /\ r.status = "needs_verification" => r.unverified

(* The fields of a record that the proofs name again and again.            *)
LEMMA RowFields ==
  ASSUME NEW r \in LoopType
  PROVE  /\ r.pc \in {"off", "top", "calling", "backoff", "approving", "prompting", "executing", "ended"}
         /\ r.limit \in 0..MaxIterations /\ r.toolCalls \in 0..MaxToolCalls
         /\ r.iteration \in 0..MaxIterations /\ r.attempt \in 0..MaxProviderRetries
         /\ r.reservation \in Nat /\ r.spent \in Nat /\ r.executed \in 0..MaxToolCalls
         /\ r.continuations \in 0..MaxLengthContinuations /\ r.nudges \in 0..MaxVerificationNudges
         /\ r.recoveries \in 0..MaxToolTurnRecoveries /\ r.unavailable \in 0..MaxUnavailableToolRecoveries
         /\ r.strongest \in 0..2 /\ r.askedForTests \in BOOLEAN /\ r.needsVerification \in BOOLEAN
         /\ r.unverified \in BOOLEAN /\ r.credit \in [Call -> Int] /\ r.batch \in Seq(Call)
         /\ r.marks \in Seq(Mark) /\ r.at \in Nat \ {0} /\ r.status \in Outcome \cup {"threw", None}
         /\ Len(r.batch) \in Nat /\ Len(r.marks) \in Nat
BY LenProperties DEF LoopType, Mark, InHand

(* Without a batch most of what is asked of a record is asked of nothing.  *)
LEMMA EmptyRowOK ==
  ASSUME NEW l \in Level, NEW r \in LoopType
  PROVE  /\ EmptyRow(r) => RowOK(l, r)
         /\ RowOK(l, r) /\ r.pc \notin {"approving", "prompting", "executing"} => EmptyRow(r)
<1>1. /\ r.credit \in [Call -> Int] /\ r.executed \in Nat /\ r.toolCalls \in Nat /\ r.marks \in Seq(Mark)
      /\ r.at \in Nat /\ r.pc \in {"off", "top", "calling", "backoff", "approving", "prompting", "executing", "ended"}
  BY RowFields
<1>2. r.batch = <<>> => StillUnverified(r) = r.needsVerification
  BY DEF StillUnverified, Tells
<1>3. ASSUME EmptyRow(r) PROVE RowOK(l, r)
  <2>1. Len(r.batch) = 0 /\ Len(r.marks) = 0 /\ 1..0 = {} /\ r.executed + 0 = r.executed
    BY <1>1, <1>3 DEF EmptyRow
  <2>2. Shape(r)
    BY <1>3, <2>1 DEF EmptyRow, Shape
  <2>3. InOrder(r)
    BY <2>1 DEF InOrder
  <2>4. Verified(r)
    BY <1>2, <1>3 DEF EmptyRow, Verified
  <2>5. Granted(l, r)
    BY <2>1 DEF Granted
  <2>6. Credited(r)
    <3>1. \A c \in Call : Allowed(r, c) = {}
      BY <2>1 DEF Allowed
    <3>2. Cardinality({}) = 0
      BY FS_EmptySet
    <3> QED BY <1>3, <3>1, <3>2 DEF EmptyRow, Credited
  <2> QED BY <2>2, <2>3, <2>4, <2>5, <2>6 DEF RowOK
<1>4. ASSUME RowOK(l, r), r.pc \notin {"approving", "prompting", "executing"} PROVE EmptyRow(r)
  <2>1. r.batch = <<>>
    BY <1>4 DEF RowOK, Shape
  <2>2. Len(r.batch) = 0 /\ Len(r.marks) = 0
    BY <1>4, <2>1 DEF RowOK, Shape
  <2>3. r.marks = <<>>
    BY <1>1, <2>2, EmptySeq
  <2>4. r.executed + 0 = r.executed
    BY <1>1
  <2>5. r.executed <= r.toolCalls
    BY <1>4, <2>2, <2>4 DEF RowOK, Shape
  <2> QED BY <1>1, <1>2, <1>4, <2>1, <2>3, <2>5 DEF RowOK, Shape, Verified, Credited, EmptyRow
<1> QED BY <1>3, <1>4

LEMMA FreshRow ==
  ASSUME NEW i \in 0..MaxIterations, NEW t \in 0..MaxToolCalls, NEW v \in Nat
  PROVE  /\ Fresh(i, t, v) \in LoopType /\ EmptyRow(Fresh(i, t, v))
         /\ Fresh(i, t, v).pc = "top" /\ Fresh(i, t, v).spent = 0 /\ Fresh(i, t, v).reservation = v
<1>1. <<>> \in Seq(Call) /\ <<>> \in Seq(Mark)
  BY EmptySeq
<1>2. Fresh(i, t, v) \in LoopType
  BY <1>1, AgentAssumption DEF Fresh, LoopType, NoCredit, Mark, InHand
<1>3. EmptyRow(Fresh(i, t, v))
  BY AgentAssumption DEF Fresh, EmptyRow, NoCredit, TurnStatus, Outcome
<1> QED BY <1>2, <1>3 DEF Fresh

LEMMA OffRow == Off \in LoopType /\ EmptyRow(Off) /\ Off.pc = "off" /\ Off.spent = 0 /\ Off.reservation = 0
<1> DEFINE f == Fresh(0, 0, 0)
<1>1. f \in LoopType /\ EmptyRow(f) /\ f.status = None /\ f.spent = 0 /\ f.reservation = 0 /\ f.unverified = FALSE
  <2>1. 0 \in 0..MaxIterations /\ 0 \in 0..MaxToolCalls
    BY AgentAssumption
  <2>2. f.status = None /\ f.unverified = FALSE
    BY DEF Fresh
  <2> QED BY <2>1, <2>2, FreshRow
<1>2. Off = [f EXCEPT !.pc = "off"]
  BY DEF Off
<1> HIDE DEF f
<1>3. /\ Off \in LoopType /\ Off.pc = "off" /\ Off.batch = f.batch /\ Off.marks = f.marks /\ Off.credit = f.credit
      /\ Off.executed = f.executed /\ Off.toolCalls = f.toolCalls /\ Off.spent = f.spent
      /\ Off.reservation = f.reservation /\ Off.status = f.status
  BY <1>1, <1>2 DEF LoopType
<1> QED BY <1>1, <1>3, AgentAssumption DEF EmptyRow, TurnStatus, Outcome

LEMMA EndedRow ==
  ASSUME NEW r \in LoopType, NEW s \in Outcome \cup {"threw"}, r.spent <= r.reservation,
         s = "completed" => ~r.unverified, s = "needs_verification" => r.unverified
  PROVE  /\ Ended(r, s) \in LoopType /\ EmptyRow(Ended(r, s)) /\ Ended(r, s).pc = "ended"
         /\ Ended(r, s).spent = r.spent /\ Ended(r, s).reservation = r.reservation
         /\ Ended(r, s).status = s
<1> DEFINE e == Ended(r, s)
<1>1. r.reservation \in Nat /\ r.spent \in Nat /\ r.unverified \in BOOLEAN /\ Off \in LoopType /\ EmptyRow(Off)
  BY OffRow, RowFields
<1>2. e = [Off EXCEPT !.pc = "ended", !.status = s, !.reservation = r.reservation, !.spent = r.spent,
                      !.unverified = r.unverified]
  BY DEF Ended
<1> HIDE DEF e
<1>3. /\ e \in LoopType /\ e.pc = "ended" /\ e.batch = Off.batch /\ e.marks = Off.marks /\ e.credit = Off.credit
      /\ e.executed = Off.executed /\ e.toolCalls = Off.toolCalls /\ e.spent = r.spent
      /\ e.reservation = r.reservation /\ e.status = s /\ e.unverified = r.unverified
  BY <1>1, <1>2 DEF LoopType
<1>4. EmptyRow(e)
  BY <1>1, <1>3 DEF EmptyRow
<1> QED BY <1>3, <1>4 DEF e

(* Steps of a record that holds no batch.                                  *)
LEMMA MovedRow ==
  ASSUME NEW r \in LoopType, NEW q \in LoopType, EmptyRow(r), r.pc \notin {"off", "ended"},
         q.pc \in {"top", "calling", "backoff"}, q.batch = r.batch, q.marks = r.marks, q.credit = r.credit,
         q.executed = r.executed, q.toolCalls = r.toolCalls, q.unverified = r.unverified,
         q.needsVerification = r.needsVerification, q.status = r.status, q.spent <= q.reservation
  PROVE  EmptyRow(q)
BY AgentAssumption DEF EmptyRow, TurnStatus, Outcome

(* The counters a reply may raise before the loop goes round again.        *)
Counting(r, q) ==
  \/ r.continuations < MaxLengthContinuations /\ q = [r EXCEPT !.continuations = @ + 1]
  \/ r.nudges < MaxVerificationNudges /\ q = [r EXCEPT !.nudges = @ + 1]
  \/ q = [r EXCEPT !.askedForTests = TRUE]
  \/ r.recoveries < MaxToolTurnRecoveries /\ q = [r EXCEPT !.recoveries = @ + 1]
  \/ r.unavailable < MaxUnavailableToolRecoveries /\ q = [r EXCEPT !.unavailable = @ + 1]

LEMMA CountedRow ==
  ASSUME NEW r \in LoopType, NEW q, Counting(r, q)
  PROVE  /\ q \in LoopType /\ q.executed = r.executed /\ q.toolCalls = r.toolCalls /\ q.unverified = r.unverified
         /\ q.needsVerification = r.needsVerification /\ q.status = r.status /\ q.spent = r.spent
         /\ q.reservation = r.reservation
<1>1. /\ r.continuations < MaxLengthContinuations => r.continuations + 1 \in 0..MaxLengthContinuations
      /\ r.nudges < MaxVerificationNudges => r.nudges + 1 \in 0..MaxVerificationNudges
      /\ r.recoveries < MaxToolTurnRecoveries => r.recoveries + 1 \in 0..MaxToolTurnRecoveries
      /\ r.unavailable < MaxUnavailableToolRecoveries => r.unavailable + 1 \in 0..MaxUnavailableToolRecoveries
  BY RowFields, AgentAssumption
<1>2. CASE r.continuations < MaxLengthContinuations /\ q = [r EXCEPT !.continuations = @ + 1]
  BY <1>1, <1>2 DEF LoopType
<1>3. CASE r.nudges < MaxVerificationNudges /\ q = [r EXCEPT !.nudges = @ + 1]
  BY <1>1, <1>3 DEF LoopType
<1>4. CASE q = [r EXCEPT !.askedForTests = TRUE]
  BY <1>1, <1>4 DEF LoopType
<1>5. CASE r.recoveries < MaxToolTurnRecoveries /\ q = [r EXCEPT !.recoveries = @ + 1]
  BY <1>1, <1>5 DEF LoopType
<1>6. CASE r.unavailable < MaxUnavailableToolRecoveries /\ q = [r EXCEPT !.unavailable = @ + 1]
  BY <1>1, <1>6 DEF LoopType
<1> QED BY <1>2, <1>3, <1>4, <1>5, <1>6 DEF Counting

LEMMA TopRow ==
  ASSUME NEW r \in LoopType, r.executed <= r.toolCalls, r.spent <= r.reservation,
         r.unverified = r.needsVerification, r.status = None
  PROVE  /\ Top(r) \in LoopType /\ EmptyRow(Top(r)) /\ Top(r).pc = "top"
         /\ Top(r).spent = r.spent /\ Top(r).reservation = r.reservation
<1> DEFINE q == Top(r)  n == NoBatch(r)
<1>1. /\ <<>> \in Seq(Call) /\ <<>> \in Seq(Mark) /\ NoCredit \in [Call -> Int]
      /\ \A c \in Call : NoCredit[c] >= 0
  BY EmptySeq DEF NoCredit
<1>2. /\ n \in LoopType /\ n.batch = <<>> /\ n.marks = <<>> /\ n.credit = NoCredit
      /\ n.executed = r.executed /\ n.toolCalls = r.toolCalls /\ n.unverified = r.unverified
      /\ n.needsVerification = r.needsVerification /\ n.status = r.status
      /\ n.spent = r.spent /\ n.reservation = r.reservation
  <2>1. n = [r EXCEPT !.batch = <<>>, !.marks = <<>>, !.at = 1, !.credit = NoCredit]
    BY DEF NoBatch
  <2> HIDE DEF n
  <2> DEFINE b == <<>>  k == NoCredit  one == 1
  <2>2. b \in Seq(Call) /\ b \in Seq(Mark) /\ k \in [Call -> Int] /\ one \in Nat \ {0}
    BY <1>1
  <2>3. n = [r EXCEPT !.batch = b, !.marks = b, !.at = one, !.credit = k]
    BY <2>1
  <2> HIDE DEF b, k, one
  <2>4. n \in LoopType
    BY <2>2, <2>3 DEF LoopType, Mark, InHand
  <2> QED BY <2>1, <2>4 DEF LoopType
<1>3. /\ q \in LoopType /\ q.pc = "top" /\ q.batch = <<>> /\ q.marks = <<>> /\ q.credit = NoCredit
      /\ q.executed = r.executed /\ q.toolCalls = r.toolCalls /\ q.unverified = r.unverified
      /\ q.needsVerification = r.needsVerification /\ q.status = r.status
      /\ q.spent = r.spent /\ q.reservation = r.reservation
  <2>1. q = [n EXCEPT !.pc = "top"]
    BY DEF Top
  <2> HIDE DEF n, q
  <2> QED BY <1>2, <2>1 DEF LoopType
<1> HIDE DEF q
<1>4. EmptyRow(q)
  BY <1>1, <1>3, AgentAssumption DEF EmptyRow, TurnStatus, Outcome
<1> QED BY <1>3, <1>4 DEF q

LEMMA PaidRow ==
  ASSUME TypeOK, NEW l \in Level, NEW cost \in Nat, EmptyRow(loop[l]), loop[l].pc = "calling",
         loop[l].spent + cost <= loop[l].reservation
  PROVE  /\ Paid(l, cost) \in LoopType /\ EmptyRow(Paid(l, cost)) /\ Paid(l, cost).pc = "calling"
         /\ Paid(l, cost).spent = loop[l].spent + cost /\ Paid(l, cost).reservation = loop[l].reservation
         /\ Paid(l, cost).status = None /\ Paid(l, cost).unverified = Paid(l, cost).needsVerification
         /\ Paid(l, cost).executed <= Paid(l, cost).toolCalls
<1> DEFINE r == loop[l]  q == Paid(l, cost)
<1>1. r \in LoopType /\ r.spent \in Nat /\ r.spent + cost \in Nat /\ 0 \in 0..MaxProviderRetries
  BY RowFields, AgentAssumption DEF TypeOK
<1>2. q = [r EXCEPT !.spent = @ + cost, !.attempt = 0]
  BY DEF Paid
<1> HIDE DEF q
<1>3. /\ q \in LoopType /\ q.pc = r.pc /\ q.batch = r.batch /\ q.marks = r.marks /\ q.credit = r.credit
      /\ q.executed = r.executed /\ q.toolCalls = r.toolCalls /\ q.unverified = r.unverified
      /\ q.needsVerification = r.needsVerification /\ q.status = r.status
      /\ q.spent = r.spent + cost /\ q.reservation = r.reservation
  BY <1>1, <1>2 DEF LoopType
<1>4. EmptyRow(q)
  BY <1>1, <1>3, MovedRow
<1>5. q.status = None /\ q.unverified = q.needsVerification /\ q.executed <= q.toolCalls
  BY <1>3, <1>4 DEF EmptyRow
<1> QED BY <1>3, <1>4, <1>5 DEF q
-----------------------------------------------------------------------------
(* A step of the loop that is doing something.                             *)
LEMMA RowStays ==
  ASSUME NEW l \in Level, NEW r \in LoopType, RowOK(l, r), mode' = mode, always \subseteq always'
  PROVE  RowOK(l, r)'
<1>1. \A c \in Call : Consented(c) => Consented(c)'
  BY DEF Consented
<1>2. Granted(l, r)'
  <2>1. r.batch \in Seq(Call)
    BY RowFields
  <2>2. \A i \in 1..Len(r.batch) : r.batch[i] \in Call
    BY <2>1, ElementOfSeq
  <2> QED BY <1>1, <2>2 DEF RowOK, Granted, Offered
<1>3. Credited(r)'
  BY <1>1 DEF RowOK, Credited, Allowed
<1> QED BY <1>2, <1>3 DEF RowOK, Shape, InOrder, Verified

(* The turn goes on and its bill follows the loop, or something threw.     *)
TurnGoesOn(l, q) ==
  /\ turn' \in [number : 0..MaxTurns, status : TurnStatus \cup {None}, ceiling : Nat, compaction : Nat,
               delegated : Nat, threw : BOOLEAN]
  /\ turn'.status \in Active /\ turn'.number = turn.number /\ turn'.ceiling = turn.ceiling
  /\ turn'.compaction = turn.compaction /\ turn'.delegated = turn.delegated
  /\ unrecorded' \in Int
  /\ q.status = "threw" => turn'.threw
  /\ \/ turn'.threw
     \/ turn'.threw = turn.threw /\ unrecorded' = unrecorded + (q.spent - loop[l].spent)

(* A step that replaces one level's record and keeps the accounts          *)
(* preserves the invariant; every action of a runtime is shown to be of    *)
(* this kind, or of the next.                                              *)
LEMMA StepInv ==
  ASSUME TurnInv, NEW l \in Level, NEW q \in LoopType, RowOK(l, q)', Step(l, q), l = Current,
         turn.status \in Active, loop[l].pc # "off", q.pc # "off",
         q.reservation = loop[l].reservation, TurnGoesOn(l, q),
         mode' = mode, cancelled' = cancelled, saved' = saved,
         standing' \in [Call -> {"allow", "deny", None}], always \subseteq always', always' \subseteq Call, Grants'
  PROVE  TurnInv'
<1>1. TypeOK /\ (\A k \in Level : RowOK(k, loop[k])) /\ Nested /\ Money
  BY DEF TurnInv
<1>2. /\ loop \in [Level -> LoopType] /\ loop' \in [Level -> LoopType] /\ loop'[l] = q
      /\ \A k \in Level \ {l} : loop'[k] = loop[k]
  BY <1>1 DEF TypeOK, Step
<1>3. TypeOK'
  BY <1>1, <1>2 DEF TypeOK, TurnGoesOn
<1>4. ASSUME NEW k \in Level PROVE RowOK(k, loop[k])'
  <2>1. CASE k = l
    BY <1>2, <2>1
  <2>2. CASE k # l
    <3>1. RowOK(k, loop[k]) /\ loop[k] \in LoopType
      BY <1>1, <1>2
    <3> DEFINE r == loop[k]
    <3>2. loop'[k] = r
      BY <1>2, <2>2
    <3> HIDE DEF r
    <3>3. \A s \in LoopType : RowOK(k, s) => RowOK(k, s)'
      BY RowStays
    <3> QED BY <3>1, <3>2, <3>3 DEF r
  <2> QED BY <2>1, <2>2
<1>5. /\ "main" \in Level /\ "delegate" \in Level /\ l \in {"main", "delegate"}
      /\ (l = "main" => loop["delegate"].pc = "off") /\ ~Idle /\ ~Idle'
  BY DEF Level, Current, Idle, TurnGoesOn
<1>6. Nested'
  BY <1>1, <1>2, <1>5 DEF Nested, Delegation
<1>7. Money'
  <2>1. /\ loop["main"].spent \in Nat /\ loop["delegate"].spent \in Nat /\ q.spent \in Nat
        /\ loop["main"].reservation \in Nat /\ loop["delegate"].reservation \in Nat
        /\ turn.compaction \in Nat /\ turn.delegated \in Nat /\ turn.ceiling \in Nat /\ unrecorded \in Int
    BY <1>1, <1>2, <1>5, RowFields DEF TypeOK
  <2>2. /\ turn.compaction + turn.delegated + loop["delegate"].reservation <= turn.ceiling
        /\ (loop["main"].pc = "off" => turn.compaction = 0 /\ turn.delegated = 0)
        /\ (~turn.threw => unrecorded = turn.compaction + loop["main"].spent
                                        + turn.delegated + loop["delegate"].spent)
    BY <1>1, <1>5 DEF Money
  <2>3. loop'["delegate"].reservation = loop["delegate"].reservation
    BY <1>2, <1>5
  <2>4. loop'["main"].pc # "off"
    BY <1>1, <1>2, <1>5 DEF Nested, Delegation
  <2>5. ~turn'.threw => unrecorded' = turn.compaction + loop'["main"].spent
                                      + turn.delegated + loop'["delegate"].spent
    <3>1. CASE l = "main"
      <4>1. loop'["main"].spent = q.spent /\ loop'["delegate"].spent = loop["delegate"].spent
        BY <1>2, <1>5, <3>1
      <4> QED BY <2>1, <2>2, <3>1, <4>1 DEF TurnGoesOn
    <3>2. CASE l = "delegate"
      <4>1. loop'["delegate"].spent = q.spent /\ loop'["main"].spent = loop["main"].spent
        BY <1>2, <1>5, <3>2
      <4> QED BY <2>1, <2>2, <3>2, <4>1 DEF TurnGoesOn
    <3> QED BY <1>5, <3>1, <3>2
  <2>6. \A k \in Level : loop'[k].status = "threw" => turn'.threw
    <3>1. \A k \in Level : loop[k].status = "threw" => turn.threw
      BY <1>1 DEF Money
    <3>2. (turn.threw => turn'.threw) /\ (q.status = "threw" => turn'.threw)
      BY DEF TurnGoesOn
    <3> QED BY <1>2, <3>1, <3>2
  <2> QED BY <1>5, <2>1, <2>2, <2>3, <2>4, <2>5, <2>6 DEF Money, TurnGoesOn
<1> QED BY <1>3, <1>4, <1>6, <1>7 DEF TurnInv

(* A turn that fails leaves both levels off, and is known to have thrown:  *)
(* what it paid and did not record is not claimed to be on its books.      *)
LEMMA FailInv ==
  ASSUME TurnInv, FailTurn, UNCHANGED ledgerVars, unrecorded' \in Int
  PROVE  TurnInv'
<1>1. TypeOK /\ Grants
  BY DEF TurnInv
<1>2. /\ turn' \in [number : 0..MaxTurns, status : TurnStatus \cup {None}, ceiling : Nat, compaction : Nat,
                    delegated : Nat, threw : BOOLEAN]
      /\ turn'.status = "failed" /\ turn'.threw = TRUE
  BY <1>1 DEF FailTurn, TypeOK, TurnStatus, Outcome
<1>3. \A l \in Level : loop'[l] = Off
  BY DEF FailTurn
<1>4. TypeOK'
  BY <1>1, <1>2, <1>3, OffRow DEF FailTurn, TypeOK, ledgerVars
<1>5. \A l \in Level : RowOK(l, loop[l])'
  <2>1. \A l \in Level : RowOK(l, Off)
    BY OffRow, EmptyRowOK
  <2>2. \A l \in Level : \A r \in LoopType : RowOK(l, r) => RowOK(l, r)'
    BY RowStays DEF ledgerVars
  <2>3. Off \in LoopType
    BY OffRow
  <2> QED BY <1>3, <2>1, <2>2, <2>3
<1>6. Idle' /\ Nested' /\ Money'
  <2>1. Off.status = None /\ None # "threw"
    BY OffRow, AgentAssumption DEF EmptyRow
  <2> QED BY <1>2, <1>3, <2>1, OffRow DEF Idle, Active, Nested, Money, Level
<1> QED BY <1>1, <1>4, <1>5, <1>6 DEF TurnInv, Grants, ledgerVars
-----------------------------------------------------------------------------
(* Rows with a batch.                                                      *)
LEMMA Positions ==
  ASSUME NEW r \in LoopType, Len(r.marks) = Len(r.batch)
  PROVE  /\ Len(r.batch) \in Nat /\ DOMAIN r.batch = 1..Len(r.batch) /\ DOMAIN r.marks = 1..Len(r.batch)
         /\ \A i \in 1..Len(r.batch) : r.batch[i] \in Call /\ r.marks[i] \in Mark
BY RowFields, LenProperties, ElementOfSeq

LEMMA AllowedFinite ==
  ASSUME NEW r \in LoopType, NEW c
  PROVE  IsFiniteSet(Allowed(r, c)) /\ Cardinality(Allowed(r, c)) \in Nat
<1>1. IsFiniteSet(1..Len(r.batch))
  BY RowFields, FS_Interval
<1>2. Allowed(r, c) \subseteq 1..Len(r.batch)
  BY DEF Allowed
<1> QED BY <1>1, <1>2, FS_Subset, FS_CardinalityType

(* What the steps of a batch leave alone.                                  *)
AlikeBut(r, q) ==
  /\ q.batch = r.batch /\ q.executed = r.executed /\ q.toolCalls = r.toolCalls
  /\ q.spent = r.spent /\ q.reservation = r.reservation /\ q.status = r.status
  /\ q.needsVerification = r.needsVerification

LEMMA BatchType ==
  ASSUME NEW r \in LoopType, NEW b \in Seq(Call), NEW m \in Seq(Mark)
  PROVE  /\ [r EXCEPT !.batch = b] \in LoopType
         /\ [r EXCEPT !.marks = m] \in LoopType
         /\ [r EXCEPT !.batch = b, !.marks = m] \in LoopType
<1>1. \A s \in LoopType : \A a \in Seq(Call) : [s EXCEPT !.batch = a] \in LoopType
  BY DEF LoopType
<1>2. \A s \in LoopType : \A a \in Seq(Mark) : [s EXCEPT !.marks = a] \in LoopType
  <2>1. Mark = {"waiting", "ok", "error"} \cup InHand \cup Evidence
    BY DEF Mark, InHand
  <2> QED BY <2>1 DEF LoopType
<1>3. [r EXCEPT !.batch = b, !.marks = m] = [[r EXCEPT !.batch = b] EXCEPT !.marks = m]
  OBVIOUS
<1> QED BY <1>1, <1>2, <1>3

(* The rows that the steps of a batch lead to. *)
Batched(r, emitted) == [r EXCEPT !.pc = "approving", !.batch = emitted, !.at = 1,
                               !.marks = [i \in DOMAIN emitted |-> "waiting"]]
Prompted(r, i) == [r EXCEPT !.pc = "prompting", !.at = i]
Granting(r, c, forGood) ==
  [r EXCEPT !.pc = "approving", !.at = @ + 1, !.credit[c] = IF forGood THEN @ ELSE @ + 1]
Started(r, i, c) == [Marked(r, i, "running") EXCEPT !.credit[c] = IF Consented(c) THEN @ ELSE @ - 1]
Finished(r, i, m) ==
  [Marked(r, i, m) EXCEPT !.unverified = IF m \in Evidence THEN FALSE
                                         ELSE @ \/ (m = "ok" /\ Effect(Marked(r, i, m).batch[i]) = "workspace")]

LEMMA RequestedRow ==
  ASSUME NEW l \in Level, NEW r \in LoopType, EmptyRow(r), r.pc = "calling", NEW emitted \in Seq(Call),
         r.executed + Len(emitted) <= r.toolCalls, \A i \in DOMAIN emitted : emitted[i] \in Offered(l),
         NEW q, q = Batched(r, emitted)
  PROVE  q \in LoopType /\ RowOK(l, q) /\ q.pc = "approving" /\ q.spent = r.spent /\ q.reservation = r.reservation
<1> DEFINE marks == [i \in DOMAIN emitted |-> "waiting"]  one == 1
<1>1. Len(emitted) \in Nat /\ DOMAIN emitted = 1..Len(emitted)
  BY LenProperties
<1>2. marks \in [1..Len(emitted) -> Mark]
  BY <1>1 DEF Mark
<1>3. marks \in Seq(Mark)
  BY <1>1, <1>2, SeqDef
<1>4. Len(marks) = Len(emitted)
  BY <1>1, <1>2, <1>3, LenProperties
<1>5. \A i \in 1..Len(emitted) : marks[i] = "waiting"
  BY <1>1
<1>6. one \in Nat \ {0} /\ \A i \in 1..Len(emitted) : ~(i < one)
  BY <1>1
<1> HIDE DEF marks, one
<1>7. q = [r EXCEPT !.pc = "approving", !.batch = emitted, !.at = one, !.marks = marks]
  BY DEF marks, one, Batched
<1>8. q \in LoopType
  <2> DEFINE p == [r EXCEPT !.pc = "approving", !.at = one]
  <2>1. p \in LoopType
    BY <1>6 DEF LoopType
  <2>2. q = [p EXCEPT !.batch = emitted, !.marks = marks]
    BY <1>7 DEF LoopType
  <2> HIDE DEF p
  <2>3. \A s \in LoopType : \A b \in Seq(Call) : \A m \in Seq(Mark) :
          [s EXCEPT !.batch = b, !.marks = m] \in LoopType
    BY BatchType
  <2>4. [p EXCEPT !.batch = emitted, !.marks = marks] \in LoopType
    BY <1>3, <2>1, <2>3, Zenon
  <2> QED BY <2>2, <2>4, Zenon
<1>9. /\ q.pc = "approving" /\ q.batch = emitted /\ q.at = one /\ q.marks = marks /\ q.credit = r.credit
      /\ q.executed = r.executed /\ q.toolCalls = r.toolCalls /\ q.spent = r.spent /\ q.reservation = r.reservation
      /\ q.status = r.status /\ q.needsVerification = r.needsVerification /\ q.unverified = r.unverified
  BY <1>7 DEF LoopType
<1>10. Shape(q)
  BY <1>4, <1>5, <1>9 DEF Shape, EmptyRow
<1>11. InOrder(q)
  BY <1>4, <1>5, <1>9 DEF InOrder
<1>12. Verified(q)
  <2>1. Tells(q) = {}
    BY <1>1, <1>5, <1>9 DEF Tells, Evidence
  <2>2. q.status = None
    BY <1>9 DEF EmptyRow
  <2> QED BY <1>9, <2>1, <2>2, AgentAssumption DEF Verified, StillUnverified, EmptyRow, TurnStatus, Outcome
<1>13. Credited(q)
  <2>1. \A c \in Call : Allowed(q, c) = {}
    BY <1>6, <1>9 DEF Allowed
  <2>2. Cardinality({}) = 0
    BY FS_EmptySet
  <2> QED BY <1>9, <2>1, <2>2 DEF Credited, EmptyRow
<1>14. Granted(l, q)
  BY <1>1, <1>9 DEF Granted
<1> QED BY <1>8, <1>9, <1>10, <1>11, <1>12, <1>13, <1>14 DEF RowOK

(* The batch is approved, asked about, allowed. *)
LEMMA ApprovedRow ==
  ASSUME NEW l \in Level, NEW r \in LoopType, RowOK(l, r), r.pc = "approving", Grants,
         \A i \in 1..Len(r.batch) : i >= r.at => Unasked(r.batch[i]),
         NEW q, q = [r EXCEPT !.pc = "executing"]
  PROVE  q \in LoopType /\ RowOK(l, q) /\ q.pc = "executing" /\ q.spent = r.spent /\ q.reservation = r.reservation
<1>1. q \in LoopType /\ q.pc = "executing" /\ AlikeBut(r, q) /\ q.marks = r.marks /\ q.at = r.at
      /\ q.credit = r.credit /\ q.unverified = r.unverified
  BY DEF LoopType, AlikeBut
<1>2. /\ Len(r.marks) = Len(r.batch) /\ Shape(r) /\ InOrder(r) /\ Verified(r) /\ Credited(r) /\ Granted(l, r)
  BY DEF RowOK, Shape
<1>3. Shape(q) /\ InOrder(q)
  BY <1>1, <1>2 DEF Shape, InOrder, AlikeBut
<1>4. Verified(q)
  <2>1. StillUnverified(q) = StillUnverified(r)
    BY <1>1 DEF StillUnverified, Tells, AlikeBut
  <2> QED BY <1>1, <1>2, <2>1 DEF Verified, AlikeBut
<1>5. Credited(q)
  BY <1>1, <1>2 DEF Credited, Allowed, AlikeBut
<1>6. \A i \in 1..Len(r.batch) : i >= r.at => Consented(r.batch[i])
  BY <1>2, Positions DEF Unasked, AutoApproves, Grants, Consented
<1>7. Granted(l, q)
  BY <1>1, <1>2, <1>6 DEF Granted, AlikeBut
<1> QED BY <1>1, <1>3, <1>4, <1>5, <1>7 DEF RowOK, AlikeBut

LEMMA PromptedRow ==
  ASSUME NEW l \in Level, NEW r \in LoopType, RowOK(l, r), r.pc = "approving", Grants,
         NEW i \in 1..Len(r.batch), i >= r.at,
         \A k \in 1..Len(r.batch) : k >= r.at /\ k < i => Unasked(r.batch[k]),
         NEW q, q = Prompted(r, i)
  PROVE  q \in LoopType /\ RowOK(l, q) /\ q.pc = "prompting" /\ q.spent = r.spent /\ q.reservation = r.reservation
<1>1. /\ Len(r.marks) = Len(r.batch) /\ Shape(r) /\ InOrder(r) /\ Verified(r) /\ Credited(r) /\ Granted(l, r)
  BY DEF RowOK, Shape
<1>2. Len(r.batch) \in Nat /\ i \in Nat \ {0} /\ r.at \in Nat
  BY RowFields
<1>3. q \in LoopType /\ q.pc = "prompting" /\ AlikeBut(r, q) /\ q.marks = r.marks /\ q.at = i
      /\ q.credit = r.credit /\ q.unverified = r.unverified
  BY <1>2 DEF Prompted, LoopType, AlikeBut
<1>4. Shape(q) /\ InOrder(q)
  BY <1>1, <1>2, <1>3 DEF Shape, InOrder, AlikeBut
<1>5. Verified(q)
  <2>1. StillUnverified(q) = StillUnverified(r)
    BY <1>3 DEF StillUnverified, Tells, AlikeBut
  <2> QED BY <1>1, <1>3, <2>1 DEF Verified, AlikeBut
<1>6. Credited(q)
  <2>1. ASSUME NEW c \in Call, ~Consented(c) PROVE Allowed(q, c) = Allowed(r, c)
    <3>1. \A k \in 1..Len(r.batch) : r.batch[k] = c /\ k < i => k < r.at
      BY <1>2, <2>1 DEF Unasked, AutoApproves, Grants, Consented
    <3> QED BY <1>2, <1>3, <3>1 DEF Allowed, AlikeBut
  <2> QED BY <1>1, <1>3, <2>1 DEF Credited
<1>7. Granted(l, q)
  BY <1>1, <1>3 DEF Granted, AlikeBut
<1> QED BY <1>3, <1>4, <1>5, <1>6, <1>7 DEF RowOK, AlikeBut

LEMMA AllowsRow ==
  ASSUME NEW l \in Level, NEW r \in LoopType, RowOK(l, r), r.pc = "prompting", NEW forGood \in BOOLEAN,
         NEW c, c = r.batch[r.at], mode' = mode,
         always' = IF forGood THEN always \cup {c} ELSE always,
         NEW q, q = Granting(r, c, forGood)
  PROVE  /\ q \in LoopType /\ RowOK(l, q)' /\ q.pc = "approving" /\ q.spent = r.spent
         /\ q.reservation = r.reservation /\ c \in Call
<1>1. /\ Len(r.marks) = Len(r.batch) /\ Shape(r) /\ InOrder(r) /\ Verified(r) /\ Credited(r) /\ Granted(l, r)
      /\ r.at <= Len(r.batch)
  BY DEF RowOK, Shape
<1>2. Len(r.batch) \in Nat /\ r.at \in Nat \ {0} /\ r.at + 1 \in Nat \ {0} /\ r.at \in 1..Len(r.batch) /\ r.credit \in [Call -> Int]
  BY <1>1, RowFields
<1>3. c \in Call
  BY <1>1, <1>2, Positions
<1> DEFINE credit == [r.credit EXCEPT ![c] = IF forGood THEN @ ELSE @ + 1]
           at == r.at + 1
<1>4. credit \in [Call -> Int] /\ at \in Nat \ {0}
      /\ credit[c] = (IF forGood THEN r.credit[c] ELSE r.credit[c] + 1)
      /\ \A d \in Call : d # c => credit[d] = r.credit[d]
  BY <1>2, <1>3
<1> HIDE DEF credit
<1>5. q = [r EXCEPT !.pc = "approving", !.at = at, !.credit = credit]
  BY DEF credit, Granting
<1> HIDE DEF at
<1>6. q \in LoopType /\ q.pc = "approving" /\ AlikeBut(r, q) /\ q.marks = r.marks /\ q.at = at
      /\ q.credit = credit /\ q.unverified = r.unverified
  <2> DEFINE p == [r EXCEPT !.pc = "approving", !.at = at]
  <2>1. credit \in [Call -> Int] /\ at \in Nat \ {0}
    BY <1>4
  <2>2. p \in LoopType
    BY <2>1 DEF LoopType
  <2>3. q = [p EXCEPT !.credit = credit]
    BY <1>5 DEF LoopType
  <2> HIDE DEF p
  <2>4. q \in LoopType
    BY <2>1, <2>2, <2>3 DEF LoopType
  <2> QED BY <1>5, <2>4 DEF LoopType, AlikeBut
<1>7. Shape(q) /\ InOrder(q)
  BY <1>1, <1>6 DEF Shape, InOrder, AlikeBut
<1>8. Verified(q)
  <2>1. StillUnverified(q) = StillUnverified(r)
    BY <1>6 DEF StillUnverified, Tells, AlikeBut
  <2> QED BY <1>1, <1>6, <2>1 DEF Verified, AlikeBut
<1>9. Granted(l, q)'
  <2>1. \A i \in 1..Len(r.batch) : r.batch[i] \in Call
    BY <1>1, Positions
  <2> QED BY <1>1, <1>6, <2>1 DEF Granted, AlikeBut, Offered
<1>10. Credited(q)'
  <2> SUFFICES ASSUME NEW d \in Call
      PROVE  credit[d] >= 0 /\ (~Consented(d)' => credit[d] >= Cardinality(Allowed(q, d)))
    BY <1>6 DEF Credited, Allowed
  <2>1. r.credit[d] \in Int /\ r.credit[d] >= 0 /\ (~Consented(d) => r.credit[d] >= Cardinality(Allowed(r, d)))
    BY <1>1, <1>2 DEF Credited
  <2>2. ~Consented(d)' => ~Consented(d) /\ (d = c => ~forGood)
    BY DEF Consented
  <2>3. CASE d # c
    <3>1. Allowed(q, d) = Allowed(r, d)
      BY <1>2, <1>6, <2>3 DEF Allowed, AlikeBut, at
    <3> QED BY <1>4, <2>1, <2>2, <2>3, <3>1
  <2>4. CASE d = c
    <3>1. Allowed(q, c) \subseteq Allowed(r, c) \cup {r.at}
      BY <1>2, <1>6 DEF Allowed, AlikeBut, at
    <3> DEFINE S == Allowed(r, c)
    <3>6. IsFiniteSet(S) /\ Cardinality(S) \in Nat
      BY AllowedFinite
    <3> HIDE DEF S
    <3>7. /\ IsFiniteSet(S \cup {r.at})
          /\ Cardinality(S \cup {r.at}) = Cardinality(S) \/ Cardinality(S \cup {r.at}) = Cardinality(S) + 1
      BY <3>6, FS_AddElement
    <3>8. Cardinality(S \cup {r.at}) <= Cardinality(S) + 1
      BY <3>6, <3>7
    <3>2. IsFiniteSet(S \cup {r.at}) /\ Cardinality(S \cup {r.at}) <= Cardinality(S) + 1
      BY <3>7, <3>8
    <3> USE DEF S
    <3>3. Cardinality(Allowed(q, c)) <= Cardinality(Allowed(r, c) \cup {r.at})
      BY <3>1, <3>2, FS_Subset
    <3>4. Cardinality(Allowed(q, c)) \in Nat /\ Cardinality(Allowed(r, c)) \in Nat
          /\ Cardinality(Allowed(r, c) \cup {r.at}) \in Nat
      BY <1>6, <3>2, AllowedFinite, FS_CardinalityType
    <3>5. Cardinality(Allowed(q, c)) <= Cardinality(Allowed(r, c)) + 1
      BY <3>2, <3>3, <3>4
    <3> QED BY <1>4, <2>1, <2>2, <2>4, <3>4, <3>5
  <2> QED BY <2>3, <2>4
<1>11. Shape(q)' /\ InOrder(q)' /\ Verified(q)'
  BY <1>7, <1>8 DEF Shape, InOrder, Verified
<1> QED BY <1>3, <1>6, <1>9, <1>10, <1>11 DEF RowOK, AlikeBut

(* Marking a call of the batch. *)
Marking(r, i, m, q) ==
  /\ AlikeBut(r, q) /\ q.pc = "executing" /\ q.at = r.at
  /\ q.marks = [r.marks EXCEPT ![i] = m]

Unfinished(r, i) == r.marks[i] \in {"waiting", "announced", "running"}

(* Marking a call of a batch marks that one and leaves the others as they  *)
(* were.                                                                   *)
LEMMA MarkedMarks ==
  ASSUME NEW r \in LoopType, NEW q, Len(r.marks) = Len(r.batch),
         NEW i \in 1..Len(r.batch), NEW m \in Mark, Marking(r, i, m, q)
  PROVE  /\ q.batch = r.batch /\ Len(q.marks) = Len(q.batch) /\ q.marks \in Seq(Mark)
         /\ \A k \in 1..Len(r.batch) : q.marks[k] = IF k = i THEN m ELSE r.marks[k]
<1>1. r.marks \in Seq(Mark) /\ Len(r.marks) \in Nat /\ i \in 1..Len(r.marks)
  BY RowFields
<1>2. q.marks = [r.marks EXCEPT ![i] = m] /\ q.batch = r.batch
  BY DEF Marking, AlikeBut
<1> HIDE DEF Mark
<1>3. /\ [r.marks EXCEPT ![i] = m] \in Seq(Mark) /\ Len([r.marks EXCEPT ![i] = m]) = Len(r.marks)
      /\ \A k \in 1..Len(r.marks) : [r.marks EXCEPT ![i] = m][k] = IF k = i THEN m ELSE r.marks[k]
  BY <1>1, ExceptSeq
<1> QED BY <1>1, <1>2, <1>3

LEMMA MarkedOrder ==
  ASSUME NEW l \in Level, NEW r \in LoopType, RowOK(l, r), r.pc = "executing", NEW q,
         NEW i \in 1..Len(r.batch), NEW m \in Mark \ {"waiting"}, Marking(r, i, m, q), Unfinished(r, i),
         r.marks[i] = "waiting" => \A j \in 1..(i - 1) : Done(r.marks[j]) \/ Together(r.batch, j, i)
  PROVE  Shape(q) /\ InOrder(q) /\ Granted(l, q)
<1>1. /\ Shape(r) /\ InOrder(r) /\ Granted(l, r) /\ Len(r.marks) = Len(r.batch) /\ Len(r.batch) \in Nat
      /\ r.status = None
  BY RowFields DEF RowOK, Shape
<1>2. /\ q.batch = r.batch /\ Len(q.marks) = Len(r.batch)
      /\ \A k \in 1..Len(r.batch) : q.marks[k] = IF k = i THEN m ELSE r.marks[k]
  BY <1>1, MarkedMarks
<1>3. Shape(q)
  BY <1>1, <1>2 DEF Shape, Marking, AlikeBut
<1>4. Granted(l, q)
  BY <1>1, <1>2 DEF Granted, Marking
<1>5. InOrder(q)
  <2> SUFFICES ASSUME NEW j \in 1..Len(r.batch), q.marks[j] # "waiting", NEW k \in 1..(j - 1)
      PROVE  Done(q.marks[k]) \/ Together(r.batch, k, j)
    BY <1>2 DEF InOrder
  <2>1. k \in 1..Len(r.batch) /\ k # j
    BY <1>1
  <2>2. r.marks[j] # "waiting" => Done(r.marks[k]) \/ Together(r.batch, k, j)
    BY <1>1 DEF InOrder
  <2>3. CASE j = i
    <3>1. q.marks[k] = r.marks[k]
      BY <1>2, <2>1, <2>3
    <3> QED BY <2>2, <2>3, <3>1
  <2>4. CASE j # i
    <3>1. q.marks[j] = r.marks[j]
      BY <1>2, <2>4
    <3>2. CASE k = i
      BY <2>2, <3>1, <3>2 DEF Unfinished, Done, InHand
    <3>3. CASE k # i
      BY <1>2, <2>1, <2>2, <3>1, <3>3
    <3> QED BY <3>2, <3>3
  <2> QED BY <2>3, <2>4
<1> QED BY <1>3, <1>4, <1>5

LEMMA TellsIn ==
  ASSUME NEW r \in LoopType, Len(r.marks) = Len(r.batch), Tells(r) # {}
  PROVE  Latest(Tells(r)) \in Tells(r) /\ \A j \in Tells(r) : j <= Latest(Tells(r))
<1>1. Len(r.batch) \in Nat /\ Tells(r) \in SUBSET (0..Len(r.batch))
  BY Positions DEF Tells
<1> QED BY <1>1, LastIn

LEMMA TellsSame ==
  ASSUME NEW r \in LoopType, NEW q, Len(r.marks) = Len(r.batch),
         NEW i \in 1..Len(r.batch), NEW m \in Mark, Marking(r, i, m, q), Unfinished(r, i),
         m \notin Evidence, m = "ok" => Effect(r.batch[i]) # "workspace"
  PROVE  StillUnverified(q) = StillUnverified(r)
<1>1. /\ q.batch = r.batch
      /\ \A k \in 1..Len(r.batch) : q.marks[k] = IF k = i THEN m ELSE r.marks[k]
  BY MarkedMarks
<1>2. DOMAIN r.batch = 1..Len(r.batch)
  BY Positions
<1>3. i \notin Tells(r)
  BY DEF Tells, Unfinished, Evidence
<1>4. Tells(q) = Tells(r)
  BY <1>1, <1>2, <1>3 DEF Tells
<1>5. ASSUME Tells(r) # {} PROVE q.marks[Latest(Tells(q))] = r.marks[Latest(Tells(r))]
  <2>1. Latest(Tells(r)) \in Tells(r)
    BY <1>5, TellsIn
  <2>2. Latest(Tells(r)) \in 1..Len(r.batch) /\ Latest(Tells(r)) # i
    BY <1>2, <1>3, <2>1 DEF Tells
  <2> QED BY <1>1, <1>4, <2>2
<1>6. q.needsVerification = r.needsVerification
  BY DEF Marking, AlikeBut
<1> QED BY <1>4, <1>5, <1>6 DEF StillUnverified

(* A call with an effect tells after all that was told before. *)
LEMMA TellsLast ==
  ASSUME NEW r \in LoopType, NEW q \in LoopType, Len(r.marks) = Len(r.batch), InOrder(r),
         NEW i \in 1..Len(r.batch), NEW m \in Mark, Marking(r, i, m, q), r.marks[i] = "running",
         ~Concurrent(r.batch[i]),
         \/ m \in Evidence
         \/ m = "ok" /\ Effect(r.batch[i]) = "workspace"
  PROVE  StillUnverified(q) = (m \notin Evidence)
<1>1. /\ q.batch = r.batch /\ Len(q.marks) = Len(q.batch)
      /\ \A k \in 1..Len(r.batch) : q.marks[k] = IF k = i THEN m ELSE r.marks[k]
  BY MarkedMarks
<1>2. DOMAIN r.batch = 1..Len(r.batch) /\ Len(r.batch) \in Nat
  BY Positions
<1>3. i \in Tells(q)
  BY <1>1, <1>2 DEF Tells
<1>4. ASSUME NEW j \in Tells(q) PROVE j <= i
  <2> SUFFICES ASSUME i < j PROVE FALSE
    BY <1>1, <1>2 DEF Tells
  <2>1. j \in 1..Len(r.batch) /\ q.marks[j] # "waiting"
    BY <1>1, <1>2 DEF Tells, Evidence
  <2>2. r.marks[j] # "waiting" /\ i \in 1..(j - 1)
    BY <1>1, <1>2, <2>1
  <2>3. Done(r.marks[i]) \/ Together(r.batch, i, j)
    BY <2>1, <2>2 DEF InOrder
  <2>4. i \in i..j
    BY <1>2, <2>1
  <2> QED BY <2>3, <2>4 DEF Done, InHand, Together
<1>5. Latest(Tells(q)) \in Tells(q) /\ \A j \in Tells(q) : j <= Latest(Tells(q))
  BY <1>1, <1>3, TellsIn
<1>6. Latest(Tells(q)) = i
  <2>1. Latest(Tells(q)) \in 1..Len(r.batch)
    BY <1>1, <1>2, <1>5 DEF Tells
  <2>2. Latest(Tells(q)) <= i /\ i <= Latest(Tells(q))
    BY <1>3, <1>4, <1>5
  <2> QED BY <1>2, <2>1, <2>2
<1>7. q.marks[Latest(Tells(q))] = m
  BY <1>1, <1>6
<1> QED BY <1>3, <1>7 DEF StillUnverified

LEMMA MarkedFields ==
  ASSUME NEW r \in LoopType, r.pc = "executing", Len(r.marks) = Len(r.batch), NEW i \in 1..Len(r.batch), NEW m \in Mark,
         NEW q, q = Marked(r, i, m)
  PROVE  q \in LoopType /\ Marking(r, i, m, q) /\ q.credit = r.credit /\ q.unverified = r.unverified
<1> DEFINE k == [r.marks EXCEPT ![i] = m]
<1>1. k \in Seq(Mark)
  <2>1. r.marks \in Seq(Mark) /\ i \in 1..Len(r.marks)
    BY RowFields
  <2> HIDE DEF Mark
  <2> QED BY <2>1, ExceptSeq
<1>2. q = [r EXCEPT !.marks = k]
  BY DEF Marked
<1> HIDE DEF k
<1>3. q \in LoopType
  <2>1. \A s \in LoopType : \A a \in Seq(Mark) : [s EXCEPT !.marks = a] \in LoopType
    BY EmptySeq, BatchType
  <2>2. [r EXCEPT !.marks = k] \in LoopType
    BY <1>1, <2>1
  <2> QED BY <1>2, <2>2
<1>4. /\ q.batch = r.batch /\ q.executed = r.executed /\ q.toolCalls = r.toolCalls
      /\ q.spent = r.spent /\ q.reservation = r.reservation /\ q.status = r.status
      /\ q.needsVerification = r.needsVerification /\ q.pc = r.pc /\ q.at = r.at /\ q.marks = k
      /\ q.credit = r.credit /\ q.unverified = r.unverified
  BY <1>2 DEF LoopType
<1> QED BY <1>3, <1>4 DEF Marking, AlikeBut, k

LEMMA MarkedAllowed ==
  ASSUME NEW r \in LoopType, NEW q, Len(r.marks) = Len(r.batch),
         NEW i \in 1..Len(r.batch), NEW m \in Mark \ {"waiting"}, Marking(r, i, m, q), NEW c
  PROVE  /\ m # "announced" => Allowed(q, c) = Allowed(r, c) \ {i}
         /\ r.marks[i] = "waiting" => Allowed(q, c) \subseteq Allowed(r, c)
<1>1. /\ q.batch = r.batch /\ q.at = r.at
      /\ \A k \in 1..Len(r.batch) : q.marks[k] = IF k = i THEN m ELSE r.marks[k]
  BY MarkedMarks DEF Marking
<1> QED BY <1>1 DEF Allowed

LEMMA SameCredit ==
  ASSUME NEW r \in LoopType, NEW q, Len(r.marks) = Len(r.batch), Credited(r),
         NEW i \in 1..Len(r.batch), NEW m \in Mark \ {"waiting"}, Marking(r, i, m, q), q.credit = r.credit,
         m = "announced" => r.marks[i] = "waiting"
  PROVE  Credited(q)
<1> SUFFICES ASSUME NEW c \in Call, ~Consented(c) PROVE r.credit[c] >= Cardinality(Allowed(q, c))
  BY DEF Credited
<1>1. r.credit \in [Call -> Int]
  BY RowFields
<1>2. r.credit[c] \in Int /\ r.credit[c] >= Cardinality(Allowed(r, c))
  BY <1>1 DEF Credited
<1>3. Allowed(q, c) \subseteq Allowed(r, c)
  BY MarkedAllowed
<1>4. Cardinality(Allowed(q, c)) \in Nat /\ Cardinality(Allowed(r, c)) \in Nat
      /\ Cardinality(Allowed(q, c)) <= Cardinality(Allowed(r, c))
  BY <1>3, AllowedFinite, FS_Subset, FS_CardinalityType
<1> QED BY <1>2, <1>4

(* A mark that says nothing of the workspace. *)
LEMMA MarkedRow ==
  ASSUME NEW l \in Level, NEW r \in LoopType, RowOK(l, r), r.pc = "executing",
         NEW i \in 1..Len(r.batch), NEW m \in {"announced", "running", "ok", "error"}, Unfinished(r, i),
         m = "announced" => r.marks[i] = "waiting",
         r.marks[i] = "waiting" => \A j \in 1..(i - 1) : Done(r.marks[j]) \/ Together(r.batch, j, i),
         m = "ok" => Effect(r.batch[i]) # "workspace", NEW q, q = Marked(r, i, m)
  PROVE  /\ q \in LoopType /\ RowOK(l, q) /\ q.pc = "executing" /\ q.spent = r.spent
         /\ q.reservation = r.reservation
<1>1. /\ Shape(r) /\ InOrder(r) /\ Verified(r) /\ Credited(r) /\ Granted(l, r) /\ Len(r.marks) = Len(r.batch)
      /\ r.status = None
  BY DEF RowOK, Shape
<1>2. m \in Mark \ {"waiting"} /\ m \notin Evidence
  BY DEF Mark, Evidence
<1>3. q \in LoopType /\ Marking(r, i, m, q) /\ q.credit = r.credit /\ q.unverified = r.unverified
  BY <1>1, <1>2, MarkedFields
<1>4. Shape(q) /\ InOrder(q) /\ Granted(l, q)
  BY <1>2, <1>3, MarkedOrder
<1>5. StillUnverified(q) = StillUnverified(r)
  BY <1>1, <1>2, <1>3, TellsSame
<1>6. Verified(q)
  BY <1>1, <1>3, <1>5 DEF Verified, Marking, AlikeBut
<1>7. Credited(q)
  BY <1>1, <1>2, <1>3, SameCredit
<1> QED BY <1>3, <1>4, <1>6, <1>7 DEF RowOK, Marking, AlikeBut

LEMMA StartedRow ==
  ASSUME NEW l \in Level, NEW r \in LoopType, RowOK(l, r), r.pc = "executing",
         NEW i \in 1..Len(r.batch), r.marks[i] = "announced", NEW c, c = r.batch[i],
         NEW q, q = Started(r, i, c)
  PROVE  /\ q \in LoopType /\ RowOK(l, q) /\ q.pc = "executing" /\ q.spent = r.spent
         /\ q.reservation = r.reservation
<1> DEFINE m == Marked(r, i, "running")
<1>1. /\ Shape(r) /\ InOrder(r) /\ Verified(r) /\ Credited(r) /\ Granted(l, r) /\ Len(r.marks) = Len(r.batch)
      /\ r.status = None /\ r.credit \in [Call -> Int]
  BY RowFields DEF RowOK, Shape
<1>2. "running" \in Mark \ {"waiting"} /\ "running" \notin Evidence /\ "running" # "ok"
  BY DEF Mark, Evidence
<1>3. m \in LoopType /\ Marking(r, i, "running", m) /\ m.credit = r.credit /\ m.unverified = r.unverified
  BY <1>1, <1>2, MarkedFields
<1>4. c \in Call
  BY <1>1, Positions
<1> DEFINE credit == [r.credit EXCEPT ![c] = IF Consented(c) THEN @ ELSE @ - 1]
<1>5. credit \in [Call -> Int] /\ credit[c] = (IF Consented(c) THEN r.credit[c] ELSE r.credit[c] - 1)
      /\ \A d \in Call : d # c => credit[d] = r.credit[d]
  BY <1>1, <1>4
<1>6. q = [m EXCEPT !.credit = credit]
  BY <1>3 DEF Started
<1> HIDE DEF m, credit
<1>7. q \in LoopType /\ Marking(r, i, "running", q) /\ q.credit = credit /\ q.unverified = r.unverified
  <2>1. q \in LoopType
    BY <1>3, <1>5, <1>6 DEF LoopType
  <2>2. /\ q.batch = m.batch /\ q.executed = m.executed /\ q.toolCalls = m.toolCalls
        /\ q.spent = m.spent /\ q.reservation = m.reservation /\ q.status = m.status
        /\ q.needsVerification = m.needsVerification /\ q.pc = m.pc /\ q.at = m.at /\ q.marks = m.marks
        /\ q.credit = credit /\ q.unverified = m.unverified
    BY <1>3, <1>6 DEF LoopType
  <2> QED BY <1>3, <2>1, <2>2 DEF Marking, AlikeBut
<1>8. Shape(q) /\ InOrder(q) /\ Granted(l, q)
  BY <1>1, <1>2, <1>7, MarkedOrder DEF Unfinished
<1>9. StillUnverified(q) = StillUnverified(r)
  BY <1>1, <1>2, <1>7, TellsSame DEF Unfinished
<1>10. Verified(q)
  BY <1>1, <1>7, <1>9 DEF Verified, Marking, AlikeBut
<1>11. Credited(q)
  <2> SUFFICES ASSUME NEW d \in Call
      PROVE  credit[d] >= 0 /\ (~Consented(d) => credit[d] >= Cardinality(Allowed(q, d)))
    BY <1>7 DEF Credited
  <2>1. r.credit[d] \in Int /\ r.credit[d] >= 0 /\ (~Consented(d) => r.credit[d] >= Cardinality(Allowed(r, d)))
    BY <1>1 DEF Credited
  <2>2. Allowed(q, d) = Allowed(r, d) \ {i}
    BY <1>1, <1>2, <1>7, MarkedAllowed
  <2>3. /\ Cardinality(Allowed(q, d)) \in Nat /\ Cardinality(Allowed(r, d)) \in Nat
        /\ IsFiniteSet(Allowed(r, d)) /\ Cardinality(Allowed(q, d)) <= Cardinality(Allowed(r, d))
    BY <2>2, <1>7, AllowedFinite, FS_Subset
  <2>4. CASE d # c \/ Consented(c)
    BY <1>5, <2>1, <2>3, <2>4
  <2>5. CASE d = c /\ ~Consented(c)
    <3>1. i < r.at
      <4>1. r.at \in Nat /\ i \in Nat
        BY RowFields
      <4> QED BY <1>1, <2>5, <4>1 DEF Granted
    <3>2. i \in Allowed(r, d)
      BY <2>5, <3>1 DEF Allowed
    <3>3. Cardinality(Allowed(q, d)) = Cardinality(Allowed(r, d)) - 1
      BY <2>2, <2>3, <3>2, FS_RemoveElement
    <3>4. credit[d] = r.credit[d] - 1 /\ r.credit[d] >= Cardinality(Allowed(r, d))
      BY <1>5, <2>1, <2>5
    <3> QED BY <2>1, <2>3, <3>3, <3>4
  <2> QED BY <2>4, <2>5
<1> QED BY <1>7, <1>8, <1>10, <1>11 DEF RowOK, Marking, AlikeBut

LEMMA FinishedRow ==
  ASSUME NEW l \in Level, NEW r \in LoopType, RowOK(l, r), r.pc = "executing",
         NEW i \in 1..Len(r.batch), r.marks[i] = "running", NEW m \in Results(r.batch[i]),
         NEW q, q = Finished(r, i, m)
  PROVE  /\ q \in LoopType /\ RowOK(l, q) /\ q.pc = "executing" /\ q.spent = r.spent
         /\ q.reservation = r.reservation
<1> DEFINE p == Marked(r, i, m)
           tells == m = "ok" /\ Effect(r.batch[i]) = "workspace"
<1>1. /\ Shape(r) /\ InOrder(r) /\ Verified(r) /\ Credited(r) /\ Granted(l, r) /\ Len(r.marks) = Len(r.batch)
      /\ r.status = None /\ r.unverified \in BOOLEAN
  BY RowFields DEF RowOK, Shape
<1>2. m \in Mark \ {"waiting", "announced"}
  BY DEF Mark, Results, Evidence
<1>3. p \in LoopType /\ Marking(r, i, m, p) /\ p.credit = r.credit /\ p.unverified = r.unverified /\ p.batch = r.batch
  BY <1>1, <1>2, MarkedFields DEF Marking, AlikeBut
<1> DEFINE u == IF m \in Evidence THEN FALSE ELSE r.unverified \/ tells
<1>4. q = [p EXCEPT !.unverified = u] /\ u \in BOOLEAN
  BY <1>1, <1>3 DEF Finished
<1> HIDE DEF p, u
<1>5. q \in LoopType /\ Marking(r, i, m, q) /\ q.credit = r.credit /\ q.unverified = u
  <2>1. q \in LoopType
    BY <1>3, <1>4 DEF LoopType
  <2>2. /\ q.batch = p.batch /\ q.executed = p.executed /\ q.toolCalls = p.toolCalls
        /\ q.spent = p.spent /\ q.reservation = p.reservation /\ q.status = p.status
        /\ q.needsVerification = p.needsVerification /\ q.pc = p.pc /\ q.at = p.at /\ q.marks = p.marks
        /\ q.credit = p.credit /\ q.unverified = u
    BY <1>3, <1>4 DEF LoopType
  <2> QED BY <1>3, <2>1, <2>2 DEF Marking, AlikeBut
<1>6. Shape(q) /\ InOrder(q) /\ Granted(l, q)
  BY <1>2, <1>5, MarkedOrder DEF Unfinished
<1>7. StillUnverified(q) = u
  <2>1. CASE m \in Evidence \/ tells
    <3>1. Effect(r.batch[i]) # "none"
      <4>1. CASE tells
        BY <4>1
      <4>2. CASE m \in Evidence
        BY <4>2 DEF Results, Evidence, Effect
      <4> QED BY <2>1, <4>1, <4>2
    <3>2. ~Concurrent(r.batch[i])
      BY <3>1 DEF Concurrent
    <3>3. StillUnverified(q) = (m \notin Evidence)
      BY <1>1, <1>2, <1>5, <2>1, <3>2, TellsLast
    <3> QED BY <1>1, <2>1, <3>3 DEF u
  <2>2. CASE m \notin Evidence /\ ~tells
    <3>1. StillUnverified(q) = StillUnverified(r)
      BY <1>1, <1>2, <1>5, <2>2, TellsSame DEF Unfinished
    <3>2. StillUnverified(r) = r.unverified
      BY <1>1 DEF Verified
    <3> QED BY <1>1, <2>2, <3>1, <3>2 DEF u
  <2> QED BY <2>1, <2>2
<1>8. Verified(q)
  BY <1>1, <1>5, <1>7, AgentAssumption DEF Verified, Marking, AlikeBut, TurnStatus, Outcome
<1>9. Credited(q)
  BY <1>1, <1>2, <1>5, SameCredit
<1> QED BY <1>5, <1>6, <1>8, <1>9 DEF RowOK, Marking, AlikeBut

LEMMA AbsorbedRow ==
  ASSUME NEW l \in Level, NEW r \in LoopType, RowOK(l, r), r.pc = "executing", NEW q, q = Absorbed(r)
  PROVE  /\ q \in LoopType /\ q.executed <= q.toolCalls /\ q.spent = r.spent /\ q.reservation = r.reservation
         /\ q.unverified = q.needsVerification /\ q.status = None /\ q.spent <= q.reservation
<1>1. /\ Shape(r) /\ Verified(r) /\ Len(r.marks) = Len(r.batch) /\ r.status = None
      /\ r.unverified = StillUnverified(r) /\ r.executed \in Nat /\ Len(r.batch) \in Nat
      /\ r.toolCalls \in 0..MaxToolCalls /\ r.executed + Len(r.batch) <= r.toolCalls
      /\ r.unverified \in BOOLEAN /\ r.strongest \in 0..2 /\ r.spent <= r.reservation
  BY RowFields DEF RowOK, Shape, Verified
<1> DEFINE x == r.executed + Len(r.batch)  s == Latest(Ranks(r))  u == StillUnverified(r)
<1>2. x \in 0..MaxToolCalls /\ x <= r.toolCalls
  BY <1>1, AgentAssumption
<1>3. s \in 0..2
  <2>1. \A i \in {j \in DOMAIN r.marks : r.marks[j] \in Evidence} : EVIDENCE_RANK[r.marks[i]] \in 0..2
    BY DEF Evidence, EVIDENCE_RANK
  <2>2. Ranks(r) \in SUBSET (0..2) /\ Ranks(r) # {}
    BY <1>1, <2>1 DEF Ranks
  <2> QED BY <2>2, LastIn
<1>4. q = [r EXCEPT !.executed = x, !.needsVerification = u, !.strongest = s] /\ u \in BOOLEAN /\ u = r.unverified
  BY <1>1 DEF Absorbed
<1> HIDE DEF x, s, u
<1>5. q \in LoopType
  <2> DEFINE p == [r EXCEPT !.executed = x, !.needsVerification = u]
  <2>1. p \in LoopType
    BY <1>2, <1>4 DEF LoopType
  <2>2. q = [p EXCEPT !.strongest = s]
    BY <1>4 DEF LoopType
  <2> HIDE DEF p
  <2> QED BY <1>3, <2>1, <2>2 DEF LoopType
<1>6. /\ q.executed = x /\ q.toolCalls = r.toolCalls /\ q.spent = r.spent /\ q.reservation = r.reservation
      /\ q.unverified = r.unverified /\ q.needsVerification = u /\ q.status = r.status
  BY <1>4 DEF LoopType
<1> QED BY <1>1, <1>2, <1>4, <1>5, <1>6
-----------------------------------------------------------------------------
(* The steps of a loop. *)
LEMMA Here ==
  ASSUME TurnInv, NEW l \in Level, NEW pc, Waits(l, pc)
  PROVE  /\ loop[l] \in LoopType /\ RowOK(l, loop[l]) /\ loop[l].spent <= loop[l].reservation /\ loop[l].spent \in Nat
         /\ loop[l].pc = pc /\ l = Current /\ turn.status \in Active /\ Grants /\ TypeOK
         /\ (pc \in {"top", "calling", "backoff"} => EmptyRow(loop[l]))
<1>1. loop[l] \in LoopType /\ RowOK(l, loop[l]) /\ Grants /\ TypeOK /\ loop[l].pc = pc
  BY DEF TurnInv, TypeOK, Waits
<1>2. loop[l].spent <= loop[l].reservation /\ loop[l].spent \in Nat
  BY <1>1, RowFields DEF RowOK, Shape
<1> QED BY <1>1, <1>2, EmptyRowOK DEF Waits

LEMMA QuietStep ==
  ASSUME TurnInv, NEW l \in Level, NEW pc \in {"top", "calling", "backoff", "approving", "prompting", "executing"},
         Waits(l, pc), NEW q \in LoopType, RowOK(l, q), Step(l, q), q.pc # "off",
         q.pc = "ended" => q.status \in Outcome, q.reservation = loop[l].reservation, UNCHANGED <<ledgerVars, turn>>,
         unrecorded' = unrecorded + (q.spent - loop[l].spent)
  PROVE  TurnInv'
<1>1. /\ l = Current /\ turn.status \in Active /\ Grants /\ TypeOK /\ loop[l].pc # "off" /\ loop[l].spent \in Nat
  BY Here
<1>2. \A s \in LoopType : RowOK(l, s) => RowOK(l, s)'
  BY RowStays DEF ledgerVars
<1>3. RowOK(l, q)'
  BY <1>2
<1>4. q.spent \in Nat
  BY RowFields
<1>5. TurnGoesOn(l, q)
  <2>1. q.status # "threw"
    BY AgentAssumption DEF RowOK, Shape, Outcome
  <2> QED BY <1>1, <1>4, <2>1 DEF TurnGoesOn, TypeOK
<1>6. /\ mode' = mode /\ cancelled' = cancelled /\ saved' = saved /\ always' = always /\ standing' = standing
      /\ standing' \in [Call -> {"allow", "deny", None}] /\ always' \subseteq Call /\ Grants'
  BY <1>1 DEF ledgerVars, TypeOK, Grants
<1> QED BY <1>1, <1>3, <1>5, <1>6, StepInv

LEMMA ThrewInv ==
  ASSUME TurnInv, NEW l \in Level, NEW pc \in {"top", "calling", "backoff", "approving", "prompting", "executing"},
         Waits(l, pc), Threw(l), UNCHANGED ledgerVars, unrecorded' \in Int
  PROVE  TurnInv'
<1>1. CASE l = "main"
  BY <1>1, FailInv DEF Threw
<1>2. CASE l # "main"
  <2> PICK q : q = Ended(loop[l], "threw")
    OBVIOUS
  <2>1. /\ l = Current /\ turn.status \in Active /\ Grants /\ TypeOK /\ loop[l].pc # "off"
        /\ loop[l] \in LoopType /\ loop[l].spent <= loop[l].reservation
    BY Here
  <2>2. q \in LoopType /\ EmptyRow(q) /\ q.pc = "ended" /\ q.reservation = loop[l].reservation
    <3>1. "threw" # "completed" /\ "threw" # "needs_verification" /\ "threw" \in Outcome \cup {"threw"}
      OBVIOUS
    <3>2. \A r \in LoopType : r.spent <= r.reservation =>
            /\ Ended(r, "threw") \in LoopType /\ EmptyRow(Ended(r, "threw")) /\ Ended(r, "threw").pc = "ended"
            /\ Ended(r, "threw").reservation = r.reservation
      BY <3>1, EndedRow
    <3> QED BY <2>1, <3>2
  <2>3. Step(l, q) /\ turn' = [turn EXCEPT !.threw = TRUE]
    BY <1>2 DEF Threw
  <2>4. RowOK(l, q)
    BY <2>2, EmptyRowOK
  <2>5. \A s \in LoopType : RowOK(l, s) => RowOK(l, s)'
    BY RowStays DEF ledgerVars
  <2>6. RowOK(l, q)'
    BY <2>2, <2>4, <2>5
  <2>7. TurnGoesOn(l, q)
    BY <2>1, <2>3 DEF TurnGoesOn, TypeOK
  <2>8. /\ mode' = mode /\ cancelled' = cancelled /\ saved' = saved /\ always' = always /\ standing' = standing
        /\ standing' \in [Call -> {"allow", "deny", None}] /\ always' \subseteq Call /\ Grants'
    BY <2>1 DEF ledgerVars, TypeOK, Grants
  <2> QED BY <2>1, <2>2, <2>3, <2>6, <2>7, <2>8, StepInv
<1> QED BY <1>1, <1>2

LEMMA StopInv ==
  ASSUME TurnInv, NEW l \in Level, NEW pc \in {"top", "calling", "backoff", "approving", "prompting", "executing"},
         Waits(l, pc), NEW s \in {"iteration_limit", "cancelled", "blocked"}, Stop(l, s),
         UNCHANGED <<ledgerVars, turn, unrecorded>>
  PROVE  TurnInv'
<1> DEFINE q == Ended(loop[l], s)
<1>1. loop[l] \in LoopType /\ loop[l].spent <= loop[l].reservation /\ loop[l].spent \in Nat
  BY Here
<1>2. /\ q \in LoopType /\ EmptyRow(q) /\ q.pc = "ended" /\ q.reservation = loop[l].reservation
      /\ q.spent = loop[l].spent /\ q.status \in Outcome
  BY <1>1, EndedRow DEF Outcome
<1>3. Step(l, q)
  BY DEF Stop
<1> HIDE DEF q
<1>4. RowOK(l, q)
  BY <1>2, EmptyRowOK
<1>5. UNCHANGED <<ledgerVars, turn>> /\ unrecorded' = unrecorded + (q.spent - loop[l].spent)
  BY <1>1, <1>2 DEF TurnInv, TypeOK
<1> QED BY <1>2, <1>3, <1>4, <1>5, QuietStep

LEMMA TopStep ==
  ASSUME TurnInv, NEW l \in Level, TopOfLoop(l) PROVE TurnInv'
<1> DEFINE r == loop[l]
<1>1. Waits(l, "top") /\ UNCHANGED <<ledgerVars, turn, unrecorded>>
  BY DEF TopOfLoop
<1>2. r \in LoopType /\ EmptyRow(r) /\ r.spent <= r.reservation /\ r.spent \in Nat /\ r.pc = "top" /\ TypeOK
  BY <1>1, Here
<1>3. CASE Stop(l, "iteration_limit")
  BY <1>1, <1>3, StopInv
<1>4. CASE Stop(l, "cancelled")
  BY <1>1, <1>4, StopInv
<1>5. CASE r.iteration < r.limit /\ Step(l, [r EXCEPT !.pc = "calling", !.iteration = @ + 1, !.attempt = 0])
  <2> DEFINE q == [r EXCEPT !.pc = "calling", !.iteration = @ + 1, !.attempt = 0]
  <2> HIDE DEF r
  <2>0. r.iteration \in 0..MaxIterations /\ r.limit \in 0..MaxIterations /\ MaxIterations \in Nat /\ MaxProviderRetries \in Nat
    BY <1>2, RowFields, AgentAssumption
  <2>1. r.iteration + 1 \in 0..MaxIterations /\ 0 \in 0..MaxProviderRetries
    BY <1>5, <2>0
  <2>2. q \in LoopType
    BY <1>2, <2>1 DEF LoopType
  <2>3. /\ q.pc = "calling" /\ q.batch = r.batch /\ q.marks = r.marks /\ q.credit = r.credit
        /\ q.executed = r.executed /\ q.toolCalls = r.toolCalls /\ q.unverified = r.unverified
        /\ q.needsVerification = r.needsVerification /\ q.status = r.status
        /\ q.spent = r.spent /\ q.reservation = r.reservation
    BY <1>2 DEF LoopType
  <2>4. Step(l, q)
    BY <1>5
  <2> HIDE DEF q, r
  <2>5. EmptyRow(q)
    BY <1>2, <2>2, <2>3, MovedRow
  <2>6. RowOK(l, q)
    BY <2>2, <2>5, EmptyRowOK
  <2>7. unrecorded' = unrecorded + (q.spent - r.spent)
    BY <1>1, <1>2, <2>3 DEF TypeOK
  <2> QED BY <1>1, <2>2, <2>3, <2>4, <2>6, <2>7, QuietStep DEF r
<1> QED BY <1>3, <1>4, <1>5 DEF TopOfLoop

LEMMA ProviderStep ==
  ASSUME TurnInv, NEW l \in Level, NEW mayRetry, ProviderFails(l, mayRetry) PROVE TurnInv'
<1> DEFINE r == loop[l]
<1>1. Waits(l, "calling") /\ UNCHANGED <<ledgerVars, unrecorded>>
  BY DEF ProviderFails
<1>2. r \in LoopType /\ EmptyRow(r) /\ r.spent <= r.reservation /\ r.spent \in Nat /\ r.pc = "calling" /\ TypeOK
  BY <1>1, Here
<1>3. CASE Stop(l, "cancelled") /\ UNCHANGED turn
  BY <1>1, <1>3, StopInv
<1>4. CASE Threw(l)
  BY <1>1, <1>2, <1>4, ThrewInv DEF TypeOK
<1>5. CASE r.attempt < MaxProviderRetries /\ Step(l, Backoff(r)) /\ UNCHANGED turn
  <2> DEFINE q == [r EXCEPT !.pc = "backoff", !.attempt = @ + 1]
  <2>1. r.attempt + 1 \in 0..MaxProviderRetries
    BY <1>2, <1>5, RowFields, AgentAssumption
  <2>2. q \in LoopType
    BY <1>2, <2>1 DEF LoopType
  <2>3. /\ q.pc = "backoff" /\ q.batch = r.batch /\ q.marks = r.marks /\ q.credit = r.credit
        /\ q.executed = r.executed /\ q.toolCalls = r.toolCalls /\ q.unverified = r.unverified
        /\ q.needsVerification = r.needsVerification /\ q.status = r.status
        /\ q.spent = r.spent /\ q.reservation = r.reservation
    BY <1>2 DEF LoopType
  <2>4. Step(l, q)
    BY <1>5 DEF Backoff
  <2> HIDE DEF q, r
  <2>5. EmptyRow(q)
    BY <1>2, <2>2, <2>3, MovedRow
  <2>6. RowOK(l, q)
    BY <2>2, <2>5, EmptyRowOK
  <2>7. unrecorded' = unrecorded + (q.spent - r.spent)
    BY <1>1, <1>2, <2>3 DEF TypeOK
  <2> QED BY <1>1, <1>5, <2>2, <2>3, <2>4, <2>6, <2>7, QuietStep DEF r
<1> QED BY <1>3, <1>4, <1>5 DEF ProviderFails

LEMMA RetryStep ==
  ASSUME TurnInv, NEW l \in Level, RetryProvider(l) PROVE TurnInv'
<1> DEFINE r == loop[l]
<1>1. Waits(l, "backoff") /\ UNCHANGED <<ledgerVars, turn, unrecorded>>
  BY DEF RetryProvider
<1>2. r \in LoopType /\ EmptyRow(r) /\ r.spent <= r.reservation /\ r.spent \in Nat /\ r.pc = "backoff" /\ TypeOK
  BY <1>1, Here
<1>3. CASE Stop(l, "cancelled")
  BY <1>1, <1>3, StopInv
<1>4. CASE Step(l, [r EXCEPT !.pc = "calling"])
  <2> DEFINE q == [r EXCEPT !.pc = "calling"]
  <2>1. q \in LoopType
    BY <1>2 DEF LoopType
  <2>2. /\ q.pc = "calling" /\ q.batch = r.batch /\ q.marks = r.marks /\ q.credit = r.credit
        /\ q.executed = r.executed /\ q.toolCalls = r.toolCalls /\ q.unverified = r.unverified
        /\ q.needsVerification = r.needsVerification /\ q.status = r.status
        /\ q.spent = r.spent /\ q.reservation = r.reservation
    BY <1>2 DEF LoopType
  <2>3. Step(l, q)
    BY <1>4
  <2> HIDE DEF q, r
  <2>4. RowOK(l, q)
    BY <1>2, <2>1, <2>2, MovedRow, EmptyRowOK
  <2>5. unrecorded' = unrecorded + (q.spent - r.spent)
    BY <1>1, <1>2, <2>2 DEF TypeOK
  <2> QED BY <1>1, <2>1, <2>2, <2>3, <2>4, <2>5, QuietStep DEF r
<1> QED BY <1>3, <1>4 DEF RetryProvider
-----------------------------------------------------------------------------
(* A reply that was paid for. *)
LEMMA AnsweredInv ==
  ASSUME TurnInv, NEW l \in Level, NEW cost \in Costs, Answered(l, cost), NEW q \in LoopType, RowOK(l, q),
         Step(l, q), q.pc # "off", q.pc = "ended" => q.status \in Outcome, q.spent = Paid(l, cost).spent, q.reservation = Paid(l, cost).reservation
  PROVE  TurnInv'
<1>1. /\ Waits(l, "calling") /\ UNCHANGED <<ledgerVars, turn>> /\ unrecorded' = unrecorded + cost
      /\ loop[l].spent + cost <= loop[l].reservation /\ cost \in Nat
  BY AgentAssumption DEF Answered
<1>2. EmptyRow(loop[l]) /\ loop[l].pc = "calling" /\ TypeOK /\ loop[l].spent \in Nat
  BY <1>1, Here
<1>3. q.spent = loop[l].spent + cost /\ q.reservation = loop[l].reservation
  BY <1>1, <1>2, PaidRow
<1>4. unrecorded' = unrecorded + (q.spent - loop[l].spent)
  BY <1>1, <1>2, <1>3 DEF TypeOK
<1> QED BY <1>1, <1>3, <1>4, QuietStep

LEMMA AnsweredRow ==
  ASSUME TurnInv, NEW l \in Level, NEW cost \in Costs, Answered(l, cost), NEW r, r = Paid(l, cost)
  PROVE  /\ r \in LoopType /\ EmptyRow(r) /\ r.pc = "calling" /\ r.status = None /\ r.unverified = r.needsVerification
         /\ r.executed <= r.toolCalls /\ r.spent <= r.reservation
<1>1. Waits(l, "calling") /\ loop[l].spent + cost <= loop[l].reservation /\ cost \in Nat
  BY AgentAssumption DEF Answered
<1>2. EmptyRow(loop[l]) /\ loop[l].pc = "calling" /\ TypeOK
  BY <1>1, Here
<1> QED BY <1>1, <1>2, PaidRow DEF EmptyRow

LEMMA EndsOrTops ==
  ASSUME NEW l \in Level, NEW r \in LoopType, r.spent <= r.reservation, r.unverified = r.needsVerification,
         r.executed <= r.toolCalls, r.status = None, NEW q,
         \/ \E s \in Outcome : /\ q = Ended(r, s)
                               /\ s = "completed" => ~r.unverified
                               /\ s = "needs_verification" => r.unverified
         \/ q = Top(r)
         \/ \E t : Counting(r, t) /\ q = Top(t)
  PROVE  /\ q \in LoopType /\ RowOK(l, q) /\ q.pc \in {"ended", "top"} /\ q.spent = r.spent /\ q.reservation = r.reservation
         /\ q.pc = "ended" => q.status \in Outcome
<1>1. ASSUME NEW s \in Outcome, q = Ended(r, s), s = "completed" => ~r.unverified,
             s = "needs_verification" => r.unverified
      PROVE  /\ q \in LoopType /\ EmptyRow(q) /\ q.pc \in {"ended", "top"} /\ q.spent = r.spent /\ q.reservation = r.reservation
             /\ q.pc = "ended" => q.status \in Outcome
  BY <1>1, EndedRow
<1>2. ASSUME q = Top(r)
      PROVE  /\ q \in LoopType /\ EmptyRow(q) /\ q.pc \in {"ended", "top"} /\ q.spent = r.spent /\ q.reservation = r.reservation
             /\ q.pc = "ended" => q.status \in Outcome
  BY <1>2, TopRow
<1>3. ASSUME NEW t, Counting(r, t), q = Top(t)
      PROVE  /\ q \in LoopType /\ EmptyRow(q) /\ q.pc \in {"ended", "top"} /\ q.spent = r.spent /\ q.reservation = r.reservation
             /\ q.pc = "ended" => q.status \in Outcome
  <2>1. /\ t \in LoopType /\ t.executed = r.executed /\ t.toolCalls = r.toolCalls /\ t.unverified = r.unverified
        /\ t.needsVerification = r.needsVerification /\ t.status = r.status /\ t.spent = r.spent
        /\ t.reservation = r.reservation
    BY <1>3, CountedRow
  <2> QED BY <1>3, <2>1, TopRow
<1> QED BY <1>1, <1>2, <1>3, EmptyRowOK

(* Where a reply leads the loop.                                           *)
Leads(l, cost, q) ==
  /\ Step(l, q) /\ RowOK(l, q) /\ q.pc \in {"ended", "top", "approving"}
  /\ q.pc = "ended" => q.status \in Outcome
  /\ q.spent = Paid(l, cost).spent /\ q.reservation = Paid(l, cost).reservation

Replied(l, cost) == \E q \in LoopType : Leads(l, cost, q)

LEMMA AnswerRow ==
  ASSUME TurnInv, NEW l \in Level, NEW cost \in Costs,
         \/ Refuses(l, cost) \/ RunsOutOfOutput(l, cost) \/ Says(l, cost) \/ CallsUnusably(l, cost)
         \/ \E emitted \in Batches : CallsTools(l, cost, emitted)
  PROVE  Answered(l, cost) /\ Replied(l, cost)
<1> DEFINE r == Paid(l, cost)
<1>1. Answered(l, cost)
  BY DEF Refuses, RunsOutOfOutput, Says, CallsUnusably, CallsTools
<1>2. /\ r \in LoopType /\ EmptyRow(r) /\ r.pc = "calling" /\ r.status = None /\ r.unverified = r.needsVerification
      /\ r.executed <= r.toolCalls /\ r.spent <= r.reservation
  BY <1>1, AnsweredRow
<1>3. ASSUME NEW q, Step(l, q),
             \/ \E s \in Outcome : /\ q = Ended(r, s)
                                   /\ s = "completed" => ~r.unverified
                                   /\ s = "needs_verification" => r.unverified
             \/ \E t : Counting(r, t) /\ q = Top(t)
      PROVE  Replied(l, cost)
  <2> HIDE DEF r
  <2>1. /\ q \in LoopType /\ RowOK(l, q) /\ q.pc \in {"ended", "top"} /\ q.spent = r.spent /\ q.reservation = r.reservation
        /\ q.pc = "ended" => q.status \in Outcome
    BY <1>2, <1>3, EndsOrTops
  <2> QED BY <1>3, <2>1 DEF r, Leads, Replied
<1> HIDE DEF r
<1>9. ASSUME NEW t, Counting(r, t), Step(l, Top(t)) PROVE Replied(l, cost)
  <2>1. PICK q : q = Top(t)
    OBVIOUS
  <2> QED BY <1>3, <1>9, <2>1
<1>10. ASSUME NEW s \in Outcome, s = "completed" => ~r.unverified, s = "needs_verification" => r.unverified,
              Step(l, Ended(r, s))
       PROVE  Replied(l, cost)
  <2>1. PICK q : q = Ended(r, s)
    OBVIOUS
  <2> QED BY <1>3, <1>10, <2>1
<1>4. CASE Refuses(l, cost)
  BY <1>3, <1>4 DEF Refuses, Outcome, r
<1>5. CASE RunsOutOfOutput(l, cost)
  <2>1. CASE r.continuations >= MaxLengthContinuations
    BY <1>3, <1>5, <2>1 DEF RunsOutOfOutput, Outcome, r
  <2>2. CASE ~(r.continuations >= MaxLengthContinuations)
    <3> DEFINE t == [r EXCEPT !.continuations = @ + 1]
    <3>1. Step(l, Top(t))
      BY <1>5, <2>2 DEF RunsOutOfOutput, r
    <3>2. r.continuations < MaxLengthContinuations
      BY <1>2, <2>2, RowFields, AgentAssumption
    <3>3. Counting(r, t)
      BY <3>2 DEF Counting
    <3> HIDE DEF t
    <3> QED BY <1>1, <1>9, <3>1, <3>3
  <2> QED BY <2>1, <2>2
<1>6. CASE Says(l, cost)
  <2> DEFINE nudge == r.needsVerification /\ r.nudges < MaxVerificationNudges
             ask == r.strongest = EVIDENCE_RANK["check"] /\ ~r.askedForTests
  <2>1. Step(l, CASE nudge -> Top([r EXCEPT !.nudges = @ + 1])
               [] ~nudge /\ ask -> Top([r EXCEPT !.askedForTests = TRUE])
               [] OTHER -> Ended(r, IF r.needsVerification THEN "needs_verification" ELSE "completed"))
    BY <1>6 DEF Says, r
  <2>2. CASE nudge
    <3> DEFINE t == [r EXCEPT !.nudges = @ + 1]
    <3>1. Step(l, Top(t)) /\ Counting(r, t)
      BY <2>1, <2>2 DEF Counting
    <3> HIDE DEF t
    <3> QED BY <1>1, <1>9, <3>1
  <2>3. CASE ~nudge /\ ask
    <3> DEFINE t == [r EXCEPT !.askedForTests = TRUE]
    <3>1. Step(l, Top(t)) /\ Counting(r, t)
      BY <2>1, <2>3 DEF Counting
    <3> HIDE DEF t
    <3> QED BY <1>1, <1>9, <3>1
  <2>4. CASE ~nudge /\ ~ask
    <3> DEFINE s == IF r.needsVerification THEN "needs_verification" ELSE "completed"
    <3>1. Step(l, Ended(r, s))
      BY <2>1, <2>4
    <3>2. /\ s \in Outcome
          /\ s = "completed" => ~r.unverified
          /\ s = "needs_verification" => r.unverified
      BY <1>2 DEF Outcome
    <3> HIDE DEF s
    <3> QED BY <1>1, <1>10, <3>1, <3>2
  <2> QED BY <2>2, <2>3, <2>4
<1>7. CASE CallsUnusably(l, cost)
  <2>1. CASE r.recoveries >= MaxToolTurnRecoveries
    BY <1>3, <1>7, <2>1 DEF CallsUnusably, Recovered, Outcome, r
  <2>2. CASE ~(r.recoveries >= MaxToolTurnRecoveries)
    <3> DEFINE t == [r EXCEPT !.recoveries = @ + 1]
    <3>1. Step(l, Top(t))
      BY <1>7, <2>2 DEF CallsUnusably, Recovered, r
    <3>2. r.recoveries < MaxToolTurnRecoveries
      BY <1>2, <2>2, RowFields, AgentAssumption
    <3>3. Counting(r, t)
      BY <3>2 DEF Counting
    <3> HIDE DEF t
    <3> QED BY <1>1, <1>9, <3>1, <3>3
  <2> QED BY <2>1, <2>2
<1>8. ASSUME NEW emitted \in Batches, CallsTools(l, cost, emitted) PROVE Replied(l, cost)
  <2>1. Step(l, Requested(l, r, emitted))
    BY <1>8 DEF CallsTools, r
  <2>2. emitted \in Seq(Call) /\ Len(emitted) \in Nat
    <3>1. PICK n \in 1..MaxCallsPerTurn : emitted \in [1..n -> Call]
      BY <1>8 DEF Batches
    <3>2. n \in Nat
      BY AgentAssumption
    <3> QED BY <3>1, <3>2, SeqDef, LenProperties
  <2>3. CASE TooMany(r, emitted)
    BY <1>3, <2>1, <2>3 DEF Requested, Outcome
  <2>4. CASE ~TooMany(r, emitted) /\ \A i \in DOMAIN emitted : emitted[i] \in Offered(l)
    <3>1. Step(l, Batched(r, emitted))
      BY <2>1, <2>4 DEF Requested, Batched
    <3>2. r.executed + Len(emitted) <= r.toolCalls
      <4>1. r.executed \in Nat /\ r.toolCalls \in Nat
        BY <1>2, RowFields
      <4> QED BY <2>2, <2>4, <4>1 DEF TooMany
    <3>3. PICK q : q = Batched(r, emitted)
      OBVIOUS
    <3>4. q \in LoopType /\ RowOK(l, q) /\ q.pc = "approving" /\ q.spent = r.spent /\ q.reservation = r.reservation
      BY <1>2, <2>2, <2>4, <3>2, <3>3, RequestedRow
    <3> QED BY <3>1, <3>3, <3>4 DEF r, Leads, Replied
  <2>5. CASE ~TooMany(r, emitted) /\ ~(\A i \in DOMAIN emitted : emitted[i] \in Offered(l))
    <3>1. CASE r.unavailable >= MaxUnavailableToolRecoveries
      BY <1>3, <2>1, <2>5, <3>1 DEF Requested, Outcome
    <3>2. CASE ~(r.unavailable >= MaxUnavailableToolRecoveries)
      <4> DEFINE t == [r EXCEPT !.unavailable = @ + 1]
      <4>1. Step(l, Top(t))
        BY <2>1, <2>5, <3>2 DEF Requested
      <4>2. r.unavailable < MaxUnavailableToolRecoveries
        BY <1>2, <3>2, RowFields, AgentAssumption
      <4>3. Counting(r, t)
        BY <4>2 DEF Counting
      <4> HIDE DEF t
      <4> QED BY <1>1, <1>9, <4>1, <4>3
    <3> QED BY <3>1, <3>2
  <2> QED BY <2>3, <2>4, <2>5
<1> QED BY <1>1, <1>4, <1>5, <1>6, <1>7, <1>8

LEMMA AnswerStep ==
  ASSUME TurnInv, NEW l \in Level, NEW cost \in Costs, Answered(l, cost), Replied(l, cost)
  PROVE  TurnInv'
BY AnsweredInv DEF Leads, Replied
-----------------------------------------------------------------------------
(* The steps of a batch. *)
LEMMA UndecidedIn ==
  ASSUME NEW l \in Level, loop[l] \in LoopType, RowOK(l, loop[l]), Undecided(l) # {}
  PROVE  /\ Next1(Undecided(l)) \in Undecided(l) /\ Next1(Undecided(l)) \in 1..Len(loop[l].batch)
         /\ Next1(Undecided(l)) >= loop[l].at
         /\ \A k \in 1..Len(loop[l].batch) :
              k >= loop[l].at /\ k < Next1(Undecided(l)) => Unasked(loop[l].batch[k])
<1>1. Len(loop[l].batch) \in Nat /\ DOMAIN loop[l].batch = 1..Len(loop[l].batch) /\ loop[l].at \in Nat
  BY Positions, RowFields DEF RowOK, Shape
<1>2. Undecided(l) \in SUBSET (0..Len(loop[l].batch))
  BY <1>1 DEF Undecided
<1>3. Next1(Undecided(l)) \in Undecided(l) /\ \A j \in Undecided(l) : Next1(Undecided(l)) <= j
  BY <1>1, <1>2, FirstIn
<1>4. Next1(Undecided(l)) \in 1..Len(loop[l].batch) /\ Next1(Undecided(l)) >= loop[l].at
  BY <1>1, <1>3 DEF Undecided
<1>5. ASSUME NEW k \in 1..Len(loop[l].batch), k >= loop[l].at, k < Next1(Undecided(l))
      PROVE  Unasked(loop[l].batch[k])
  <2>1. k \notin Undecided(l)
    BY <1>1, <1>3, <1>4, <1>5
  <2> QED BY <1>1, <1>5, <2>1 DEF Undecided
<1> QED BY <1>3, <1>4, <1>5

LEMMA ApprovedStep ==
  ASSUME TurnInv, NEW l \in Level, Approved(l) PROVE TurnInv'
<1>1. PICK q : q = [loop[l] EXCEPT !.pc = "executing"]
  OBVIOUS
<1>2. Waits(l, "approving") /\ UNCHANGED <<ledgerVars, turn, unrecorded>> /\ Step(l, q)
  BY <1>1 DEF Approved
<1>3. loop[l] \in LoopType /\ RowOK(l, loop[l]) /\ loop[l].pc = "approving" /\ Grants /\ loop[l].spent \in Nat /\ TypeOK
  BY <1>2, Here
<1>4. \A i \in 1..Len(loop[l].batch) : i >= loop[l].at => Unasked(loop[l].batch[i])
  <2>1. DOMAIN loop[l].batch = 1..Len(loop[l].batch)
    BY <1>3, Positions DEF RowOK, Shape
  <2> QED BY <2>1 DEF Approved, Undecided
<1>5. q \in LoopType /\ RowOK(l, q) /\ q.pc = "executing" /\ q.spent = loop[l].spent /\ q.reservation = loop[l].reservation
  BY <1>1, <1>3, <1>4, ApprovedRow
<1>6. unrecorded' = unrecorded + (q.spent - loop[l].spent)
  BY <1>2, <1>3, <1>5 DEF TypeOK
<1> QED BY <1>2, <1>5, <1>6, QuietStep

LEMMA DeniedStep ==
  ASSUME TurnInv, NEW l \in Level, DeniedForGood(l) PROVE TurnInv'
<1>1. Waits(l, "approving") /\ UNCHANGED <<ledgerVars, turn, unrecorded>> /\ Stop(l, "blocked")
  BY DEF DeniedForGood
<1> QED BY <1>1, StopInv

LEMMA PromptsStep ==
  ASSUME TurnInv, NEW l \in Level, Prompts(l) PROVE TurnInv'
<1> DEFINE i == Next1(Undecided(l))
<1>1. Waits(l, "approving") /\ UNCHANGED <<ledgerVars, unrecorded>> /\ Undecided(l) # {}
  BY DEF Prompts
<1>2. /\ loop[l] \in LoopType /\ RowOK(l, loop[l]) /\ loop[l].pc = "approving" /\ Grants /\ loop[l].spent \in Nat
      /\ TypeOK /\ l = Current /\ turn.status \in Active
  BY <1>1, Here
<1>3. CASE Threw(l)
  BY <1>1, <1>2, <1>3, ThrewInv DEF TypeOK
<1>4. CASE /\ Step(l, [loop[l] EXCEPT !.pc = "prompting", !.at = i])
           /\ turn' = [turn EXCEPT !.status = "waiting_approval"]
  <2>1. PICK q : q = Prompted(loop[l], i)
    OBVIOUS
  <2>2. /\ i \in 1..Len(loop[l].batch) /\ i >= loop[l].at
        /\ \A k \in 1..Len(loop[l].batch) : k >= loop[l].at /\ k < i => Unasked(loop[l].batch[k])
    BY <1>1, <1>2, UndecidedIn
  <2> HIDE DEF i
  <2>3. /\ q \in LoopType /\ RowOK(l, q) /\ q.pc = "prompting" /\ q.spent = loop[l].spent
        /\ q.reservation = loop[l].reservation
    BY <1>2, <2>1, <2>2, PromptedRow
  <2>4. \A s \in LoopType : RowOK(l, s) => RowOK(l, s)'
    BY <1>1, RowStays DEF ledgerVars
  <2>5. RowOK(l, q)'
    BY <2>3, <2>4
  <2>6. q.status # "threw"
    BY <2>3, AgentAssumption DEF RowOK, Shape
  <2>7. TurnGoesOn(l, q)
    BY <1>1, <1>2, <1>4, <2>3, <2>6 DEF TurnGoesOn, TypeOK, TurnStatus, Active
  <2>8. /\ mode' = mode /\ cancelled' = cancelled /\ saved' = saved /\ always' = always /\ standing' = standing
        /\ standing' \in [Call -> {"allow", "deny", None}] /\ always' \subseteq Call /\ Grants'
    BY <1>1, <1>2 DEF ledgerVars, TypeOK, Grants
  <2>9. Step(l, q)
    BY <1>4, <2>1 DEF Prompted
  <2> QED BY <1>2, <2>3, <2>5, <2>7, <2>8, <2>9, StepInv
<1> QED BY <1>3, <1>4 DEF Prompts

LEMMA AllowsStep ==
  ASSUME TurnInv, NEW l \in Level, NEW forGood \in BOOLEAN, Allows(l, forGood) PROVE TurnInv'
<1>1. PICK c : c = Asked(l)
  OBVIOUS
<1>2. PICK q : q = Granting(loop[l], c, forGood)
  OBVIOUS
<1>3. /\ Waits(l, "prompting") /\ UNCHANGED <<mode, cancelled, saved, unrecorded>>
      /\ turn' = [turn EXCEPT !.status = "running"]
      /\ standing' = IF forGood THEN [standing EXCEPT ![c] = "allow"] ELSE standing
      /\ always' = IF forGood THEN always \cup {c} ELSE always
      /\ Step(l, q)
  BY <1>1, <1>2 DEF Allows, Granting
<1>4. /\ loop[l] \in LoopType /\ RowOK(l, loop[l]) /\ loop[l].pc = "prompting" /\ Grants /\ loop[l].spent \in Nat
      /\ TypeOK /\ l = Current /\ turn.status \in Active
  BY <1>3, Here
<1>5. /\ q \in LoopType /\ RowOK(l, q)' /\ q.pc = "approving" /\ q.spent = loop[l].spent
      /\ q.reservation = loop[l].reservation /\ c \in Call
  <2>1. c = loop[l].batch[loop[l].at]
    BY <1>1 DEF Asked
  <2>2. PICK r : r = loop[l]
    OBVIOUS
  <2> QED BY <1>2, <1>3, <1>4, <2>1, <2>2, AllowsRow
<1>6. q.status # "threw"
  <2>1. q.status = loop[l].status
    BY <1>2, <1>4 DEF LoopType, Granting
  <2> QED BY <1>4, <2>1, AgentAssumption DEF RowOK, Shape
<1>7. TurnGoesOn(l, q)
  BY <1>3, <1>4, <1>5, <1>6 DEF TurnGoesOn, TypeOK, TurnStatus, Active
<1>8. /\ standing' \in [Call -> {"allow", "deny", None}] /\ always' \subseteq Call /\ always \subseteq always'
  BY <1>3, <1>4, <1>5 DEF TypeOK
<1>9. Grants'
  <2>1. \A d \in Call : standing'[d] = "allow" => standing[d] = "allow" \/ d \in always'
    BY <1>3, <1>4, <1>5 DEF TypeOK
  <2> QED BY <1>3, <1>4, <1>8, <2>1 DEF Grants
<1> QED BY <1>3, <1>4, <1>5, <1>7, <1>8, <1>9, StepInv

LEMMA DeniesStep ==
  ASSUME TurnInv, NEW l \in Level, NEW forGood \in BOOLEAN, Denies(l, forGood) PROVE TurnInv'
<1>1. PICK q : q = Ended(loop[l], "blocked")
  OBVIOUS
<1>2. /\ Waits(l, "prompting") /\ UNCHANGED <<mode, turn, cancelled, saved, always, unrecorded>>
      /\ standing' = IF forGood THEN [standing EXCEPT ![Asked(l)] = "deny"] ELSE standing
      /\ Step(l, q)
  BY <1>1 DEF Denies, Stop
<1>3. /\ loop[l] \in LoopType /\ RowOK(l, loop[l]) /\ loop[l].pc = "prompting" /\ Grants /\ loop[l].spent \in Nat
      /\ TypeOK /\ l = Current /\ turn.status \in Active /\ loop[l].spent <= loop[l].reservation
  BY <1>2, Here
<1>4. /\ q \in LoopType /\ EmptyRow(q) /\ q.pc = "ended" /\ q.reservation = loop[l].reservation
      /\ q.spent = loop[l].spent /\ q.status = "blocked"
  <2>1. "blocked" # "completed" /\ "blocked" # "needs_verification" /\ "blocked" \in Outcome \cup {"threw"}
    BY DEF Outcome
  <2>2. \A r \in LoopType : r.spent <= r.reservation =>
          /\ Ended(r, "blocked") \in LoopType /\ EmptyRow(Ended(r, "blocked")) /\ Ended(r, "blocked").pc = "ended"
          /\ Ended(r, "blocked").reservation = r.reservation /\ Ended(r, "blocked").spent = r.spent
          /\ Ended(r, "blocked").status = "blocked"
    BY <2>1, EndedRow
  <2> QED BY <1>1, <1>3, <2>2
<1>5. \A s \in LoopType : RowOK(l, s) => RowOK(l, s)'
  BY <1>2, RowStays
<1>6. RowOK(l, q)'
  BY <1>4, <1>5, EmptyRowOK
<1>7. TurnGoesOn(l, q)
  BY <1>2, <1>3, <1>4 DEF TurnGoesOn, TypeOK
<1>8. standing' \in [Call -> {"allow", "deny", None}] /\ always' \subseteq Call /\ always \subseteq always'
  BY <1>2, <1>3 DEF TypeOK
<1>9. Grants'
  <2>1. \A d \in Call : standing'[d] = "allow" => standing[d] = "allow"
    BY <1>2, <1>3 DEF TypeOK
  <2> QED BY <1>2, <1>3, <2>1 DEF Grants
<1> QED BY <1>2, <1>3, <1>4, <1>6, <1>7, <1>8, <1>9, StepInv

LEMMA StartsStep ==
  ASSUME TurnInv, NEW l \in Level, NEW i \in Nat \ {0},
         \/ StartsCancelled(l, i) \/ Announces(l, i) \/ HookBlocks(l, i) \/ StartsCall(l, i)
  PROVE  TurnInv'
<1>1. /\ Waits(l, "executing") /\ i \in DOMAIN loop[l].batch /\ UNCHANGED <<ledgerVars, turn, unrecorded>>
      /\ StartsCancelled(l, i) \/ Announces(l, i) => MayStart(l, i)
      /\ HookBlocks(l, i) \/ StartsCall(l, i) => loop[l].marks[i] = "announced"
  BY DEF StartsCancelled, Announces, HookBlocks, StartsCall, Announced
<1>2. loop[l] \in LoopType /\ RowOK(l, loop[l]) /\ loop[l].pc = "executing" /\ loop[l].spent \in Nat /\ TypeOK
  BY <1>1, Here
<1>3. /\ i \in 1..Len(loop[l].batch) /\ Unfinished(loop[l], i)
      /\ StartsCancelled(l, i) \/ Announces(l, i) => loop[l].marks[i] = "waiting"
      /\ loop[l].marks[i] = "waiting"
           => \A j \in 1..(i - 1) : Done(loop[l].marks[j]) \/ Together(loop[l].batch, j, i)
  BY <1>1, <1>2, Positions DEF RowOK, Shape, MayStart, Unfinished
<1>4. ASSUME NEW q \in LoopType, RowOK(l, q), q.pc = "executing", q.spent = loop[l].spent,
             q.reservation = loop[l].reservation, Step(l, q)
      PROVE  TurnInv'
  <2>1. unrecorded' = unrecorded + (q.spent - loop[l].spent)
    BY <1>1, <1>2, <1>4 DEF TypeOK
  <2> QED BY <1>1, <1>4, <2>1, QuietStep
<1>5. ASSUME NEW m \in {"announced", "error"}, Step(l, Marked(loop[l], i, m)),
             m = "announced" => loop[l].marks[i] = "waiting"
      PROVE  TurnInv'
  <2>1. PICK q : q = Marked(loop[l], i, m)
    OBVIOUS
  <2>2. q \in LoopType /\ RowOK(l, q) /\ q.pc = "executing" /\ q.spent = loop[l].spent /\ q.reservation = loop[l].reservation
    BY <1>2, <1>3, <1>5, <2>1, MarkedRow
  <2> QED BY <1>4, <1>5, <2>1, <2>2
<1>6. CASE StartsCall(l, i)
  <2>1. PICK c : c = loop[l].batch[i]
    OBVIOUS
  <2>2. PICK q : q = Started(loop[l], i, c)
    OBVIOUS
  <2>3. q \in LoopType /\ RowOK(l, q) /\ q.pc = "executing" /\ q.spent = loop[l].spent /\ q.reservation = loop[l].reservation
    BY <1>1, <1>2, <1>3, <1>6, <2>1, <2>2, StartedRow
  <2>4. Step(l, q)
    BY <1>6, <2>1, <2>2 DEF StartsCall, Started
  <2> QED BY <1>4, <2>3, <2>4
<1>7. StartsCancelled(l, i) \/ HookBlocks(l, i) => Step(l, Marked(loop[l], i, "error"))
  BY DEF StartsCancelled, HookBlocks
<1>8. Announces(l, i) => Step(l, Marked(loop[l], i, "announced"))
  BY DEF Announces
<1> QED BY <1>3, <1>5, <1>6, <1>7, <1>8

LEMMA FinishesStep ==
  ASSUME TurnInv, NEW l \in Level, NEW i, NEW m, FinishesCall(l, i, m) PROVE TurnInv'
<1>1. /\ Waits(l, "executing") /\ i \in DOMAIN loop[l].batch /\ loop[l].marks[i] = "running"
      /\ m \in Results(loop[l].batch[i]) /\ UNCHANGED <<ledgerVars, turn, unrecorded>>
  BY DEF FinishesCall
<1>2. loop[l] \in LoopType /\ RowOK(l, loop[l]) /\ loop[l].pc = "executing" /\ loop[l].spent \in Nat /\ TypeOK
  BY <1>1, Here
<1>3. i \in 1..Len(loop[l].batch)
  BY <1>1, <1>2, Positions DEF RowOK, Shape
<1>4. PICK q : q = Finished(loop[l], i, m)
  OBVIOUS
<1>5. Step(l, q)
  BY <1>4 DEF FinishesCall, Finished
<1>6. q \in LoopType /\ RowOK(l, q) /\ q.pc = "executing" /\ q.spent = loop[l].spent /\ q.reservation = loop[l].reservation
  BY <1>1, <1>2, <1>3, <1>4, FinishedRow
<1>7. unrecorded' = unrecorded + (q.spent - loop[l].spent)
  BY <1>1, <1>2, <1>6 DEF TypeOK
<1> QED BY <1>1, <1>5, <1>6, <1>7, QuietStep

LEMMA AbsorbsStep ==
  ASSUME TurnInv, NEW l \in Level, NEW full, Absorbs(l, full) PROVE TurnInv'
<1>1. PICK r : r = Absorbed(loop[l])
  OBVIOUS
<1>2. PICK q : q = IF full THEN Ended(r, "iteration_limit") ELSE Top(r)
  OBVIOUS
<1>3. Waits(l, "executing") /\ UNCHANGED <<ledgerVars, turn, unrecorded>> /\ Step(l, q)
  BY <1>1, <1>2 DEF Absorbs
<1>4. loop[l] \in LoopType /\ RowOK(l, loop[l]) /\ loop[l].pc = "executing" /\ loop[l].spent \in Nat /\ TypeOK
  BY <1>3, Here
<1>5. /\ r \in LoopType /\ r.executed <= r.toolCalls /\ r.spent = loop[l].spent /\ r.reservation = loop[l].reservation
      /\ r.unverified = r.needsVerification /\ r.status = None /\ r.spent <= r.reservation
  BY <1>1, <1>4, AbsorbedRow
<1>6. /\ q \in LoopType /\ RowOK(l, q) /\ q.pc \in {"ended", "top"} /\ q.spent = r.spent /\ q.reservation = r.reservation
      /\ q.pc = "ended" => q.status \in Outcome
  <2>1. "iteration_limit" \in Outcome /\ "iteration_limit" # "completed" /\ "iteration_limit" # "needs_verification"
    BY DEF Outcome
  <2>2. \/ \E s \in Outcome : /\ q = Ended(r, s)
                              /\ s = "completed" => ~r.unverified
                              /\ s = "needs_verification" => r.unverified
        \/ q = Top(r)
    BY <1>2, <2>1
  <2> QED BY <1>5, <2>2, EndsOrTops
<1>7. unrecorded' = unrecorded + (q.spent - loop[l].spent)
  BY <1>3, <1>4, <1>5, <1>6 DEF TypeOK
<1> QED BY <1>3, <1>5, <1>6, <1>7, QuietStep
-----------------------------------------------------------------------------
(* The steps of the agent. *)
(* Both runtimes off, as between turns.                                    *)
OffRows == \A l \in Level : RowOK(l, Off)
LEMMA OffOK == OffRows
BY OffRow, EmptyRowOK DEF OffRows

LEMMA OffRowOK == ASSUME NEW l \in Level PROVE RowOK(l, Off)'
<1>1. OffRows'
  BY OffOK, PTL
<1> QED BY <1>1 DEF OffRows

LEMMA RowsStay ==
  ASSUME NEW l \in Level, NEW r \in LoopType, RowOK(l, r), mode' = mode, always' = always
  PROVE  RowOK(l, r)'
BY RowStays

(* Between turns both loops are off. *)
LEMMA BothOff ==
  ASSUME TurnInv, loop["main"].pc = "off" \/ Idle
  PROVE  /\ loop["main"] = Off /\ loop["delegate"] = Off
         /\ \A l \in Level : loop[l] = Off
<1>1. loop["main"].pc = "off" /\ loop["delegate"].pc = "off"
  BY DEF TurnInv, Nested
<1>2. \A l \in Level : Shape(loop[l]) /\ loop[l].pc = "off"
  BY <1>1 DEF TurnInv, RowOK, Level
<1> QED BY <1>2 DEF Shape, Level

LEMMA ResumeStep ==
  ASSUME TurnInv, NEW m \in Modes, Resume(m) PROVE TurnInv'
<1>1. /\ TypeOK /\ Grants /\ Money /\ Idle /\ mode' = m /\ standing' = saved
      /\ UNCHANGED <<turn, loop, cancelled, saved, always, unrecorded>>
  BY DEF Resume, TurnInv
<1>2. \A l \in Level : loop[l] = Off
  BY <1>1, BothOff
<1>3. \A l \in Level : RowOK(l, loop[l])'
  <2> SUFFICES ASSUME NEW l \in Level PROVE RowOK(l, loop[l])'
    OBVIOUS
  <2>1. loop'[l] = Off
    BY <1>1, <1>2
  <2>2. RowOK(l, Off)'
    BY OffRowOK
  <2> QED BY <2>1, <2>2
<1>4. TypeOK'
  BY <1>1, AgentAssumption DEF TypeOK
<1>5. Nested' /\ Money'
  BY <1>1 DEF TurnInv, Nested, Money, Idle
<1>6. Grants'
  BY <1>1 DEF Grants
<1> QED BY <1>3, <1>4, <1>5, <1>6 DEF TurnInv

LEMMA SendStep ==
  ASSUME TurnInv, NEW most \in Ceilings, Send(most) PROVE TurnInv'
<1>1. /\ TypeOK /\ Grants /\ Idle /\ turn.number < MaxTurns /\ unrecorded' = 0 /\ cancelled' = FALSE
      /\ turn' = [number |-> turn.number + 1, status |-> "running", ceiling |-> most,
                  compaction |-> 0, delegated |-> 0, threw |-> FALSE]
      /\ UNCHANGED <<mode, loop, standing, saved, always>>
  BY DEF Send, TurnInv
<1>2. \A l \in Level : loop[l] = Off
  BY <1>1, BothOff
<1>3. \A l \in Level : RowOK(l, loop[l])'
  <2> SUFFICES ASSUME NEW l \in Level PROVE RowOK(l, loop[l])'
    OBVIOUS
  <2>1. loop'[l] = Off
    BY <1>1, <1>2
  <2>2. RowOK(l, Off)'
    BY OffRowOK
  <2> QED BY <2>1, <2>2
<1>4. TypeOK'
  <2>1. turn.number + 1 \in 0..MaxTurns /\ most \in Nat
    BY <1>1, AgentAssumption DEF TypeOK
  <2>2. "running" \in TurnStatus \cup {None}
    BY DEF TurnStatus
  <2>3. turn' \in [number : 0..MaxTurns, status : TurnStatus \cup {None}, ceiling : Nat, compaction : Nat,
                   delegated : Nat, threw : BOOLEAN]
    BY <1>1, <2>1, <2>2
  <2>5. unrecorded' = 0 /\ cancelled' = FALSE /\ UNCHANGED <<mode, loop, standing, saved, always>>
    BY DEF Send
  <2>6. unrecorded' \in Int
    BY <2>5
  <2>7. cancelled' \in BOOLEAN
    BY <2>5, Zenon
  <2>4. /\ TypeOK /\ unrecorded' \in Int /\ cancelled' \in BOOLEAN
        /\ mode' = mode /\ loop' = loop /\ standing' = standing /\ saved' = saved /\ always' = always
    BY <2>5, <2>6, <2>7 DEF TurnInv
  <2> QED BY <2>3, <2>4 DEF TypeOK
<1>5. ~Idle' /\ Nested'
  BY <1>1, <1>2, OffRow DEF Nested, Idle, Active, Level
<1>6. Money'
  <2>1. most \in Nat /\ "main" \in Level /\ "delegate" \in Level
    BY AgentAssumption DEF Level
  <2>2. loop'["main"] = Off /\ loop'["delegate"] = Off /\ \A l \in Level : loop'[l] = Off
    BY <1>1, <1>2, <2>1
  <2>3. Off.reservation = 0 /\ Off.spent = 0 /\ Off.status # "threw"
    BY OffRow, AgentAssumption DEF EmptyRow
  <2> QED BY <1>1, <1>5, <2>1, <2>2, <2>3 DEF Money
<1>7. Grants'
  BY <1>1 DEF Grants
<1> QED BY <1>3, <1>4, <1>5, <1>6, <1>7 DEF TurnInv

LEMMA CancelStep ==
  ASSUME TurnInv, Cancel PROVE TurnInv'
<1>1. /\ TypeOK /\ Nested /\ Money /\ Grants /\ cancelled' = TRUE
      /\ UNCHANGED <<mode, turn, loop, standing, saved, always, unrecorded>>
  BY DEF Cancel, TurnInv
<1>2. \A l \in Level : \A r \in LoopType : RowOK(l, r) => RowOK(l, r)'
  BY <1>1, RowsStay
<1>3. \A l \in Level : loop'[l] = loop[l] /\ loop[l] \in LoopType /\ RowOK(l, loop[l])
  BY <1>1 DEF TurnInv, TypeOK
<1>4. \A l \in Level : RowOK(l, loop[l])'
  <2> SUFFICES ASSUME NEW l \in Level PROVE RowOK(l, loop[l])'
    OBVIOUS
  <2>1. PICK r : r = loop[l]
    OBVIOUS
  <2>2. r \in LoopType /\ RowOK(l, r) /\ loop'[l] = r
    BY <1>3, <2>1
  <2>3. RowOK(l, r)'
    BY <1>2, <2>2
  <2> QED BY <2>2, <2>3
<1> QED BY <1>1, <1>4 DEF TurnInv, TypeOK, Nested, Delegation, Money, Grants, Idle

LEMMA PreparesStep ==
  ASSUME TurnInv, Prepares PROVE TurnInv'
<1>1. TypeOK /\ Grants /\ Money /\ unrecorded \in Int
  BY DEF TurnInv, TypeOK
<1>2. CASE CompactionFails
  BY <1>1, <1>2, FailInv DEF CompactionFails
<1>3. ASSUME NEW cost \in Costs, CompactionOverruns(cost) PROVE TurnInv'
  <2>1. unrecorded + cost \in Int
    BY <1>1, AgentAssumption
  <2> QED BY <1>3, <2>1, FailInv DEF CompactionOverruns
<1>4. ASSUME NEW cost \in Costs, Execute(cost) PROVE TurnInv'
  <2>1. PICK q : q = Fresh(MaxIterations, MaxToolCalls, turn.ceiling - cost)
    OBVIOUS
  <2>2. /\ Preparing /\ cost <= turn.ceiling /\ turn' = [turn EXCEPT !.compaction = cost]
        /\ Step("main", q) /\ unrecorded' = unrecorded + cost /\ UNCHANGED ledgerVars
    BY <1>4, <2>1 DEF Execute
  <2>3. cost \in Nat /\ turn.ceiling \in Nat /\ turn.ceiling - cost \in Nat
    BY <1>1, <2>2, AgentAssumption DEF TypeOK
  <2>4. /\ q \in LoopType /\ EmptyRow(q) /\ q.pc = "top" /\ q.spent = 0 /\ q.reservation = turn.ceiling - cost
    <3>1. MaxIterations \in 0..MaxIterations /\ MaxToolCalls \in 0..MaxToolCalls
      BY AgentAssumption
    <3> QED BY <2>1, <2>3, <3>1, FreshRow
  <2>5. loop["main"] = Off /\ loop["delegate"] = Off
    BY <2>2, BothOff DEF Preparing
  <2>6. loop'["main"] = q /\ loop'["delegate"] = Off /\ loop' \in [Level -> LoopType]
    BY <1>1, <2>2, <2>4, <2>5 DEF Step, TypeOK, Level
  <2>7. q.status = None
    BY <2>4 DEF EmptyRow
  <2>8. \A l \in Level : RowOK(l, loop[l])'
    <3>1. RowOK("main", q)
      BY <2>4, EmptyRowOK DEF Level
    <3>2. "main" \in Level /\ "delegate" \in Level /\ mode' = mode /\ always' = always
      BY <2>2 DEF Level, ledgerVars
    <3>3. \A l \in Level : \A r \in LoopType : RowOK(l, r) => RowOK(l, r)'
      BY <3>2, RowsStay
    <3>4. RowOK("main", q)'
      BY <2>4, <3>1, <3>2, <3>3
    <3>5. RowOK("delegate", Off)'
      BY <3>2, OffRowOK
    <3> QED BY <2>6, <3>4, <3>5 DEF Level
  <2>9. /\ turn' \in [number : 0..MaxTurns, status : TurnStatus \cup {None}, ceiling : Nat, compaction : Nat,
                      delegated : Nat, threw : BOOLEAN]
        /\ turn'.status = "running" /\ turn'.ceiling = turn.ceiling /\ turn'.compaction = cost
        /\ turn'.delegated = turn.delegated /\ turn'.threw = turn.threw
    BY <1>1, <2>2, <2>3 DEF TypeOK, Preparing
  <2>10. TypeOK'
    BY <1>1, <2>2, <2>3, <2>6, <2>9 DEF TypeOK, ledgerVars
  <2>11. ~Idle /\ ~Idle'
    BY <2>2, <2>9 DEF Idle, Active, Preparing
  <2>12. Nested'
    BY <2>4, <2>6, <2>11, OffRow DEF Nested
  <2>13. turn.compaction = 0 /\ turn.delegated = 0 /\ (~turn.threw => unrecorded = 0)
    <3>1. /\ turn.compaction = 0 /\ turn.delegated = 0
          /\ (~turn.threw => unrecorded = turn.compaction + loop["main"].spent + turn.delegated + loop["delegate"].spent)
      BY <1>1, <2>5, <2>11, OffRow DEF Money
    <3>2. loop["main"].spent = 0 /\ loop["delegate"].spent = 0
      BY <2>5, OffRow
    <3> QED BY <3>1, <3>2
  <2>14. Money'
    <3>1. Off.reservation = 0 /\ Off.spent = 0 /\ Off.status # "threw" /\ q.status # "threw"
      BY <2>7, OffRow, AgentAssumption DEF EmptyRow
    <3>2. turn'.compaction + turn'.delegated + loop'["delegate"].reservation <= turn'.ceiling
      BY <2>2, <2>3, <2>6, <2>9, <2>13, <3>1
    <3>3. ~turn'.threw => unrecorded' = turn'.compaction + loop'["main"].spent + turn'.delegated + loop'["delegate"].spent
      BY <1>1, <2>2, <2>3, <2>4, <2>6, <2>9, <2>13, <3>1
    <3>4. \A l \in Level : loop'[l].status # "threw"
      BY <2>6, <3>1 DEF Level
    <3> QED BY <2>4, <2>6, <2>11, <3>2, <3>3, <3>4 DEF Money
  <2>15. Grants'
    BY <1>1, <2>2 DEF Grants, ledgerVars
  <2> QED BY <2>8, <2>10, <2>12, <2>14, <2>15 DEF TurnInv
<1> QED BY <1>2, <1>3, <1>4 DEF Prepares

LEMMA ReturnsStep ==
  ASSUME TurnInv, Returns PROVE TurnInv'
<1>1. /\ TypeOK /\ Grants /\ Money /\ Nested /\ loop["main"].pc = "ended" /\ unrecorded' = unrecorded - TurnRwf
      /\ loop' = [l \in Level |-> Off] /\ UNCHANGED <<mode, cancelled, standing, always>>
  BY DEF Returns, TurnInv
<1>2. ~Idle /\ loop["delegate"].pc = "off"
  BY <1>1 DEF Nested
<1>3. loop["delegate"] = Off
  BY <1>2 DEF TurnInv, RowOK, Shape, Level
<1>4. loop["main"].status \in Outcome \cup {"threw", None} /\ loop["main"].spent \in Nat
  BY <1>1, RowFields DEF TypeOK, Level
<1>5. /\ turn' \in [number : 0..MaxTurns, status : TurnStatus \cup {None}, ceiling : Nat, compaction : Nat,
                    delegated : Nat, threw : BOOLEAN]
      /\ turn'.status \in Outcome /\ (turn'.threw = turn.threw \/ turn'.threw)
      /\ saved' \in {saved, standing}
  <2>1. CASE Legal(turn.status, loop["main"].status)
    <3>1. loop["main"].status \in Outcome
      BY <1>4, <2>1, AgentAssumption DEF Legal, TRANSITIONS, Active, TurnStatus, Outcome
    <3>2. turn' = [turn EXCEPT !.status = loop["main"].status] /\ saved' = standing
      BY <2>1 DEF Returns
    <3> QED BY <1>1, <3>1, <3>2 DEF TypeOK, TurnStatus
  <2>2. CASE ~Legal(turn.status, loop["main"].status)
    <3>1. turn' = [turn EXCEPT !.status = "failed", !.threw = TRUE] /\ saved' = saved
      BY <2>2 DEF Returns
    <3> QED BY <1>1, <3>1 DEF TypeOK, TurnStatus, Outcome
  <2> QED BY <2>1, <2>2
<1>6. Idle'
  BY <1>5 DEF Idle, Active, Outcome
<1>7. /\ turn.compaction \in Nat /\ turn.delegated \in Nat /\ unrecorded \in Int
      /\ (~turn.threw => unrecorded = turn.compaction + loop["main"].spent + turn.delegated + loop["delegate"].spent)
  BY <1>1, <1>2 DEF TypeOK, Money
<1>8. TurnRwf \in Int /\ (~turn.threw => unrecorded = TurnRwf)
  BY <1>3, <1>4, <1>7, OffRow DEF TurnRwf
<1>9. \A l \in Level : loop'[l] = Off
  BY <1>1
<1>10. \A l \in Level : RowOK(l, loop[l])'
  <2> SUFFICES ASSUME NEW l \in Level PROVE RowOK(l, loop[l])'
    OBVIOUS
  <2>1. RowOK(l, Off)'
    BY OffRowOK
  <2> QED BY <1>9, <2>1
<1>11. TypeOK'
  <2>1. unrecorded' \in Int
    BY <1>1, <1>7, <1>8
  <2>2. loop' \in [Level -> LoopType]
    BY <1>1, OffRow
  <2>3. saved' \in [Call -> {"allow", "deny", None}]
    BY <1>1, <1>5 DEF TypeOK
  <2> QED BY <1>1, <1>5, <2>1, <2>2, <2>3 DEF TypeOK
<1>12. Nested'
  BY <1>9, OffRow DEF Nested, Level
<1>13. Money'
  <2>1. ~turn'.threw => unrecorded' = 0
    BY <1>1, <1>5, <1>7, <1>8
  <2>2. \A l \in Level : loop'[l].status # "threw"
    BY <1>9, OffRow, AgentAssumption DEF EmptyRow
  <2> QED BY <1>6, <2>1, <2>2 DEF Money
<1>14. Grants'
  BY <1>1, <1>5 DEF Grants
<1> QED BY <1>10, <1>11, <1>12, <1>13, <1>14 DEF TurnInv

LEMMA DelegatesStep ==
  ASSUME TurnInv, NEW i, Delegates(i) PROVE TurnInv'
<1>1. /\ Waits("main", "executing") /\ i \in DOMAIN loop["main"].batch /\ loop["main"].marks[i] = "announced"
      /\ Kind[loop["main"].batch[i]] = "delegate"
      /\ UNCHANGED <<ledgerVars, unrecorded>> /\ "main" \in Level /\ "delegate" \in Level
  BY DEF Delegates, Announced, Level
<1>2. /\ loop["main"] \in LoopType /\ RowOK("main", loop["main"]) /\ loop["main"].pc = "executing"
      /\ loop["main"].spent \in Nat /\ TypeOK /\ "main" = Current /\ turn.status \in Active /\ Grants
  BY <1>1, Here
<1>3. /\ i \in 1..Len(loop["main"].batch) /\ Unfinished(loop["main"], i) /\ loop["main"].marks[i] # "waiting"
  BY <1>1, <1>2, Positions DEF RowOK, Shape, Unfinished
<1>4. loop["delegate"].pc = "off" /\ loop["delegate"] = Off
  BY <1>1, <1>2 DEF Current, TurnInv, RowOK, Shape
<1>5. CASE Fractional
  <2>1. PICK q : q = Marked(loop["main"], i, "error")
    OBVIOUS
  <2>2. /\ q \in LoopType /\ RowOK("main", q) /\ q.pc = "executing" /\ q.spent = loop["main"].spent
        /\ q.reservation = loop["main"].reservation
    BY <1>1, <1>2, <1>3, <2>1, MarkedRow
  <2>3. Step("main", q) /\ turn' = [turn EXCEPT !.threw = TRUE]
    BY <1>5, <2>1 DEF Delegates
  <2>4. \A l \in Level : \A s \in LoopType : RowOK(l, s) => RowOK(l, s)'
    BY <1>1, RowsStay DEF ledgerVars
  <2>5. RowOK("main", q)'
    BY <1>1, <2>2, <2>4
  <2>6. TurnGoesOn("main", q)
    BY <1>1, <1>2, <2>3 DEF TurnGoesOn, TypeOK
  <2>7. /\ mode' = mode /\ cancelled' = cancelled /\ saved' = saved /\ always' = always /\ standing' = standing
        /\ standing' \in [Call -> {"allow", "deny", None}] /\ always' \subseteq Call /\ Grants'
    BY <1>1, <1>2 DEF ledgerVars, TypeOK, Grants
  <2> QED BY <1>1, <1>2, <2>2, <2>3, <2>5, <2>6, <2>7, StepInv
<1>6. CASE ~Fractional
  <2>1. PICK q : q = Marked(loop["main"], i, "running")
    OBVIOUS
  <2>2. PICK d : d = Fresh(Least(DelegateIterations, MaxIterations), Least(DelegateToolCalls, MaxToolCalls), Reservation)
    OBVIOUS
  <2>3. /\ q \in LoopType /\ RowOK("main", q) /\ q.pc = "executing" /\ q.spent = loop["main"].spent
        /\ q.reservation = loop["main"].reservation
    BY <1>1, <1>2, <1>3, <2>1, MarkedRow
  <2>4. loop' = [main |-> q, delegate |-> d] /\ turn' = turn
    BY <1>6, <2>1, <2>2 DEF Delegates
  <2>5. /\ turn.ceiling \in Nat /\ turn.compaction \in Nat /\ turn.delegated \in Nat
        /\ turn.compaction + turn.delegated <= turn.ceiling
    <3>1. turn.ceiling \in Nat /\ turn.compaction \in Nat /\ turn.delegated \in Nat
      BY <1>2 DEF TypeOK
    <3>2. turn.compaction + turn.delegated + loop["delegate"].reservation <= turn.ceiling
      BY <1>2 DEF TurnInv, Money, Idle
    <3> QED BY <1>4, <3>1, <3>2, OffRow
  <2>6. Reservation \in Nat /\ turn.compaction + turn.delegated + Reservation <= turn.ceiling
    <3>1. RemainingRwf = turn.ceiling - turn.compaction - turn.delegated
      BY <2>5 DEF RemainingRwf
    <3>2. turn.ceiling \div 2 \in Nat
      BY <2>5
    <3> QED BY <2>5, <3>1, <3>2 DEF Reservation, Least
  <2>7. d \in LoopType /\ EmptyRow(d) /\ d.pc = "top" /\ d.spent = 0 /\ d.reservation = Reservation
    <3>1. Least(DelegateIterations, MaxIterations) \in 0..MaxIterations
      BY AgentAssumption DEF Least
    <3>2. Least(DelegateToolCalls, MaxToolCalls) \in 0..MaxToolCalls
      BY AgentAssumption DEF Least
    <3> QED BY <2>2, <2>6, <3>1, <3>2, FreshRow
  <2>8. loop'["main"] = q /\ loop'["delegate"] = d /\ loop' \in [Level -> LoopType]
    BY <2>3, <2>4, <2>7 DEF Level
  <2>9. \A l \in Level : RowOK(l, loop[l])'
    <3>1. RowOK("delegate", d)
      BY <1>1, <2>7, EmptyRowOK
    <3>2. \A l \in Level : \A r \in LoopType : RowOK(l, r) => RowOK(l, r)'
      BY <1>1, RowsStay DEF ledgerVars
    <3>3. RowOK("main", q)' /\ RowOK("delegate", d)'
      BY <1>1, <2>3, <2>7, <3>1, <3>2
    <3> QED BY <2>8, <3>3 DEF Level
  <2>10. TypeOK'
    BY <1>1, <1>2, <2>4, <2>8 DEF TypeOK, ledgerVars
  <2>11. ~Idle /\ ~Idle'
    BY <1>2, <2>4 DEF Idle
  <2>12. Nested'
    <3>1. Marking(loop["main"], i, "running", q)
      BY <1>1, <1>2, <1>3, <2>1, MarkedFields DEF RowOK, Shape, Mark
    <3>2. q.batch = loop["main"].batch /\ q.marks[i] = "running"
      BY <1>2, <1>3, <3>1, MarkedMarks DEF RowOK, Shape, Mark
    <3>3. Delegation(i)' /\ i \in DOMAIN loop'["main"].batch
      BY <1>1, <2>8, <3>2 DEF Delegation
    <3> QED BY <2>3, <2>8, <2>11, <3>3 DEF Nested
  <2>13. Money'
    <3>1. ~turn.threw => unrecorded = turn.compaction + loop["main"].spent + turn.delegated + loop["delegate"].spent
      BY <2>11 DEF TurnInv, Money
    <3>2. loop["delegate"].spent = 0
      BY <1>4, OffRow
    <3>3. \A l \in Level : loop'[l].status # "threw"
      BY <2>3, <2>7, <2>8, AgentAssumption DEF RowOK, Shape, EmptyRow, Level
    <3>4. unrecorded' = unrecorded
      BY <1>1
    <3> QED BY <2>3, <2>4, <2>6, <2>7, <2>8, <2>11, <3>1, <3>2, <3>3, <3>4 DEF Money
  <2>14. Grants'
    BY <1>1, <1>2 DEF Grants, ledgerVars
  <2> QED BY <2>9, <2>10, <2>12, <2>13, <2>14 DEF TurnInv
<1> QED BY <1>5, <1>6

LEMMA DelegateReturnsStep ==
  ASSUME TurnInv, NEW i, DelegateReturns(i) PROVE TurnInv'
<1> DEFINE threw == loop["delegate"].status = "threw"
<1>1. /\ loop["delegate"].pc = "ended" /\ Delegation(i) /\ UNCHANGED <<ledgerVars, unrecorded>>
      /\ "main" \in Level /\ "delegate" \in Level
  BY DEF DelegateReturns, Level
<1>2. /\ loop["main"].pc = "executing" /\ ~Idle /\ TypeOK /\ Grants /\ Money
      /\ loop["main"] \in LoopType /\ RowOK("main", loop["main"])
      /\ loop["delegate"] \in LoopType /\ RowOK("delegate", loop["delegate"])
  BY <1>1 DEF TurnInv, Nested, TypeOK
<1>3. /\ i \in 1..Len(loop["main"].batch) /\ loop["main"].marks[i] = "running"
      /\ Effect(loop["main"].batch[i]) = "none"
  BY <1>1, <1>2, Positions DEF RowOK, Shape, Delegation, Effect
<1>4. PICK m \in {"ok", "error"} : m = IF threw THEN "error" ELSE "ok"
  OBVIOUS
<1>5. PICK q : q = Marked(loop["main"], i, m)
  OBVIOUS
<1>6. /\ q \in LoopType /\ RowOK("main", q) /\ q.pc = "executing" /\ q.spent = loop["main"].spent
      /\ q.reservation = loop["main"].reservation
  <2>1. /\ m \in {"running", "ok", "error"} /\ Unfinished(loop["main"], i) /\ loop["main"].marks[i] # "waiting"
        /\ (m = "ok" => Effect(loop["main"].batch[i]) # "workspace")
    BY <1>3 DEF Unfinished
  <2> QED BY <1>1, <1>2, <1>3, <1>5, <2>1, MarkedRow
<1>7. /\ loop' = [main |-> q, delegate |-> Off]
      /\ turn' = IF threw THEN turn ELSE [turn EXCEPT !.delegated = @ + loop["delegate"].spent]
  BY <1>4, <1>5 DEF DelegateReturns
<1>8. loop'["main"] = q /\ loop'["delegate"] = Off /\ loop' \in [Level -> LoopType]
  BY <1>6, <1>7, OffRow DEF Level
<1>9. \A l \in Level : RowOK(l, loop[l])'
  <2>1. \A l \in Level : \A r \in LoopType : RowOK(l, r) => RowOK(l, r)'
    BY <1>1, RowsStay DEF ledgerVars
  <2>2. RowOK("main", q)' /\ RowOK("delegate", Off)'
    BY <1>1, <1>6, <2>1, OffRowOK
  <2> QED BY <1>8, <2>2 DEF Level
<1>10. /\ turn.ceiling \in Nat /\ turn.compaction \in Nat /\ turn.delegated \in Nat
       /\ loop["delegate"].spent \in Nat /\ loop["delegate"].reservation \in Nat
       /\ loop["delegate"].spent <= loop["delegate"].reservation /\ loop["main"].spent \in Nat
       /\ turn.compaction + turn.delegated + loop["delegate"].reservation <= turn.ceiling
       /\ (~turn.threw => unrecorded = turn.compaction + loop["main"].spent + turn.delegated + loop["delegate"].spent)
       /\ (threw => turn.threw)
  BY <1>1, <1>2, RowFields DEF TypeOK, Money, RowOK, Shape
<1>11. /\ turn' \in [number : 0..MaxTurns, status : TurnStatus \cup {None}, ceiling : Nat, compaction : Nat,
                     delegated : Nat, threw : BOOLEAN]
       /\ turn'.status = turn.status /\ turn'.ceiling = turn.ceiling /\ turn'.compaction = turn.compaction
       /\ turn'.delegated = (IF threw THEN turn.delegated ELSE turn.delegated + loop["delegate"].spent)
       /\ turn'.threw = turn.threw
  BY <1>2, <1>7, <1>10 DEF TypeOK
<1>12. TypeOK'
  BY <1>1, <1>2, <1>8, <1>11 DEF TypeOK, ledgerVars
<1>13. ~Idle'
  BY <1>2, <1>11 DEF Idle
<1>14. Nested'
  BY <1>6, <1>8, <1>13, OffRow DEF Nested
<1>15. Money'
  <2>1. Off.reservation = 0 /\ Off.spent = 0 /\ Off.status # "threw"
    BY OffRow, AgentAssumption DEF EmptyRow
  <2>2. q.status # "threw"
    BY <1>6, AgentAssumption DEF RowOK, Shape
  <2>3. turn'.compaction + turn'.delegated + loop'["delegate"].reservation <= turn'.ceiling
    <3>1. turn'.delegated \in Nat /\ turn'.delegated <= turn.delegated + loop["delegate"].spent
      BY <1>10, <1>11
    <3>2. loop'["delegate"].reservation = 0
      BY <1>8, <2>1
    <3> QED BY <1>10, <1>11, <3>1, <3>2
  <2>4. ~turn'.threw => unrecorded' = turn'.compaction + loop'["main"].spent + turn'.delegated + loop'["delegate"].spent
    <3> SUFFICES ASSUME ~turn.threw
        PROVE  unrecorded' = turn'.compaction + loop'["main"].spent + turn'.delegated + loop'["delegate"].spent
      BY <1>11
    <3>1. turn'.delegated = turn.delegated + loop["delegate"].spent
      BY <1>10, <1>11
    <3>2. loop'["main"].spent = loop["main"].spent /\ loop'["delegate"].spent = 0 /\ unrecorded' = unrecorded
      BY <1>1, <1>6, <1>8, <2>1
    <3> QED BY <1>10, <1>11, <3>1, <3>2
  <2>5. \A l \in Level : loop'[l].status # "threw"
    BY <1>8, <2>1, <2>2 DEF Level
  <2> QED BY <1>6, <1>8, <1>13, <2>3, <2>4, <2>5 DEF Money
<1>16. Grants'
  BY <1>1, <1>2 DEF Grants, ledgerVars
<1> QED BY <1>9, <1>12, <1>14, <1>15, <1>16 DEF TurnInv

LEMMA OverrunsStep ==
  ASSUME TurnInv, NEW l \in Level, NEW cost \in Costs, Overruns(l, cost) PROVE TurnInv'
<1>1. Waits(l, "calling") /\ unrecorded' = unrecorded + cost /\ Threw(l) /\ UNCHANGED ledgerVars /\ cost \in Nat
  BY AgentAssumption DEF Overruns
<1>2. unrecorded' \in Int
  BY <1>1 DEF TurnInv, TypeOK
<1> QED BY <1>1, <1>2, ThrewInv
-----------------------------------------------------------------------------
(* A process starts with both levels off, no turn and no money spent.      *)
LEMMA TurnInitially == Init => TurnInv
<1> SUFFICES ASSUME Init PROVE TurnInv
  OBVIOUS
<1>1. loop["main"] = Off /\ loop["delegate"] = Off /\ \A l \in Level : loop[l] = Off
  BY DEF Init, Level
<1>2. None # "threw" /\ None \notin Active
  BY AgentAssumption DEF TurnStatus, Active
<1>3. TypeOK
  <2>1. turn \in [number : 0..MaxTurns, status : TurnStatus \cup {None}, ceiling : Nat, compaction : Nat,
                  delegated : Nat, threw : BOOLEAN]
    BY AgentAssumption DEF Init
  <2>2. loop \in [Level -> LoopType]
    BY OffRow DEF Init
  <2>3. standing \in [Call -> {"allow", "deny", None}] /\ saved \in [Call -> {"allow", "deny", None}]
    BY DEF Init
  <2>4. mode \in Mode /\ cancelled \in BOOLEAN
    BY AgentAssumption DEF Init
  <2>5. always \subseteq Call /\ unrecorded \in Int
    BY DEF Init
  <2> QED BY <2>1, <2>2, <2>3, <2>4, <2>5 DEF TypeOK
<1>4. \A l \in Level : RowOK(l, loop[l])
  BY <1>1, OffOK DEF OffRows
<1>5. Idle /\ Nested
  BY <1>1, <1>2, OffRow DEF Init, Nested, Idle
<1>6. Money
  BY <1>1, <1>2, <1>5, OffRow DEF Init, Money, EmptyRow
<1>7. Grants
  BY AgentAssumption DEF Init, Grants
<1> QED BY <1>3, <1>4, <1>5, <1>6, <1>7 DEF TurnInv

LEMMA TurnStutter == ASSUME TurnInv, UNCHANGED vars PROVE TurnInv'
BY DEF vars, TurnInv, TypeOK, Nested, Delegation, Money, Grants, Idle, RowOK, Shape, InOrder, Verified, Credited, Granted,
  Consented, Offered

(* TurnInv is inductive: one lemma per handler.                            *)
LEMMA TurnNext == TurnInv /\ [Next]_vars => TurnInv'
<1> SUFFICES ASSUME TurnInv, [Next]_vars PROVE TurnInv'
  OBVIOUS
<1>1. CASE User
  BY <1>1, ResumeStep, SendStep, CancelStep DEF User
<1>2. CASE Prepares
  BY <1>2, PreparesStep
<1>3. CASE Returns
  BY <1>3, ReturnsStep
<1>4. CASE Delegating
  BY <1>4, DelegatesStep, DelegateReturnsStep DEF Delegating
<1>5. ASSUME NEW l \in Level, Model(l) PROVE TurnInv'
  <2>1. ASSUME NEW cost \in Costs,
               \/ Refuses(l, cost) \/ RunsOutOfOutput(l, cost) \/ Says(l, cost) \/ CallsUnusably(l, cost)
               \/ \E emitted \in Batches : CallsTools(l, cost, emitted)
        PROVE  TurnInv'
    BY <2>1, AnswerRow, AnswerStep
  <2> QED BY <1>5, <2>1, TopStep, RetryStep, ProviderStep, OverrunsStep DEF Model
<1>6. ASSUME NEW l \in Level, Tools(l) PROVE TurnInv'
  <2>1. \A i \in 1..MaxCallsPerTurn : i \in Nat \ {0}
    BY AgentAssumption
  <2> QED BY <1>6, <2>1, ApprovedStep, DeniedStep, PromptsStep, StartsStep, FinishesStep, AbsorbsStep DEF Tools
<1>7. ASSUME NEW l \in Level, Answers(l) PROVE TurnInv'
  BY <1>7, AllowsStep, DeniesStep DEF Answers
<1>8. CASE UNCHANGED vars
  BY <1>8, TurnStutter
<1> QED BY <1>1, <1>2, <1>3, <1>4, <1>5, <1>6, <1>7, <1>8 DEF Next, Works

(* The inductive invariant of a turn: what every step of NovaAgent, of the *)
(* runtimes and of the permission ledger keeps.                            *)
THEOREM TurnInvariant == Spec => []TurnInv
BY TurnInitially, TurnNext, PTL DEF Spec

(* The state of a turn is well formed and its bill adds up: whatever the   *)
(* models reply, the delegates keep to what the ceiling leaves, and all    *)
(* the money of a turn that did not throw is in the session's total.       *)
THEOREM TurnBooksTheorem == Spec => []TurnBooks
<1>1. TurnInv => TurnBooks
  <2> SUFFICES ASSUME TurnInv PROVE TurnBooks
    OBVIOUS
  <2>1. TypeOK /\ Money /\ \A l \in Level : loop[l] \in LoopType /\ Shape(loop[l])
    BY DEF TurnInv, TypeOK, RowOK
  <2>2. BillReconciles
    BY <2>1 DEF BillReconciles, Money
  <2>3. ~Idle => turn.compaction + turn.delegated + loop["delegate"].spent <= turn.ceiling
    <3>1. /\ loop["delegate"].spent \in Nat /\ loop["delegate"].reservation \in Nat
          /\ loop["delegate"].spent <= loop["delegate"].reservation
      BY <2>1, RowFields DEF Shape, Level
    <3>2. turn.compaction \in Nat /\ turn.delegated \in Nat /\ turn.ceiling \in Nat
      BY <2>1 DEF TypeOK
    <3>3. ~Idle => turn.compaction + turn.delegated + loop["delegate"].reservation <= turn.ceiling
      BY <2>1 DEF Money
    <3> QED BY <3>1, <3>2, <3>3
  <2> QED BY <2>1, <2>2, <2>3 DEF TurnBooks, DelegatesWithinTheCeiling, Shape
<1> QED BY <1>1, TurnInvariant, PTL

(* A call that is not parallel-safe is in hand alone at its level.         *)
LEMMA AloneInHand ==
  ASSUME NEW r \in LoopType, Len(r.marks) = Len(r.batch), InOrder(r),
         NEW i \in DOMAIN r.batch, r.marks[i] \in InHand, ~Concurrent(r.batch[i]), NEW j \in DOMAIN r.batch \ {i}
  PROVE  IF j < i THEN Done(r.marks[j]) ELSE r.marks[j] = "waiting"
<1>1. i \in 1..Len(r.batch) /\ j \in 1..Len(r.batch) /\ Len(r.batch) \in Nat
  BY Positions
<1>2. CASE j < i
  <2>1. Done(r.marks[j]) \/ Together(r.batch, j, i)
    BY <1>1, <1>2 DEF InOrder, InHand
  <2>2. i \in j..i
    BY <1>1, <1>2
  <2> QED BY <1>2, <2>1, <2>2 DEF Together
<1>3. CASE ~(j < i)
  <2> SUFFICES ASSUME r.marks[j] # "waiting" PROVE FALSE
    BY <1>3
  <2>1. i \in 1..(j - 1) /\ i \in i..j
    BY <1>1, <1>3
  <2>2. Done(r.marks[i]) \/ Together(r.batch, i, j)
    BY <1>1, <2>1 DEF InOrder
  <2> QED BY <2>1, <2>2 DEF Together, Done
<1> QED BY <1>2, <1>3

(* Calls with an effect run alone and in their place, each covered by a    *)
(* consent that was given for it, and never in plan mode.                  *)
THEOREM EffectsTheorem == Spec => []EffectsAsConsented
<1>1. TurnInv => EffectsAsConsented
  <2> SUFFICES ASSUME TurnInv PROVE EffectsAsConsented
    OBVIOUS
  <2>1. \A l \in Level : /\ loop[l] \in LoopType /\ InOrder(loop[l]) /\ Credited(loop[l]) /\ Granted(l, loop[l])
                         /\ Len(loop[l].marks) = Len(loop[l].batch)
    BY DEF TurnInv, TypeOK, RowOK, Shape
  <2>2. EffectsInEmittedOrder
    <3> SUFFICES ASSUME NEW l \in Level, NEW i \in DOMAIN loop[l].batch, loop[l].marks[i] \in InHand,
                        Effect(loop[l].batch[i]) # "none", NEW j \in DOMAIN loop[l].batch \ {i}
        PROVE  IF j < i THEN Done(loop[l].marks[j]) ELSE loop[l].marks[j] = "waiting"
      BY DEF EffectsInEmittedOrder
    <3>1. ~Concurrent(loop[l].batch[i])
      BY DEF Concurrent
    <3> QED BY <2>1, <3>1, AloneInHand
  <2>3. \A l \in Level : \A c \in Call : loop[l].credit[c] >= 0
    BY <2>1 DEF Credited
  <2>4. ASSUME mode = "plan", NEW l \in Level, NEW i \in DOMAIN loop[l].batch
        PROVE  Effect(loop[l].batch[i]) = "none"
    BY <2>1, <2>4, Positions DEF Granted, Offered
  <2> QED BY <2>2, <2>3, <2>4 DEF EffectsAsConsented, EveryEffectWasConsented
<1> QED BY <1>1, TurnInvariant, PTL

(* "completed" means verified, "needs_verification" means it is not, in    *)
(* the main runtime and in every delegate.                                 *)
THEOREM VerifiedTheorem == Spec => []CompletedMeansVerified
<1>1. TurnInv => CompletedMeansVerified
  BY DEF TurnInv, RowOK, Verified, CompletedMeansVerified
<1> QED BY <1>1, TurnInvariant, PTL
-----------------------------------------------------------------------------
(* Nothing begins when a record r becomes q.                               *)
Quiet(r, q) ==
  /\ q.pc = "calling" => r.pc = "calling"
  /\ \A i \in DOMAIN q.marks : q.marks[i] \in InHand => i \in DOMAIN r.marks /\ r.marks[i] = q.marks[i]

LEMMA QuietRow ==
  ASSUME NEW r, NEW q \in LoopType, Shape(q), q.pc \notin {"calling", "executing"}
  PROVE  Quiet(r, q)
<1>1. DOMAIN q.marks = 1..Len(q.marks)
  BY Positions DEF Shape
<1>2. q.pc \in {"approving", "prompting"} \/ q.batch = <<>>
  BY RowFields DEF Shape
<1>3. CASE q.pc \in {"approving", "prompting"}
  BY <1>1, <1>3 DEF Shape, Quiet, InHand
<1>4. CASE q.batch = <<>>
  <2>1. Len(q.marks) = 0
    BY <1>4 DEF Shape
  <2> QED BY <1>1, <2>1 DEF Quiet
<1> QED BY <1>2, <1>3, <1>4

LEMMA EndedPc == ASSUME NEW r, NEW s PROVE Ended(r, s).pc = "ended"
BY OffRow DEF Ended, LoopType

LEMMA QuietStop ==
  ASSUME TurnInv, TurnInv', NEW l \in Level, NEW q, Step(l, q), q.pc \notin {"calling", "executing"}
  PROVE  \A k \in Level : Quiet(loop[k], loop'[k])
<1>1. loop \in [Level -> LoopType] /\ loop' \in [Level -> LoopType]
  BY DEF TurnInv, TypeOK
<1>2. \A k \in Level : Shape(loop'[k])
  BY DEF TurnInv, RowOK, Shape
<1>3. loop'[l] = q /\ \A k \in Level \ {l} : loop'[k] = loop[k]
  BY <1>1 DEF Step
<1>4. Quiet(loop[l], loop'[l])
  BY <1>1, <1>2, <1>3, QuietRow
<1>5. \A k \in Level \ {l} : Quiet(loop[k], loop'[k])
  BY <1>3 DEF Quiet
<1> QED BY <1>4, <1>5

LEMMA QuietFail ==
  ASSUME loop' = [l \in Level |-> Off]
  PROVE  \A k \in Level : Quiet(loop[k], loop'[k])
<1>1. Shape(Off) /\ Off \in LoopType /\ Off.pc = "off" /\ \A k \in Level : loop'[k] = Off
  BY OffRow, EmptyRowOK DEF RowOK, Level
<1> QED BY <1>1, QuietRow

LEMMA QuietThrew ==
  ASSUME TurnInv, TurnInv', NEW l \in Level, Threw(l)
  PROVE  \A k \in Level : Quiet(loop[k], loop'[k])
<1>1. CASE l = "main"
  BY <1>1, QuietFail DEF Threw, FailTurn
<1>2. CASE l # "main"
  BY <1>2, QuietStop, EndedPc DEF Threw
<1> QED BY <1>1, <1>2

LEMMA QuietMark ==
  ASSUME NEW r \in LoopType, r.pc = "executing", Len(r.marks) = Len(r.batch), NEW i \in 1..Len(r.batch),
         NEW m \in Mark \ InHand, NEW q, q.pc # "calling", q.marks = Marked(r, i, m).marks
  PROVE  Quiet(r, q)
<1>1. PICK p : p = Marked(r, i, m)
  OBVIOUS
<1>2. p \in LoopType /\ Marking(r, i, m, p)
  BY <1>1, MarkedFields
<1>3. /\ p.batch = r.batch /\ Len(p.marks) = Len(p.batch)
      /\ \A k \in 1..Len(r.batch) : p.marks[k] = IF k = i THEN m ELSE r.marks[k]
  BY <1>2, MarkedMarks
<1>4. DOMAIN p.marks = 1..Len(r.batch) /\ DOMAIN r.marks = 1..Len(r.batch)
  BY <1>2, <1>3, Positions
<1> QED BY <1>1, <1>3, <1>4 DEF Quiet

LEMMA QuietModel ==
  ASSUME TurnInv, TurnInv', cancelled, NEW l \in Level, Model(l)
  PROVE  \A k \in Level : Quiet(loop[k], loop'[k])
<1>1. ASSUME NEW s, Stop(l, s) PROVE \A k \in Level : Quiet(loop[k], loop'[k])
  BY <1>1, QuietStop, EndedPc DEF Stop
<1>2. CASE TopOfLoop(l)
  BY <1>1, <1>2 DEF TopOfLoop
<1>3. CASE RetryProvider(l)
  BY <1>1, <1>3 DEF RetryProvider
<1>4. ASSUME NEW mayRetry, ProviderFails(l, mayRetry) PROVE \A k \in Level : Quiet(loop[k], loop'[k])
  BY <1>1, <1>4 DEF ProviderFails
<1>5. ASSUME NEW cost, Overruns(l, cost) PROVE \A k \in Level : Quiet(loop[k], loop'[k])
  BY <1>5, QuietThrew DEF Overruns
<1>6. ASSUME NEW cost \in Costs,
             \/ Refuses(l, cost) \/ RunsOutOfOutput(l, cost) \/ Says(l, cost) \/ CallsUnusably(l, cost)
             \/ \E emitted \in Batches : CallsTools(l, cost, emitted)
      PROVE  \A k \in Level : Quiet(loop[k], loop'[k])
  <2>1. PICK q \in LoopType : Leads(l, cost, q)
    BY <1>6, AnswerRow DEF Replied
  <2> QED BY <2>1, QuietStop DEF Leads
<1> QED BY <1>2, <1>3, <1>4, <1>5, <1>6 DEF Model

LEMMA QuietTools ==
  ASSUME TurnInv, TurnInv', cancelled, NEW l \in Level, Tools(l),
         \A i \in 1..MaxCallsPerTurn : ~StartsCall(l, i)
  PROVE  \A k \in Level : Quiet(loop[k], loop'[k])
<1>1. ASSUME NEW s, Stop(l, s) PROVE \A k \in Level : Quiet(loop[k], loop'[k])
  BY <1>1, QuietStop, EndedPc DEF Stop
<1>2. loop \in [Level -> LoopType] /\ RowOK(l, loop[l]) /\ Len(loop[l].marks) = Len(loop[l].batch)
  BY DEF TurnInv, TypeOK, RowOK, Shape
<1>3. ASSUME NEW q, Step(l, q), Quiet(loop[l], q) PROVE \A k \in Level : Quiet(loop[k], loop'[k])
  BY <1>2, <1>3 DEF Step, Quiet
<1>4. CASE Approved(l)
  <2>1. PICK q : q = [loop[l] EXCEPT !.pc = "executing"]
    OBVIOUS
  <2>2. q.pc = "executing" /\ q.marks = loop[l].marks
    BY <1>2, <2>1 DEF LoopType
  <2>3. Step(l, q)
    BY <1>4, <2>1 DEF Approved
  <2> QED BY <1>3, <2>2, <2>3 DEF Quiet
<1>5. CASE DeniedForGood(l)
  BY <1>1, <1>5 DEF DeniedForGood
<1>6. CASE Prompts(l)
  <2>1. PICK q : q = [loop[l] EXCEPT !.pc = "prompting", !.at = Next1(Undecided(l))]
    OBVIOUS
  <2>2. q.pc = "prompting"
    BY <1>2, <2>1 DEF LoopType
  <2>3. Step(l, q) \/ Threw(l)
    BY <1>6, <2>1 DEF Prompts
  <2> QED BY <2>2, <2>3, QuietStop, QuietThrew
<1>7. ASSUME NEW i, StartsCancelled(l, i) \/ HookBlocks(l, i) \/ \E m : FinishesCall(l, i, m)
      PROVE  \A k \in Level : Quiet(loop[k], loop'[k])
  <2>1. loop[l].pc = "executing" /\ i \in 1..Len(loop[l].batch) /\ loop[l] \in LoopType
    BY <1>2, <1>7, Positions DEF StartsCancelled, HookBlocks, Announced, FinishesCall, Waits
  <2>2. CASE StartsCancelled(l, i) \/ HookBlocks(l, i)
    <3>1. PICK q : q = Marked(loop[l], i, "error")
      OBVIOUS
    <3>2. "error" \in Mark \ InHand
      BY DEF Mark, InHand
    <3>3. q.pc # "calling" /\ Step(l, q)
      BY <1>2, <2>1, <2>2, <3>1, <3>2, MarkedFields DEF Marking, StartsCancelled, HookBlocks
    <3> QED BY <1>2, <1>3, <2>1, <3>1, <3>2, <3>3, QuietMark
  <2>3. ASSUME NEW m, FinishesCall(l, i, m) PROVE \A k \in Level : Quiet(loop[k], loop'[k])
    <3>1. PICK p : p = Marked(loop[l], i, m)
      OBVIOUS
    <3>2. PICK q : q = Finished(loop[l], i, m)
      OBVIOUS
    <3>3. m \in Mark \ InHand
      BY <2>3 DEF FinishesCall, Results, Mark, Evidence, InHand
    <3>4. p \in LoopType /\ p.pc = "executing"
      <4>1. loop[l] \in LoopType /\ loop[l].pc = "executing" /\ m \in Mark
        BY <1>2, <2>1, <3>3
      <4>2. p \in LoopType /\ Marking(loop[l], i, m, p)
        BY <1>2, <2>1, <3>1, <4>1, MarkedFields
      <4> QED BY <4>2 DEF Marking
    <3>5. Step(l, q)
      BY <2>3, <3>2 DEF FinishesCall, Finished
    <3>6. q.pc = p.pc /\ q.marks = p.marks
      BY <3>1, <3>2, <3>4 DEF Finished, LoopType
    <3> QED BY <1>2, <1>3, <2>1, <3>1, <3>3, <3>4, <3>5, <3>6, QuietMark
  <2> QED BY <1>7, <2>2, <2>3
<1>8. ASSUME NEW full, Absorbs(l, full) PROVE \A k \in Level : Quiet(loop[k], loop'[k])
  <2>1. PICK r : r = Absorbed(loop[l])
    OBVIOUS
  <2>2. PICK q : q = IF full THEN Ended(r, "iteration_limit") ELSE Top(r)
    OBVIOUS
  <2>3. Step(l, q) /\ loop[l].pc = "executing"
    BY <1>8, <2>1, <2>2 DEF Absorbs, Waits
  <2>4. /\ r \in LoopType /\ r.executed <= r.toolCalls /\ r.unverified = r.needsVerification
        /\ r.status = None /\ r.spent <= r.reservation
    BY <1>2, <2>1, <2>3, AbsorbedRow
  <2>5. q.pc \in {"ended", "top"}
    BY <2>2, <2>4, EndedPc, TopRow
  <2> QED BY <2>3, <2>5, QuietStop
<1>9. ASSUME NEW i, Announces(l, i) PROVE FALSE
  BY <1>9 DEF Announces
<1> QED BY <1>4, <1>5, <1>6, <1>7, <1>8, <1>9 DEF Tools

(* Once the turn is cancelled, no action begins a call to the model or     *)
(* takes a tool call in hand at either level, but for the start of one     *)
(* that was announced.                                                     *)
Starting == \E i \in 1..MaxCallsPerTurn : Delegates(i) \/ \E l \in Level : StartsCall(l, i)

LEMMA QuietNext ==
  ASSUME TurnInv, TurnInv', Next, cancelled, cancelled', ~Starting
  PROVE  \A k \in Level : Quiet(loop[k], loop'[k])
<1>1. CASE loop' = loop
  BY <1>1 DEF Quiet
<1>2. CASE User
  <2>1. loop' = loop
    BY <1>2 DEF User, Resume, Send, Cancel
  <2> QED BY <1>1, <2>1
<1>3. CASE Prepares
  <2>1. ASSUME NEW cost, Execute(cost) PROVE \A k \in Level : Quiet(loop[k], loop'[k])
    <3>1. Fresh(MaxIterations, MaxToolCalls, turn.ceiling - cost).pc = "top"
      BY DEF Fresh
    <3> QED BY <2>1, <3>1, QuietStop DEF Execute, Level
  <2> QED BY <1>3, <2>1, QuietFail DEF Prepares, CompactionFails, CompactionOverruns, FailTurn
<1>4. CASE Returns
  BY <1>4, QuietFail DEF Returns
<1>5. CASE Delegating
  <2>1. PICK i : DelegateReturns(i)
    BY <1>5 DEF Delegating, Starting
  <2>2. PICK m \in {"ok", "error"} : m = IF loop["delegate"].status = "threw" THEN "error" ELSE "ok"
    OBVIOUS
  <2>3. /\ "main" \in Level /\ loop["main"] \in LoopType /\ Len(loop["main"].marks) = Len(loop["main"].batch)
        /\ loop["main"].pc = "executing" /\ i \in DOMAIN loop["main"].batch
    BY <2>1 DEF TurnInv, TypeOK, RowOK, Shape, Nested, DelegateReturns, Delegation, Level
  <2>4. PICK q : q = Marked(loop["main"], i, m)
    OBVIOUS
  <2>5. loop'["main"] = q /\ loop'["delegate"] = Off
    BY <2>1, <2>2, <2>4 DEF DelegateReturns
  <2>6. m \in Mark \ InHand /\ i \in 1..Len(loop["main"].batch)
    BY <2>3, Positions DEF Mark, InHand
  <2>7. q.pc # "calling"
    BY <2>3, <2>4, <2>6, MarkedFields DEF Marking
  <2>8. Quiet(loop["main"], q)
    BY <2>3, <2>4, <2>6, <2>7, QuietMark
  <2>9. Quiet(loop["delegate"], Off)
    BY OffRow, EmptyRowOK, QuietRow DEF RowOK, Level
  <2> QED BY <2>5, <2>8, <2>9 DEF Level
<1>6. ASSUME NEW l \in Level, Answers(l) PROVE \A k \in Level : Quiet(loop[k], loop'[k])
  <2>1. ASSUME NEW forGood, Allows(l, forGood) PROVE \A k \in Level : Quiet(loop[k], loop'[k])
    <3>1. PICK q : q = Granting(loop[l], Asked(l), forGood)
      OBVIOUS
    <3>2. loop[l] \in LoopType
      BY DEF TurnInv, TypeOK
    <3>3. q.pc = "approving"
      BY <3>1, <3>2 DEF Granting, LoopType
    <3>4. Step(l, q)
      BY <2>1, <3>1 DEF Allows, Granting
    <3> QED BY <3>3, <3>4, QuietStop
  <2>2. ASSUME NEW forGood, Denies(l, forGood) PROVE \A k \in Level : Quiet(loop[k], loop'[k])
    BY <2>2, QuietStop, EndedPc DEF Denies, Stop
  <2> QED BY <1>6, <2>1, <2>2 DEF Answers
<1> QED BY <1>2, <1>3, <1>4, <1>5, <1>6, QuietModel, QuietTools DEF Next, Works, Starting

(* What NothingNewAfterCancel says of a level.                             *)
NothingNew(l) ==
  /\ loop'[l].pc = "calling" => loop[l].pc = "calling"
  /\ \A i \in DOMAIN loop'[l].marks :
       loop'[l].marks[i] \in InHand =>
         /\ i \in DOMAIN loop[l].marks /\ loop[l].marks[i] \in {"announced", loop'[l].marks[i]}
         /\ (loop'[l].marks[i] # loop[l].marks[i] /\ Effect(loop[l].batch[i]) # "none") => NoneAnnounced'

(* A tool that is called was announced; a call with an effect is then the  *)
(* only one in hand at its level, and the delegation a delegate works for  *)
(* the only one of the main runtime.                                       *)
LEMMA StartsNothingNew ==
  ASSUME TurnInv, TurnInv', NEW l \in Level, NEW i, StartsCall(l, i)
  PROVE  \A k \in Level : NothingNew(k)
<1> DEFINE r == loop[l]
<1>1. /\ loop \in [Level -> LoopType] /\ loop' \in [Level -> LoopType]
      /\ \A k \in Level : /\ Len(loop[k].marks) = Len(loop[k].batch) /\ InOrder(loop[k])
                           /\ Len(loop'[k].marks) = Len(loop'[k].batch) /\ InOrder(loop'[k])
  BY DEF TurnInv, TypeOK, RowOK, Shape, InOrder, Together, Done, InHand, Concurrent, ParallelSafe, Effect
<1>2. Waits(l, "executing") /\ i \in DOMAIN r.batch /\ r.marks[i] = "announced" /\ Step(l, Started(r, i, r.batch[i]))
  BY DEF StartsCall, Announced, Started
<1>3. i \in 1..Len(r.batch) /\ r.batch[i] \in Call /\ r.pc = "executing" /\ r \in LoopType
  BY <1>1, <1>2, Positions DEF Waits
<1>4. loop'[l] = Started(r, i, r.batch[i]) /\ \A k \in Level \ {l} : loop'[k] = loop[k]
  BY <1>1, <1>2 DEF Step
<1>5. /\ loop'[l].pc = "executing" /\ loop'[l].batch = r.batch /\ Len(loop'[l].marks) = Len(r.batch)
      /\ \A k \in 1..Len(r.batch) : loop'[l].marks[k] = IF k = i THEN "running" ELSE r.marks[k]
  <2>1. PICK m : m = Marked(r, i, "running")
    OBVIOUS
  <2>2. m \in LoopType /\ Marking(r, i, "running", m)
    BY <1>1, <1>3, <2>1, MarkedFields DEF Mark
  <2>3. /\ m.batch = r.batch /\ Len(m.marks) = Len(r.batch) /\ m.pc = "executing"
        /\ \A k \in 1..Len(r.batch) : m.marks[k] = IF k = i THEN "running" ELSE r.marks[k]
    BY <1>1, <1>3, <2>2, MarkedMarks DEF Mark, Marking
  <2>4. loop'[l].pc = m.pc /\ loop'[l].batch = m.batch /\ loop'[l].marks = m.marks
    BY <1>4, <2>1, <2>2 DEF Started, LoopType
  <2> QED BY <2>3, <2>4
<1>6. DOMAIN loop'[l].marks = 1..Len(r.batch) /\ DOMAIN r.marks = 1..Len(r.batch)
  BY <1>1, <1>3, <1>5, Positions
<1>7. ASSUME Effect(r.batch[i]) # "none" PROVE NoneAnnounced'
  <2>1. ~Concurrent(r.batch[i])
    BY <1>7 DEF Concurrent
  <2>2. ASSUME NEW j \in DOMAIN loop'[l].marks PROVE loop'[l].marks[j] # "announced"
    <3>1. /\ loop'[l] \in LoopType /\ i \in DOMAIN loop'[l].batch /\ loop'[l].marks[i] \in InHand
          /\ j \in DOMAIN loop'[l].batch /\ ~Concurrent(loop'[l].batch[i])
      BY <1>1, <1>2, <1>3, <1>5, <1>6, <2>1, Positions DEF InHand
    <3>2. CASE j = i
      BY <1>3, <1>5, <3>2
    <3>3. CASE j # i
      <4>1. \A s \in LoopType : (/\ Len(s.marks) = Len(s.batch) /\ InOrder(s) /\ i \in DOMAIN s.batch
                                /\ s.marks[i] \in InHand /\ ~Concurrent(s.batch[i]) /\ j \in DOMAIN s.batch \ {i})
                               => IF j < i THEN Done(s.marks[j]) ELSE s.marks[j] = "waiting"
        BY AloneInHand
      <4> QED BY <1>1, <3>1, <3>3, <4>1 DEF Done, InHand
    <3> QED BY <3>2, <3>3
  <2>3. ASSUME NEW k \in Level \ {l}, NEW j \in DOMAIN loop[k].marks PROVE loop[k].marks[j] # "announced"
    <3>1. l = Current /\ "main" \in Level /\ "delegate" \in Level
      BY <1>2 DEF Waits, Level
    <3>2. CASE k = "delegate"
      <4>1. loop["delegate"] = Off
        BY <2>3, <3>1, <3>2 DEF Current, TurnInv, RowOK, Shape
      <4> QED BY <3>2, <2>3, <4>1, OffRow DEF EmptyRow
    <3>3. CASE k = "main"
      <4>1. loop["delegate"].pc # "off"
        BY <2>3, <3>1, <3>3 DEF Current, Level
      <4>2. PICK d \in DOMAIN loop["main"].batch : Delegation(d)
        BY <4>1 DEF TurnInv, Nested
      <4>3. loop["main"].marks[d] = "running" /\ ~Concurrent(loop["main"].batch[d])
        BY <4>2 DEF Delegation, Concurrent, ParallelSafe
      <4>4. j \in DOMAIN loop["main"].batch
        BY <1>1, <2>3, <3>1, <3>3, Positions
      <4>5. CASE j = d
        BY <3>3, <4>3, <4>5
      <4>6. CASE j # d
        <5>1. IF j < d THEN Done(loop["main"].marks[j]) ELSE loop["main"].marks[j] = "waiting"
          BY <1>1, <3>1, <4>3, <4>4, <4>6, AloneInHand DEF InHand
        <5> QED BY <3>3, <5>1 DEF Done, InHand
      <4> QED BY <4>5, <4>6
    <3> QED BY <2>3, <3>2, <3>3 DEF Level
  <2> QED BY <1>4, <2>2, <2>3 DEF NoneAnnounced
<1>8. NothingNew(l)
  BY <1>2, <1>5, <1>6, <1>7 DEF NothingNew
<1>9. \A k \in Level \ {l} : NothingNew(k)
  BY <1>4 DEF NothingNew
<1> QED BY <1>8, <1>9

LEMMA DelegatesNothingNew ==
  ASSUME TurnInv, TurnInv', NEW i, Delegates(i)
  PROVE  \A k \in Level : NothingNew(k)
<1> DEFINE r == loop["main"]
<1>1. /\ "main" \in Level /\ "delegate" \in Level /\ r \in LoopType /\ Len(r.marks) = Len(r.batch)
      /\ loop \in [Level -> LoopType]
  BY DEF TurnInv, TypeOK, RowOK, Shape, Level
<1>2. /\ r.pc = "executing" /\ i \in DOMAIN r.batch /\ r.marks[i] = "announced" /\ Kind[r.batch[i]] = "delegate"
  BY DEF Delegates, Announced, Waits
<1>3. PICK m \in {"running", "error"} :
        /\ loop'["main"] = Marked(r, i, m)
        /\ loop'["delegate"] = loop["delegate"] \/ (loop'["delegate"].pc = "top" /\ loop'["delegate"].marks = <<>>)
  <2>1. CASE Fractional
    BY <1>1, <2>1 DEF Delegates, Step
  <2>2. CASE ~Fractional
    BY <1>1, <2>2 DEF Delegates, Fresh
  <2> QED BY <2>1, <2>2
<1>4. i \in 1..Len(r.batch) /\ m \in Mark
  BY <1>1, <1>2, <1>3, Positions DEF Mark
<1>5. loop'["main"] \in LoopType /\ Marking(r, i, m, loop'["main"])
  BY <1>1, <1>2, <1>3, <1>4, MarkedFields
<1>6. /\ loop'["main"].pc = "executing" /\ Len(loop'["main"].marks) = Len(r.batch) /\ loop'["main"].batch = r.batch
      /\ \A k \in 1..Len(r.batch) : loop'["main"].marks[k] = IF k = i THEN m ELSE r.marks[k]
  BY <1>1, <1>4, <1>5, MarkedMarks DEF Marking
<1>7. DOMAIN loop'["main"].marks = 1..Len(r.batch) /\ DOMAIN r.marks = 1..Len(r.batch)
  BY <1>1, <1>5, <1>6, Positions
<1>8. Effect(r.batch[i]) = "none"
  BY <1>2 DEF Effect
<1>9. NothingNew("main")
  BY <1>2, <1>6, <1>7, <1>8 DEF NothingNew
<1>10. NothingNew("delegate")
  BY <1>3 DEF NothingNew
<1> QED BY <1>9, <1>10 DEF Level

(* Once the person cancels, no request to a model begins and no tool call  *)
(* passes the check before its start, in the main runtime or in a          *)
(* delegate; of the calls that had passed it at most one has an effect.    *)
THEOREM CancelTheorem == Spec => NothingNewAfterCancel
<1>1. TurnInv /\ TurnInv' /\ [Next]_vars =>
        [(cancelled /\ cancelled') => \A l \in Level : NothingNew(l)]_vars
  <2> SUFFICES ASSUME TurnInv, TurnInv', Next, cancelled, cancelled' PROVE \A l \in Level : NothingNew(l)
    OBVIOUS
  <2>1. CASE Starting
    BY <2>1, StartsNothingNew, DelegatesNothingNew DEF Starting
  <2>2. CASE ~Starting
    BY <2>2, QuietNext DEF Quiet, NothingNew
  <2> QED BY <2>1, <2>2
<1> QED BY <1>1, TurnInvariant, PTL DEF Spec, NothingNewAfterCancel, NothingNew
-----------------------------------------------------------------------------
(* SessionDaemon.  An agent has turns outstanding while it has accepted    *)
(* more commands than it finished.                                         *)
Outstanding(l) == agents[l].finished < Len(agents[l].accepted)

AgentsOK ==
  \A l \in Agent :
    /\ agents[l].finished <= Len(agents[l].accepted)
    /\ agents[l].phase # "idle" => Outstanding(l)

(* The map of sessions and what calls remember point at agents that exist  *)
(* and serve the session they are asked for.                               *)
NamesOK ==
  /\ \A s \in Sessions : sessions[s] # NoAgent => agents[sessions[s]].session = s
  /\ \A c \in Clients : calls[c].op \in {"draining", "disposing", "handing", "retiring"} =>
       calls[c].agent \in Agent

On(c, s) == AttachedTo(c, s) \/ CallOn(c, s)

(* What a call that awaits something may still rely on when it goes on, if *)
(* it is the only client of its session.                                   *)
CallOK(c, s) ==
  /\ calls[c].op \in {"open", "carrying"} => sessions[s] = NoAgent /\ calls[c].transcript = record[s]
  /\ calls[c].op \in {"draining", "handing"} =>
       sessions[s] = calls[c].agent /\ calls[c].upTo = Len(agents[calls[c].agent].accepted)
  /\ calls[c].op \in {"disposing", "retiring"} =>
       sessions[s] = calls[c].agent /\ ~Outstanding(calls[c].agent)
  /\ calls[c].op = "retiring" => calls[c].transcript = record[s]

(* A session that no second client ever used while the first was there has *)
(* one client, at most one agent with turns outstanding, and an agent that *)
(* knows all that is recorded of it.                                       *)
OneClient(s) == \A c, d \in Clients : On(c, s) /\ On(d, s) => c = d

OneWorks(s) ==
  \A l \in Agent : agents[l].session = s /\ Outstanding(l) =>
    /\ agents[l].transcript = record[s]
    /\ closing = "no" => sessions[s] = l
    /\ \A m \in Agent : agents[m].session = s /\ Outstanding(m) => l = m

UpToDate(s) ==
  closing = "no" =>
    /\ sessions[s] # NoAgent => agents[sessions[s]].transcript = record[s]
    /\ \A c \in Clients : CallOn(c, s) => CallOK(c, s)

Alone(s) == record[s] = done[s] /\ OneClient(s) /\ OneWorks(s) /\ UpToDate(s)

DaemonInv == DaemonTypeOK /\ AgentsOK /\ NamesOK /\ \A s \in Sessions \ contended : Alone(s)

(* An agent remembers the last of the commands it accepted, and accepts    *)
(* none again that it remembers.                                           *)
Remembered(all, last) ==
  /\ Len(last) = IF Len(all) <= KeepCommands THEN Len(all) ELSE KeepCommands
  /\ \A i \in 1..Len(last) : last[i] = all[Len(all) - Len(last) + i]
RowRemembers(a) == Remembered(a.accepted, a.remembered)
RowRetries(a) ==
  \A i, j \in 1..Len(a.accepted) : i < j /\ a.accepted[i] = a.accepted[j] => j - i > KeepCommands

(* What is said of a row by the steps that leave its commands alone.       *)
Kept(a, b) ==
  /\ b.session = a.session /\ b.accepted = a.accepted /\ b.remembered = a.remembered
  /\ b.transcript = a.transcript
  /\ b.finished \in {a.finished, a.finished + 1} /\ b.finished <= Len(a.accepted)
  /\ b.phase # "idle" => b.finished < Len(a.accepted)

RowsKept ==
  /\ agents' \in Seq(AgentState) /\ Len(agents') = Len(agents)
  /\ \A l \in Agent : Kept(agents[l], agents'[l]) /\ agents'[l].subscribers \subseteq agents[l].subscribers

(* What the types say of one agent.                                        *)
LEMMA AgentRows ==
  ASSUME DaemonTypeOK
  PROVE  /\ Len(agents) \in Nat
         /\ \A l \in Agent :
              /\ agents[l] \in AgentState
              /\ agents[l].session \in Sessions /\ agents[l].subscribers \in SUBSET Clients
              /\ agents[l].accepted \in Seq(Commands) /\ agents[l].remembered \in Seq(Commands)
              /\ agents[l].finished \in Nat /\ Len(agents[l].accepted) \in Nat
              /\ agents[l].phase \in {"idle", "working", "prompted", "pending"}
              /\ agents[l].asked \in 0..MaxAsks /\ agents[l].transcript \in Transcript
<1>1. agents \in Seq(AgentState)
  BY DEF DaemonTypeOK
<1>2. Len(agents) \in Nat /\ \A l \in Agent : agents[l] \in AgentState
  BY <1>1, LenProperties, ElementOfSeq DEF Agent
<1> QED BY <1>2 DEF AgentState

LEMMA OneRow ==
  ASSUME DaemonTypeOK, NEW l \in Agent, NEW a \in AgentState, agents' = [agents EXCEPT ![l] = a]
  PROVE  /\ agents' \in Seq(AgentState) /\ Len(agents') = Len(agents) /\ agents'[l] = a
         /\ \A m \in Agent : m # l => agents'[m] = agents[m]
<1>1. agents \in Seq(AgentState)
  BY DEF DaemonTypeOK
<1> QED BY <1>1, ExceptSeq DEF Agent

LEMMA OneRowKept ==
  ASSUME DaemonTypeOK, AgentsOK, NEW l \in Agent, NEW a \in AgentState,
         agents' = [agents EXCEPT ![l] = a], Kept(agents[l], a), a.subscribers \subseteq agents[l].subscribers
  PROVE  RowsKept
<1>1. /\ agents' \in Seq(AgentState) /\ Len(agents') = Len(agents) /\ agents'[l] = a
      /\ \A m \in Agent : m # l => agents'[m] = agents[m]
  BY OneRow
<1>2. \A m \in Agent : Kept(agents[m], agents[m])
  BY AgentRows DEF AgentsOK, Kept, Outstanding
<1> QED BY <1>1, <1>2 DEF RowsKept

LEMMA PlacesStay ==
  ASSUME DaemonTypeOK, AgentsOK, agents' = agents PROVE RowsKept
<1>1. \A m \in Agent : Kept(agents[m], agents[m])
  BY AgentRows DEF AgentsOK, Kept, Outstanding
<1> QED BY <1>1 DEF RowsKept, DaemonTypeOK

(* The turns of an agent, but for a turn that does its work. *)
LEMMA TurnRowsKept ==
  ASSUME DaemonTypeOK, AgentsOK, NEW l \in Agent,
         TurnStarts(l) \/ TurnFails(l) \/ TurnAsks(l) \/ PromptAnswered(l)
           \/ \E c \in Clients : DecideApproval(c, l)
  PROVE  RowsKept
<1> DEFINE r == agents[l]
           over == [r EXCEPT !.phase = "idle", !.asked = 0, !.finished = @ + 1]
           turned(p) == [r EXCEPT !.phase = p]
           asked(p) == [r EXCEPT !.asked = @ + 1, !.phase = p]
<1>1. /\ r \in AgentState /\ r.finished \in Nat /\ Len(r.accepted) \in Nat /\ r.asked \in 0..MaxAsks
      /\ r.finished <= Len(r.accepted) /\ (r.phase # "idle" => r.finished < Len(r.accepted))
  BY AgentRows DEF AgentsOK, Outstanding
<1>2. MaxAsks \in Nat
  BY DaemonAssumption
<1>3. r.phase # "idle" => over \in AgentState /\ Kept(r, over) /\ over.subscribers = r.subscribers
  <2>1. r.finished + 1 \in Nat /\ 0 \in 0..MaxAsks
    BY <1>1, <1>2
  <2>2. over \in AgentState
    BY <1>1, <2>1 DEF AgentState
  <2>3. r.phase # "idle" => r.finished + 1 <= Len(r.accepted)
    BY <1>1
  <2>4. /\ over.session = r.session /\ over.accepted = r.accepted /\ over.remembered = r.remembered
        /\ over.transcript = r.transcript /\ over.finished = r.finished + 1 /\ over.phase = "idle"
        /\ over.subscribers = r.subscribers
    BY <1>1 DEF AgentState
  <2> HIDE DEF over
  <2> QED BY <2>2, <2>3, <2>4 DEF Kept
<1>4. r.finished < Len(r.accepted) => \A p \in {"working", "prompted", "pending"} :
        turned(p) \in AgentState /\ Kept(r, turned(p)) /\ turned(p).subscribers = r.subscribers
  BY <1>1 DEF AgentState, Kept
<1>5. r.finished < Len(r.accepted) /\ r.asked < MaxAsks => \A p \in {"prompted", "pending"} :
        asked(p) \in AgentState /\ Kept(r, asked(p)) /\ asked(p).subscribers = r.subscribers
  <2> SUFFICES ASSUME r.finished < Len(r.accepted), r.asked < MaxAsks, NEW p \in {"prompted", "pending"}
      PROVE  asked(p) \in AgentState /\ Kept(r, asked(p)) /\ asked(p).subscribers = r.subscribers
    OBVIOUS
  <2>1. r.asked + 1 \in 0..MaxAsks
    BY <1>1, <1>2
  <2>2. asked(p) \in AgentState
    BY <1>1, <2>1 DEF AgentState
  <2>3. /\ asked(p).session = r.session /\ asked(p).accepted = r.accepted
        /\ asked(p).remembered = r.remembered /\ asked(p).transcript = r.transcript
        /\ asked(p).finished = r.finished /\ asked(p).subscribers = r.subscribers
    BY <1>1 DEF AgentState
  <2> HIDE DEF asked
  <2> QED BY <1>1, <2>2, <2>3 DEF Kept
<1>6. CASE TurnStarts(l) \/ PromptAnswered(l) \/ \E c \in Clients : DecideApproval(c, l)
  <2>1. agents' = [agents EXCEPT ![l] = turned("working")] /\ r.finished < Len(r.accepted)
    BY <1>1, <1>6 DEF TurnStarts, PromptAnswered, DecideApproval, Update
  <2> QED BY <1>4, <2>1, OneRowKept
<1>7. CASE TurnFails(l)
  <2>1. agents' = [agents EXCEPT ![l] = over] /\ r.phase # "idle"
    BY <1>7 DEF TurnFails, Over
  <2> QED BY <1>3, <2>1, OneRowKept
<1>8. CASE TurnAsks(l)
  <2>1. r.phase # "idle" /\ r.asked < MaxAsks
    BY <1>8 DEF TurnAsks
  <2>2. \/ agents' = [agents EXCEPT ![l] = over]
        \/ \E p \in {"prompted", "pending"} : agents' = [agents EXCEPT ![l] = asked(p)]
    BY <1>8 DEF TurnAsks, Over
  <2> QED BY <1>1, <1>3, <1>5, <2>1, <2>2, OneRowKept
<1> QED BY <1>6, <1>7, <1>8

LEMMA DenyRowsKept ==
  ASSUME DaemonTypeOK, AgentsOK, NEW S, agents' = DenyPending(S)
  PROVE  RowsKept
<1> DEFINE row(l) == IF agents[l].phase = "pending" /\ agents[l].session \in S
                     THEN [agents[l] EXCEPT !.phase = "working"] ELSE agents[l]
<1>1. \A l \in Agent : row(l) \in AgentState /\ Kept(agents[l], row(l)) /\ row(l).subscribers = agents[l].subscribers
  BY AgentRows DEF AgentsOK, AgentState, Kept, Outstanding
<1>2. agents' = [l \in Agent |-> row(l)]
  BY DEF DenyPending
<1> HIDE DEF row
<1>3. Agent = 1..Len(agents) /\ Len(agents) \in Nat
  BY AgentRows DEF Agent
<1>4. agents' \in [1..Len(agents) -> AgentState]
  BY <1>1, <1>2, <1>3
<1>5. agents' \in Seq(AgentState)
  BY <1>3, <1>4, SeqDef
<1>6. Len(agents') = Len(agents)
  BY <1>3, <1>4, <1>5, LenProperties
<1> QED BY <1>1, <1>2, <1>5, <1>6 DEF RowsKept

LEMMA DisconnectRowsKept ==
  ASSUME DaemonTypeOK, AgentsOK, NEW c \in Clients, Disconnect(c)
  PROVE  RowsKept
<1> DEFINE row(l) == IF \E s \in Sessions : sessions[s] = l
                     THEN [agents[l] EXCEPT !.subscribers = @ \ {c}] ELSE agents[l]
<1>1. \A l \in Agent : row(l) \in AgentState /\ Kept(agents[l], row(l)) /\ row(l).subscribers \subseteq agents[l].subscribers
  <2> TAKE l \in Agent
  <2>1. CASE \E s \in Sessions : sessions[s] = l
    <3>1. row(l) = [agents[l] EXCEPT !.subscribers = @ \ {c}]
      BY <2>1
    <3> QED BY <3>1, AgentRows DEF AgentsOK, AgentState, Kept, Outstanding
  <2>2. CASE ~\E s \in Sessions : sessions[s] = l
    <3>1. row(l) = agents[l]
      BY <2>2
    <3> QED BY <3>1, AgentRows DEF AgentsOK, AgentState, Kept, Outstanding
  <2> QED BY <2>1, <2>2
<1>2. agents' = [l \in Agent |-> row(l)]
  BY DEF Disconnect
<1> HIDE DEF row
<1>3. Agent = 1..Len(agents) /\ Len(agents) \in Nat
  BY AgentRows DEF Agent
<1>4. agents' \in [1..Len(agents) -> AgentState]
  BY <1>1, <1>2, <1>3
<1>5. agents' \in Seq(AgentState)
  BY <1>3, <1>4, SeqDef
<1>6. Len(agents') = Len(agents)
  BY <1>3, <1>4, <1>5, LenProperties
<1> QED BY <1>1, <1>2, <1>5, <1>6 DEF RowsKept

(* What a client awaits, and how that moves on. *)
LEMMA CallFields ==
  ASSUME DaemonTypeOK, NEW c \in Clients
  PROVE  /\ calls[c] \in ClientCall
         /\ calls[c] # NoCall => calls[c].session \in Sessions /\ calls[c].op \in
              {"open", "carrying", "draining", "disposing", "handing", "retiring"}
         /\ calls[c] = NoCall => calls[c].op = "none"
         /\ calls[c].op \in {"open", "carrying", "retiring"} => calls[c].transcript \in Transcript
         /\ calls[c].op \in {"draining", "disposing", "handing", "retiring"} => calls[c].agent \in Nat \ {0}
         /\ calls[c].op \in {"draining", "disposing", "handing"} => calls[c].upTo \in Nat
<1>1. calls[c] \in ClientCall
  BY DEF DaemonTypeOK
<1> QED BY <1>1 DEF ClientCall, NoCall

CallMoves(c) ==
  \/ calls'[c] = calls[c]
  \/ calls'[c] = NoCall
  \/ \E s \in Sessions :
       /\ AttachedTo(c, s) /\ calls'[c].op \in {"draining", "handing"}
       /\ calls'[c].session = s /\ calls'[c].agent = sessions[s]
       /\ calls'[c].upTo = Len(agents[sessions[s]].accepted)
  \/ /\ calls[c].op = "draining" /\ Drained(calls[c]) /\ calls'[c].op = "disposing"
     /\ calls'[c].session = calls[c].session /\ calls'[c].agent = calls[c].agent
  \/ /\ calls[c].op = "handing" /\ Drained(calls[c]) /\ calls'[c].op = "retiring"
     /\ calls'[c].session = calls[c].session /\ calls'[c].agent = calls[c].agent
     /\ calls'[c].transcript = agents[calls[c].agent].transcript

(* A step of a call that only moves it on and leaves every agent's row as  *)
(* it was, or further, preserves the invariant: what it may rely on when   *)
(* it resumes is not touched.                                              *)
LEMMA CallStep ==
  ASSUME DaemonInv, RowsKept, calls' \in [Clients -> ClientCall], \A c \in Clients : CallMoves(c),
         UNCHANGED <<sessions, held, record, done, contended>>, closing' \in {closing, "closed"}
  PROVE  DaemonInv'
<1>1. DaemonTypeOK /\ AgentsOK /\ NamesOK
  BY DEF DaemonInv
<1>2. /\ Agent' = Agent /\ Len(agents') = Len(agents) /\ agents' \in Seq(AgentState)
      /\ \A l \in Agent : Kept(agents[l], agents'[l]) /\ agents'[l].subscribers \subseteq agents[l].subscribers
  BY DEF RowsKept, Agent
<1>3. DaemonTypeOK'
  BY <1>1, <1>2 DEF DaemonTypeOK
<1>4. AgentsOK'
  BY <1>2 DEF AgentsOK, Outstanding, Kept
<1>5. \A s \in Sessions : sessions[s] # NoAgent => sessions[s] \in Agent
  BY <1>1 DEF DaemonTypeOK
<1>6. \A c \in Clients : calls'[c] # NoCall => calls'[c].op # "none"
  <2>1. ASSUME NEW x \in ClientCall, x # NoCall PROVE x.op # "none"
    BY <2>1 DEF ClientCall, NoCall
  <2> QED BY <2>1
<1>7. \A c \in Clients : calls'[c].op \in {"draining", "disposing", "handing", "retiring"} => calls'[c].agent \in Agent
  <2> TAKE c \in Clients
  <2> QED BY <1>1, <1>5, CallFields DEF CallMoves, NamesOK, AttachedTo, NoCall
<1>8. NamesOK'
  BY <1>1, <1>2, <1>5, <1>7 DEF NamesOK, Kept
<1>9. ASSUME NEW s \in Sessions, s \notin contended PROVE Alone(s)'
  <2>1. Alone(s)
    BY <1>9 DEF DaemonInv
  <2>2. \A c \in Clients : On(c, s)' => On(c, s)
    <3> TAKE c \in Clients
    <3>1. AttachedTo(c, s)' => AttachedTo(c, s)
      BY <1>2, <1>5 DEF AttachedTo
    <3>2. CallOn(c, s)' => On(c, s)
      BY <1>1, CallFields DEF CallOn, On, CallMoves, AttachedTo, NoCall
    <3> QED BY <3>1, <3>2 DEF On
  <2>3. OneClient(s)'
    BY <2>1, <2>2 DEF Alone, OneClient
  <2>4. \A l \in Agent : /\ Outstanding(l)' => Outstanding(l)
                         /\ agents'[l].session = agents[l].session /\ agents'[l].transcript = agents[l].transcript
                         /\ agents'[l].accepted = agents[l].accepted
    BY <1>1, <1>2, AgentRows DEF Kept, Outstanding
  <2>5. closing' = "no" => closing = "no"
    OBVIOUS
  <2>6. OneWorks(s)'
    BY <1>2, <2>1, <2>4, <2>5 DEF Alone, OneWorks
  <2>7. ASSUME closing' = "no", NEW c \in Clients, CallOn(c, s)' PROVE CallOK(c, s)'
    <3>1. closing = "no" /\ (sessions[s] # NoAgent => agents[sessions[s]].transcript = record[s])
          /\ (CallOn(c, s) => CallOK(c, s))
      BY <2>1, <2>5, <2>7 DEF Alone, UpToDate
    <3>2. CASE calls'[c] = calls[c]
      <4>1. CallOK(c, s)
        BY <2>7, <3>1, <3>2 DEF CallOn
      <4>2. calls[c].op \in {"draining", "disposing", "handing", "retiring"} => calls[c].agent \in Agent
        BY <1>1 DEF NamesOK
      <4> QED BY <2>4, <3>2, <4>1, <4>2 DEF CallOK
    <3>3. CASE \E t \in Sessions :
                 /\ AttachedTo(c, t) /\ calls'[c].op \in {"draining", "handing"}
                 /\ calls'[c].session = t /\ calls'[c].agent = sessions[t]
                 /\ calls'[c].upTo = Len(agents[sessions[t]].accepted)
      <4>1. sessions[s] \in Agent /\ calls'[c].op \in {"draining", "handing"} /\ calls'[c].agent = sessions[s]
            /\ calls'[c].upTo = Len(agents[sessions[s]].accepted)
        BY <1>5, <2>7, <3>3 DEF CallOn, AttachedTo
      <4> QED BY <2>4, <4>1 DEF CallOK
    <3>4. CASE /\ calls[c].op = "draining" /\ Drained(calls[c]) /\ calls'[c].op = "disposing"
               /\ calls'[c].session = calls[c].session /\ calls'[c].agent = calls[c].agent
      <4>1. CallOK(c, s)
        BY <1>1, <2>7, <3>1, <3>4, CallFields DEF CallOn
      <4>2. calls[c].agent \in Agent
        BY <1>1, <3>4 DEF NamesOK
      <4>3. sessions[s] = calls[c].agent /\ ~Outstanding(calls[c].agent)
        BY <1>1, <3>4, <4>1, <4>2, AgentRows DEF CallOK, Drained, Outstanding
      <4> QED BY <2>4, <3>4, <4>2, <4>3 DEF CallOK
    <3>5. CASE /\ calls[c].op = "handing" /\ Drained(calls[c]) /\ calls'[c].op = "retiring"
               /\ calls'[c].session = calls[c].session /\ calls'[c].agent = calls[c].agent
               /\ calls'[c].transcript = agents[calls[c].agent].transcript
      <4>1. CallOK(c, s)
        BY <1>1, <2>7, <3>1, <3>5, CallFields DEF CallOn
      <4>2. calls[c].agent \in Agent
        BY <1>1, <3>5 DEF NamesOK
      <4>3. sessions[s] = calls[c].agent /\ ~Outstanding(calls[c].agent)
        BY <1>1, <3>5, <4>1, <4>2, AgentRows DEF CallOK, Drained, Outstanding
      <4>4. sessions[s] # NoAgent
        BY <4>2, <4>3 DEF NoAgent, Agent
      <4> QED BY <2>4, <3>1, <3>5, <4>2, <4>3, <4>4 DEF CallOK
    <3> QED BY <2>7, <3>2, <3>3, <3>4, <3>5 DEF CallMoves, CallOn
  <2>8. UpToDate(s)'
    <3>1. closing' = "no" /\ sessions[s] # NoAgent => agents'[sessions[s]].transcript = record[s]
      BY <1>5, <2>1, <2>4, <2>5 DEF Alone, UpToDate
    <3> QED BY <2>7, <3>1 DEF UpToDate
  <2> QED BY <2>1, <2>3, <2>6, <2>8 DEF Alone
<1> QED BY <1>3, <1>4, <1>8, <1>9 DEF DaemonInv

LEMMA AttachedAgent ==
  ASSUME DaemonTypeOK, NEW c \in Clients, NEW s \in Sessions, AttachedTo(c, s)
  PROVE  sessions[s] \in Agent
BY DEF DaemonTypeOK, AttachedTo

LEMMA LeavesRowsKept ==
  ASSUME DaemonTypeOK, AgentsOK, NEW c \in Clients, NEW s \in Sessions, AttachedTo(c, s),
         Update(sessions[s], "subscribers", agents[sessions[s]].subscribers \ {c})
  PROVE  RowsKept
<1> DEFINE r == agents[sessions[s]]
           a == [r EXCEPT !.subscribers = @ \ {c}]
<1>1. sessions[s] \in Agent
  BY AttachedAgent
<1>2. a \in AgentState /\ Kept(r, a) /\ a.subscribers \subseteq r.subscribers
  BY <1>1, AgentRows DEF AgentsOK, AgentState, Kept, Outstanding
<1>3. agents' = [agents EXCEPT ![sessions[s]] = a]
  BY DEF Update
<1> QED BY <1>1, <1>2, <1>3, OneRowKept

LEMMA AwaitingMoves ==
  ASSUME DaemonTypeOK, NEW c \in Clients, NEW s \in Sessions, NEW op \in {"draining", "handing"},
         AttachedTo(c, s), Awaiting(c, op, s)
  PROVE  calls' \in [Clients -> ClientCall] /\ \A d \in Clients : CallMoves(d)
<1> DEFINE call == [op |-> op, session |-> s, agent |-> sessions[s],
                    upTo |-> Len(agents[sessions[s]].accepted)]
<1>1. sessions[s] \in Agent /\ sessions[s] \in Nat \ {0} /\ Len(agents[sessions[s]].accepted) \in Nat
  BY AttachedAgent, AgentRows DEF Agent
<1>2. call \in ClientCall
  BY <1>1 DEF ClientCall
<1>3. calls' = [calls EXCEPT ![c] = call] /\ calls \in [Clients -> ClientCall]
  BY DEF Awaiting, DaemonTypeOK
<1>4. call.op \in {"draining", "handing"} /\ call.session = s /\ call.agent = sessions[s]
      /\ call.upTo = Len(agents[sessions[s]].accepted)
  OBVIOUS
<1> HIDE DEF call
<1>5. calls'[c] = call /\ \A d \in Clients : d # c => calls'[d] = calls[d]
  BY <1>3
<1> QED BY <1>2, <1>3, <1>4, <1>5 DEF CallMoves

LEMMA ClientQuiet ==
  ASSUME DaemonInv, NEW c \in Clients,
         \/ Disconnect(c) \/ Drop(c) \/ OpenFails(c) \/ DisposeDrained(c) \/ RelinquishDrained(c)
         \/ \E s \in Sessions : Release(c, s) \/ Dispose(c, s) \/ Relinquish(c, s)
  PROVE  DaemonInv' /\ RowsKept
<1>1. DaemonTypeOK /\ AgentsOK /\ NamesOK
  BY DEF DaemonInv
<1>2. UNCHANGED <<sessions, held, record, done, contended>> /\ closing' \in {closing, "closed"}
  BY DEF Disconnect, Drop, OpenFails, DisposeDrained, RelinquishDrained, Release, Dispose, Relinquish
<1>3. calls \in [Clients -> ClientCall] /\ NoCall \in ClientCall
  BY <1>1 DEF DaemonTypeOK, ClientCall
<1>4. CASE Disconnect(c)
  <2>1. RowsKept /\ calls' = calls
    BY <1>1, <1>4, DisconnectRowsKept DEF Disconnect
  <2>2. calls' \in [Clients -> ClientCall] /\ \A d \in Clients : CallMoves(d)
    BY <1>3, <2>1 DEF CallMoves
  <2> QED BY <1>2, <2>1, <2>2, CallStep
<1>5. CASE Drop(c) \/ OpenFails(c)
  <2>1. agents' = agents /\ calls' = [calls EXCEPT ![c] = NoCall]
    BY <1>5 DEF Drop, OpenFails
  <2>2. calls' \in [Clients -> ClientCall] /\ \A d \in Clients : CallMoves(d)
    BY <1>3, <2>1 DEF CallMoves
  <2> QED BY <1>1, <1>2, <2>1, <2>2, CallStep, PlacesStay
<1>6. CASE DisposeDrained(c)
  <2>1. RowsKept
    BY <1>1, <1>6, DenyRowsKept DEF DisposeDrained
  <2> DEFINE call == [calls[c] EXCEPT !.op = "disposing"]
  <2>2. calls' = [calls EXCEPT ![c] = call] /\ calls[c].op = "draining" /\ Drained(calls[c])
    BY <1>6 DEF DisposeDrained
  <2>3. calls[c] \in [op : {"draining", "disposing", "handing"}, session : Sessions,
                      agent : Nat \ {0}, upTo : Nat]
    BY <1>1, <2>2, CallFields DEF ClientCall, NoCall
  <2>4. call \in ClientCall /\ call.op = "disposing" /\ call.session = calls[c].session /\ call.agent = calls[c].agent
    BY <2>3 DEF ClientCall
  <2> HIDE DEF call
  <2>5. calls' \in [Clients -> ClientCall] /\ \A d \in Clients : CallMoves(d)
    <3>1. calls'[c] = call /\ \A d \in Clients : d # c => calls'[d] = calls[d]
      BY <1>3, <2>2
    <3> QED BY <1>3, <2>2, <2>4, <3>1 DEF CallMoves
  <2> QED BY <1>2, <2>1, <2>5, CallStep
<1>7. CASE RelinquishDrained(c)
  <2> DEFINE call == [op |-> "retiring", session |-> calls[c].session, agent |-> calls[c].agent,
                      transcript |-> agents[calls[c].agent].transcript]
  <2>1. agents' = agents /\ calls' = [calls EXCEPT ![c] = call] /\ calls[c].op = "handing" /\ Drained(calls[c])
    BY <1>7 DEF RelinquishDrained
  <2>2. calls[c].session \in Sessions /\ calls[c].agent \in Nat \ {0} /\ calls[c].agent \in Agent
    BY <1>1, <2>1, CallFields DEF NamesOK
  <2>3. agents[calls[c].agent].transcript \in Transcript
    BY <1>1, <2>2, AgentRows
  <2>4. call \in ClientCall
    BY <2>2, <2>3 DEF ClientCall
  <2>5. call.op = "retiring" /\ call.session = calls[c].session /\ call.agent = calls[c].agent
        /\ call.transcript = agents[calls[c].agent].transcript
    OBVIOUS
  <2> HIDE DEF call
  <2>6. calls' \in [Clients -> ClientCall] /\ \A d \in Clients : CallMoves(d)
    <3>1. calls'[c] = call /\ \A d \in Clients : d # c => calls'[d] = calls[d]
      BY <1>3, <2>1
    <3> QED BY <1>3, <2>1, <2>4, <2>5, <3>1 DEF CallMoves
  <2> QED BY <1>1, <1>2, <2>1, <2>6, CallStep, PlacesStay
<1>8. ASSUME NEW s \in Sessions, Release(c, s) PROVE DaemonInv' /\ RowsKept
  <2>1. RowsKept /\ calls' = calls
    BY <1>1, <1>8, LeavesRowsKept DEF Release
  <2>2. calls' \in [Clients -> ClientCall] /\ \A d \in Clients : CallMoves(d)
    BY <1>3, <2>1 DEF CallMoves
  <2> QED BY <1>2, <2>1, <2>2, CallStep
<1>9. ASSUME NEW s \in Sessions, Dispose(c, s) PROVE DaemonInv' /\ RowsKept
  <2>1. RowsKept /\ calls' \in [Clients -> ClientCall] /\ \A d \in Clients : CallMoves(d)
    BY <1>1, <1>9, LeavesRowsKept, AwaitingMoves DEF Dispose
  <2> QED BY <1>2, <2>1, CallStep
<1>10. ASSUME NEW s \in Sessions, Relinquish(c, s) PROVE DaemonInv' /\ RowsKept
  <2>1. RowsKept /\ calls' \in [Clients -> ClientCall] /\ \A d \in Clients : CallMoves(d)
    BY <1>1, <1>10, PlacesStay, AwaitingMoves DEF Relinquish
  <2> QED BY <1>2, <2>1, CallStep
<1> QED BY <1>4, <1>5, <1>6, <1>7, <1>8, <1>9, <1>10

LEMMA AgentQuiet ==
  ASSUME DaemonInv,
         \/ \E l \in Agent : \/ TurnStarts(l) \/ TurnFails(l) \/ TurnAsks(l) \/ PromptAnswered(l)
                            \/ \E c \in Clients : DecideApproval(c, l)
         \/ ShutdownEnds
         \/ UNCHANGED daemonVars
  PROVE  DaemonInv' /\ RowsKept
<1>1. DaemonTypeOK /\ AgentsOK
  BY DEF DaemonInv
<1>2. UNCHANGED <<sessions, calls, held, record, done, contended>> /\ closing' \in {closing, "closed"}
  BY DEF TurnStarts, TurnFails, TurnAsks, PromptAnswered, DecideApproval, ShutdownEnds, daemonVars
<1>3. RowsKept
  <2>1. CASE ShutdownEnds \/ UNCHANGED daemonVars
    BY <1>1, <2>1, PlacesStay DEF ShutdownEnds, daemonVars
  <2> QED BY <1>1, <2>1, TurnRowsKept
<1>4. calls' \in [Clients -> ClientCall] /\ \A d \in Clients : CallMoves(d)
  BY <1>1, <1>2 DEF CallMoves, DaemonTypeOK
<1> QED BY <1>2, <1>3, <1>4, CallStep

(* What a session keeps when nothing is done to the agents that serve it. *)
ServedAlike(s) ==
  /\ closing' = closing /\ sessions'[s] = sessions[s] /\ record'[s] = record[s] /\ done'[s] = done[s]
  /\ Agent \subseteq Agent'
  /\ \A l \in Agent : /\ agents'[l].session = agents[l].session
                      /\ agents[l].session = s => agents'[l] = agents[l]
  /\ \A l \in Agent' \ Agent : agents'[l].session # s

(* A session that a step does not serve otherwise stays served alone.      *)
LEMMA OthersServed ==
  ASSUME DaemonInv, NEW s \in Sessions, Alone(s), ServedAlike(s),
         \A c \in Clients : calls'[c] = calls[c] \/ ~CallOn(c, s)'
  PROVE  Alone(s)'
<1>1. DaemonTypeOK /\ NamesOK
  BY DEF DaemonInv
<1>2. sessions[s] # NoAgent => sessions[s] \in Agent /\ agents[sessions[s]].session = s
  BY <1>1 DEF DaemonTypeOK, NamesOK
<1>3. \A c \in Clients : On(c, s)' => On(c, s)
  BY <1>2 DEF On, AttachedTo, CallOn, ServedAlike
<1>4. OneClient(s)'
  BY <1>3 DEF Alone, OneClient
<1>5. \A l \in Agent' : agents'[l].session = s =>
        l \in Agent /\ agents[l].session = s /\ agents'[l] = agents[l] /\ (Outstanding(l)' <=> Outstanding(l))
  BY DEF ServedAlike, Outstanding
<1>6. OneWorks(s)'
  BY <1>5 DEF Alone, OneWorks, ServedAlike
<1>7. ASSUME closing' = "no", NEW c \in Clients, CallOn(c, s)' PROVE CallOK(c, s)'
  <2>1. calls'[c] = calls[c] /\ CallOK(c, s)
    BY <1>7 DEF Alone, UpToDate, CallOn, ServedAlike
  <2>2. calls[c].op \in {"draining", "disposing", "handing", "retiring"} => calls[c].agent \in Agent
    BY <1>1 DEF NamesOK
  <2>3. CASE calls[c].op \in {"draining", "disposing", "handing", "retiring"}
    <3>1. sessions[s] = calls[c].agent /\ calls[c].agent \in Agent
      BY <2>1, <2>2, <2>3 DEF CallOK
    <3>2. agents'[calls[c].agent] = agents[calls[c].agent]
      BY <1>2, <3>1 DEF ServedAlike, NoAgent, Agent
    <3> QED BY <2>1, <2>3, <3>1, <3>2 DEF CallOK, ServedAlike, Outstanding
  <2>4. CASE calls[c].op \notin {"draining", "disposing", "handing", "retiring"}
    BY <2>1, <2>4 DEF CallOK, ServedAlike
  <2> QED BY <2>3, <2>4
<1>8. UpToDate(s)'
  BY <1>2, <1>7 DEF Alone, UpToDate, ServedAlike
<1> QED BY <1>4, <1>6, <1>8 DEF Alone, ServedAlike

LEMMA AttachKeeps ==
  ASSUME DaemonInv, NEW c \in Clients, NEW s \in Sessions, Attach(c, s)
  PROVE  DaemonInv'
<1> DEFINE l == sessions[s]
           a == [agents[l] EXCEPT !.subscribers = @ \cup {c}]
<1>1. DaemonTypeOK /\ AgentsOK /\ NamesOK
  BY DEF DaemonInv
<1>2. l \in Agent /\ agents[l].session = s
  BY <1>1 DEF DaemonTypeOK, NamesOK, Attach
<1>3. /\ a \in AgentState /\ a.session = agents[l].session /\ a.accepted = agents[l].accepted
      /\ a.finished = agents[l].finished /\ a.phase = agents[l].phase /\ a.transcript = agents[l].transcript
  BY <1>1, <1>2, AgentRows DEF AgentState
<1>4. agents' = [agents EXCEPT ![l] = a]
  BY DEF Attach, Update
<1> HIDE DEF a
<1>5. /\ agents' \in Seq(AgentState) /\ Len(agents') = Len(agents) /\ agents'[l] = a
      /\ \A m \in Agent : m # l => agents'[m] = agents[m]
  BY <1>1, <1>2, <1>3, <1>4, OneRow
<1>6. Agent' = Agent
  BY <1>5 DEF Agent
<1>7. UNCHANGED <<sessions, calls, closing, held, record, done>> /\ contended \subseteq contended'
      /\ contended' \subseteq contended \cup {s}
      /\ (s \notin contended' => \A d \in Clients \ {c} : ~On(d, s)) /\ calls[c] = NoCall
  BY DEF Attach, Contend, Free, On
<1>8. DaemonTypeOK'
  BY <1>1, <1>5, <1>6, <1>7 DEF DaemonTypeOK
<1>9. \A m \in Agent : /\ agents'[m].session = agents[m].session /\ agents'[m].accepted = agents[m].accepted
                      /\ agents'[m].finished = agents[m].finished /\ agents'[m].phase = agents[m].phase
                      /\ agents'[m].transcript = agents[m].transcript
  BY <1>3, <1>5
<1>10. AgentsOK' /\ NamesOK'
  BY <1>1, <1>6, <1>7, <1>9 DEF AgentsOK, NamesOK, Outstanding, DaemonTypeOK
<1>11. ASSUME NEW t \in Sessions, t \notin contended' PROVE Alone(t)'
  <2>1. Alone(t)
    BY <1>7, <1>11 DEF DaemonInv
  <2>2. CASE t # s
    <3>1. ServedAlike(t)
      BY <1>2, <1>3, <1>5, <1>6, <1>7, <2>2 DEF ServedAlike
    <3> QED BY <1>7, <2>1, <3>1, OthersServed
  <2>3. CASE t = s
    <3>1. \A d \in Clients \ {c} : ~On(d, s)'
      <4> TAKE d \in Clients \ {c}
      <4>1. ~On(d, s)
        BY <1>7, <1>11, <2>3
      <4>2. d \in a.subscribers => d \in agents[l].subscribers
        BY <1>1, <1>2, AgentRows DEF AgentState, a
      <4> QED BY <1>2, <1>5, <1>7, <4>1, <4>2 DEF On, AttachedTo, CallOn
    <3>2. OneClient(s)'
      BY <3>1 DEF OneClient
    <3>3. OneWorks(s)'
      BY <1>6, <1>7, <1>9, <2>1, <2>3 DEF Alone, OneWorks, Outstanding
    <3>4. \A d \in Clients : ~CallOn(d, s)'
      BY <1>7, <3>1 DEF On, CallOn
    <3>5. UpToDate(s)'
      BY <1>2, <1>7, <1>9, <2>1, <2>3, <3>4 DEF Alone, UpToDate
    <3> QED BY <1>7, <2>1, <2>3, <3>2, <3>3, <3>5 DEF Alone
  <2> QED BY <2>2, <2>3
<1> QED BY <1>8, <1>10, <1>11 DEF DaemonInv

LEMMA OpenBeginsKeeps ==
  ASSUME DaemonInv, NEW c \in Clients, NEW s \in Sessions, NEW resumed, OpenBegins(c, s, resumed)
  PROVE  DaemonInv'
<1> DEFINE call == [op |-> "open", session |-> s, transcript |-> resumed]
<1>1. DaemonTypeOK /\ AgentsOK /\ NamesOK
  BY DEF DaemonInv
<1>2. resumed \in Transcript
  BY <1>1, CallFields DEF DaemonTypeOK, OpenBegins
<1>3. call \in ClientCall /\ call.op = "open" /\ call.session = s /\ call.transcript = resumed
  BY <1>2 DEF ClientCall
<1>4. calls' = [calls EXCEPT ![c] = call] /\ calls \in [Clients -> ClientCall]
  BY <1>1 DEF OpenBegins, DaemonTypeOK
<1> HIDE DEF call
<1>5. calls' \in [Clients -> ClientCall] /\ calls'[c] = call /\ \A d \in Clients : d # c => calls'[d] = calls[d]
  BY <1>3, <1>4
<1>6. UNCHANGED <<sessions, agents, closing, held, record, done>> /\ contended \subseteq contended'
      /\ contended' \subseteq contended \cup {s}
      /\ (s \notin contended' => \A d \in Clients \ {c} : ~On(d, s))
      /\ sessions[s] = NoAgent /\ closing = "no"
  BY DEF OpenBegins, Contend, On
<1>7. Agent' = Agent
  BY <1>6 DEF Agent
<1>8. DaemonTypeOK'
  BY <1>1, <1>5, <1>6, <1>7 DEF DaemonTypeOK
<1>9. AgentsOK' /\ NamesOK'
  BY <1>1, <1>3, <1>5, <1>6, <1>7 DEF AgentsOK, NamesOK, Outstanding
<1>10. ASSUME NEW t \in Sessions, t \notin contended' PROVE Alone(t)'
  <2>1. Alone(t)
    BY <1>6, <1>10 DEF DaemonInv
  <2>2. CASE t # s
    <3>1. ServedAlike(t)
      BY <1>6, <1>7 DEF ServedAlike
    <3>2. \A d \in Clients : calls'[d] = calls[d] \/ ~CallOn(d, t)'
      BY <1>3, <1>5, <2>2 DEF CallOn
    <3> QED BY <2>1, <3>1, <3>2, OthersServed
  <2>3. CASE t = s
    <3>1. \A d \in Clients \ {c} : ~On(d, s)'
      <4> TAKE d \in Clients \ {c}
      <4>1. ~On(d, s)
        BY <1>6, <1>10, <2>3
      <4> QED BY <1>5, <1>6, <4>1 DEF On, AttachedTo, CallOn
    <3>2. OneClient(s)'
      BY <3>1 DEF OneClient
    <3>3. OneWorks(s)'
      BY <1>6, <1>7, <2>1, <2>3 DEF Alone, OneWorks, Outstanding
    <3>4. resumed = record[s]
      <4>1. CASE calls[c] = NoCall
        BY <1>1, <4>1, CallFields DEF OpenBegins
      <4>2. CASE calls[c] # NoCall
        <5>1. calls[c].op = "carrying" /\ calls[c].session = s /\ resumed = calls[c].transcript
          BY <4>2 DEF OpenBegins
        <5>2. CallOK(c, s)
          BY <1>6, <2>1, <2>3, <4>2, <5>1 DEF Alone, UpToDate, CallOn
        <5> QED BY <5>1, <5>2 DEF CallOK
      <4> QED BY <4>1, <4>2
    <3>5. CallOK(c, s)'
      BY <1>3, <1>5, <1>6, <3>4 DEF CallOK
    <3>6. UpToDate(s)'
      BY <1>6, <3>1, <3>5 DEF UpToDate, On
    <3> QED BY <1>6, <2>1, <2>3, <3>2, <3>3, <3>6 DEF Alone
  <2> QED BY <2>2, <2>3
<1> QED BY <1>8, <1>9, <1>10 DEF DaemonInv

LEMMA OpenEndsKeeps ==
  ASSUME DaemonInv, NEW c \in Clients, OpenEnds(c),
         NEW s, s = calls[c].session, NEW n, n = Len(agents) + 1
  PROVE  DaemonInv'
<1> DEFINE a == [session |-> s, subscribers |-> {c}, accepted |-> <<>>, finished |-> 0,
                 remembered |-> <<>>, phase |-> "idle", asked |-> 0, transcript |-> calls[c].transcript]
<1>1. DaemonTypeOK /\ AgentsOK /\ NamesOK
  BY DEF DaemonInv
<1>2. s \in Sessions /\ calls[c].transcript \in Transcript /\ calls[c].op = "open" /\ CallOn(c, s)
  BY <1>1, CallFields DEF OpenEnds, CallOn, NoCall
<1>3. a \in AgentState
  <2>1. <<>> \in Seq(Commands) /\ 0 \in 0..MaxAsks
    BY DaemonAssumption, EmptySeq
  <2> QED BY <1>2, <2>1 DEF AgentState
<1>4. /\ a.session = s /\ a.subscribers = {c} /\ a.finished = 0 /\ Len(a.accepted) = 0
      /\ a.phase = "idle" /\ a.transcript = calls[c].transcript
  OBVIOUS
<1>5. /\ agents' = Append(agents, a) /\ sessions' = [sessions EXCEPT ![s] = n]
      /\ calls' = [calls EXCEPT ![c] = NoCall]
      /\ UNCHANGED <<closing, held, record, done, contended>>
  BY DEF OpenEnds
<1> HIDE DEF a
<1>6. agents \in Seq(AgentState) /\ Len(agents) \in Nat
  BY <1>1, AgentRows DEF DaemonTypeOK
<1>7. /\ agents' \in Seq(AgentState) /\ Len(agents') = n /\ agents'[n] = a
      /\ \A m \in Agent : agents'[m] = agents[m]
  BY <1>3, <1>5, <1>6 DEF Agent
<1>8. Agent' = Agent \cup {n} /\ n \notin Agent /\ n # NoAgent
  BY <1>6, <1>7 DEF Agent, NoAgent
<1>9. /\ calls' \in [Clients -> ClientCall] /\ calls'[c] = NoCall
      /\ \A d \in Clients : d # c => calls'[d] = calls[d]
  BY <1>1, <1>5 DEF DaemonTypeOK, ClientCall
<1>10. /\ sessions' \in [Sessions -> {NoAgent} \cup Agent'] /\ sessions'[s] = n
       /\ \A t \in Sessions : t # s => sessions'[t] = sessions[t]
  BY <1>1, <1>2, <1>5, <1>8 DEF DaemonTypeOK
<1>11. DaemonTypeOK'
  BY <1>1, <1>5, <1>7, <1>8, <1>9, <1>10 DEF DaemonTypeOK
<1>12. AgentsOK'
  BY <1>1, <1>4, <1>7, <1>8 DEF AgentsOK, Outstanding
<1>13. NamesOK'
  <2>1. \A t \in Sessions : sessions'[t] # NoAgent => agents'[sessions'[t]].session = t
    BY <1>1, <1>4, <1>7, <1>8, <1>10 DEF NamesOK, DaemonTypeOK
  <2>2. \A d \in Clients : calls'[d].op \in {"draining", "disposing", "handing", "retiring"} => calls'[d].agent \in Agent'
    BY <1>1, <1>8, <1>9 DEF NamesOK, NoCall
  <2> QED BY <2>1, <2>2 DEF NamesOK
<1>14. ASSUME NEW t \in Sessions, t \notin contended PROVE Alone(t)'
  <2>1. Alone(t)
    BY <1>14 DEF DaemonInv
  <2>2. CASE t # s
    <3>1. ServedAlike(t)
      BY <1>4, <1>5, <1>7, <1>8, <1>10, <2>2 DEF ServedAlike
    <3>2. \A d \in Clients : calls'[d] = calls[d] \/ ~CallOn(d, t)'
      BY <1>9 DEF CallOn
    <3> QED BY <2>1, <3>1, <3>2, OthersServed
  <2>3. CASE t = s
    <3>1. \A d \in Clients : On(d, s) => d = c
      BY <1>2, <2>1, <2>3 DEF Alone, OneClient, On
    <3>2. \A d \in Clients : ~CallOn(d, s)'
      BY <1>9, <3>1 DEF CallOn, On
    <3>3. \A d \in Clients : AttachedTo(d, s)' => d = c
      BY <1>4, <1>7, <1>10 DEF AttachedTo
    <3>4. OneClient(s)'
      BY <3>2, <3>3 DEF OneClient, On
    <3>5. /\ closing = "no" => sessions[s] = NoAgent /\ calls[c].transcript = record[s]
      BY <1>2, <2>1, <2>3 DEF Alone, UpToDate, CallOK
    <3>6. \A l \in Agent' : agents'[l].session = s /\ Outstanding(l)' =>
            l \in Agent /\ agents[l].session = s /\ Outstanding(l) /\ agents'[l] = agents[l]
      BY <1>4, <1>7, <1>8 DEF Outstanding
    <3>7. OneWorks(s)'
      <4>1. OneWorks(s) /\ closing' = closing /\ record' = record
        BY <1>5, <2>1, <2>3 DEF Alone
      <4>2. \A l \in Agent : agents[l].session = s /\ Outstanding(l) => closing # "no"
        BY <3>5, <4>1 DEF OneWorks, NoAgent, Agent
      <4> QED BY <3>6, <4>1, <4>2 DEF OneWorks
    <3>8. UpToDate(s)'
      BY <1>4, <1>5, <1>7, <1>10, <3>2, <3>5 DEF UpToDate
    <3> QED BY <1>5, <2>1, <2>3, <3>4, <3>7, <3>8 DEF Alone
  <2> QED BY <2>2, <2>3
<1> QED BY <1>5, <1>11, <1>12, <1>13, <1>14 DEF DaemonInv

LEMMA SendKeeps ==
  ASSUME DaemonInv, NEW c \in Clients, NEW s \in Sessions, NEW k \in Commands, SendCommand(c, s, k),
         NEW l, l = sessions[s]
  PROVE  /\ DaemonInv'
         /\ \A m \in Agent : m # l => agents'[m] = agents[m]
         /\ l \in Agent /\ Agent' = Agent
         /\ agents'[l].accepted = Append(agents[l].accepted, k)
         /\ agents'[l].remembered = Remember(agents[l].remembered, k)
<1> DEFINE r == agents[l]
           a == [r EXCEPT !.accepted = Append(@, k), !.remembered = Remember(@, k)]
<1>1. DaemonTypeOK /\ AgentsOK /\ NamesOK
  BY DEF DaemonInv
<1>2. l \in Agent /\ r.session = s
  BY <1>1, AttachedAgent DEF NamesOK, SendCommand, AttachedTo
<1>3. r \in AgentState /\ r.accepted \in Seq(Commands) /\ r.remembered \in Seq(Commands) /\ Len(r.accepted) \in Nat
  BY <1>1, <1>2, AgentRows
<1>4. Append(r.accepted, k) \in Seq(Commands) /\ Len(Append(r.accepted, k)) = Len(r.accepted) + 1
  BY <1>3
<1>5. Remember(r.remembered, k) \in Seq(Commands)
  <2>1. Append(r.remembered, k) \in Seq(Commands) /\ Append(r.remembered, k) # <<>>
    BY <1>3
  <2> QED BY <2>1, HeadTailProperties DEF Remember
<1>6. /\ a \in AgentState /\ a.session = s /\ a.finished = r.finished /\ a.phase = r.phase
      /\ a.transcript = r.transcript /\ a.subscribers = r.subscribers
      /\ a.accepted = Append(r.accepted, k) /\ a.remembered = Remember(r.remembered, k)
  BY <1>2, <1>3, <1>4, <1>5 DEF AgentState
<1>7. agents' = [agents EXCEPT ![l] = a]
  BY DEF SendCommand
<1> HIDE DEF a
<1>8. /\ agents' \in Seq(AgentState) /\ Len(agents') = Len(agents) /\ agents'[l] = a
      /\ \A m \in Agent : m # l => agents'[m] = agents[m]
  BY <1>1, <1>2, <1>6, <1>7, OneRow
<1>9. Agent' = Agent
  BY <1>8 DEF Agent
<1>10. UNCHANGED <<sessions, calls, closing, held, record, done, contended>>
       /\ closing = "no" /\ calls[c] = NoCall /\ AttachedTo(c, s)
  BY DEF SendCommand, Free
<1>11. DaemonTypeOK'
  BY <1>1, <1>8, <1>9, <1>10 DEF DaemonTypeOK
<1>12. \A m \in Agent : /\ agents'[m].session = agents[m].session /\ agents'[m].transcript = agents[m].transcript
                       /\ agents'[m].finished = agents[m].finished /\ agents'[m].phase = agents[m].phase
                       /\ agents'[m].subscribers = agents[m].subscribers
  BY <1>2, <1>6, <1>8
<1>13. AgentsOK'
  <2> SUFFICES ASSUME NEW m \in Agent
      PROVE  /\ agents'[m].finished <= Len(agents'[m].accepted)
             /\ agents'[m].phase # "idle" => agents'[m].finished < Len(agents'[m].accepted)
    BY <1>9 DEF AgentsOK, Outstanding
  <2>1. /\ agents[m].finished <= Len(agents[m].accepted) /\ agents[m].finished \in Nat /\ Len(agents[m].accepted) \in Nat
        /\ (agents[m].phase # "idle" => agents[m].finished < Len(agents[m].accepted))
    BY <1>1, AgentRows DEF AgentsOK, Outstanding
  <2>2. CASE m = l
    <3>1. agents'[m].finished = agents[m].finished /\ Len(agents'[m].accepted) = Len(agents[m].accepted) + 1
      BY <1>4, <1>6, <1>8, <2>2
    <3> QED BY <2>1, <3>1
  <2>3. CASE m # l
    BY <1>8, <2>1, <2>3
  <2> QED BY <2>2, <2>3
<1>14. NamesOK'
  BY <1>1, <1>9, <1>10, <1>12 DEF NamesOK, DaemonTypeOK
<1>15. ASSUME NEW t \in Sessions, t \notin contended PROVE Alone(t)'
  <2>1. Alone(t)
    BY <1>15 DEF DaemonInv
  <2>2. CASE t # s
    <3>1. ServedAlike(t)
      BY <1>2, <1>8, <1>9, <1>10, <1>12, <2>2 DEF ServedAlike
    <3> QED BY <1>10, <2>1, <3>1, OthersServed
  <2>3. CASE t = s
    <3>1. \A d \in Clients : On(d, s)' => On(d, s)
      BY <1>2, <1>10, <1>12 DEF On, AttachedTo, CallOn
    <3>2. OneClient(s)'
      BY <2>1, <2>3, <3>1 DEF Alone, OneClient
    <3>3. \A d \in Clients : ~CallOn(d, s)
      BY <1>10, <2>1, <2>3 DEF Alone, OneClient, On, CallOn
    <3>4. l # NoAgent /\ agents[l].transcript = record[s]
      BY <1>2, <1>10, <2>1, <2>3 DEF Alone, UpToDate, NoAgent, Agent
    <3>5. \A m \in Agent : agents[m].session = s /\ Outstanding(m)' => m = l
      <4> TAKE m \in Agent
      <4>1. m # l /\ Outstanding(m)' => Outstanding(m)
        BY <1>8 DEF Outstanding
      <4> QED BY <1>10, <2>1, <2>3, <4>1 DEF Alone, OneWorks
    <3>6. OneWorks(s)'
      BY <1>9, <1>10, <1>12, <3>4, <3>5 DEF OneWorks
    <3>7. UpToDate(s)'
      BY <1>2, <1>10, <1>12, <3>3, <3>4 DEF UpToDate, CallOn
    <3> QED BY <1>10, <2>1, <2>3, <3>2, <3>6, <3>7 DEF Alone
  <2> QED BY <2>2, <2>3
<1>16. DaemonInv'
  BY <1>10, <1>11, <1>13, <1>14, <1>15 DEF DaemonInv
<1> QED BY <1>2, <1>6, <1>8, <1>9, <1>16

LEMMA TurnEndsKeeps ==
  ASSUME DaemonInv, NEW l \in Agent, TurnEnds(l), NEW s, s = agents[l].session
  PROVE  /\ DaemonInv' /\ Agent' = Agent
         /\ \A m \in Agent : /\ agents'[m].accepted = agents[m].accepted
                            /\ agents'[m].remembered = agents[m].remembered
<1> DEFINE r == agents[l]
           k == r.accepted[r.finished + 1]
           shown == Append(r.transcript, k)
           a == [r EXCEPT !.phase = "idle", !.asked = 0, !.finished = @ + 1, !.transcript = shown]
<1>1. DaemonTypeOK /\ AgentsOK /\ NamesOK
  BY DEF DaemonInv
<1>2. /\ r \in AgentState /\ r.accepted \in Seq(Commands) /\ r.transcript \in Seq(Commands)
      /\ r.finished \in Nat /\ Len(r.accepted) \in Nat /\ r.finished < Len(r.accepted) /\ s \in Sessions
  BY <1>1, AgentRows DEF AgentsOK, Outstanding, TurnEnds, Transcript
<1>3. k \in Commands
  <2>1. r.finished + 1 \in 1..Len(r.accepted)
    BY <1>2
  <2> QED BY <1>2, <2>1, ElementOfSeq
<1>4. shown \in Seq(Commands)
  BY <1>2, <1>3
<1>5. a \in AgentState
  <2>1. r.finished + 1 \in Nat /\ 0 \in 0..MaxAsks
    BY <1>2, DaemonAssumption
  <2> HIDE DEF shown
  <2> QED BY <1>2, <1>4, <2>1 DEF AgentState, Transcript
<1>6. /\ a.session = s /\ a.accepted = r.accepted /\ a.remembered = r.remembered /\ a.subscribers = r.subscribers
      /\ a.finished = r.finished + 1 /\ a.phase = "idle" /\ a.transcript = shown
  BY <1>2 DEF AgentState
<1>7. /\ agents' = [agents EXCEPT ![l] = a]
      /\ done' = [done EXCEPT ![s] = Append(@, k)]
      /\ record' = [record EXCEPT ![s] = IF @ = r.transcript THEN shown ELSE @]
      /\ UNCHANGED <<sessions, calls, closing, held, contended>>
  BY DEF TurnEnds, Over
<1> HIDE DEF a, shown, k
<1>8. /\ agents' \in Seq(AgentState) /\ Len(agents') = Len(agents) /\ agents'[l] = a
      /\ \A m \in Agent : m # l => agents'[m] = agents[m]
  BY <1>1, <1>5, <1>7, OneRow
<1>9. Agent' = Agent
  BY <1>8 DEF Agent
<1>10. done \in [Sessions -> Transcript] /\ record \in [Sessions -> Transcript]
  BY <1>1 DEF DaemonTypeOK
<1>11. /\ done' \in [Sessions -> Transcript] /\ done'[s] = Append(done[s], k)
       /\ \A t \in Sessions : t # s => done'[t] = done[t]
  <2>1. Append(done[s], k) \in Transcript
    BY <1>2, <1>3, <1>10 DEF Transcript
  <2> QED BY <1>2, <1>7, <1>10, <2>1
<1>12. /\ record' \in [Sessions -> Transcript]
       /\ record'[s] = IF record[s] = r.transcript THEN shown ELSE record[s]
       /\ \A t \in Sessions : t # s => record'[t] = record[t]
  <2>1. shown \in Transcript
    BY <1>4 DEF Transcript
  <2> QED BY <1>2, <1>7, <1>10, <2>1
<1>13. DaemonTypeOK'
  BY <1>1, <1>7, <1>8, <1>9, <1>11, <1>12 DEF DaemonTypeOK
<1>14. \A m \in Agent : /\ agents'[m].session = agents[m].session /\ agents'[m].accepted = agents[m].accepted
                       /\ agents'[m].remembered = agents[m].remembered
                       /\ agents'[m].subscribers = agents[m].subscribers
                       /\ (Outstanding(m)' => Outstanding(m))
  <2> TAKE m \in Agent
  <2>1. CASE m = l
    BY <1>2, <1>6, <1>8, <2>1 DEF Outstanding
  <2>2. CASE m # l
    BY <1>8, <2>2 DEF Outstanding
  <2> QED BY <2>1, <2>2
<1>15. AgentsOK'
  <2> SUFFICES ASSUME NEW m \in Agent
      PROVE  /\ agents'[m].finished <= Len(agents'[m].accepted)
             /\ agents'[m].phase # "idle" => agents'[m].finished < Len(agents'[m].accepted)
    BY <1>9 DEF AgentsOK, Outstanding
  <2>1. CASE m = l
    BY <1>2, <1>6, <1>8, <2>1
  <2>2. CASE m # l
    BY <1>1, <1>8, <2>2 DEF AgentsOK, Outstanding
  <2> QED BY <2>1, <2>2
<1>16. NamesOK'
  BY <1>1, <1>7, <1>9, <1>14 DEF NamesOK, DaemonTypeOK
<1>17. ASSUME NEW t \in Sessions, t \notin contended PROVE Alone(t)'
  <2>1. Alone(t)
    BY <1>17 DEF DaemonInv
  <2>2. CASE t # s
    <3>1. ServedAlike(t)
      BY <1>2, <1>7, <1>8, <1>9, <1>11, <1>12, <1>14, <2>2 DEF ServedAlike
    <3> QED BY <1>7, <2>1, <3>1, OthersServed
  <2>3. CASE t = s
    <3>1. \A d \in Clients : On(d, s)' => On(d, s)
      <4>1. sessions[s] # NoAgent => sessions[s] \in Agent
        BY <1>1, <1>2 DEF DaemonTypeOK
      <4> QED BY <1>7, <1>14, <4>1 DEF On, AttachedTo, CallOn
    <3>2. OneClient(s)'
      BY <2>1, <2>3, <3>1 DEF Alone, OneClient
    <3>3. Outstanding(l) /\ l # NoAgent
      BY <1>2 DEF Outstanding, Agent, NoAgent
    <3>4. /\ r.transcript = record[s] /\ (closing = "no" => sessions[s] = l)
          /\ \A m \in Agent : agents[m].session = s /\ Outstanding(m) => m = l
      BY <2>1, <2>3, <3>3 DEF Alone, OneWorks
    <3>5. record'[s] = shown /\ record'[s] = done'[s]
      BY <1>11, <1>12, <2>1, <2>3, <3>4 DEF Alone, shown
    <3>6. OneWorks(s)'
      BY <1>6, <1>7, <1>8, <1>9, <1>14, <3>4, <3>5 DEF OneWorks
    <3>7. UpToDate(s)'
      <4> SUFFICES ASSUME closing = "no"
          PROVE  /\ agents'[l].transcript = record'[s]
                 /\ \A d \in Clients : CallOn(d, s)' => CallOK(d, s)'
        BY <1>7, <3>4 DEF UpToDate
      <4>1. ASSUME NEW d \in Clients, CallOn(d, s)' PROVE CallOK(d, s)'
        <5>1. CallOK(d, s) /\ calls'[d] = calls[d]
          BY <1>7, <2>1, <2>3, <4>1 DEF Alone, UpToDate, CallOn
        <5>2. calls[d].op \notin {"open", "carrying", "disposing", "retiring"}
          BY <3>3, <3>4, <5>1 DEF CallOK
        <5>3. calls[d].op \in {"draining", "handing"} => calls[d].agent = l
          BY <3>4, <5>1 DEF CallOK
        <5> QED BY <1>7, <1>14, <5>1, <5>2, <5>3 DEF CallOK
      <4> QED BY <1>6, <1>8, <3>5, <4>1
    <3> QED BY <2>3, <3>2, <3>5, <3>6, <3>7 DEF Alone
  <2> QED BY <2>2, <2>3
<1> QED BY <1>7, <1>9, <1>13, <1>14, <1>15, <1>16, <1>17 DEF DaemonInv

LEMMA EndsKeep ==
  ASSUME DaemonInv, NEW c \in Clients, DisposeEnds(c) \/ RelinquishEnds(c), NEW s, s = calls[c].session
  PROVE  DaemonInv'
<1> DEFINE carried == [op |-> "carrying", session |-> s, transcript |-> calls[c].transcript]
           call == IF calls[c].op = "retiring" THEN carried ELSE NoCall
<1>1. DaemonTypeOK /\ AgentsOK /\ NamesOK
  BY DEF DaemonInv
<1>2. /\ calls[c].op \in {"disposing", "retiring"} /\ s \in Sessions /\ CallOn(c, s)
      /\ (calls[c].op = "retiring" => calls[c].transcript \in Transcript)
  BY <1>1, CallFields DEF DisposeEnds, RelinquishEnds, CallOn, NoCall
<1>3. calls' = [calls EXCEPT ![c] = call] /\ sessions' = [sessions EXCEPT ![s] = NoAgent]
      /\ UNCHANGED <<agents, closing, held, record, done, contended>>
  BY DEF DisposeEnds, RelinquishEnds
<1>4. call \in ClientCall
  BY <1>2 DEF ClientCall
<1>5. \/ call = NoCall
      \/ /\ call.op = "carrying" /\ call.session = s /\ call.transcript = calls[c].transcript
         /\ calls[c].op = "retiring"
  OBVIOUS
<1> HIDE DEF call
<1>6. calls' \in [Clients -> ClientCall] /\ calls'[c] = call /\ \A d \in Clients : d # c => calls'[d] = calls[d]
  BY <1>1, <1>3, <1>4 DEF DaemonTypeOK
<1>7. Agent' = Agent
  BY <1>3 DEF Agent
<1>8. /\ sessions' \in [Sessions -> {NoAgent} \cup Agent] /\ sessions'[s] = NoAgent
      /\ \A t \in Sessions : t # s => sessions'[t] = sessions[t]
  BY <1>1, <1>2, <1>3 DEF DaemonTypeOK
<1>9. DaemonTypeOK'
  BY <1>1, <1>3, <1>6, <1>7, <1>8 DEF DaemonTypeOK
<1>10. AgentsOK'
  BY <1>1, <1>3, <1>7 DEF AgentsOK, Outstanding
<1>11. NamesOK'
  BY <1>1, <1>3, <1>5, <1>6, <1>7, <1>8 DEF NamesOK, NoCall
<1>12. ASSUME NEW t \in Sessions, t \notin contended PROVE Alone(t)'
  <2>1. Alone(t)
    BY <1>12 DEF DaemonInv
  <2>2. CASE t # s
    <3>1. ServedAlike(t)
      BY <1>3, <1>7, <1>8, <2>2 DEF ServedAlike
    <3>2. \A d \in Clients : calls'[d] = calls[d] \/ ~CallOn(d, t)'
      BY <1>5, <1>6, <2>2 DEF CallOn
    <3> QED BY <2>1, <3>1, <3>2, OthersServed
  <2>3. CASE t = s
    <3>1. \A d \in Clients : On(d, s) => d = c
      BY <1>2, <2>1, <2>3 DEF Alone, OneClient, On
    <3>2. \A d \in Clients : On(d, s)' => d = c
      BY <1>6, <1>8, <3>1 DEF On, AttachedTo, CallOn
    <3>3. OneClient(s)'
      BY <3>2 DEF OneClient
    <3>4. closing = "no" => CallOK(c, s)
      BY <1>2, <2>1, <2>3 DEF Alone, UpToDate
    <3>5. closing = "no" => \A l \in Agent : ~(agents[l].session = s /\ Outstanding(l))
      BY <1>2, <2>1, <2>3, <3>4 DEF Alone, OneWorks, CallOK
    <3>6. OneWorks(s)'
      <4>1. OneWorks(s)
        BY <2>1, <2>3 DEF Alone
      <4> QED BY <1>3, <1>7, <3>5, <4>1 DEF OneWorks, Outstanding
    <3>7. closing = "no" => CallOK(c, s)' \/ ~CallOn(c, s)'
      BY <1>3, <1>5, <1>6, <1>8, <3>4 DEF CallOK, CallOn
    <3>8. UpToDate(s)'
      BY <1>3, <1>8, <3>2, <3>7 DEF UpToDate, On
    <3> QED BY <1>3, <2>1, <2>3, <3>3, <3>6, <3>8 DEF Alone
  <2> QED BY <2>2, <2>3
<1> QED BY <1>3, <1>9, <1>10, <1>11, <1>12 DEF DaemonInv

LEMMA ShutdownKeeps ==
  ASSUME DaemonInv, Shutdown
  PROVE  DaemonInv' /\ RowsKept
<1>1. DaemonTypeOK /\ AgentsOK /\ NamesOK
  BY DEF DaemonInv
<1>2. RowsKept
  BY <1>1, DenyRowsKept DEF Shutdown
<1>3. /\ Agent' = Agent /\ Len(agents') = Len(agents) /\ agents' \in Seq(AgentState)
      /\ \A l \in Agent : Kept(agents[l], agents'[l])
  BY <1>2 DEF RowsKept, Agent
<1>4. /\ closing = "no" /\ closing' = "draining" /\ UNCHANGED <<calls, record, done, contended>>
      /\ sessions' = [s \in Sessions |-> NoAgent] /\ held' = {sessions[s] : s \in Sessions} \ {NoAgent}
  BY DEF Shutdown
<1>5. sessions' \in [Sessions -> {NoAgent} \cup Agent] /\ \A s \in Sessions : sessions'[s] = NoAgent
  BY <1>4
<1>6. held' \subseteq Agent
  BY <1>1, <1>4 DEF DaemonTypeOK
<1>7. DaemonTypeOK'
  BY <1>1, <1>3, <1>4, <1>5, <1>6 DEF DaemonTypeOK
<1>8. \A l \in Agent : /\ Outstanding(l)' => Outstanding(l)
                      /\ agents'[l].session = agents[l].session /\ agents'[l].transcript = agents[l].transcript
  BY <1>1, <1>3, AgentRows DEF Kept, Outstanding
<1>9. AgentsOK'
  BY <1>3 DEF AgentsOK, Outstanding, Kept
<1>10. NamesOK'
  BY <1>1, <1>3, <1>4, <1>5 DEF NamesOK
<1>11. ASSUME NEW s \in Sessions, s \notin contended PROVE Alone(s)'
  <2>1. Alone(s)
    BY <1>11 DEF DaemonInv
  <2>2. OneClient(s)'
    BY <1>4, <1>5, <2>1 DEF Alone, OneClient, On, AttachedTo, CallOn
  <2>3. OneWorks(s)'
    BY <1>3, <1>4, <1>8, <2>1 DEF Alone, OneWorks
  <2>4. UpToDate(s)'
    BY <1>4 DEF UpToDate
  <2> QED BY <1>4, <2>1, <2>2, <2>3, <2>4 DEF Alone
<1> QED BY <1>2, <1>4, <1>7, <1>9, <1>10, <1>11 DEF DaemonInv

LEMMA DaemonStarts == DaemonInit => DaemonInv
<1> SUFFICES ASSUME DaemonInit PROVE DaemonInv
  OBVIOUS
<1>1. Len(agents) = 0 /\ agents \in Seq(AgentState) /\ <<>> \in Transcript
  BY EmptySeq DEF DaemonInit, Transcript
<1>2. Agent = {}
  BY <1>1 DEF Agent
<1>3. DaemonTypeOK
  BY <1>1, <1>2 DEF DaemonInit, DaemonTypeOK, ClientCall
<1>4. AgentsOK /\ NamesOK
  BY <1>2 DEF AgentsOK, NamesOK, DaemonInit, NoCall
<1>5. ASSUME NEW s \in Sessions PROVE Alone(s)
  BY <1>2, <1>5 DEF DaemonInit, Alone, OneClient, OneWorks, UpToDate, On, AttachedTo, CallOn
<1> QED BY <1>3, <1>4, <1>5 DEF DaemonInv

(* DaemonInv is inductive: one lemma per operation of the server and one   *)
(* for each second half.                                                   *)
LEMMA DaemonStep == DaemonInv /\ [DaemonNext]_daemonVars => DaemonInv'
<1> SUFFICES ASSUME DaemonInv, [DaemonNext]_daemonVars PROVE DaemonInv'
  OBVIOUS
<1>1. DaemonTypeOK
  BY DEF DaemonInv
<1>2. ASSUME NEW c \in Clients, Disconnect(c) \/ Drop(c) \/ OpenEnds(c) \/ OpenFails(c) \/ Finish(c)
      PROVE  DaemonInv'
  BY <1>2, OpenEndsKeeps, EndsKeep, ClientQuiet DEF Finish
<1>3. ASSUME NEW c \in Clients, NEW s \in Sessions, Release(c, s) \/ Dispose(c, s) \/ Relinquish(c, s)
      PROVE  DaemonInv'
  BY <1>3, ClientQuiet
<1>4. ASSUME NEW c \in Clients, NEW s \in Sessions,
             \/ Attach(c, s) \/ OpenBegins(c, s, record[s])
             \/ OpenBegins(c, s, calls[c].transcript) \/ \E k \in Commands : SendCommand(c, s, k)
      PROVE  DaemonInv'
  BY <1>4, AttachKeeps, OpenBeginsKeeps, SendKeeps
<1>5. ASSUME NEW l \in Agent, Turn(l) \/ \E c \in Clients : DecideApproval(c, l)
      PROVE  DaemonInv'
  BY <1>5, TurnEndsKeeps, AgentQuiet DEF Turn
<1> QED BY <1>2, <1>3, <1>4, <1>5, ShutdownKeeps, AgentQuiet DEF DaemonNext

LEMMA DaemonSound == DaemonSpec => []DaemonInv
BY DaemonStarts, DaemonStep, PTL DEF DaemonSpec

(* What the invariant says of a session one client uses is that it is      *)
(* served.                                                                 *)
LEMMA ServedFromInv == DaemonInv => SessionsAreServed
<1> SUFFICES ASSUME DaemonInv PROVE SessionsAreServed
  OBVIOUS
<1>1. DaemonTypeOK /\ AgentsOK /\ \A s \in Sessions \ contended : Alone(s)
  BY DEF DaemonInv
<1>2. NoTurnForgotten
  BY <1>1 DEF NoTurnForgotten, Alone
<1>3. OneAgentServes
  <2> SUFFICES ASSUME NEW l \in Agent, agents[l].session \notin contended, closing = "no",
                      agents[l].finished < Len(agents[l].accepted) \/ agents[l].phase # "idle"
      PROVE  sessions[agents[l].session] = l
    BY DEF OneAgentServes
  <2>1. Outstanding(l) /\ agents[l].session \in Sessions
    BY <1>1, AgentRows DEF AgentsOK, Outstanding
  <2>2. OneWorks(agents[l].session)
    BY <1>1, <2>1 DEF Alone
  <2> QED BY <2>1, <2>2 DEF OneWorks
<1> QED BY <1>1, <1>2, <1>3 DEF SessionsAreServed

(* The daemon serves a session by one agent that forgets no turn, as long  *)
(* as one client at a time uses it: LocalSessionServer's session map,      *)
(* attach, detach and shutdown across everything they await.               *)
THEOREM ServedTheorem == DaemonSpec => []SessionsAreServed
BY DaemonSound, ServedFromInv, PTL
-----------------------------------------------------------------------------
(* What an agent remembers are the last of the commands it accepted.       *)
RememberOK == \A l \in Agent : RowRemembers(agents[l]) /\ RowRetries(agents[l])

(* Accepting a command keeps the window of remembered commands exact and   *)
(* any two acceptances of one command further apart than it.               *)
LEMMA RememberRow ==
  ASSUME NEW a, NEW b, NEW k, a.accepted \in Seq(Commands), a.remembered \in Seq(Commands), k \in Commands,
         b.accepted = Append(a.accepted, k), b.remembered = Remember(a.remembered, k),
         \A i \in 1..Len(a.remembered) : a.remembered[i] # k,
         RowRemembers(a), RowRetries(a)
  PROVE  RowRemembers(b) /\ RowRetries(b)
<1> DEFINE A == a.accepted  R == a.remembered  n == Len(A)  m == Len(R)
           B == Append(A, k)  Q == Append(R, k)
<1>1. /\ A \in Seq(Commands) /\ R \in Seq(Commands) /\ n \in Nat /\ m \in Nat /\ KeepCommands \in Nat \ {0}
      /\ (n <= KeepCommands => m = n) /\ (n > KeepCommands => m = KeepCommands)
      /\ \A i \in 1..m : R[i] = A[n - m + i]
      /\ \A i, j \in 1..n : i < j /\ A[i] = A[j] => j - i > KeepCommands
      /\ \A i \in 1..m : R[i] # k
  BY DaemonAssumption DEF RowRemembers, Remembered, RowRetries
<1>2. /\ b.accepted = B /\ b.remembered = Remember(R, k)
  OBVIOUS
<1>3. /\ B \in Seq(Commands) /\ Len(B) = n + 1 /\ B[n + 1] = k
      /\ \A i \in 1..n : B[i] = A[i]
  BY <1>1
<1>4. /\ Q \in Seq(Commands) /\ Len(Q) = m + 1 /\ Q[m + 1] = k /\ Q # <<>>
      /\ \A i \in 1..m : Q[i] = R[i]
  BY <1>1
<1>5. Remember(R, k) = IF m + 1 > KeepCommands THEN Tail(Q) ELSE Q
  BY <1>4 DEF Remember
<1>6. /\ Len(Tail(Q)) = m /\ \A i \in 1..m : Tail(Q)[i] = Q[i + 1]
  BY <1>1, <1>4, HeadTailProperties
<1> DEFINE T == Tail(Q)
<1> HIDE DEF A, R, n, m, B, Q, T
<1>7. RowRetries(b)
  <2> SUFFICES ASSUME NEW i \in 1..(n + 1), NEW j \in 1..(n + 1), i < j, B[i] = B[j]
      PROVE  j - i > KeepCommands
    BY <1>2, <1>3 DEF RowRetries
  <2>1. CASE j <= n
    <3>1. i \in 1..n /\ j \in 1..n
      BY <1>1, <2>1
    <3> QED BY <1>1, <1>3, <3>1
  <2>2. CASE j > n
    <3>1. j = n + 1 /\ i \in 1..n
      BY <1>1, <2>2
    <3>2. A[i] = k
      BY <1>3, <3>1
    <3>3. i <= n - m
      <4> SUFFICES ASSUME i > n - m PROVE FALSE
        BY <1>1, <3>1
      <4>1. i - (n - m) \in 1..m /\ n - m + (i - (n - m)) = i
        BY <1>1, <3>1
      <4>2. R[i - (n - m)] = A[i]
        BY <1>1, <4>1
      <4> QED BY <1>1, <3>2, <4>1, <4>2
    <3>4. i > 0
      BY <3>1
    <3>5. n > KeepCommands /\ m = KeepCommands
      BY <1>1, <3>1, <3>3, <3>4
    <3> QED BY <1>1, <3>1, <3>3, <3>5
  <2> QED BY <1>1, <2>1, <2>2
<1>8. RowRemembers(b)
  <2>1. CASE m + 1 > KeepCommands
    <3>1. m = KeepCommands /\ n >= KeepCommands /\ ~(n + 1 <= KeepCommands)
      BY <1>1, <2>1
    <3>2. b.remembered = T
      BY <1>2, <1>5, <2>1 DEF T
    <3>3. \A i \in 1..m : T[i] = B[n + 1 - m + i]
      <4> TAKE i \in 1..m
      <4>1. CASE i = m
        <5>1. n + 1 - m + i = n + 1 /\ i + 1 = m + 1
          BY <1>1, <4>1
        <5> QED BY <1>3, <1>4, <1>6, <5>1 DEF T
      <4>2. CASE i # m
        <5>1. i + 1 \in 1..m /\ n - m + (i + 1) \in 1..n /\ n + 1 - m + i = n - m + (i + 1)
          BY <1>1, <3>1, <4>2
        <5>2. Q[i + 1] = A[n - m + (i + 1)]
          BY <1>1, <1>4, <5>1
        <5> QED BY <1>3, <1>6, <5>1, <5>2 DEF T
      <4> QED BY <4>1, <4>2
    <3>4. Len(T) = m /\ Len(B) = n + 1
      BY <1>3, <1>6 DEF T
    <3>5. Remembered(B, T)
      BY <1>1, <3>1, <3>3, <3>4 DEF Remembered
    <3> QED BY <1>2, <3>2, <3>5 DEF RowRemembers
  <2>2. CASE ~(m + 1 > KeepCommands)
    <3>1. m = n /\ n + 1 <= KeepCommands
      BY <1>1, <2>2
    <3>2. b.remembered = Q
      BY <1>2, <1>5, <2>2
    <3>3. \A i \in 1..(n + 1) : Q[i] = B[(n + 1) - (n + 1) + i]
      <4> TAKE i \in 1..(n + 1)
      <4>1. (n + 1) - (n + 1) + i = i /\ n - m + i = i /\ (i = n + 1 \/ i \in 1..n)
        BY <1>1, <3>1
      <4>2. CASE i = n + 1
        BY <1>3, <1>4, <3>1, <4>1, <4>2
      <4>3. CASE i \in 1..n
        BY <1>1, <1>3, <1>4, <3>1, <4>1, <4>3
      <4> QED BY <4>1, <4>2, <4>3
    <3>4. Len(Q) = n + 1 /\ Len(B) = n + 1
      BY <1>3, <1>4, <3>1
    <3>5. Remembered(B, Q)
      BY <1>1, <3>1, <3>3, <3>4 DEF Remembered
    <3> QED BY <1>2, <3>2, <3>5 DEF RowRemembers
  <2> QED BY <2>1, <2>2
<1> QED BY <1>7, <1>8

RowsAlike ==
  /\ Agent' = Agent
  /\ \A l \in Agent : /\ agents'[l].accepted = agents[l].accepted
                      /\ agents'[l].remembered = agents[l].remembered

(* Only an accepted command touches what an agent remembers.               *)
LEMMA RememberStep ==
  ASSUME DaemonInv, RememberOK, [DaemonNext]_daemonVars PROVE RememberOK'
<1>1. DaemonTypeOK
  BY DEF DaemonInv
<1>2. RowsAlike => RememberOK'
  BY DEF RowsAlike, RememberOK, RowRemembers, RowRetries
<1>3. RowsKept => RowsAlike
  BY DEF RowsKept, RowsAlike, Kept, Agent
<1>4. ASSUME NEW c \in Clients, Disconnect(c) \/ Drop(c) \/ OpenFails(c) \/ DisposeDrained(c) \/ RelinquishDrained(c)
      PROVE  RowsAlike
  BY <1>3, <1>4, ClientQuiet
<1>5. ASSUME NEW c \in Clients, NEW s \in Sessions, Release(c, s) \/ Dispose(c, s) \/ Relinquish(c, s)
      PROVE  RowsAlike
  BY <1>3, <1>5, ClientQuiet
<1>6. ASSUME NEW c \in Clients, NEW s \in Sessions, Attach(c, s) PROVE RowsAlike
  <2> DEFINE a == [agents[sessions[s]] EXCEPT !.subscribers = @ \cup {c}]
  <2>1. sessions[s] \in Agent
    BY <1>1, <1>6 DEF DaemonTypeOK, Attach
  <2>2. a \in AgentState /\ a.accepted = agents[sessions[s]].accepted /\ a.remembered = agents[sessions[s]].remembered
    BY <1>1, <2>1, AgentRows DEF AgentState
  <2>3. agents' = [agents EXCEPT ![sessions[s]] = a]
    BY <1>6 DEF Attach, Update
  <2> HIDE DEF a
  <2> QED BY <1>1, <2>1, <2>2, <2>3, OneRow DEF RowsAlike, Agent
<1>7. ASSUME UNCHANGED agents PROVE RowsAlike
  BY <1>7 DEF RowsAlike, Agent
<1>8. ASSUME NEW l \in Agent, Turn(l) \/ \E c \in Clients : DecideApproval(c, l) PROVE RowsAlike
  <2>1. CASE TurnEnds(l)
    BY <2>1, TurnEndsKeeps DEF RowsAlike
  <2> QED BY <1>3, <1>8, <2>1, AgentQuiet DEF Turn
<1>9. ASSUME NEW c \in Clients, NEW s \in Sessions, NEW k \in Commands, SendCommand(c, s, k)
      PROVE  RememberOK'
  <2> DEFINE l == sessions[s]
  <2>1. /\ \A m \in Agent : m # l => agents'[m] = agents[m]
        /\ l \in Agent /\ Agent' = Agent
        /\ agents'[l].accepted = Append(agents[l].accepted, k)
        /\ agents'[l].remembered = Remember(agents[l].remembered, k)
    BY <1>9, SendKeeps
  <2>2. /\ agents[l].accepted \in Seq(Commands) /\ agents[l].remembered \in Seq(Commands)
        /\ \A i \in 1..Len(agents[l].remembered) : agents[l].remembered[i] # k
    BY <1>1, <1>9, <2>1, AgentRows DEF SendCommand
  <2> HIDE DEF l
  <2>3. RowRemembers(agents'[l]) /\ RowRetries(agents'[l])
    BY <2>1, <2>2, RememberRow DEF RememberOK
  <2> QED BY <2>1, <2>3 DEF RememberOK
<1>10. ASSUME NEW c \in Clients, OpenEnds(c) PROVE RememberOK'
  <2> DEFINE a == [session |-> calls[c].session, subscribers |-> {c}, accepted |-> <<>>, finished |-> 0,
                   remembered |-> <<>>, phase |-> "idle", asked |-> 0, transcript |-> calls[c].transcript]
  <2>1. a.accepted = <<>> /\ a.remembered = <<>> /\ agents' = Append(agents, a)
    BY <1>10 DEF OpenEnds
  <2>2. a \in AgentState
    <3>1. <<>> \in Seq(Commands) /\ 0 \in 0..MaxAsks
      BY DaemonAssumption, EmptySeq
    <3>2. calls[c].session \in Sessions /\ calls[c].transcript \in Transcript
      BY <1>1, <1>10, CallFields DEF OpenEnds, NoCall
    <3> QED BY <3>1, <3>2 DEF AgentState
  <2> HIDE DEF a
  <2>3. agents \in Seq(AgentState) /\ Len(agents) \in Nat
    BY <1>1, AgentRows DEF DaemonTypeOK
  <2>4. /\ Len(agents') = Len(agents) + 1 /\ agents'[Len(agents) + 1] = a
        /\ \A m \in 1..Len(agents) : agents'[m] = agents[m]
    BY <2>1, <2>2, <2>3
  <2>5. RowRemembers(a) /\ RowRetries(a)
    <3>1. Len(<<>>) = 0 /\ KeepCommands \in Nat \ {0}
      BY DaemonAssumption
    <3> QED BY <2>1, <3>1 DEF RowRemembers, Remembered, RowRetries
  <2>6. \A m \in 1..(Len(agents) + 1) : m = Len(agents) + 1 \/ m \in 1..Len(agents)
    BY <2>3
  <2> QED BY <2>4, <2>5, <2>6 DEF RememberOK, Agent
<1>11. ASSUME NEW c \in Clients, Finish(c) PROVE RowsAlike
  BY <1>4, <1>7, <1>11 DEF Finish, DisposeEnds, RelinquishEnds
<1>12. ASSUME NEW c \in Clients, NEW s \in Sessions,
              OpenBegins(c, s, record[s]) \/ OpenBegins(c, s, calls[c].transcript)
       PROVE  RowsAlike
  BY <1>7, <1>12 DEF OpenBegins
<1>13. Shutdown \/ ShutdownEnds \/ UNCHANGED daemonVars => RowsAlike
  BY <1>3, ShutdownKeeps, AgentQuiet
<1> QED BY <1>2, <1>4, <1>5, <1>6, <1>8, <1>9, <1>10, <1>11, <1>12, <1>13 DEF DaemonNext

LEMMA RememberStarts == DaemonInit => RememberOK
<1>1. DaemonInit => Agent = {}
  BY EmptySeq DEF DaemonInit, Agent
<1> QED BY <1>1 DEF RememberOK

LEMMA RetriesFromInv == RememberOK => RetryReturnsTheFirst
BY DEF RememberOK, RowRetries, RetryReturnsTheFirst

(* A command that a client sends again while the server remembers it is    *)
(* answered as the first was and not run again.                            *)
THEOREM RetryTheorem == DaemonSpec => []RetryReturnsTheFirst
<1>1. DaemonInv /\ RememberOK /\ [DaemonNext]_daemonVars => RememberOK'
  BY RememberStep
<1> QED BY <1>1, DaemonSound, RememberStarts, RetriesFromInv, PTL DEF DaemonSpec
-----------------------------------------------------------------------------
(* ChildSessions.  The types of a parent's books, but for the bounds that only the   *)
(* reconciled pool gives.                                                  *)
Amount == [Children -> Nat]

ChildRows ==
  /\ remaining \in Nat /\ reservations \in Amount /\ kept \in Amount /\ ceiling \in Amount
  /\ phase \in [Children -> Spawning \cup Listed \cup Absent \cup {"failing"}]
  /\ ceiling \in [Children -> {0} \cup Amounts]
  /\ worktree \in [Children -> {"none", "added", "left"}] /\ busy \in [Children -> BOOLEAN]
  /\ turns \in [Children -> 0..MaxChildTurns]
  /\ spentRwf \in Amount /\ billed \in Amount
  /\ missed \subseteq Children /\ late \subseteq Children
  /\ teardown \in {"no", "tearing", "done"} /\ toFinish \subseteq Children
  /\ finishing \in Children \cup {NoChild}

(* Where a child is tells what the pool holds of it: before it is live     *)
(* nothing was spent; until it is settled its whole ceiling is reserved    *)
(* and nothing kept; from then on the pool keeps what was billed, unless   *)
(* a charge was missed, and only a child that was still being spawned at   *)
(* the teardown is never settled with the pool.                            *)
Unspent == {"new", "worktree", "opening", "failing", "failed"}
Past == {"settled", "disposed", "stranded", "gone"}

AccountOf(c) ==
  /\ c \notin missed => spentRwf[c] = billed[c]
  /\ phase[c] \in Unspent => billed[c] = 0 /\ spentRwf[c] = 0
  /\ phase[c] \in {"new", "failing", "failed"} => reservations[c] = 0 /\ kept[c] = 0
  /\ phase[c] \in {"worktree", "opening", "live"} => reservations[c] = ceiling[c] /\ kept[c] = 0
  /\ phase[c] \in Past =>
       \/ c \in late /\ reservations[c] = ceiling[c]
       \/ /\ reservations[c] = 0
          /\ c \notin missed /\ billed[c] <= ceiling[c] => kept[c] = billed[c]

(* And what is left of it: a turn keeps it from being disposed, a worktree *)
(* is there until it is removed or could not be, and the teardown has on   *)
(* its list whatever is live and was not still being spawned when it began. *)
PlaceOf(c) ==
  /\ busy[c] => phase[c] \in {"live", "settled"}
  /\ worktree[c] = "added" => phase[c] \notin {"new", "worktree", "failed", "gone"}
  /\ teardown # "no" /\ c \notin late =>
       phase[c] \notin Spawning /\ (phase[c] = "live" => c \in toFinish)

TeardownOK == (teardown = "no" => late = {}) /\ (teardown = "done" => toFinish = {})

ChildInv ==
  /\ ChildRows /\ PoolReconciles /\ TeardownOK
  /\ \A c \in Children : AccountOf(c) /\ PlaceOf(c)

(* Sums over the children.                                                 *)
LEMMA SumsOK ==
  ASSUME NEW f \in Amount PROVE SumOf(f) \in Nat /\ \A c \in Children : f[c] <= SumOf(f)
<1>1. IsFiniteSet(Children) /\ \A c \in Children : f[c] \in Nat
  BY ChildAssumption DEF Amount
<1> QED BY <1>1, SumType, SumBounds DEF SumOf

(* Changing one child's account changes the sum by the difference.         *)
LEMMA SumUpdated ==
  ASSUME NEW f \in Amount, NEW c \in Children, NEW n \in Nat
  PROVE  /\ [f EXCEPT ![c] = n] \in Amount
         /\ SumOf([f EXCEPT ![c] = n]) = SumOf(f) - f[c] + n
<1> DEFINE g == [f EXCEPT ![c] = n]
<1>1. /\ IsFiniteSet(Children) /\ g[c] = n /\ g \in Amount
      /\ \A d \in Children : f[d] \in Int /\ g[d] \in Int
      /\ \A d \in Children \ {c} : f[d] = g[d]
  BY ChildAssumption DEF Amount
<1> HIDE DEF g
<1>2. SumOf(g) = SumOf(f) - f[c] + n
  BY <1>1, SumChanges DEF SumOf
<1> QED BY <1>1, <1>2 DEF g

LEMMA NothingSummed == SumOf(Zero) = 0
BY ChildAssumption, SumOfNothing DEF SumOf, Zero

(* What a step does to the pool: reserve for a child that has nothing      *)
(* there, settle a child of which nothing was kept, or nothing.            *)
LEMMA ReserveReconciles ==
  ASSUME ChildRows, PoolReconciles, NEW c \in Children, NEW amount \in Nat,
         reservations[c] = 0, amount <= remaining,
         remaining' = remaining - amount, reservations' = [reservations EXCEPT ![c] = amount],
         kept' = kept
  PROVE  remaining' \in Nat /\ reservations' \in Amount /\ PoolReconciles'
<1>1. remaining \in Nat /\ reservations \in Amount /\ kept \in Amount
  BY DEF ChildRows
<1>2. reservations' \in Amount /\ SumOf(reservations') = SumOf(reservations) - 0 + amount
  BY <1>1, SumUpdated
<1>3. SumOf(reservations) \in Nat /\ SumOf(kept) \in Nat
  BY <1>1, SumsOK
<1>4. remaining + SumOf(reservations) + SumOf(kept) = Total
  BY DEF PoolReconciles
<1>5. remaining' + SumOf(reservations') + SumOf(kept') = Total
  <2>1. SumOf(kept') = SumOf(kept)
    OBVIOUS
  <2> QED BY <1>1, <1>2, <1>3, <1>4, <2>1
<1> QED BY <1>1, <1>2, <1>5 DEF PoolReconciles, SumOf

(* Settling moves a reservation into what is kept and what returns to the  *)
(* pool, to the franc.                                                     *)
LEMMA SettleReconciles ==
  ASSUME ChildRows, PoolReconciles, NEW c \in Children, NEW spent \in Nat, kept[c] = 0,
         Settle(c, spent)
  PROVE  /\ remaining' \in Nat /\ reservations' \in Amount /\ kept' \in Amount /\ PoolReconciles'
         /\ reservations'[c] = 0 /\ kept'[c] = Lesser(spent, reservations[c])
         /\ \A d \in Children \ {c} : reservations'[d] = reservations[d] /\ kept'[d] = kept[d]
<1> DEFINE charge == Lesser(spent, reservations[c])
<1>1. /\ remaining \in Nat /\ reservations \in Amount /\ kept \in Amount
      /\ reservations[c] \in Nat
  BY DEF ChildRows, Amount
<1>2. charge \in Nat /\ charge <= reservations[c]
  BY <1>1 DEF Lesser
<1>3. /\ remaining' = remaining + (reservations[c] - charge)
      /\ reservations' = [reservations EXCEPT ![c] = 0]
      /\ kept' = [kept EXCEPT ![c] = charge]
  BY DEF Settle
<1> HIDE DEF charge
<1>4. reservations' \in Amount /\ SumOf(reservations') = SumOf(reservations) - reservations[c] + 0
  <2>1. 0 \in Nat
    OBVIOUS
  <2> QED BY <1>1, <1>3, <2>1, SumUpdated
<1>5. kept' \in Amount /\ SumOf(kept') = SumOf(kept) - 0 + charge
  <2>1. kept' \in Amount /\ SumOf(kept') = SumOf(kept) - kept[c] + charge
    BY <1>1, <1>2, <1>3, SumUpdated
  <2> QED BY <2>1
<1>6. SumOf(reservations) \in Nat /\ SumOf(kept) \in Nat
  BY <1>1, SumsOK
<1>7. remaining + SumOf(reservations) + SumOf(kept) = Total
  BY DEF PoolReconciles
<1>8. remaining' + SumOf(reservations') + SumOf(kept') = Total
  BY <1>1, <1>2, <1>3, <1>4, <1>5, <1>6, <1>7
<1>9. PoolReconciles'
  BY <1>8 DEF PoolReconciles, SumOf
<1>10. /\ reservations'[c] = 0 /\ kept'[c] = charge
       /\ \A d \in Children \ {c} : reservations'[d] = reservations[d] /\ kept'[d] = kept[d]
  BY <1>1, <1>3 DEF Amount
<1>11. remaining' \in Nat
  BY <1>1, <1>2, <1>3
<1> QED BY <1>4, <1>5, <1>9, <1>10, <1>11 DEF charge

LEMMA ChildrenStart == ChildInit => ChildInv
<1> SUFFICES ASSUME ChildInit PROVE ChildInv
  OBVIOUS
<1>1. ChildRows
  BY ChildAssumption DEF ChildInit, ChildRows, Amount, Zero, Absent
<1>2. PoolReconciles
  BY NothingSummed, ChildAssumption DEF ChildInit, PoolReconciles, SumOf
<1> QED BY <1>1, <1>2 DEF ChildInit, ChildInv, TeardownOK, AccountOf, PlaceOf, Zero, Unspent, Past, Spawning

(* The parts of the invariant that speak of one child, in a step that      *)
(* touches one child.                                                      *)
LEMMA SpawnKeeps ==
  ASSUME ChildInv, NEW c \in Children, NEW amount \in Amounts, Spawn(c, amount)
  PROVE  ChildInv'
<1>1. ChildRows /\ PoolReconciles /\ AccountOf(c) /\ amount \in Nat /\ reservations[c] = 0
  BY ChildAssumption DEF ChildInv, AccountOf, Spawn
<1>2. remaining' \in Nat /\ reservations' \in Amount /\ PoolReconciles'
  BY <1>1, ReserveReconciles DEF Spawn, money
<1>3. ChildRows'
  BY <1>1, <1>2 DEF ChildRows, Spawn, Goto, Amount, work, tearing, Spawning
<1>4. ASSUME NEW d \in Children PROVE AccountOf(d)' /\ PlaceOf(d)'
  BY <1>1, <1>4 DEF ChildInv, ChildRows, TeardownOK, AccountOf, PlaceOf, Amount, Spawn, Goto, work, tearing, Spawning, Unspent, Past
<1> QED BY <1>2, <1>3, <1>4 DEF ChildInv, TeardownOK, Spawn, tearing

LEMMA SpawnFailsKeeps ==
  ASSUME ChildInv, NEW c \in Children, SpawnFails(c)
  PROVE  ChildInv'
<1>1. ChildRows /\ PoolReconciles /\ AccountOf(c) /\ kept[c] = 0 /\ Settle(c, 0) /\ 0 \in Nat
  BY DEF ChildInv, AccountOf, SpawnFails, Spawning
<1>2. /\ remaining' \in Nat /\ reservations' \in Amount /\ kept' \in Amount /\ PoolReconciles'
      /\ reservations'[c] = 0 /\ kept'[c] = 0
      /\ \A d \in Children \ {c} : reservations'[d] = reservations[d] /\ kept'[d] = kept[d]
  <2>1. Lesser(0, reservations[c]) = 0
    BY <1>1 DEF ChildRows, Amount, Lesser
  <2> QED BY <1>1, <2>1, SettleReconciles
<1>3. ChildRows'
  BY <1>1, <1>2 DEF ChildRows, SpawnFails, Goto, Amount, work, tearing, Absent
<1>4. ASSUME NEW d \in Children PROVE AccountOf(d)' /\ PlaceOf(d)'
  BY <1>1, <1>2, <1>4 DEF ChildInv, ChildRows, AccountOf, PlaceOf, Amount, SpawnFails, Goto, work, tearing, Spawning, Unspent, Past
<1> QED BY <1>2, <1>3, <1>4 DEF ChildInv, TeardownOK, SpawnFails, tearing

LEMMA FinishesKeeps ==
  ASSUME ChildInv, NEW c \in Children, Finishes(c),
         UNCHANGED <<teardown, late>>, toFinish' \in SUBSET toFinish, toFinish \ {c} \subseteq toFinish',
         finishing' \in Children \cup {NoChild}
  PROVE  ChildInv'
<1>1. ChildRows /\ PoolReconciles /\ AccountOf(c) /\ PlaceOf(c) /\ kept[c] = 0 /\ spentRwf[c] \in Nat
  BY DEF ChildInv, ChildRows, Amount, AccountOf, Finishes
<1>2. /\ remaining' \in Nat /\ reservations' \in Amount /\ kept' \in Amount /\ PoolReconciles'
      /\ \A d \in Children \ {c} : reservations'[d] = reservations[d] /\ kept'[d] = kept[d]
      /\ \/ c \in late /\ reservations'[c] = ceiling[c]
         \/ reservations'[c] = 0 /\ kept'[c] = Lesser(spentRwf[c], ceiling[c])
  <2>1. CASE teardown = "done"
    <3>1. UNCHANGED money
      BY <2>1 DEF Finishes
    <3>2. c \in late /\ reservations[c] = ceiling[c]
      BY <1>1, <2>1 DEF ChildInv, TeardownOK, PlaceOf, AccountOf, Finishes
    <3> QED BY <1>1, <3>1, <3>2 DEF money, ChildRows, PoolReconciles, SumOf
  <2>2. CASE teardown # "done"
    <3>1. Settle(c, spentRwf[c]) /\ reservations[c] = ceiling[c]
      BY <1>1, <2>2 DEF Finishes, AccountOf
    <3> QED BY <1>1, <3>1, SettleReconciles
  <2> QED BY <2>1, <2>2
<1>3. ChildRows'
  BY <1>1, <1>2 DEF ChildRows, Finishes, Goto, Amount, work, Listed
<1>4. ASSUME NEW d \in Children \ {c} PROVE AccountOf(d)' /\ PlaceOf(d)'
  BY <1>1, <1>2, <1>4 DEF ChildInv, ChildRows, AccountOf, PlaceOf, Amount, Finishes, Goto, work, Spawning, Unspent, Past
<1>5. PlaceOf(c)'
  BY <1>1, <1>2 DEF ChildInv, ChildRows, PlaceOf, Finishes, Goto, work, Spawning
<1>6. AccountOf(c)'
  <2>1. phase'[c] = "settled" /\ UNCHANGED <<spentRwf, billed, missed, ceiling, late>>
    BY <1>1 DEF ChildRows, Finishes, Goto, work
  <2>2. c \notin missed => spentRwf[c] = billed[c]
    BY <1>1 DEF AccountOf
  <2>3. c \notin missed /\ billed[c] <= ceiling[c] => Lesser(spentRwf[c], ceiling[c]) = billed[c]
    BY <1>1, <2>2 DEF Lesser, ChildRows, Amount
  <2> QED BY <1>2, <2>1, <2>2, <2>3 DEF AccountOf, Unspent, Past
<1> QED BY <1>2, <1>3, <1>4, <1>5, <1>6 DEF ChildInv, TeardownOK

(* Steps that leave the pool alone. *)
LEMMA TurnKeeps ==
  ASSUME ChildInv, NEW c \in Children, TurnBegins(c) \/ TurnReturns(c)
  PROVE  ChildInv'
<1>1. ChildRows /\ PoolReconciles /\ (\A d \in Children : AccountOf(d) /\ PlaceOf(d)) /\ TeardownOK
  BY DEF ChildInv
<1>2. CASE TurnBegins(c)
  <2>1. ChildRows'
    BY <1>1, <1>2, ChildAssumption DEF ChildRows, TurnBegins, Amount, money, tearing
  <2>2. PoolReconciles'
    BY <1>1, <1>2 DEF PoolReconciles, SumOf, TurnBegins, money
  <2>3. ASSUME NEW d \in Children PROVE AccountOf(d)' /\ PlaceOf(d)'
    BY <1>1, <1>2, <2>3 DEF ChildRows, AccountOf, PlaceOf, Amount, TurnBegins, money, tearing
  <2> QED BY <1>1, <1>2, <2>1, <2>2, <2>3 DEF ChildInv, TeardownOK, TurnBegins, tearing
<1>3. CASE TurnReturns(c)
  <2>1. PICK cost \in 0..ceiling[c] : ChildTurnEnds(c, cost) \/ TurnThrows(c, cost)
    BY <1>3 DEF TurnReturns
  <2>2. /\ UNCHANGED <<money, phase, ceiling, worktree, turns, tearing>> /\ cost \in Nat
        /\ busy[c] /\ busy' = [busy EXCEPT ![c] = FALSE]
        /\ billed' = [billed EXCEPT ![c] = @ + cost]
        /\ spentRwf' \in {spentRwf, [spentRwf EXCEPT ![c] = @ + cost]}
        /\ missed' \in {missed, missed \cup {c}}
        /\ cost # 0 /\ c \notin missed' => phase[c] = "live" /\ spentRwf' = [spentRwf EXCEPT ![c] = @ + cost]
    BY <1>1, <2>1 DEF ChildTurnEnds, TurnThrows, ChildRows, Amount
  <2>3. ChildRows'
    BY <1>1, <2>2 DEF ChildRows, Amount, money, tearing
  <2>4. PoolReconciles'
    BY <1>1, <2>2 DEF PoolReconciles, SumOf, money
  <2>5. ASSUME NEW d \in Children \ {c} PROVE AccountOf(d)' /\ PlaceOf(d)'
    BY <1>1, <2>2, <2>5 DEF ChildRows, AccountOf, PlaceOf, Amount, money, tearing
  <2>6. PlaceOf(c)'
    BY <1>1, <2>2 DEF ChildRows, PlaceOf, tearing
  <2>7. AccountOf(c)'
    <3>1. phase[c] \in {"live", "settled"}
      BY <1>1, <2>2 DEF PlaceOf
    <3>2. cost = 0 => billed'[c] = billed[c] /\ spentRwf'[c] = spentRwf[c]
      BY <1>1, <2>2 DEF ChildRows, Amount
    <3>3. cost # 0 /\ c \notin missed' => phase[c] = "live" /\ billed'[c] = billed[c] + cost /\ spentRwf'[c] = spentRwf[c] + cost
      BY <1>1, <2>2 DEF ChildRows, Amount
    <3>4. c \notin missed' => c \notin missed
      BY <2>2
    <3>5. UNCHANGED <<phase, reservations, kept, ceiling, late>>
      BY <2>2 DEF money, tearing
    <3> QED BY <1>1, <3>1, <3>2, <3>3, <3>4, <3>5 DEF AccountOf, Unspent, Past
  <2> QED BY <1>1, <2>2, <2>3, <2>4, <2>5, <2>6, <2>7 DEF ChildInv, TeardownOK, tearing
<1> QED BY <1>2, <1>3

(* Steps that only move a child from phase to phase leave the accounts     *)
(* alone.                                                                  *)
LEMMA PlacesKept ==
  ASSUME ChildInv, NEW c \in Children,
         \/ WorktreeAdded(c) \/ SpawnEnds(c) \/ SessionDisposed(c) \/ DisposeThrows(c) \/ TeardownSkips(c)
         \/ \E way \in {"none", "left"} : SpawnUndone(c, way) \/ FinishEnds(c, way)
  PROVE  ChildInv'
<1>1. ChildRows /\ PoolReconciles /\ (\A d \in Children : AccountOf(d) /\ PlaceOf(d)) /\ TeardownOK
  BY DEF ChildInv
<1>2. /\ UNCHANGED <<money, ceiling, work, missed, teardown, late>>
      /\ toFinish' \in SUBSET toFinish /\ toFinish \ {c} \subseteq toFinish'
      /\ c \notin toFinish' => c \notin toFinish \/ phase[c] # "live"
      /\ finishing' \in Children \cup {NoChild}
      /\ \A d \in Children \ {c} : phase'[d] = phase[d] /\ worktree'[d] = worktree[d]
      /\ \/ phase[c] = "worktree" /\ phase'[c] = "opening"
         \/ phase[c] = "opening" /\ phase'[c] = "live" /\ worktree'[c] = worktree[c]
         \/ phase[c] = "failing" /\ phase'[c] = "failed" /\ worktree'[c] # "added"
         \/ phase[c] = "settled" /\ ~busy[c] /\ phase'[c] \in {"disposed", "stranded"} /\ worktree'[c] = worktree[c]
         \/ phase[c] = "disposed" /\ phase'[c] = "gone" /\ worktree'[c] # "added"
         \/ phase'[c] = phase[c] /\ worktree'[c] = worktree[c]
      /\ phase' \in [Children -> Spawning \cup Listed \cup Absent \cup {"failing"}]
      /\ worktree' \in [Children -> {"none", "added", "left"}]
  BY <1>1 DEF ChildRows, WorktreeAdded, SpawnEnds, SpawnUndone, SessionDisposed, DisposeThrows, FinishEnds, TeardownSkips,
     RemovesWorktree, NowFinishing, Goto, tearing, Spawning, Listed, Absent
<1>3. ChildRows'
  BY <1>1, <1>2 DEF ChildRows, Amount, money, work
<1>4. PoolReconciles'
  BY <1>1, <1>2 DEF PoolReconciles, SumOf, money
<1>5. ASSUME NEW d \in Children \ {c} PROVE AccountOf(d)' /\ PlaceOf(d)'
  BY <1>1, <1>2, <1>5 DEF AccountOf, PlaceOf, money, work
<1>6. AccountOf(c)'
  BY <1>1, <1>2 DEF AccountOf, money, work, Unspent, Past
<1>7. PlaceOf(c)'
  BY <1>1, <1>2 DEF PlaceOf, money, work, Spawning
<1> QED BY <1>1, <1>2, <1>3, <1>4, <1>5, <1>6, <1>7 DEF ChildInv, TeardownOK

LEMMA TeardownKeeps ==
  ASSUME ChildInv, TeardownBegins \/ TeardownEnds
  PROVE  ChildInv'
<1>1. ChildRows /\ PoolReconciles /\ (\A d \in Children : AccountOf(d) /\ PlaceOf(d)) /\ TeardownOK
  BY DEF ChildInv
<1>2. UNCHANGED <<money, phase, ceiling, worktree, work, missed, finishing>>
  BY DEF TeardownBegins, TeardownEnds
<1>3. ChildRows'
  BY <1>1, <1>2 DEF ChildRows, Amount, money, work, TeardownBegins, TeardownEnds
<1>4. PoolReconciles'
  BY <1>1, <1>2 DEF PoolReconciles, SumOf, money
<1>5. ASSUME NEW d \in Children PROVE AccountOf(d)' /\ PlaceOf(d)'
  BY <1>1, <1>2, <1>5 DEF AccountOf, PlaceOf, money, work, TeardownBegins, TeardownEnds, TeardownOK, Spawning, Listed
<1> QED BY <1>1, <1>3, <1>4, <1>5 DEF ChildInv, TeardownOK, TeardownBegins, TeardownEnds

LEMMA ChildStuttering == ChildInv /\ UNCHANGED childVars => ChildInv'
BY DEF childVars, ChildInv, ChildRows, PoolReconciles, SumOf, TeardownOK, AccountOf, PlaceOf, Amount

(* ChildInv is inductive: one lemma per operation of the registry.         *)
LEMMA ChildStep == ChildInv /\ [ChildNext]_childVars => ChildInv'
<1> SUFFICES ASSUME ChildInv, [ChildNext]_childVars PROVE ChildInv'
  OBVIOUS
<1>1. ASSUME NEW c \in Children, NEW amount \in Amounts, Spawn(c, amount) PROVE ChildInv'
  BY <1>1, SpawnKeeps
<1>2. ASSUME NEW c \in Children, Settles(c) PROVE ChildInv'
  <2>1. CASE TeardownFinishes(c)
    BY <2>1, <1>2, FinishesKeeps DEF TeardownFinishes, ChildInv, ChildRows
  <2>2. CASE SpawnFails(c)
    BY <2>2, SpawnFailsKeeps
  <2> QED BY <1>2, <2>1, <2>2, PlacesKept DEF Settles
<1>3. ASSUME NEW c \in Children, TurnBegins(c) \/ TurnReturns(c) PROVE ChildInv'
  BY <1>3, TurnKeeps
<1>4. ASSUME NEW c \in Children, FinishChild(c) PROVE ChildInv'
  <2>1. Finishes(c) /\ UNCHANGED <<teardown, late>> /\ toFinish' = toFinish /\ finishing' = finishing
    BY <1>4 DEF FinishChild, tearing
  <2> QED BY <2>1, FinishesKeeps DEF ChildInv, ChildRows
<1> QED BY <1>1, <1>2, <1>3, <1>4, TeardownKeeps, ChildStuttering DEF ChildNext

LEMMA ChildrenSound == ChildSpec => []ChildInv
BY ChildrenStart, ChildStep, PTL DEF ChildSpec

(* What reconciles with the pool is shared by it.                          *)
LEMMA PoolFromInv == ChildInv => PoolIsShared
<1> SUFFICES ASSUME ChildInv PROVE PoolIsShared
  OBVIOUS
<1>1. ChildRows /\ PoolReconciles /\ (\A c \in Children : AccountOf(c))
  BY DEF ChildInv
<1>2. reservations \in Amount /\ kept \in Amount /\ billed \in Amount /\ remaining \in Nat
  BY <1>1 DEF ChildRows
<1>3. /\ SumOf(reservations) \in Nat /\ SumOf(kept) \in Nat /\ SumOf(billed) \in Nat
      /\ \A c \in Children : reservations[c] <= SumOf(reservations) /\ kept[c] <= SumOf(kept)
  BY <1>2, SumsOK
<1>4. remaining + SumOf(reservations) + SumOf(kept) = Total /\ Total \in Nat
  BY <1>1, ChildAssumption DEF PoolReconciles
<1>5. remaining <= Total /\ SumOf(reservations) <= Total /\ SumOf(kept) <= Total
      /\ SumOf(reservations) + SumOf(kept) <= Total
  BY <1>2, <1>3, <1>4
<1>6. \A c \in Children : reservations[c] \in 0..Total /\ kept[c] \in 0..Total
  BY <1>2, <1>3, <1>4, <1>5 DEF Amount
<1>7. ChildTypeOK
  BY <1>1, <1>2, <1>4, <1>5, <1>6 DEF ChildRows, ChildTypeOK, Amount
<1>8. SiblingsShareThePool
  <2> SUFFICES ASSUME missed = {}, \A c \in Children : billed[c] <= ceiling[c] PROVE SumOf(billed) <= Total
    BY DEF SiblingsShareThePool
  <2>1. ASSUME NEW c \in Children PROVE billed[c] <= reservations[c] + kept[c]
    BY <1>1, <1>2, <2>1 DEF AccountOf, ChildRows, Amount, Unspent, Past, Spawning, Listed, Absent
  <2>2. SumOf(billed) <= SumOf(reservations) + SumOf(kept)
    <3>1. IsFiniteSet(Children)
      BY ChildAssumption
    <3> QED BY <1>2, <2>1, <3>1, SumWithin DEF SumOf, Amount
  <2> QED BY <1>3, <1>4, <1>5, <2>2
<1> QED BY <1>1, <1>7, <1>8 DEF PoolIsShared

(* The pool of a parent is sound and shared: what it has left, reserves    *)
(* and keeps adds up to what it was opened with, however children are      *)
(* spawned, charged, settled and torn down.                                *)
THEOREM PoolTheorem == ChildSpec => []PoolIsShared
BY ChildrenSound, PoolFromInv, PTL

(* A finished teardown has nothing left on its list.                       *)
LEMMA TeardownFromInv == ChildInv => TeardownLeavesNothing
<1> SUFFICES ASSUME ChildInv, teardown = "done", NEW c \in Children \ late
    PROVE  /\ reservations[c] = 0 /\ phase[c] \in Absent \cup {"settled", "disposed", "failing", "stranded"}
           /\ phase[c] \in Absent \cup {"stranded"} => ~busy[c]
           /\ phase[c] \in Absent => worktree[c] # "added"
  BY DEF TeardownLeavesNothing
<1>1. ChildRows /\ AccountOf(c) /\ PlaceOf(c) /\ toFinish = {}
  BY DEF ChildInv, TeardownOK
<1>2. phase[c] \notin Spawning /\ phase[c] # "live"
  BY <1>1 DEF PlaceOf
<1> QED BY <1>1, <1>2 DEF ChildRows, AccountOf, PlaceOf, Spawning, Listed, Absent, Past, Unspent

(* A finished teardown leaves no live child, no reservation, and no        *)
(* worktree that nobody tried to remove, whatever fails on the way; but    *)
(* for children whose spawning it overtook, or that another call is ending.*)
THEOREM TeardownTheorem == ChildSpec => []TeardownLeavesNothing
BY ChildrenSound, TeardownFromInv, PTL
==============================================================================
