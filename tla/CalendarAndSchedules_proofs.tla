-------------------- MODULE CalendarAndSchedules_proofs --------------------
(***************************************************************************)
(* What holds of a calendar's intents, events and credential for every     *)
(* number of calls, keys, payloads, attempts, channels and grants          *)
(* (CalendarConnection), and after that what holds of the schedules for    *)
(* every set of them, every limit of rows a claim reads and every order of *)
(* sweeps, edits and lapsing leases (ScheduledRuns).  Nothing here relates *)
(* the two.                                                                *)
(***************************************************************************)
EXTENDS CalendarConnection, ScheduledRuns, FiniteSetTheorems, TLAPS

USE CalendarAssumption DEF Grants, NoEntry

Went == {"approved", "completed", "failed"}

(* An intent has a payload, and once it went ahead the one agreed upon.    *)
IntentsHaveTerms ==
  \A k \in Keys : /\ intents[k] # "none" => payload[k] \in Payloads
                  /\ intents[k] \in Went => agreed[k] = payload[k]

(* An event is named by its key.                                           *)
EventsAreNamed == \A e \in calendar : e.id = e.key

(* A call that executes does so for an intent that went ahead, and what it *)
(* is about to record as completed is in the calendar.                     *)
Backed(r) ==
  /\ r.job = "execute" => r.subject \in Keys /\ intents[r.subject] \in Went
  /\ r.pc = "record" =>
       /\ r.job = "execute"
       /\ r.outcome = "completed" => \E e \in calendar : e.key = r.subject
ExecutionsAreBacked == \A c \in Calls : Backed(call[c])

EventInv ==
  /\ IntentsHaveTerms /\ EventsAreNamed /\ ExecutionsAreBacked
  /\ OneEventPerIntent /\ EventsAsApproved /\ CompletedMeansCreated

(* The entry of a grant holds that grant, and a call that refreshes has    *)
(* the grant of the entry it read.                                         *)
EntriesOwnTheirGrant ==
  /\ \A i \in Grants : vault[i] \in {NoEntry, i}
  /\ \A c \in Calls :
       /\ call[c].pc = "store" => call[c].grant \in Grants
       /\ call[c].pc \in {"refresh", "update"} =>
            call[c].cred \in Grants /\ call[c].grant = call[c].cred

IInv == TypeOK /\ EventInv /\ EntriesOwnTheirGrant /\ OnlyCurrentCredential
-----------------------------------------------------------------------------
(* The actions by what they change: the events, the credential, the rest.  *)
EventStep ==
  \/ \E k \in Keys, p \in Payloads : ProposeEvent(k, p) \/ ReplayProposal(k, p)
  \/ \E k \in Keys, yes \in BOOLEAN : Decide(k, yes)
  \/ \E c \in Calls : CreateEvent(c) \/ RecordResult(c)
SecretStep ==
  \/ RevokeLocally
  \/ \E c \in Calls : StoreConnection(c) \/ UpdateTokens(c) \/ DropConnection(c)
OtherStep ==
  \/ \E a \in Attempts : BeginOAuth(a) \/ AttemptLapses(a)
  \/ \E h \in Channels : Notify(h) \/ \E n \in 1..MaxNumber : AcceptWebhook(h, n)
  \/ \E g \in Grants : WithdrawConsent(g) \/ TokenAges(g)
  \/ UNCHANGED vars
CallStep ==
  \E c \in Calls :
    \/ \E a \in Attempts : ConsumeAttempt(c, a)
    \/ \E g \in Grants : ExchangeCode(c, g)
    \/ \E k \in Keys : StartExecute(c, k)
    \/ \E h \in Channels : OpenChannel(c, h)
    \/ StartRead(c) \/ StartWatch(c) \/ StartRevoke(c) \/ LoadTokens(c) \/ RefreshTokens(c)
    \/ RecordFails(c) \/ StoreChannel(c) \/ RevokeAtGoogle(c) \/ CallEnds(c)

LEMMA StepCases == ASSUME [Next]_vars PROVE EventStep \/ SecretStep \/ OtherStep \/ CallStep
BY DEF Next, EventStep, SecretStep, OtherStep, CallStep

LEMMA OtherChanges ==
  ASSUME OtherStep
  PROVE  UNCHANGED <<vault, link, events, call>>
BY DEF OtherStep, BeginOAuth, AttemptLapses, Notify, AcceptWebhook, WithdrawConsent, TokenAges,
       vars, oauth, secrets, link, events, watching

LEMMA CallChanges == ASSUME CallStep PROVE UNCHANGED <<vault, fresh, link, events>>
BY DEF CallStep, ConsumeAttempt, ExchangeCode, StartExecute, OpenChannel, StartRead,
       StartWatch, StartRevoke, StartCall, LoadTokens, RefreshTokens, RecordFails,
       StoreChannel, RevokeAtGoogle, CallEnds, secrets, link, events
-----------------------------------------------------------------------------
Subjects == Attempts \cup Keys \cup Channels \cup {None}
Tokens == Grants \cup {NoEntry}
Outcomes == {"completed", "failed"}
CallType == [pc : Places, job : Jobs, subject : Subjects, cred : Tokens, grant : Tokens,
             outcome : Outcomes]

LEMMA Members ==
  /\ "idle" \in Places /\ "exchange" \in Places /\ "store" \in Places
  /\ "tokens" \in Places /\ "refresh" \in Places /\ "update" \in Places /\ "act" \in Places
  /\ "keep" \in Places /\ "drop" \in Places /\ "record" \in Places
  /\ "connect" \in Jobs /\ "execute" \in Jobs /\ "read" \in Jobs
  /\ "watch" \in Jobs /\ "revoke" \in Jobs
  /\ "failed" \in Outcomes
  /\ Attempts \cup Keys \cup Channels \subseteq Subjects /\ None \in Subjects
  /\ Grants \subseteq Tokens /\ NoEntry \in Tokens
BY DEF Places, Jobs, Outcomes, Subjects, Tokens

LEMMA IdleTyped == Idle \in CallType
BY Members DEF Idle, CallType

(* A call stays a call.                                                    *)
LEMMA CallsTyped == IInv /\ [Next]_vars => call' \in [Calls -> CallType]
<1> SUFFICES ASSUME IInv, [Next]_vars PROVE call' \in [Calls -> CallType] OBVIOUS
<1>1. call \in [Calls -> CallType]
  BY DEF IInv, TypeOK, CallType, Subjects, Tokens, Outcomes
<1>2. conn.cred \in Tokens /\ vault \in [Grants -> Tokens] BY DEF IInv, TypeOK, Tokens
<1>3. CASE EventStep
  <2>1. \A k, p : ProposeEvent(k, p) \/ ReplayProposal(k, p) \/ Decide(k, p) => call' = call
    BY DEF ProposeEvent, ReplayProposal, Decide
  <2>2. ASSUME NEW c \in Calls, CreateEvent(c) PROVE call' \in [Calls -> CallType]
    <3>1. \A b \in BOOLEAN : Concluded(b) \in Outcomes BY DEF Concluded, Outcomes
    <3>2. PICK b \in BOOLEAN :
            call' = [call EXCEPT ![c].pc = "record", ![c].outcome = Concluded(b)]
      BY <2>2 DEF CreateEvent
    <3> QED BY <3>1, <3>2, <1>1, Members, IdleTyped DEF CallType
  <2>3. ASSUME NEW c \in Calls, RecordResult(c) PROVE call' \in [Calls -> CallType]
    BY <2>3, <1>1, IdleTyped DEF RecordResult, Returns
  <2> QED BY <1>1, <1>3, <2>1, <2>2, <2>3 DEF EventStep
<1>4. CASE SecretStep
  <2>1. ASSUME NEW c \in Calls, StoreConnection(c) PROVE call' \in [Calls -> CallType]
    <3>1. call[c].grant \in Tokens BY <1>1 DEF CallType
    <3>2. \/ call' = [call EXCEPT ![c] = Idle]
          \/ call' = [call EXCEPT ![c].pc = "act", ![c].job = "watch",
                                  ![c].cred = call[c].grant]
      BY <2>1 DEF StoreConnection, Returns
    <3> QED BY <3>1, <3>2, <1>1, Members, IdleTyped DEF CallType
  <2>2. ASSUME NEW c \in Calls, UpdateTokens(c) \/ DropConnection(c)
        PROVE  call' \in [Calls -> CallType]
    BY <2>2, <1>1, Members, IdleTyped DEF CallType, UpdateTokens, DropConnection, Goes, Returns
  <2>3. RevokeLocally => call' = call BY DEF RevokeLocally
  <2> QED BY <1>1, <1>4, <2>1, <2>2, <2>3 DEF SecretStep
<1>5. CASE OtherStep BY <1>1, <1>5, OtherChanges
<1>6. CASE CallStep
  <2> PICK c \in Calls :
        \/ \E a \in Attempts : ConsumeAttempt(c, a)
        \/ \E g \in Grants : ExchangeCode(c, g)
        \/ \E k \in Keys : StartExecute(c, k)
        \/ \E h \in Channels : OpenChannel(c, h)
        \/ StartRead(c) \/ StartWatch(c) \/ StartRevoke(c) \/ LoadTokens(c)
        \/ RefreshTokens(c)
        \/ RecordFails(c) \/ StoreChannel(c) \/ RevokeAtGoogle(c) \/ CallEnds(c)
    BY <1>6 DEF CallStep
  <2>1. ASSUME NEW a \in Attempts, ConsumeAttempt(c, a) PROVE call' \in [Calls -> CallType]
    BY <2>1, <1>1, Members, IdleTyped DEF CallType, ConsumeAttempt
  <2>2. ASSUME NEW g \in Grants, ExchangeCode(c, g) PROVE call' \in [Calls -> CallType]
    BY <2>2, <1>1, Members, IdleTyped DEF CallType, ExchangeCode
  <2>3. ASSUME NEW j \in Jobs, NEW x \in Keys \cup {None}, StartCall(c, j, x)
        PROVE  call' \in [Calls -> CallType]
    <3>1. [pc |-> "tokens", job |-> j, subject |-> x, cred |-> conn.cred,
           grant |-> NoEntry, outcome |-> "failed"]
            \in CallType
      BY <1>2, Members DEF CallType
    <3> QED BY <2>3, <3>1, <1>1 DEF StartCall
  <2>4. ASSUME NEW h \in Channels, OpenChannel(c, h) PROVE call' \in [Calls -> CallType]
    BY <2>4, <1>1, Members, IdleTyped DEF CallType, OpenChannel
  <2>5. CASE LoadTokens(c)
    <3>1. vault[call[c].cred] \in Tokens BY <2>5, <1>2 DEF LoadTokens, Stored
    <3>2. PICK p \in {"act", "refresh"} :
            call' = [call EXCEPT ![c].grant = vault[call[c].cred], ![c].pc = p]
      BY <2>5 DEF LoadTokens
    <3> QED BY <3>1, <3>2, <1>1, Members, IdleTyped DEF CallType
  <2>6. CASE RefreshTokens(c) \/ RecordFails(c) \/ StoreChannel(c) \/ RevokeAtGoogle(c)
             \/ CallEnds(c)
    <3>1. \/ \E p \in {"update", "drop"} : call' = [call EXCEPT ![c].pc = p]
          \/ call' = [call EXCEPT ![c].outcome = "failed"]
          \/ call' = [call EXCEPT ![c] = Idle]
      BY <2>6 DEF RefreshTokens, RecordFails, StoreChannel, RevokeAtGoogle, CallEnds, Goes,
         Returns
    <3> QED BY <3>1, <1>1, Members, IdleTyped DEF CallType
  <2> QED BY <2>1, <2>2, <2>3, <2>4, <2>5, <2>6, Members DEF StartExecute, StartRead,
             StartWatch, StartRevoke
<1> QED BY <1>3, <1>4, <1>5, <1>6, StepCases
-----------------------------------------------------------------------------

(* The records of the intents and the calendar keep their types.           *)
LEMMA EventTypes ==
  ASSUME IInv, EventStep
  PROVE  /\ intents' \in [Keys -> Statuses] /\ payload' \in [Keys -> Payloads \cup {None}]
         /\ agreed' \in [Keys -> Payloads \cup {None}]
         /\ calendar' \subseteq [id : Keys, key : Keys, payload : Payloads]
         /\ UNCHANGED <<oauth, grants, secrets, link, watching>>
<1> DEFINE Typed ==
      /\ intents' \in [Keys -> Statuses] /\ payload' \in [Keys -> Payloads \cup {None}]
      /\ agreed' \in [Keys -> Payloads \cup {None}]
      /\ calendar' \subseteq [id : Keys, key : Keys, payload : Payloads]
<1>1. /\ intents \in [Keys -> Statuses] /\ payload \in [Keys -> Payloads \cup {None}]
      /\ agreed \in [Keys -> Payloads \cup {None}]
      /\ calendar \subseteq [id : Keys, key : Keys, payload : Payloads]
  BY DEF IInv, TypeOK
<1>2. /\ "awaiting_approval" \in Statuses /\ "approved" \in Statuses
      /\ "cancelled" \in Statuses /\ Outcomes \subseteq Statuses
  BY DEF Statuses, Outcomes
<1>3. \A c \in Calls : call[c].outcome \in Outcomes BY DEF IInv, TypeOK, Outcomes
<1>4. ASSUME NEW k \in Keys, NEW p \in Payloads, ProposeEvent(k, p) \/ ReplayProposal(k, p)
      PROVE  Typed
  BY <1>1, <1>2, <1>4 DEF ProposeEvent, ReplayProposal, Replayed
<1>5. ASSUME NEW k \in Keys, NEW yes \in BOOLEAN, Decide(k, yes) PROVE Typed
  BY <1>1, <1>2, <1>5 DEF Decide
<1>6. ASSUME NEW c \in Calls, CreateEvent(c) PROVE Typed
  <2>0. Backed(call[c]) BY DEF IInv, EventInv, ExecutionsAreBacked
  <2>4. call[c].job = "execute" BY <1>6 DEF CreateEvent
  <2>1. call[c].subject \in Keys /\ intents[call[c].subject] \in Went
    BY <2>0, <2>4 DEF Backed
  <2>2. payload[call[c].subject] \in Payloads
    BY <2>1 DEF IInv, EventInv, IntentsHaveTerms, Went
  <2>3. calendar' \subseteq [id : Keys, key : Keys, payload : Payloads]
    <3> DEFINE new == [id |-> call[c].subject, key |-> call[c].subject,
                       payload |-> payload[call[c].subject]]
    <3>1. new \in [id : Keys, key : Keys, payload : Payloads] BY <2>1, <2>2
    <3>2. calendar' = calendar \/ calendar' = calendar \cup {new}
      BY <1>6 DEF CreateEvent, EventId
    <3> QED BY <1>1, <3>1, <3>2
  <2> QED BY <1>1, <1>6, <2>3 DEF CreateEvent
<1>7. ASSUME NEW c \in Calls, RecordResult(c) PROVE Typed
  BY <1>1, <1>2, <1>3, <1>7 DEF RecordResult
<1>8. UNCHANGED <<oauth, grants, secrets, link, watching>>
  BY DEF EventStep, ProposeEvent, ReplayProposal, Decide, CreateEvent, RecordResult
<1> HIDE DEF Typed
<1>9. Typed BY <1>4, <1>5, <1>6, <1>7 DEF EventStep
<1> QED BY <1>8, <1>9 DEF Typed

(* The credential, the attempts, the grants and the channels keep theirs.  *)
LEMMA SecretTypes ==
  ASSUME IInv, SecretStep
  PROVE  /\ vault' \in [Grants -> Tokens] /\ fresh' \subseteq Grants
         /\ conn' \in [status : {"none", "connected", "revoked"}, cred : Tokens]
         /\ newest' \in Tokens /\ chan' \in [Channels -> {"none", "open", "active", "stopped"}]
         /\ UNCHANGED <<oauth, grants, events, sent, accepted>>
<1>1. /\ vault \in [Grants -> Tokens] /\ fresh \subseteq Grants
      /\ conn \in [status : {"none", "connected", "revoked"}, cred : Tokens]
      /\ newest \in Tokens /\ chan \in [Channels -> {"none", "open", "active", "stopped"}]
  BY DEF IInv, TypeOK, Tokens
<1>2. CASE RevokeLocally
  BY <1>1, <1>2 DEF RevokeLocally, secrets, watching, oauth, events
<1>3. ASSUME NEW c \in Calls, StoreConnection(c)
      PROVE  /\ vault' \in [Grants -> Tokens] /\ fresh' \subseteq Grants
             /\ conn' \in [status : {"none", "connected", "revoked"}, cred : Tokens]
             /\ newest' \in Tokens /\ UNCHANGED <<oauth, grants, events, watching>>
  <2>1. call[c].grant \in Grants BY <1>3 DEF StoreConnection, IInv, EntriesOwnTheirGrant
  <2>2. vault' \in [Grants -> Tokens]
    BY <1>1, <1>3, <2>1 DEF StoreConnection, Replaced, Tokens
  <2> QED BY <1>1, <1>3, <2>1, <2>2 DEF StoreConnection, Tokens
<1>4. ASSUME NEW c \in Calls, UpdateTokens(c)
      PROVE  /\ vault' \in [Grants -> Tokens] /\ fresh' \subseteq Grants
             /\ UNCHANGED <<link, oauth, grants, events, watching>>
  <2>1. call[c].grant \in Tokens BY DEF IInv, TypeOK, Tokens
  <2> QED BY <1>1, <1>4, <2>1 DEF UpdateTokens, Writable, Stored
<1>5. ASSUME NEW c \in Calls, DropConnection(c)
      PROVE  /\ vault' \in [Grants -> Tokens] /\ fresh' \subseteq Grants
             /\ conn' \in [status : {"none", "connected", "revoked"}, cred : Tokens]
             /\ chan' \in [Channels -> {"none", "open", "active", "stopped"}]
             /\ UNCHANGED <<oauth, grants, events, newest, sent, accepted>>
  <2>1. chan' \in [Channels -> {"none", "open", "active", "stopped"}]
    BY <1>1, <1>5 DEF DropConnection, Stopped
  <2> QED BY <1>1, <1>5, <2>1 DEF DropConnection, Tokens
<1> QED BY <1>1, <1>2, <1>3, <1>4, <1>5 DEF SecretStep, link, watching

LEMMA RestTypes ==
  ASSUME IInv, OtherStep \/ CallStep
  PROVE  /\ attempts' \in [Attempts -> {"unused", "pending", "expired", "consumed"}]
         /\ handed' \in [Attempts -> Nat] /\ grants' \in [Grants -> {"none", "live", "revoked"}]
         /\ fresh' \subseteq Grants
         /\ chan' \in [Channels -> {"none", "open", "active", "stopped"}]
         /\ sent' \in [Channels -> 0..MaxNumber] /\ accepted' \in [Channels -> Seq(1..MaxNumber)]
<1>1. /\ attempts \in [Attempts -> {"unused", "pending", "expired", "consumed"}]
      /\ handed \in [Attempts -> Nat] /\ grants \in [Grants -> {"none", "live", "revoked"}]
      /\ fresh \subseteq Grants
      /\ chan \in [Channels -> {"none", "open", "active", "stopped"}]
      /\ sent \in [Channels -> 0..MaxNumber] /\ accepted \in [Channels -> Seq(1..MaxNumber)]
  BY DEF IInv, TypeOK
<1>2. CASE OtherStep
  <2>1. ASSUME NEW h \in Channels, NEW n \in 1..MaxNumber, AcceptWebhook(h, n)
        PROVE  accepted' \in [Channels -> Seq(1..MaxNumber)]
    BY <1>1, <2>1 DEF AcceptWebhook
  <2>2. ASSUME NEW h \in Channels, Notify(h) PROVE sent' \in [Channels -> 0..MaxNumber]
    BY <1>1, <2>2 DEF Notify
  <2> QED BY <1>1, <1>2, <2>1, <2>2 DEF OtherStep, BeginOAuth, AttemptLapses, Notify,
             AcceptWebhook, WithdrawConsent, TokenAges, vars, oauth, secrets, watching
<1>3. CASE CallStep
  <2>1. \A c \in Calls, a \in Attempts : ConsumeAttempt(c, a) =>
          /\ attempts' \in [Attempts -> {"unused", "pending", "expired", "consumed"}]
          /\ handed' \in [Attempts -> Nat] /\ UNCHANGED <<grants, secrets, watching>>
    BY <1>1 DEF ConsumeAttempt, Consumed
  <2>2. \A c, h : OpenChannel(c, h) =>
          /\ chan' \in [Channels -> {"none", "open", "active", "stopped"}]
          /\ UNCHANGED <<oauth, grants, secrets, sent, accepted>>
    BY <1>1 DEF OpenChannel
  <2>3. \A c : StoreChannel(c) =>
          /\ chan' \in [Channels -> {"none", "open", "active", "stopped"}]
          /\ UNCHANGED <<oauth, grants, secrets, sent, accepted>>
    BY <1>1 DEF StoreChannel, Instead, Stopped
  <2>4. \A c, g : ExchangeCode(c, g) \/ RevokeAtGoogle(c) =>
          /\ grants' \in [Grants -> {"none", "live", "revoked"}]
          /\ UNCHANGED <<oauth, secrets, watching>>
    BY <1>1 DEF ExchangeCode, RevokeAtGoogle
  <2>5. \A c, k : StartExecute(c, k) \/ StartRead(c) \/ StartWatch(c) \/ StartRevoke(c)
                    \/ LoadTokens(c) \/ RefreshTokens(c) \/ RecordFails(c) \/ CallEnds(c) =>
          UNCHANGED <<oauth, grants, secrets, watching>>
    BY DEF StartExecute, StartRead, StartWatch, StartRevoke, StartCall, LoadTokens,
       RefreshTokens, RecordFails, CallEnds
  <2> QED BY <1>1, <1>3, <2>1, <2>2, <2>3, <2>4, <2>5 DEF CallStep, oauth, secrets, watching
<1> QED BY <1>2, <1>3

(* The types are preserved; what a call remembers is part of them.         *)
LEMMA TypeStep == IInv /\ [Next]_vars => TypeOK'
<1> SUFFICES ASSUME IInv, [Next]_vars PROVE TypeOK' OBVIOUS
<1>1. TypeOK /\ call' \in [Calls -> CallType] BY CallsTyped DEF IInv
<1>2. CASE EventStep
  BY <1>1, <1>2, EventTypes DEF TypeOK, oauth, secrets, link, watching, CallType, Subjects,
     Tokens, Outcomes
<1>3. CASE SecretStep
  BY <1>1, <1>3, SecretTypes DEF TypeOK, oauth, events, CallType, Subjects, Tokens, Outcomes
<1>4. CASE OtherStep \/ CallStep
  <2>1. UNCHANGED <<vault, link, events>>
    BY <1>4, OtherChanges, CallChanges DEF secrets
  <2> QED BY <1>1, <1>4, <2>1, RestTypes DEF TypeOK, link, events, CallType, Subjects, Tokens,
             Outcomes
<1> QED BY <1>2, <1>3, <1>4, StepCases
-----------------------------------------------------------------------------
(* The intents, the calendar and the executions, where the events change.  *)
LEMMA EventStepInv == IInv /\ EventStep => EventInv'
<1> SUFFICES ASSUME IInv, EventStep PROVE EventInv' OBVIOUS
<1>1. TypeOK /\ EventInv BY DEF IInv
<1>2. /\ intents \in [Keys -> Statuses] /\ payload \in [Keys -> Payloads \cup {None}]
      /\ agreed \in [Keys -> Payloads \cup {None}] /\ call \in [Calls -> CallType]
      /\ calendar \subseteq [id : Keys, key : Keys, payload : Payloads]
  BY <1>1 DEF TypeOK, CallType, Subjects, Tokens, Outcomes
<1>3. ASSUME NEW k \in Keys, NEW p \in Payloads, ProposeEvent(k, p) PROVE EventInv'
  <2>1. /\ intents[k] = "none" /\ intents' = [intents EXCEPT ![k] = "awaiting_approval"]
        /\ payload' = [payload EXCEPT ![k] = p] /\ UNCHANGED <<agreed, calendar, call>>
    BY <1>3 DEF ProposeEvent
  <2>2. IntentsHaveTerms' BY <1>1, <1>2, <2>1 DEF EventInv, IntentsHaveTerms, Went
  <2>3. ExecutionsAreBacked'
    BY <1>1, <1>2, <2>1 DEF EventInv, ExecutionsAreBacked, Backed, Went
  <2>4. EventsAsApproved' BY <1>1, <1>2, <2>1 DEF EventInv, EventsAsApproved
  <2>5. CompletedMeansCreated' BY <1>1, <1>2, <2>1 DEF EventInv, CompletedMeansCreated
  <2> QED BY <1>1, <2>1, <2>2, <2>3, <2>4, <2>5 DEF EventInv, EventsAreNamed,
             OneEventPerIntent
<1>4. ASSUME NEW k \in Keys, NEW p \in Payloads, ReplayProposal(k, p) PROVE EventInv'
  <2>1. UNCHANGED <<events, call>> BY <1>4 DEF ReplayProposal, Replayed, events
  <2> QED BY <1>1, <2>1 DEF EventInv, IntentsHaveTerms, EventsAreNamed, ExecutionsAreBacked,
             Backed, OneEventPerIntent, EventsAsApproved, CompletedMeansCreated, events
<1>5. ASSUME NEW k \in Keys, NEW yes \in BOOLEAN, Decide(k, yes) PROVE EventInv'
  <2>1. /\ intents[k] = "awaiting_approval" /\ UNCHANGED <<payload, calendar, call>>
        /\ \/ /\ intents' = [intents EXCEPT ![k] = "approved"]
              /\ agreed' = [agreed EXCEPT ![k] = payload[k]]
           \/ intents' = [intents EXCEPT ![k] = "cancelled"] /\ agreed' = agreed
    BY <1>5 DEF Decide
  <2>2. IntentsHaveTerms' BY <1>1, <1>2, <2>1 DEF EventInv, IntentsHaveTerms, Went
  <2>3. ExecutionsAreBacked'
    BY <1>1, <1>2, <2>1 DEF EventInv, ExecutionsAreBacked, Backed, Went
  <2>4. EventsAsApproved' BY <1>1, <1>2, <2>1 DEF EventInv, EventsAsApproved
  <2>5. CompletedMeansCreated' BY <1>1, <1>2, <2>1 DEF EventInv, CompletedMeansCreated
  <2> QED BY <1>1, <2>1, <2>2, <2>3, <2>4, <2>5 DEF EventInv, EventsAreNamed,
             OneEventPerIntent
<1>6. ASSUME NEW c \in Calls, CreateEvent(c) PROVE EventInv'
  <2> DEFINE k == call[c].subject
             new == [id |-> k, key |-> k, payload |-> payload[k]]
  <2>1. call[c].job = "execute" BY <1>6 DEF CreateEvent
  <2>2. k \in Keys /\ intents[k] \in Went
    BY <1>1, <2>1 DEF EventInv, ExecutionsAreBacked, Backed
  <2>3. agreed[k] = payload[k] BY <1>1, <2>2 DEF EventInv, IntentsHaveTerms
  <2>4. UNCHANGED <<intents, payload, agreed>> BY <1>6 DEF CreateEvent
  <2>5. \/ calendar' = calendar
        \/ calendar' = calendar \cup {new} /\ \A e \in calendar : e.id # k
    BY <1>6 DEF CreateEvent, EventId
  <2>6. PICK b \in BOOLEAN :
          /\ call' = [call EXCEPT ![c].pc = "record", ![c].outcome = Concluded(b)]
          /\ b => \E e \in calendar' : e.id = k
    <3>1. CASE calendar' = IF \E e \in calendar : e.id = k THEN calendar
                           ELSE calendar \cup {new}
      <4>1. \E e \in calendar' : e.id = k
        <5>1. new.id = k OBVIOUS
        <5> HIDE DEF new
        <5> QED BY <3>1, <5>1
      <4>2. \E b \in BOOLEAN :
              call' = [call EXCEPT ![c].pc = "record", ![c].outcome = Concluded(b)]
        BY <1>6 DEF CreateEvent
      <4> QED BY <4>1, <4>2
    <3>2. CASE call' = [call EXCEPT ![c].pc = "record", ![c].outcome = Concluded(FALSE)]
      BY <3>2
    <3> QED BY <1>6, <3>1, <3>2 DEF CreateEvent, EventId
  <2>7. new.key = k /\ new.id = k /\ new.payload = payload[k] OBVIOUS
  <2> HIDE DEF new
  <2>8. EventsAreNamed' BY <1>1, <2>5, <2>7 DEF EventInv, EventsAreNamed
  <2>9. \A d \in Calls : Backed(call[d])'
    <3>1. ASSUME NEW d \in Calls, d # c PROVE Backed(call[d])'
      <4>1. call'[d] = call[d] BY <1>2, <2>6, <3>1
      <4>2. Backed(call[d]) BY <1>1 DEF EventInv, ExecutionsAreBacked
      <4> QED BY <2>4, <2>5, <4>1, <4>2 DEF Backed
    <3>2. /\ call'[c].job = "execute" /\ call'[c].subject = k
          /\ call'[c].outcome = Concluded(b)
      BY <1>2, <2>1, <2>6 DEF CallType
    <3>3. b = FALSE => Concluded(b) # "completed" BY DEF Concluded
    <3> QED BY <2>2, <2>4, <2>6, <2>8, <3>1, <3>2, <3>3 DEF Backed, EventsAreNamed
  <2>10. OneEventPerIntent'
    BY <1>1, <2>5, <2>7 DEF EventInv, EventsAreNamed, OneEventPerIntent
  <2>11. EventsAsApproved'
    BY <1>1, <2>2, <2>3, <2>4, <2>5, <2>7 DEF EventInv, EventsAsApproved, Went
  <2>12. CompletedMeansCreated' BY <1>1, <2>4, <2>5 DEF EventInv, CompletedMeansCreated
  <2>13. IntentsHaveTerms' BY <1>1, <2>4 DEF EventInv, IntentsHaveTerms
  <2> QED BY <2>8, <2>9, <2>10, <2>11, <2>12, <2>13 DEF EventInv, ExecutionsAreBacked
<1>7. ASSUME NEW c \in Calls, RecordResult(c) PROVE EventInv'
  <2> DEFINE k == call[c].subject
  <2>1. Backed(call[c]) /\ call[c].pc = "record"
    BY <1>1, <1>7 DEF EventInv, ExecutionsAreBacked, RecordResult
  <2>2. k \in Keys /\ intents[k] \in Went /\ agreed[k] = payload[k]
    <3>1. k \in Keys /\ intents[k] \in Went BY <2>1 DEF Backed
    <3> QED BY <1>1, <3>1 DEF EventInv, IntentsHaveTerms
  <2>3. /\ UNCHANGED <<payload, agreed, calendar>>
        /\ call' = [call EXCEPT ![c] = Idle]
        /\ \/ intents' = intents
           \/ intents[k] = "approved" /\ intents' = [intents EXCEPT ![k] = call[c].outcome]
    BY <1>7 DEF RecordResult, Recordable, Returns
  <2>4. call[c].outcome \in {"completed", "failed"} BY <1>2 DEF CallType, Outcomes
  <2>6. \A j \in Keys : /\ intents[j] \in Went => intents'[j] \in Went
                        /\ intents'[j] # intents[j] => intents[j] \in Went
    BY <1>2, <2>2, <2>3, <2>4 DEF Went
  <2>5. IntentsHaveTerms'
    BY <1>1, <2>3, <2>6 DEF EventInv, IntentsHaveTerms, Went
  <2>7. ASSUME NEW d \in Calls PROVE Backed(call[d])'
    <3>1. call'[d] = Idle \/ call'[d] = call[d] BY <1>2, <2>3
    <3>2. Backed(call[d]) BY <1>1 DEF EventInv, ExecutionsAreBacked
    <3> QED BY <2>3, <2>6, <3>1, <3>2 DEF Backed, Idle
  <2>8. EventsAsApproved' BY <1>1, <1>2, <2>3, <2>4 DEF EventInv, EventsAsApproved
  <2>9. CompletedMeansCreated'
    <3>1. ASSUME NEW j \in Keys, intents'[j] = "completed"
          PROVE  \E e \in calendar : e.key = j
      <4>1. CASE intents[j] = "completed"
        BY <1>1, <4>1 DEF EventInv, CompletedMeansCreated
      <4>2. CASE intents[j] # "completed"
        <5>1. j = k /\ call[c].outcome = "completed" BY <1>2, <2>3, <3>1, <4>2
        <5> QED BY <2>1, <5>1 DEF Backed
      <4> QED BY <4>1, <4>2
    <3> QED BY <2>3, <3>1 DEF CompletedMeansCreated
  <2> QED BY <1>1, <2>3, <2>5, <2>7, <2>8, <2>9 DEF EventInv, EventsAreNamed,
             OneEventPerIntent, ExecutionsAreBacked
<1> QED BY <1>3, <1>4, <1>5, <1>6, <1>7 DEF EventStep

(* Where the events stay, a call is backed after a step as it was before.  *)
LEMMA QuietStepInv ==
  ASSUME IInv, UNCHANGED events, \A c \in Calls : Backed(call[c]) => Backed(call'[c])
  PROVE  EventInv'
<1>1. \A c \in Calls : Backed(call[c])' BY DEF IInv, EventInv, ExecutionsAreBacked, Backed, events
<1> QED BY <1>1 DEF IInv, EventInv, IntentsHaveTerms, EventsAreNamed, ExecutionsAreBacked,
           OneEventPerIntent, EventsAsApproved, CompletedMeansCreated, events

(* So is what relates intents, calls in flight and the events at Google.   *)
LEMMA EventsInv == IInv /\ [Next]_vars => EventInv'
<1> SUFFICES ASSUME IInv, [Next]_vars PROVE EventInv' OBVIOUS
<1>1. call \in [Calls -> CallType]
  BY DEF IInv, TypeOK, CallType, Subjects, Tokens, Outcomes
<1>2. CASE SecretStep
  <2>1. UNCHANGED events BY <1>2, SecretTypes
  <2>2. ASSUME NEW d \in Calls, Backed(call[d]) PROVE Backed(call'[d])
    <3>1. CASE RevokeLocally BY <2>2, <3>1 DEF RevokeLocally
    <3>2. ASSUME NEW c \in Calls, StoreConnection(c) PROVE Backed(call'[d])
      <4>1. \/ call' = [call EXCEPT ![c] = Idle]
            \/ call' = [call EXCEPT ![c].pc = "act", ![c].job = "watch",
                                    ![c].cred = call[c].grant]
        BY <3>2 DEF StoreConnection, Returns
      <4>2. \/ call'[d] = call[d] \/ call'[d] = Idle
            \/ call'[d].job = "watch" /\ call'[d].pc = "act"
        BY <1>1, <4>1 DEF CallType
      <4> QED BY <2>2, <4>2 DEF Backed, Idle
    <3>3. ASSUME NEW c \in Calls, UpdateTokens(c) \/ DropConnection(c)
          PROVE  Backed(call'[d])
      <4>1. call' = [call EXCEPT ![c] = Idle] \/ call' = [call EXCEPT ![c].pc = "act"]
        BY <3>3 DEF UpdateTokens, DropConnection, Goes, Returns
      <4>2. \/ call'[d] = call[d] \/ call'[d] = Idle
            \/ /\ call'[d].pc = "act" /\ call'[d].job = call[d].job
               /\ call'[d].subject = call[d].subject
        BY <1>1, <4>1 DEF CallType
      <4> QED BY <2>2, <4>2 DEF Backed, Idle
    <3> QED BY <1>2, <3>1, <3>2, <3>3 DEF SecretStep
  <2> QED BY <2>1, <2>2, QuietStepInv
<1>3. CASE OtherStep BY <1>3, OtherChanges, QuietStepInv
<1>4. CASE CallStep
  <2>1. UNCHANGED events BY <1>4, CallChanges
  <2>2. ASSUME NEW d \in Calls, Backed(call[d]) PROVE Backed(call'[d])
    <3> PICK c \in Calls :
          \/ \E a \in Attempts : ConsumeAttempt(c, a)
          \/ \E g \in Grants : ExchangeCode(c, g)
          \/ \E k \in Keys : StartExecute(c, k)
          \/ \E h \in Channels : OpenChannel(c, h)
          \/ StartRead(c) \/ StartWatch(c) \/ StartRevoke(c) \/ LoadTokens(c)
          \/ RefreshTokens(c)
          \/ RecordFails(c) \/ StoreChannel(c) \/ RevokeAtGoogle(c) \/ CallEnds(c)
      BY <1>4 DEF CallStep
    <3>1. CASE d # c
      <4>1. call'[d] = call[d]
        BY <1>1, <3>1 DEF ConsumeAttempt, ExchangeCode, StartExecute, OpenChannel, StartRead,
           StartWatch, StartRevoke, StartCall, LoadTokens, RefreshTokens, RecordFails,
           StoreChannel, RevokeAtGoogle, CallEnds, Goes, Returns
      <4> QED BY <2>2, <4>1
    <3>2. CASE d = c
      <4>1. ASSUME NEW a \in Attempts, ConsumeAttempt(c, a) PROVE Backed(call'[c])
        <5>1. call'[c].job = "connect" /\ call'[c].pc = "exchange"
          BY <1>1, <4>1 DEF ConsumeAttempt, CallType
        <5> QED BY <5>1 DEF Backed
      <4>2. ASSUME NEW k \in Keys, StartExecute(c, k) PROVE Backed(call'[c])
        <5>1. call'[c].subject = k /\ call'[c].pc = "tokens" /\ intents[k] = "approved"
          BY <1>1, <4>2 DEF StartExecute, Executable, StartCall
        <5> QED BY <5>1 DEF Backed, Went
      <4>3. ASSUME StartRead(c) \/ StartWatch(c) \/ StartRevoke(c) PROVE Backed(call'[c])
        <5>1. call'[c].job \in {"read", "watch", "revoke"} /\ call'[c].pc = "tokens"
          BY <1>1, <4>3 DEF StartRead, StartWatch, StartRevoke, StartCall
        <5> QED BY <5>1 DEF Backed
      <4>4. ASSUME NEW h \in Channels, OpenChannel(c, h) PROVE Backed(call'[c])
        <5>1. call'[c].job = "watch" /\ call'[c].pc = "keep"
          BY <1>1, <4>4 DEF OpenChannel, CallType
        <5> QED BY <5>1 DEF Backed
      <4>5. ASSUME \/ \E g \in Grants : ExchangeCode(c, g)
                   \/ LoadTokens(c) \/ RefreshTokens(c) \/ RevokeAtGoogle(c)
            PROVE  Backed(call'[c])
        <5>1. /\ call'[c].job = call[c].job /\ call'[c].subject = call[c].subject
              /\ call'[c].pc # "record"
          BY <1>1, <4>5 DEF ExchangeCode, LoadTokens, RefreshTokens, RevokeAtGoogle, Goes,
             CallType
        <5> QED BY <2>2, <3>2, <5>1 DEF Backed
      <4>6. ASSUME RecordFails(c) PROVE Backed(call'[c])
        <5>1. /\ call'[c].job = call[c].job /\ call'[c].subject = call[c].subject
              /\ call'[c].pc = call[c].pc /\ call'[c].outcome = "failed"
          BY <1>1, <4>6 DEF RecordFails, CallType
        <5> QED BY <2>2, <3>2, <5>1 DEF Backed
      <4>7. ASSUME StoreChannel(c) \/ CallEnds(c) PROVE Backed(call'[c])
        <5>1. call'[c] = Idle BY <1>1, <4>7 DEF StoreChannel, CallEnds, Returns
        <5> QED BY <5>1 DEF Backed, Idle
      <4> QED BY <3>2, <4>1, <4>2, <4>3, <4>4, <4>5, <4>6, <4>7
    <3> QED BY <3>1, <3>2
  <2> QED BY <2>1, <2>2, QuietStepInv
<1> QED BY <1>2, <1>3, <1>4, EventStepInv, StepCases
-----------------------------------------------------------------------------
(* A call that has an exchanged code or is refreshing has a grant.         *)
HoldsGrant(r) ==
  /\ r.pc = "store" => r.grant \in Grants
  /\ r.pc \in {"refresh", "update"} => r.cred \in Grants /\ r.grant = r.cred

(* A call that read an entry still holds the number of a grant that is     *)
(* that entry's own, whatever others wrote in between.                     *)
LEMMA HoldsStep ==
  ASSUME IInv, [Next]_vars, NEW d \in Calls
  PROVE  HoldsGrant(call'[d])
<1>1. call \in [Calls -> CallType]
  BY DEF IInv, TypeOK, CallType, Subjects, Tokens, Outcomes
<1>2. HoldsGrant(call[d]) BY DEF IInv, EntriesOwnTheirGrant, HoldsGrant
<1>3. CASE call'[d] = call[d] BY <1>2, <1>3
<1>4. CASE call'[d] = Idle BY <1>4 DEF HoldsGrant, Idle
<1>5. ASSUME NEW p \in {"exchange", "tokens", "act", "keep", "drop", "record"}, call'[d].pc = p
      PROVE  HoldsGrant(call'[d])
  BY <1>5 DEF HoldsGrant
<1>6. CASE EventStep
  <2>1. \A k, p : ProposeEvent(k, p) \/ ReplayProposal(k, p) \/ Decide(k, p) => call' = call
    BY DEF ProposeEvent, ReplayProposal, Decide
  <2>2. ASSUME NEW c \in Calls, CreateEvent(c) PROVE HoldsGrant(call'[d])
    <3>1. PICK b \in BOOLEAN :
            call' = [call EXCEPT ![c].pc = "record", ![c].outcome = Concluded(b)]
      BY <2>2 DEF CreateEvent
    <3>2. call'[d] = call[d] \/ call'[d].pc = "record" BY <1>1, <3>1 DEF CallType
    <3> QED BY <1>3, <1>5, <3>2
  <2>3. ASSUME NEW c \in Calls, RecordResult(c) PROVE HoldsGrant(call'[d])
    <3>1. call'[d] = call[d] \/ call'[d] = Idle BY <1>1, <2>3 DEF RecordResult, Returns
    <3> QED BY <1>3, <1>4, <3>1
  <2> QED BY <1>3, <1>6, <2>1, <2>2, <2>3 DEF EventStep
<1>7. CASE SecretStep
  <2>1. ASSUME NEW c \in Calls, StoreConnection(c) PROVE HoldsGrant(call'[d])
    <3>1. \/ call' = [call EXCEPT ![c] = Idle]
          \/ call' = [call EXCEPT ![c].pc = "act", ![c].job = "watch",
                                  ![c].cred = call[c].grant]
      BY <2>1 DEF StoreConnection, Returns
    <3>2. call'[d] = call[d] \/ call'[d] = Idle \/ call'[d].pc = "act"
      BY <1>1, <3>1 DEF CallType
    <3> QED BY <1>3, <1>4, <1>5, <3>2
  <2>2. ASSUME NEW c \in Calls, UpdateTokens(c) \/ DropConnection(c)
        PROVE  HoldsGrant(call'[d])
    <3>1. call' = [call EXCEPT ![c] = Idle] \/ call' = [call EXCEPT ![c].pc = "act"]
      BY <2>2 DEF UpdateTokens, DropConnection, Goes, Returns
    <3>2. call'[d] = call[d] \/ call'[d] = Idle \/ call'[d].pc = "act"
      BY <1>1, <3>1 DEF CallType
    <3> QED BY <1>3, <1>4, <1>5, <3>2
  <2>3. RevokeLocally => call' = call BY DEF RevokeLocally
  <2> QED BY <1>3, <1>7, <2>1, <2>2, <2>3 DEF SecretStep
<1>8. CASE OtherStep BY <1>3, <1>8, OtherChanges
<1>9. CASE CallStep
  <2> PICK c \in Calls :
        \/ \E a \in Attempts : ConsumeAttempt(c, a)
        \/ \E g \in Grants : ExchangeCode(c, g)
        \/ \E k \in Keys : StartExecute(c, k)
        \/ \E h \in Channels : OpenChannel(c, h)
        \/ StartRead(c) \/ StartWatch(c) \/ StartRevoke(c) \/ LoadTokens(c)
        \/ RefreshTokens(c)
        \/ RecordFails(c) \/ StoreChannel(c) \/ RevokeAtGoogle(c) \/ CallEnds(c)
    BY <1>9 DEF CallStep
  <2>1. CASE d # c
    <3>1. call'[d] = call[d]
      BY <1>1, <2>1 DEF ConsumeAttempt, ExchangeCode, StartExecute, OpenChannel, StartRead,
         StartWatch, StartRevoke, StartCall, LoadTokens, RefreshTokens, RecordFails,
         StoreChannel, RevokeAtGoogle, CallEnds, Goes, Returns
    <3> QED BY <1>3, <3>1
  <2>2. CASE d = c
    <3>1. ASSUME NEW a \in Attempts, ConsumeAttempt(c, a) PROVE call'[c].pc = "exchange"
      BY <1>1, <3>1 DEF ConsumeAttempt, CallType
    <3>2. ASSUME NEW g \in Grants, ExchangeCode(c, g) PROVE HoldsGrant(call'[c])
      <4>1. call'[c].pc = "store" /\ call'[c].grant = g
        BY <1>1, <3>2 DEF ExchangeCode, CallType
      <4> QED BY <4>1 DEF HoldsGrant
    <3>3. ASSUME NEW k \in Keys, StartExecute(c, k) PROVE call'[c].pc = "tokens"
      BY <1>1, <3>3 DEF StartExecute, StartCall
    <3>4. ASSUME NEW h \in Channels, OpenChannel(c, h) PROVE call'[c].pc = "keep"
      BY <1>1, <3>4 DEF OpenChannel, CallType
    <3>5. ASSUME StartRead(c) \/ StartWatch(c) \/ StartRevoke(c) PROVE call'[c].pc = "tokens"
      BY <1>1, <3>5 DEF StartRead, StartWatch, StartRevoke, StartCall
    <3>6. ASSUME LoadTokens(c) PROVE HoldsGrant(call'[c])
      <4>1. call[c].cred \in Grants /\ vault[call[c].cred] = call[c].cred
        BY <3>6 DEF LoadTokens, Stored, IInv, EntriesOwnTheirGrant
      <4>2. /\ call'[c].cred = call[c].cred /\ call'[c].grant = vault[call[c].cred]
            /\ call'[c].pc # "store"
        BY <1>1, <3>6 DEF LoadTokens, CallType
      <4> QED BY <4>1, <4>2 DEF HoldsGrant
    <3>7. ASSUME RefreshTokens(c) PROVE HoldsGrant(call'[c])
      <4>1. /\ call'[c].cred = call[c].cred /\ call'[c].grant = call[c].grant
            /\ call[c].pc = "refresh" /\ call'[c].pc = "update"
        BY <1>1, <3>7 DEF RefreshTokens, Goes, CallType
      <4> QED BY <1>2, <2>2, <4>1 DEF HoldsGrant
    <3>8. ASSUME RevokeAtGoogle(c) PROVE call'[c].pc = "drop"
      BY <1>1, <3>8 DEF RevokeAtGoogle, Goes, CallType
    <3>9. ASSUME RecordFails(c) PROVE HoldsGrant(call'[c])
      <4>1. call'[c].pc = "record" BY <1>1, <3>9 DEF RecordFails, CallType
      <4> QED BY <4>1 DEF HoldsGrant
    <3>10. ASSUME StoreChannel(c) \/ CallEnds(c) PROVE call'[c] = Idle
      BY <1>1, <3>10 DEF StoreChannel, CallEnds, Returns
    <3> QED BY <1>4, <1>5, <2>2, <3>1, <3>2, <3>3, <3>4, <3>5, <3>6, <3>7, <3>8, <3>9, <3>10
  <2> QED BY <2>1, <2>2
<1> QED BY <1>6, <1>7, <1>8, <1>9, StepCases

(* The entries and the connection.                                         *)
LEMMA SecretInv ==
  ASSUME IInv, [Next]_vars
  PROVE  /\ \A i \in Grants : vault'[i] \in {NoEntry, i}
         /\ \A i \in Grants : Stored(i)' => i = conn'.cred /\ vault'[i] = newest'
         /\ conn'.status = "connected" => Stored(conn.cred)'
<1> DEFINE Good == /\ \A i \in Grants : vault'[i] \in {NoEntry, i}
                   /\ \A i \in Grants : Stored(i)' => i = conn'.cred /\ vault'[i] = newest'
                   /\ conn'.status = "connected" => Stored(conn.cred)'
<1>1. /\ \A i \in Grants : vault[i] \in {NoEntry, i}
      /\ \A i \in Grants : Stored(i) => i = conn.cred /\ vault[i] = newest
      /\ conn.status = "connected" => Stored(conn.cred)
      /\ vault \in [Grants -> Tokens]
      /\ conn \in [status : {"none", "connected", "revoked"}, cred : Tokens]
  BY DEF IInv, EntriesOwnTheirGrant, OnlyCurrentCredential, TypeOK, Tokens
<1>2. CASE UNCHANGED <<vault, link>> BY <1>1, <1>2 DEF Stored, link
<1>3. CASE EventStep
  <2>1. UNCHANGED <<vault, link>> BY <1>3, EventTypes DEF secrets
  <2> QED BY <1>2, <2>1
<1>4. CASE OtherStep \/ CallStep BY <1>2, <1>4, OtherChanges, CallChanges
<1>5. CASE RevokeLocally
  <2>1. conn'.status = "revoked" /\ conn'.cred = conn.cred /\ UNCHANGED <<vault, newest>>
    BY <1>1, <1>5 DEF RevokeLocally, secrets
  <2> QED BY <1>1, <2>1 DEF Stored
<1>6. ASSUME NEW c \in Calls, StoreConnection(c) PROVE Good
  <2> DEFINE g == call[c].grant
  <2>1. g \in Grants BY <1>6 DEF StoreConnection, IInv, EntriesOwnTheirGrant
  <2>2. conn'.cred = g /\ newest' = g /\ conn'.status = "connected"
    BY <1>6 DEF StoreConnection
  <2>3. vault' = [i \in Grants |-> IF i = g THEN g ELSE IF i = conn.cred THEN NoEntry
                                   ELSE vault[i]]
    BY <1>6 DEF StoreConnection, Replaced
  <2>4. \A i \in Grants : vault'[i] = IF i = g THEN g ELSE NoEntry
    BY <1>1, <2>1, <2>3 DEF Stored
  <2> QED BY <2>1, <2>2, <2>4 DEF Stored
<1>7. ASSUME NEW c \in Calls, UpdateTokens(c) PROVE Good
  <2> DEFINE i == call[c].cred
  <2>1. i \in Grants /\ vault[i] # NoEntry /\ call[c].grant = i
    BY <1>7 DEF UpdateTokens, ReadEntry, Writable, Stored, IInv, EntriesOwnTheirGrant
  <2>2. vault' = [vault EXCEPT ![i] = call[c].grant] /\ UNCHANGED link
    BY <1>7 DEF UpdateTokens, ReadEntry
  <2>3. vault' = vault BY <1>1, <2>1, <2>2
  <2> QED BY <1>2, <2>2, <2>3
<1>8. ASSUME NEW c \in Calls, DropConnection(c) PROVE Good
  <2>1. /\ conn'.status = "revoked" /\ conn'.cred = conn.cred
        /\ vault' = [vault EXCEPT ![conn.cred] = NoEntry]
    BY <1>1, <1>8 DEF DropConnection
  <2> QED BY <1>1, <2>1 DEF Stored
<1> HIDE DEF Good
<1>9. Good \/ ~SecretStep BY <1>5, <1>6, <1>7, <1>8 DEF SecretStep, Good
<1> QED BY <1>3, <1>4, <1>9, StepCases DEF Good
-----------------------------------------------------------------------------
(* The parts of IInv hold together: intents, events and calls keep to      *)
(* what was approved, and every entry of the vault to its own grant.       *)
THEOREM Inductive == Spec => []IInv
<1>1. Init => IInv
  <2> SUFFICES ASSUME Init PROVE IInv OBVIOUS
  <2>1. TypeOK BY DEF Init, TypeOK, Idle, Places, Jobs, Statuses
  <2>2. \A c \in Calls : call[c] = Idle BY DEF Init
  <2>3. EventInv
    BY <2>2 DEF Init, EventInv, IntentsHaveTerms, EventsAreNamed, ExecutionsAreBacked, Backed,
       OneEventPerIntent, EventsAsApproved, CompletedMeansCreated, Idle, Went
  <2>4. EntriesOwnTheirGrant BY <2>2 DEF Init, EntriesOwnTheirGrant, Idle
  <2>5. OnlyCurrentCredential BY <2>1 DEF Init, OnlyCurrentCredential, Stored
  <2> QED BY <2>1, <2>3, <2>4, <2>5 DEF IInv
<1>2. IInv /\ [Next]_vars => IInv'
  <2> SUFFICES ASSUME IInv, [Next]_vars PROVE IInv' OBVIOUS
  <2>1. TypeOK' /\ EventInv' BY TypeStep, EventsInv
  <2>2. EntriesOwnTheirGrant'
    BY HoldsStep, SecretInv DEF EntriesOwnTheirGrant, HoldsGrant
  <2>3. OnlyCurrentCredential' BY <2>1, SecretInv DEF OnlyCurrentCredential
  <2> QED BY <2>1, <2>2, <2>3 DEF IInv
<1> QED BY <1>1, <1>2, PTL DEF Spec

(* One event of an intent at most, however often it is executed.           *)
THEOREM OneEventTheorem == Spec => []OneEventPerIntent
<1>1. IInv => OneEventPerIntent BY DEF IInv, EventInv
<1> QED BY <1>1, Inductive, PTL

(* What is in the calendar is what a person approved.                      *)
THEOREM ApprovedTheorem == Spec => []EventsAsApproved
<1>1. IInv => EventsAsApproved BY DEF IInv, EventInv
<1> QED BY <1>1, Inductive, PTL

(* An intent said to be completed has its event.                           *)
THEOREM CompletedTheorem == Spec => []CompletedMeansCreated
<1>1. IInv => CompletedMeansCreated BY DEF IInv, EventInv
<1> QED BY <1>1, Inductive, PTL

(* The calendar holds what was approved, once, and the intent says so.     *)
THEOREM HonouredTheorem == Spec => []EventsAreHonoured
BY OneEventTheorem, ApprovedTheorem, CompletedTheorem, PTL DEF EventsAreHonoured

(* The vault holds the tokens of the present connection and of no other.   *)
THEOREM CredentialTheorem == Spec => []OnlyCurrentCredential
<1>1. IInv => OnlyCurrentCredential BY DEF IInv
<1> QED BY <1>1, Inductive, PTL

(* The first result of an intent is its last.                              *)
THEOREM FirstResultTheorem == Spec => FirstResultStays
<1>1. ASSUME IInv, [Next]_vars, NEW k \in Keys,
             intents[k] \in {"completed", "failed", "cancelled"}
      PROVE  intents'[k] = intents[k]
  <2>1. intents \in [Keys -> Statuses] BY <1>1 DEF IInv, TypeOK
  <2>2. CASE EventStep
    BY <1>1, <2>1, <2>2 DEF EventStep, ProposeEvent, ReplayProposal, Decide, CreateEvent,
       RecordResult, Recordable
  <2>3. CASE SecretStep BY <2>3, <1>1, SecretTypes DEF events
  <2>4. CASE OtherStep \/ CallStep BY <2>4, OtherChanges, CallChanges DEF events
  <2> QED BY <1>1, <2>2, <2>3, <2>4, StepCases
<1>2. IInv /\ [Next]_vars =>
        [\A k \in Keys : intents[k] \in {"completed", "failed", "cancelled"} =>
           intents'[k] = intents[k]]_vars
  BY <1>1
<1> QED BY <1>2, Inductive, PTL DEF Spec, FirstResultStays
-----------------------------------------------------------------------------
(* An attempt not yet consumed has not given its verifier to anybody.      *)
AttemptInv ==
  /\ AttemptsAreSingleUse
  /\ \A a \in Attempts : attempts[a] \in {"unused", "pending"} => handed[a] = 0

(* The verifier of an attempt is handed out once.                          *)
THEOREM SingleUseTheorem == Spec => []AttemptsAreSingleUse
<1>1. Init => AttemptInv BY DEF Init, AttemptInv, AttemptsAreSingleUse
<1>2. IInv /\ AttemptInv /\ [Next]_vars => AttemptInv'
  <2> SUFFICES ASSUME IInv, AttemptInv, [Next]_vars PROVE AttemptInv' OBVIOUS
  <2>1. /\ attempts \in [Attempts -> {"unused", "pending", "expired", "consumed"}]
        /\ handed \in [Attempts -> Nat]
    BY DEF IInv, TypeOK
  <2>2. CASE UNCHANGED oauth BY <2>2 DEF AttemptInv, AttemptsAreSingleUse, oauth
  <2>3. ASSUME NEW a \in Attempts, BeginOAuth(a) \/ AttemptLapses(a) PROVE AttemptInv'
    BY <2>1, <2>3 DEF BeginOAuth, AttemptLapses, AttemptInv, AttemptsAreSingleUse
  <2>4. ASSUME NEW c \in Calls, NEW a \in Attempts, ConsumeAttempt(c, a) PROVE AttemptInv'
    BY <2>1, <2>4 DEF ConsumeAttempt, Consumed, AttemptInv, AttemptsAreSingleUse
  <2>5. \/ UNCHANGED oauth
        \/ \E a \in Attempts : BeginOAuth(a) \/ AttemptLapses(a)
        \/ \E c \in Calls, a \in Attempts : ConsumeAttempt(c, a)
    <3>1. CASE OtherStep
      BY <3>1 DEF OtherStep, Notify, AcceptWebhook, WithdrawConsent, TokenAges, vars, oauth
    <3>2. CASE CallStep
      BY <3>2 DEF CallStep, ExchangeCode, StartExecute, OpenChannel, StartRead, StartWatch,
         StartRevoke, StartCall, LoadTokens, RefreshTokens, RecordFails, StoreChannel,
         RevokeAtGoogle, CallEnds
    <3> QED BY <3>1, <3>2, StepCases, EventTypes, SecretTypes
  <2> QED BY <2>2, <2>3, <2>4, <2>5
<1>3. AttemptInv => AttemptsAreSingleUse BY DEF AttemptInv
<1> QED BY <1>1, <1>2, <1>3, Inductive, PTL DEF Spec

(* One consent is exchanged once, and the vault keeps the last one only.   *)
THEOREM ConsentTheorem == Spec => []ConsentsAreKept
BY CredentialTheorem, SingleUseTheorem, PTL DEF ConsentsAreKept

ChannelInv == OneActiveChannel /\ NotificationsOnce

LEMMA ChannelStep == IInv /\ ChannelInv /\ [Next]_vars => ChannelInv'
<1> SUFFICES ASSUME IInv, ChannelInv, [Next]_vars PROVE ChannelInv' OBVIOUS
<1>1. /\ chan \in [Channels -> {"none", "open", "active", "stopped"}]
      /\ accepted \in [Channels -> Seq(1..MaxNumber)]
  BY DEF IInv, TypeOK
<1>2. CASE UNCHANGED <<chan, accepted>>
  BY <1>2 DEF ChannelInv, OneActiveChannel, NotificationsOnce
<1>3. ASSUME accepted' = accepted, NEW h,
             \/ chan' = Stopped \/ chan' = [Stopped EXCEPT ![h] = "active"]
             \/ chan' = [chan EXCEPT ![h] = "open"]
      PROVE  ChannelInv'
  <2>1. OneActiveChannel' BY <1>1, <1>3 DEF ChannelInv, OneActiveChannel, Stopped
  <2> QED BY <1>3, <2>1 DEF ChannelInv, NotificationsOnce
<1>4. ASSUME NEW h \in Channels, NEW n \in 1..MaxNumber, AcceptWebhook(h, n)
      PROVE  ChannelInv'
  <2>1. chan' = chan /\ accepted' = [accepted EXCEPT ![h] = Append(accepted[h], n)]
    BY <1>4 DEF AcceptWebhook
  <2>2. \A j \in 1..Len(accepted[h]) : accepted[h][j] < n
    <3>1. accepted[h] \in Seq(1..MaxNumber) /\ LastAccepted(h) < n
      BY <1>1, <1>4 DEF AcceptWebhook, Newer, LastAccepted
    <3>2. SUFFICES ASSUME NEW j \in 1..Len(accepted[h]) PROVE accepted[h][j] < n OBVIOUS
    <3>3. /\ accepted[h] # <<>> /\ Len(accepted[h]) \in 1..Len(accepted[h])
          /\ accepted[h][j] \in 1..MaxNumber
          /\ accepted[h][Len(accepted[h])] \in 1..MaxNumber
      BY <3>1, <3>2
    <3>4. accepted[h][Len(accepted[h])] < n BY <3>1, <3>3 DEF LastAccepted
    <3>5. j < Len(accepted[h]) => accepted[h][j] < accepted[h][Len(accepted[h])]
      BY <3>3 DEF ChannelInv, NotificationsOnce
    <3> QED BY <3>2, <3>3, <3>4, <3>5
  <2>3. NotificationsOnce'
    <3> SUFFICES ASSUME NEW i \in Channels, NEW j \in 1..Len(accepted'[i]),
                        NEW k \in 1..Len(accepted'[i]), j < k
                 PROVE  accepted'[i][j] < accepted'[i][k]
      BY DEF NotificationsOnce
    <3>1. CASE i # h BY <1>1, <2>1, <3>1 DEF ChannelInv, NotificationsOnce
    <3>2. CASE i = h
      <4>1. accepted'[i] = Append(accepted[h], n) /\ accepted[h] \in Seq(1..MaxNumber)
        BY <1>1, <2>1, <3>2
      <4>2. j \in 1..Len(accepted[h]) /\ accepted'[i][j] = accepted[h][j]
        BY <4>1
      <4>3. CASE k = Len(accepted[h]) + 1 BY <2>2, <4>1, <4>2, <4>3
      <4>4. CASE k # Len(accepted[h]) + 1
        <5>1. k \in 1..Len(accepted[h]) /\ accepted'[i][k] = accepted[h][k] BY <4>1, <4>4
        <5> QED BY <4>2, <5>1 DEF ChannelInv, NotificationsOnce
      <4> QED BY <4>3, <4>4
    <3> QED BY <3>1, <3>2
  <2> QED BY <2>1, <2>3 DEF ChannelInv, OneActiveChannel
<1>5. CASE EventStep BY <1>2, <1>5, EventTypes DEF watching
<1>6. CASE SecretStep
  <2>1. ASSUME NEW c \in Calls, DropConnection(c) PROVE ChannelInv'
    BY <1>3, <2>1 DEF DropConnection
  <2> QED BY <1>2, <1>6, <2>1 DEF SecretStep, RevokeLocally, StoreConnection, UpdateTokens,
             watching
<1>7. CASE OtherStep
  BY <1>2, <1>4, <1>7 DEF OtherStep, BeginOAuth, AttemptLapses, Notify, WithdrawConsent,
     TokenAges, vars, watching
<1>8. CASE CallStep
  <2>1. \A c, h : OpenChannel(c, h) => ChannelInv' BY <1>3 DEF OpenChannel
  <2>2. \A c : StoreChannel(c) => ChannelInv' BY <1>3 DEF StoreChannel, Instead
  <2> QED BY <1>2, <1>8, <2>1, <2>2 DEF CallStep, ConsumeAttempt, ExchangeCode, StartExecute,
             StartRead, StartWatch, StartRevoke, StartCall, LoadTokens, RefreshTokens,
             RecordFails, RevokeAtGoogle, CallEnds, watching
<1> QED BY <1>5, <1>6, <1>7, <1>8, StepCases

(* One channel is listened to, and each of its notifications counts once.  *)
THEOREM ChannelTheorem == Spec => []ChangesCountOnce
<1>1. Init => ChannelInv BY DEF Init, ChannelInv, OneActiveChannel, NotificationsOnce
<1>2. ChannelInv => ChangesCountOnce BY DEF ChannelInv, ChangesCountOnce
<1> QED BY <1>1, <1>2, ChannelStep, Inductive, PTL DEF Spec
-----------------------------------------------------------------------------
(* ScheduledRuns.                                                          *)
HIDE CalendarAssumption DEF Grants, NoEntry

USE ScheduleAssumption DEF Schedules, Sweeps, Occurrence, NotScheduled

LEMMA Bounds == MaxTime \in Nat /\ MaxEdits \in Nat /\ MaxCuts \in Nat
OBVIOUS

(* What a claim reads are rows of the table it asks.                       *)
LEMMA ReadsRows ==
  /\ \A w : \A T \in Expirable(w) : T \subseteq lapsed
  /\ \A w : \A T \in Taken(w) : T \subseteq Due
BY DEF Expirable, Taken, FirstOf, kSubset

(* An order of a finite set is a sequence of its members.                  *)
LEMMA OrderIsSeq ==
  ASSUME NEW S, IsFiniteSet(S), NEW q \in SeqsOf(S) PROVE q \in Seq(S)
<1>1. Cardinality(S) \in Nat BY FS_CardinalityType
<1>2. q \in [1..Cardinality(S) -> S] BY DEF SeqsOf
<1> QED BY <1>1, <1>2

LEMMA FiniteOccurrences ==
  ASSUME NEW S, S \subseteq Occurrence PROVE IsFiniteSet(S)
<1>1. MaxTime \in Nat /\ IsFiniteSet(Coding \cup Calendar) BY ScheduleAssumption
<1>2. IsFiniteSet(1..MaxTime) BY <1>1, FS_Interval
<1>3. IsFiniteSet(Occurrence) BY <1>1, <1>2, FS_Product
<1> QED BY <1>3, FS_Subset

(* What a claim expires and what it takes, and the sequence it makes.      *)
LEMMA ClaimParts ==
  ASSUME ScheduleTypeOK, NEW w \in Sweeps, Claim(w)
  PROVE  \E expired \in SUBSET lapsed, own \in SUBSET (Due \cap OfSweep(w)) :
           ClaimRows(w, expired, own)
<1>1. PICK expired \in Expirable(w), taken \in Taken(w) :
        ClaimRows(w, expired, taken \cap OfSweep(w))
  BY DEF Claim
<1>2. expired \in SUBSET lapsed /\ taken \cap OfSweep(w) \in SUBSET (Due \cap OfSweep(w))
  BY <1>1, ReadsRows
<1> QED BY <1>1, <1>2

LEMMA ClaimedType ==
  ASSUME ScheduleTypeOK, NEW w \in Sweeps, NEW own \in SUBSET (Due \cap OfSweep(w))
  PROVE  /\ Claimed(own) \subseteq OfSweep(w) \X (1..MaxTime)
         /\ SeqsOf(Claimed(own)) \subseteq Seq(OfSweep(w) \X (1..MaxTime))
<1>1. \A s \in own : s \in OfSweep(w) /\ nextRun[s] \in 1..MaxTime
  BY DEF ScheduleTypeOK, Due
<1>2. Claimed(own) \subseteq OfSweep(w) \X (1..MaxTime)
  <2>1. Fresh(own) \subseteq own BY DEF Fresh
  <2>2. SUFFICES ASSUME NEW c \in Claimed(own) PROVE c \in OfSweep(w) \X (1..MaxTime)
    OBVIOUS
  <2>3. PICK s \in Fresh(own) : c = <<s, nextRun[s]>> BY <2>2 DEF Claimed
  <2>4. s \in OfSweep(w) /\ nextRun[s] \in 1..MaxTime BY <1>1, <2>1, <2>3
  <2> QED BY <2>3, <2>4
<1>3. IsFiniteSet(Claimed(own))
  <2>1. OfSweep(w) \X (1..MaxTime) \subseteq Occurrence BY DEF OfSweep
  <2> QED BY <1>2, <2>1, FiniteOccurrences
<1>4. \A q \in SeqsOf(Claimed(own)) : q \in Seq(Claimed(own)) BY <1>3, OrderIsSeq
<1>5. Seq(Claimed(own)) \subseteq Seq(OfSweep(w) \X (1..MaxTime)) BY <1>2
<1> QED BY <1>2, <1>4, <1>5
-----------------------------------------------------------------------------
(* The two tables and the two sweeps keep their types.                     *)
LEMMA ScheduleTypeStep == ScheduleTypeOK /\ [ScheduleNext]_scheduleVars => ScheduleTypeOK'
<1> SUFFICES ASSUME ScheduleTypeOK, [ScheduleNext]_scheduleVars PROVE ScheduleTypeOK' OBVIOUS
<1>1. CASE Pass
  <2>1. time' \in 0..MaxTime BY <1>1, Bounds DEF ScheduleTypeOK, Pass
  <2>2. lapsed' \subseteq {o \in Occurrence : runs'[o] = "claimed"} BY <1>1 DEF ScheduleTypeOK, Pass
  <2> QED BY <1>1, <2>1, <2>2 DEF ScheduleTypeOK, Pass
<1>2. ASSUME NEW o \in Occurrence, LeaseLapses(o) PROVE ScheduleTypeOK'
  BY <1>2 DEF ScheduleTypeOK, LeaseLapses
<1>3. ASSUME NEW s \in Schedules, Activate(s) PROVE ScheduleTypeOK'
  <2>1. time + 1 \in 0..MaxTime /\ time + 1 \in 0..(MaxTime + 1)
    BY <1>3, Bounds DEF ScheduleTypeOK, Activate
  <2>2. edits' \in 0..MaxEdits BY <1>3, Bounds DEF ScheduleTypeOK, Activate
  <2>3. lapsed' \subseteq {o \in Occurrence : runs'[o] = "claimed"}
    BY <1>3 DEF ScheduleTypeOK, Activate
  <2> QED BY <1>3, <2>1, <2>2, <2>3 DEF ScheduleTypeOK, Activate
<1>4. ASSUME NEW s \in Schedules, Deactivate(s) PROVE ScheduleTypeOK'
  BY <1>4, Bounds DEF ScheduleTypeOK, Deactivate
<1>5. ASSUME NEW w \in Sweeps, Claim(w) PROVE ScheduleTypeOK'
  <2>1. PICK expired \in SUBSET lapsed, own \in SUBSET (Due \cap OfSweep(w)) :
          ClaimRows(w, expired, own)
    BY <1>5, ClaimParts
  <2>2. UNCHANGED <<time, status, since, verdict, started, edits, cuts>> BY <1>5 DEF Claim
  <2>3. todo' \in [Sweeps -> Seq(Occurrence)]
    <3>1. PICK order \in SeqsOf(Claimed(own)) : todo' = [todo EXCEPT ![w] = order]
      BY <2>1 DEF ClaimRows
    <3>2. order \in Seq(OfSweep(w) \X (1..MaxTime)) BY <3>1, ClaimedType
    <3>3. OfSweep(w) \X (1..MaxTime) \subseteq Occurrence BY DEF OfSweep
    <3>4. order \in Seq(Occurrence) BY <3>2, <3>3
    <3> QED BY <3>1, <3>4 DEF ScheduleTypeOK
  <2>4. nextRun' \in [Schedules -> 0..(MaxTime + 1)]
    <3>1. \A s \in own : Following(s) \in 0..(MaxTime + 1)
      BY DEF ScheduleTypeOK, Due, Following
    <3> QED BY <2>1, <3>1 DEF ClaimRows, ScheduleTypeOK
  <2>5. runs' \in [Occurrence -> {"none", "claimed", "completed", "failed"}]
    BY <2>1 DEF ClaimRows, ScheduleTypeOK
  <2>6. lapsed' \subseteq {o \in Occurrence : runs'[o] = "claimed"}
    BY <2>1 DEF ClaimRows, ScheduleTypeOK
  <2> QED BY <2>2, <2>3, <2>4, <2>5, <2>6 DEF ScheduleTypeOK
<1>6. ASSUME NEW w \in Sweeps, todo[w] # <<>> PROVE Head(todo[w]) \in Occurrence
                                                /\ Tail(todo[w]) \in Seq(Occurrence)
  BY <1>6 DEF ScheduleTypeOK
<1>7. ASSUME NEW w \in Sweeps, Start(w) \/ StartThrows(w) PROVE ScheduleTypeOK'
  <2>1. todo[w] # <<>> BY <1>7 DEF Start, StartThrows
  <2>2. Head(todo[w]) \in Occurrence BY <1>6, <2>1
  <2>3. CASE Start(w) BY <2>2, <2>3 DEF ScheduleTypeOK, Start, Decided
  <2>4. CASE StartThrows(w)
    <3>1. started' \subseteq Occurrence BY <2>2, <2>4 DEF ScheduleTypeOK, StartThrows
    <3> QED BY <2>4, <3>1 DEF ScheduleTypeOK, StartThrows, Decided
  <2> QED BY <1>7, <2>3, <2>4
<1>8. ASSUME NEW w \in Sweeps, Complete(w) PROVE ScheduleTypeOK'
  <2>1. todo[w] # <<>> BY <1>8 DEF Complete
  <2>2. Head(todo[w]) \in Occurrence /\ Tail(todo[w]) \in Seq(Occurrence) BY <1>6, <2>1
  <2> QED BY <1>8, <2>2 DEF ScheduleTypeOK, Complete, Decided, OwnsActiveClaim
<1>9. ASSUME NEW w \in Sweeps, CompleteThrows(w) \/ CutOff(w) PROVE ScheduleTypeOK'
  <2>1. <<>> \in Seq(Occurrence) OBVIOUS
  <2>2. todo' = [todo EXCEPT ![w] = <<>>] /\ verdict' = [verdict EXCEPT ![w] = "none"]
    BY <1>9 DEF CompleteThrows, CutOff, Decided
  <2>3. UNCHANGED <<time, status, nextRun, since, runs, lapsed, started, edits>>
    BY <1>9 DEF CompleteThrows, CutOff
  <2>4. cuts' \in 0..MaxCuts BY <1>9, Bounds DEF CompleteThrows, CutOff, ScheduleTypeOK
  <2> QED BY <2>1, <2>2, <2>3, <2>4 DEF ScheduleTypeOK
<1>10. CASE UNCHANGED scheduleVars BY <1>10 DEF ScheduleTypeOK, scheduleVars
<1> QED BY <1>1, <1>2, <1>3, <1>4, <1>5, <1>7, <1>8, <1>9, <1>10 DEF ScheduleNext, Sweep

(* The two tables and the two sweeps keep their types.                     *)
THEOREM TypeCorrect == ScheduleSpec => []ScheduleTypeOK
<1>1. ScheduleInit => ScheduleTypeOK BY DEF ScheduleInit, ScheduleTypeOK
<1> QED BY <1>1, ScheduleTypeStep, PTL DEF ScheduleSpec
-----------------------------------------------------------------------------
(* Every outcome stands: the claim of a late sweep is not its own any more.*)
THEOREM OutcomesStandTheorem == ScheduleSpec => RecordedOutcomesStand
<1>1. ASSUME ScheduleTypeOK, [ScheduleNext]_scheduleVars, NEW o \in Occurrence, runs[o] \in {"completed", "failed"}
      PROVE  runs'[o] = runs[o]
  <2>1. ASSUME NEW w \in Sweeps, Claim(w) PROVE runs'[o] = runs[o]
    <3>1. PICK expired \in SUBSET lapsed, own \in SUBSET (Due \cap OfSweep(w)) :
            ClaimRows(w, expired, own)
      BY <1>1, <2>1, ClaimParts
    <3>2. o \notin expired BY <1>1 DEF ScheduleTypeOK
    <3>3. o \notin Claimed(own) BY <1>1 DEF Claimed, Fresh
    <3> QED BY <3>1, <3>2, <3>3 DEF ClaimRows
  <2>2. ASSUME NEW w \in Sweeps, Complete(w) PROVE runs'[o] = runs[o]
    BY <1>1, <2>2 DEF Complete, OwnsActiveClaim, ScheduleTypeOK
  <2>3. CASE Claim("coding") \/ Claim("calendar") BY <2>1, <2>3
  <2>4. CASE Complete("coding") \/ Complete("calendar") BY <2>2, <2>4
  <2> QED BY <1>1, <2>1, <2>2 DEF ScheduleNext, Sweep, Pass, LeaseLapses, Activate, Deactivate,
             Start, StartThrows, CompleteThrows, CutOff, scheduleVars
<1>2. ScheduleTypeOK /\ [ScheduleNext]_scheduleVars =>
        [\A o \in Occurrence : runs[o] \in {"completed", "failed"} => runs'[o] = runs[o]]_scheduleVars
  BY <1>1
<1> QED BY <1>2, TypeCorrect, PTL DEF ScheduleSpec, RecordedOutcomesStand
-----------------------------------------------------------------------------
(* A step takes no run away: what has one keeps one.                       *)
LEMMA RunsStay ==
  ASSUME ScheduleTypeOK, [ScheduleNext]_scheduleVars, NEW o \in Occurrence, runs[o] # "none" PROVE runs'[o] # "none"
<1>1. ASSUME NEW w \in Sweeps, Claim(w) PROVE runs'[o] # "none"
  <2>1. PICK expired \in SUBSET lapsed, own \in SUBSET (Due \cap OfSweep(w)) :
          ClaimRows(w, expired, own)
    BY <1>1, ClaimParts
  <2> QED BY <2>1 DEF ClaimRows
<1>2. ASSUME NEW w \in Sweeps, Complete(w) PROVE runs'[o] # "none"
  BY <1>2 DEF Complete, ScheduleTypeOK
<1> QED BY <1>1, <1>2 DEF ScheduleNext, Sweep, Pass, LeaseLapses, Activate, Deactivate,
           Start, StartThrows, CompleteThrows, CutOff, scheduleVars

(* The occurrences of an active schedule begin with the one it was         *)
(* activated for.                                                          *)
SinceActivation == \A s \in Schedules : status[s] = "active" => since[s] >= 1

(* A claim moves a schedule on by one occurrence, the one that now has its *)
(* run; an edit begins anew.                                               *)
LEMMA SkipStep ==
  ScheduleTypeOK /\ SinceActivation /\ NoOccurrenceSkipped /\ [ScheduleNext]_scheduleVars
    => SinceActivation' /\ NoOccurrenceSkipped'
<1> SUFFICES ASSUME ScheduleTypeOK, SinceActivation, NoOccurrenceSkipped, [ScheduleNext]_scheduleVars
             PROVE  SinceActivation' /\ NoOccurrenceSkipped'
  OBVIOUS
<1> USE Bounds
<1>1. ASSUME UNCHANGED <<status, since, nextRun>>
      PROVE  SinceActivation' /\ NoOccurrenceSkipped'
  <2>1. SinceActivation' BY <1>1 DEF SinceActivation
  <2>2. ASSUME NEW s \in Schedules, status[s] = "active", NEW k \in since[s]..(nextRun[s] - 1)
        PROVE  runs'[<<s, k>>] # "none"
    <3>1. <<s, k>> \in Occurrence BY <2>2 DEF ScheduleTypeOK, SinceActivation
    <3>2. runs[<<s, k>>] # "none" BY <2>2 DEF NoOccurrenceSkipped
    <3> QED BY <3>1, <3>2, RunsStay
  <2> QED BY <1>1, <2>1, <2>2 DEF NoOccurrenceSkipped
<1>2. ASSUME NEW w \in Sweeps, Claim(w) PROVE SinceActivation' /\ NoOccurrenceSkipped'
  <2>1. PICK expired \in SUBSET lapsed, own \in SUBSET (Due \cap OfSweep(w)) :
          ClaimRows(w, expired, own)
    BY <1>2, ClaimParts
  <2>2. UNCHANGED <<status, since>> BY <1>2 DEF Claim
  <2>3. SinceActivation' BY <2>2 DEF SinceActivation
  <2>4. ASSUME NEW s \in Schedules, status[s] = "active", NEW k \in since[s]..(nextRun'[s] - 1)
        PROVE  runs'[<<s, k>>] # "none"
    <3>1. nextRun'[s] = IF s \in own THEN nextRun[s] + 1 ELSE nextRun[s]
      BY <2>1 DEF ClaimRows, Following
    <3>2. CASE k \in since[s]..(nextRun[s] - 1)
      <4>1. <<s, k>> \in Occurrence BY <2>4, <3>2 DEF ScheduleTypeOK, SinceActivation
      <4>2. runs[<<s, k>>] # "none" BY <2>4, <3>2 DEF NoOccurrenceSkipped
      <4> QED BY <4>1, <4>2, RunsStay
    <3>3. CASE k \notin since[s]..(nextRun[s] - 1)
      <4>1. s \in own /\ k = nextRun[s] BY <2>4, <3>1, <3>3 DEF ScheduleTypeOK
      <4>2. <<s, k>> \in Occurrence BY <4>1 DEF ScheduleTypeOK, Due
      <4>3. runs[<<s, k>>] # "none" \/ <<s, k>> \in Claimed(own) BY <4>1 DEF Claimed, Fresh
      <4>4. CASE runs[<<s, k>>] # "none" BY <4>2, <4>4, RunsStay
      <4>5. CASE <<s, k>> \in Claimed(own) BY <2>1, <4>2, <4>5 DEF ClaimRows
      <4> QED BY <4>3, <4>4, <4>5
    <3> QED BY <3>2, <3>3
  <2> QED BY <2>2, <2>3, <2>4 DEF NoOccurrenceSkipped
<1>3. ASSUME NEW t \in Schedules, Activate(t) PROVE SinceActivation' /\ NoOccurrenceSkipped'
  <2>1. /\ status' = [status EXCEPT ![t] = "active"] /\ UNCHANGED runs
        /\ nextRun' = [nextRun EXCEPT ![t] = time + 1] /\ since' = [since EXCEPT ![t] = time + 1]
    BY <1>3 DEF Activate
  <2>2. since'[t] = time + 1 /\ nextRun'[t] = time + 1 /\ time \in Nat BY <2>1 DEF ScheduleTypeOK
  <2>3. \A s \in Schedules \ {t} :
          status'[s] = status[s] /\ since'[s] = since[s] /\ nextRun'[s] = nextRun[s]
    BY <2>1 DEF ScheduleTypeOK
  <2>4. since'[t]..(nextRun'[t] - 1) = {} BY <2>2
  <2>5. SinceActivation' BY <2>2, <2>3 DEF SinceActivation
  <2>6. NoOccurrenceSkipped' BY <2>1, <2>3, <2>4 DEF NoOccurrenceSkipped
  <2> QED BY <2>5, <2>6
<1>4. ASSUME NEW t \in Schedules, Deactivate(t) PROVE SinceActivation' /\ NoOccurrenceSkipped'
  <2>1. /\ status' = [status EXCEPT ![t] = "paused"] /\ UNCHANGED <<runs, since>>
        /\ nextRun' = [nextRun EXCEPT ![t] = NotScheduled]
    BY <1>4 DEF Deactivate
  <2>2. status'[t] = "paused" BY <2>1 DEF ScheduleTypeOK
  <2>3. \A s \in Schedules \ {t} : status'[s] = status[s] /\ nextRun'[s] = nextRun[s]
    BY <2>1 DEF ScheduleTypeOK
  <2>4. SinceActivation' BY <2>1, <2>2, <2>3 DEF SinceActivation
  <2>5. NoOccurrenceSkipped' BY <2>1, <2>2, <2>3 DEF NoOccurrenceSkipped
  <2> QED BY <2>4, <2>5
<1>5. CASE Pass BY <1>1, <1>5 DEF Pass
<1>6. ASSUME NEW o \in Occurrence, LeaseLapses(o) PROVE UNCHANGED <<status, since, nextRun>>
  BY <1>6 DEF LeaseLapses
<1>7. ASSUME NEW w \in Sweeps,
             Start(w) \/ StartThrows(w) \/ Complete(w) \/ CompleteThrows(w) \/ CutOff(w)
      PROVE  UNCHANGED <<status, since, nextRun>>
  BY <1>7 DEF Start, StartThrows, Complete, CompleteThrows, CutOff
<1>8. CASE UNCHANGED scheduleVars BY <1>1, <1>8 DEF scheduleVars
<1> QED BY <1>1, <1>2, <1>3, <1>4, <1>5, <1>6, <1>7, <1>8 DEF ScheduleNext, Sweep

(* However late a sweep comes, an active schedule skips no occurrence.     *)
THEOREM NoneSkippedTheorem == ScheduleSpec => []NoOccurrenceSkipped
<1>1. ScheduleInit => SinceActivation /\ NoOccurrenceSkipped
  BY DEF ScheduleInit, SinceActivation, NoOccurrenceSkipped
<1> QED BY <1>1, SkipStep, TypeCorrect, PTL DEF ScheduleSpec
-----------------------------------------------------------------------------
(* A sweep holds occurrences of its own template, and the first one of a   *)
(* coding sweep that reads completed had its task started.                 *)
WorkIsOwn == \A w \in Sweeps : todo[w] \in Seq(OfSweep(w) \X (1..MaxTime))
VerdictMeansStarted ==
  verdict["coding"] = "completed" /\ todo["coding"] # <<>> => Head(todo["coding"]) \in started
NoVerdictWithoutWork == \A w \in Sweeps : todo[w] = <<>> => verdict[w] = "none"
StartInv ==
  WorkIsOwn /\ NoVerdictWithoutWork /\ VerdictMeansStarted /\ CompletedMeansStarted

LEMMA StartStep == ScheduleTypeOK /\ StartInv /\ [ScheduleNext]_scheduleVars => StartInv'
<1> SUFFICES ASSUME ScheduleTypeOK, StartInv, [ScheduleNext]_scheduleVars PROVE StartInv' OBVIOUS
<1> USE DEF StartInv
<1>1. ASSUME UNCHANGED <<todo, verdict, runs, started>> PROVE StartInv'
  BY <1>1 DEF WorkIsOwn, NoVerdictWithoutWork, VerdictMeansStarted, CompletedMeansStarted
<1>2. ASSUME NEW w \in Sweeps, Claim(w) PROVE StartInv'
  <2>1. PICK expired \in SUBSET lapsed, own \in SUBSET (Due \cap OfSweep(w)) :
          ClaimRows(w, expired, own)
    BY <1>2, ClaimParts
  <2>2. UNCHANGED <<verdict, started>> /\ todo[w] = <<>> BY <1>2 DEF Claim
  <2>3. PICK order \in SeqsOf(Claimed(own)) : todo' = [todo EXCEPT ![w] = order]
    BY <2>1 DEF ClaimRows
  <2>4. order \in Seq(OfSweep(w) \X (1..MaxTime)) BY <2>3, ClaimedType
  <2>5. verdict[w] = "none" BY <2>2 DEF NoVerdictWithoutWork
  <2>6. \A v \in Sweeps : todo'[v] = IF v = w THEN order ELSE todo[v] BY <2>3 DEF ScheduleTypeOK
  <2>7. WorkIsOwn' BY <2>4, <2>6 DEF WorkIsOwn
  <2>8. NoVerdictWithoutWork' BY <2>2, <2>5, <2>6 DEF NoVerdictWithoutWork
  <2>9. VerdictMeansStarted' BY <2>2, <2>5, <2>6 DEF VerdictMeansStarted
  <2>10. \A o \in Occurrence : runs'[o] = "completed" => runs[o] = "completed"
    BY <2>1 DEF ClaimRows
  <2>11. CompletedMeansStarted' BY <2>2, <2>10 DEF CompletedMeansStarted
  <2> QED BY <2>7, <2>8, <2>9, <2>11
<1>3. ASSUME NEW w \in Sweeps, Start(w) \/ StartThrows(w) PROVE StartInv'
  <2>1. UNCHANGED <<todo, runs>> /\ todo[w] # <<>> BY <1>3 DEF Start, StartThrows
  <2>2. started \subseteq started' BY <1>3 DEF Start, StartThrows
  <2>3. \A v \in Sweeps : v # w => verdict'[v] = verdict[v]
    BY <1>3 DEF Start, StartThrows, Decided, ScheduleTypeOK
  <2>4. WorkIsOwn' BY <2>1 DEF WorkIsOwn
  <2>5. NoVerdictWithoutWork' BY <2>1, <2>3 DEF NoVerdictWithoutWork
  <2>6. VerdictMeansStarted'
    <3>1. CASE w = "calendar" BY <2>1, <2>2, <2>3, <3>1 DEF VerdictMeansStarted
    <3>2. CASE w = "coding" /\ Start(w) BY <2>1, <3>2 DEF Start, VerdictMeansStarted
    <3>3. CASE w = "coding" /\ StartThrows(w)
      <4>1. verdict'["coding"] = "failed" BY <3>3 DEF StartThrows, Decided, ScheduleTypeOK
      <4> QED BY <4>1 DEF VerdictMeansStarted
    <3> QED BY <1>3, <3>1, <3>2, <3>3
  <2>7. CompletedMeansStarted' BY <2>1, <2>2 DEF CompletedMeansStarted
  <2> QED BY <2>4, <2>5, <2>6, <2>7
<1>4. ASSUME NEW w \in Sweeps, Complete(w) \/ CompleteThrows(w) \/ CutOff(w) PROVE StartInv'
  <2>1. PICK rest \in Seq(OfSweep(w) \X (1..MaxTime)) : todo' = [todo EXCEPT ![w] = rest]
    <3>1. <<>> \in Seq(OfSweep(w) \X (1..MaxTime)) OBVIOUS
    <3>2. todo[w] # <<>> => Tail(todo[w]) \in Seq(OfSweep(w) \X (1..MaxTime))
      BY DEF WorkIsOwn
    <3> QED BY <1>4, <3>1, <3>2 DEF Complete, CompleteThrows, CutOff
  <2>2. verdict' = [verdict EXCEPT ![w] = "none"] /\ UNCHANGED started
    BY <1>4 DEF Complete, CompleteThrows, CutOff, Decided
  <2>3. \A v \in Sweeps : todo'[v] = IF v = w THEN rest ELSE todo[v] BY <2>1 DEF ScheduleTypeOK
  <2>4. \A v \in Sweeps : verdict'[v] = IF v = w THEN "none" ELSE verdict[v]
    BY <2>2 DEF ScheduleTypeOK
  <2>5. WorkIsOwn' BY <2>3 DEF WorkIsOwn
  <2>6. NoVerdictWithoutWork' BY <2>3, <2>4 DEF NoVerdictWithoutWork
  <2>7. VerdictMeansStarted' BY <2>2, <2>3, <2>4 DEF VerdictMeansStarted
  <2>8. ASSUME NEW o \in Occurrence, o[1] \in Coding, runs'[o] = "completed"
        PROVE  o \in started
    <3>1. CASE runs[o] = "completed" BY <2>8, <3>1 DEF CompletedMeansStarted
    <3>2. CASE runs[o] # "completed"
      <4>1. Complete(w) /\ o = Head(todo[w]) /\ verdict[w] = "completed" /\ todo[w] # <<>>
        BY <1>4, <2>8, <3>2 DEF Complete, CompleteThrows, CutOff, ScheduleTypeOK
      <4>2. Head(todo[w]) \in OfSweep(w) \X (1..MaxTime) BY <4>1 DEF WorkIsOwn
      <4>3. w = "coding" BY <2>8, <4>1, <4>2 DEF OfSweep
      <4> QED BY <4>1, <4>3 DEF VerdictMeansStarted
    <3> QED BY <3>1, <3>2
  <2>9. CompletedMeansStarted' BY <2>2, <2>8 DEF CompletedMeansStarted
  <2> QED BY <2>5, <2>6, <2>7, <2>9
<1>5. CASE Pass BY <1>1, <1>5 DEF Pass
<1>6. ASSUME NEW o \in Occurrence, LeaseLapses(o) PROVE UNCHANGED <<todo, verdict, runs, started>>
  BY <1>6 DEF LeaseLapses
<1>7. ASSUME NEW s \in Schedules, Activate(s) \/ Deactivate(s)
      PROVE  UNCHANGED <<todo, verdict, runs, started>>
  BY <1>7 DEF Activate, Deactivate
<1>8. CASE UNCHANGED scheduleVars BY <1>1, <1>8 DEF scheduleVars
<1> QED BY <1>1, <1>2, <1>3, <1>4, <1>5, <1>6, <1>7, <1>8 DEF ScheduleNext, Sweep

(* A completed run of a coding schedule had its task started, whatever     *)
(* became of the leases in between.                                        *)
THEOREM StartedTheorem == ScheduleSpec => []CompletedMeansStarted
<1>1. ScheduleInit => StartInv
  BY DEF ScheduleInit, StartInv, WorkIsOwn, NoVerdictWithoutWork, VerdictMeansStarted,
         CompletedMeansStarted
<1>2. StartInv => CompletedMeansStarted BY DEF StartInv
<1> QED BY <1>1, <1>2, StartStep, TypeCorrect, PTL DEF ScheduleSpec

(* No occurrence is skipped, and none is recorded as completed that was    *)
(* not started.                                                            *)
THEOREM OccurrencesTheorem == ScheduleSpec => []OccurrencesAreKept
BY TypeCorrect, NoneSkippedTheorem, StartedTheorem, PTL DEF OccurrencesAreKept
=============================================================================
