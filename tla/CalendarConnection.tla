------------------------ MODULE CalendarConnection ------------------------
(***************************************************************************)
(* One organisation's Google Calendar: the OAuth attempts, the encrypted   *)
(* credential, the event intents, the watch channels and the revocations   *)
(* (googleCalendar.ts, googleCalendarModel.ts, connectors.ts,              *)
(* google-calendar.ts, the webhook of http.ts, approvals.ts for the        *)
(* decision).                                                              *)
(*                                                                         *)
(* Queries and mutations are transactions; the actions that call them are  *)
(* not, and everything may happen between two of their steps.  A call      *)
(* below is one such action.  Google is external: what it answers follows  *)
(* from how the code reads the answers.  Membership checks are left out.   *)
(***************************************************************************)
EXTENDS Naturals, Sequences

CONSTANTS
  Calls,       \* actions that may run at the same time
  Attempts,    \* OAuth attempts (connectorOAuthStates)
  Keys,        \* scoped idempotency keys; an intent is named by its own
  Payloads,    \* events a proposal may ask for
  Channels,    \* watch channels
  MaxGrants,   \* bound on the successful code exchanges
  MaxNumber,   \* bound on the notifications of one channel
  None

ASSUME CalendarAssumption ==
  /\ MaxGrants \in Nat \ {0} /\ MaxNumber \in Nat
  /\ None \notin Attempts \cup Keys \cup Payloads \cup Channels

Grants == 1..MaxGrants
NoEntry == 0

VARIABLES
  attempts, handed,      \* of an attempt: its state, how often its verifier was given
  grants,                \* at Google: the refresh token of each exchange
  vault, fresh,          \* grant kept by a token entry; entries not yet expiring
  conn, newest,          \* the connection row; the grant stored last
  intents, payload,      \* of an intent: its status, what was proposed first
  agreed,                \* the payload that was approved
  calendar,              \* at Google: the events that came of intents
  chan, sent, accepted,  \* a channel; notifications sent; those accepted
  call                   \* where a call is, and what it holds

vars == <<attempts, handed, grants, vault, fresh, conn, newest, intents, payload,
          agreed, calendar, chan, sent, accepted, call>>
oauth == <<attempts, handed>>
secrets == <<vault, fresh>>
link == <<conn, newest>>
events == <<intents, payload, agreed, calendar>>
watching == <<chan, sent, accepted>>

Jobs == {"connect", "execute", "read", "watch", "revoke"}
Places == {"idle", "exchange", "store", "tokens", "refresh", "update", "act", "keep",
           "drop", "record"}

Idle == [pc |-> "idle", job |-> "read", subject |-> None, cred |-> NoEntry,
         grant |-> NoEntry, outcome |-> "failed"]

Init ==
  /\ attempts = [a \in Attempts |-> "unused"] /\ handed = [a \in Attempts |-> 0]
  /\ grants = [g \in Grants |-> "none"]
  /\ vault = [i \in Grants |-> NoEntry] /\ fresh = {}
  /\ conn = [status |-> "none", cred |-> NoEntry] /\ newest = NoEntry
  /\ intents = [k \in Keys |-> "none"]
  /\ payload = [k \in Keys |-> None] /\ agreed = [k \in Keys |-> None] /\ calendar = {}
  /\ chan = [h \in Channels |-> "none"] /\ sent = [h \in Channels |-> 0]
  /\ accepted = [h \in Channels |-> <<>>]
  /\ call = [c \in Calls |-> Idle]

Goes(c, p) == call' = [call EXCEPT ![c].pc = p]
Returns(c) == call' = [call EXCEPT ![c] = Idle]
Stored(i) == i \in Grants /\ vault[i] # NoEntry
-----------------------------------------------------------------------------
(* beginOAuth: a state and a verifier, good for ten minutes.               *)
BeginOAuth(a) ==
  /\ attempts[a] = "unused" /\ attempts' = [attempts EXCEPT ![a] = "pending"]
  /\ UNCHANGED <<handed, grants, secrets, link, events, watching, call>>

AttemptLapses(a) ==
  /\ attempts[a] = "pending" /\ attempts' = [attempts EXCEPT ![a] = "expired"]
  /\ UNCHANGED <<handed, grants, secrets, link, events, watching, call>>

(* Mutant: the attempt is looked up and left to be used again.             *)
LookedUp(a) == attempts

(* consumeOAuthAttempt marks the attempt and deletes its verifier.         *)
Consumed(a) == [attempts EXCEPT ![a] = "consumed"]

(* completeOAuth begins; the browser may come back twice with one state.   *)
ConsumeAttempt(c, a) ==
  /\ call[c].pc = "idle" /\ attempts[a] = "pending"
  /\ attempts' = Consumed(a) /\ handed' = [handed EXCEPT ![a] = @ + 1]
  /\ call' = [call EXCEPT ![c].pc = "exchange", ![c].job = "connect", ![c].subject = a]
  /\ UNCHANGED <<grants, secrets, link, events, watching>>

(* exchangeGoogleCode is answered: a refresh token is live at Google.      *)
ExchangeCode(c, g) ==
  /\ call[c].pc = "exchange" /\ grants[g] = "none" /\ \A f \in 1..(g - 1) : grants[f] # "none"
  /\ grants' = [grants EXCEPT ![g] = "live"]
  /\ call' = [call EXCEPT ![c].pc = "store", ![c].grant = g]
  /\ UNCHANGED <<oauth, secrets, link, events, watching>>

(* Mutant: the entry the connection had is left behind.                    *)
PriorKept(g) == [vault EXCEPT ![g] = g]

(* A new entry for the new tokens, and the prior one deleted with it.      *)
Replaced(g) ==
  [i \in Grants |-> IF i = g THEN g ELSE IF i = conn.cred THEN NoEntry ELSE vault[i]]

(* storeGoogleConnection: the entry of grant g has its number.  Deleting a *)
(* document that is gone throws, and the transaction with it.  With a      *)
(* webhook address configured the same call goes on to watch.              *)
StoreConnection(c) ==
  LET g == call[c].grant IN
  /\ call[c].pc = "store" /\ (conn.cred # NoEntry => Stored(conn.cred))
  /\ vault' = Replaced(g) /\ fresh' = fresh \cup {g}
  /\ conn' = [status |-> "connected", cred |-> g] /\ newest' = g
  /\ \/ Returns(c)
     \/ call' = [call EXCEPT ![c].pc = "act", ![c].job = "watch", ![c].cred = g]
  /\ UNCHANGED <<oauth, grants, events, watching>>
-----------------------------------------------------------------------------
(* proposeEvent: a known key is answered with the intent it has.           *)
ProposeEvent(k, p) ==
  /\ conn.status = "connected" /\ intents[k] = "none"
  /\ intents' = [intents EXCEPT ![k] = "awaiting_approval"]
  /\ payload' = [payload EXCEPT ![k] = p]
  /\ UNCHANGED <<oauth, grants, secrets, link, agreed, calendar, watching, call>>

(* Mutant: a replayed proposal brings its own payload.                     *)
Overwritten(k, p) == [payload EXCEPT ![k] = p]

(* The replay returns the intent and changes nothing.                      *)
Replayed(k, p) == payload

ReplayProposal(k, p) ==
  /\ conn.status = "connected" /\ intents[k] # "none"
  /\ payload' = Replayed(k, p)
  /\ UNCHANGED <<oauth, grants, secrets, link, intents, agreed, calendar, watching, call>>

(* decide, through settleApproval: the approval of an intent is pending    *)
(* only while the intent awaits it.                                        *)
Decide(k, yes) ==
  /\ intents[k] = "awaiting_approval"
  /\ intents' = [intents EXCEPT ![k] = IF yes THEN "approved" ELSE "cancelled"]
  /\ agreed' = IF yes THEN [agreed EXCEPT ![k] = payload[k]] ELSE agreed
  /\ UNCHANGED <<oauth, grants, secrets, link, payload, calendar, watching, call>>
-----------------------------------------------------------------------------
(* Mutant: an intent is executed whatever was decided.                     *)
AnyIntent(k) == intents[k] # "none"

(* getApprovedEventIntent                                                  *)
Executable(k) == intents[k] = "approved"

(* The first query of a call: it finds the connection connected and keeps  *)
(* what it read of it.                                                     *)
StartCall(c, j, x) ==
  /\ call[c].pc = "idle" /\ conn.status = "connected"
  /\ call' = [call EXCEPT ![c] = [pc |-> "tokens", job |-> j, subject |-> x, cred |-> conn.cred,
                                   grant |-> NoEntry, outcome |-> "failed"]]
  /\ UNCHANGED <<oauth, grants, secrets, link, events, watching>>

(* executeApprovedEvent; listUpcoming and the digest of runDueSchedules;   *)
(* enableWatch; revoke.                                                    *)
StartExecute(c, k) == Executable(k) /\ StartCall(c, "execute", k)
StartRead(c) == StartCall(c, "read", None)
StartWatch(c) == StartCall(c, "watch", None)
StartRevoke(c) == StartCall(c, "revoke", None)

(* activeTokens: the entry read by the reference the call holds.  An entry *)
(* that is gone throws: CallEnds.                                          *)
LoadTokens(c) ==
  /\ call[c].pc = "tokens" /\ Stored(call[c].cred)
  /\ call' = [call EXCEPT ![c].grant = vault[call[c].cred],
                           ![c].pc = IF call[c].cred \in fresh THEN "act" ELSE "refresh"]
  /\ UNCHANGED <<oauth, grants, secrets, link, events, watching>>

(* refreshGoogleToken answers for a live grant, and keeps its refresh      *)
(* token.                                                                  *)
RefreshTokens(c) ==
  /\ call[c].pc = "refresh" /\ grants[call[c].grant] = "live" /\ Goes(c, "update")
  /\ UNCHANGED <<oauth, grants, secrets, link, events, watching>>

(* Mutants: the tokens go to the entry the connection has by now; and an   *)
(* entry that is gone is written again.                                    *)
CurrentEntry(c) == conn.cred
WritableAlways(i) == TRUE

(* The entry that was read.                                                *)
ReadEntry(c) == call[c].cred
Writable(i) == Stored(i)

(* updateVaultEntry                                                        *)
UpdateTokens(c) ==
  LET i == ReadEntry(c) IN
  /\ call[c].pc = "update" /\ Writable(i)
  /\ vault' = [vault EXCEPT ![i] = call[c].grant] /\ fresh' = fresh \cup {i}
  /\ Goes(c, "act")
  /\ UNCHANGED <<oauth, grants, link, events, watching>>
-----------------------------------------------------------------------------
(* Mutant: an event gets an id of its own each time.                       *)
IdOfCall(c) == <<call[c].subject, c>>

(* createGoogleCalendarEvent: the id is a digest of the idempotency key.   *)
EventId(c) == call[c].subject

(* Mutant: the event is thought made although the answer was an error.     *)
NeverFailed(made) == "completed"

(* A 409 says that the event is there already; another error, and an       *)
(* answer that never comes, count as a failure.                            *)
Concluded(ok) == IF ok THEN "completed" ELSE "failed"

(* Google makes the event or says that it has one with this id; the answer *)
(* may be lost.  Or it refuses, and makes none.                            *)
CreateEvent(c) ==
  /\ call[c].pc = "act" /\ call[c].job = "execute"
  /\ \/ /\ grants[call[c].grant] = "live"
        /\ calendar' =
             IF \E e \in calendar : e.id = EventId(c) THEN calendar
             ELSE calendar \cup {[id |-> EventId(c), key |-> call[c].subject,
                                  payload |-> payload[call[c].subject]]}
        /\ \E answered \in BOOLEAN :
             call' = [call EXCEPT ![c].pc = "record", ![c].outcome = Concluded(answered)]
     \/ /\ calendar' = calendar
        /\ call' = [call EXCEPT ![c].pc = "record", ![c].outcome = Concluded(FALSE)]
  /\ UNCHANGED <<oauth, grants, secrets, link, intents, payload, agreed, watching>>

(* Mutant: a late result replaces the one that is there.                   *)
RecordableAny(k) == intents[k] # "cancelled"

Recordable(k) == intents[k] = "approved"

(* recordEventResult; where it throws the call does, with nothing changed. *)
RecordResult(c) ==
  LET k == call[c].subject IN
  /\ call[c].pc = "record" /\ Returns(c)
  /\ intents' = IF Recordable(k) THEN [intents EXCEPT ![k] = call[c].outcome] ELSE intents
  /\ UNCHANGED <<oauth, grants, secrets, link, payload, agreed, calendar, watching>>

(* The mutation that records a success may itself fail; it is inside the   *)
(* try, so the catch records a failure.                                    *)
RecordFails(c) ==
  /\ call[c].pc = "record" /\ call[c].outcome = "completed"
  /\ call' = [call EXCEPT ![c].outcome = "failed"]
  /\ UNCHANGED <<oauth, grants, secrets, link, events, watching>>
-----------------------------------------------------------------------------
(* watchGoogleCalendar opens a channel at Google.                          *)
OpenChannel(c, h) ==
  /\ call[c].pc = "act" /\ call[c].job = "watch" /\ grants[call[c].grant] = "live" /\ chan[h] = "none"
  /\ chan' = [chan EXCEPT ![h] = "open"]
  /\ call' = [call EXCEPT ![c].pc = "keep", ![c].subject = h]
  /\ UNCHANGED <<oauth, grants, secrets, link, events, sent, accepted>>

(* Mutant: the channels there are go on.                                   *)
Beside(h) == [chan EXCEPT ![h] = "active"]

(* The channels of a connection that are active are stopped.               *)
Stopped == [h \in Channels |-> IF chan[h] = "active" THEN "stopped" ELSE chan[h]]
Instead(h) == [Stopped EXCEPT ![h] = "active"]

(* storeWatchChannel: of the connection it asks nothing.                   *)
StoreChannel(c) ==
  /\ call[c].pc = "keep" /\ chan' = Instead(call[c].subject) /\ Returns(c)
  /\ UNCHANGED <<oauth, grants, secrets, link, events, sent, accepted>>

(* Google notifies; the numbers of a channel go up.                        *)
Notify(h) ==
  /\ chan[h] # "none" /\ sent[h] < MaxNumber /\ sent' = [sent EXCEPT ![h] = @ + 1]
  /\ UNCHANGED <<oauth, grants, secrets, link, events, chan, accepted, call>>

LastAccepted(h) == IF accepted[h] = <<>> THEN 0 ELSE accepted[h][Len(accepted[h])]

(* Mutant: the number accepted last is accepted again.                     *)
NotBefore(h, n) == n >= LastAccepted(h)

Newer(h, n) == n > LastAccepted(h)

(* acceptWebhook: notifications come in any order and more than once.      *)
AcceptWebhook(h, n) ==
  /\ chan[h] = "active" /\ n \in 1..sent[h] /\ Newer(h, n)
  /\ accepted' = [accepted EXCEPT ![h] = Append(@, n)]
  /\ UNCHANGED <<oauth, grants, secrets, link, events, chan, sent, call>>
-----------------------------------------------------------------------------
(* revoke asks Google, which answers 400 for a token that is revoked.      *)
RevokeAtGoogle(c) ==
  /\ call[c].pc = "act" /\ call[c].job = "revoke"
  /\ grants' = [grants EXCEPT ![call[c].grant] = "revoked"] /\ Goes(c, "drop")
  /\ UNCHANGED <<oauth, secrets, link, events, watching>>

(* revokeGoogleConnection: the connection as it is by now, the entry it    *)
(* refers to, its channels.  An entry that is gone makes it throw.         *)
DropConnection(c) ==
  /\ call[c].pc = "drop" /\ Stored(conn.cred)
  /\ conn' = [conn EXCEPT !.status = "revoked"]
  /\ vault' = [vault EXCEPT ![conn.cred] = NoEntry] /\ fresh' = fresh \ {conn.cred}
  /\ chan' = Stopped /\ Returns(c)
  /\ UNCHANGED <<oauth, grants, newest, events, sent, accepted>>

(* connectors.revokeConnection: the row alone.                             *)
RevokeLocally ==
  /\ conn.status # "none" /\ conn' = [conn EXCEPT !.status = "revoked"]
  /\ UNCHANGED <<oauth, grants, secrets, newest, events, watching, call>>

(* A person withdraws the consent at Google.                               *)
WithdrawConsent(g) ==
  /\ grants[g] = "live" /\ grants' = [grants EXCEPT ![g] = "revoked"]
  /\ UNCHANGED <<oauth, secrets, link, events, watching, call>>

(* The access token of an entry comes within a minute of its expiry.       *)
TokenAges(i) ==
  /\ i \in fresh /\ Stored(i) /\ fresh' = fresh \ {i}
  /\ UNCHANGED <<oauth, grants, vault, link, events, watching, call>>

(* A call throws, is killed or, if it only read, returns.                  *)
CallEnds(c) ==
  /\ call[c].pc # "idle" /\ Returns(c)
  /\ UNCHANGED <<oauth, grants, secrets, link, events, watching>>
-----------------------------------------------------------------------------
RevokeStep(c) ==
  \/ StartRevoke(c)
  \/ call[c].job = "revoke" /\ (LoadTokens(c) \/ RefreshTokens(c) \/ UpdateTokens(c))
  \/ RevokeAtGoogle(c) \/ DropConnection(c)

Next ==
  \/ \E a \in Attempts : BeginOAuth(a) \/ AttemptLapses(a)
  \/ \E k \in Keys, p \in Payloads : ProposeEvent(k, p) \/ ReplayProposal(k, p)
  \/ \E k \in Keys, yes \in BOOLEAN : Decide(k, yes)
  \/ \E h \in Channels : Notify(h) \/ \E n \in 1..MaxNumber : AcceptWebhook(h, n)
  \/ \E g \in Grants : WithdrawConsent(g) \/ TokenAges(g)
  \/ RevokeLocally
  \/ \E c \in Calls :
       \/ \E a \in Attempts : ConsumeAttempt(c, a)
       \/ \E g \in Grants : ExchangeCode(c, g)
       \/ \E k \in Keys : StartExecute(c, k)
       \/ \E h \in Channels : OpenChannel(c, h)
       \/ StoreConnection(c) \/ StartRead(c) \/ StartWatch(c) \/ StartRevoke(c)
       \/ LoadTokens(c) \/ RefreshTokens(c) \/ UpdateTokens(c)
       \/ CreateEvent(c) \/ RecordResult(c) \/ RecordFails(c) \/ StoreChannel(c)
       \/ RevokeAtGoogle(c) \/ DropConnection(c) \/ CallEnds(c)

Spec == Init /\ [][Next]_vars

(* Whoever revokes keeps trying: an assumption made for the run that shows *)
(* where trying does not help.                                             *)
RevokeSpec == Spec /\ \A c \in Calls : WF_vars(RevokeStep(c))
-----------------------------------------------------------------------------
Statuses == {"none", "awaiting_approval", "approved", "completed", "failed", "cancelled"}

TypeOK ==
  /\ attempts \in [Attempts -> {"unused", "pending", "expired", "consumed"}]
  /\ handed \in [Attempts -> Nat]
  /\ grants \in [Grants -> {"none", "live", "revoked"}]
  /\ vault \in [Grants -> Grants \cup {NoEntry}] /\ fresh \subseteq Grants
  /\ conn \in [status : {"none", "connected", "revoked"}, cred : Grants \cup {NoEntry}]
  /\ newest \in Grants \cup {NoEntry}
  /\ intents \in [Keys -> Statuses] /\ payload \in [Keys -> Payloads \cup {None}]
  /\ agreed \in [Keys -> Payloads \cup {None}]
  /\ calendar \subseteq [id : Keys, key : Keys, payload : Payloads]
  /\ chan \in [Channels -> {"none", "open", "active", "stopped"}]
  /\ sent \in [Channels -> 0..MaxNumber] /\ accepted \in [Channels -> Seq(1..MaxNumber)]
  /\ call \in [Calls -> [pc : Places, job : Jobs,
                          subject : Attempts \cup Keys \cup Channels \cup {None},
                          cred : Grants \cup {NoEntry}, grant : Grants \cup {NoEntry},
                          outcome : {"completed", "failed"}]]

(* Whatever two executions of one intent, a retry after a lost answer or a *)
(* crash before the result is recorded do, the calendar has one event of   *)
(* the intent at most (createGoogleCalendarEvent's id, the 409).           *)
OneEventPerIntent == \A e, f \in calendar : e.key = f.key => e = f

(* An event is in the calendar only for an intent that a person approved   *)
(* and that was not cancelled, and it is the event that person saw, whatever*)
(* was proposed again under the same key.                                  *)
EventsAsApproved ==
  \A e \in calendar :
    /\ intents[e.key] \in {"approved", "completed", "failed"}
    /\ e.payload = agreed[e.key]

(* An intent that says completed has its event, whichever of the           *)
(* executions recorded it and whatever the others were told.               *)
CompletedMeansCreated ==
  \A k \in Keys : intents[k] = "completed" => \E e \in calendar : e.key = k

(* Executed once or twice, answered or not: the calendar holds what people *)
(* approved, once, and the intent says so.                                 *)
EventsAreHonoured == OneEventPerIntent /\ EventsAsApproved /\ CompletedMeansCreated

(* The result recorded first stays (recordEventResult): a slower execution *)
(* never turns a completed intent into a failed one, nor a failed one,     *)
(* which somebody may have acted upon, into a completed one.               *)
FirstResultStays ==
  [][\A k \in Keys :
       intents[k] \in {"completed", "failed", "cancelled"} =>
         intents'[k] = intents[k]]_vars

(* No token outlives its connection: the only entry there can be is the    *)
(* one the connection refers to, a connected calendar has it, and it holds *)
(* the grant of the consent given last, whichever refresh, reconnection or *)
(* revocation was under way (storeGoogleConnection, updateVaultEntry,      *)
(* revokeGoogleConnection).                                                *)
OnlyCurrentCredential ==
  /\ TypeOK
  /\ \A i \in Grants : Stored(i) => i = conn.cred /\ vault[i] = newest
  /\ conn.status = "connected" => Stored(conn.cred)

(* The verifier of an attempt is handed out once, though the callback of   *)
(* one consent arrives twice (consumeOAuthAttempt).                        *)
AttemptsAreSingleUse == \A a \in Attempts : handed[a] <= 1

(* One consent is exchanged once, and the vault keeps the last one only.   *)
ConsentsAreKept == OnlyCurrentCredential /\ AttemptsAreSingleUse

(* Of the channels opened for the calendar one at most is listened to, so  *)
(* that one change is not counted by two (storeWatchChannel).              *)
OneActiveChannel == \A h, i \in Channels : chan[h] = "active" /\ chan[i] = "active" => h = i

(* A notification is accepted once, and none after a later one, though     *)
(* they are repeated and reordered on their way (acceptWebhook).           *)
NotificationsOnce ==
  \A h \in Channels : \A i, j \in 1..Len(accepted[h]) :
    i < j => accepted[h][i] < accepted[h][j]

(* A change in the calendar is counted once.                               *)
ChangesCountOnce == OneActiveChannel /\ NotificationsOnce

(* A code that Google exchanged can be stored: reconnecting after a        *)
(* revocation works ("revoke prior consent and reconnect").                *)
ReconnectWorks ==
  \A c \in Calls : call[c].pc = "store" /\ conn.cred # NoEntry => Stored(conn.cred)

(* After a local revocation the grant is revoked at Google too             *)
(* ("performed by the trusted connector runtime").                         *)
LocalRevocationReachesGoogle ==
  \A g \in Grants :
    (conn.status = "revoked" /\ Stored(conn.cred) /\ vault[conn.cred] = g)
      ~> (grants[g] = "revoked" \/ conn.status = "connected")

(* What a revocation deletes here is revoked at Google ("Google Calendar   *)
(* access was revoked.").                                                  *)
RevocationIsComplete ==
  [][\A i \in Grants :
       Stored(i) /\ vault'[i] = NoEntry /\ conn'.status = "revoked" =>
         grants[vault[i]] = "revoked"]_vars
=============================================================================
