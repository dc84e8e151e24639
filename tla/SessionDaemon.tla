--------------------------- MODULE SessionDaemon ---------------------------
(***************************************************************************)
(* NovaSessionDaemon of daemon.ts: the hub that owns the live agents of a  *)
(* process and the clients that attach to them.  JavaScript interleaves    *)
(* its methods at every await, so the parts of open, release, relinquish   *)
(* and shutdown on the two sides of one are steps of their own.            *)
(*                                                                         *)
(* A caller awaits the call it makes (nova.ts), except a send.  An agent   *)
(* is reduced to what the daemon sees of it: the turns it runs, the        *)
(* approvals they ask for and the session record it resumes and saves.     *)
(***************************************************************************)
EXTENDS Naturals, Sequences, FiniteSets, FiniteSetsExt

CONSTANTS
  Clients,
  Prompters,      \* the clients connected with an approval handler
  Sessions,
  Commands,
  KeepCommands,   \* command ids an agent remembers, 256 in the code
  MaxAgents,      \* bounds: agents ever built, commands accepted,
  MaxSends,       \* approvals a turn asks for
  MaxAsks

ASSUME DaemonAssumption ==
  /\ Prompters \subseteq Clients
  /\ {KeepCommands, MaxAgents, MaxSends, MaxAsks} \subseteq Nat \ {0}

VARIABLES
  sessions,       \* the agent a session id stands for, or None
  agents,         \* every agent built so far
  calls,          \* what each client is awaiting
  closing,        \* how far shutdown is
  held,           \* the agents shutdown found in the map
  record,         \* the saved record of a session: the turns it shows
  done,           \* history: the turns whose work was done in a session
  contended       \* history: sessions two clients were on, or after, together

daemonVars == <<sessions, agents, calls, closing, held, record, done, contended>>

NoAgent == 0
Agent == 1..Len(agents)
NoCall == [op |-> "none"]

Transcript == Seq(Commands)
DaemonInit ==
  /\ sessions = [s \in Sessions |-> NoAgent]
  /\ agents = <<>>
  /\ calls = [c \in Clients |-> NoCall]
  /\ closing = "no" /\ held = {}
  /\ record = [s \in Sessions |-> <<>>]
  /\ done = [s \in Sessions |-> <<>>]
  /\ contended = {}

Update(l, field, to) == agents' = [agents EXCEPT ![l][field] = to]

(* A client may make a call: only its sends are not awaited.  A client     *)
(* that is on no session is as good as not connected, so that connect is   *)
(* part of its first open or attach.                                       *)
Free(c) == calls[c] = NoCall /\ closing = "no"
AttachedTo(c, s) == sessions[s] # NoAgent /\ c \in agents[sessions[s]].subscribers
CallOn(c, s) == calls[c] # NoCall /\ calls[c].session = s

(* Somebody else is on the session, opening it or taking it down.          *)
Contend(c, s) ==
  contended' = contended \cup
    {t \in {s} : \E d \in Clients \ {c} : AttachedTo(d, s) \/ CallOn(d, s)}
-----------------------------------------------------------------------------
(* Client disconnects remove subscriptions, not sessions.                  *)
Disconnect(c) ==
  /\ Free(c)
  /\ agents' = [l \in Agent |->
       IF \E s \in Sessions : sessions[s] = l
       THEN [agents[l] EXCEPT !.subscribers = @ \ {c}] ELSE agents[l]]
  /\ UNCHANGED <<sessions, calls, closing, held, record, done, contended>>

(* attach, and open of a record whose session is active.                   *)
Attach(c, s) ==
  /\ Free(c) /\ sessions[s] # NoAgent
  /\ Contend(c, s)
  /\ Update(sessions[s], "subscribers", agents[sessions[s]].subscribers \cup {c})
  /\ UNCHANGED <<sessions, calls, closing, held, record, done>>

(* Mutant: the id stands for the agent before the factory built it.        *)
OpenPublishesEarly(c, s, resumed) ==
  /\ closing = "no" /\ sessions[s] = NoAgent
  /\ \/ calls[c] = NoCall /\ resumed = record[s]
     \/ calls[c].op = "carrying" /\ calls[c].session = s /\ resumed = calls[c].transcript
  /\ Contend(c, s)
  /\ calls' = [calls EXCEPT ![c] = [op |-> "open", session |-> s, transcript |-> resumed]]
  /\ sessions' = [sessions EXCEPT ![s] = Len(agents) + 1]
  /\ UNCHANGED <<agents, closing, held, record, done>>

(* Mutant: open builds an agent for a record whose session is active.      *)
OpenAlwaysBuilds(c, s, resumed) ==
  /\ closing = "no"
  /\ \/ calls[c] = NoCall /\ resumed = record[s]
     \/ calls[c].op = "carrying" /\ calls[c].session = s /\ resumed = calls[c].transcript
  /\ Contend(c, s)
  /\ calls' = [calls EXCEPT ![c] = [op |-> "open", session |-> s, transcript |-> resumed]]
  /\ UNCHANGED <<sessions, agents, closing, held, record, done>>

(* open awaits the factory with the record of a session that is not        *)
(* active: the saved one, or the one a handoff carries.                    *)
OpenBegins(c, s, resumed) ==
  /\ closing = "no" /\ sessions[s] = NoAgent
  /\ \/ calls[c] = NoCall /\ resumed = record[s]
     \/ calls[c].op = "carrying" /\ calls[c].session = s /\ resumed = calls[c].transcript
  /\ Contend(c, s)
  /\ calls' = [calls EXCEPT ![c] = [op |-> "open", session |-> s, transcript |-> resumed]]
  /\ UNCHANGED <<sessions, agents, closing, held, record, done>>

OpenEnds(c) ==
  /\ calls[c].op = "open" /\ Len(agents) < MaxAgents
  /\ agents' = Append(agents,
       [session |-> calls[c].session, subscribers |-> {c},
        accepted |-> <<>>, finished |-> 0, remembered |-> <<>>,
        phase |-> "idle", asked |-> 0,
        transcript |-> calls[c].transcript])
  /\ sessions' = [sessions EXCEPT ![calls[c].session] = Len(agents) + 1]
  /\ calls' = [calls EXCEPT ![c] = NoCall]
  /\ UNCHANGED <<closing, held, record, done, contended>>

OpenFails(c) ==
  /\ calls[c].op = "open"
  /\ calls' = [calls EXCEPT ![c] = NoCall]
  /\ UNCHANGED <<sessions, agents, closing, held, record, done, contended>>

(* Mutant: one command id too few is remembered.                           *)
RememberOneLess(remembered, k) ==
  LET all == Append(remembered, k)
  IN  IF Len(all) >= KeepCommands THEN Tail(all) ELSE all

(* send: a command id still remembered only returns the promise it has.    *)
Remember(remembered, k) ==
  LET all == Append(remembered, k)
  IN  IF Len(all) > KeepCommands THEN Tail(all) ELSE all

SendCommand(c, s, k) ==
  /\ Free(c) /\ AttachedTo(c, s)
  /\ LET l == sessions[s]  a == agents[l] IN
       /\ \A i \in 1..Len(a.remembered) : a.remembered[i] # k
       /\ MapThenSumSet(LAMBDA i : Len(agents[i].accepted), Agent) < MaxSends
       /\ agents' = [agents EXCEPT ![l].accepted = Append(@, k),
                                   ![l].remembered = Remember(@, k)]
  /\ UNCHANGED <<sessions, calls, closing, held, record, done, contended>>
-----------------------------------------------------------------------------
(* The turns of an agent: the promise chain live.tail runs the accepted    *)
(* commands one after another.                                             *)
TurnStarts(l) ==
  /\ agents[l].phase = "idle" /\ agents[l].finished < Len(agents[l].accepted)
  /\ Update(l, "phase", "working")
  /\ UNCHANGED <<sessions, calls, closing, held, record, done, contended>>

Over(l) == [agents EXCEPT ![l].phase = "idle", ![l].asked = 0, ![l].finished = @ + 1]

(* NovaAgent.send keeps the turn and saves the record, which saveSession   *)
(* refuses to an agent whose copy is not the one on disk: the turn throws. *)
TurnEnds(l) ==
  LET s == agents[l].session
      k == agents[l].accepted[agents[l].finished + 1]
      shown == Append(agents[l].transcript, k)
  IN  /\ agents[l].phase = "working"
      /\ agents' = [Over(l) EXCEPT ![l].transcript = shown]
      /\ done' = [done EXCEPT ![s] = Append(@, k)]
      /\ record' = [record EXCEPT ![s] = IF @ = agents[l].transcript THEN shown ELSE @]
      /\ UNCHANGED <<sessions, calls, closing, held, contended>>

(* Mutant: the chain does not move past a turn that throws.                *)
TurnFailsStuck(l) ==
  /\ agents[l].phase = "working"
  /\ agents' = [agents EXCEPT ![l].phase = "idle"]
  /\ UNCHANGED <<sessions, calls, closing, held, record, done, contended>>

TurnFails(l) ==
  /\ agents[l].phase = "working"
  /\ agents' = Over(l)
  /\ UNCHANGED <<sessions, calls, closing, held, record, done, contended>>

(* requestApproval: looked up by the session id, so it throws when the id  *)
(* stands for nothing; a subscriber with a handler answers; without one it *)
(* is pending until a client decides it.                                   *)
TurnAsks(l) ==
  LET m == sessions[agents[l].session] IN
  /\ agents[l].phase = "working" /\ agents[l].asked < MaxAsks
  /\ agents' =
       IF m = NoAgent THEN Over(l)
       ELSE [agents EXCEPT ![l].asked = @ + 1,
               ![l].phase = IF agents[m].subscribers \cap Prompters # {}
                            THEN "prompted" ELSE "pending"]
  /\ UNCHANGED <<sessions, calls, closing, held, record, done, contended>>

PromptAnswered(l) ==
  /\ agents[l].phase = "prompted"
  /\ Update(l, "phase", "working")
  /\ UNCHANGED <<sessions, calls, closing, held, record, done, contended>>

DecideApproval(c, l) ==
  /\ closing = "no"
  /\ agents[l].phase = "pending" /\ AttachedTo(c, agents[l].session)
  /\ Update(l, "phase", "working")
  /\ UNCHANGED <<sessions, calls, closing, held, record, done, contended>>
-----------------------------------------------------------------------------
(* Mutant: the turn that is running is not awaited.                        *)
DrainedButOne(call) == agents[call.agent].finished + 1 >= call.upTo

(* The tail a call awaited has run: later sends are on another tail.       *)
Drained(call) == agents[call.agent].finished >= call.upTo

(* The pending approvals of the sessions are answered with a denial.       *)
DenyPending(S) ==
  [l \in Agent |-> IF agents[l].phase = "pending" /\ agents[l].session \in S
                   THEN [agents[l] EXCEPT !.phase = "working"] ELSE agents[l]]

Awaiting(c, op, s) ==
  calls' = [calls EXCEPT ![c] = [op |-> op, session |-> s, agent |-> sessions[s],
                                 upTo |-> Len(agents[sessions[s]].accepted)]]

Release(c, s) ==
  /\ Free(c) /\ AttachedTo(c, s)
  /\ Update(sessions[s], "subscribers", agents[sessions[s]].subscribers \ {c})
  /\ UNCHANGED <<sessions, calls, closing, held, record, done, contended>>

(* release with dispose: the subscription goes first, then the tail.       *)
Dispose(c, s) ==
  /\ Free(c) /\ AttachedTo(c, s)
  /\ Update(sessions[s], "subscribers", agents[sessions[s]].subscribers \ {c})
  /\ Awaiting(c, "draining", s)
  /\ UNCHANGED <<sessions, closing, held, record, done, contended>>

DisposeDrained(c) ==
  /\ calls[c].op = "draining" /\ Drained(calls[c])
  /\ agents' = DenyPending({calls[c].session})
  /\ calls' = [calls EXCEPT ![c].op = "disposing"]
  /\ UNCHANGED <<sessions, closing, held, record, done, contended>>

(* Whatever the id stands for by now leaves the map.                       *)
DisposeEnds(c) ==
  /\ calls[c].op = "disposing"
  /\ sessions' = [sessions EXCEPT ![calls[c].session] = NoAgent]
  /\ calls' = [calls EXCEPT ![c] = NoCall]
  /\ UNCHANGED <<agents, closing, held, record, done, contended>>

Relinquish(c, s) ==
  /\ Free(c) /\ AttachedTo(c, s)
  /\ Cardinality(agents[sessions[s]].subscribers) <= 1
  /\ Awaiting(c, "handing", s)
  /\ UNCHANGED <<sessions, agents, closing, held, record, done, contended>>

(* The snapshot is taken before the agent's journal is closed.             *)
RelinquishDrained(c) ==
  /\ calls[c].op = "handing" /\ Drained(calls[c])
  /\ calls' = [calls EXCEPT ![c] =
       [op |-> "retiring", session |-> calls[c].session, agent |-> calls[c].agent,
        transcript |-> agents[calls[c].agent].transcript]]
  /\ UNCHANGED <<sessions, agents, closing, held, record, done, contended>>

(* NovaDaemonClient.relinquish disconnects; the caller holds the record.   *)
RelinquishEnds(c) ==
  /\ calls[c].op = "retiring"
  /\ sessions' = [sessions EXCEPT ![calls[c].session] = NoAgent]
  /\ calls' = [calls EXCEPT ![c] =
       [op |-> "carrying", session |-> calls[c].session, transcript |-> calls[c].transcript]]
  /\ UNCHANGED <<agents, closing, held, record, done, contended>>

(* A resume of another session does not use the record that was handed.    *)
Drop(c) ==
  /\ calls[c].op = "carrying"
  /\ calls' = [calls EXCEPT ![c] = NoCall]
  /\ UNCHANGED <<sessions, agents, closing, held, record, done, contended>>

(* Mutant: the sessions are only cleared once they are drained.            *)
ShutdownKeepsTheMap ==
  /\ closing = "no" /\ \A c \in Clients : calls[c].op # "open"
  /\ closing' = "draining"
  /\ agents' = DenyPending(Sessions)
  /\ held' = {sessions[s] : s \in Sessions} \ {NoAgent}
  /\ UNCHANGED <<sessions, calls, record, done, contended>>

(* shutdown, the last call of the process: no open is in flight.           *)
Shutdown ==
  /\ closing = "no" /\ \A c \in Clients : calls[c].op # "open"
  /\ closing' = "draining"
  /\ agents' = DenyPending(Sessions)
  /\ held' = {sessions[s] : s \in Sessions} \ {NoAgent}
  /\ sessions' = [s \in Sessions |-> NoAgent]
  /\ UNCHANGED <<calls, record, done, contended>>

(* The agents that were in the map have run their tails and are disposed.  *)
ShutdownEnds ==
  /\ closing = "draining"
  /\ \A l \in held : agents[l].finished = Len(agents[l].accepted)
  /\ closing' = "closed"
  /\ UNCHANGED <<sessions, agents, calls, held, record, done, contended>>
-----------------------------------------------------------------------------
Turn(l) == TurnStarts(l) \/ TurnEnds(l) \/ TurnFails(l) \/ TurnAsks(l) \/ PromptAnswered(l)

Finish(c) ==
  \/ DisposeDrained(c) \/ DisposeEnds(c)
  \/ RelinquishDrained(c) \/ RelinquishEnds(c)

DaemonNext ==
  \/ \E c \in Clients :
       \/ Disconnect(c) \/ Drop(c)
       \/ OpenEnds(c) \/ OpenFails(c) \/ Finish(c)
       \/ \E s \in Sessions :
            \/ Attach(c, s) \/ Release(c, s) \/ Dispose(c, s) \/ Relinquish(c, s)
            \/ OpenBegins(c, s, record[s])
            \/ calls[c].op = "carrying" /\ OpenBegins(c, s, calls[c].transcript)
            \/ \E k \in Commands : SendCommand(c, s, k)
       \/ \E l \in Agent : DecideApproval(c, l)
  \/ \E l \in Agent : Turn(l)
  \/ Shutdown
  \/ ShutdownEnds

DaemonSpec == DaemonInit /\ [][DaemonNext]_daemonVars

(* The turns of the agents and the parts of the daemon's methods behind an *)
(* await run by themselves, and a handler answers.  Nobody has to decide a *)
(* pending approval.                                                       *)
DaemonFairSpec ==
  /\ DaemonSpec
  /\ \A l \in 1..MaxAgents : WF_daemonVars(l \in Agent /\ Turn(l))
  /\ \A c \in Clients : WF_daemonVars(Finish(c))
  /\ WF_daemonVars(ShutdownEnds)
-----------------------------------------------------------------------------
ClientCall ==
  {NoCall}
  \cup [op : {"open", "carrying"}, session : Sessions, transcript : Transcript]
  \cup [op : {"draining", "disposing", "handing"}, session : Sessions,
        agent : Nat \ {0}, upTo : Nat]
  \cup [op : {"retiring"}, session : Sessions, agent : Nat \ {0}, transcript : Transcript]

AgentState ==
  [session : Sessions, subscribers : SUBSET Clients,
   accepted : Seq(Commands), finished : Nat, remembered : Seq(Commands),
   phase : {"idle", "working", "prompted", "pending"}, asked : 0..MaxAsks,
   transcript : Transcript]

(* The state of the daemon, its agents and what its clients are awaiting.  *)
DaemonTypeOK ==
  /\ sessions \in [Sessions -> {NoAgent} \cup Agent]
  /\ agents \in Seq(AgentState)
  /\ calls \in [Clients -> ClientCall]
  /\ closing \in {"no", "draining", "closed"}
  /\ held \subseteq Agent
  /\ record \in [Sessions -> Transcript]
  /\ done \in [Sessions -> Transcript]
  /\ contended \subseteq Sessions

(* No turn is forgotten: the saved record of a session that no two clients *)
(* were on together shows every turn whose work was done, in order, over   *)
(* resumes, model handoffs, disposals and disconnections.                  *)
NoTurnForgotten == \A s \in Sessions \ contended : record[s] = done[s]

(* One agent serves such a session: what was retired or replaced has       *)
(* nothing left to run, and an approval asked for can be decided by        *)
(* whoever attaches to the session.                                        *)
OneAgentServes ==
  \A l \in Agent :
    /\ agents[l].session \notin contended
    /\ closing = "no"
    /\ agents[l].finished < Len(agents[l].accepted) \/ agents[l].phase # "idle"
    => sessions[agents[l].session] = l

(* A session is one record, served by one agent at a time.                 *)
SessionsAreServed == DaemonTypeOK /\ NoTurnForgotten /\ OneAgentServes

(* A retried command runs again only after KeepCommands others were sent,  *)
(* whoever sends it and whatever else runs.                                *)
RetryReturnsTheFirst ==
  \A l \in Agent : \A i, j \in 1..Len(agents[l].accepted) :
    i < j /\ agents[l].accepted[i] = agents[l].accepted[j] => j - i > KeepCommands

(* shutdown ends: no turn of an agent it awaits is left waiting for an     *)
(* approval that nobody can give any more.                                 *)
ShutdownCompletes == (closing = "draining") ~> (closing = "closed")

(* A disposal or a handoff waits for nothing but a person: it ends, unless *)
(* a turn it waits for has an approval pending.                            *)
OnlyPeopleHoldUpACall ==
  \A c \in Clients :
    calls[c].op \in {"draining", "handing"} ~>
      \/ calls[c].op \notin {"draining", "handing"}
      \/ \E l \in Agent : agents[l].phase = "pending"

(* Nobody waits for the daemon for ever, but for people.                   *)
EveryCallEnds == ShutdownCompletes /\ OnlyPeopleHoldUpACall
-----------------------------------------------------------------------------
(* Stated by a test, and refuted (README, disagreements): the turns of one *)
(* session are serialized, whoever is attached (daemon.test.ts:86).        *)
TurnsSerialized ==
  \A l, m \in Agent :
    agents[l].session = agents[m].session /\ l # m
      => agents[l].phase = "idle" \/ agents[m].phase = "idle"
=============================================================================
