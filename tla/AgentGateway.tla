---------------------------- MODULE AgentGateway ----------------------------
(***************************************************************************)
(* The backend's bridge between Redis and the Agents Locais                *)
(* (backend/src/infrastructure/realtime/agent.gateway.ts): which socket    *)
(* speaks for which agent, how a command reaches it, whose answer is       *)
(* accepted, and the ONLINE/OFFLINE status written to the agent's devices. *)
(*                                                                         *)
(* The handlers are async: what follows an await is an action of its own,  *)
(* and by then the socket may have closed. Status updates are queries in   *)
(* flight (dbWrites) that the database applies in any order. An agent may  *)
(* have several sockets open at once: after a network drop it reconnects   *)
(* before the server notices that the old socket is dead.                  *)
(***************************************************************************)
EXTENDS Naturals

CONSTANTS
    Agents,   \* rows of the agents table
    NoAgent,  \* no agent: an unknown token, an empty map entry
    Gateway,  \* the gateway itself, as the author of a result
    Sockets,  \* connections that may ever be made, each used once
    NoSocket,
    Devices,
    Corr      \* correlationIds

ASSUME GatewayAssumption ==
    /\ NoAgent \notin Agents
    /\ Gateway \notin Agents \cup {NoAgent}
    /\ NoSocket \notin Sockets

VARIABLES
    phase,         \* where handleConnection is for each socket
    open,          \* sockets the server holds open
    token,         \* the agent whose token each socket presents
    socketAgent,   \* socket.data.agentId
    beating,       \* sockets whose heartbeat handler is at its await
    sockets,       \* the map agentId -> socket
    clienteIds,    \* agents with an entry in clienteIdByAgent
    discovered,    \* agents with an entry in discoveredByAgent
    touched,       \* agents whose lastDeviceTouch is less than 60 s old
    byCorrelation, \* the map correlationId -> agentId
    dbWrites,      \* device status updates in flight
    deviceStatus,  \* Device.status
    deviceAgent,   \* Device.agentId
    commandBus,    \* agent:command messages in flight
    resultBus,     \* agent:result messages in flight
    delivered,     \* sync:command events sent down a socket
    addressee,     \* history: the agent each command was issued for
    reported,      \* history: correlations an agent reported ok
    answers,       \* history: results published per correlation, at most 2 counted
    answeredBy     \* history: who the published result came from

connVars == <<phase, open, token, socketAgent, beating>>
mapVars  == <<sockets, clienteIds, discovered, touched>>
dbVars   == <<deviceStatus, deviceAgent>>
gatewayVars == <<connVars, mapVars, byCorrelation, dbWrites, delivered, answers, answeredBy>>
vars == <<gatewayVars, dbVars, commandBus, resultBus, addressee, reported>>

Phase   == {"unused", "authenticating", "updating", "ready", "rejected"}
Command == [corr : Corr, agent : Agents]
Result  == [corr : Corr, ok : BOOLEAN]
Write   == [agent : Agents, status : {"ONLINE", "OFFLINE"}]
DeviceStatus == {"ONLINE", "OFFLINE", "NOT_CONFIGURED", "deleted"}

TypeOK ==
    /\ phase         \in [Sockets -> Phase]
    /\ open          \subseteq Sockets
    /\ token         \in [Sockets -> Agents \cup {NoAgent}]
    /\ socketAgent   \in [Sockets -> Agents \cup {NoAgent}]
    /\ beating       \subseteq Sockets
    /\ sockets       \in [Agents -> Sockets \cup {NoSocket}]
    /\ clienteIds    \subseteq Agents
    /\ discovered    \subseteq Agents
    /\ touched       \subseteq Agents
    /\ byCorrelation \in [Corr -> Agents \cup {NoAgent}]
    /\ dbWrites      \subseteq Write
    /\ deviceStatus  \in [Devices -> DeviceStatus]
    /\ deviceAgent   \in [Devices -> Agents \cup {NoAgent}]
    /\ commandBus    \subseteq Command
    /\ resultBus     \subseteq Result
    /\ delivered     \subseteq [sock : Sockets, corr : Corr]
    /\ addressee     \in [Corr -> Agents \cup {NoAgent}]
    /\ reported      \subseteq Corr
    /\ answers       \in [Corr -> 0 .. 2]
    /\ answeredBy    \in [Corr -> Agents \cup {NoAgent, Gateway}]

InitGateway ==
    /\ phase         = [s \in Sockets |-> "unused"]
    /\ open          = {}
    /\ token         = [s \in Sockets |-> NoAgent]
    /\ socketAgent   = [s \in Sockets |-> NoAgent]
    /\ beating       = {}
    /\ sockets       = [a \in Agents |-> NoSocket]
    /\ clienteIds    = {}
    /\ discovered    = {}
    /\ touched       = {}
    /\ byCorrelation = [c \in Corr |-> NoAgent]
    /\ dbWrites      = {}
    /\ delivered     = {}
    /\ answers       = [c \in Corr |-> 0]
    /\ answeredBy    = [c \in Corr |-> NoAgent]

Init ==
    /\ InitGateway
    /\ deviceStatus  = [d \in Devices |-> "NOT_CONFIGURED"]
    /\ deviceAgent   \in [Devices -> Agents \cup {NoAgent}]
    /\ commandBus    = {}
    /\ resultBus     = {}
    /\ addressee     = [c \in Corr |-> NoAgent]
    /\ reported      = {}

\* redis.publish(agent:result:<correlationId>, ...).
PublishResult(c, ok, by) ==
    /\ resultBus'  = resultBus \cup {[corr |-> c, ok |-> ok]}
    /\ answers'    = [answers EXCEPT ![c] = IF @ < 2 THEN @ + 1 ELSE @]
    /\ answeredBy' = [answeredBy EXCEPT ![c] = by]

-----------------------------------------------------------------------------
(* Plausible bugs: each replaces the action it is named after, to show that *)
(* a property notices it.                                                  *)

\* The connection is entered in the map of the sockets only.
AuthenticatedTenantless(s) ==
    LET a == token[s] IN
    /\ phase[s] = "authenticating"
    /\ a # NoAgent
    /\ phase'       = [phase EXCEPT ![s] = "updating"]
    /\ socketAgent' = [socketAgent EXCEPT ![s] = a]
    /\ sockets'     = [sockets EXCEPT ![a] = s]
    /\ UNCHANGED <<open, token, beating, clienteIds, discovered, touched, byCorrelation, dbWrites,
                   delivered, answers, answeredBy, dbVars, commandBus, resultBus, addressee, reported>>

\* The heartbeat only records its own time.
HeartbeatWithoutTouch(s) ==
    /\ s \in beating
    /\ beating' = beating \ {s}
    /\ UNCHANGED <<phase, open, token, socketAgent, mapVars, byCorrelation, dbWrites, delivered,
                   answers, answeredBy, dbVars, commandBus, resultBus, addressee, reported>>

\* The refused command is not done with: a missing return.
RefuseCommandKeeps(m) ==
    /\ m \in commandBus
    /\ sockets[m.agent] = NoSocket
    /\ PublishResult(m.corr, FALSE, Gateway)
    /\ UNCHANGED <<connVars, mapVars, byCorrelation, dbWrites, delivered, dbVars, commandBus,
                   addressee, reported>>

\* Any authenticated socket may answer a command in flight.
SyncResultUnchecked(s, c, ok) ==
    /\ s \in open
    /\ socketAgent[s] # NoAgent
    /\ byCorrelation[c] # NoAgent
    /\ byCorrelation' = [byCorrelation EXCEPT ![c] = NoAgent]
    /\ PublishResult(c, ok, socketAgent[s])
    /\ reported' = IF ok THEN reported \cup {c} ELSE reported
    /\ UNCHANGED <<connVars, mapVars, dbWrites, delivered, dbVars, commandBus, addressee>>

\* The correlation is not deleted when it is answered.
SyncResultKept(s, c, ok) ==
    /\ s \in open
    /\ socketAgent[s] # NoAgent
    /\ byCorrelation[c] = socketAgent[s]
    /\ PublishResult(c, ok, socketAgent[s])
    /\ reported' = IF ok THEN reported \cup {c} ELSE reported
    /\ UNCHANGED <<connVars, mapVars, byCorrelation, dbWrites, delivered, dbVars, commandBus, addressee>>

-----------------------------------------------------------------------------
(* Connections.                                                            *)

\* handleConnection up to its first await. A handshake without a token is
\* rejected at once and changes nothing; it is left out.
Connect(s, a) ==
    /\ phase[s] = "unused"
    /\ phase' = [phase EXCEPT ![s] = "authenticating"]
    /\ open'  = open \cup {s}
    /\ token' = [token EXCEPT ![s] = a]
    /\ UNCHANGED <<socketAgent, beating, mapVars, byCorrelation, dbWrites, delivered,
                   answers, answeredBy, dbVars, commandBus, resultBus, addressee, reported>>

\* The agent lookup returned. The code does not look whether the socket is
\* still open before it registers it.
Authenticated(s) ==
    LET a == token[s] IN
    /\ phase[s] = "authenticating"
    /\ IF a = NoAgent
       THEN /\ phase' = [phase EXCEPT ![s] = "rejected"]
            /\ open'  = open \ {s}
            /\ UNCHANGED <<socketAgent, sockets, clienteIds>>
       ELSE /\ phase'       = [phase EXCEPT ![s] = "updating"]
            /\ socketAgent' = [socketAgent EXCEPT ![s] = a]
            /\ sockets'     = [sockets EXCEPT ![a] = s]
            /\ clienteIds'  = clienteIds \cup {a}
            /\ open' = open
    /\ UNCHANGED <<token, beating, discovered, touched, byCorrelation, dbWrites, delivered,
                   answers, answeredBy, dbVars, commandBus, resultBus, addressee, reported>>

\* ultimoHeartbeat is written: the agent's devices go ONLINE.
HeartbeatRecorded(s) ==
    /\ phase[s] = "updating"
    /\ phase'    = [phase EXCEPT ![s] = "ready"]
    /\ dbWrites' = dbWrites \cup {[agent |-> socketAgent[s], status |-> "ONLINE"]}
    /\ UNCHANGED <<open, token, socketAgent, beating, mapVars, byCorrelation, delivered,
                   answers, answeredBy, dbVars, commandBus, resultBus, addressee, reported>>

\* handleDisconnect drops the agent's entries even when they belong to a newer
\* socket of the same agent. What was sent down the socket is lost.
Disconnect(s) ==
    LET a == socketAgent[s] IN
    /\ s \in open
    /\ open' = open \ {s}
    /\ delivered' = {m \in delivered : m.sock # s}
    /\ IF a = NoAgent
       THEN UNCHANGED <<mapVars, dbWrites>>
       ELSE /\ sockets'    = [sockets EXCEPT ![a] = NoSocket]
            /\ clienteIds' = clienteIds \ {a}
            /\ discovered' = discovered \ {a}
            /\ touched'    = touched \ {a}
            /\ dbWrites'   = dbWrites \cup {[agent |-> a, status |-> "OFFLINE"]}
    /\ UNCHANGED <<phase, token, socketAgent, beating, byCorrelation,
                   answers, answeredBy, dbVars, commandBus, resultBus, addressee, reported>>

\* The heartbeat handler up to its await of agent.update...
Heartbeat(s) ==
    /\ s \in open \ beating
    /\ socketAgent[s] # NoAgent
    /\ beating' = beating \cup {s}
    /\ UNCHANGED <<phase, open, token, socketAgent, mapVars, byCorrelation, dbWrites, delivered,
                   answers, answeredBy, dbVars, commandBus, resultBus, addressee, reported>>

\* ...and after it: one device update per agent and minute.
HeartbeatTouch(s) ==
    LET a == socketAgent[s] IN
    /\ s \in beating
    /\ beating' = beating \ {s}
    /\ touched' = touched \cup {a}
    /\ dbWrites' = IF a \in touched THEN dbWrites
                   ELSE dbWrites \cup {[agent |-> a, status |-> "ONLINE"]}
    /\ UNCHANGED <<phase, open, token, socketAgent, sockets, clienteIds, discovered, byCorrelation,
                   delivered, answers, answeredBy, dbVars, commandBus, resultBus, addressee, reported>>

\* DEVICE_TOUCH_INTERVAL_MS has passed.
TouchExpires(a) ==
    /\ a \in touched
    /\ touched' = touched \ {a}
    /\ UNCHANGED <<connVars, sockets, clienteIds, discovered, byCorrelation, dbWrites, delivered,
                   answers, answeredBy, dbVars, commandBus, resultBus, addressee, reported>>

\* device.updateMany({ where: { agentId } }) takes effect.
ApplyWrite(w) ==
    /\ w \in dbWrites
    /\ dbWrites' = dbWrites \ {w}
    /\ deviceStatus' = [d \in Devices |->
           IF deviceAgent[d] = w.agent /\ deviceStatus[d] # "deleted" THEN w.status ELSE deviceStatus[d]]
    /\ UNCHANGED <<connVars, mapVars, byCorrelation, delivered, answers, answeredBy,
                   deviceAgent, commandBus, resultBus, addressee, reported>>

\* The agent reports the scales it hears; the IP correction that follows is in
\* DeviceRegistry.
DevicesDiscovered(s) ==
    /\ s \in open
    /\ socketAgent[s] # NoAgent
    /\ discovered' = discovered \cup {socketAgent[s]}
    /\ UNCHANGED <<connVars, sockets, clienteIds, touched, byCorrelation, dbWrites, delivered,
                   answers, answeredBy, dbVars, commandBus, resultBus, addressee, reported>>

-----------------------------------------------------------------------------
(* Commands and results.                                                   *)

\* agent:command arrived for an agent without a socket: answered at once.
RefuseCommand(m) ==
    /\ m \in commandBus
    /\ sockets[m.agent] = NoSocket
    /\ commandBus' = commandBus \ {m}
    /\ PublishResult(m.corr, FALSE, Gateway)
    /\ UNCHANGED <<connVars, mapVars, byCorrelation, dbWrites, delivered, dbVars, addressee, reported>>

\* Otherwise it goes down the socket in the map; socket.io drops it if that
\* socket has closed.
ForwardCommand(m) ==
    LET s == sockets[m.agent] IN
    /\ m \in commandBus
    /\ s # NoSocket
    /\ commandBus' = commandBus \ {m}
    /\ byCorrelation' = [byCorrelation EXCEPT ![m.corr] = m.agent]
    /\ delivered' = IF s \in open THEN delivered \cup {[sock |-> s, corr |-> m.corr]} ELSE delivered
    /\ UNCHANGED <<connVars, mapVars, dbWrites, answers, answeredBy, dbVars, resultBus,
                   addressee, reported>>

\* sync:result is accepted only from the agent the command was dispatched to,
\* and only once; it is dropped while the socket is not authenticated.
SyncResult(s, c, ok) ==
    LET a == socketAgent[s] IN
    /\ s \in open
    /\ IF a # NoAgent /\ byCorrelation[c] = a
       THEN /\ byCorrelation' = [byCorrelation EXCEPT ![c] = NoAgent]
            /\ PublishResult(c, ok, a)
            /\ reported' = IF ok THEN reported \cup {c} ELSE reported
       ELSE UNCHANGED <<byCorrelation, resultBus, answers, answeredBy, reported>>
    /\ UNCHANGED <<connVars, mapVars, dbWrites, delivered, dbVars, commandBus, addressee>>

\* The backend process ends and starts again: the maps and the sockets are
\* gone, queries in flight may or may not have reached the database, and no
\* handleDisconnect runs.
Restart ==
    /\ open # {}
    /\ phase' = [s \in Sockets |-> IF phase[s] = "unused" THEN "unused" ELSE "rejected"]
    /\ open' = {}
    /\ socketAgent' = [s \in Sockets |-> NoAgent]
    /\ beating' = {}
    /\ sockets' = [a \in Agents |-> NoSocket]
    /\ clienteIds' = {}
    /\ discovered' = {}
    /\ touched' = {}
    /\ byCorrelation' = [c \in Corr |-> NoAgent]
    /\ dbWrites' \in SUBSET dbWrites
    /\ delivered' = {}
    /\ commandBus' = {}
    /\ UNCHANGED <<token, answers, answeredBy, dbVars, resultBus, addressee, reported>>

-----------------------------------------------------------------------------
\* What the gateway does once its sockets are open.
GatewayNext ==
    \/ \E s \in Sockets :
          \/ Authenticated(s) \/ HeartbeatRecorded(s) \/ Disconnect(s)
          \/ Heartbeat(s) \/ HeartbeatTouch(s) \/ DevicesDiscovered(s)
    \/ \E a \in Agents : TouchExpires(a)
    \/ \E w \in dbWrites : ApplyWrite(w)
    \/ \E m \in commandBus : RefuseCommand(m) \/ ForwardCommand(m)
    \/ Restart

\* The worker, as an environment: each correlationId is used for one command.
Issue(c, a) ==
    /\ addressee[c] = NoAgent
    /\ addressee' = [addressee EXCEPT ![c] = a]
    /\ commandBus' = commandBus \cup {[corr |-> c, agent |-> a]}
    /\ UNCHANGED <<gatewayVars, dbVars, resultBus, reported>>

\* ...and Redis: results are consumed, and either channel loses messages.
Drain ==
    /\ commandBus' \in SUBSET commandBus
    /\ resultBus'  \in SUBSET resultBus
    /\ UNCHANGED <<gatewayVars, dbVars, addressee, reported>>

\* The worker and the rest of the backend write the device's row too.
DeviceChanges(d) ==
    /\ deviceStatus[d] # "deleted"
    /\ \/ /\ \E status \in {"ONLINE", "OFFLINE", "deleted"} :
                deviceStatus' = [deviceStatus EXCEPT ![d] = status]
          /\ UNCHANGED deviceAgent
       \/ /\ \E a \in Agents : deviceAgent' = [deviceAgent EXCEPT ![d] = a]
          /\ UNCHANGED deviceStatus
    /\ UNCHANGED <<gatewayVars, commandBus, resultBus, addressee, reported>>

\* Any socket may claim the result of any command: the agents are not trusted.
Next ==
    \/ GatewayNext
    \/ \E s \in Sockets, a \in Agents \cup {NoAgent} : Connect(s, a)
    \/ \E s \in Sockets, c \in Corr, ok \in BOOLEAN : SyncResult(s, c, ok)
    \/ \E c \in Corr, a \in Agents : Issue(c, a)
    \/ Drain
    \/ \E d \in Devices : DeviceChanges(d)

Spec == Init /\ [][Next]_vars

\* A connected agent beats every 30 s (agent-local/src/index.ts:68), the minute
\* passes, and queries and handlers complete.
FairSpec ==
    /\ Spec
    /\ \A s \in Sockets : /\ WF_vars(Authenticated(s)) /\ WF_vars(HeartbeatRecorded(s))
                          /\ WF_vars(Heartbeat(s)) /\ WF_vars(HeartbeatTouch(s))
    /\ \A a \in Agents : WF_vars(TouchExpires(a))
    /\ \A w \in Write : WF_vars(ApplyWrite(w))

-----------------------------------------------------------------------------
(* Properties.                                                             *)

\* A result that did not come from the gateway itself came over a socket
\* authenticated as the very agent the command was addressed to: no agent can
\* report on another agent's command (agent.gateway.ts:75-78, 189).
ResultFromAddressee ==
    \A c \in Corr : answeredBy[c] \in Agents => answeredBy[c] = addressee[c]

\* A command is answered at most once on agent:result, whatever the agents
\* repeat and however connections come and go.
ResultOncePerCommand == \A c \in Corr : answers[c] <= 1

\* A command only ever travels down a socket whose token is its addressee's.
RoutedToAddressee ==
    \A m \in delivered : token[m.sock] = addressee[m.corr]

\* While one agent stays connected and beating, its devices keep coming back to
\* ONLINE, even after a late disconnect of a replaced socket marked them OFFLINE.
Connected(a) == \E s \in open : socketAgent[s] = a
HeartbeatRestoresOnline ==
    \A a \in Agents, d \in Devices :
        <>[](Connected(a) /\ deviceAgent[d] = a /\ deviceStatus[d] # "deleted") =>
            []<>(deviceStatus[d] = "ONLINE")

\* agent.gateway.ts:72: clienteIdByAgent holds the "clienteId de cada agent
\* conectado", which getDiscoveredDevices relies on. The code breaks it: no run
\* checks it, and README.md shows how.
ConnectedAgentHasCliente == \A a \in Agents : Connected(a) => a \in clienteIds

\* It is the only way, though, that a connected agent is taken for a stranger, without a
\* tenant or without a live socket for its commands: another connection that spoke for it
\* has closed since the gateway started (agent.gateway.ts:107-131, 148-161).
ForgottenByAClosing ==
    \A a \in Agents : Connected(a) /\ (a \notin clienteIds \/ sockets[a] \notin open) =>
        \E s \in Sockets \ open : socketAgent[s] = a

-----------------------------------------------------------------------------
(* The inductive invariant behind the safety properties                    *)
(* (AgentGateway_proofs).                                                  *)

\* A connection speaks for the agent of its token, and the map never points at
\* a connection that speaks for another one. Only an authenticated connection
\* has either.
Registered(s) == phase[s] \notin {"unused", "authenticating"}

SocketsOwned ==
    /\ \A s \in Sockets :
          /\ socketAgent[s] \in {NoAgent, token[s]}
          /\ socketAgent[s] # NoAgent => Registered(s)
          /\ phase[s] = "updating" => socketAgent[s] # NoAgent
    /\ \A s \in beating : socketAgent[s] # NoAgent
    /\ \A a \in Agents : sockets[a] # NoSocket =>
          token[sockets[a]] = a /\ Registered(sockets[a])

\* A command in flight, dispatched or delivered is its addressee's; a
\* correlation that was never issued appears nowhere.
CommandsAddressed ==
    /\ \A m \in commandBus : addressee[m.corr] = m.agent
    /\ \A c \in Corr : byCorrelation[c] \in {NoAgent, addressee[c]}
    /\ \A m \in delivered :
          addressee[m.corr] # NoAgent /\ Registered(m.sock)

\* What can still be answered has not been answered, and is in one place.
Unanswered ==
    /\ \A m \in commandBus : byCorrelation[m.corr] = NoAgent /\ answers[m.corr] = 0
    /\ \A c \in Corr : byCorrelation[c] # NoAgent \/ addressee[c] = NoAgent => answers[c] = 0

\* A correlation without an answer has no author.
AuthorKnown == \A c \in Corr : answers[c] = 0 => answeredBy[c] = NoAgent

IInv ==
    /\ TypeOK
    /\ SocketsOwned
    /\ CommandsAddressed
    /\ Unanswered
    /\ AuthorKnown
    /\ ResultOncePerCommand
    /\ ResultFromAddressee
    /\ RoutedToAddressee
=============================================================================
