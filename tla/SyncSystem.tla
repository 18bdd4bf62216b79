----------------------------- MODULE SyncSystem -----------------------------
(***************************************************************************)
(* A synchronisation end to end: the worker (SyncWorker), the gateway      *)
(* (AgentGateway) and the Agents Locais, composed over the state they      *)
(* share: the two Redis channels, the sockets and the devices' rows.       *)
(*                                                                         *)
(* Each of the two components was checked against an environment of its    *)
(* own. The composition shows that the real other side keeps within that   *)
(* environment (WorkerRefined, GatewayRefined), so what was proved of each *)
(* component holds of the whole, and it follows a success from the scale   *)
(* to the SyncJob row (SuccessWasWritten).                                 *)
(***************************************************************************)
EXTENDS Naturals, FiniteSets

CONSTANTS
    Jobs, Devices, DeviceOf, Agents, NoAgent, MaxAttempts, MaxStalls, Concurrency,
    FaultKinds, MaxFaults,        \* of the worker
    Gateway, Sockets, NoSocket    \* of the gateway

VARIABLES
    \* of the worker
    queue, attemptsMade, stalls, runs, lock, pc, target, pending, syncJob, items, faults,
    stranded,
    \* of the gateway
    phase, open, token, socketAgent, beating, sockets, clienteIds, discovered, touched,
    byCorrelation, dbWrites, delivered, answers, answeredBy,
    \* shared by both
    deviceStatus, deviceAgent, commandBus, resultBus, reported,
    \* of the agents
    carrier,  \* the connection each agent believes it has
    taken,    \* history: correlations an agent started on
    working,  \* commands being written to a scale
    outbox,   \* results emitted, buffered while the agent is disconnected
    written,  \* history: commands whose write the scale accepted
    issued    \* history: correlations whose command reached Redis

workerVars  == <<queue, attemptsMade, stalls, runs, lock, pc, target, pending, syncJob, items,
                 faults, stranded>>
gatewayVars == <<phase, open, token, socketAgent, beating, sockets, clienteIds, discovered, touched,
                 byCorrelation, dbWrites, delivered, answers, answeredBy>>
sharedVars  == <<deviceStatus, deviceAgent, commandBus, resultBus, reported>>
agentVars   == <<carrier, taken, working, outbox, written>>
vars        == <<workerVars, gatewayVars, sharedVars, agentVars, issued>>

W == INSTANCE SyncWorker

ASSUME SystemAssumption ==
    /\ DeviceOf \in [Jobs -> Devices]
    /\ NoAgent \notin Agents
    /\ MaxAttempts \in Nat \ {0}
    /\ MaxStalls \in Nat
    /\ Concurrency \in Nat \ {0}
    /\ FaultKinds \subseteq W!AllFaults
    /\ MaxFaults \in Nat
    /\ Gateway \notin Agents \cup {NoAgent}
    /\ NoSocket \notin Sockets

\* To the gateway a command's addressee is the agent the worker published it to.
addressee == [e \in W!Exec |-> IF e \in issued THEN target[e] ELSE NoAgent]

G == INSTANCE AgentGateway WITH Corr <- W!Exec

Task == [agent : Agents, corr : W!Exec]

Init ==
    /\ W!Init
    /\ issued = {}
    /\ G!Init
    /\ carrier = [a \in Agents |-> NoSocket]
    /\ taken   = {}
    /\ working = {}
    /\ outbox  = {}
    /\ written = {}

-----------------------------------------------------------------------------
(* Steps of the two components.                                            *)

WorkerStep ==
    /\ W!WorkerNext
    /\ issued' = issued \cup {m.corr : m \in commandBus'}
    /\ UNCHANGED <<gatewayVars, agentVars>>

\* The gateway's own steps; its sockets are opened by the agents below.
GatewayStep ==
    /\ UNCHANGED <<workerVars, agentVars, issued>>
    /\ G!GatewayNext

CommandLost ==
    /\ \E m \in commandBus : commandBus' = commandBus \ {m}
    /\ UNCHANGED <<workerVars, gatewayVars, deviceStatus, deviceAgent, resultBus, reported,
                   agentVars, issued>>

ResultLost == W!LoseResult /\ UNCHANGED <<gatewayVars, agentVars, issued>>

-----------------------------------------------------------------------------
(* Agents Locais (agent-local/src/index.ts), as the gateway sees them.     *)

\* io(...) connects, or reconnects while the server still holds the old socket.
AgentConnects(a, s) ==
    /\ UNCHANGED <<workerVars, taken, working, outbox, written, issued>>
    /\ carrier[a] = NoSocket
    /\ carrier' = [carrier EXCEPT ![a] = s]
    /\ G!Connect(s, a)

\* The agent notices that its connection is gone; the server notices in its own
\* time (AgentGateway!Disconnect).
ConnectionDrops(a) ==
    /\ carrier[a] # NoSocket
    /\ carrier' = [carrier EXCEPT ![a] = NoSocket]
    /\ UNCHANGED <<workerVars, gatewayVars, sharedVars, taken, working, outbox, written, issued>>

\* socket.on("sync:command").
AgentTakes(a, m) ==
    /\ m \in delivered
    /\ carrier[a] = m.sock
    /\ m.corr \notin taken
    /\ taken'   = taken \cup {m.corr}
    /\ working' = working \cup {[agent |-> a, corr |-> m.corr]}
    /\ UNCHANGED <<workerVars, gatewayVars, sharedVars, carrier, outbox, written, issued>>

\* sendProductsToScale resolves: an ok outcome means that the scale accepted the
\* write; a failed one may come after the scale had already taken it.
AgentFinishes(t, ok) ==
    /\ t \in working
    /\ working' = working \ {t}
    /\ outbox'  = outbox \cup {[agent |-> t.agent, corr |-> t.corr, ok |-> ok]}
    /\ written' \in IF ok THEN {written \cup {t}} ELSE {written, written \cup {t}}
    /\ UNCHANGED <<workerVars, gatewayVars, sharedVars, carrier, taken, issued>>

\* socket.emit("sync:result"), at once or when the connection is back. It is not
\* acknowledged: on a connection the server has closed it is lost, and before
\* handleConnection has finished the gateway drops it.
AgentReports(t) ==
    LET s == carrier[t.agent] IN
    /\ UNCHANGED <<workerVars, carrier, taken, working, written, issued>>
    /\ t \in outbox
    /\ s # NoSocket
    /\ outbox' = outbox \ {t}
    /\ IF s \in open
       THEN G!SyncResult(s, t.corr, t.ok)
       ELSE UNCHANGED <<gatewayVars, sharedVars>>

\* The agent's process ends and starts again.
AgentRestarts(a) ==
    /\ carrier' = [carrier EXCEPT ![a] = NoSocket]
    /\ working' = {t \in working : t.agent # a}
    /\ outbox'  = {t \in outbox : t.agent # a}
    /\ carrier' # carrier \/ working' # working \/ outbox' # outbox
    /\ UNCHANGED <<workerVars, gatewayVars, sharedVars, taken, written, issued>>

AgentStep ==
    \/ \E a \in Agents :
          \/ \E s \in Sockets : AgentConnects(a, s)
          \/ ConnectionDrops(a)
          \/ \E m \in delivered : AgentTakes(a, m)
          \/ AgentRestarts(a)
    \/ \E t \in working, ok \in BOOLEAN : AgentFinishes(t, ok)
    \/ \E t \in outbox : AgentReports(t)

Next == WorkerStep \/ GatewayStep \/ CommandLost \/ ResultLost \/ AgentStep

Spec == Init /\ [][Next]_vars

-----------------------------------------------------------------------------
(* Properties.                                                             *)

TypeOK ==
    /\ W!TypeOK
    /\ G!TypeOK
    /\ carrier \in [Agents -> Sockets \cup {NoSocket}]
    /\ taken   \subseteq W!Exec
    /\ working \subseteq Task
    /\ outbox  \subseteq [agent : Agents, corr : W!Exec, ok : BOOLEAN]
    /\ written \subseteq Task
    /\ issued  \subseteq W!Exec

\* What the worker may still get an answer to: everything it published that was
\* not answered, wherever it is or got lost.
outstanding ==
    {m \in [corr : W!Exec, agent : Agents] :
        m.corr \in issued /\ m.agent = target[m.corr] /\ answers[m.corr] = 0}

\* The gateway and the agents together are the other side SyncWorker assumes: a
\* command is answered at most once, only after it was published, and the
\* devices are only touched as SyncWorker!TouchDevices says.
WorkerSide == INSTANCE SyncWorker WITH commandBus <- outstanding
WorkerRefined == WorkerSide!Spec

\* The worker and the honest agents are an environment AgentGateway allows: each
\* correlationId is used for one command and one agent.
GatewayRefined == G!Spec

\* A SyncJob row says SUCCESS only if the agent its command was addressed to
\* really had that very command accepted by the scale.
SuccessWasWritten ==
    \A e \in W!Exec : syncJob[e] = "SUCCESS" => [agent |-> target[e], corr |-> e] \in written

\* The executions whose command the scale of their agent accepted.
accepted == {e \in issued : [agent |-> target[e], corr |-> e] \in written}

\* The rows keep the promise made to their readers (SyncPromise) with the scale's word
\* in place of the report: whatever is lost, late, retried or restarted between the
\* processor and the scale, a row opens and ends once, succeeds only once the scale has
\* accepted its command, and an error is never taken back.
Readers == INSTANCE SyncPromise WITH Rows <- W!Exec, reported <- accepted
PromiseKept == Readers!Spec

-----------------------------------------------------------------------------
(* The inductive invariant behind the two refinements and SuccessWasWritten *)
(* (SyncSystem_proofs): those of the two components, each as the other     *)
(* component sees it, and what ties them to the agents.                    *)

\* The connection an agent believes it has presented that agent's token.
CarrierOwned ==
    \A a \in Agents : carrier[a] # NoSocket =>
        token[carrier[a]] = a /\ phase[carrier[a]] # "unused"

\* A command reached Redis only after its execution knew the agent, and the
\* execution never goes back to look for another one.
IssuedIsAimed ==
    \A e \in issued :
        /\ pc[e] \notin {"none", "loading", "packaging", "publishing"}
        /\ target[e] # NoAgent

\* An ok on its way to the backend is about a write the scale accepted...
OkWasAccepted == \A t \in outbox : t.ok => [agent |-> t.agent, corr |-> t.corr] \in written

\* ...and so is one that came through, on the scale of the agent addressed.
ReportedWasWritten ==
    \A e \in reported : e \in issued /\ [agent |-> target[e], corr |-> e] \in written

IInv ==
    /\ TypeOK
    /\ WorkerSide!IInv
    /\ G!IInv
    /\ CarrierOwned
    /\ IssuedIsAimed
    /\ OkWasAccepted
    /\ ReportedWasWritten
=============================================================================
