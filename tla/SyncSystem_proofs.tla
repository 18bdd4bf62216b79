------------------------- MODULE SyncSystem_proofs -------------------------
(***************************************************************************)
(* Proofs about SyncSystem, for every number of jobs, agents, connections  *)
(* and faults: the two components keep within what each was proved to      *)
(* need of the other, so the theorems of SyncWorker_proofs and             *)
(* AgentGateway_proofs hold of the composition. They are cited through the *)
(* two instances below: the worker as the other side sees it (every        *)
(* command that can still be answered is in flight) and the gateway with   *)
(* the worker's executions for correlationIds.                             *)
(***************************************************************************)
EXTENDS SyncSystem, TLAPS

OnWorker  == INSTANCE SyncWorker_proofs WITH commandBus <- outstanding
OnGateway == INSTANCE AgentGateway_proofs WITH Corr <- W!Exec

-----------------------------------------------------------------------------
(* The instances of the proof modules and those of SyncSystem say the same. *)

LEMMA WorkerNextSame == OnWorker!Next <=> WorkerSide!Next
  BY DEF OnWorker!Next, OnWorker!WorkerNext, OnWorker!OtherNext, OnWorker!Step, OnWorker!FaultyStep,
         OnWorker!Enqueue, OnWorker!Take, OnWorker!BackoffEnds, OnWorker!Stall,
         OnWorker!DeleteDevice, OnWorker!LinkDeviceAgent, OnWorker!LoadDevice,
         OnWorker!EmptyPackage, OnWorker!CreateSyncJob, OnWorker!CreateFails,
         OnWorker!Publish, OnWorker!Timeout, OnWorker!CommitSuccess, OnWorker!RecordError,
         OnWorker!Complete, OnWorker!Fail, OnWorker!OrphanTimeout, OnWorker!PublishFails,
         OnWorker!DatabaseFails, OnWorker!CreateUnacknowledged, OnWorker!CommitUnacknowledged, OnWorker!ReceiveResult,
         OnWorker!Crash, OnWorker!Die, OnWorker!LoseCommand, OnWorker!LoseResult,
         OnWorker!LoseMessage, OnWorker!Answer, OnWorker!TouchDevices, OnWorker!MaxRuns,
         OnWorker!Runs, OnWorker!Exec, OnWorker!LivePc, OnWorker!Live, OnWorker!Device,
         OnWorker!Exists, OnWorker!HasRow, OnWorker!Goto, OnWorker!SetRow, OnWorker!Fault,
         OnWorker!bullVars, OnWorker!execVars, OnWorker!rowVars, OnWorker!deviceVars,
         OnWorker!busVars, OnWorker!faultVars, OnWorker!Cardinality, WorkerSide!Next, WorkerSide!WorkerNext,
         WorkerSide!OtherNext, WorkerSide!Step, WorkerSide!FaultyStep, WorkerSide!Enqueue,
         WorkerSide!Take, WorkerSide!BackoffEnds, WorkerSide!Stall, WorkerSide!DeleteDevice,
         WorkerSide!LinkDeviceAgent, WorkerSide!LoadDevice, WorkerSide!EmptyPackage,
         WorkerSide!CreateSyncJob, WorkerSide!CreateFails, WorkerSide!Publish,
         WorkerSide!Timeout, WorkerSide!CommitSuccess, WorkerSide!RecordError,
         WorkerSide!Complete, WorkerSide!Fail, WorkerSide!OrphanTimeout,
         WorkerSide!PublishFails, WorkerSide!DatabaseFails, WorkerSide!CreateUnacknowledged, WorkerSide!CommitUnacknowledged,
         WorkerSide!ReceiveResult, WorkerSide!Crash, WorkerSide!Die, WorkerSide!LoseCommand,
         WorkerSide!LoseResult, WorkerSide!LoseMessage, WorkerSide!Answer,
         WorkerSide!TouchDevices, WorkerSide!MaxRuns, WorkerSide!Runs, WorkerSide!Exec,
         WorkerSide!LivePc, WorkerSide!Live, WorkerSide!Device, WorkerSide!Exists,
         WorkerSide!HasRow, WorkerSide!Goto, WorkerSide!SetRow, WorkerSide!Fault,
         WorkerSide!bullVars, WorkerSide!execVars, WorkerSide!rowVars,
         WorkerSide!deviceVars, WorkerSide!busVars, WorkerSide!faultVars, WorkerSide!Cardinality

LEMMA WorkerVarsSame == OnWorker!vars = WorkerSide!vars /\ OnWorker!vars' = WorkerSide!vars'
  BY DEF OnWorker!vars, OnWorker!bullVars, OnWorker!execVars, OnWorker!rowVars, OnWorker!deviceVars,
         OnWorker!busVars, OnWorker!faultVars, WorkerSide!vars, WorkerSide!bullVars, WorkerSide!execVars,
         WorkerSide!rowVars, WorkerSide!deviceVars, WorkerSide!busVars, WorkerSide!faultVars

LEMMA WorkerInitSame == OnWorker!Init <=> WorkerSide!Init
  BY DEF OnWorker!Init, OnWorker!Exec, OnWorker!Runs, OnWorker!MaxRuns, WorkerSide!Init,
         WorkerSide!Exec, WorkerSide!Runs, WorkerSide!MaxRuns

LEMMA WorkerInvSame ==
    (OnWorker!IInv <=> WorkerSide!IInv) /\ (OnWorker!IInv' <=> WorkerSide!IInv')
  BY DEF OnWorker!IInv, OnWorker!TypeOK, OnWorker!RunsAccounted, OnWorker!LockIsLatest,
         OnWorker!FreshRuns, OnWorker!LiveHasLock, OnWorker!RowFollowsPc,
         OnWorker!TargetKnown, OnWorker!OkWasReported, OnWorker!SuccessWasReported,
         OnWorker!CompletedByOver, OnWorker!ItemsFollowRow, OnWorker!EndedIsSettled,
         OnWorker!MaxRuns, OnWorker!Runs, OnWorker!Exec, OnWorker!QueueState,
         OnWorker!LivePc, OnWorker!Pc, OnWorker!RowStatus, OnWorker!ItemStatus,
         OnWorker!DeviceStatus, OnWorker!Command, OnWorker!Result, OnWorker!Live,
         OnWorker!Device, OnWorker!Exists, OnWorker!HasRow, WorkerSide!IInv,
         WorkerSide!TypeOK, WorkerSide!RunsAccounted, WorkerSide!LockIsLatest,
         WorkerSide!FreshRuns, WorkerSide!LiveHasLock, WorkerSide!RowFollowsPc,
         WorkerSide!TargetKnown, WorkerSide!OkWasReported, WorkerSide!SuccessWasReported,
         WorkerSide!CompletedByOver, WorkerSide!ItemsFollowRow, WorkerSide!EndedIsSettled,
         WorkerSide!MaxRuns, WorkerSide!Runs, WorkerSide!Exec, WorkerSide!QueueState,
         WorkerSide!LivePc, WorkerSide!Pc, WorkerSide!RowStatus, WorkerSide!ItemStatus,
         WorkerSide!DeviceStatus, WorkerSide!Command, WorkerSide!Result, WorkerSide!Live,
         WorkerSide!Device, WorkerSide!Exists, WorkerSide!HasRow

LEMMA GatewayNextSame == OnGateway!Next <=> G!Next
  BY DEF OnGateway!Next, OnGateway!GatewayNext, OnGateway!Authenticated, OnGateway!HeartbeatRecorded,
         OnGateway!Disconnect, OnGateway!Heartbeat, OnGateway!HeartbeatTouch,
         OnGateway!DevicesDiscovered, OnGateway!TouchExpires, OnGateway!ApplyWrite,
         OnGateway!RefuseCommand, OnGateway!ForwardCommand, OnGateway!Restart,
         OnGateway!Connect, OnGateway!SyncResult, OnGateway!Issue, OnGateway!Drain,
         OnGateway!DeviceChanges, OnGateway!PublishResult, OnGateway!connVars,
         OnGateway!mapVars, OnGateway!dbVars, OnGateway!gatewayVars, G!Next, G!GatewayNext,
         G!Authenticated, G!HeartbeatRecorded, G!Disconnect, G!Heartbeat, G!HeartbeatTouch,
         G!DevicesDiscovered, G!TouchExpires, G!ApplyWrite, G!RefuseCommand,
         G!ForwardCommand, G!Restart, G!Connect, G!SyncResult, G!Issue, G!Drain,
         G!DeviceChanges, G!PublishResult, G!connVars, G!mapVars, G!dbVars, G!gatewayVars

LEMMA GatewayVarsSame == OnGateway!vars = G!vars /\ OnGateway!vars' = G!vars'
  BY DEF OnGateway!vars, OnGateway!gatewayVars, OnGateway!connVars, OnGateway!mapVars,
         OnGateway!dbVars, G!vars, G!gatewayVars, G!connVars, G!mapVars, G!dbVars

LEMMA GatewayInitSame == OnGateway!Init <=> G!Init
  BY DEF OnGateway!Init, OnGateway!InitGateway, G!Init, G!InitGateway

LEMMA GatewayInvSame == (OnGateway!IInv <=> G!IInv) /\ (OnGateway!IInv' <=> G!IInv')
  BY DEF OnGateway!IInv, OnGateway!TypeOK, OnGateway!Phase, OnGateway!Command, OnGateway!Result,
         OnGateway!Write, OnGateway!DeviceStatus, OnGateway!SocketsOwned,
         OnGateway!Registered, OnGateway!CommandsAddressed, OnGateway!Unanswered,
         OnGateway!AuthorKnown, OnGateway!ResultOncePerCommand,
         OnGateway!ResultFromAddressee, OnGateway!RoutedToAddressee, G!IInv, G!TypeOK,
         G!Phase, G!Command, G!Result, G!Write, G!DeviceStatus, G!SocketsOwned,
         G!Registered, G!CommandsAddressed, G!Unanswered, G!AuthorKnown,
         G!ResultOncePerCommand, G!ResultFromAddressee, G!RoutedToAddressee

\* What was proved of each component, for the parts of this system.
LEMMA WorkerKeeps == WorkerSide!IInv /\ [WorkerSide!Next]_(WorkerSide!vars) => WorkerSide!IInv'
<1>1. OnWorker!IInv /\ [OnWorker!Next]_(OnWorker!vars) => OnWorker!IInv'
  BY OnWorker!StepPreserves, SystemAssumption DEF W!AllFaults, OnWorker!AllFaults
<1> QED
  BY <1>1, WorkerNextSame, WorkerVarsSame, WorkerInvSame

LEMMA GatewayKeeps == G!IInv /\ [G!Next]_(G!vars) => G!IInv'
<1>1. OnGateway!IInv /\ [OnGateway!Next]_(OnGateway!vars) => OnGateway!IInv'
  BY OnGateway!StepPreserves, SystemAssumption
<1> QED
  BY <1>1, GatewayNextSame, GatewayVarsSame, GatewayInvSame

-----------------------------------------------------------------------------
(* What the two sides see of each other moves only with a publication or   *)
(* an answer.                                                              *)

LEMMA ExecSame == WorkerSide!Exec = W!Exec
  BY DEF WorkerSide!Exec, W!Exec, WorkerSide!Runs, W!Runs, WorkerSide!MaxRuns, W!MaxRuns

LEMMA NothingNew ==
    ASSUME issued' = issued, \A e \in issued : target'[e] = target[e]
    PROVE  addressee' = addressee /\ (answers' = answers => outstanding' = outstanding)
  BY DEF addressee, outstanding

\* Whatever is on its way to an agent was issued, to that agent.
LEMMA InFlightIssued ==
    ASSUME IInv
    PROVE  /\ \A m \in commandBus : /\ m.corr \in issued /\ m.agent = target[m.corr]
                                    /\ answers[m.corr] = 0 /\ m \in outstanding
           /\ \A c \in W!Exec : byCorrelation[c] # NoAgent =>
                 /\ c \in issued /\ target[c] = byCorrelation[c] /\ answers[c] = 0
<1> USE SystemAssumption
    DEF IInv, G!IInv, G!TypeOK, G!CommandsAddressed, G!Unanswered, G!Command, addressee, outstanding
<1>1. ASSUME NEW m \in commandBus
      PROVE  /\ m.corr \in issued /\ m.agent = target[m.corr]
             /\ answers[m.corr] = 0 /\ m \in outstanding
  <2>1. m \in [corr : W!Exec, agent : Agents] /\ m.corr \in W!Exec /\ m.agent \in Agents
    OBVIOUS
  <2>2. addressee[m.corr] = m.agent /\ answers[m.corr] = 0
    BY <2>1
  <2>3. m.corr \in issued /\ m.agent = target[m.corr]
    BY <2>1, <2>2
  <2> QED
    BY <2>1, <2>2, <2>3
<1>2. ASSUME NEW c \in W!Exec, byCorrelation[c] # NoAgent
      PROVE  c \in issued /\ target[c] = byCorrelation[c] /\ answers[c] = 0
  BY <1>2
<1> QED
  BY <1>1, <1>2

\* An execution that has not published is not among the issued ones.
LEMMA LoadingNotIssued ==
    ASSUME IInv, NEW e \in W!Exec, pc[e] \in {"none", "loading", "packaging", "publishing"}
    PROVE  e \notin issued /\ addressee[e] = NoAgent
  BY DEF IInv, IssuedIsAimed, addressee

-----------------------------------------------------------------------------
(* The worker's steps.                                                     *)

LEMMA QuietWorkerStep ==
    ASSUME IInv, WorkerStep, commandBus' = commandBus, \A e \in issued : target'[e] = target[e]
    PROVE  outstanding' = outstanding /\ addressee' = addressee /\ issued' = issued
<1>1. issued' = issued
  BY InFlightIssued DEF WorkerStep
<1>2. answers' = answers
  BY DEF WorkerStep, gatewayVars
<1> QED
  BY <1>1, <1>2, NothingNew

\* A publication is the one step of the worker that the other side sees: the
\* command of an execution that had none, or that was refused before it left.
LEMMA PublicationMaps ==
    ASSUME IInv, WorkerStep, NEW e \in W!Exec, W!Publish(e) \/ W!PublishFails(e)
    PROVE  /\ WorkerSide!Publish(e) \/ WorkerSide!PublishFails(e)
           /\ G!Next \/ UNCHANGED G!vars
<1> DEFINE m == [corr |-> e, agent |-> target[e]]
<1>1. /\ pc[e] = "publishing" /\ UNCHANGED <<W!bullVars, target, W!rowVars, W!deviceVars, resultBus, reported>>
      /\ commandBus' \in {commandBus, commandBus \cup {m}}
  BY DEF W!Publish, W!PublishFails
<1>2. e \notin issued /\ addressee[e] = NoAgent /\ answers[e] = 0 /\ target[e] \in Agents
  <2>1. e \notin issued /\ addressee[e] = NoAgent
    BY <1>1, LoadingNotIssued
  <2>2. answers[e] = 0
    BY <2>1 DEF IInv, G!IInv, G!Unanswered
  <2>3. target[e] \in Agents
    <3>1. target[e] \in Agents \cup {NoAgent}
      BY DEF IInv, TypeOK, W!TypeOK
    <3>2. target[e] # NoAgent
      BY <1>1, ExecSame DEF IInv, WorkerSide!IInv, WorkerSide!TargetKnown
    <3> QED
      BY <3>1, <3>2
  <2> QED
    BY <2>1, <2>2, <2>3
<1>3. UNCHANGED <<gatewayVars, agentVars>> /\ answers' = answers
  BY DEF WorkerStep, gatewayVars
<1>4. CASE commandBus' = commandBus \cup {m}
  <2>1. issued' = issued \cup {e}
    <3>1. issued' = issued \cup {c.corr : c \in commandBus \cup {m}}
      BY <1>4 DEF WorkerStep
    <3>2. m.corr = e /\ \A c \in commandBus : c.corr \in issued
      BY InFlightIssued
    <3> HIDE DEF m
    <3> QED
      BY <3>1, <3>2
  <2>2. outstanding' = outstanding \cup {m}
    <3>1. m \in [corr : W!Exec, agent : Agents] /\ m.corr = e /\ m.agent = target[e]
      BY <1>2
    <3>2. ASSUME NEW x \in [corr : W!Exec, agent : Agents], x.corr = e, x.agent = target[e]
          PROVE  x = m
      BY <3>1, <3>2
    <3>3. ASSUME NEW x \in [corr : W!Exec, agent : Agents]
          PROVE  x \in outstanding' <=> x \in outstanding \/ x = m
      BY <1>1, <1>2, <1>3, <2>1, <3>1, <3>2 DEF outstanding
    <3>4. outstanding \subseteq [corr : W!Exec, agent : Agents]
          /\ outstanding' \subseteq [corr : W!Exec, agent : Agents]
      BY DEF outstanding
    <3> QED
      BY <3>1, <3>3, <3>4
  <2>3. WorkerSide!Publish(e) \/ WorkerSide!PublishFails(e)
    BY <1>4, <2>2 DEF W!Publish, W!PublishFails, WorkerSide!Publish, WorkerSide!PublishFails,
       W!Goto, WorkerSide!Goto, W!Fault, WorkerSide!Fault, W!bullVars, WorkerSide!bullVars,
       W!rowVars, WorkerSide!rowVars, W!deviceVars, WorkerSide!deviceVars,
       W!faultVars, WorkerSide!faultVars
  <2>4. addressee' = [addressee EXCEPT ![e] = target[e]]
    BY <1>1, <2>1 DEF addressee
  <2>5. G!Issue(e, target[e])
    BY <1>1, <1>2, <1>3, <1>4, <2>4 DEF G!Issue, G!gatewayVars, G!connVars, G!mapVars, G!dbVars,
       gatewayVars, W!deviceVars
  <2>6. G!Next
    BY <1>2, <2>5 DEF G!Next
  <2> QED
    BY <2>3, <2>6
<1>5. CASE commandBus' = commandBus
  <2>1. outstanding' = outstanding /\ addressee' = addressee
    BY <1>1, <1>5, QuietWorkerStep
  <2>2. W!PublishFails(e)
    <3>1. m \notin commandBus
      BY <1>2, InFlightIssued
    <3> QED
      BY <1>5, <3>1 DEF W!Publish
  <2>3. WorkerSide!PublishFails(e)
    BY <2>1, <2>2 DEF W!PublishFails, WorkerSide!PublishFails,
       W!Goto, WorkerSide!Goto, W!Fault, WorkerSide!Fault, W!bullVars, WorkerSide!bullVars,
       W!rowVars, WorkerSide!rowVars, W!deviceVars, WorkerSide!deviceVars
  <2>4. UNCHANGED G!vars
    BY <1>1, <1>3, <1>5, <2>1 DEF G!vars, G!gatewayVars, G!connVars, G!mapVars, G!dbVars,
       gatewayVars, W!deviceVars
  <2> QED
    BY <2>3, <2>4
<1> QED
  BY <1>1, <1>4, <1>5

\* Any other step leaves what the other side sees of the worker alone.
LEMMA WorkerStepForWorker == IInv /\ WorkerStep => WorkerSide!WorkerNext
<1> SUFFICES ASSUME IInv, WorkerStep PROVE WorkerSide!WorkerNext
  OBVIOUS
<1> DEFINE Quiet == commandBus' = commandBus /\ \A e \in issued : target'[e] = target[e]
<1>1. Quiet => UNCHANGED <<outstanding, addressee>>
  BY QuietWorkerStep
<1> USE DEF W!MaxRuns, WorkerSide!MaxRuns, W!Runs, WorkerSide!Runs, W!Exec, WorkerSide!Exec,
       W!LivePc, WorkerSide!LivePc, W!Live, WorkerSide!Live, W!Device, WorkerSide!Device,
       W!Exists, WorkerSide!Exists, W!HasRow, WorkerSide!HasRow, W!Goto, WorkerSide!Goto,
       W!SetRow, WorkerSide!SetRow, W!Fault, WorkerSide!Fault, W!bullVars,
       WorkerSide!bullVars, W!execVars, WorkerSide!execVars, W!rowVars, WorkerSide!rowVars,
       W!deviceVars, WorkerSide!deviceVars
<1>2. ASSUME NEW j \in Jobs, W!Enqueue(j) \/ W!Take(j) \/ W!BackoffEnds(j) \/ W!Stall(j)
      PROVE  WorkerSide!Enqueue(j) \/ WorkerSide!Take(j) \/ WorkerSide!BackoffEnds(j) \/ WorkerSide!Stall(j)
  <2>1. Quiet
    BY <1>2 DEF W!Enqueue, W!Take, W!BackoffEnds, W!Stall, W!busVars, W!faultVars
  <2> QED
    BY <1>1, <1>2, <2>1 DEF W!busVars, W!faultVars, WorkerSide!busVars, WorkerSide!faultVars, W!Cardinality, WorkerSide!Cardinality,
       W!Enqueue, WorkerSide!Enqueue, W!Take, WorkerSide!Take, W!BackoffEnds,
       WorkerSide!BackoffEnds, W!Stall, WorkerSide!Stall
<1>3. ASSUME NEW d \in Devices, W!DeleteDevice(d) \/ \E a \in Agents : W!LinkDeviceAgent(d, a)
      PROVE  WorkerSide!DeleteDevice(d) \/ \E a \in Agents : WorkerSide!LinkDeviceAgent(d, a)
  <2>1. Quiet
    BY <1>3 DEF W!DeleteDevice, W!LinkDeviceAgent, W!busVars, W!faultVars
  <2> QED
    BY <1>1, <1>3, <2>1 DEF W!busVars, W!faultVars, WorkerSide!busVars, WorkerSide!faultVars,
       W!DeleteDevice, WorkerSide!DeleteDevice, W!LinkDeviceAgent,
       WorkerSide!LinkDeviceAgent
<1>4. ASSUME NEW e \in W!Exec, W!LoadDevice(e)
      PROVE  WorkerSide!LoadDevice(e)
  <2>1. e \notin issued
    BY <1>4, LoadingNotIssued DEF W!LoadDevice
  <2>2. target \in [W!Exec -> Agents \cup {NoAgent}] /\ issued \subseteq W!Exec
    BY DEF IInv, TypeOK, W!TypeOK
  <2>3. commandBus' = commandBus /\ (target' = target \/ target' = [target EXCEPT ![e] = deviceAgent[W!Device(e)]])
    BY <1>4 DEF W!LoadDevice, W!busVars, W!faultVars
  <2>4. Quiet
    <3> HIDE DEF W!Exec
    <3> QED
      BY <2>1, <2>2, <2>3
  <2> QED
    BY <1>1, <1>4, <2>4 DEF W!busVars, W!faultVars, WorkerSide!busVars, WorkerSide!faultVars, W!LoadDevice, WorkerSide!LoadDevice
<1>5. ASSUME NEW e \in W!Exec,
             \/ W!EmptyPackage(e) \/ W!CreateSyncJob(e) \/ W!CreateFails(e) \/ W!Timeout(e)
             \/ W!CommitSuccess(e) \/ W!RecordError(e) \/ W!Complete(e) \/ W!Fail(e)
             \/ W!OrphanTimeout(e)
      PROVE  WorkerSide!Step(e)
  <2>1. Quiet
    BY <1>5 DEF W!busVars, W!faultVars, W!EmptyPackage, W!CreateSyncJob, W!CreateFails, W!Timeout,
       W!CommitSuccess, W!RecordError, W!Complete, W!Fail, W!OrphanTimeout, W!Die
  <2> QED
    BY <1>1, <1>5, <2>1 DEF W!busVars, W!faultVars, WorkerSide!busVars, WorkerSide!faultVars, WorkerSide!Step,
       W!EmptyPackage, WorkerSide!EmptyPackage, W!CreateSyncJob, WorkerSide!CreateSyncJob,
       W!CreateFails, WorkerSide!CreateFails, W!Timeout, WorkerSide!Timeout,
       W!CommitSuccess, WorkerSide!CommitSuccess, W!RecordError, WorkerSide!RecordError,
       W!Complete, WorkerSide!Complete, W!Fail, WorkerSide!Fail, W!OrphanTimeout,
       WorkerSide!OrphanTimeout, W!Die, WorkerSide!Die
<1>6. ASSUME NEW e \in W!Exec,
             W!DatabaseFails(e) \/ W!CreateUnacknowledged(e) \/ W!CommitUnacknowledged(e)
      PROVE  WorkerSide!FaultyStep(e)
  <2>1. Quiet
    BY <1>6 DEF W!busVars, W!faultVars, W!DatabaseFails, W!CreateUnacknowledged, W!CommitUnacknowledged
  <2> QED
    BY <1>1, <1>6, <2>1 DEF W!busVars, W!faultVars, WorkerSide!busVars, WorkerSide!faultVars, WorkerSide!FaultyStep,
       W!DatabaseFails, WorkerSide!DatabaseFails, W!CreateUnacknowledged, W!CommitUnacknowledged, WorkerSide!CreateUnacknowledged, WorkerSide!CommitUnacknowledged
<1>7. ASSUME NEW e \in W!Exec, W!Publish(e) \/ W!PublishFails(e)
      PROVE  WorkerSide!Step(e) \/ WorkerSide!FaultyStep(e)
  BY <1>7, PublicationMaps DEF WorkerSide!Step, WorkerSide!FaultyStep
<1>8. ASSUME NEW r \in resultBus, W!ReceiveResult(r)
      PROVE  WorkerSide!ReceiveResult(r)
  <2>1. Quiet
    BY <1>8 DEF W!ReceiveResult
  <2> QED
    BY <1>1, <1>8, <2>1 DEF W!ReceiveResult, WorkerSide!ReceiveResult, W!faultVars, WorkerSide!faultVars
<1>9. ASSUME W!Crash
      PROVE  WorkerSide!Crash
  <2>1. Quiet
    BY <1>9 DEF W!Crash, W!Die
  <2> QED
    BY <1>1, <1>9, <2>1 DEF W!Crash, WorkerSide!Crash, W!Die, WorkerSide!Die
<1> QED
  <2> HIDE DEF W!MaxRuns, WorkerSide!MaxRuns, W!Runs, WorkerSide!Runs, W!Exec, WorkerSide!Exec,
       W!LivePc, WorkerSide!LivePc, W!Live, WorkerSide!Live, W!Device, WorkerSide!Device,
       W!Exists, WorkerSide!Exists, W!HasRow, WorkerSide!HasRow, W!Goto, WorkerSide!Goto,
       W!SetRow, WorkerSide!SetRow, W!Fault, WorkerSide!Fault, W!bullVars,
       WorkerSide!bullVars, W!execVars, WorkerSide!execVars, W!rowVars, WorkerSide!rowVars,
       W!deviceVars, WorkerSide!deviceVars
  <2>1. W!WorkerNext
    BY DEF WorkerStep
  <2> QED
    BY <1>2, <1>3, <1>4, <1>5, <1>6, <1>7, <1>8, <1>9, <2>1, ExecSame
    DEF W!WorkerNext, W!Step, W!FaultyStep, WorkerSide!WorkerNext, WorkerSide!Step


\* To the gateway the worker writes device rows, publishes commands and
\* consumes results.
LEMMA WorkerStepForGateway == IInv /\ WorkerStep => G!Next \/ UNCHANGED G!vars
<1> SUFFICES ASSUME IInv, WorkerStep PROVE G!Next \/ UNCHANGED G!vars
  OBVIOUS
<1> DEFINE Quiet == commandBus' = commandBus /\ \A e \in issued : target'[e] = target[e]
           Rest  == UNCHANGED <<G!gatewayVars, commandBus, reported, addressee>>
           Idle  == Rest /\ UNCHANGED <<deviceStatus, deviceAgent, resultBus>>
           Drain == Rest /\ UNCHANGED <<deviceStatus, deviceAgent>> /\ resultBus' \in SUBSET resultBus
           Mark(d) == \E status \in {"ONLINE", "OFFLINE", "deleted"} :
                         /\ deviceStatus[d] # "deleted"
                         /\ deviceStatus' = [deviceStatus EXCEPT ![d] = status]
                         /\ Rest /\ UNCHANGED <<deviceAgent, resultBus>>
           Link(d) == \E a \in Agents :
                         /\ deviceStatus[d] # "deleted"
                         /\ deviceAgent' = [deviceAgent EXCEPT ![d] = a]
                         /\ Rest /\ UNCHANGED <<deviceStatus, resultBus>>
<1>1. Quiet /\ UNCHANGED reported => Rest
  BY QuietWorkerStep DEF WorkerStep, gatewayVars, G!gatewayVars, G!connVars, G!mapVars
<1>2. Idle => UNCHANGED G!vars
  BY DEF G!vars, G!dbVars
<1>3. Drain => G!Next
  BY DEF G!Drain, G!dbVars, G!Next
<1>4. ASSUME NEW d \in Devices, Mark(d) \/ Link(d)
      PROVE  G!Next
  BY <1>4 DEF G!DeviceChanges, G!Next
<1> USE DEF W!bullVars, W!execVars, W!rowVars, W!deviceVars, W!busVars, W!faultVars, W!Goto, W!SetRow, W!Fault
<1>5. ASSUME NEW j \in Jobs, W!Enqueue(j) \/ W!Take(j) \/ W!BackoffEnds(j) \/ W!Stall(j)
      PROVE  Idle
  BY <1>1, <1>5 DEF W!Enqueue, W!Take, W!BackoffEnds, W!Stall
<1>6. ASSUME NEW d \in Devices, W!DeleteDevice(d)
      PROVE  Mark(d)
  BY <1>1, <1>6 DEF W!DeleteDevice, W!Exists
<1>7. ASSUME NEW d \in Devices, NEW a \in Agents, W!LinkDeviceAgent(d, a)
      PROVE  Link(d)
  BY <1>1, <1>7 DEF W!LinkDeviceAgent, W!Exists
<1>8. ASSUME NEW e \in W!Exec, W!LoadDevice(e)
      PROVE  Idle
  <2>1. e \notin issued
    BY <1>8, LoadingNotIssued DEF W!LoadDevice
  <2>2. target \in [W!Exec -> Agents \cup {NoAgent}] /\ issued \subseteq W!Exec
    BY DEF IInv, TypeOK, W!TypeOK
  <2>3. target' = target \/ target' = [target EXCEPT ![e] = deviceAgent[W!Device(e)]]
    BY <1>8 DEF W!LoadDevice
  <2>4. \A x \in issued : target'[x] = target[x]
    BY <2>1, <2>2, <2>3
  <2> QED
    BY <1>1, <1>8, <2>4 DEF W!LoadDevice
<1>9. ASSUME NEW e \in W!Exec,
             \/ W!EmptyPackage(e) \/ W!CreateSyncJob(e) \/ W!CreateFails(e) \/ W!Timeout(e)
             \/ W!Complete(e) \/ W!Fail(e) \/ W!DatabaseFails(e) \/ W!CreateUnacknowledged(e)
      PROVE  Idle
  BY <1>1, <1>9 DEF W!EmptyPackage, W!CreateSyncJob, W!CreateFails, W!Timeout, W!Complete, W!Fail,
     W!DatabaseFails, W!CreateUnacknowledged
<1>10. ASSUME NEW e \in W!Exec, W!CommitSuccess(e) \/ W!CommitUnacknowledged(e) \/ W!RecordError(e)
       PROVE  Idle \/ \E d \in Devices : Mark(d)
  <2>1. W!Device(e) \in Devices
    BY SystemAssumption DEF W!Device, W!Exec
  <2>2. W!HasRow(e) => deviceStatus[W!Device(e)] # "deleted"
    BY ExecSame DEF IInv, WorkerSide!IInv, WorkerSide!RowFollowsPc, WorkerSide!HasRow, W!HasRow,
       WorkerSide!Exists, WorkerSide!Device, W!Device
  <2>3. Rest /\ UNCHANGED <<deviceAgent, resultBus>>
    BY <1>1, <1>10 DEF W!CommitSuccess, W!CreateUnacknowledged, W!CommitUnacknowledged, W!RecordError
  <2>4. CASE W!HasRow(e)
    <3>1. \E status \in {"ONLINE", "OFFLINE", "deleted"} :
             deviceStatus' = [deviceStatus EXCEPT ![W!Device(e)] = status]
      BY <1>10, <2>4 DEF W!CommitSuccess, W!CreateUnacknowledged, W!CommitUnacknowledged, W!RecordError
    <3>2. Mark(W!Device(e))
      BY <2>2, <2>3, <2>4, <3>1
    <3> QED
      BY <2>1, <3>2
  <2>5. CASE ~W!HasRow(e)
    BY <1>10, <2>3, <2>5 DEF W!CommitSuccess, W!CreateUnacknowledged, W!CommitUnacknowledged, W!RecordError
  <2> QED
    BY <2>4, <2>5
<1>11. ASSUME (\E r \in resultBus : W!ReceiveResult(r)) \/ W!Crash \/ \E e \in W!Exec : W!OrphanTimeout(e)
       PROVE  Drain
  BY <1>1, <1>11 DEF W!ReceiveResult, W!Crash, W!OrphanTimeout, W!Die
<1>12. ASSUME NEW e \in W!Exec, W!Publish(e) \/ W!PublishFails(e)
       PROVE  G!Next \/ UNCHANGED G!vars
  BY <1>12, PublicationMaps
<1> QED
  <2> HIDE DEF Idle, Drain, Mark, Link
  <2>1. W!WorkerNext
    BY DEF WorkerStep
  <2> QED
    BY <1>2, <1>3, <1>4, <1>5, <1>6, <1>7, <1>8, <1>9, <1>10, <1>11, <1>12, <2>1
    DEF W!WorkerNext, W!Step, W!FaultyStep

-----------------------------------------------------------------------------
(* The steps of the gateway, the channels and the agents.                  *)

\* Unless it publishes a result or marks devices, the other side does nothing
\* the worker can see.
LEMMA UnseenByWorker ==
    ASSUME UNCHANGED <<workerVars, issued, answers, deviceStatus, deviceAgent, resultBus, reported>>
    PROVE  UNCHANGED WorkerSide!vars
<1>1. outstanding' = outstanding
  BY NothingNew DEF workerVars
<1> QED
  BY <1>1 DEF workerVars, WorkerSide!vars, WorkerSide!bullVars, WorkerSide!execVars, WorkerSide!rowVars,
     WorkerSide!deviceVars, WorkerSide!busVars, WorkerSide!faultVars

\* The answer to a command takes it out of what can still be answered.
LEMMA AnswerMaps ==
    ASSUME IInv, UNCHANGED <<workerVars, issued, deviceStatus, deviceAgent>>,
           NEW m \in outstanding, NEW ok \in BOOLEAN, NEW by,
           G!PublishResult(m.corr, ok, by),
           reported' = IF ok THEN reported \cup {m.corr} ELSE reported
    PROVE  WorkerSide!Next
<1>1. /\ m \in [corr : W!Exec, agent : Agents] /\ m.corr \in W!Exec
      /\ m.corr \in issued /\ m.agent = target[m.corr] /\ answers[m.corr] = 0
  BY DEF outstanding
<1>2. answers \in [W!Exec -> 0 .. 2] /\ answers' = [answers EXCEPT ![m.corr] = 1]
  BY <1>1 DEF IInv, G!IInv, G!TypeOK, G!PublishResult
<1>3. outstanding' = outstanding \ {m}
  <2>1. ASSUME NEW x \in [corr : W!Exec, agent : Agents]
        PROVE  x \in outstanding' <=> x \in outstanding /\ x # m
    <3>1. CASE x.corr = m.corr
      <4>1. x \notin outstanding'
        BY <1>1, <1>2, <3>1 DEF outstanding
      <4>2. x \in outstanding => x = m
        BY <1>1, <3>1 DEF outstanding
      <4> QED
        BY <4>1, <4>2
    <3>2. CASE x.corr # m.corr
      BY <1>2, <3>2 DEF outstanding, workerVars
    <3> QED
      BY <3>1, <3>2
  <2>2. /\ outstanding \subseteq [corr : W!Exec, agent : Agents]
        /\ outstanding' \subseteq [corr : W!Exec, agent : Agents]
    BY DEF outstanding
  <2> QED
    BY <2>1, <2>2
<1>4. WorkerSide!Answer(m, ok)
  BY <1>3 DEF WorkerSide!Answer, G!PublishResult, workerVars, WorkerSide!bullVars, WorkerSide!execVars,
     WorkerSide!rowVars, WorkerSide!deviceVars, WorkerSide!faultVars
<1> QED
  BY <1>4 DEF WorkerSide!Next, WorkerSide!OtherNext

LEMMA GatewayStepForWorker ==
    IInv /\ GatewayStep => WorkerSide!Next \/ UNCHANGED WorkerSide!vars
<1> SUFFICES ASSUME IInv, GatewayStep PROVE WorkerSide!Next \/ UNCHANGED WorkerSide!vars
  OBVIOUS
<1>1. UNCHANGED <<workerVars, agentVars, issued>> /\ G!GatewayNext
  BY DEF GatewayStep
<1> DEFINE Unseen == UNCHANGED <<answers, deviceStatus, deviceAgent, resultBus, reported>>
<1>2. ASSUME Unseen PROVE UNCHANGED WorkerSide!vars
  BY <1>1, <1>2, UnseenByWorker
<1>3. ASSUME NEW s \in Sockets,
             \/ G!Authenticated(s) \/ G!HeartbeatRecorded(s) \/ G!Disconnect(s)
             \/ G!Heartbeat(s) \/ G!HeartbeatTouch(s) \/ G!DevicesDiscovered(s)
      PROVE  Unseen
  BY <1>3 DEF G!Authenticated, G!HeartbeatRecorded, G!Disconnect, G!Heartbeat, G!HeartbeatTouch,
     G!DevicesDiscovered, G!dbVars
<1>4. ASSUME (\E a \in Agents : G!TouchExpires(a)) \/ (\E m \in commandBus : G!ForwardCommand(m)) \/ G!Restart
      PROVE  Unseen
  BY <1>4 DEF G!TouchExpires, G!ForwardCommand, G!Restart, G!dbVars
<1>5. ASSUME NEW w \in dbWrites, G!ApplyWrite(w)
      PROVE  WorkerSide!Next
  <2>1. w.agent \in Agents /\ w.status \in {"ONLINE", "OFFLINE"}
    BY DEF IInv, G!IInv, G!TypeOK, G!Write
  <2>2. UNCHANGED <<answers, deviceAgent, resultBus, reported, outstanding>>
    BY <1>1, <1>5, NothingNew DEF G!ApplyWrite, workerVars
  <2>3. WorkerSide!TouchDevices(w.agent, w.status)
    BY <1>1, <1>5, <2>2 DEF G!ApplyWrite, WorkerSide!TouchDevices, WorkerSide!Exists, workerVars,
       WorkerSide!bullVars, WorkerSide!execVars, WorkerSide!rowVars, WorkerSide!busVars, WorkerSide!faultVars
  <2> QED
    BY <2>1, <2>3 DEF WorkerSide!Next, WorkerSide!OtherNext
<1>6. ASSUME NEW m \in commandBus, G!RefuseCommand(m)
      PROVE  WorkerSide!Next
  <2>1. m \in outstanding
    BY InFlightIssued
  <2>2. /\ UNCHANGED <<deviceStatus, deviceAgent, reported>>
        /\ G!PublishResult(m.corr, FALSE, Gateway)
    BY <1>6 DEF G!RefuseCommand, G!dbVars
  <2> QED
    BY <1>1, <2>1, <2>2, AnswerMaps
<1> QED
  <2> HIDE DEF Unseen
  <2> QED
    BY <1>1, <1>2, <1>3, <1>4, <1>5, <1>6 DEF G!GatewayNext

LEMMA LossForBoth ==
    IInv /\ (CommandLost \/ ResultLost)
        => /\ WorkerSide!Next \/ UNCHANGED WorkerSide!vars
           /\ G!Next
<1> SUFFICES ASSUME IInv PROVE CommandLost \/ ResultLost =>
                 (WorkerSide!Next \/ UNCHANGED WorkerSide!vars) /\ G!Next
  OBVIOUS
<1>1. ASSUME CommandLost PROVE UNCHANGED WorkerSide!vars /\ G!Next
  <2>1. /\ UNCHANGED <<workerVars, gatewayVars, deviceStatus, deviceAgent, resultBus, reported, issued>>
        /\ commandBus' \in SUBSET commandBus
    BY <1>1 DEF CommandLost
  <2>2. addressee' = addressee
    BY <2>1, NothingNew DEF workerVars
  <2>3. G!Drain
    BY <2>1, <2>2 DEF G!Drain, G!gatewayVars, G!connVars, G!mapVars, G!dbVars, gatewayVars
  <2> QED
    BY <2>1, <2>3, UnseenByWorker DEF G!Next, gatewayVars
<1>2. ASSUME ResultLost PROVE WorkerSide!Next /\ G!Next
  <2>1. /\ W!LoseResult /\ UNCHANGED <<gatewayVars, issued, target, commandBus, deviceStatus, deviceAgent,
                                       reported>>
        /\ resultBus' \in SUBSET resultBus
    BY <1>2 DEF ResultLost, W!LoseResult, W!execVars, W!deviceVars
  <2>2. addressee' = addressee /\ outstanding' = outstanding
    BY <2>1, NothingNew DEF gatewayVars
  <2>3. WorkerSide!LoseResult
    BY <2>1, <2>2 DEF W!LoseResult, WorkerSide!LoseResult, W!Fault, WorkerSide!Fault, W!bullVars,
       WorkerSide!bullVars, W!execVars, WorkerSide!execVars, W!rowVars, WorkerSide!rowVars,
       W!deviceVars, WorkerSide!deviceVars
  <2>4. G!Drain
    BY <2>1, <2>2 DEF G!Drain, G!gatewayVars, G!connVars, G!mapVars, G!dbVars, gatewayVars
  <2> QED
    BY <2>3, <2>4 DEF G!Next, WorkerSide!Next, WorkerSide!LoseMessage
<1> QED
  BY <1>1, <1>2

\* A result the gateway lets through answers a command that can still be
\* answered, on the connection of the agent it is addressed to.
LEMMA AcceptedAnswers ==
    ASSUME IInv, NEW s \in Sockets, NEW c \in W!Exec,
           socketAgent[s] # NoAgent, byCorrelation[c] = socketAgent[s]
    PROVE  /\ c \in issued /\ target[c] = token[s]
           /\ [corr |-> c, agent |-> target[c]] \in outstanding
<1>1. c \in issued /\ target[c] = byCorrelation[c] /\ answers[c] = 0
  BY InFlightIssued
<1>2. socketAgent[s] = token[s] /\ token[s] \in Agents
  BY DEF IInv, G!IInv, G!TypeOK, G!SocketsOwned
<1> QED
  BY <1>1, <1>2 DEF outstanding

LEMMA AgentStepForBoth ==
    IInv /\ AgentStep
        => /\ WorkerSide!Next \/ UNCHANGED WorkerSide!vars
           /\ G!Next \/ UNCHANGED G!vars
<1> DEFINE Both == /\ WorkerSide!Next \/ UNCHANGED WorkerSide!vars
                   /\ G!Next \/ UNCHANGED G!vars
<1> SUFFICES ASSUME IInv, AgentStep PROVE Both
  OBVIOUS
<1>1. ASSUME NEW a \in Agents, NEW s \in Sockets, AgentConnects(a, s) PROVE Both
  <2>1. UNCHANGED <<workerVars, issued>> /\ G!Connect(s, a)
    BY <1>1 DEF AgentConnects
  <2>2. G!Next
    BY <2>1 DEF G!Next
  <2>3. UNCHANGED WorkerSide!vars
    BY <2>1, UnseenByWorker DEF G!Connect, G!dbVars
  <2> QED
    BY <2>2, <2>3
<1>2. ASSUME UNCHANGED <<workerVars, gatewayVars, sharedVars, issued>> PROVE Both
  <2>1. UNCHANGED WorkerSide!vars
    BY <1>2, UnseenByWorker DEF sharedVars, gatewayVars
  <2>2. addressee' = addressee
    BY <1>2, NothingNew DEF workerVars
  <2>3. UNCHANGED G!vars
    BY <1>2, <2>2 DEF G!vars, G!gatewayVars, G!connVars, G!mapVars, G!dbVars, gatewayVars, sharedVars
  <2> QED
    BY <2>1, <2>3
<1>3. ASSUME NEW t \in outbox, AgentReports(t) PROVE Both
  <2> DEFINE s == carrier[t.agent]
             c == t.corr
  <2>1. /\ t.agent \in Agents /\ c \in W!Exec /\ t.ok \in BOOLEAN
        /\ UNCHANGED <<workerVars, issued>> /\ s \in Sockets
    BY <1>3 DEF AgentReports, IInv, TypeOK
  <2>2. CASE s \in open
    <3>1. G!SyncResult(s, c, t.ok)
      BY <1>3, <2>2 DEF AgentReports
    <3>2. G!Next
      BY <2>1, <3>1 DEF G!Next
    <3>3. CASE socketAgent[s] # NoAgent /\ byCorrelation[c] = socketAgent[s]
      <4> DEFINE m == [corr |-> c, agent |-> target[c]]
      <4>1. m \in outstanding /\ m.corr = c
        BY <2>1, <3>3, AcceptedAnswers
      <4>2. /\ G!PublishResult(c, t.ok, socketAgent[s])
            /\ reported' = (IF t.ok THEN reported \cup {c} ELSE reported)
            /\ UNCHANGED <<deviceStatus, deviceAgent>>
        BY <3>1, <3>3 DEF G!SyncResult, G!dbVars
      <4> HIDE DEF m, c
      <4>3. WorkerSide!Next
        BY <2>1, <4>1, <4>2, AnswerMaps
      <4> QED
        BY <3>2, <4>3
    <3>4. CASE ~(socketAgent[s] # NoAgent /\ byCorrelation[c] = socketAgent[s])
      <4>1. UNCHANGED <<answers, deviceStatus, deviceAgent, resultBus, reported>>
        BY <3>1, <3>4 DEF G!SyncResult, G!dbVars
      <4> QED
        BY <2>1, <3>2, <4>1, UnseenByWorker
    <3> QED
      BY <3>3, <3>4
  <2>3. CASE s \notin open
    BY <1>2, <1>3, <2>3 DEF AgentReports
  <2> QED
    BY <2>2, <2>3
<1>4. ASSUME NEW a \in Agents, ConnectionDrops(a) \/ AgentRestarts(a) PROVE Both
  BY <1>2, <1>4 DEF ConnectionDrops, AgentRestarts
<1>5. ASSUME NEW a \in Agents, NEW m \in delivered, AgentTakes(a, m) PROVE Both
  BY <1>2, <1>5 DEF AgentTakes
<1>6. ASSUME NEW t \in working, NEW ok \in BOOLEAN, AgentFinishes(t, ok) PROVE Both
  BY <1>2, <1>6 DEF AgentFinishes
<1> QED
  <2> HIDE DEF Both
  <2> QED
    BY <1>1, <1>3, <1>4, <1>5, <1>6 DEF AgentStep

-----------------------------------------------------------------------------
(* Every step of the system is one of each component, or none.             *)

LEMMA SystemStep ==
    IInv /\ [Next]_vars => [WorkerSide!Next]_(WorkerSide!vars) /\ [G!Next]_(G!vars)
<1> SUFFICES ASSUME IInv, [Next]_vars
             PROVE  [WorkerSide!Next]_(WorkerSide!vars) /\ [G!Next]_(G!vars)
  OBVIOUS
<1>1. CASE WorkerStep
  BY <1>1, WorkerStepForWorker, WorkerStepForGateway DEF WorkerSide!Next
<1>2. CASE GatewayStep
  BY <1>2, GatewayStepForWorker DEF GatewayStep, G!Next
<1>3. CASE CommandLost \/ ResultLost
  BY <1>3, LossForBoth
<1>4. CASE AgentStep
  BY <1>4, AgentStepForBoth
<1>5. CASE UNCHANGED vars
  <2>1. UNCHANGED <<workerVars, gatewayVars, sharedVars, issued>>
    BY <1>5 DEF vars
  <2>2. addressee' = addressee
    BY <2>1, NothingNew DEF workerVars
  <2>3. UNCHANGED G!vars
    BY <2>1, <2>2 DEF G!vars, G!gatewayVars, G!connVars, G!mapVars, G!dbVars, gatewayVars, sharedVars
  <2> QED
    BY <2>1, <2>3, UnseenByWorker DEF gatewayVars, sharedVars
<1> QED
  BY <1>1, <1>2, <1>3, <1>4, <1>5 DEF Next

-----------------------------------------------------------------------------
(* What ties the two components to the agents.                             *)

\* An execution that has published stays past its publication, with the agent
\* it was aimed at.
LEMMA WorkerAims ==
    ASSUME IInv, WorkerStep
    PROVE  /\ issued \subseteq issued' /\ issued' \subseteq W!Exec
           /\ \A e \in issued : target'[e] = target[e]
           /\ IssuedIsAimed'
<1> DEFINE Early  == {"none", "loading", "packaging", "publishing"}
           Kept   == /\ issued' = issued
                     /\ \A e \in issued : target'[e] = target[e] /\ pc'[e] \notin Early
<1> USE DEF IInv, TypeOK, W!TypeOK, IssuedIsAimed
<1>1. /\ issued \subseteq W!Exec /\ pc \in [W!Exec -> W!Pc] /\ target \in [W!Exec -> Agents \cup {NoAgent}]
      /\ \A e \in issued : pc[e] \notin Early /\ target[e] # NoAgent
  OBVIOUS
<1>2. commandBus' = commandBus => issued' = issued
  BY InFlightIssued DEF WorkerStep
<1>3. Kept => /\ issued \subseteq issued' /\ issued' \subseteq W!Exec
              /\ \A e \in issued : target'[e] = target[e]
              /\ IssuedIsAimed'
  BY <1>1
<1> DEFINE Goes(e) == \E where \in W!Pc : /\ where \notin Early \/ pc[e] \in Early
                                          /\ pc' = [pc EXCEPT ![e] = where]
           Still   == commandBus' = commandBus /\ target' = target
<1>4. ASSUME NEW e \in W!Exec, Goes(e), Still PROVE Kept
  BY <1>1, <1>2, <1>4
<1>5. ASSUME Still, pc' = pc \/ pc' = [e \in W!Exec |-> IF W!Live(e) THEN "abandoned" ELSE pc[e]]
      PROVE  Kept
  BY <1>1, <1>2, <1>5
<1> USE DEF W!busVars, W!faultVars, W!execVars, W!Goto, W!Pc, W!LivePc
<1>6. ASSUME NEW j \in Jobs, W!Enqueue(j) \/ W!BackoffEnds(j) \/ W!Stall(j) PROVE Kept
  BY <1>5, <1>6 DEF W!Enqueue, W!BackoffEnds, W!Stall
<1>7. ASSUME NEW j \in Jobs, W!Take(j) PROVE Kept
  <2> DEFINE n == runs[j] + 1
  <2>1. pc' = [pc EXCEPT ![<<j, n>>] = "loading"] /\ Still
    BY <1>7 DEF W!Take
  <2>2. runs[j] \in Nat /\ <<j, n>> \notin issued
    <3>1. runs[j] \in 0 .. W!MaxRuns /\ W!MaxRuns \in Nat
      BY SystemAssumption DEF W!MaxRuns
    <3>2. ASSUME <<j, n>> \in W!Exec PROVE pc[<<j, n>>] = "none"
      <4>1. n \in W!Runs /\ n > runs[j]
        BY <3>1, <3>2 DEF W!Exec
      <4>2. n \in WorkerSide!Runs
        BY <4>1 DEF W!Runs, WorkerSide!Runs, W!MaxRuns, WorkerSide!MaxRuns
      <4> QED
        BY <4>1, <4>2 DEF WorkerSide!IInv, WorkerSide!FreshRuns
    <3> QED
      BY <1>1, <3>1, <3>2
  <2> HIDE DEF n
  <2> QED
    BY <1>1, <1>2, <2>1, <2>2
<1>8. ASSUME NEW d \in Devices, W!DeleteDevice(d) \/ \E a \in Agents : W!LinkDeviceAgent(d, a) PROVE Kept
  BY <1>5, <1>8 DEF W!DeleteDevice, W!LinkDeviceAgent
<1>9. ASSUME NEW e \in W!Exec, W!LoadDevice(e) PROVE Kept
  <2>1. e \notin issued /\ commandBus' = commandBus
    BY <1>1, <1>9 DEF W!LoadDevice
  <2>2. /\ \E where : pc' = [pc EXCEPT ![e] = where]
        /\ target' = target \/ \E a : target' = [target EXCEPT ![e] = a]
    BY <1>9 DEF W!LoadDevice
  <2> QED
    BY <1>1, <1>2, <2>1, <2>2
<1>10. ASSUME NEW e \in W!Exec, W!EmptyPackage(e) \/ W!CreateSyncJob(e) \/ W!CreateFails(e) PROVE Kept
  <2>1. Still
    BY <1>10 DEF W!EmptyPackage, W!CreateSyncJob, W!CreateFails
  <2>2. Goes(e)
    BY <1>10 DEF W!EmptyPackage, W!CreateSyncJob, W!CreateFails
  <2> QED
    BY <1>4, <2>1, <2>2
<1>11. ASSUME NEW e \in W!Exec,
              \/ W!Timeout(e) \/ W!CommitSuccess(e) \/ W!RecordError(e) \/ W!Complete(e) \/ W!Fail(e)
              \/ W!CommitUnacknowledged(e) \/ W!DatabaseFails(e) \/ W!CreateUnacknowledged(e)
       PROVE  Kept
  <2>1. Still
    BY <1>11 DEF W!Timeout, W!CommitSuccess, W!RecordError, W!Complete, W!Fail, W!CreateUnacknowledged, W!CommitUnacknowledged,
       W!DatabaseFails
  <2>2. Goes(e)
    BY <1>11 DEF W!Timeout, W!CommitSuccess, W!RecordError, W!Complete, W!Fail, W!CreateUnacknowledged, W!CommitUnacknowledged,
       W!DatabaseFails
  <2> QED
    BY <1>4, <2>1, <2>2
<1>12. ASSUME W!Crash \/ \E e \in W!Exec : W!OrphanTimeout(e) PROVE Kept
  BY <1>5, <1>12 DEF W!Crash, W!OrphanTimeout, W!Die
<1>13. ASSUME NEW r \in resultBus, W!ReceiveResult(r) PROVE Kept
  <2>1. r.corr \in W!Exec /\ Still
    BY <1>13 DEF W!ReceiveResult, W!Result
  <2>2. pc' = pc \/ Goes(r.corr)
    BY <1>13 DEF W!ReceiveResult
  <2> QED
    BY <1>4, <1>5, <2>1, <2>2
<1>14. ASSUME NEW e \in W!Exec, W!Publish(e) \/ W!PublishFails(e)
       PROVE  /\ issued \subseteq issued' /\ issued' \subseteq issued \cup {e}
              /\ target' = target /\ target[e] # NoAgent
              /\ \E where : where \notin Early /\ pc' = [pc EXCEPT ![e] = where]
  <2> DEFINE m == [corr |-> e, agent |-> target[e]]
  <2>1. commandBus' = commandBus \/ commandBus' = commandBus \cup {m}
    BY <1>14 DEF W!Publish, W!PublishFails
  <2>2. m.corr = e /\ \A c \in commandBus : c.corr \in issued
    BY InFlightIssued
  <2>3. issued' = issued \cup {c.corr : c \in commandBus'}
    BY DEF WorkerStep
  <2>4. issued \subseteq issued' /\ issued' \subseteq issued \cup {e}
    <3> HIDE DEF m
    <3> QED
      BY <2>1, <2>2, <2>3
  <2>5. target[e] # NoAgent
    BY <1>14, ExecSame DEF W!Publish, W!PublishFails, WorkerSide!IInv, WorkerSide!TargetKnown
  <2> QED
    BY <1>14, <2>4, <2>5 DEF W!Publish, W!PublishFails
<1>15. ASSUME NEW e \in W!Exec, W!Publish(e) \/ W!PublishFails(e)
       PROVE  /\ issued \subseteq issued' /\ issued' \subseteq W!Exec
              /\ \A x \in issued : target'[x] = target[x]
              /\ IssuedIsAimed'
  BY <1>1, <1>14, <1>15
<1> QED
  <2> HIDE DEF Kept
  <2>1. W!WorkerNext
    BY DEF WorkerStep
  <2> QED
    BY <1>3, <1>6, <1>7, <1>8, <1>9, <1>10, <1>11, <1>12, <1>13, <1>15, <2>1
    DEF W!WorkerNext, W!Step, W!FaultyStep

LEMMA AimKept ==
    ASSUME IInv, [Next]_vars
    PROVE  /\ issued \subseteq issued' /\ issued' \subseteq W!Exec
           /\ \A e \in issued : target'[e] = target[e]
           /\ IssuedIsAimed'
<1>1. CASE WorkerStep
  BY <1>1, WorkerAims
<1>2. CASE ~WorkerStep
  <2>1. UNCHANGED <<pc, target, issued>>
    BY <1>2 DEF Next, vars, workerVars, GatewayStep, CommandLost, ResultLost, AgentStep, AgentConnects,
       ConnectionDrops, AgentTakes, AgentFinishes, AgentReports, AgentRestarts, W!LoseResult, W!execVars
  <2> QED
    BY <2>1 DEF IInv, TypeOK, IssuedIsAimed
<1> QED
  BY <1>1, <1>2

\* A connection keeps the token it presented.
LEMMA ConnectionsKept ==
    ASSUME IInv, [G!Next]_(G!vars), NEW s \in Sockets, phase[s] # "unused"
    PROVE  token'[s] = token[s] /\ phase'[s] # "unused"
<1> USE DEF G!connVars, G!mapVars, G!gatewayVars, G!vars
<1>1. phase \in [Sockets -> G!Phase] /\ token \in [Sockets -> Agents \cup {NoAgent}]
  BY DEF IInv, G!IInv, G!TypeOK
<1>2. CASE UNCHANGED <<phase, token>>
  BY <1>2
<1>3. ASSUME NEW x \in Sockets, G!Authenticated(x) \/ G!HeartbeatRecorded(x)
      PROVE  /\ token' = token
             /\ \E p : p # "unused" /\ phase' = [phase EXCEPT ![x] = p]
  BY <1>3 DEF G!Authenticated, G!HeartbeatRecorded
<1>4. ASSUME NEW x \in Sockets, NEW a \in Agents \cup {NoAgent}, G!Connect(x, a)
      PROVE  /\ phase[x] = "unused"
             /\ token' = [token EXCEPT ![x] = a] /\ phase' = [phase EXCEPT ![x] = "authenticating"]
  BY <1>4 DEF G!Connect
<1>5. ASSUME NEW x \in Sockets, G!Disconnect(x) \/ G!Heartbeat(x) \/ G!HeartbeatTouch(x) \/ G!DevicesDiscovered(x)
      PROVE  UNCHANGED <<phase, token>>
  BY <1>5 DEF G!Disconnect, G!Heartbeat, G!HeartbeatTouch, G!DevicesDiscovered
<1>6. ASSUME \/ \E a \in Agents : G!TouchExpires(a)
             \/ \E w \in dbWrites : G!ApplyWrite(w)
             \/ \E m \in commandBus : G!RefuseCommand(m) \/ G!ForwardCommand(m)
      PROVE  UNCHANGED <<phase, token>>
  BY <1>6 DEF G!TouchExpires, G!ApplyWrite, G!RefuseCommand, G!ForwardCommand
<1>7. ASSUME G!Restart
      PROVE  /\ token' = token
             /\ phase' = [x \in Sockets |-> IF phase[x] = "unused" THEN "unused" ELSE "rejected"]
  BY <1>7 DEF G!Restart
<1>8. ASSUME \/ \E x \in Sockets, c \in W!Exec, ok \in BOOLEAN : G!SyncResult(x, c, ok)
             \/ \E c \in W!Exec, a \in Agents : G!Issue(c, a)
             \/ G!Drain
             \/ \E d \in Devices : G!DeviceChanges(d)
      PROVE  UNCHANGED <<phase, token>>
  BY <1>8 DEF G!SyncResult, G!Issue, G!Drain, G!DeviceChanges
<1> QED
  BY <1>1, <1>2, <1>3, <1>4, <1>5, <1>6, <1>7, <1>8 DEF G!Next, G!GatewayNext

LEMMA CarrierOwnedKept == IInv /\ [Next]_vars => CarrierOwned'
<1> SUFFICES ASSUME IInv, [Next]_vars, NEW a \in Agents, carrier'[a] # NoSocket
             PROVE  token'[carrier'[a]] = a /\ phase'[carrier'[a]] # "unused"
  BY DEF CarrierOwned
<1>1. /\ carrier \in [Agents -> Sockets \cup {NoSocket}]
      /\ carrier[a] # NoSocket => token[carrier[a]] = a /\ phase[carrier[a]] # "unused"
  BY DEF IInv, TypeOK, CarrierOwned
<1>2. CASE carrier'[a] = carrier[a]
  BY <1>1, <1>2, SystemStep, ConnectionsKept
<1>3. CASE carrier'[a] # carrier[a]
  <2>1. PICK b \in Agents, s \in Sockets : AgentConnects(b, s)
    <3>1. ASSUME NEW b \in Agents, carrier' = [carrier EXCEPT ![b] = NoSocket] PROVE FALSE
      BY <1>1, <1>3, <3>1
    <3> QED
      BY <1>3, <3>1 DEF Next, vars, agentVars, WorkerStep, GatewayStep, CommandLost, ResultLost, AgentStep,
         ConnectionDrops, AgentTakes, AgentFinishes, AgentReports, AgentRestarts
  <2>2. a = b /\ carrier'[a] = s /\ G!Connect(s, a)
    BY <1>1, <1>3, <2>1 DEF AgentConnects
  <2>3. token \in [Sockets -> Agents \cup {NoAgent}] /\ phase \in [Sockets -> G!Phase]
    BY DEF IInv, G!IInv, G!TypeOK
  <2> QED
    BY <2>2, <2>3 DEF G!Connect
<1> QED
  BY <1>2, <1>3

\* What an agent sends on was accepted by the scale before.
LEMMA OkWasAcceptedKept ==
    IInv /\ [Next]_vars => OkWasAccepted' /\ written \subseteq written'
<1> SUFFICES ASSUME IInv, [Next]_vars PROVE OkWasAccepted' /\ written \subseteq written'
  OBVIOUS
<1> USE DEF IInv, OkWasAccepted
<1>1. ASSUME outbox' \subseteq outbox, written' = written
      PROVE  OkWasAccepted' /\ written \subseteq written'
  BY <1>1
<1>2. ASSUME NEW t \in working, NEW ok \in BOOLEAN, AgentFinishes(t, ok)
      PROVE  OkWasAccepted' /\ written \subseteq written'
  <2>1. t = [agent |-> t.agent, corr |-> t.corr]
    BY DEF TypeOK, Task
  <2>2. /\ outbox' = outbox \cup {[agent |-> t.agent, corr |-> t.corr, ok |-> ok]}
        /\ written \subseteq written'
        /\ ok => t \in written'
    BY <1>2 DEF AgentFinishes
  <2>3. ASSUME NEW r \in outbox', r.ok PROVE [agent |-> r.agent, corr |-> r.corr] \in written'
    <3>1. CASE r \in outbox
      BY <2>2, <2>3, <3>1
    <3>2. CASE r = [agent |-> t.agent, corr |-> t.corr, ok |-> ok]
      BY <2>1, <2>2, <2>3, <3>2
    <3> QED
      BY <2>2, <3>1, <3>2
  <2> QED
    BY <2>2, <2>3
<1> QED
  BY <1>1, <1>2 DEF Next, vars, agentVars, WorkerStep, GatewayStep, CommandLost, ResultLost, AgentStep,
     AgentConnects, ConnectionDrops, AgentTakes, AgentReports, AgentRestarts

\* The worker takes reports, it makes none.
LEMMA WorkerReportsNothing == WorkerStep => reported' = reported
  BY DEF WorkerStep, W!WorkerNext, W!Step, W!FaultyStep, W!busVars, W!faultVars, W!Enqueue, W!Take, W!BackoffEnds,
     W!Stall, W!DeleteDevice, W!LinkDeviceAgent, W!LoadDevice, W!EmptyPackage, W!CreateSyncJob,
     W!CreateFails, W!Publish, W!PublishFails, W!Timeout, W!CommitSuccess, W!RecordError, W!Complete,
     W!Fail, W!OrphanTimeout, W!DatabaseFails, W!CreateUnacknowledged, W!CommitUnacknowledged, W!ReceiveResult, W!Crash, W!Die

\* An ok gets through only on the connection of the agent addressed, whose
\* scale had taken that very command.
LEMMA ReportedWasWrittenKept == IInv /\ [Next]_vars => ReportedWasWritten'
<1> SUFFICES ASSUME IInv, [Next]_vars, NEW e \in reported'
             PROVE  e \in issued' /\ [agent |-> target'[e], corr |-> e] \in written'
  BY DEF ReportedWasWritten
<1>1. written \subseteq written' /\ issued \subseteq issued' /\ \A x \in issued : target'[x] = target[x]
  BY OkWasAcceptedKept, AimKept
<1>2. CASE e \in reported
  BY <1>1, <1>2 DEF IInv, ReportedWasWritten
<1>3. CASE e \notin reported
  <2>1. PICK t \in outbox : AgentReports(t)
    <3>1. reported' # reported
      BY <1>3
    <3>2. ~WorkerStep
      BY <3>1, WorkerReportsNothing
    <3>3. ~GatewayStep
      BY <3>1 DEF GatewayStep, G!GatewayNext, G!Authenticated, G!HeartbeatRecorded, G!Disconnect,
         G!Heartbeat, G!HeartbeatTouch, G!DevicesDiscovered, G!TouchExpires, G!ApplyWrite,
         G!RefuseCommand, G!ForwardCommand, G!Restart
    <3> QED
      BY <3>1, <3>2, <3>3 DEF Next, vars, sharedVars, CommandLost, ResultLost, W!LoseResult, AgentStep,
         AgentConnects, G!Connect, ConnectionDrops, AgentTakes, AgentFinishes, AgentRestarts
  <2> DEFINE s == carrier[t.agent]
  <2>2. /\ s \in Sockets /\ s # NoSocket /\ t.agent \in Agents /\ t.corr \in W!Exec
        /\ token[s] = t.agent
    BY <2>1 DEF AgentReports, IInv, TypeOK, CarrierOwned
  <2>3. /\ socketAgent[s] # NoAgent /\ byCorrelation[t.corr] = socketAgent[s]
        /\ t.ok /\ e = t.corr
    BY <1>3, <2>1 DEF AgentReports, G!SyncResult, sharedVars
  <2>4. e \in issued /\ target[e] = t.agent
    BY <2>2, <2>3, AcceptedAnswers
  <2>5. [agent |-> target[e], corr |-> e] \in written
    BY <2>3, <2>4 DEF IInv, OkWasAccepted
  <2> QED
    BY <1>1, <2>4, <2>5
<1> QED
  BY <1>2, <1>3

LEMMA TypeKept == IInv /\ [Next]_vars /\ WorkerSide!IInv' /\ G!IInv' => TypeOK'
<1> SUFFICES ASSUME IInv, [Next]_vars, WorkerSide!IInv', G!IInv' PROVE TypeOK'
  OBVIOUS
<1>1. W!TypeOK' /\ G!TypeOK'
  <2>1. WorkerSide!TypeOK' /\ G!TypeOK'
    BY DEF WorkerSide!IInv, G!IInv
  <2>2. commandBus' \subseteq W!Command
    BY <2>1 DEF G!TypeOK, G!Command, W!Command
  <2> QED
    BY <2>1, <2>2 DEF W!TypeOK, WorkerSide!TypeOK, W!MaxRuns, WorkerSide!MaxRuns, W!Runs, WorkerSide!Runs,
       W!Exec, WorkerSide!Exec, W!QueueState, WorkerSide!QueueState, W!Pc, WorkerSide!Pc, W!LivePc,
       WorkerSide!LivePc, W!RowStatus, WorkerSide!RowStatus, W!ItemStatus, WorkerSide!ItemStatus,
       W!DeviceStatus, WorkerSide!DeviceStatus, W!Result, WorkerSide!Result
<1>2. issued' \subseteq W!Exec
  BY AimKept
<1>3. /\ carrier' \in [Agents -> Sockets \cup {NoSocket}]
      /\ taken' \subseteq W!Exec
      /\ working' \subseteq Task
      /\ outbox' \subseteq [agent : Agents, corr : W!Exec, ok : BOOLEAN]
      /\ written' \subseteq Task
  <2> DEFINE AgentsTyped == /\ carrier' \in [Agents -> Sockets \cup {NoSocket}]
                            /\ taken' \subseteq W!Exec
                            /\ working' \subseteq Task
                            /\ outbox' \subseteq [agent : Agents, corr : W!Exec, ok : BOOLEAN]
                            /\ written' \subseteq Task
  <2> USE DEF IInv, TypeOK
  <2>1. CASE UNCHANGED agentVars
    BY <2>1 DEF agentVars
  <2>2. ASSUME NEW a \in Agents, NEW s \in Sockets, AgentConnects(a, s) PROVE AgentsTyped
    BY <2>2 DEF AgentConnects
  <2>3. ASSUME NEW a \in Agents, ConnectionDrops(a) \/ AgentRestarts(a) PROVE AgentsTyped
    BY <2>3 DEF ConnectionDrops, AgentRestarts
  <2>4. ASSUME NEW a \in Agents, NEW m \in delivered, AgentTakes(a, m) PROVE AgentsTyped
    <3>1. m.corr \in W!Exec
      BY DEF G!TypeOK
    <3> QED
      BY <2>4, <3>1 DEF AgentTakes, Task
  <2>5. ASSUME NEW t \in working, NEW ok \in BOOLEAN, AgentFinishes(t, ok) PROVE AgentsTyped
    <3>1. t.agent \in Agents /\ t.corr \in W!Exec
      BY DEF Task
    <3> QED
      BY <2>5, <3>1 DEF AgentFinishes
  <2>6. ASSUME NEW t \in outbox, AgentReports(t) PROVE AgentsTyped
    BY <2>6 DEF AgentReports
  <2>7. AgentStep => AgentsTyped
    <3> HIDE DEF AgentsTyped, IInv, TypeOK
    <3> QED
      BY <2>2, <2>3, <2>4, <2>5, <2>6 DEF AgentStep
  <2>8. ~AgentStep => UNCHANGED agentVars
    BY DEF Next, vars, WorkerStep, GatewayStep, CommandLost, ResultLost
  <2> QED
    BY <2>1, <2>7, <2>8
<1> QED
  BY <1>1, <1>2, <1>3 DEF TypeOK

LEMMA StepPreserves == IInv /\ [Next]_vars => IInv'
<1> SUFFICES ASSUME IInv, [Next]_vars PROVE IInv'
  OBVIOUS
<1>1. WorkerSide!IInv'
  BY SystemStep, WorkerKeeps DEF IInv
<1>2. G!IInv'
  BY SystemStep, GatewayKeeps DEF IInv
<1> QED
  BY <1>1, <1>2, TypeKept, CarrierOwnedKept, AimKept, OkWasAcceptedKept, ReportedWasWrittenKept DEF IInv

LEMMA InitMaps == Init => WorkerSide!Init /\ G!Init
<1> SUFFICES ASSUME Init PROVE WorkerSide!Init /\ G!Init
  OBVIOUS
<1>1. outstanding = {}
  BY DEF Init, outstanding
<1> QED
  BY <1>1 DEF Init, W!Init, WorkerSide!Init, W!Exec, WorkerSide!Exec, W!Runs, WorkerSide!Runs, W!MaxRuns,
     WorkerSide!MaxRuns

LEMMA InitHolds == Init => IInv
<1> SUFFICES ASSUME Init PROVE IInv
  OBVIOUS
<1>1. WorkerSide!IInv
  BY InitMaps, WorkerInitSame, WorkerInvSame, OnWorker!InitHolds, SystemAssumption DEF W!AllFaults,
     OnWorker!AllFaults
<1>2. G!IInv
  BY InitMaps, GatewayInitSame, GatewayInvSame, OnGateway!InitHolds, SystemAssumption
<1>3. TypeOK
  <2>1. W!TypeOK
    BY <1>1 DEF WorkerSide!IInv, Init, W!Init, W!TypeOK, WorkerSide!TypeOK, W!MaxRuns, WorkerSide!MaxRuns,
       W!Runs, WorkerSide!Runs, W!Exec, WorkerSide!Exec, W!QueueState, WorkerSide!QueueState, W!Pc,
       WorkerSide!Pc, W!LivePc, WorkerSide!LivePc, W!RowStatus, WorkerSide!RowStatus, W!ItemStatus,
       WorkerSide!ItemStatus, W!DeviceStatus, WorkerSide!DeviceStatus, W!Result, WorkerSide!Result
  <2> QED
    BY <1>2, <2>1 DEF TypeOK, G!IInv, Init
<1> QED
  BY <1>1, <1>2, <1>3 DEF IInv, Init, W!Init, CarrierOwned, IssuedIsAimed, OkWasAccepted, ReportedWasWritten

-----------------------------------------------------------------------------
(* Theorems.                                                               *)

\* The two components' invariants hold of the composition, with what ties them
\* to the agents' connections and outboxes.
THEOREM Invariant == Spec => []IInv
  BY InitHolds, StepPreserves, PTL DEF Spec

\* The state of worker, gateway and agents is always of its type.
THEOREM TypeCorrect == Spec => []TypeOK
<1>1. IInv => TypeOK
  BY DEF IInv
<1> QED
  BY <1>1, Invariant, PTL

\* Whatever is lost, delayed, retried or restarted between the processor
\* (processor.ts:212-231), the gateway (agent.gateway.ts:276-284) and the agent,
\* a row says SUCCESS only after the scale of the agent addressed took that
\* very command.
THEOREM SuccessIsWritten == Spec => []SuccessWasWritten
<1>1. IInv => SuccessWasWritten
  BY ExecSame DEF IInv, WorkerSide!IInv, WorkerSide!SuccessWasReported, ReportedWasWritten, SuccessWasWritten
<1> QED
  BY <1>1, Invariant, PTL

\* Gateway and agents together are the other side the worker was checked
\* against: they answer a published command once, late or never.
THEOREM WorkerIsRefined == Spec => WorkerRefined
<1>1. Init => WorkerSide!Init
  BY InitMaps
<1>2. IInv /\ [Next]_vars => [WorkerSide!Next]_(WorkerSide!vars)
  BY SystemStep
<1> QED
  BY <1>1, <1>2, Invariant, PTL DEF Spec, WorkerRefined, WorkerSide!Spec

\* Worker and honest agents are an environment the gateway was checked in: each
\* correlationId carries one command to one agent.
THEOREM GatewayIsRefined == Spec => GatewayRefined
<1>1. Init => G!Init
  BY InitMaps
<1>2. IInv /\ [Next]_vars => [G!Next]_(G!vars)
  BY SystemStep
<1> QED
  BY <1>1, <1>2, Invariant, PTL DEF Spec, GatewayRefined, G!Spec

-----------------------------------------------------------------------------
(* The promise to the readers of the rows, with the scale's word in place  *)
(* of the report.                                                          *)

\* Only a publication puts a command on the channel, and it leaves the rows alone.
LEMMA PublicationsOnly ==
    ASSUME WorkerStep, commandBus' # commandBus
    PROVE  \E e \in W!Exec : W!Publish(e) \/ W!PublishFails(e)
  BY DEF WorkerStep, W!WorkerNext, W!Step, W!FaultyStep, W!busVars, W!faultVars, W!Enqueue, W!Take, W!BackoffEnds,
     W!Stall, W!DeleteDevice, W!LinkDeviceAgent, W!LoadDevice, W!EmptyPackage, W!CreateSyncJob,
     W!CreateFails, W!Timeout, W!CommitSuccess, W!RecordError, W!Complete, W!Fail, W!OrphanTimeout,
     W!DatabaseFails, W!CreateUnacknowledged, W!CommitUnacknowledged, W!ReceiveResult, W!Crash, W!Die

\* What the scale has accepted stays accepted.
LEMMA AcceptedGrows == IInv /\ [Next]_vars => accepted \subseteq accepted'
  BY AimKept, OkWasAcceptedKept DEF accepted

\* A step that leaves the rows alone and after which the scale has accepted at most one
\* command more is a report.
LEMMA OneMoreAccepted ==
    ASSUME syncJob' = syncJob, accepted \subseteq accepted', NEW e \in W!Exec,
           accepted' \subseteq accepted \cup {e}
    PROVE  [Readers!Next]_(Readers!promise)
<1>1. CASE accepted' = accepted
  BY <1>1 DEF Readers!promise
<1>2. CASE accepted' = accepted \cup {e}
  BY <1>2 DEF Readers!Next, Readers!Report
<1> QED
  BY <1>1, <1>2

\* A step of the worker's promise that reports nothing is one of the system's: the
\* scale accepted whatever was reported.
LEMMA PromiseCarriesOver ==
    ASSUME IInv, [OnWorker!Promise!Next]_(OnWorker!Promise!promise), reported' = reported,
           accepted' = accepted
    PROVE  [Readers!Next]_(Readers!promise)
<1> USE DEF OnWorker!Promise!Turn, Readers!Turn
<1>1. OnWorker!Exec = W!Exec
  BY DEF OnWorker!Exec, W!Exec, OnWorker!Runs, W!Runs, OnWorker!MaxRuns, W!MaxRuns
<1>2. reported \subseteq accepted
  BY DEF IInv, ReportedWasWritten, accepted
<1>3. ASSUME NEW r \in W!Exec,
             \/ OnWorker!Promise!Open(r) \/ OnWorker!Promise!OpenEmpty(r) \/ OnWorker!Promise!Succeed(r)
             \/ OnWorker!Promise!Fail(r) \/ OnWorker!Promise!Withdraw(r)
      PROVE  Readers!Next
  <2>1. Readers!Open(r) \/ Readers!OpenEmpty(r) \/ Readers!Succeed(r) \/ Readers!Fail(r) \/ Readers!Withdraw(r)
    BY <1>2, <1>3 DEF OnWorker!Promise!Open, OnWorker!Promise!OpenEmpty, OnWorker!Promise!Succeed,
       OnWorker!Promise!Fail, OnWorker!Promise!Withdraw, Readers!Open, Readers!OpenEmpty, Readers!Succeed,
       Readers!Fail, Readers!Withdraw
  <2> QED
    BY <2>1 DEF Readers!Next
<1>4. ASSUME NEW r, OnWorker!Promise!Report(r) PROVE UNCHANGED Readers!promise
  BY <1>4 DEF OnWorker!Promise!Report, Readers!promise
<1>5. ASSUME NEW gone \in SUBSET W!Exec, OnWorker!Promise!Forget(gone) PROVE Readers!Next
  <2>1. Readers!Forget(gone)
    BY <1>1, <1>5 DEF OnWorker!Promise!Forget, Readers!Forget
  <2> QED
    BY <2>1 DEF Readers!Next
<1>6. CASE UNCHANGED OnWorker!Promise!promise
  BY <1>6 DEF OnWorker!Promise!promise, Readers!promise
<1> QED
  BY <1>1, <1>3, <1>4, <1>5, <1>6 DEF OnWorker!Promise!Next

LEMMA WorkerKeepsPromise == IInv /\ WorkerStep => [Readers!Next]_(Readers!promise)
<1> SUFFICES ASSUME IInv, WorkerStep PROVE [Readers!Next]_(Readers!promise)
  OBVIOUS
<1>1. [Next]_vars
  BY DEF Next
<1>2. CASE commandBus' = commandBus
  <2>1. reported' = reported
    BY WorkerReportsNothing
  <2>2. accepted' = accepted
    <3>1. issued' = issued
      BY <1>2, InFlightIssued DEF WorkerStep
    <3>2. written' = written
      BY DEF WorkerStep, agentVars
    <3>3. \A e \in issued : target'[e] = target[e]
      BY WorkerAims
    <3> QED
      BY <3>1, <3>2, <3>3 DEF accepted
  <2>3. [WorkerSide!Next]_(WorkerSide!vars)
    BY <1>1, SystemStep
  <2>4. [OnWorker!Promise!Next]_(OnWorker!Promise!promise)
    BY <2>3, OnWorker!PromiseStep, WorkerNextSame, WorkerVarsSame, WorkerInvSame, SystemAssumption
    DEF IInv, W!AllFaults, OnWorker!AllFaults
  <2> QED
    BY <2>1, <2>2, <2>4, PromiseCarriesOver
<1>3. CASE commandBus' # commandBus
  <2>1. PICK e \in W!Exec : W!Publish(e) \/ W!PublishFails(e)
    BY <1>3, PublicationsOnly
  <2>2. /\ syncJob' = syncJob /\ target' = target
        /\ commandBus' \subseteq commandBus \cup {[corr |-> e, agent |-> target[e]]}
    BY <2>1 DEF W!Publish, W!PublishFails, W!rowVars
  <2>3. issued' \subseteq issued \cup {e}
    BY <2>2, InFlightIssued DEF WorkerStep
  <2>4. written' = written
    BY DEF WorkerStep, agentVars
  <2>5. accepted' \subseteq accepted \cup {e}
    BY <2>2, <2>3, <2>4 DEF accepted
  <2> QED
    BY <1>1, <2>2, <2>5, AcceptedGrows, OneMoreAccepted
<1> QED
  BY <1>2, <1>3

LEMMA OthersKeepPromise == IInv /\ [Next]_vars /\ ~WorkerStep => [Readers!Next]_(Readers!promise)
<1> SUFFICES ASSUME IInv, [Next]_vars, ~WorkerStep PROVE [Readers!Next]_(Readers!promise)
  OBVIOUS
<1>1. UNCHANGED <<syncJob, target, issued>>
  BY DEF Next, vars, workerVars, GatewayStep, CommandLost, ResultLost, AgentStep, AgentConnects,
     ConnectionDrops, AgentTakes, AgentFinishes, AgentReports, AgentRestarts, W!LoseResult, W!execVars,
     W!rowVars
<1>2. CASE written' = written
  <2>1. accepted' = accepted
    BY <1>1, <1>2 DEF accepted
  <2> QED
    BY <1>1, <2>1 DEF Readers!promise
<1>3. CASE written' # written
  <2>1. PICK t \in working : written' \subseteq written \cup {t}
    BY <1>3 DEF Next, vars, agentVars, GatewayStep, CommandLost, ResultLost, AgentStep, AgentConnects,
       ConnectionDrops, AgentTakes, AgentFinishes, AgentReports, AgentRestarts
  <2>2. t.corr \in W!Exec
    BY DEF IInv, TypeOK, Task
  <2>3. accepted' \subseteq accepted \cup {t.corr}
    BY <1>1, <2>1 DEF accepted
  <2> QED
    BY <1>1, <2>2, <2>3, AcceptedGrows, OneMoreAccepted
<1> QED
  BY <1>2, <1>3

\* End to end, the rows keep SyncPromise with the scale's word for the report: a row
\* ends once, in SUCCESS only after the scale of the agent its command was addressed to
\* has accepted that command (processor.ts:112-245 to agent-local's index.ts:181-197).
THEOREM PromiseIsKept == Spec => PromiseKept
<1>1. Init => Readers!Init
  BY DEF Init, W!Init, Readers!Init, accepted
<1>2. IInv /\ [Next]_vars => [Readers!Next]_(Readers!promise)
  BY WorkerKeepsPromise, OthersKeepPromise
<1> QED
  BY <1>1, <1>2, Invariant, PTL DEF Spec, PromiseKept, Readers!Spec
=============================================================================
