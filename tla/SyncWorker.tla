----------------------------- MODULE SyncWorker -----------------------------
(***************************************************************************)
(* The synchronisation worker: the BullMQ queue `sync-jobs`, the processor *)
(* that turns a queue job into SyncJob rows (worker/src/processor.ts) and  *)
(* the AgentBridge that sends the command to the store's Agent Local over  *)
(* Redis pub/sub and waits for the answer (worker/src/agent-bridge.ts).    *)
(*                                                                         *)
(* Every execution of a queue job is a pair <<job, n>>: it creates its own *)
(* SyncJob row and its own correlationId (a fresh UUID), so the pair names *)
(* all three.                                                              *)
(*                                                                         *)
(* The two Redis channels are shared with the other side: commandBus holds *)
(* the agent:command:<agentId> messages in flight, resultBus the           *)
(* agent:result:<correlationId> ones. Seen from here the other side is an  *)
(* environment that may answer a command with either outcome, once, late   *)
(* or never; SyncSystem replaces it by the gateway and the agents.         *)
(***************************************************************************)
EXTENDS Naturals, FiniteSets

CONSTANTS
    Jobs,         \* queue jobs that may be enqueued
    Devices,      \* scales registered in the store
    DeviceOf,     \* the deviceId in each job's data
    Agents,       \* Agents Locais
    NoAgent,      \* device.agentId = null
    MaxAttempts,  \* defaultJobOptions.attempts
    MaxStalls,    \* BullMQ's maxStalledCount
    Concurrency,  \* the Worker's concurrency
    FaultKinds,   \* which failures are injected
    MaxFaults     \* bound on the number of injected failures

AllFaults == {"crash", "database", "publish", "lock", "bus"}

ASSUME ConstantsAssumption ==
    /\ DeviceOf \in [Jobs -> Devices]
    /\ NoAgent \notin Agents
    /\ MaxAttempts \in Nat \ {0}
    /\ MaxStalls \in Nat
    /\ Concurrency \in Nat \ {0}
    /\ FaultKinds \subseteq AllFaults
    /\ MaxFaults \in Nat

VARIABLES
    queue,        \* state of each BullMQ job
    attemptsMade, \* BullMQ's attemptsMade
    stalls,       \* BullMQ's stalled counter
    runs,         \* executions started so far
    lock,         \* the execution that holds the job's lock, 0 if none
    pc,           \* where each execution is inside processSyncJob
    target,       \* device.agentId as each execution read it
    pending,      \* AgentBridge.pending
    syncJob,      \* SyncJob.status of each execution's row
    items,        \* SyncJobItem.status of the row's items
    deviceStatus, \* Device.status
    deviceAgent,  \* Device.agentId
    commandBus,   \* agent:command messages in flight
    resultBus,    \* agent:result messages in flight
    reported,     \* history: correlations an agent reported ok
    faults,       \* failures injected so far
    stranded      \* history: executions whose row the database left in progress

bullVars   == <<queue, attemptsMade, stalls, runs, lock>>
execVars   == <<pc, target, pending>>
rowVars    == <<syncJob, items>>
deviceVars == <<deviceStatus, deviceAgent>>
busVars    == <<commandBus, resultBus, reported>>
faultVars  == <<faults, stranded>>
vars       == <<bullVars, execVars, rowVars, deviceVars, busVars, faultVars>>

-----------------------------------------------------------------------------
\* A job runs at most once per attempt and once more per stall (BoundedRuns).
MaxRuns == MaxAttempts + MaxStalls
Runs    == 1 .. MaxRuns
Exec    == Jobs \X Runs

QueueState   == {"absent", "waiting", "active", "delayed", "completed", "failed"}
LivePc       == {"loading", "packaging", "publishing", "awaiting", "committing",
                 "recording", "returned", "threw", "gaveUp"}
Pc           == {"none", "over", "abandoned"} \cup LivePc
RowStatus    == {"none", "IN_PROGRESS", "SUCCESS", "ERROR"}
ItemStatus   == {"none", "PENDING", "SUCCESS", "ERROR"}
DeviceStatus == {"ONLINE", "OFFLINE", "NOT_CONFIGURED", "deleted"}
Command      == [corr : Exec, agent : Agents]
Result       == [corr : Exec, ok : BOOLEAN]

TypeOK ==
    /\ queue        \in [Jobs -> QueueState]
    /\ attemptsMade \in [Jobs -> 0 .. MaxAttempts]
    /\ stalls       \in [Jobs -> 0 .. MaxStalls + 1]
    /\ runs         \in [Jobs -> 0 .. MaxRuns]
    /\ lock         \in [Jobs -> 0 .. MaxRuns]
    /\ pc           \in [Exec -> Pc]
    /\ target       \in [Exec -> Agents \cup {NoAgent}]
    /\ pending      \subseteq Exec
    /\ syncJob      \in [Exec -> RowStatus]
    /\ items        \in [Exec -> ItemStatus]
    /\ deviceStatus \in [Devices -> DeviceStatus]
    /\ deviceAgent  \in [Devices -> Agents \cup {NoAgent}]
    /\ commandBus   \subseteq Command
    /\ resultBus    \subseteq Result
    /\ reported     \subseteq Exec
    /\ faults       \in 0 .. MaxFaults
    /\ stranded     \subseteq Exec

Live(e)   == pc[e] \in LivePc
Device(e) == DeviceOf[e[1]]
Exists(d) == deviceStatus[d] # "deleted"

\* The row can still be updated: it was created and not deleted with its device.
HasRow(e) == syncJob[e] # "none"

Init ==
    /\ queue        = [j \in Jobs |-> "absent"]
    /\ attemptsMade = [j \in Jobs |-> 0]
    /\ stalls       = [j \in Jobs |-> 0]
    /\ runs         = [j \in Jobs |-> 0]
    /\ lock         = [j \in Jobs |-> 0]
    /\ pc           = [e \in Exec |-> "none"]
    /\ target       = [e \in Exec |-> NoAgent]
    /\ pending      = {}
    /\ syncJob      = [e \in Exec |-> "none"]
    /\ items        = [e \in Exec |-> "none"]
    /\ deviceStatus = [d \in Devices |-> "NOT_CONFIGURED"]
    /\ deviceAgent  \in [Devices -> Agents \cup {NoAgent}]
    /\ commandBus   = {}
    /\ resultBus    = {}
    /\ reported     = {}
    /\ faults       = 0
    /\ stranded     = {}

Fault(kind) ==
    /\ kind \in FaultKinds
    /\ faults < MaxFaults
    /\ faults' = faults + 1

Goto(e, where) == pc' = [pc EXCEPT ![e] = where]

SetRow(e, row, item) ==
    /\ syncJob' = [syncJob EXCEPT ![e] = row]
    /\ items'   = [items EXCEPT ![e] = item]

-----------------------------------------------------------------------------
(* Plausible bugs: each replaces the action it is named after, to show that *)
(* a property notices it.                                                  *)

\* An execution that lost its lock still moves the job to failed or delayed.
FailWithoutLock(e) ==
    LET j == e[1] IN
    /\ pc[e] \in {"threw", "gaveUp"}
    /\ Goto(e, "over")
    /\ queue' = [queue EXCEPT ![j] = IF pc[e] = "threw" /\ attemptsMade[j] + 1 < MaxAttempts
                                     THEN "delayed" ELSE "failed"]
    /\ attemptsMade' = [attemptsMade EXCEPT ![j] = @ + 1]
    /\ lock' = [lock EXCEPT ![j] = 0]
    /\ UNCHANGED <<stalls, runs, target, pending, rowVars, deviceVars, busVars, faultVars>>

\* The error is thrown before the error transaction has finished: a missing await.
FailUnawaited(e) ==
    LET j == e[1] IN
    /\ pc[e] \in {"recording", "threw", "gaveUp"}
    /\ lock[j] = e[2]
    /\ pc' = IF pc[e] = "recording" THEN pc ELSE [pc EXCEPT ![e] = "over"]
    /\ queue' = [queue EXCEPT ![j] = IF pc[e] # "gaveUp" /\ attemptsMade[j] + 1 < MaxAttempts
                                     THEN "delayed" ELSE "failed"]
    /\ attemptsMade' = [attemptsMade EXCEPT ![j] = @ + 1]
    /\ lock' = [lock EXCEPT ![j] = 0]
    /\ UNCHANGED <<stalls, runs, target, pending, rowVars, deviceVars, busVars, faultVars>>

\* Nothing to send is treated as nothing to do.
EmptyPackageReturns(e) ==
    /\ pc[e] = "packaging"
    /\ Exists(Device(e))
    /\ SetRow(e, "ERROR", "none")
    /\ Goto(e, "returned")
    /\ UNCHANGED <<bullVars, target, pending, deviceVars, busVars, faultVars>>

\* A late answer is applied although the wait for it timed out.
ReceiveResultLate(r) ==
    /\ r \in resultBus
    /\ resultBus' = resultBus \ {r}
    /\ pending' = pending \ {r.corr}
    /\ Goto(r.corr, IF r.ok THEN "committing" ELSE "recording")
    /\ UNCHANGED <<bullVars, target, rowVars, deviceVars, commandBus, reported, faultVars>>

\* The timer forgets the correlation without rejecting the promise.
TimeoutWithoutReject(e) ==
    /\ pc[e] = "awaiting"
    /\ e \in pending
    /\ pending' = pending \ {e}
    /\ UNCHANGED <<bullVars, pc, target, rowVars, deviceVars, busVars, faultVars>>

\* The timer sends the command again under the same correlationId.
TimeoutRepublishes(e) ==
    /\ pc[e] = "awaiting"
    /\ e \in pending
    /\ commandBus' = commandBus \cup {[corr |-> e, agent |-> target[e]]}
    /\ UNCHANGED <<bullVars, execVars, rowVars, deviceVars, resultBus, reported, faultVars>>

\* The command is sent before the try block: a failed publish skips the catch.
PublishFailsOutsideTry(e) ==
    /\ pc[e] = "publishing"
    /\ Fault("publish")
    /\ pending' = pending \cup {e}
    /\ commandBus' \in {commandBus, commandBus \cup {[corr |-> e, agent |-> target[e]]}}
    /\ Goto(e, "threw")
    /\ UNCHANGED <<bullVars, target, rowVars, deviceVars, resultBus, reported, stranded>>

-----------------------------------------------------------------------------
(* The backend's side: enqueuing, linking and deleting devices.            *)

\* SyncController.create and ProductSyncDispatcher: queue.add for a device the
\* store owns. No SyncJob row is created here.
Enqueue(j) ==
    /\ queue[j] = "absent"
    /\ Exists(DeviceOf[j])
    /\ queue' = [queue EXCEPT ![j] = "waiting"]
    /\ UNCHANGED <<attemptsMade, stalls, runs, lock, execVars, rowVars,
                   deviceVars, busVars, faultVars>>

LinkDeviceAgent(d, a) ==
    /\ Exists(d)
    /\ deviceAgent[d] # a
    /\ deviceAgent' = [deviceAgent EXCEPT ![d] = a]
    /\ UNCHANGED <<bullVars, execVars, rowVars, deviceStatus, busVars, faultVars>>

\* One transaction deletes the device's items, its SyncJob rows and the device.
DeleteDevice(d) ==
    LET gone == {e \in Exec : Device(e) = d} IN
    /\ Exists(d)
    /\ deviceStatus' = [deviceStatus EXCEPT ![d] = "deleted"]
    /\ syncJob' = [e \in Exec |-> IF e \in gone THEN "none" ELSE syncJob[e]]
    /\ items'   = [e \in Exec |-> IF e \in gone THEN "none" ELSE items[e]]
    /\ UNCHANGED <<bullVars, execVars, deviceAgent, busVars, faultVars>>

-----------------------------------------------------------------------------
(* BullMQ's scheduling of a job.                                           *)

Take(j) ==
    LET n == runs[j] + 1 IN
    /\ queue[j] = "waiting"
    /\ Cardinality({e \in Exec : Live(e)}) < Concurrency
    /\ queue' = [queue EXCEPT ![j] = "active"]
    /\ runs'  = [runs EXCEPT ![j] = n]
    /\ lock'  = [lock EXCEPT ![j] = n]
    /\ pc'    = [pc EXCEPT ![<<j, n>>] = "loading"]
    /\ UNCHANGED <<attemptsMade, stalls, target, pending, rowVars, deviceVars,
                   busVars, faultVars>>

\* The exponential backoff of a retried job runs out.
BackoffEnds(j) ==
    /\ queue[j] = "delayed"
    /\ queue' = [queue EXCEPT ![j] = "waiting"]
    /\ UNCHANGED <<attemptsMade, stalls, runs, lock, execVars, rowVars,
                   deviceVars, busVars, faultVars>>

\* The lock of an active job is no longer renewed: the worker died, or it was
\* cut off from Redis while the execution went on (a fault of kind "lock").
Stall(j) ==
    /\ queue[j] = "active"
    /\ IF pc[<<j, lock[j]>>] = "abandoned" THEN faults' = faults ELSE Fault("lock")
    /\ stalls' = [stalls EXCEPT ![j] = @ + 1]
    /\ queue'  = [queue EXCEPT ![j] = IF stalls[j] < MaxStalls THEN "waiting" ELSE "failed"]
    /\ lock'   = [lock EXCEPT ![j] = 0]
    /\ UNCHANGED <<attemptsMade, runs, execVars, rowVars, deviceVars, busVars, stranded>>

\* The processor returned: only the holder of the lock may complete the job.
Complete(e) ==
    LET j == e[1] IN
    /\ pc[e] = "returned"
    /\ pc' = [pc EXCEPT ![e] = "over"]
    /\ IF lock[j] = e[2]
       THEN /\ queue' = [queue EXCEPT ![j] = "completed"]
            /\ attemptsMade' = [attemptsMade EXCEPT ![j] = @ + 1]
            /\ lock' = [lock EXCEPT ![j] = 0]
       ELSE UNCHANGED <<queue, attemptsMade, lock>>
    /\ UNCHANGED <<stalls, runs, target, pending, rowVars, deviceVars, busVars, faultVars>>

\* The processor threw: retry with backoff while attempts remain, unless the
\* error was an UnrecoverableError.
Fail(e) ==
    LET j     == e[1]
        retry == pc[e] = "threw" /\ attemptsMade[j] + 1 < MaxAttempts IN
    /\ pc[e] \in {"threw", "gaveUp"}
    /\ pc' = [pc EXCEPT ![e] = "over"]
    /\ IF lock[j] = e[2]
       THEN /\ queue' = [queue EXCEPT ![j] = IF retry THEN "delayed" ELSE "failed"]
            /\ attemptsMade' = [attemptsMade EXCEPT ![j] = @ + 1]
            /\ lock' = [lock EXCEPT ![j] = 0]
       ELSE UNCHANGED <<queue, attemptsMade, lock>>
    /\ UNCHANGED <<stalls, runs, target, pending, rowVars, deviceVars, busVars, faultVars>>

-----------------------------------------------------------------------------
(* processSyncJob, one action per segment between two awaits.              *)

\* findUniqueOrThrow and the agentId check: both errors leave no SyncJob row.
LoadDevice(e) ==
    LET d == Device(e) IN
    /\ pc[e] = "loading"
    /\ IF Exists(d) /\ deviceAgent[d] # NoAgent
       THEN /\ Goto(e, "packaging")
            /\ target' = [target EXCEPT ![e] = deviceAgent[d]]
       ELSE /\ Goto(e, "threw")
            /\ UNCHANGED target
    /\ UNCHANGED <<bullVars, pending, rowVars, deviceVars, busVars, faultVars>>

\* The reads found neither product nor label: an ERROR row, then UnrecoverableError.
EmptyPackage(e) ==
    /\ pc[e] = "packaging"
    /\ Exists(Device(e))
    /\ SetRow(e, "ERROR", "none")
    /\ Goto(e, "gaveUp")
    /\ UNCHANGED <<bullVars, target, pending, deviceVars, busVars, faultVars>>

\* The row starts IN_PROGRESS with its items PENDING; a package that only
\* carries labels has no item.
CreateSyncJob(e) ==
    /\ pc[e] = "packaging"
    /\ Exists(Device(e))
    /\ \E item \in {"PENDING", "none"} : SetRow(e, "IN_PROGRESS", item)
    /\ Goto(e, "publishing")
    /\ UNCHANGED <<bullVars, target, pending, deviceVars, busVars, faultVars>>

\* The device was deleted after it was read: the insert breaks the foreign key.
CreateFails(e) ==
    /\ pc[e] = "packaging"
    /\ ~Exists(Device(e))
    /\ Goto(e, "threw")
    /\ UNCHANGED <<bullVars, target, pending, rowVars, deviceVars, busVars, faultVars>>

\* sendToAgent registers the correlation before it publishes.
Publish(e) ==
    /\ pc[e] = "publishing"
    /\ pending' = pending \cup {e}
    /\ commandBus' = commandBus \cup {[corr |-> e, agent |-> target[e]]}
    /\ Goto(e, "awaiting")
    /\ UNCHANGED <<bullVars, target, rowVars, deviceVars, resultBus, reported, faultVars>>

\* publish rejects, whether or not Redis got the message: the catch runs, but
\* the correlation and its timer stay behind, with nobody awaiting the promise.
PublishFails(e) ==
    /\ pc[e] = "publishing"
    /\ Fault("publish")
    /\ pending' = pending \cup {e}
    /\ commandBus' \in {commandBus, commandBus \cup {[corr |-> e, agent |-> target[e]]}}
    /\ Goto(e, "recording")
    /\ UNCHANGED <<bullVars, target, rowVars, deviceVars, resultBus, reported, stranded>>

\* A result for a correlation nobody waits for any more is dropped.
ReceiveResult(r) ==
    /\ r \in resultBus
    /\ resultBus' = resultBus \ {r}
    /\ pending' = pending \ {r.corr}
    /\ IF r.corr \in pending /\ pc[r.corr] = "awaiting"
       THEN Goto(r.corr, IF r.ok THEN "committing" ELSE "recording")
       ELSE UNCHANGED pc
    /\ UNCHANGED <<bullVars, target, rowVars, deviceVars, commandBus, reported, faultVars>>

\* The 30 s timer of sendToAgent.
Timeout(e) ==
    /\ pc[e] = "awaiting"
    /\ e \in pending
    /\ pending' = pending \ {e}
    /\ Goto(e, "recording")
    /\ UNCHANGED <<bullVars, target, rowVars, deviceVars, busVars, faultVars>>

\* The success transaction: row, items and device together. It throws when the
\* device was deleted meanwhile.
CommitSuccess(e) ==
    LET d == Device(e) IN
    /\ pc[e] = "committing"
    /\ IF HasRow(e)
       THEN /\ SetRow(e, "SUCCESS", IF items[e] = "none" THEN "none" ELSE "SUCCESS")
            /\ deviceStatus' = [deviceStatus EXCEPT ![d] = "ONLINE"]
            /\ Goto(e, "returned")
       ELSE /\ Goto(e, "recording")
            /\ UNCHANGED <<rowVars, deviceStatus>>
    /\ UNCHANGED <<bullVars, target, pending, deviceAgent, busVars, faultVars>>

\* The catch block: the error transaction, then the rethrow.
RecordError(e) ==
    LET d == Device(e) IN
    /\ pc[e] = "recording"
    /\ IF HasRow(e)
       THEN /\ SetRow(e, "ERROR", IF items[e] = "none" THEN "none" ELSE "ERROR")
            /\ deviceStatus' = [deviceStatus EXCEPT ![d] = "OFFLINE"]
       ELSE UNCHANGED <<rowVars, deviceStatus>>
    /\ Goto(e, "threw")
    /\ UNCHANGED <<bullVars, target, pending, deviceAgent, busVars, faultVars>>

\* A database call of the execution fails before it takes effect. A failed
\* success transaction falls into the catch block; any other one is rethrown, and
\* nobody settles the row of the refused error transaction.
DatabaseFails(e) ==
    /\ pc[e] \in {"loading", "packaging", "committing", "recording"}
    /\ Fault("database")
    /\ Goto(e, IF pc[e] = "committing" THEN "recording" ELSE "threw")
    /\ stranded' = IF pc[e] = "recording" THEN stranded \cup {e} ELSE stranded
    /\ UNCHANGED <<bullVars, target, pending, rowVars, deviceVars, busVars>>

\* The row is created but the acknowledgement is lost. Both creations stand
\* outside the try: the error is rethrown and the row stays as it was created.
CreateUnacknowledged(e) ==
    /\ pc[e] = "packaging"
    /\ Exists(Device(e))
    /\ Fault("database")
    /\ \/ SetRow(e, "ERROR", "none") /\ stranded' = stranded
       \/ /\ \E item \in {"PENDING", "none"} : SetRow(e, "IN_PROGRESS", item)
          /\ stranded' = stranded \cup {e}
    /\ Goto(e, "threw")
    /\ UNCHANGED <<bullVars, target, pending, deviceVars, busVars>>

\* The success transaction commits but its acknowledgement is lost: the catch
\* block runs over a row that is already SUCCESS.
CommitUnacknowledged(e) ==
    /\ pc[e] = "committing"
    /\ HasRow(e)
    /\ Fault("database")
    /\ SetRow(e, "SUCCESS", IF items[e] = "none" THEN "none" ELSE "SUCCESS")
    /\ deviceStatus' = [deviceStatus EXCEPT ![Device(e)] = "ONLINE"]
    /\ Goto(e, "recording")
    /\ UNCHANGED <<bullVars, target, pending, deviceAgent, busVars, stranded>>

-----------------------------------------------------------------------------
(* Failures of the process and of the channels.                            *)

\* Every execution in memory is lost, with the bridge's map and subscription.
Die ==
    /\ pc' = [e \in Exec |-> IF Live(e) THEN "abandoned" ELSE pc[e]]
    /\ pending' = {}
    /\ resultBus' = {}
    /\ UNCHANGED <<bullVars, target, rowVars, deviceVars, commandBus, reported, stranded>>

Crash == Fault("crash") /\ Die

\* The timer of a correlation nobody awaits rejects: an unhandled rejection
\* ends the process.
OrphanTimeout(e) ==
    /\ e \in pending
    /\ pc[e] # "awaiting"
    /\ faults' = faults
    /\ Die

\* Redis pub/sub delivers at most once.
LoseCommand ==
    /\ Fault("bus")
    /\ \E c \in commandBus : commandBus' = commandBus \ {c}
    /\ UNCHANGED <<bullVars, execVars, rowVars, deviceVars, resultBus, reported, stranded>>

LoseResult ==
    /\ Fault("bus")
    /\ \E r \in resultBus : resultBus' = resultBus \ {r}
    /\ UNCHANGED <<bullVars, execVars, rowVars, deviceVars, commandBus, reported, stranded>>

LoseMessage == LoseCommand \/ LoseResult

-----------------------------------------------------------------------------
\* The other side, as an environment: it consumes a command and answers it at
\* most once (AgentGateway!ResultOncePerCommand).
Answer(c, ok) ==
    /\ c \in commandBus
    /\ commandBus' = commandBus \ {c}
    /\ resultBus' = resultBus \cup {[corr |-> c.corr, ok |-> ok]}
    /\ reported' = IF ok THEN reported \cup {c.corr} ELSE reported
    /\ UNCHANGED <<bullVars, execVars, rowVars, deviceVars, faultVars>>

\* The gateway marks an agent's devices as it connects, beats or disconnects
\* (AgentGateway!ApplyWrite).
TouchDevices(a, status) ==
    /\ deviceStatus' = [d \in Devices |->
           IF deviceAgent[d] = a /\ Exists(d) THEN status ELSE deviceStatus[d]]
    /\ UNCHANGED <<bullVars, execVars, rowVars, deviceAgent, busVars, faultVars>>

Step(e) ==
    \/ LoadDevice(e) \/ EmptyPackage(e) \/ CreateSyncJob(e) \/ CreateFails(e)
    \/ Publish(e) \/ Timeout(e) \/ CommitSuccess(e) \/ RecordError(e)
    \/ Complete(e) \/ Fail(e) \/ OrphanTimeout(e)

FaultyStep(e) ==
    PublishFails(e) \/ DatabaseFails(e) \/ CreateUnacknowledged(e) \/ CommitUnacknowledged(e)

\* What the worker, its queue and the backend's requests do.
WorkerNext ==
    \/ \E j \in Jobs : Enqueue(j) \/ Take(j) \/ BackoffEnds(j) \/ Stall(j)
    \/ \E d \in Devices : DeleteDevice(d) \/ \E a \in Agents : LinkDeviceAgent(d, a)
    \/ \E e \in Exec : Step(e) \/ FaultyStep(e)
    \/ \E r \in resultBus : ReceiveResult(r)
    \/ Crash

\* The other side: the agents' answers and the gateway's device updates.
OtherNext ==
    \/ \E c \in commandBus, ok \in BOOLEAN : Answer(c, ok)
    \/ \E a \in Agents, status \in {"ONLINE", "OFFLINE"} : TouchDevices(a, status)

Next == WorkerNext \/ LoseMessage \/ OtherNext

Spec == Init /\ [][Next]_vars

\* The stalled-job check after the lock of a dead worker expired.
StallCheck(j) == queue[j] = "active" /\ pc[<<j, lock[j]>>] = "abandoned" /\ Stall(j)

\* Node's event loop and BullMQ's scheduler keep going: a job that may be taken
\* is taken, a backoff and a stall check end, every await of a live execution
\* returns and a timer fires. The agents and the users owe nothing.
Fairness ==
    /\ \A j \in Jobs : WF_vars(Take(j)) /\ WF_vars(BackoffEnds(j)) /\ WF_vars(StallCheck(j))
    /\ \A e \in Exec : WF_vars(Step(e))

FairSpec == Spec /\ Fairness

-----------------------------------------------------------------------------
(* Properties.                                                             *)

\* A row says SUCCESS only if the agent reported success for that very
\* execution: a late answer to an earlier attempt, a timeout or a rerun of the
\* job never turns into a success (processor.ts:212-231, agent-bridge.ts:107).
SuccessWasReported == \A e \in Exec : syncJob[e] = "SUCCESS" => e \in reported

\* A job the queue shows as completed left a SUCCESS row behind, unless its
\* device was deleted with its history.
CompletedHasSuccess ==
    \A j \in Jobs : queue[j] = "completed" =>
        \/ ~Exists(DeviceOf[j])
        \/ \E n \in Runs : syncJob[<<j, n>>] = "SUCCESS"

\* The runs of a job add up to its finished attempts, its stalls and the run in
\* progress, so the scale is never written more than MaxAttempts + MaxStalls
\* times for one request, however crashes and retries interleave.
RunsAccounted ==
    \A j \in Jobs : runs[j] = attemptsMade[j] + stalls[j] + (IF queue[j] = "active" THEN 1 ELSE 0)

\* Two executions of one job are alive together only after BullMQ took the job
\* away from the first one: retries alone never overlap.
OverlapNeedsStall ==
    \A j \in Jobs : \A m, n \in Runs :
        m < n /\ Live(<<j, m>>) /\ Live(<<j, n>>) => stalls[j] > 0

\* The items of a row never disagree with it: they are PENDING exactly while it
\* is IN_PROGRESS and end as it ends (the transactions at processor.ts:218, 237).
ItemsFollowRow ==
    \A e \in Exec : items[e] # "none" =>
        items[e] = IF syncJob[e] = "IN_PROGRESS" THEN "PENDING" ELSE syncJob[e]

\* No path of the processor ends an execution with its row still IN_PROGRESS,
\* unless the database left that very row behind (stranded).
OverIsSettled ==
    \A e \in Exec : pc[e] = "over" /\ syncJob[e] = "IN_PROGRESS" => e \in stranded

\* A row that says ERROR keeps saying so until its device is deleted: no late
\* answer and no second timer revives it.
ErrorIsFinal ==
    [][\A e \in Exec : syncJob[e] = "ERROR" => syncJob'[e] \in {"ERROR", "none"}]_vars

\* The rows keep the promise made to their readers, whatever fails: SyncPromise.
Promise  == INSTANCE SyncPromise WITH Rows <- Exec
Promised == Promise!Spec

\* Every job that was enqueued ends, whatever the agents, the channels and a
\* bounded number of crashes do: the bridge's timer and BullMQ's stall check
\* leave nothing waiting for ever.
JobSettles == \A j \in Jobs : queue[j] = "waiting" ~> queue[j] \in {"completed", "failed"}

\* A row shown as in progress stops being so, whatever else fails (the publishing,
\* the lock, the bus, any other call to the database), with two exceptions, each
\* of that very execution: its process died, which nothing in the code repairs, or
\* the database refused its error transaction or lost the answer to its creation.
RowSettles ==
    \A e \in Exec : syncJob[e] = "IN_PROGRESS"
        ~> syncJob[e] # "IN_PROGRESS" \/ pc[e] = "abandoned" \/ e \in stranded

-----------------------------------------------------------------------------
(* The inductive invariant behind the safety properties (SyncWorker_proofs). *)

\* The lock is the latest run's, and a job that has not ended has attempts and
\* stalls left.
LockIsLatest ==
    \A j \in Jobs :
        /\ lock[j] = IF queue[j] = "active" THEN runs[j] ELSE 0
        /\ queue[j] \notin {"completed", "failed"} =>
               attemptsMade[j] < MaxAttempts /\ stalls[j] <= MaxStalls

FreshRuns == \A j \in Jobs, n \in Runs : n > runs[j] => pc[<<j, n>>] = "none"

\* Before any stall the only live execution is the one that holds the lock.
LiveHasLock ==
    \A j \in Jobs, n \in Runs :
        Live(<<j, n>>) /\ stalls[j] = 0 => queue[j] = "active" /\ n = runs[j]

RowFollowsPc ==
    \A e \in Exec :
        /\ pc[e] \in {"none", "loading", "packaging"} => ~HasRow(e)
        /\ pc[e] \in {"publishing", "awaiting", "committing"} => syncJob[e] \in {"none", "IN_PROGRESS"}
        /\ pc[e] = "returned" => syncJob[e] \in {"none", "SUCCESS"}
        /\ pc[e] \in {"publishing", "awaiting", "committing", "recording", "returned"}
               => (HasRow(e) <=> Exists(Device(e)))
        /\ HasRow(e) => Exists(Device(e))

TargetKnown == \A e \in Exec : pc[e] \in {"packaging", "publishing"} => target[e] # NoAgent

OkWasReported ==
    /\ \A r \in resultBus : r.ok => r.corr \in reported
    /\ \A e \in Exec : pc[e] = "committing" => e \in reported

CompletedByOver ==
    \A j \in Jobs : queue[j] = "completed" =>
        \/ ~Exists(DeviceOf[j])
        \/ \E n \in Runs : syncJob[<<j, n>>] = "SUCCESS" /\ pc[<<j, n>>] = "over"

EndedIsSettled ==
    \A e \in Exec :
        pc[e] \in {"returned", "threw", "gaveUp", "over"} /\ syncJob[e] = "IN_PROGRESS" => e \in stranded

IInv ==
    /\ TypeOK
    /\ RunsAccounted
    /\ LockIsLatest
    /\ FreshRuns
    /\ LiveHasLock
    /\ RowFollowsPc
    /\ TargetKnown
    /\ OkWasReported
    /\ SuccessWasReported
    /\ CompletedByOver
    /\ ItemsFollowRow
    /\ EndedIsSettled
=============================================================================
