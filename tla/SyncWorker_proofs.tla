------------------------- MODULE SyncWorker_proofs -------------------------
(***************************************************************************)
(* Proofs about SyncWorker, for every value of its constants. IInv is      *)
(* inductive: one lemma per conjunct, one step per action. The safety      *)
(* properties of the module follow from it.                                *)
(***************************************************************************)
EXTENDS SyncWorker, TLAPS

LEMMA ExecPair == \A e \in Exec : e[1] \in Jobs /\ e[2] \in Runs /\ e = <<e[1], e[2]>>
  BY DEF Exec

\* Types: only the bounds of runs and attemptsMade need an argument.
LEMMA TypePreserved == IInv /\ [Next]_vars => TypeOK'
<1> SUFFICES ASSUME TypeOK, RunsAccounted, LockIsLatest, TargetKnown, [Next]_vars
             PROVE  TypeOK'
  BY DEF IInv
<1> USE ConstantsAssumption, ExecPair
    DEF TypeOK, RunsAccounted, LockIsLatest, TargetKnown, Runs, MaxRuns, Exec,
         QueueState, Pc, LivePc, RowStatus, ItemStatus, DeviceStatus, Command, Result, Live, Device, Exists, HasRow, Goto, SetRow, Fault,
         bullVars, execVars, rowVars, deviceVars, busVars, faultVars
<1>1. ASSUME NEW j \in Jobs, Enqueue(j) \/ Take(j) \/ BackoffEnds(j) \/ Stall(j)
      PROVE  TypeOK'
  <2>1. CASE Enqueue(j)
    BY <2>1 DEF Enqueue
  <2>2. CASE Take(j)
    BY <2>2 DEF Take
  <2>3. CASE BackoffEnds(j)
    BY <2>3 DEF BackoffEnds
  <2>4. CASE Stall(j)
      <3>1. CASE pc[<<j, lock[j]>>] = "abandoned"
        BY <2>4, <3>1 DEF Stall
      <3>2. CASE ~(pc[<<j, lock[j]>>] = "abandoned")
        BY <2>4, <3>2 DEF Stall
      <3> QED
        BY <3>1, <3>2
  <2> QED
    BY <1>1, <2>1, <2>2, <2>3, <2>4
<1>2. ASSUME NEW d \in Devices, DeleteDevice(d) \/ \E a \in Agents : LinkDeviceAgent(d, a)
      PROVE  TypeOK'
  <2>1. CASE DeleteDevice(d)
    BY <2>1 DEF DeleteDevice
  <2>2. ASSUME NEW a \in Agents, LinkDeviceAgent(d, a) PROVE TypeOK'
    BY <2>2 DEF LinkDeviceAgent
  <2>3. QED
    BY <1>2, <2>1, <2>2
<1>3. ASSUME NEW e \in Exec, Step(e)
      PROVE  TypeOK'
  <2>1. CASE LoadDevice(e)
      <3>1. CASE Exists(Device(e)) /\ deviceAgent[Device(e)] # NoAgent
        BY <2>1, <3>1 DEF LoadDevice
      <3>2. CASE ~(Exists(Device(e)) /\ deviceAgent[Device(e)] # NoAgent)
        BY SMTT(30), <2>1, <3>2 DEF LoadDevice
      <3> QED
        BY <3>1, <3>2
  <2>2. CASE EmptyPackage(e)
    BY <2>2 DEF EmptyPackage
  <2>3. CASE CreateSyncJob(e)
    BY <2>3 DEF CreateSyncJob
  <2>4. CASE CreateFails(e)
    BY <2>4 DEF CreateFails
  <2>5. CASE Publish(e)
    BY <2>5 DEF Publish
  <2>6. CASE Timeout(e)
    BY <2>6 DEF Timeout
  <2>7. CASE CommitSuccess(e)
      <3>1. CASE HasRow(e)
        <4>1. syncJob' \in [Exec -> RowStatus]
          BY <2>7, <3>1 DEF CommitSuccess
        <4>2. items' \in [Exec -> ItemStatus]
          BY <2>7, <3>1 DEF CommitSuccess
        <4>3. deviceStatus' \in [Devices -> DeviceStatus]
          BY <2>7, <3>1 DEF CommitSuccess
        <4>4. pc' \in [Exec -> Pc]
          BY <2>7, <3>1 DEF CommitSuccess
        <4> QED
          BY <2>7, <3>1, <4>1, <4>2, <4>3, <4>4 DEF CommitSuccess
      <3>2. CASE ~(HasRow(e))
        BY <2>7, <3>2 DEF CommitSuccess
      <3> QED
        BY <3>1, <3>2
  <2>8. CASE RecordError(e)
      <3>1. CASE HasRow(e)
        <4>1. syncJob' \in [Exec -> RowStatus]
          BY <2>8, <3>1 DEF RecordError
        <4>2. items' \in [Exec -> ItemStatus]
          BY <2>8, <3>1 DEF RecordError
        <4>3. deviceStatus' \in [Devices -> DeviceStatus]
          BY <2>8, <3>1 DEF RecordError
        <4>4. pc' \in [Exec -> Pc]
          BY <2>8, <3>1 DEF RecordError
        <4> QED
          BY <2>8, <3>1, <4>1, <4>2, <4>3, <4>4 DEF RecordError
      <3>2. CASE ~(HasRow(e))
        BY <2>8, <3>2 DEF RecordError
      <3> QED
        BY <3>1, <3>2
  <2>9. CASE Complete(e)
      <3>1. CASE lock[e[1]] = e[2]
        <4>1. attemptsMade' \in [Jobs -> 0 .. MaxAttempts]
          BY <2>9, <3>1 DEF Complete
        <4>2. queue' \in [Jobs -> QueueState]
          BY <2>9, <3>1 DEF Complete
        <4>3. lock' \in [Jobs -> 0 .. MaxRuns]
          BY <2>9, <3>1 DEF Complete
        <4>4. pc' \in [Exec -> Pc]
          BY <2>9, <3>1 DEF Complete
        <4> QED
          BY <2>9, <3>1, <4>1, <4>2, <4>3, <4>4 DEF Complete
      <3>2. CASE ~(lock[e[1]] = e[2])
        BY <2>9, <3>2 DEF Complete
      <3> QED
        BY <3>1, <3>2
  <2>10. CASE Fail(e)
      <3>1. CASE lock[e[1]] = e[2]
        <4>1. attemptsMade' \in [Jobs -> 0 .. MaxAttempts]
          BY <2>10, <3>1 DEF Fail
        <4>2. queue' \in [Jobs -> QueueState]
          BY <2>10, <3>1 DEF Fail
        <4>3. lock' \in [Jobs -> 0 .. MaxRuns]
          BY <2>10, <3>1 DEF Fail
        <4>4. pc' \in [Exec -> Pc]
          BY <2>10, <3>1 DEF Fail
        <4> QED
          BY <2>10, <3>1, <4>1, <4>2, <4>3, <4>4 DEF Fail
      <3>2. CASE ~(lock[e[1]] = e[2])
        BY <2>10, <3>2 DEF Fail
      <3> QED
        BY <3>1, <3>2
  <2>11. CASE OrphanTimeout(e)
    BY <2>11 DEF OrphanTimeout, Die
  <2> QED
    BY <1>3, <2>1, <2>2, <2>3, <2>4, <2>5, <2>6, <2>7, <2>8, <2>9, <2>10, <2>11 DEF Step
<1>4. ASSUME NEW e \in Exec, FaultyStep(e)
      PROVE  TypeOK'
  <2>1. CASE PublishFails(e)
    BY <2>1 DEF PublishFails
  <2>2. CASE DatabaseFails(e)
    BY <2>2 DEF DatabaseFails
  <2>3. CASE CommitUnacknowledged(e)
    BY <2>3 DEF CommitUnacknowledged
  <2>4. CASE CreateUnacknowledged(e)
    BY <2>4 DEF CreateUnacknowledged
  <2> QED
    BY <1>4, <2>1, <2>2, <2>3, <2>4 DEF FaultyStep
<1>5. ASSUME NEW r \in resultBus, ReceiveResult(r)
      PROVE  TypeOK'
  BY SMTT(60), <1>5 DEF ReceiveResult
<1>6. ASSUME Crash \/ LoseMessage \/ UNCHANGED vars
      PROVE  TypeOK'
  BY <1>6 DEF Crash, Die, LoseMessage, LoseCommand, LoseResult, vars
<1>7. ASSUME OtherNext
      PROVE  TypeOK'
  BY <1>7 DEF OtherNext, Answer, TouchDevices
<1> HIDE DEF TypeOK, RunsAccounted, LockIsLatest, TargetKnown, Runs, MaxRuns, Exec,
         QueueState, Pc, LivePc, RowStatus, ItemStatus, DeviceStatus, Command, Result, Live, Device, Exists, HasRow, Goto, SetRow, Fault,
         bullVars, execVars, rowVars, deviceVars, busVars, faultVars
<1> QED
  BY <1>1, <1>2, <1>3, <1>4, <1>5, <1>6, <1>7 DEF Next, WorkerNext

\* The run count moves with the attempts and the stalls.
LEMMA RunsPreserved == IInv /\ [Next]_vars => RunsAccounted'
<1> SUFFICES ASSUME RunsAccounted, TypeOK, LockIsLatest, [Next]_vars
             PROVE  RunsAccounted'
  BY DEF IInv
<1> USE ConstantsAssumption, ExecPair
    DEF RunsAccounted, TypeOK, LockIsLatest, Runs, MaxRuns, Exec,
         QueueState, Pc, LivePc, RowStatus, ItemStatus, DeviceStatus, Command, Result, Live, Device, Exists, HasRow, Goto, SetRow, Fault,
         bullVars, execVars, rowVars, deviceVars, busVars, faultVars
<1>1. ASSUME NEW j \in Jobs, Enqueue(j) \/ Take(j) \/ BackoffEnds(j) \/ Stall(j)
      PROVE  RunsAccounted'
  <2>1. CASE Enqueue(j)
    BY <2>1 DEF Enqueue
  <2>2. CASE Take(j)
    BY <2>2 DEF Take
  <2>3. CASE BackoffEnds(j)
    BY <2>3 DEF BackoffEnds
  <2>4. CASE Stall(j)
    BY <2>4 DEF Stall
  <2>5. QED
    BY <1>1, <2>1, <2>2, <2>3, <2>4
<1>2. ASSUME NEW d \in Devices, DeleteDevice(d) \/ \E a \in Agents : LinkDeviceAgent(d, a)
      PROVE  RunsAccounted'
  BY <1>2 DEF DeleteDevice, LinkDeviceAgent
<1>3. ASSUME NEW e \in Exec, Step(e)
      PROVE  RunsAccounted'
  BY <1>3 DEF Step, LoadDevice, EmptyPackage, CreateSyncJob, CreateFails, Publish,
         Timeout, CommitSuccess, RecordError, Complete, Fail, OrphanTimeout, Die
<1>4. ASSUME NEW e \in Exec, FaultyStep(e)
      PROVE  RunsAccounted'
  BY <1>4 DEF FaultyStep, PublishFails, DatabaseFails, CreateUnacknowledged, CommitUnacknowledged
<1>5. ASSUME NEW r \in resultBus, ReceiveResult(r)
      PROVE  RunsAccounted'
  BY <1>5 DEF ReceiveResult
<1>6. ASSUME Crash \/ LoseMessage \/ UNCHANGED vars
      PROVE  RunsAccounted'
  BY <1>6 DEF Crash, Die, LoseMessage, LoseCommand, LoseResult, vars
<1>7. ASSUME OtherNext
      PROVE  RunsAccounted'
  BY <1>7 DEF OtherNext, Answer, TouchDevices
<1> HIDE DEF RunsAccounted, TypeOK, LockIsLatest, Runs, MaxRuns, Exec,
         QueueState, Pc, LivePc, RowStatus, ItemStatus, DeviceStatus, Command, Result, Live, Device, Exists, HasRow, Goto, SetRow, Fault,
         bullVars, execVars, rowVars, deviceVars, busVars, faultVars
<1> QED
  BY <1>1, <1>2, <1>3, <1>4, <1>5, <1>6, <1>7 DEF Next, WorkerNext

\* Only Take hands out a lock, and it hands it to the newest run.
LEMMA LockPreserved == IInv /\ [Next]_vars => LockIsLatest'
<1> SUFFICES ASSUME LockIsLatest, TypeOK, RunsAccounted, [Next]_vars
             PROVE  LockIsLatest'
  BY DEF IInv
<1> USE ConstantsAssumption, ExecPair
    DEF LockIsLatest, TypeOK, RunsAccounted, Runs, MaxRuns, Exec,
         QueueState, Pc, LivePc, RowStatus, ItemStatus, DeviceStatus, Command, Result, Live, Device, Exists, HasRow, Goto, SetRow, Fault,
         bullVars, execVars, rowVars, deviceVars, busVars, faultVars
<1>1. ASSUME NEW j \in Jobs, Enqueue(j) \/ Take(j) \/ BackoffEnds(j) \/ Stall(j)
      PROVE  LockIsLatest'
  BY <1>1 DEF Enqueue, Take, BackoffEnds, Stall
<1>2. ASSUME NEW d \in Devices, DeleteDevice(d) \/ \E a \in Agents : LinkDeviceAgent(d, a)
      PROVE  LockIsLatest'
  BY <1>2 DEF DeleteDevice, LinkDeviceAgent
<1>3. ASSUME NEW e \in Exec, Step(e)
      PROVE  LockIsLatest'
  BY <1>3 DEF Step, LoadDevice, EmptyPackage, CreateSyncJob, CreateFails, Publish,
         Timeout, CommitSuccess, RecordError, Complete, Fail, OrphanTimeout, Die
<1>4. ASSUME NEW e \in Exec, FaultyStep(e)
      PROVE  LockIsLatest'
  BY <1>4 DEF FaultyStep, PublishFails, DatabaseFails, CreateUnacknowledged, CommitUnacknowledged
<1>5. ASSUME NEW r \in resultBus, ReceiveResult(r)
      PROVE  LockIsLatest'
  BY <1>5 DEF ReceiveResult
<1>6. ASSUME Crash \/ LoseMessage \/ UNCHANGED vars
      PROVE  LockIsLatest'
  BY <1>6 DEF Crash, Die, LoseMessage, LoseCommand, LoseResult, vars
<1>7. ASSUME OtherNext
      PROVE  LockIsLatest'
  BY <1>7 DEF OtherNext, Answer, TouchDevices
<1> HIDE DEF LockIsLatest, TypeOK, RunsAccounted, Runs, MaxRuns, Exec,
         QueueState, Pc, LivePc, RowStatus, ItemStatus, DeviceStatus, Command, Result, Live, Device, Exists, HasRow, Goto, SetRow, Fault,
         bullVars, execVars, rowVars, deviceVars, busVars, faultVars
<1> QED
  BY <1>1, <1>2, <1>3, <1>4, <1>5, <1>6, <1>7 DEF Next, WorkerNext

\* A run that has not been taken has done nothing.
LEMMA FreshPreserved == IInv /\ [Next]_vars => FreshRuns'
<1> SUFFICES ASSUME FreshRuns, TypeOK, RunsAccounted, LockIsLatest, [Next]_vars
             PROVE  FreshRuns'
  BY DEF IInv
<1> USE ConstantsAssumption, ExecPair
    DEF FreshRuns, TypeOK, RunsAccounted, LockIsLatest, Runs, MaxRuns, Exec,
         QueueState, Pc, LivePc, RowStatus, ItemStatus, DeviceStatus, Command, Result, Live, Device, Exists, HasRow, Goto, SetRow, Fault,
         bullVars, execVars, rowVars, deviceVars, busVars, faultVars
<1>1. ASSUME NEW j \in Jobs, Enqueue(j) \/ Take(j) \/ BackoffEnds(j) \/ Stall(j)
      PROVE  FreshRuns'
  <2>1. CASE Enqueue(j)
    BY <2>1 DEF Enqueue
  <2>2. CASE Take(j)
    BY <2>2 DEF Take
  <2>3. CASE BackoffEnds(j)
    BY <2>3 DEF BackoffEnds
  <2>4. CASE Stall(j)
    BY <2>4 DEF Stall
  <2> QED
    BY <1>1, <2>1, <2>2, <2>3, <2>4
<1>2. ASSUME NEW d \in Devices, DeleteDevice(d) \/ \E a \in Agents : LinkDeviceAgent(d, a)
      PROVE  FreshRuns'
  BY <1>2 DEF DeleteDevice, LinkDeviceAgent
<1>3. ASSUME NEW e \in Exec, Step(e)
      PROVE  FreshRuns'
  <2>1. CASE LoadDevice(e)
    BY SMTT(60), <2>1 DEF LoadDevice
  <2>2. CASE EmptyPackage(e)
    BY <2>2 DEF EmptyPackage
  <2>3. CASE CreateSyncJob(e)
    BY <2>3 DEF CreateSyncJob
  <2>4. CASE CreateFails(e)
    BY <2>4 DEF CreateFails
  <2>5. CASE Publish(e)
    BY <2>5 DEF Publish
  <2>6. CASE Timeout(e)
    BY <2>6 DEF Timeout
  <2>7. CASE CommitSuccess(e)
      <3>1. CASE HasRow(e)
        <4>1. /\ e = <<e[1], e[2]>> /\ ~(e[2] > runs[e[1]])
              /\ pc' = [pc EXCEPT ![e] = "returned"] /\ runs' = runs
          BY <2>7, <3>1 DEF CommitSuccess
        <4>2. ASSUME NEW j \in Jobs, NEW n \in Runs, n > runs[j]
              PROVE  <<j, n>> # e /\ <<j, n>> \in Exec
          BY <4>1, <4>2
        <4> QED
          BY <4>1, <4>2
      <3>2. CASE ~(HasRow(e))
        BY SMTT(60), <2>7, <3>2 DEF CommitSuccess
      <3> QED
        BY <3>1, <3>2
  <2>8. CASE RecordError(e)
      <3>1. CASE HasRow(e)
        BY <2>8, <3>1 DEF RecordError
      <3>2. CASE ~(HasRow(e))
        BY <2>8, <3>2 DEF RecordError
      <3> QED
        BY <3>1, <3>2
  <2>9. CASE Complete(e)
    BY <2>9 DEF Complete
  <2>10. CASE Fail(e)
    BY <2>10 DEF Fail
  <2>11. CASE OrphanTimeout(e)
    BY <2>11 DEF OrphanTimeout, Die
  <2> QED
    BY <1>3, <2>1, <2>2, <2>3, <2>4, <2>5, <2>6, <2>7, <2>8, <2>9, <2>10, <2>11 DEF Step
<1>4. ASSUME NEW e \in Exec, FaultyStep(e)
      PROVE  FreshRuns'
  <2>1. CASE PublishFails(e)
    BY <2>1 DEF PublishFails
  <2>2. CASE DatabaseFails(e)
    BY <2>2 DEF DatabaseFails
  <2>3. CASE CommitUnacknowledged(e)
    BY <2>3 DEF CommitUnacknowledged
  <2>4. CASE CreateUnacknowledged(e)
    BY <2>4 DEF CreateUnacknowledged
  <2> QED
    BY <1>4, <2>1, <2>2, <2>3, <2>4 DEF FaultyStep
<1>5. ASSUME NEW r \in resultBus, ReceiveResult(r)
      PROVE  FreshRuns'
    <2>1. CASE r.corr \in pending /\ pc[r.corr] = "awaiting"
      <3>1. r.corr \in Exec /\ r.corr[2] <= runs[r.corr[1]]
        BY SMTT(30), <1>5, <2>1
      <3>2. r.corr = <<r.corr[1], r.corr[2]>>
        BY <3>1
      <3>3. PICK where : pc' = [pc EXCEPT ![r.corr] = where]
        BY <1>5, <2>1 DEF ReceiveResult
      <3>4. ASSUME NEW j \in Jobs, NEW n \in Runs, n > runs[j]
            PROVE  <<j, n>> # r.corr
        BY <3>1, <3>2, <3>4
      <3> QED
        BY <1>5, <3>3, <3>4 DEF ReceiveResult
    <2>2. CASE ~(r.corr \in pending /\ pc[r.corr] = "awaiting")
      BY <1>5, <2>2 DEF ReceiveResult
    <2> QED
      BY <2>1, <2>2
<1>6. ASSUME Crash \/ LoseMessage \/ UNCHANGED vars
      PROVE  FreshRuns'
  <2>1. CASE Crash
    BY <2>1 DEF Crash, Die
  <2>2. CASE LoseMessage
    BY <2>2 DEF LoseMessage, LoseCommand, LoseResult
  <2>3. CASE UNCHANGED vars
    BY <2>3 DEF vars
  <2> QED
    BY <1>6, <2>1, <2>2, <2>3
<1>7. ASSUME OtherNext
      PROVE  FreshRuns'
  BY <1>7 DEF OtherNext, Answer, TouchDevices
<1> HIDE DEF FreshRuns, TypeOK, RunsAccounted, LockIsLatest, Runs, MaxRuns, Exec,
         QueueState, Pc, LivePc, RowStatus, ItemStatus, DeviceStatus, Command, Result, Live, Device, Exists, HasRow, Goto, SetRow, Fault,
         bullVars, execVars, rowVars, deviceVars, busVars, faultVars
<1> QED
  BY <1>1, <1>2, <1>3, <1>4, <1>5, <1>6, <1>7 DEF Next, WorkerNext

\* Without a stall, the next run is taken only after the last one is over.
LEMMA LivePreserved == IInv /\ [Next]_vars => LiveHasLock'
<1> SUFFICES ASSUME LiveHasLock, TypeOK, LockIsLatest, RunsAccounted, FreshRuns, [Next]_vars
             PROVE  LiveHasLock'
  BY DEF IInv
<1> USE ConstantsAssumption, ExecPair
    DEF LiveHasLock, TypeOK, LockIsLatest, RunsAccounted, FreshRuns, Runs, MaxRuns, Exec,
         QueueState, Pc, LivePc, RowStatus, ItemStatus, DeviceStatus, Command, Result, Live, Device, Exists, HasRow, Goto, SetRow, Fault,
         bullVars, execVars, rowVars, deviceVars, busVars, faultVars
<1>1. ASSUME NEW j \in Jobs, Enqueue(j) \/ Take(j) \/ BackoffEnds(j) \/ Stall(j)
      PROVE  LiveHasLock'
  BY <1>1 DEF Enqueue, Take, BackoffEnds, Stall
<1>2. ASSUME NEW d \in Devices, DeleteDevice(d) \/ \E a \in Agents : LinkDeviceAgent(d, a)
      PROVE  LiveHasLock'
  BY <1>2 DEF DeleteDevice, LinkDeviceAgent
<1>3. ASSUME NEW e \in Exec, Step(e)
      PROVE  LiveHasLock'
  <2>1. CASE LoadDevice(e)
    BY <2>1 DEF LoadDevice
  <2>2. CASE EmptyPackage(e)
    BY <2>2 DEF EmptyPackage
  <2>3. CASE CreateSyncJob(e)
    BY <2>3 DEF CreateSyncJob
  <2>4. CASE CreateFails(e)
    BY <2>4 DEF CreateFails
  <2>5. CASE Publish(e)
    BY <2>5 DEF Publish
  <2>6. CASE Timeout(e)
    BY <2>6 DEF Timeout
  <2>7. CASE CommitSuccess(e)
    BY <2>7 DEF CommitSuccess
  <2>8. CASE RecordError(e)
    BY <2>8 DEF RecordError
  <2>9. CASE Complete(e)
    BY <2>9 DEF Complete
  <2>10. CASE Fail(e)
    BY <2>10 DEF Fail
  <2>11. CASE OrphanTimeout(e)
    BY <2>11 DEF OrphanTimeout, Die
  <2> QED
    BY <1>3, <2>1, <2>2, <2>3, <2>4, <2>5, <2>6, <2>7, <2>8, <2>9, <2>10, <2>11 DEF Step
<1>4. ASSUME NEW e \in Exec, FaultyStep(e)
      PROVE  LiveHasLock'
  BY <1>4 DEF FaultyStep, PublishFails, DatabaseFails, CreateUnacknowledged, CommitUnacknowledged
<1>5. ASSUME NEW r \in resultBus, ReceiveResult(r)
      PROVE  LiveHasLock'
  BY <1>5 DEF ReceiveResult
<1>6. ASSUME Crash \/ LoseMessage \/ UNCHANGED vars
      PROVE  LiveHasLock'
  BY <1>6 DEF Crash, Die, LoseMessage, LoseCommand, LoseResult, vars
<1>7. ASSUME OtherNext
      PROVE  LiveHasLock'
  BY <1>7 DEF OtherNext, Answer, TouchDevices
<1> HIDE DEF LiveHasLock, TypeOK, LockIsLatest, RunsAccounted, FreshRuns, Runs, MaxRuns, Exec,
         QueueState, Pc, LivePc, RowStatus, ItemStatus, DeviceStatus, Command, Result, Live, Device, Exists, HasRow, Goto, SetRow, Fault,
         bullVars, execVars, rowVars, deviceVars, busVars, faultVars
<1> QED
  BY <1>1, <1>2, <1>3, <1>4, <1>5, <1>6, <1>7 DEF Next, WorkerNext

\* The row of an execution is where the execution's position says.
LEMMA RowPreserved == IInv /\ [Next]_vars => RowFollowsPc'
<1> SUFFICES ASSUME RowFollowsPc, TypeOK, FreshRuns, RunsAccounted, LockIsLatest, [Next]_vars
             PROVE  RowFollowsPc'
  BY DEF IInv
<1> USE ConstantsAssumption, ExecPair
    DEF RowFollowsPc, TypeOK, FreshRuns, RunsAccounted, LockIsLatest, Runs, MaxRuns, Exec,
         QueueState, Pc, LivePc, RowStatus, ItemStatus, DeviceStatus, Command, Result, Live, Device, Exists, HasRow, Goto, SetRow, Fault,
         bullVars, execVars, rowVars, deviceVars, busVars, faultVars
<1>1. ASSUME NEW j \in Jobs, Enqueue(j) \/ Take(j) \/ BackoffEnds(j) \/ Stall(j)
      PROVE  RowFollowsPc'
  <2>1. CASE Enqueue(j)
    BY <2>1 DEF Enqueue
  <2>2. CASE Take(j)
    BY <2>2 DEF Take
  <2>3. CASE BackoffEnds(j)
    BY <2>3 DEF BackoffEnds
  <2>4. CASE Stall(j)
    BY <2>4 DEF Stall
  <2> QED
    BY <1>1, <2>1, <2>2, <2>3, <2>4
<1>2. ASSUME NEW d \in Devices, DeleteDevice(d) \/ \E a \in Agents : LinkDeviceAgent(d, a)
      PROVE  RowFollowsPc'
  BY <1>2 DEF DeleteDevice, LinkDeviceAgent
<1>3. ASSUME NEW e \in Exec, Step(e)
      PROVE  RowFollowsPc'
  BY <1>3 DEF Step, LoadDevice, EmptyPackage, CreateSyncJob, CreateFails, Publish,
         Timeout, CommitSuccess, RecordError, Complete, Fail, OrphanTimeout, Die
<1>4. ASSUME NEW e \in Exec, FaultyStep(e)
      PROVE  RowFollowsPc'
  BY <1>4 DEF FaultyStep, PublishFails, DatabaseFails, CreateUnacknowledged, CommitUnacknowledged
<1>5. ASSUME NEW r \in resultBus, ReceiveResult(r)
      PROVE  RowFollowsPc'
  BY <1>5 DEF ReceiveResult
<1>6. ASSUME Crash \/ LoseMessage \/ UNCHANGED vars
      PROVE  RowFollowsPc'
  BY <1>6 DEF Crash, Die, LoseMessage, LoseCommand, LoseResult, vars
<1>7. ASSUME OtherNext
      PROVE  RowFollowsPc'
  BY <1>7 DEF OtherNext, Answer, TouchDevices
<1> HIDE DEF RowFollowsPc, TypeOK, FreshRuns, RunsAccounted, LockIsLatest, Runs, MaxRuns, Exec,
         QueueState, Pc, LivePc, RowStatus, ItemStatus, DeviceStatus, Command, Result, Live, Device, Exists, HasRow, Goto, SetRow, Fault,
         bullVars, execVars, rowVars, deviceVars, busVars, faultVars
<1> QED
  BY <1>1, <1>2, <1>3, <1>4, <1>5, <1>6, <1>7 DEF Next, WorkerNext

\* A command always has an addressee.
LEMMA TargetPreserved == IInv /\ [Next]_vars => TargetKnown'
<1> SUFFICES ASSUME TargetKnown, TypeOK, [Next]_vars
             PROVE  TargetKnown'
  BY DEF IInv
<1> USE ConstantsAssumption, ExecPair
    DEF TargetKnown, TypeOK, Runs, MaxRuns, Exec,
         QueueState, Pc, LivePc, RowStatus, ItemStatus, DeviceStatus, Command, Result, Live, Device, Exists, HasRow, Goto, SetRow, Fault,
         bullVars, execVars, rowVars, deviceVars, busVars, faultVars
<1>1. ASSUME NEW j \in Jobs, Enqueue(j) \/ Take(j) \/ BackoffEnds(j) \/ Stall(j)
      PROVE  TargetKnown'
  BY <1>1 DEF Enqueue, Take, BackoffEnds, Stall
<1>2. ASSUME NEW d \in Devices, DeleteDevice(d) \/ \E a \in Agents : LinkDeviceAgent(d, a)
      PROVE  TargetKnown'
  BY <1>2 DEF DeleteDevice, LinkDeviceAgent
<1>3. ASSUME NEW e \in Exec, Step(e)
      PROVE  TargetKnown'
  BY <1>3 DEF Step, LoadDevice, EmptyPackage, CreateSyncJob, CreateFails, Publish,
         Timeout, CommitSuccess, RecordError, Complete, Fail, OrphanTimeout, Die
<1>4. ASSUME NEW e \in Exec, FaultyStep(e)
      PROVE  TargetKnown'
  BY <1>4 DEF FaultyStep, PublishFails, DatabaseFails, CreateUnacknowledged, CommitUnacknowledged
<1>5. ASSUME NEW r \in resultBus, ReceiveResult(r)
      PROVE  TargetKnown'
  BY <1>5 DEF ReceiveResult
<1>6. ASSUME Crash \/ LoseMessage \/ UNCHANGED vars
      PROVE  TargetKnown'
  BY <1>6 DEF Crash, Die, LoseMessage, LoseCommand, LoseResult, vars
<1>7. ASSUME OtherNext
      PROVE  TargetKnown'
  BY <1>7 DEF OtherNext, Answer, TouchDevices
<1> HIDE DEF TargetKnown, TypeOK, Runs, MaxRuns, Exec,
         QueueState, Pc, LivePc, RowStatus, ItemStatus, DeviceStatus, Command, Result, Live, Device, Exists, HasRow, Goto, SetRow, Fault,
         bullVars, execVars, rowVars, deviceVars, busVars, faultVars
<1> QED
  BY <1>1, <1>2, <1>3, <1>4, <1>5, <1>6, <1>7 DEF Next, WorkerNext

\* An ok in flight, and a commit it leads to, were reported.
LEMMA OkPreserved == IInv /\ [Next]_vars => OkWasReported'
<1> SUFFICES ASSUME OkWasReported, TypeOK, [Next]_vars
             PROVE  OkWasReported'
  BY DEF IInv
<1> USE ConstantsAssumption, ExecPair
    DEF OkWasReported, TypeOK, Runs, MaxRuns, Exec,
         QueueState, Pc, LivePc, RowStatus, ItemStatus, DeviceStatus, Command, Result, Live, Device, Exists, HasRow, Goto, SetRow, Fault,
         bullVars, execVars, rowVars, deviceVars, busVars, faultVars
<1>1. ASSUME NEW j \in Jobs, Enqueue(j) \/ Take(j) \/ BackoffEnds(j) \/ Stall(j)
      PROVE  OkWasReported'
  BY <1>1 DEF Enqueue, Take, BackoffEnds, Stall
<1>2. ASSUME NEW d \in Devices, DeleteDevice(d) \/ \E a \in Agents : LinkDeviceAgent(d, a)
      PROVE  OkWasReported'
  BY <1>2 DEF DeleteDevice, LinkDeviceAgent
<1>3. ASSUME NEW e \in Exec, Step(e)
      PROVE  OkWasReported'
  BY <1>3 DEF Step, LoadDevice, EmptyPackage, CreateSyncJob, CreateFails, Publish,
         Timeout, CommitSuccess, RecordError, Complete, Fail, OrphanTimeout, Die
<1>4. ASSUME NEW e \in Exec, FaultyStep(e)
      PROVE  OkWasReported'
  BY <1>4 DEF FaultyStep, PublishFails, DatabaseFails, CreateUnacknowledged, CommitUnacknowledged
<1>5. ASSUME NEW r \in resultBus, ReceiveResult(r)
      PROVE  OkWasReported'
  BY <1>5 DEF ReceiveResult
<1>6. ASSUME Crash \/ LoseMessage \/ UNCHANGED vars
      PROVE  OkWasReported'
  BY <1>6 DEF Crash, Die, LoseMessage, LoseCommand, LoseResult, vars
<1>7. ASSUME OtherNext
      PROVE  OkWasReported'
  BY <1>7 DEF OtherNext, Answer, TouchDevices
<1> HIDE DEF OkWasReported, TypeOK, Runs, MaxRuns, Exec,
         QueueState, Pc, LivePc, RowStatus, ItemStatus, DeviceStatus, Command, Result, Live, Device, Exists, HasRow, Goto, SetRow, Fault,
         bullVars, execVars, rowVars, deviceVars, busVars, faultVars
<1> QED
  BY <1>1, <1>2, <1>3, <1>4, <1>5, <1>6, <1>7 DEF Next, WorkerNext

\* A SUCCESS row is written only from a commit.
LEMMA SuccessPreserved == IInv /\ [Next]_vars => SuccessWasReported'
<1> SUFFICES ASSUME SuccessWasReported, TypeOK, OkWasReported, [Next]_vars
             PROVE  SuccessWasReported'
  BY DEF IInv
<1> USE ConstantsAssumption, ExecPair
    DEF SuccessWasReported, TypeOK, OkWasReported, Runs, MaxRuns, Exec,
         QueueState, Pc, LivePc, RowStatus, ItemStatus, DeviceStatus, Command, Result, Live, Device, Exists, HasRow, Goto, SetRow, Fault,
         bullVars, execVars, rowVars, deviceVars, busVars, faultVars
<1>1. ASSUME NEW j \in Jobs, Enqueue(j) \/ Take(j) \/ BackoffEnds(j) \/ Stall(j)
      PROVE  SuccessWasReported'
  BY <1>1 DEF Enqueue, Take, BackoffEnds, Stall
<1>2. ASSUME NEW d \in Devices, DeleteDevice(d) \/ \E a \in Agents : LinkDeviceAgent(d, a)
      PROVE  SuccessWasReported'
  BY <1>2 DEF DeleteDevice, LinkDeviceAgent
<1>3. ASSUME NEW e \in Exec, Step(e)
      PROVE  SuccessWasReported'
  BY <1>3 DEF Step, LoadDevice, EmptyPackage, CreateSyncJob, CreateFails, Publish,
         Timeout, CommitSuccess, RecordError, Complete, Fail, OrphanTimeout, Die
<1>4. ASSUME NEW e \in Exec, FaultyStep(e)
      PROVE  SuccessWasReported'
  BY <1>4 DEF FaultyStep, PublishFails, DatabaseFails, CreateUnacknowledged, CommitUnacknowledged
<1>5. ASSUME NEW r \in resultBus, ReceiveResult(r)
      PROVE  SuccessWasReported'
  BY <1>5 DEF ReceiveResult
<1>6. ASSUME Crash \/ LoseMessage \/ UNCHANGED vars
      PROVE  SuccessWasReported'
  BY <1>6 DEF Crash, Die, LoseMessage, LoseCommand, LoseResult, vars
<1>7. ASSUME OtherNext
      PROVE  SuccessWasReported'
  BY <1>7 DEF OtherNext, Answer, TouchDevices
<1> HIDE DEF SuccessWasReported, TypeOK, OkWasReported, Runs, MaxRuns, Exec,
         QueueState, Pc, LivePc, RowStatus, ItemStatus, DeviceStatus, Command, Result, Live, Device, Exists, HasRow, Goto, SetRow, Fault,
         bullVars, execVars, rowVars, deviceVars, busVars, faultVars
<1> QED
  BY <1>1, <1>2, <1>3, <1>4, <1>5, <1>6, <1>7 DEF Next, WorkerNext

\* Row and items are written by the same transactions.
LEMMA ItemsPreserved == IInv /\ [Next]_vars => ItemsFollowRow'
<1> SUFFICES ASSUME ItemsFollowRow, TypeOK, RowFollowsPc, [Next]_vars
             PROVE  ItemsFollowRow'
  BY DEF IInv
<1> USE ConstantsAssumption, ExecPair
    DEF ItemsFollowRow, TypeOK, RowFollowsPc, Runs, MaxRuns, Exec,
         QueueState, Pc, LivePc, RowStatus, ItemStatus, DeviceStatus, Command, Result, Live, Device, Exists, HasRow, Goto, SetRow, Fault,
         bullVars, execVars, rowVars, deviceVars, busVars, faultVars
<1>1. ASSUME NEW j \in Jobs, Enqueue(j) \/ Take(j) \/ BackoffEnds(j) \/ Stall(j)
      PROVE  ItemsFollowRow'
  BY <1>1 DEF Enqueue, Take, BackoffEnds, Stall
<1>2. ASSUME NEW d \in Devices, DeleteDevice(d) \/ \E a \in Agents : LinkDeviceAgent(d, a)
      PROVE  ItemsFollowRow'
  BY <1>2 DEF DeleteDevice, LinkDeviceAgent
<1>3. ASSUME NEW e \in Exec, Step(e)
      PROVE  ItemsFollowRow'
  BY <1>3 DEF Step, LoadDevice, EmptyPackage, CreateSyncJob, CreateFails, Publish,
         Timeout, CommitSuccess, RecordError, Complete, Fail, OrphanTimeout, Die
<1>4. ASSUME NEW e \in Exec, FaultyStep(e)
      PROVE  ItemsFollowRow'
  BY <1>4 DEF FaultyStep, PublishFails, DatabaseFails, CreateUnacknowledged, CommitUnacknowledged
<1>5. ASSUME NEW r \in resultBus, ReceiveResult(r)
      PROVE  ItemsFollowRow'
  BY <1>5 DEF ReceiveResult
<1>6. ASSUME Crash \/ LoseMessage \/ UNCHANGED vars
      PROVE  ItemsFollowRow'
  BY <1>6 DEF Crash, Die, LoseMessage, LoseCommand, LoseResult, vars
<1>7. ASSUME OtherNext
      PROVE  ItemsFollowRow'
  BY <1>7 DEF OtherNext, Answer, TouchDevices
<1> HIDE DEF ItemsFollowRow, TypeOK, RowFollowsPc, Runs, MaxRuns, Exec,
         QueueState, Pc, LivePc, RowStatus, ItemStatus, DeviceStatus, Command, Result, Live, Device, Exists, HasRow, Goto, SetRow, Fault,
         bullVars, execVars, rowVars, deviceVars, busVars, faultVars
<1> QED
  BY <1>1, <1>2, <1>3, <1>4, <1>5, <1>6, <1>7 DEF Next, WorkerNext

\* Every way out of the processor settles the row first.
LEMMA EndedPreserved == IInv /\ [Next]_vars => EndedIsSettled'
<1> SUFFICES ASSUME EndedIsSettled, TypeOK, RowFollowsPc, FreshRuns, RunsAccounted, LockIsLatest, [Next]_vars
             PROVE  EndedIsSettled'
  BY DEF IInv
<1> USE ConstantsAssumption, ExecPair
    DEF EndedIsSettled, TypeOK, RowFollowsPc, FreshRuns, RunsAccounted, LockIsLatest, Runs, MaxRuns, Exec,
         QueueState, Pc, LivePc, RowStatus, ItemStatus, DeviceStatus, Command, Result, Live, Device, Exists, HasRow, Goto, SetRow, Fault,
         bullVars, execVars, rowVars, deviceVars, busVars, faultVars
<1>1. ASSUME NEW j \in Jobs, Enqueue(j) \/ Take(j) \/ BackoffEnds(j) \/ Stall(j)
      PROVE  EndedIsSettled'
  BY <1>1 DEF Enqueue, Take, BackoffEnds, Stall
<1>2. ASSUME NEW d \in Devices, DeleteDevice(d) \/ \E a \in Agents : LinkDeviceAgent(d, a)
      PROVE  EndedIsSettled'
  BY <1>2 DEF DeleteDevice, LinkDeviceAgent
<1>3. ASSUME NEW e \in Exec, Step(e)
      PROVE  EndedIsSettled'
  BY <1>3 DEF Step, LoadDevice, EmptyPackage, CreateSyncJob, CreateFails, Publish,
         Timeout, CommitSuccess, RecordError, Complete, Fail, OrphanTimeout, Die
<1>4. ASSUME NEW e \in Exec, FaultyStep(e)
      PROVE  EndedIsSettled'
  BY <1>4 DEF FaultyStep, PublishFails, DatabaseFails, CreateUnacknowledged, CommitUnacknowledged
<1>5. ASSUME NEW r \in resultBus, ReceiveResult(r)
      PROVE  EndedIsSettled'
  BY <1>5 DEF ReceiveResult
<1>6. ASSUME Crash \/ LoseMessage \/ UNCHANGED vars
      PROVE  EndedIsSettled'
  BY <1>6 DEF Crash, Die, LoseMessage, LoseCommand, LoseResult, vars
<1>7. ASSUME OtherNext
      PROVE  EndedIsSettled'
  BY <1>7 DEF OtherNext, Answer, TouchDevices
<1> HIDE DEF EndedIsSettled, TypeOK, RowFollowsPc, FreshRuns, RunsAccounted, LockIsLatest, Runs, MaxRuns, Exec,
         QueueState, Pc, LivePc, RowStatus, ItemStatus, DeviceStatus, Command, Result, Live, Device, Exists, HasRow, Goto, SetRow, Fault,
         bullVars, execVars, rowVars, deviceVars, busVars, faultVars
<1> QED
  BY <1>1, <1>2, <1>3, <1>4, <1>5, <1>6, <1>7 DEF Next, WorkerNext

\* A deleted device never comes back.
LEMMA DeletedStays ==
  ASSUME TypeOK, RowFollowsPc, [Next]_vars, NEW d \in Devices, ~Exists(d)
  PROVE  ~Exists(d)'
<1> USE ConstantsAssumption, ExecPair
    DEF TypeOK, RowFollowsPc, Exists, HasRow, Device, bullVars, execVars, rowVars, deviceVars, busVars, faultVars
<1>1. ASSUME NEW j \in Jobs, Enqueue(j) \/ Take(j) \/ BackoffEnds(j) \/ Stall(j)
      PROVE  ~Exists(d)'
  BY <1>1 DEF Enqueue, Take, BackoffEnds, Stall
<1>2. ASSUME NEW x \in Devices, DeleteDevice(x) \/ \E a \in Agents : LinkDeviceAgent(x, a)
      PROVE  ~Exists(d)'
  BY <1>2 DEF DeleteDevice, LinkDeviceAgent
<1>3. ASSUME NEW e \in Exec, Step(e)
      PROVE  ~Exists(d)'
  BY <1>3 DEF Step, LoadDevice, EmptyPackage, CreateSyncJob, CreateFails, Publish, Timeout,
         CommitSuccess, RecordError, Complete, Fail, OrphanTimeout, Die
<1>4. ASSUME NEW e \in Exec, FaultyStep(e)
      PROVE  ~Exists(d)'
  BY <1>4 DEF FaultyStep, PublishFails, DatabaseFails, CreateUnacknowledged, CommitUnacknowledged
<1>5. ASSUME (\E r \in resultBus : ReceiveResult(r)) \/ Crash \/ LoseMessage \/ UNCHANGED vars
             \/ OtherNext
      PROVE  ~Exists(d)'
  BY <1>5 DEF ReceiveResult, Crash, Die, LoseMessage, LoseCommand, LoseResult, OtherNext, Answer, TouchDevices, vars
<1> QED
  BY <1>1, <1>2, <1>3, <1>4, <1>5 DEF Next, WorkerNext

\* Only Complete makes a job completed.
LEMMA CompletedByComplete ==
  ASSUME TypeOK, [Next]_vars, NEW i \in Jobs, queue[i] # "completed", queue'[i] = "completed"
  PROVE  \E e \in Exec : Complete(e) /\ e[1] = i
<1> DEFINE Goal == \E e \in Exec : Complete(e) /\ e[1] = i
<1> USE ExecPair DEF TypeOK, bullVars, faultVars
<1>1. ASSUME NEW j \in Jobs, Enqueue(j) \/ Take(j) \/ BackoffEnds(j) \/ Stall(j)
      PROVE  Goal
  BY <1>1 DEF Enqueue, Take, BackoffEnds, Stall
<1>2. ASSUME NEW x \in Devices, DeleteDevice(x) \/ \E a \in Agents : LinkDeviceAgent(x, a)
      PROVE  Goal
  BY <1>2 DEF DeleteDevice, LinkDeviceAgent
<1>3. ASSUME NEW e \in Exec, Step(e)
      PROVE  Goal
  <2>1. CASE Complete(e)
    BY <2>1 DEF Complete
  <2>2. CASE Fail(e)
    BY <2>2 DEF Fail
  <2>3. CASE ~Complete(e) /\ ~Fail(e)
    BY <1>3, <2>3 DEF Step, LoadDevice, EmptyPackage, CreateSyncJob, CreateFails, Publish,
         Timeout, CommitSuccess, RecordError, OrphanTimeout, Die
  <2> QED
    BY <2>1, <2>2, <2>3
<1>4. ASSUME NEW e \in Exec, FaultyStep(e)
      PROVE  Goal
  BY <1>4 DEF FaultyStep, PublishFails, DatabaseFails, CreateUnacknowledged, CommitUnacknowledged
<1>5. ASSUME (\E r \in resultBus : ReceiveResult(r)) \/ Crash \/ LoseMessage \/ UNCHANGED vars
             \/ OtherNext
      PROVE  Goal
  BY <1>5 DEF ReceiveResult, Crash, Die, LoseMessage, LoseCommand, LoseResult, OtherNext, Answer, TouchDevices, vars
<1>6. Goal
  <2> HIDE DEF Goal
  <2> QED
    BY <1>1, <1>2, <1>3, <1>4, <1>5 DEF Next, WorkerNext
<1> QED
  BY <1>6

\* The SUCCESS row of a completed job belongs to an execution that is over, and
\* only the deletion of the device touches such a row.
LEMMA CompletedPreserved == IInv /\ [Next]_vars => CompletedByOver'
<1> SUFFICES ASSUME CompletedByOver, TypeOK, RowFollowsPc, FreshRuns, LockIsLatest,
                    [Next]_vars, NEW i \in Jobs, queue'[i] = "completed"
             PROVE  \/ ~Exists(DeviceOf[i])'
                    \/ \E n \in Runs : syncJob'[<<i, n>>] = "SUCCESS" /\ pc'[<<i, n>>] = "over"
  BY DEF IInv, CompletedByOver, Exists
<1> DEFINE Kept == \/ ~Exists(DeviceOf[i])'
                   \/ \E n \in Runs : syncJob'[<<i, n>>] = "SUCCESS" /\ pc'[<<i, n>>] = "over"
<1> USE ConstantsAssumption, ExecPair
    DEF TypeOK, RowFollowsPc, FreshRuns, LockIsLatest, Runs, MaxRuns, Exec,
         QueueState, Pc, LivePc, RowStatus, ItemStatus, DeviceStatus, Command, Result, Live, Device, Exists, HasRow, Goto, SetRow, Fault,
         bullVars, execVars, rowVars, deviceVars, busVars, faultVars
<1>0. CASE queue[i] = "completed" /\ ~Exists(DeviceOf[i])
  BY <1>0, DeletedStays
<1>1. CASE queue[i] = "completed" /\ Exists(DeviceOf[i])
  <2>1. PICK n \in Runs : syncJob[<<i, n>>] = "SUCCESS" /\ pc[<<i, n>>] = "over"
    BY <1>1 DEF CompletedByOver
  <2>2. /\ <<i, n>> \in Exec
        /\ Device(<<i, n>>) = DeviceOf[i]
        /\ runs[i] \in Nat
        /\ ~(n > runs[i])
    BY <2>1
  <2> DEFINE Same == /\ pc'[<<i, n>>] = "over"
                     /\ syncJob'[<<i, n>>] = "SUCCESS" \/ ~Exists(DeviceOf[i])'
  <2>3. ASSUME NEW j \in Jobs, Enqueue(j) \/ Take(j) \/ BackoffEnds(j) \/ Stall(j)
        PROVE  Same
    BY <2>1, <2>2, <2>3 DEF Enqueue, Take, BackoffEnds, Stall
  <2>4. ASSUME NEW d \in Devices, DeleteDevice(d) \/ \E a \in Agents : LinkDeviceAgent(d, a)
        PROVE  Same
    BY <2>1, <2>2, <2>4 DEF DeleteDevice, LinkDeviceAgent
  <2>5. ASSUME NEW e \in Exec, Step(e)
        PROVE  Same
    <3>1. CASE OrphanTimeout(e)
      BY <2>1, <2>2, <3>1 DEF OrphanTimeout, Die
    <3>2. CASE ~OrphanTimeout(e)
      <4>1. e # <<i, n>>
        BY <2>1, <2>5, <3>2
        DEF Step, LoadDevice, EmptyPackage, CreateSyncJob, CreateFails, Publish,
            Timeout, CommitSuccess, RecordError, Complete, Fail
      <4>2. /\ pc' = [pc EXCEPT ![e] = pc'[e]]
            /\ syncJob' = [syncJob EXCEPT ![e] = syncJob'[e]]
        BY <2>5, <3>2
        DEF Step, LoadDevice, EmptyPackage, CreateSyncJob, CreateFails, Publish,
            Timeout, CommitSuccess, RecordError, Complete, Fail
      <4> QED
        BY <2>1, <2>2, <4>1, <4>2
    <3> QED
      BY <3>1, <3>2
  <2>6. ASSUME NEW e \in Exec, FaultyStep(e)
        PROVE  Same
    BY <2>1, <2>2, <2>6 DEF FaultyStep, PublishFails, DatabaseFails, CreateUnacknowledged, CommitUnacknowledged
  <2>7. ASSUME NEW r \in resultBus, ReceiveResult(r)
        PROVE  Same
    BY <2>1, <2>2, <2>7 DEF ReceiveResult
  <2>8. ASSUME Crash \/ LoseMessage \/ UNCHANGED vars
        PROVE  Same
    <3>1. CASE Crash
      BY <2>1, <2>2, <3>1 DEF Crash, Die
    <3>2. CASE LoseMessage \/ UNCHANGED vars
      BY <2>1, <2>2, <3>2 DEF LoseMessage, LoseCommand, LoseResult, vars
    <3> QED
      BY <2>8, <3>1, <3>2
  <2>9. ASSUME OtherNext
        PROVE  Same
    BY <2>1, <2>2, <2>9 DEF OtherNext, Answer, TouchDevices
  <2>10. Same
    <3> HIDE DEF Same
    <3> QED
      BY <2>3, <2>4, <2>5, <2>6, <2>7, <2>8, <2>9 DEF Next, WorkerNext
  <2> QED
    BY <2>10
<1>2. CASE queue[i] # "completed"
  <2>1. PICK e \in Exec : Complete(e) /\ e[1] = i
    BY <1>2, CompletedByComplete
  <2>2. pc'[e] = "over" /\ syncJob' = syncJob /\ deviceStatus' = deviceStatus
    BY <2>1 DEF Complete
  <2>3. syncJob[e] = "SUCCESS" \/ ~Exists(DeviceOf[i])
    BY <2>1 DEF Complete
  <2>4. e = <<i, e[2]>> /\ e[2] \in Runs
    BY <2>1
  <2>5. /\ syncJob'[<<i, e[2]>>] = "SUCCESS" \/ ~Exists(DeviceOf[i])'
        /\ pc'[<<i, e[2]>>] = "over"
    BY <2>2, <2>3, <2>4
  <2> QED
    BY <2>4, <2>5
<1> QED
  BY <1>0, <1>1, <1>2

-----------------------------------------------------------------------------
LEMMA InitHolds == Init => IInv
<1> SUFFICES ASSUME Init PROVE IInv
  OBVIOUS
<1> USE ConstantsAssumption
    DEF Init, Runs, MaxRuns, Exec,
         QueueState, Pc, LivePc, RowStatus, ItemStatus, DeviceStatus, Command, Result, Live, Device, Exists, HasRow, Goto, SetRow, Fault,
         bullVars, execVars, rowVars, deviceVars, busVars, faultVars
<1>1. TypeOK
  BY DEF TypeOK
<1>2. RunsAccounted /\ LockIsLatest /\ FreshRuns /\ LiveHasLock
  BY DEF RunsAccounted, LockIsLatest, FreshRuns, LiveHasLock
<1>3. RowFollowsPc /\ TargetKnown /\ OkWasReported /\ SuccessWasReported
  BY DEF RowFollowsPc, TargetKnown, OkWasReported, SuccessWasReported
<1>4. CompletedByOver /\ ItemsFollowRow /\ EndedIsSettled
  BY DEF CompletedByOver, ItemsFollowRow, EndedIsSettled
<1> QED
  BY <1>1, <1>2, <1>3, <1>4 DEF IInv

LEMMA StepPreserves == IInv /\ [Next]_vars => IInv'
  BY TypePreserved, RunsPreserved, LockPreserved, FreshPreserved, LivePreserved, RowPreserved,
     TargetPreserved, OkPreserved, SuccessPreserved, ItemsPreserved, EndedPreserved,
     CompletedPreserved
  DEF IInv

\* The inductive invariant holds in every reachable state.
THEOREM Invariant == Spec => []IInv
  BY InitHolds, StepPreserves, PTL DEF Spec

\* Every variable keeps its type; in particular a job never runs more than
\* MaxAttempts + MaxStalls times.
THEOREM TypeCorrect == Spec => []TypeOK
<1>1. IInv => TypeOK
  BY DEF IInv
<1> QED
  BY Invariant, <1>1, PTL

\* A row says SUCCESS only if the agent reported ok for that execution.
THEOREM SuccessTheorem == Spec => []SuccessWasReported
<1>1. IInv => SuccessWasReported
  BY DEF IInv
<1> QED
  BY Invariant, <1>1, PTL

\* A job the queue completed left a SUCCESS row, unless its device is gone.
THEOREM CompletedTheorem == Spec => []CompletedHasSuccess
<1>1. IInv => CompletedHasSuccess
  BY DEF IInv, CompletedByOver, CompletedHasSuccess
<1> QED
  BY Invariant, <1>1, PTL

\* Runs are exactly attempts plus stalls plus the run in progress.
THEOREM RunsTheorem == Spec => []RunsAccounted
<1>1. IInv => RunsAccounted
  BY DEF IInv
<1> QED
  BY Invariant, <1>1, PTL

\* Two executions of a job are alive together only after a stall.
THEOREM OverlapTheorem == Spec => []OverlapNeedsStall
<1>1. IInv => OverlapNeedsStall
  BY ConstantsAssumption DEF IInv, TypeOK, LiveHasLock, OverlapNeedsStall, Runs, MaxRuns
<1> QED
  BY Invariant, <1>1, PTL

\* The items of a row agree with it.
THEOREM ItemsTheorem == Spec => []ItemsFollowRow
<1>1. IInv => ItemsFollowRow
  BY DEF IInv
<1> QED
  BY Invariant, <1>1, PTL

\* An execution that is over left no row in progress, unless the database refused
\* its own error transaction or lost the answer to its own creation.
THEOREM SettledTheorem == Spec => []OverIsSettled
<1>1. IInv => OverIsSettled
  BY DEF IInv, EndedIsSettled, OverIsSettled
<1> QED
  BY Invariant, <1>1, PTL

\* A row in ERROR stays so until its device is deleted.
THEOREM ErrorIsFinalTheorem == Spec => ErrorIsFinal
<1> DEFINE Final == \A e \in Exec : syncJob[e] = "ERROR" => syncJob'[e] \in {"ERROR", "none"}
<1>1. IInv /\ [Next]_vars => [Final]_vars
  <2> SUFFICES ASSUME TypeOK, RowFollowsPc, [Next]_vars, NEW e \in Exec, syncJob[e] = "ERROR"
               PROVE  syncJob'[e] \in {"ERROR", "none"}
    BY DEF IInv
  <2> USE ExecPair DEF TypeOK, RowFollowsPc, HasRow, SetRow, rowVars, faultVars
  <2>1. ASSUME NEW j \in Jobs, Enqueue(j) \/ Take(j) \/ BackoffEnds(j) \/ Stall(j)
        PROVE  syncJob'[e] \in {"ERROR", "none"}
    BY <2>1 DEF Enqueue, Take, BackoffEnds, Stall
  <2>2. ASSUME NEW d \in Devices, DeleteDevice(d) \/ \E a \in Agents : LinkDeviceAgent(d, a)
        PROVE  syncJob'[e] \in {"ERROR", "none"}
    BY <2>2 DEF DeleteDevice, LinkDeviceAgent
  <2>3. ASSUME NEW x \in Exec, Step(x) \/ FaultyStep(x)
        PROVE  syncJob'[e] \in {"ERROR", "none"}
    BY <2>3 DEF Step, LoadDevice, EmptyPackage, CreateSyncJob, CreateFails, Publish, Timeout,
         CommitSuccess, RecordError, Complete, Fail, OrphanTimeout, Die,
         FaultyStep, PublishFails, DatabaseFails, CreateUnacknowledged, CommitUnacknowledged
  <2>4. ASSUME (\E r \in resultBus : ReceiveResult(r)) \/ Crash \/ LoseMessage \/ UNCHANGED vars
               \/ OtherNext
        PROVE  syncJob'[e] \in {"ERROR", "none"}
    BY <2>4 DEF ReceiveResult, Crash, Die, LoseMessage, LoseCommand, LoseResult, OtherNext, Answer, TouchDevices, vars
  <2> QED
    BY <2>1, <2>2, <2>3, <2>4 DEF Next, WorkerNext
<1> QED
  BY Invariant, <1>1, PTL DEF Spec, ErrorIsFinal

\* Each step of the worker is a step of the promise or leaves its rows alone.
LEMMA PromiseStep == IInv /\ [Next]_vars => [Promise!Next]_(Promise!promise)
<1> SUFFICES ASSUME TypeOK, RowFollowsPc, OkWasReported, [Next]_vars
             PROVE  [Promise!Next]_(Promise!promise)
  BY DEF IInv
<1> USE ExecPair DEF TypeOK, RowFollowsPc, OkWasReported, RowStatus, HasRow, SetRow, rowVars, busVars, faultVars
<1>1. ASSUME NEW j \in Jobs, Enqueue(j) \/ Take(j) \/ BackoffEnds(j) \/ Stall(j)
      PROVE  UNCHANGED <<syncJob, reported>>
  BY <1>1 DEF Enqueue, Take, BackoffEnds, Stall
<1>2. ASSUME NEW d \in Devices, NEW a \in Agents, LinkDeviceAgent(d, a)
      PROVE  UNCHANGED <<syncJob, reported>>
  BY <1>2 DEF LinkDeviceAgent
<1>3. ASSUME NEW d \in Devices, DeleteDevice(d)
      PROVE  Promise!Next
  <2> DEFINE gone == {e \in Exec : Device(e) = d}
  <2>1. Promise!Forget(gone)
    BY <1>3 DEF DeleteDevice, Promise!Forget
  <2>2. gone \in SUBSET Exec
    OBVIOUS
  <2> QED
    BY <2>1, <2>2 DEF Promise!Next
<1>4. ASSUME NEW e \in Exec, EmptyPackage(e)
      PROVE  Promise!Next
  <2>1. Promise!OpenEmpty(e)
    BY <1>4 DEF EmptyPackage, Promise!OpenEmpty, Promise!Turn
  <2> QED
    BY <2>1 DEF Promise!Next
<1>5. ASSUME NEW e \in Exec, CreateSyncJob(e)
      PROVE  Promise!Next
  <2>1. Promise!Open(e)
    BY <1>5 DEF CreateSyncJob, Promise!Open, Promise!Turn
  <2> QED
    BY <2>1 DEF Promise!Next
<1>12. ASSUME NEW e \in Exec, CreateUnacknowledged(e)
      PROVE  Promise!Next
  <2>1. Promise!Open(e) \/ Promise!OpenEmpty(e)
    BY <1>12 DEF CreateUnacknowledged, Promise!Open, Promise!OpenEmpty, Promise!Turn
  <2> QED
    BY <2>1 DEF Promise!Next
<1>6. ASSUME NEW e \in Exec, CommitSuccess(e) \/ CommitUnacknowledged(e), HasRow(e)
      PROVE  Promise!Next
  <2>1. e \in reported /\ syncJob[e] = "IN_PROGRESS"
    BY <1>6 DEF CommitSuccess, CommitUnacknowledged
  <2>2. Promise!Succeed(e)
    BY <1>6, <2>1 DEF CommitSuccess, CommitUnacknowledged, Promise!Succeed, Promise!Turn
  <2> QED
    BY <2>2 DEF Promise!Next
<1>7. ASSUME NEW e \in Exec, CommitSuccess(e) \/ CommitUnacknowledged(e), ~HasRow(e)
      PROVE  UNCHANGED <<syncJob, reported>>
  BY <1>7 DEF CommitSuccess, CommitUnacknowledged
<1>8. ASSUME NEW e \in Exec, RecordError(e)
      PROVE  Promise!Next \/ UNCHANGED <<syncJob, reported>>
  <2>1. CASE syncJob[e] = "IN_PROGRESS"
    <3>1. Promise!Fail(e)
      BY <1>8, <2>1 DEF RecordError, Promise!Fail, Promise!Turn
    <3> QED
      BY <3>1 DEF Promise!Next
  <2>2. CASE syncJob[e] = "SUCCESS"
    <3>1. Promise!Withdraw(e)
      BY <1>8, <2>2 DEF RecordError, Promise!Withdraw, Promise!Turn
    <3> QED
      BY <3>1 DEF Promise!Next
  <2>3. CASE syncJob[e] \in {"none", "ERROR"}
    BY <1>8, <2>3 DEF RecordError
  <2> QED
    BY <2>1, <2>2, <2>3
<1>9. ASSUME NEW e \in Exec,
             LoadDevice(e) \/ CreateFails(e) \/ Publish(e) \/ Timeout(e) \/ Complete(e) \/ Fail(e)
             \/ OrphanTimeout(e) \/ PublishFails(e) \/ DatabaseFails(e)
      PROVE  UNCHANGED <<syncJob, reported>>
  BY <1>9 DEF LoadDevice, CreateFails, Publish, Timeout, Complete, Fail, OrphanTimeout, Die,
       PublishFails, DatabaseFails
<1>10. ASSUME (\E r \in resultBus : ReceiveResult(r)) \/ Crash \/ LoseMessage \/ UNCHANGED vars
              \/ \E a \in Agents, status \in {"ONLINE", "OFFLINE"} : TouchDevices(a, status)
      PROVE  UNCHANGED <<syncJob, reported>>
  BY <1>10 DEF ReceiveResult, Crash, Die, LoseMessage, LoseCommand, LoseResult, TouchDevices, vars
<1>11. ASSUME NEW c \in commandBus, NEW ok \in BOOLEAN, Answer(c, ok)
      PROVE  Promise!Next \/ UNCHANGED <<syncJob, reported>>
  <2>1. CASE ok
    <3>1. c.corr \in Exec
      BY DEF Command
    <3>2. Promise!Report(c.corr)
      BY <1>11, <2>1 DEF Answer, Promise!Report
    <3> QED
      BY <3>1, <3>2 DEF Promise!Next
  <2>2. CASE ~ok
    BY <1>11, <2>2 DEF Answer
  <2> QED
    BY <2>1, <2>2
<1> QED
  BY <1>1, <1>2, <1>3, <1>4, <1>5, <1>6, <1>7, <1>8, <1>9, <1>10, <1>11, <1>12
  DEF Next, WorkerNext, OtherNext, Step, FaultyStep, Promise!promise

\* The rows keep SyncPromise, the abstract specification of what they tell whoever
\* reads them.
THEOREM PromiseTheorem == Spec => Promised
<1>1. Init => Promise!Init
  BY DEF Init, Promise!Init
<1> QED
  BY Invariant, PromiseStep, <1>1, PTL DEF Spec, Promised, Promise!Spec
=============================================================================
