------------------------ MODULE AgentGateway_proofs ------------------------
(***************************************************************************)
(* Proofs about AgentGateway, for any number of agents, connections and    *)
(* commands. IInv is inductive: one lemma per conjunct, one step per        *)
(* action. The safety properties are conjuncts of it.                      *)
(***************************************************************************)
EXTENDS AgentGateway, TLAPS


\* Types.
LEMMA TypePreserved == IInv /\ [Next]_vars => TypeOK'
<1> SUFFICES ASSUME TypeOK, SocketsOwned, [Next]_vars
             PROVE  TypeOK'
  BY DEF IInv
<1> USE GatewayAssumption DEF TypeOK, Registered, Phase, Command, Result, Write, DeviceStatus, SocketsOwned,
         connVars, mapVars, dbVars, gatewayVars
<1>1. ASSUME NEW s \in Sockets, NEW a \in Agents \cup {NoAgent}, Connect(s, a)
      PROVE  TypeOK'
  BY <1>1 DEF Connect
<1>2. ASSUME NEW s \in Sockets, Authenticated(s)
      PROVE  TypeOK'
  <2>1. CASE token[s] = NoAgent
    BY <1>2, <2>1 DEF Authenticated
  <2>2. CASE ~(token[s] = NoAgent)
    BY <1>2, <2>2 DEF Authenticated
  <2> QED
    BY <2>1, <2>2
<1>3. ASSUME NEW s \in Sockets, HeartbeatRecorded(s)
      PROVE  TypeOK'
  BY <1>3 DEF HeartbeatRecorded
<1>4. ASSUME NEW s \in Sockets, Disconnect(s)
      PROVE  TypeOK'
  <2>1. CASE socketAgent[s] = NoAgent
    BY <1>4, <2>1 DEF Disconnect
  <2>2. CASE ~(socketAgent[s] = NoAgent)
    BY <1>4, <2>2 DEF Disconnect
  <2> QED
    BY <2>1, <2>2
<1>5. ASSUME NEW s \in Sockets, Heartbeat(s)
      PROVE  TypeOK'
  BY <1>5 DEF Heartbeat
<1>6. ASSUME NEW s \in Sockets, HeartbeatTouch(s)
      PROVE  TypeOK'
  BY <1>6 DEF HeartbeatTouch
<1>7. ASSUME NEW s \in Sockets, DevicesDiscovered(s)
      PROVE  TypeOK'
  BY <1>7 DEF DevicesDiscovered
<1>8. ASSUME NEW a \in Agents, TouchExpires(a)
      PROVE  TypeOK'
  BY <1>8 DEF TouchExpires
<1>9. ASSUME NEW w \in dbWrites, ApplyWrite(w)
      PROVE  TypeOK'
  BY <1>9 DEF ApplyWrite
<1>10. ASSUME NEW m \in commandBus, RefuseCommand(m)
      PROVE  TypeOK'
  <2>0. m.corr \in Corr /\ answers[m.corr] \in 0 .. 2
    BY <1>10
  <2>1. answers' \in [Corr -> 0 .. 2]
    BY <1>10, <2>0 DEF RefuseCommand, PublishResult
  <2>2. resultBus' \subseteq Result
    <3>1. [corr |-> m.corr, ok |-> FALSE] \in [corr : Corr, ok : BOOLEAN]
      BY <2>0
    <3>2. resultBus' = resultBus \cup {[corr |-> m.corr, ok |-> FALSE]}
      BY <1>10 DEF RefuseCommand, PublishResult
    <3> QED
      BY <3>1, <3>2
  <2>3. answeredBy' \in [Corr -> Agents \cup {NoAgent, Gateway}]
    BY <1>10 DEF RefuseCommand, PublishResult
  <2> QED
    BY <1>10, <2>1, <2>2, <2>3 DEF RefuseCommand, PublishResult
<1>11. ASSUME NEW m \in commandBus, ForwardCommand(m)
      PROVE  TypeOK'
  BY <1>11 DEF ForwardCommand
<1>12. ASSUME Restart
      PROVE  TypeOK'
  BY <1>12 DEF Restart
<1>13. ASSUME NEW s \in Sockets, NEW c \in Corr, NEW ok \in BOOLEAN, SyncResult(s, c, ok)
      PROVE  TypeOK'
  <2>1. CASE socketAgent[s] # NoAgent /\ byCorrelation[c] = socketAgent[s]
    BY <1>13, <2>1 DEF SyncResult, PublishResult
  <2>2. CASE ~(socketAgent[s] # NoAgent /\ byCorrelation[c] = socketAgent[s])
    BY <1>13, <2>2 DEF SyncResult, PublishResult
  <2> QED
    BY <2>1, <2>2
<1>14. ASSUME NEW c \in Corr, NEW a \in Agents, Issue(c, a)
      PROVE  TypeOK'
  BY <1>14 DEF Issue
<1>15. ASSUME Drain
      PROVE  TypeOK'
  BY <1>15 DEF Drain
<1>16. ASSUME NEW d \in Devices, DeviceChanges(d)
      PROVE  TypeOK'
  BY <1>16 DEF DeviceChanges
<1>17. ASSUME UNCHANGED vars
      PROVE  TypeOK'
  BY <1>17 DEF vars
<1> HIDE DEF TypeOK, Registered, Phase, Command, Result, Write, DeviceStatus, SocketsOwned
<1> QED
  BY <1>1, <1>2, <1>3, <1>4, <1>5, <1>6, <1>7, <1>8, <1>9, <1>10, <1>11, <1>12, <1>13, <1>14, <1>15, <1>16, <1>17 DEF Next, GatewayNext

\* A connection keeps its token once it is used.
LEMMA SocketsPreserved == IInv /\ [Next]_vars => SocketsOwned'
<1> SUFFICES ASSUME TypeOK, SocketsOwned, [Next]_vars
             PROVE  SocketsOwned'
  BY DEF IInv
<1> USE GatewayAssumption DEF TypeOK, Registered, Phase, Command, Result, Write, DeviceStatus, SocketsOwned,
         connVars, mapVars, dbVars, gatewayVars
<1>1. ASSUME NEW s \in Sockets, NEW a \in Agents \cup {NoAgent}, Connect(s, a)
      PROVE  SocketsOwned'
  BY <1>1 DEF Connect
<1>2. ASSUME NEW s \in Sockets, Authenticated(s)
      PROVE  SocketsOwned'
  <2>1. CASE token[s] = NoAgent
    BY <1>2, <2>1 DEF Authenticated
  <2>2. CASE ~(token[s] = NoAgent)
    BY <1>2, <2>2 DEF Authenticated
  <2> QED
    BY <2>1, <2>2
<1>3. ASSUME NEW s \in Sockets, HeartbeatRecorded(s)
      PROVE  SocketsOwned'
  BY <1>3 DEF HeartbeatRecorded
<1>4. ASSUME NEW s \in Sockets, Disconnect(s)
      PROVE  SocketsOwned'
  <2>1. CASE socketAgent[s] = NoAgent
    BY <1>4, <2>1 DEF Disconnect
  <2>2. CASE ~(socketAgent[s] = NoAgent)
    BY <1>4, <2>2 DEF Disconnect
  <2> QED
    BY <2>1, <2>2
<1>5. ASSUME NEW s \in Sockets, Heartbeat(s)
      PROVE  SocketsOwned'
  BY <1>5 DEF Heartbeat
<1>6. ASSUME NEW s \in Sockets, HeartbeatTouch(s)
      PROVE  SocketsOwned'
  BY <1>6 DEF HeartbeatTouch
<1>7. ASSUME Restart
      PROVE  SocketsOwned'
  BY <1>7 DEF Restart
<1>8. ASSUME \/ \E s \in Sockets : DevicesDiscovered(s)
             \/ \E a \in Agents : TouchExpires(a)
             \/ \E w \in dbWrites : ApplyWrite(w)
             \/ \E m \in commandBus : RefuseCommand(m)
             \/ \E m \in commandBus : ForwardCommand(m)
             \/ \E s \in Sockets, c \in Corr, ok \in BOOLEAN : SyncResult(s, c, ok)
             \/ \E c \in Corr, a \in Agents : Issue(c, a)
             \/ Drain
             \/ \E d \in Devices : DeviceChanges(d)
             \/ UNCHANGED vars
      PROVE  SocketsOwned'
  BY <1>8 DEF DevicesDiscovered, TouchExpires, ApplyWrite, RefuseCommand, ForwardCommand, SyncResult, Issue, Drain, DeviceChanges, vars
<1> HIDE DEF TypeOK, Registered, Phase, Command, Result, Write, DeviceStatus, SocketsOwned
<1> QED
  BY <1>1, <1>2, <1>3, <1>4, <1>5, <1>6, <1>7, <1>8 DEF Next, GatewayNext

\* Commands stay with their addressee.
LEMMA AddressedPreserved == IInv /\ [Next]_vars => CommandsAddressed'
<1> SUFFICES ASSUME TypeOK, SocketsOwned, CommandsAddressed, [Next]_vars
             PROVE  CommandsAddressed'
  BY DEF IInv
<1> USE GatewayAssumption DEF TypeOK, Registered, Phase, Command, Result, Write, DeviceStatus, SocketsOwned, CommandsAddressed,
         connVars, mapVars, dbVars, gatewayVars
<1>1. ASSUME NEW s \in Sockets, NEW a \in Agents \cup {NoAgent}, Connect(s, a)
      PROVE  CommandsAddressed'
  BY <1>1 DEF Connect
<1>2. ASSUME NEW s \in Sockets, Authenticated(s)
      PROVE  CommandsAddressed'
  <2>1. CASE token[s] = NoAgent
    BY <1>2, <2>1 DEF Authenticated
  <2>2. CASE ~(token[s] = NoAgent)
    BY <1>2, <2>2 DEF Authenticated
  <2> QED
    BY <2>1, <2>2
<1>3. ASSUME NEW s \in Sockets, Disconnect(s)
      PROVE  CommandsAddressed'
  <2>1. CASE socketAgent[s] = NoAgent
    BY <1>3, <2>1 DEF Disconnect
  <2>2. CASE ~(socketAgent[s] = NoAgent)
    BY <1>3, <2>2 DEF Disconnect
  <2> QED
    BY <2>1, <2>2
<1>4. ASSUME NEW m \in commandBus, RefuseCommand(m)
      PROVE  CommandsAddressed'
  BY <1>4 DEF RefuseCommand, PublishResult
<1>5. ASSUME NEW m \in commandBus, ForwardCommand(m)
      PROVE  CommandsAddressed'
  BY <1>5 DEF ForwardCommand
<1>6. ASSUME Restart
      PROVE  CommandsAddressed'
  BY <1>6 DEF Restart
<1>7. ASSUME NEW s \in Sockets, NEW c \in Corr, NEW ok \in BOOLEAN, SyncResult(s, c, ok)
      PROVE  CommandsAddressed'
  <2>1. CASE socketAgent[s] # NoAgent /\ byCorrelation[c] = socketAgent[s]
    BY <1>7, <2>1 DEF SyncResult, PublishResult
  <2>2. CASE ~(socketAgent[s] # NoAgent /\ byCorrelation[c] = socketAgent[s])
    BY <1>7, <2>2 DEF SyncResult, PublishResult
  <2> QED
    BY <2>1, <2>2
<1>8. ASSUME NEW c \in Corr, NEW a \in Agents, Issue(c, a)
      PROVE  CommandsAddressed'
  BY <1>8 DEF Issue
<1>9. ASSUME \/ \E s \in Sockets : HeartbeatRecorded(s)
             \/ \E s \in Sockets : Heartbeat(s)
             \/ \E s \in Sockets : HeartbeatTouch(s)
             \/ \E s \in Sockets : DevicesDiscovered(s)
             \/ \E a \in Agents : TouchExpires(a)
             \/ \E w \in dbWrites : ApplyWrite(w)
             \/ Drain
             \/ \E d \in Devices : DeviceChanges(d)
             \/ UNCHANGED vars
      PROVE  CommandsAddressed'
  BY <1>9 DEF HeartbeatRecorded, Heartbeat, HeartbeatTouch, DevicesDiscovered, TouchExpires, ApplyWrite, Drain, DeviceChanges, vars
<1> HIDE DEF TypeOK, Registered, Phase, Command, Result, Write, DeviceStatus, SocketsOwned, CommandsAddressed
<1> QED
  BY <1>1, <1>2, <1>3, <1>4, <1>5, <1>6, <1>7, <1>8, <1>9 DEF Next, GatewayNext

\* A command leaves the bus into the map or into an answer.
LEMMA UnansweredPreserved == IInv /\ [Next]_vars => Unanswered'
<1> SUFFICES ASSUME TypeOK, CommandsAddressed, Unanswered, [Next]_vars
             PROVE  Unanswered'
  BY DEF IInv
<1> USE GatewayAssumption DEF TypeOK, Registered, Phase, Command, Result, Write, DeviceStatus, CommandsAddressed, Unanswered,
         connVars, mapVars, dbVars, gatewayVars
<1>1. ASSUME NEW m \in commandBus, RefuseCommand(m)
      PROVE  Unanswered'
  BY <1>1 DEF RefuseCommand, PublishResult
<1>2. ASSUME NEW m \in commandBus, ForwardCommand(m)
      PROVE  Unanswered'
  BY <1>2 DEF ForwardCommand
<1>3. ASSUME Restart
      PROVE  Unanswered'
  BY <1>3 DEF Restart
<1>4. ASSUME NEW s \in Sockets, NEW c \in Corr, NEW ok \in BOOLEAN, SyncResult(s, c, ok)
      PROVE  Unanswered'
  <2>1. CASE socketAgent[s] # NoAgent /\ byCorrelation[c] = socketAgent[s]
    BY <1>4, <2>1 DEF SyncResult, PublishResult
  <2>2. CASE ~(socketAgent[s] # NoAgent /\ byCorrelation[c] = socketAgent[s])
    BY <1>4, <2>2 DEF SyncResult, PublishResult
  <2> QED
    BY <2>1, <2>2
<1>5. ASSUME NEW c \in Corr, NEW a \in Agents, Issue(c, a)
      PROVE  Unanswered'
  BY <1>5 DEF Issue
<1>6. ASSUME \/ \E s \in Sockets, a \in Agents \cup {NoAgent} : Connect(s, a)
             \/ \E s \in Sockets : Authenticated(s)
             \/ \E s \in Sockets : HeartbeatRecorded(s)
             \/ \E s \in Sockets : Disconnect(s)
             \/ \E s \in Sockets : Heartbeat(s)
             \/ \E s \in Sockets : HeartbeatTouch(s)
             \/ \E s \in Sockets : DevicesDiscovered(s)
             \/ \E a \in Agents : TouchExpires(a)
             \/ \E w \in dbWrites : ApplyWrite(w)
             \/ Drain
             \/ \E d \in Devices : DeviceChanges(d)
             \/ UNCHANGED vars
      PROVE  Unanswered'
  BY <1>6 DEF Connect, Authenticated, HeartbeatRecorded, Disconnect, Heartbeat, HeartbeatTouch, DevicesDiscovered, TouchExpires, ApplyWrite, Drain, DeviceChanges, vars
<1> HIDE DEF TypeOK, Registered, Phase, Command, Result, Write, DeviceStatus, CommandsAddressed, Unanswered
<1> QED
  BY <1>1, <1>2, <1>3, <1>4, <1>5, <1>6 DEF Next, GatewayNext

\* An author comes with an answer.
LEMMA AuthorPreserved == IInv /\ [Next]_vars => AuthorKnown'
<1> SUFFICES ASSUME TypeOK, CommandsAddressed, AuthorKnown, [Next]_vars
             PROVE  AuthorKnown'
  BY DEF IInv
<1> USE GatewayAssumption DEF TypeOK, Registered, Phase, Command, Result, Write, DeviceStatus, CommandsAddressed, AuthorKnown,
         connVars, mapVars, dbVars, gatewayVars
<1>1. ASSUME NEW m \in commandBus, RefuseCommand(m)
      PROVE  AuthorKnown'
  BY <1>1 DEF RefuseCommand, PublishResult
<1>2. ASSUME NEW s \in Sockets, NEW c \in Corr, NEW ok \in BOOLEAN, SyncResult(s, c, ok)
      PROVE  AuthorKnown'
  <2>1. CASE socketAgent[s] # NoAgent /\ byCorrelation[c] = socketAgent[s]
    BY <1>2, <2>1 DEF SyncResult, PublishResult
  <2>2. CASE ~(socketAgent[s] # NoAgent /\ byCorrelation[c] = socketAgent[s])
    BY <1>2, <2>2 DEF SyncResult, PublishResult
  <2> QED
    BY <2>1, <2>2
<1>3. ASSUME \/ \E s \in Sockets, a \in Agents \cup {NoAgent} : Connect(s, a)
             \/ \E s \in Sockets : Authenticated(s)
             \/ \E s \in Sockets : HeartbeatRecorded(s)
             \/ \E s \in Sockets : Disconnect(s)
             \/ \E s \in Sockets : Heartbeat(s)
             \/ \E s \in Sockets : HeartbeatTouch(s)
             \/ \E s \in Sockets : DevicesDiscovered(s)
             \/ \E a \in Agents : TouchExpires(a)
             \/ \E w \in dbWrites : ApplyWrite(w)
             \/ \E m \in commandBus : ForwardCommand(m)
             \/ Restart
             \/ \E c \in Corr, a \in Agents : Issue(c, a)
             \/ Drain
             \/ \E d \in Devices : DeviceChanges(d)
             \/ UNCHANGED vars
      PROVE  AuthorKnown'
  BY <1>3 DEF Connect, Authenticated, HeartbeatRecorded, Disconnect, Heartbeat, HeartbeatTouch, DevicesDiscovered, TouchExpires, ApplyWrite, ForwardCommand, Restart, Issue, Drain, DeviceChanges, vars
<1> HIDE DEF TypeOK, Registered, Phase, Command, Result, Write, DeviceStatus, CommandsAddressed, AuthorKnown
<1> QED
  BY <1>1, <1>2, <1>3 DEF Next, GatewayNext

\* Only an unanswered command is answered.
LEMMA OncePreserved == IInv /\ [Next]_vars => ResultOncePerCommand'
<1> SUFFICES ASSUME TypeOK, Unanswered, ResultOncePerCommand, [Next]_vars
             PROVE  ResultOncePerCommand'
  BY DEF IInv
<1> USE GatewayAssumption DEF TypeOK, Registered, Phase, Command, Result, Write, DeviceStatus, Unanswered, ResultOncePerCommand,
         connVars, mapVars, dbVars, gatewayVars
<1>1. ASSUME NEW m \in commandBus, RefuseCommand(m)
      PROVE  ResultOncePerCommand'
  BY <1>1 DEF RefuseCommand, PublishResult
<1>2. ASSUME NEW s \in Sockets, NEW c \in Corr, NEW ok \in BOOLEAN, SyncResult(s, c, ok)
      PROVE  ResultOncePerCommand'
  <2>1. CASE socketAgent[s] # NoAgent /\ byCorrelation[c] = socketAgent[s]
    BY <1>2, <2>1 DEF SyncResult, PublishResult
  <2>2. CASE ~(socketAgent[s] # NoAgent /\ byCorrelation[c] = socketAgent[s])
    BY <1>2, <2>2 DEF SyncResult, PublishResult
  <2> QED
    BY <2>1, <2>2
<1>3. ASSUME \/ \E s \in Sockets, a \in Agents \cup {NoAgent} : Connect(s, a)
             \/ \E s \in Sockets : Authenticated(s)
             \/ \E s \in Sockets : HeartbeatRecorded(s)
             \/ \E s \in Sockets : Disconnect(s)
             \/ \E s \in Sockets : Heartbeat(s)
             \/ \E s \in Sockets : HeartbeatTouch(s)
             \/ \E s \in Sockets : DevicesDiscovered(s)
             \/ \E a \in Agents : TouchExpires(a)
             \/ \E w \in dbWrites : ApplyWrite(w)
             \/ \E m \in commandBus : ForwardCommand(m)
             \/ Restart
             \/ \E c \in Corr, a \in Agents : Issue(c, a)
             \/ Drain
             \/ \E d \in Devices : DeviceChanges(d)
             \/ UNCHANGED vars
      PROVE  ResultOncePerCommand'
  BY <1>3 DEF Connect, Authenticated, HeartbeatRecorded, Disconnect, Heartbeat, HeartbeatTouch, DevicesDiscovered, TouchExpires, ApplyWrite, ForwardCommand, Restart, Issue, Drain, DeviceChanges, vars
<1> HIDE DEF TypeOK, Registered, Phase, Command, Result, Write, DeviceStatus, Unanswered, ResultOncePerCommand
<1> QED
  BY <1>1, <1>2, <1>3 DEF Next, GatewayNext

\* The author of a result is the agent the command was dispatched to.
LEMMA AddresseeAnswers == IInv /\ [Next]_vars => ResultFromAddressee'
<1> SUFFICES ASSUME TypeOK, CommandsAddressed, Unanswered, AuthorKnown, ResultFromAddressee, [Next]_vars
             PROVE  ResultFromAddressee'
  BY DEF IInv
<1> USE GatewayAssumption DEF TypeOK, Registered, Phase, Command, Result, Write, DeviceStatus, CommandsAddressed, Unanswered, AuthorKnown, ResultFromAddressee,
         connVars, mapVars, dbVars, gatewayVars
<1>1. ASSUME NEW m \in commandBus, RefuseCommand(m)
      PROVE  ResultFromAddressee'
  BY <1>1 DEF RefuseCommand, PublishResult
<1>2. ASSUME NEW s \in Sockets, NEW c \in Corr, NEW ok \in BOOLEAN, SyncResult(s, c, ok)
      PROVE  ResultFromAddressee'
  <2>1. CASE socketAgent[s] # NoAgent /\ byCorrelation[c] = socketAgent[s]
    BY <1>2, <2>1 DEF SyncResult, PublishResult
  <2>2. CASE ~(socketAgent[s] # NoAgent /\ byCorrelation[c] = socketAgent[s])
    BY <1>2, <2>2 DEF SyncResult, PublishResult
  <2> QED
    BY <2>1, <2>2
<1>3. ASSUME NEW c \in Corr, NEW a \in Agents, Issue(c, a)
      PROVE  ResultFromAddressee'
  BY <1>3 DEF Issue
<1>4. ASSUME \/ \E s \in Sockets, a \in Agents \cup {NoAgent} : Connect(s, a)
             \/ \E s \in Sockets : Authenticated(s)
             \/ \E s \in Sockets : HeartbeatRecorded(s)
             \/ \E s \in Sockets : Disconnect(s)
             \/ \E s \in Sockets : Heartbeat(s)
             \/ \E s \in Sockets : HeartbeatTouch(s)
             \/ \E s \in Sockets : DevicesDiscovered(s)
             \/ \E a \in Agents : TouchExpires(a)
             \/ \E w \in dbWrites : ApplyWrite(w)
             \/ \E m \in commandBus : ForwardCommand(m)
             \/ Restart
             \/ Drain
             \/ \E d \in Devices : DeviceChanges(d)
             \/ UNCHANGED vars
      PROVE  ResultFromAddressee'
  BY <1>4 DEF Connect, Authenticated, HeartbeatRecorded, Disconnect, Heartbeat, HeartbeatTouch, DevicesDiscovered, TouchExpires, ApplyWrite, ForwardCommand, Restart, Drain, DeviceChanges, vars
<1> HIDE DEF TypeOK, Registered, Phase, Command, Result, Write, DeviceStatus, CommandsAddressed, Unanswered, AuthorKnown, ResultFromAddressee
<1> QED
  BY <1>1, <1>2, <1>3, <1>4 DEF Next, GatewayNext

\* A command goes down the socket the map holds for its addressee.
LEMMA RoutedPreserved == IInv /\ [Next]_vars => RoutedToAddressee'
<1> SUFFICES ASSUME TypeOK, SocketsOwned, CommandsAddressed, RoutedToAddressee, [Next]_vars
             PROVE  RoutedToAddressee'
  BY DEF IInv
<1> USE GatewayAssumption DEF TypeOK, Registered, Phase, Command, Result, Write, DeviceStatus, SocketsOwned, CommandsAddressed, RoutedToAddressee,
         connVars, mapVars, dbVars, gatewayVars
<1>1. ASSUME NEW s \in Sockets, NEW a \in Agents \cup {NoAgent}, Connect(s, a)
      PROVE  RoutedToAddressee'
  BY <1>1 DEF Connect
<1>2. ASSUME NEW s \in Sockets, Disconnect(s)
      PROVE  RoutedToAddressee'
  <2>1. CASE socketAgent[s] = NoAgent
    BY <1>2, <2>1 DEF Disconnect
  <2>2. CASE ~(socketAgent[s] = NoAgent)
    BY <1>2, <2>2 DEF Disconnect
  <2> QED
    BY <2>1, <2>2
<1>3. ASSUME NEW m \in commandBus, RefuseCommand(m)
      PROVE  RoutedToAddressee'
  BY <1>3 DEF RefuseCommand, PublishResult
<1>4. ASSUME NEW m \in commandBus, ForwardCommand(m)
      PROVE  RoutedToAddressee'
  BY <1>4 DEF ForwardCommand
<1>5. ASSUME Restart
      PROVE  RoutedToAddressee'
  BY <1>5 DEF Restart
<1>6. ASSUME NEW s \in Sockets, NEW c \in Corr, NEW ok \in BOOLEAN, SyncResult(s, c, ok)
      PROVE  RoutedToAddressee'
  <2>1. CASE socketAgent[s] # NoAgent /\ byCorrelation[c] = socketAgent[s]
    BY <1>6, <2>1 DEF SyncResult, PublishResult
  <2>2. CASE ~(socketAgent[s] # NoAgent /\ byCorrelation[c] = socketAgent[s])
    BY <1>6, <2>2 DEF SyncResult, PublishResult
  <2> QED
    BY <2>1, <2>2
<1>7. ASSUME NEW c \in Corr, NEW a \in Agents, Issue(c, a)
      PROVE  RoutedToAddressee'
  BY <1>7 DEF Issue
<1>8. ASSUME \/ \E s \in Sockets : Authenticated(s)
             \/ \E s \in Sockets : HeartbeatRecorded(s)
             \/ \E s \in Sockets : Heartbeat(s)
             \/ \E s \in Sockets : HeartbeatTouch(s)
             \/ \E s \in Sockets : DevicesDiscovered(s)
             \/ \E a \in Agents : TouchExpires(a)
             \/ \E w \in dbWrites : ApplyWrite(w)
             \/ Drain
             \/ \E d \in Devices : DeviceChanges(d)
             \/ UNCHANGED vars
      PROVE  RoutedToAddressee'
  BY <1>8 DEF Authenticated, HeartbeatRecorded, Heartbeat, HeartbeatTouch, DevicesDiscovered, TouchExpires, ApplyWrite, Drain, DeviceChanges, vars
<1> HIDE DEF TypeOK, Registered, Phase, Command, Result, Write, DeviceStatus, SocketsOwned, CommandsAddressed, RoutedToAddressee
<1> QED
  BY <1>1, <1>2, <1>3, <1>4, <1>5, <1>6, <1>7, <1>8 DEF Next, GatewayNext

LEMMA InitHolds == Init => IInv
  BY GatewayAssumption DEF Init, InitGateway, IInv, TypeOK, Phase, Command, Result, Write, DeviceStatus,
     SocketsOwned, CommandsAddressed, Unanswered, AuthorKnown,
     ResultOncePerCommand, ResultFromAddressee, RoutedToAddressee

LEMMA StepPreserves == IInv /\ [Next]_vars => IInv'
  BY TypePreserved, SocketsPreserved, AddressedPreserved, UnansweredPreserved, AuthorPreserved,
     OncePreserved, AddresseeAnswers, RoutedPreserved DEF IInv

\* The inductive invariant holds in every reachable state.
THEOREM Invariant == Spec => []IInv
  BY InitHolds, StepPreserves, PTL DEF Spec

\* No agent's word is ever published as the answer to another agent's command.
THEOREM AddresseeTheorem == Spec => []ResultFromAddressee
<1>1. IInv => ResultFromAddressee
  BY DEF IInv
<1> QED
  BY Invariant, <1>1, PTL

\* A command is answered at most once: what SyncWorker assumes of its other side.
THEOREM OnceTheorem == Spec => []ResultOncePerCommand
<1>1. IInv => ResultOncePerCommand
  BY DEF IInv
<1> QED
  BY Invariant, <1>1, PTL

\* A command is only delivered to a connection that authenticated as its addressee.
THEOREM RoutingTheorem == Spec => []RoutedToAddressee
<1>1. IInv => RoutedToAddressee
  BY DEF IInv
<1> QED
  BY Invariant, <1>1, PTL

\* The map of the sockets points at connections that speak for their agent.
MapSpeaks == \A a \in Agents : sockets[a] # NoSocket => socketAgent[sockets[a]] = a

LEMMA MapSpeaksPreserved == TypeOK /\ SocketsOwned /\ MapSpeaks /\ [Next]_vars => MapSpeaks'
<1> SUFFICES ASSUME TypeOK, SocketsOwned, MapSpeaks, [Next]_vars,
                    NEW a \in Agents, sockets'[a] # NoSocket
             PROVE  socketAgent'[sockets'[a]] = a
  BY DEF MapSpeaks
<1> USE GatewayAssumption DEF TypeOK, Registered, Phase, SocketsOwned, MapSpeaks, connVars, mapVars, dbVars,
        gatewayVars
<1>1. ASSUME NEW s \in Sockets, Authenticated(s) PROVE socketAgent'[sockets'[a]] = a
  <2>1. CASE token[s] = NoAgent
    BY <1>1, <2>1 DEF Authenticated
  <2>2. CASE token[s] # NoAgent
    <3>1. /\ socketAgent' = [socketAgent EXCEPT ![s] = token[s]]
          /\ sockets' = [sockets EXCEPT ![token[s]] = s] /\ phase[s] = "authenticating"
      BY <1>1, <2>2 DEF Authenticated
    <3> QED
      BY <2>2, <3>1
  <2> QED
    BY <2>1, <2>2
<1>2. ASSUME NEW s \in Sockets, Disconnect(s) PROVE socketAgent'[sockets'[a]] = a
  BY <1>2 DEF Disconnect
<1>3. ASSUME Restart PROVE FALSE
  BY <1>3 DEF Restart
<1>4. ASSUME \/ \E s \in Sockets : HeartbeatRecorded(s) \/ Heartbeat(s) \/ HeartbeatTouch(s)
                               \/ DevicesDiscovered(s)
             \/ \E s \in Sockets, b \in Agents \cup {NoAgent} : Connect(s, b)
             \/ \E b \in Agents : TouchExpires(b)
             \/ \E w \in dbWrites : ApplyWrite(w)
             \/ \E m \in commandBus : RefuseCommand(m) \/ ForwardCommand(m)
             \/ \E s \in Sockets, c \in Corr, ok \in BOOLEAN : SyncResult(s, c, ok)
             \/ \E c \in Corr, b \in Agents : Issue(c, b)
             \/ Drain
             \/ \E d \in Devices : DeviceChanges(d)
             \/ UNCHANGED vars
      PROVE  socketAgent'[sockets'[a]] = a
  <2>1. UNCHANGED <<socketAgent, sockets>>
    BY <1>4 DEF HeartbeatRecorded, Heartbeat, HeartbeatTouch, DevicesDiscovered, Connect, TouchExpires,
       ApplyWrite, RefuseCommand, ForwardCommand, SyncResult, Issue, Drain, DeviceChanges, vars
  <2> QED
    BY <2>1
<1> QED
  BY <1>1, <1>2, <1>3, <1>4 DEF Next, GatewayNext

\* A connection is forgotten only by a step that closes one of its agent's, and what has
\* closed stays closed until the gateway restarts, when nobody is connected.
LEMMA ForgottenPreserved ==
    TypeOK /\ SocketsOwned /\ MapSpeaks /\ ForgottenByAClosing /\ [Next]_vars => ForgottenByAClosing'
<1> SUFFICES ASSUME TypeOK, SocketsOwned, MapSpeaks, ForgottenByAClosing, [Next]_vars,
                    NEW a \in Agents, Connected(a)', (a \notin clienteIds \/ sockets[a] \notin open)'
             PROVE  \E s \in Sockets \ open' : socketAgent'[s] = a
  BY DEF ForgottenByAClosing
<1> USE GatewayAssumption DEF TypeOK, Registered, Phase, SocketsOwned, Connected, ForgottenByAClosing, connVars,
        mapVars, dbVars, gatewayVars
<1>1. ASSUME NEW s \in Sockets, NEW b \in Agents \cup {NoAgent}, Connect(s, b)
      PROVE  \E t \in Sockets \ open' : socketAgent'[t] = a
  BY <1>1 DEF Connect
<1>2. ASSUME NEW s \in Sockets, Authenticated(s)
      PROVE  \E t \in Sockets \ open' : socketAgent'[t] = a
  <2>1. CASE token[s] = NoAgent
    BY <1>2, <2>1 DEF Authenticated
  <2>2. CASE token[s] # NoAgent /\ token[s] = a
    <3>1. /\ socketAgent' = [socketAgent EXCEPT ![s] = a] /\ sockets' = [sockets EXCEPT ![a] = s]
          /\ clienteIds' = clienteIds \cup {a} /\ open' = open
      BY <1>2, <2>2 DEF Authenticated
    <3> QED
      BY <3>1
  <2>3. CASE token[s] # NoAgent /\ token[s] # a
    <3>1. /\ socketAgent' = [socketAgent EXCEPT ![s] = token[s]]
          /\ sockets' = [sockets EXCEPT ![token[s]] = s]
          /\ clienteIds' = clienteIds \cup {token[s]} /\ open' = open /\ phase[s] = "authenticating"
      BY <1>2, <2>3 DEF Authenticated
    <3>2. socketAgent[s] # a /\ Connected(a) /\ (a \notin clienteIds \/ sockets[a] \notin open)
      BY <2>3, <3>1
    <3> QED
      BY <3>1, <3>2
  <2> QED
    BY <2>1, <2>2, <2>3
<1>3. ASSUME NEW s \in Sockets, Disconnect(s)
      PROVE  \E t \in Sockets \ open' : socketAgent'[t] = a
  <2>1. CASE socketAgent[s] = a
    BY <1>3, <2>1 DEF Disconnect
  <2>2. CASE socketAgent[s] # a
    <3>1. open' = open \ {s} /\ socketAgent' = socketAgent
      BY <1>3 DEF Disconnect
    <3>2. (a \in clienteIds' <=> a \in clienteIds) /\ sockets'[a] = sockets[a]
      BY <1>3, <2>2 DEF Disconnect
    <3>3. sockets[a] # s
      BY <2>2 DEF MapSpeaks
    <3> QED
      BY <3>1, <3>2, <3>3
  <2> QED
    BY <2>1, <2>2
<1>4. ASSUME Restart PROVE FALSE
  BY <1>4 DEF Restart
<1>5. ASSUME \/ \E s \in Sockets : HeartbeatRecorded(s) \/ Heartbeat(s) \/ HeartbeatTouch(s)
                               \/ DevicesDiscovered(s)
             \/ \E b \in Agents : TouchExpires(b)
             \/ \E w \in dbWrites : ApplyWrite(w)
             \/ \E m \in commandBus : RefuseCommand(m) \/ ForwardCommand(m)
             \/ \E s \in Sockets, c \in Corr, ok \in BOOLEAN : SyncResult(s, c, ok)
             \/ \E c \in Corr, b \in Agents : Issue(c, b)
             \/ Drain
             \/ \E d \in Devices : DeviceChanges(d)
             \/ UNCHANGED vars
      PROVE  \E t \in Sockets \ open' : socketAgent'[t] = a
  <2>1. UNCHANGED <<open, socketAgent, sockets, clienteIds>>
    BY <1>5 DEF HeartbeatRecorded, Heartbeat, HeartbeatTouch, DevicesDiscovered, TouchExpires, ApplyWrite,
       RefuseCommand, ForwardCommand, SyncResult, Issue, Drain, DeviceChanges, vars
  <2> QED
    BY <2>1
<1> QED
  BY <1>1, <1>2, <1>3, <1>4, <1>5 DEF Next, GatewayNext

\* A connected agent keeps its tenant and a live socket for its commands, unless another
\* connection that spoke for it has closed since the gateway started.
THEOREM ForgottenTheorem == Spec => []ForgottenByAClosing
<1>1. Init => MapSpeaks /\ ForgottenByAClosing
  BY DEF Init, InitGateway, MapSpeaks, ForgottenByAClosing, Connected
<1>2. IInv /\ MapSpeaks /\ ForgottenByAClosing /\ [Next]_vars => MapSpeaks' /\ ForgottenByAClosing'
  BY MapSpeaksPreserved, ForgottenPreserved DEF IInv
<1> QED
  BY Invariant, <1>1, <1>2, PTL DEF Spec
=============================================================================
