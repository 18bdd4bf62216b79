---------------------------- MODULE Store_proofs ----------------------------
(***************************************************************************)
(* Proofs about the two components that meet in a store: the Agent Local   *)
(* (LocalAgent) and the rows of its scales (DeviceRegistry).               *)
(*                                                                         *)
(* For every set of commands, scales, slots and formats the outcomes the   *)
(* Agent Local reports say what the scale holds, however the handlers of   *)
(* two commands for one scale, the report and the other software           *)
(* interleave, and only one of them can take away the mark of the other.   *)
(* For every store, whatever its rows, agents, scales and addresses, the   *)
(* slot maps and the corrected addresses stay within the networks of the   *)
(* agents of their rows, and slots are lost to one race only.              *)
(***************************************************************************)
EXTENDS LocalAgent, DeviceRegistry, TLAPS

-----------------------------------------------------------------------------
(* The Agent Local.                                                        *)

USE AgentAssumption

\* Type correctness is inductive by itself, with the guard on the address: only
\* a command for a scale of the network gets past Receive.
TypeInv == TypeOK /\ \A c \in Commands : AtScale(c) \/ c \in pending => IpOf[c] \in Ips

LEMMA TypeInit == Init => TypeInv
  BY DEF Init, TypeInv, TypeOK, AtScale, Handler, Outcome, Clients

LEMMA TypeNext == TypeInv /\ [Next]_vars => TypeInv'
<1> SUFFICES ASSUME TypeInv, [Next]_vars PROVE TypeInv' OBVIOUS
<1> USE DEF TypeInv, TypeOK, AtScale, Handler, Outcome, Clients, Goto, Release
<1>1. ASSUME NEW c \in Commands, Receive(c) PROVE TypeInv'
  <2>1. UNCHANGED <<connected, unread, divergent, stored, pending, applied, session, discovered, toReport, outbox>>
    BY <1>1 DEF Receive, scaleVars, reportVars
  <2>2. CASE IpOf[c] \in ForeignIps
    <3>1. /\ handler' = [handler EXCEPT ![c] = "done"]
          /\ outcome' = [outcome EXCEPT ![c] = "failed"]
          /\ sent' = sent \cup {c}
          /\ UNCHANGED <<sincronizando, beside>>
      BY <1>1, <2>2 DEF Receive, markVars
    <3>2. QED
      BY <2>1, <3>1
  <2>3. CASE IpOf[c] \notin ForeignIps
    <3>1. /\ handler' = [handler EXCEPT ![c] = "connecting"]
          /\ sincronizando' = sincronizando \cup {IpOf[c]}
          /\ UNCHANGED <<outcome, sent>>
          /\ IpOf[c] \in Ips
      BY <1>1, <2>3 DEF Receive
    <3>2. beside' = [d \in Commands |->
               IF d = c THEN Meeting(c)
               ELSE IF d \in Meeting(c) THEN beside[d] \cup {c} ELSE beside[d]]
      BY <1>1, <2>3 DEF Receive
    <3>3. Meeting(c) \subseteq Commands
      BY DEF Meeting
    <3>4. beside' \in [Commands -> SUBSET Commands]
      BY <3>2, <3>3
    <3>5. QED
      BY <2>1, <3>1, <3>4
  <2>4. QED
    BY <2>2, <2>3
<1>2. ASSUME NEW c \in Commands, OpenSession(c) PROVE TypeInv'
  BY <1>2 DEF OpenSession, scaleVars, reportVars, resultVars, markVars
<1>3. ASSUME NEW c \in Commands, ScaleStores(c) PROVE TypeInv'
  BY <1>3 DEF ScaleStores, scaleVars, reportVars, resultVars, markVars
<1>4. ASSUME NEW c \in Commands, Acknowledged(c) PROVE TypeInv'
  <2>1. /\ UNCHANGED <<connected, divergent, stored, pending, applied, markVars, reportVars, outbox, sent>>
        /\ unread' = [unread EXCEPT ![c] = FormatsOf[c]]
        /\ Release(c)
        /\ handler[c] = "writing"
    BY <1>4 DEF Acknowledged
  <2>2. CASE FormatsOf[c] = {}
    <3>1. handler' = [handler EXCEPT ![c] = "settled"] /\ outcome' = [outcome EXCEPT ![c] = "ok"]
      BY <1>4, <2>2 DEF Acknowledged
    <3>2. QED
      BY <2>1, <3>1 DEF reportVars, markVars
  <2>3. CASE FormatsOf[c] # {}
    <3>1. handler' = [handler EXCEPT ![c] = "reading"] /\ UNCHANGED outcome
      BY <1>4, <2>3 DEF Acknowledged
    <3>2. QED
      BY <2>1, <3>1 DEF reportVars, markVars
  <2>4. QED
    BY <2>2, <2>3
<1>5. ASSUME NEW c \in Commands, Fails(c) PROVE TypeInv'
  BY <1>5 DEF Fails, scaleVars, reportVars, resultVars, markVars
<1>6. ASSUME NEW c \in Commands, Confirmed(c) PROVE TypeInv'
  BY <1>6 DEF Confirmed, scaleVars, reportVars, resultVars, markVars
<1>7. ASSUME NEW c \in Commands, Settle(c) PROVE TypeInv'
  BY <1>7 DEF Settle, scaleVars, reportVars, resultVars, markVars
<1>8. ASSUME NEW c \in Commands, OpenList(c) PROVE TypeInv'
  BY <1>8 DEF OpenList, scaleVars, reportVars, resultVars, markVars
<1>9. ASSUME NEW c \in Commands, ListSlots(c) PROVE TypeInv'
  BY <1>9 DEF ListSlots, scaleVars, reportVars, resultVars, markVars
<1>10. ASSUME NEW c \in Commands, NEW n \in Slots, ReadBack(c, n) PROVE TypeInv'
  BY <1>10 DEF ReadBack, scaleVars, reportVars, resultVars, markVars
<1>11. ASSUME NEW ip \in Ips, Hear(ip) PROVE TypeInv'
  BY <1>11 DEF Hear, scaleVars, reportVars, resultVars, markVars
<1>12. ASSUME NEW ip \in Ips, Query(ip) PROVE TypeInv'
  BY <1>12 DEF Query, scaleVars, reportVars, resultVars, markVars
<1>13. ASSUME NEW ip \in Ips, QueryEnds(ip) PROVE TypeInv'
  BY <1>13 DEF QueryEnds, scaleVars, reportVars, resultVars, markVars
<1>14. ASSUME NEW ip \in Ips, RamuzaOpens(ip) PROVE TypeInv'
  BY <1>14 DEF RamuzaOpens, scaleVars, reportVars, resultVars, markVars
<1>15. ASSUME NEW ip \in Ips, RamuzaCloses(ip) PROVE TypeInv'
  BY <1>15 DEF RamuzaCloses, scaleVars, reportVars, resultVars, markVars
<1>16. ASSUME StartReport PROVE TypeInv'
  BY <1>16 DEF StartReport, scaleVars, reportVars, resultVars, markVars
<1>17. ASSUME Disconnect PROVE TypeInv'
  BY <1>17 DEF Disconnect, scaleVars, reportVars, resultVars, markVars
<1>18. ASSUME Reconnect PROVE TypeInv'
  BY <1>18 DEF Reconnect, scaleVars, reportVars, resultVars, markVars
<1>19. ASSUME NEW ip \in Ips, Expire(ip) PROVE TypeInv'
  BY <1>19 DEF Expire, scaleVars, reportVars, resultVars, markVars
<1>20. CASE UNCHANGED vars
  BY <1>20 DEF vars, scaleVars, reportVars, resultVars, markVars
<1>21. QED
  BY <1>1, <1>2, <1>3, <1>4, <1>5, <1>6, <1>7, <1>8, <1>9, <1>10, <1>11, <1>12, <1>13, <1>14, <1>15, <1>16, <1>17, <1>18, <1>19, <1>20 DEF Next, Handle


(* What the reports rest on. Only the scale's own step changes a slot, and *)
(* only the handler's steps change an outcome or a reading.                *)
SlotInv == FactoryKept /\ WriterKnown /\ ReadIsWritten /\ OkIsWritten

LEMMA LabelsInit == Init => SlotInv
  BY DEF Init, SlotInv, FactoryKept, WriterKnown, ReadIsWritten, OkIsWritten

LEMMA ScaleKeepsSlotInv ==
    ASSUME TypeInv, SlotInv, NEW c \in Commands, ScaleStores(c)
    PROVE  SlotInv'
<1> USE DEF TypeInv, TypeOK, AtScale, SlotInv
<1> DEFINE ip == IpOf[c]
<1>0. ip \in Ips
  BY DEF ScaleStores
<1>1. \A i \in Ips, n \in Slots : stored'[i][n] =
          IF i = ip /\ n \in FormatsOf[c] /\ stored[i][n] # Factory THEN c ELSE stored[i][n]
  BY <1>0 DEF ScaleStores
<1>2. applied' = applied \cup {c} /\ UNCHANGED <<handler, outcome, unread, divergent>>
  BY DEF ScaleStores, resultVars
<1>3. \A i \in Ips, n \in Slots : stored[i][n] \in Commands => stored'[i][n] \in Commands
  BY <1>1
<1>4. FactoryKept'
  BY <1>1 DEF FactoryKept
<1>5. WriterKnown'
  BY <1>1, <1>2 DEF WriterKnown
<1>6. ASSUME NEW d \in Commands, NEW ns \in SUBSET Slots, Written(d, ns)
      PROVE  Written(d, ns)'
  BY <1>2, <1>3, <1>6 DEF Written
<1>7. ReadIsWritten'
  BY <1>2, <1>6 DEF ReadIsWritten
<1>8. OkIsWritten'
  BY <1>2, <1>6 DEF OkIsWritten
<1>9. QED
  BY <1>4, <1>5, <1>7, <1>8

LEMMA LabelsNext == TypeInv /\ SlotInv /\ [Next]_vars => SlotInv'
<1> SUFFICES ASSUME TypeInv, SlotInv, [Next]_vars PROVE SlotInv' OBVIOUS
<1> USE DEF TypeInv, TypeOK, AtScale, Handler, Outcome, Goto, Release
<1> USE DEF SlotInv, FactoryKept, WriterKnown, ReadIsWritten, OkIsWritten, Written
<1>1. ASSUME NEW c \in Commands, Receive(c) PROVE SlotInv'
  BY <1>1 DEF Receive, scaleVars, reportVars, resultVars, markVars
<1>2. ASSUME NEW c \in Commands, OpenSession(c) PROVE SlotInv'
  BY <1>2 DEF OpenSession, scaleVars, reportVars, resultVars, markVars
<1>3. ASSUME NEW c \in Commands, ScaleStores(c) PROVE SlotInv'
  BY <1>3, ScaleKeepsSlotInv
<1>4. ASSUME NEW c \in Commands, Acknowledged(c) PROVE SlotInv'
  BY <1>4 DEF Acknowledged, scaleVars, reportVars, resultVars, markVars
<1>5. ASSUME NEW c \in Commands, Fails(c) PROVE SlotInv'
  BY <1>5 DEF Fails, scaleVars, reportVars, resultVars, markVars
<1>6. ASSUME NEW c \in Commands, Confirmed(c) PROVE SlotInv'
  BY <1>6 DEF Confirmed, scaleVars, reportVars, resultVars, markVars
<1>7. ASSUME NEW c \in Commands, Settle(c) PROVE SlotInv'
  BY <1>7 DEF Settle, scaleVars, reportVars, resultVars, markVars
<1>8. ASSUME NEW c \in Commands, OpenList(c) PROVE SlotInv'
  BY <1>8 DEF OpenList, scaleVars, reportVars, resultVars, markVars
<1>9. ASSUME NEW c \in Commands, ListSlots(c) PROVE SlotInv'
  BY <1>9 DEF ListSlots, scaleVars, reportVars, resultVars, markVars
<1>10. ASSUME NEW c \in Commands, NEW n \in Slots, ReadBack(c, n) PROVE SlotInv'
  BY <1>10 DEF ReadBack, scaleVars, reportVars, resultVars, markVars
<1>11. ASSUME NEW ip \in Ips, Hear(ip) PROVE SlotInv'
  BY <1>11 DEF Hear, scaleVars, reportVars, resultVars, markVars
<1>12. ASSUME NEW ip \in Ips, Query(ip) PROVE SlotInv'
  BY <1>12 DEF Query, scaleVars, reportVars, resultVars, markVars
<1>13. ASSUME NEW ip \in Ips, QueryEnds(ip) PROVE SlotInv'
  BY <1>13 DEF QueryEnds, scaleVars, reportVars, resultVars, markVars
<1>14. ASSUME NEW ip \in Ips, RamuzaOpens(ip) PROVE SlotInv'
  BY <1>14 DEF RamuzaOpens, scaleVars, reportVars, resultVars, markVars
<1>15. ASSUME NEW ip \in Ips, RamuzaCloses(ip) PROVE SlotInv'
  BY <1>15 DEF RamuzaCloses, scaleVars, reportVars, resultVars, markVars
<1>16. ASSUME StartReport PROVE SlotInv'
  BY <1>16 DEF StartReport, scaleVars, reportVars, resultVars, markVars
<1>17. ASSUME Disconnect PROVE SlotInv'
  BY <1>17 DEF Disconnect, scaleVars, reportVars, resultVars, markVars
<1>18. ASSUME Reconnect PROVE SlotInv'
  BY <1>18 DEF Reconnect, scaleVars, reportVars, resultVars, markVars
<1>19. ASSUME NEW ip \in Ips, Expire(ip) PROVE SlotInv'
  BY <1>19 DEF Expire, scaleVars, reportVars, resultVars, markVars
<1>20. CASE UNCHANGED vars
  BY <1>20 DEF vars, scaleVars, reportVars, resultVars, markVars
<1>21. QED
  BY <1>1, <1>2, <1>3, <1>4, <1>5, <1>6, <1>7, <1>8, <1>9, <1>10, <1>11, <1>12, <1>13, <1>14, <1>15, <1>16, <1>17, <1>18, <1>19, <1>20 DEF Next, Handle

(* What the mark rests on. Only Receive and Settle touch it, and whoever is *)
(* at a scale knows who else has been there since it came.                 *)
MarkInv == BesideKnown /\ BesideCame /\ MarkTells

LEMMA MarkInit == Init => MarkInv
  BY DEF Init, MarkInv, BesideKnown, BesideCame, MarkTells, UnmarkedByAnother, AtScale

(* A step that brings no handler to a scale and lets none leave it.        *)
LEMMA MarkKept ==
    ASSUME MarkInv, UNCHANGED markVars,
           \A c \in Commands : (AtScale(c)' <=> AtScale(c)) /\ (handler'[c] = "idle" => handler[c] = "idle"),
           TypeOK
    PROVE  MarkInv'
  BY DEF MarkInv, BesideKnown, BesideCame, MarkTells, UnmarkedByAnother, markVars, TypeOK

LEMMA ReceiveKeepsMarkInv ==
    ASSUME TypeOK, MarkInv, NEW c \in Commands, Receive(c) PROVE MarkInv'
<1>1. CASE IpOf[c] \in ForeignIps
  <2>1. UNCHANGED markVars /\ handler' = [handler EXCEPT ![c] = "done"] /\ handler[c] = "idle"
    BY <1>1 DEF Receive, Goto
  <2>2. \A d \in Commands : (AtScale(d)' <=> AtScale(d)) /\ (handler'[d] = "idle" => handler[d] = "idle")
    BY <2>1 DEF AtScale, TypeOK
  <2>3. QED
    BY <2>1, <2>2, MarkKept
<1>2. CASE IpOf[c] \notin ForeignIps
  <2>1. /\ handler' = [handler EXCEPT ![c] = "connecting"]
        /\ sincronizando' = sincronizando \cup {IpOf[c]}
        /\ beside' = [d \in Commands |->
               IF d = c THEN Meeting(c)
               ELSE IF d \in Meeting(c) THEN beside[d] \cup {c} ELSE beside[d]]
        /\ handler[c] = "idle"
    BY <1>2 DEF Receive, Goto
  <2>2. AtScale(c)' /\ \A d \in Commands \ {c} : (AtScale(d)' <=> AtScale(d)) /\ handler'[d] = handler[d]
    BY <2>1 DEF AtScale, TypeOK
  <2>3. /\ beside'[c] = Meeting(c)
        /\ \A d \in Meeting(c) : beside'[d] = beside[d] \cup {c}
        /\ \A d \in Commands : d # c /\ d \notin Meeting(c) => beside'[d] = beside[d]
    BY <2>1 DEF Meeting
  <2>4. BesideKnown'
    <3>1. ASSUME NEW d \in Commands, NEW e \in Commands, d # e, IpOf[d] = IpOf[e],
                 AtScale(d)', AtScale(e)'
          PROVE  e \in beside'[d]
      <4>1. CASE d = c
        BY <2>2, <2>3, <3>1, <4>1 DEF Meeting
      <4>2. CASE e = c
        BY <2>2, <2>3, <3>1, <4>2 DEF Meeting
      <4>3. CASE d # c /\ e # c
        <5>1. e \in beside[d]
          BY <2>2, <3>1, <4>3 DEF MarkInv, BesideKnown
        <5>2. QED
          BY <2>3, <4>3, <5>1
      <4>4. QED
        BY <4>1, <4>2, <4>3
    <3>2. QED
      BY <3>1 DEF BesideKnown
  <2>5. BesideCame'
    <3>1. \A d \in Meeting(c) : handler[d] # "idle" /\ d # c /\ d \in Commands
      BY DEF Meeting, AtScale
    <3>2. handler'[c] # "idle"
      BY <2>1 DEF TypeOK
    <3>3. QED
      BY <2>1, <2>2, <2>3, <3>1, <3>2 DEF MarkInv, BesideCame, TypeOK
  <2>6. UnmarkedByAnother'
    <3>1. ASSUME NEW d \in Commands, AtScale(d)', IpOf[d] \notin sincronizando'
          PROVE  \E e \in beside'[d] : ~AtScale(e)'
      <4>1. d # c /\ IpOf[d] \notin sincronizando /\ d \notin Meeting(c)
        BY <2>1, <3>1 DEF Meeting
      <4>2. PICK e \in beside[d] : ~AtScale(e)
        BY <2>2, <3>1, <4>1 DEF MarkInv, MarkTells, UnmarkedByAnother
      <4>3. e \in Commands /\ e # c
        BY <2>1, <4>2 DEF MarkInv, BesideCame, TypeOK
      <4>4. ~AtScale(e)' /\ e \in beside'[d]
        BY <2>2, <2>3, <4>1, <4>2, <4>3
      <4>5. QED
        BY <4>4
    <3>2. QED
      BY <3>1 DEF UnmarkedByAnother
  <2>7. \A ip \in sincronizando' : \E d \in Commands : AtScale(d)' /\ IpOf[d] = ip
    BY <2>1, <2>2 DEF MarkInv, MarkTells
  <2>8. QED
    BY <2>4, <2>5, <2>6, <2>7 DEF MarkInv, MarkTells
<1>3. QED
  BY <1>1, <1>2

LEMMA SettleKeepsMarkInv ==
    ASSUME TypeOK, MarkInv, NEW c \in Commands, Settle(c) PROVE MarkInv'
<1>1. /\ handler' = [handler EXCEPT ![c] = "listing"]
      /\ sincronizando' = sincronizando \ {IpOf[c]}
      /\ UNCHANGED beside
      /\ AtScale(c)
  BY DEF Settle, Goto, AtScale
<1>2. ~AtScale(c)' /\ handler'[c] # "idle"
  BY <1>1 DEF AtScale, TypeOK
<1>3. \A d \in Commands \ {c} : (AtScale(d)' <=> AtScale(d)) /\ handler'[d] = handler[d]
  BY <1>1 DEF AtScale, TypeOK
<1>4. BesideKnown' /\ BesideCame'
  BY <1>1, <1>2, <1>3 DEF MarkInv, BesideKnown, BesideCame, TypeOK
<1>5. ASSUME NEW d \in Commands, AtScale(d)', IpOf[d] \notin sincronizando'
      PROVE  \E e \in beside'[d] : ~AtScale(e)'
  <2>1. d # c /\ AtScale(d)
    BY <1>2, <1>3, <1>5
  <2>2. CASE IpOf[d] = IpOf[c]
    <3>1. c \in beside[d]
      BY <1>1, <2>1, <2>2 DEF MarkInv, BesideKnown
    <3>2. QED
      BY <1>1, <1>2, <3>1
  <2>3. CASE IpOf[d] # IpOf[c]
    <3>1. IpOf[d] \notin sincronizando
      BY <1>1, <1>5, <2>3
    <3>2. PICK e \in beside[d] : ~AtScale(e)
      BY <2>1, <3>1 DEF MarkInv, MarkTells, UnmarkedByAnother
    <3>3. e \in Commands /\ e # c
      BY <1>1, <3>2 DEF TypeOK
    <3>4. QED
      BY <1>1, <1>3, <3>2, <3>3
  <2>4. QED
    BY <2>2, <2>3
<1>6. \A ip \in sincronizando' : \E d \in Commands : AtScale(d)' /\ IpOf[d] = ip
  BY <1>1, <1>3 DEF MarkInv, MarkTells
<1>7. QED
  BY <1>4, <1>5, <1>6 DEF MarkInv, MarkTells, UnmarkedByAnother

LEMMA MarkNext == TypeOK /\ MarkInv /\ [Next]_vars => MarkInv'
<1> SUFFICES ASSUME TypeOK, MarkInv, [Next]_vars PROVE MarkInv'
  OBVIOUS
<1> DEFINE Stays == /\ UNCHANGED markVars
                    /\ \A c \in Commands : (AtScale(c)' <=> AtScale(c))
                                           /\ (handler'[c] = "idle" => handler[c] = "idle")
<1>1. ASSUME Stays PROVE MarkInv'
  BY <1>1, MarkKept
<1>2. ASSUME NEW c \in Commands, OpenSession(c) \/ Acknowledged(c) \/ Fails(c) \/ Confirmed(c)
      PROVE  Stays
  BY <1>2 DEF OpenSession, Acknowledged, Fails, Confirmed, Goto, AtScale, TypeOK
<1>3. ASSUME NEW c \in Commands, OpenList(c) \/ ListSlots(c) PROVE Stays
  BY <1>3 DEF OpenList, ListSlots, Goto, AtScale, TypeOK
<1>4. ASSUME NEW c \in Commands, ScaleStores(c) \/ \E n \in Slots : ReadBack(c, n) PROVE Stays
  BY <1>4 DEF ScaleStores, ReadBack, AtScale, TypeOK
<1>5. ASSUME NEW ip \in Ips, Hear(ip) \/ Expire(ip) \/ Query(ip) \/ QueryEnds(ip) \/ RamuzaOpens(ip) \/ RamuzaCloses(ip)
      PROVE  Stays
  BY <1>5 DEF Hear, Expire, Query, QueryEnds, RamuzaOpens, RamuzaCloses, AtScale, TypeOK
<1>6. ASSUME StartReport \/ Disconnect \/ Reconnect PROVE Stays
  BY <1>6 DEF StartReport, Disconnect, Reconnect, AtScale, TypeOK
<1>7. CASE UNCHANGED vars
  BY <1>7, <1>1 DEF vars, AtScale
<1>8. QED
  <2> HIDE DEF Stays
  <2>1. CASE \E c \in Commands : Receive(c) \/ Handle(c) \/ ScaleStores(c)
    BY <2>1, <1>1, <1>2, <1>3, <1>4, ReceiveKeepsMarkInv, SettleKeepsMarkInv DEF Handle
  <2>2. QED
    BY <2>1, <1>1, <1>5, <1>6, <1>7 DEF Next

(* The inductive invariant: the variables have their types, a factory      *)
(* model stays, and every label found in order was written by a command    *)
(* (index.ts:155-209, scale-client.ts:1053-1133).                          *)
THEOREM Invariant == Spec => []IInv
<1>1. Init => TypeInv /\ SlotInv /\ MarkInv
  BY TypeInit, LabelsInit, MarkInit
<1>2. TypeInv /\ SlotInv /\ MarkInv /\ [Next]_vars => (TypeInv /\ SlotInv /\ MarkInv)'
  BY TypeNext, LabelsNext, MarkNext DEF TypeInv
<1>3. TypeInv /\ SlotInv /\ MarkInv => IInv
  BY DEF TypeInv, SlotInv, MarkInv, IInv
<1>4. QED
  BY <1>1, <1>2, <1>3, PTL DEF Spec

(* A command with a format for a slot that holds a factory model is never  *)
(* reported as synchronised, although the scale acknowledges it and other  *)
(* commands write the same slots (scale-client.ts:1061-1083).              *)
THEOREM FactorySlotTheorem == Spec => []FactorySlotNeverOk
<1>1. IInv => FactorySlotNeverOk
  BY DEF IInv, FactorySlotNeverOk, FactoryKept, OkIsWritten, Written
<1>2. QED
  BY <1>1, Invariant, PTL

(* A command reported as synchronised was processed by the scale, and each *)
(* of its slots still holds its label or that of a command that wrote the  *)
(* slot (scale-client.ts:1053-1086, verificarFormatosGravados 852-870).    *)
THEOREM OkIsStoredTheorem == Spec => []OkIsStored
<1>1. IInv => OkIsStored
  BY DEF IInv, OkIsStored, WriterKnown, OkIsWritten, Written
<1>2. QED
  BY <1>1, Invariant, PTL

(* A marked scale is being written, and one that is being written is       *)
(* marked, unless another command that was there beside this one has       *)
(* finished and taken the mark along, for any number of commands and       *)
(* scales (index.ts:130, 165-190).                                         *)
THEOREM MarkTheorem == Spec => []MarkTells
<1>1. IInv => MarkTells
  BY DEF IInv
<1>2. QED
  BY <1>1, Invariant, PTL

-----------------------------------------------------------------------------
(* The rows of the store's scales.                                         *)

USE RegistryAssumption

LEMMA RegistryTypeInit == RegistryInit => RegistryTypeOK
  BY DEF RegistryInit, RegistryTypeOK

LEMMA RegistryReportType ==
    ASSUME RegistryTypeOK, NEW a \in Agents, NEW ips \in SUBSET Addresses, NEW live \in BOOLEAN,
           ReportDiscovered(a, ips, live)
    PROVE  RegistryTypeOK'
<1>1. [agent |-> a, ips |-> ips] \in Sighting
  BY DEF Sighting
<1>2. QED
  BY <1>1 DEF ReportDiscovered, RegistryTypeOK, rowVars, placeVars, slotVars

LEMMA RegistryTypeNext ==
    RegistryTypeOK /\ [RegistryNext]_registryVars => RegistryTypeOK'
<1> SUFFICES ASSUME RegistryTypeOK, [RegistryNext]_registryVars PROVE RegistryTypeOK'
  OBVIOUS
<1> USE DEF rowVars, placeVars, ipVars, slotVars, Present
<1>1. ASSUME NEW d \in Devices, NEW i \in Addresses, NEW a \in Agents \cup {NoAgent}, Create(d, i, a)
      PROVE  RegistryTypeOK'
  BY <1>1 DEF Create, RegistryTypeOK
<1>2. ASSUME NEW d \in Devices, NEW a \in Agents, LinkAgent(d, a) PROVE RegistryTypeOK'
  BY <1>2 DEF LinkAgent, RegistryTypeOK
<1>3. ASSUME NEW d \in Devices, NEW i \in Addresses, EditIp(d, i) PROVE RegistryTypeOK'
  BY <1>3 DEF EditIp, RegistryTypeOK
<1>4. ASSUME NEW d \in Devices, Remove(d) PROVE RegistryTypeOK'
  BY <1>4 DEF Remove, RegistryTypeOK
<1>5. ASSUME NEW k \in Scales, NEW i \in Addresses, Move(k, i) PROVE RegistryTypeOK'
  BY <1>5 DEF Move, RegistryTypeOK
<1>6. ASSUME NEW k \in Scales, NEW n \in LabelSlots, Occupy(k, n) PROVE RegistryTypeOK'
  BY <1>6 DEF Occupy, RegistryTypeOK
<1>7. ASSUME NEW a \in Agents, NEW live \in BOOLEAN, NEW kept \in SUBSET heard[a],
             ReportDiscovered(a, kept, live)
      PROVE  RegistryTypeOK'
  <2>1. kept \in SUBSET Addresses
    BY DEF RegistryTypeOK
  <2>2. QED
    BY <1>7, <2>1, RegistryReportType
<1>8. ASSUME NEW k \in Scales, NEW live \in BOOLEAN, NEW kept \in SUBSET heard[LanOf[k]],
             HearScale(k, kept, live)
      PROVE  RegistryTypeOK'
  <2>1. kept \cup {addr[k]} \in SUBSET Addresses /\ LanOf[k] \in Agents
    BY DEF RegistryTypeOK
  <2>2. ReportDiscovered(LanOf[k], kept \cup {addr[k]}, live)
    BY <1>8 DEF HearScale
  <2>3. QED
    BY <2>1, <2>2, RegistryReportType
<1>9. ASSUME NEW m \in sightings, Reconcile(m) PROVE RegistryTypeOK'
  BY <1>9 DEF Reconcile, RegistryTypeOK
<1>10. ASSUME NEW f \in fixes, ApplyFix(f) PROVE RegistryTypeOK'
  BY <1>10 DEF ApplyFix, Fix, RegistryTypeOK
<1>11. ASSUME NEW k \in Scales, NEW slots \in SUBSET occupied[k], ReportSlots(k, slots) PROVE RegistryTypeOK'
  <2>1. [agent |-> LanOf[k], ip |-> addr[k], slots |-> slots] \in SlotReport
    BY DEF SlotReport, RegistryTypeOK
  <2>2. QED
    BY <1>11, <2>1 DEF ReportSlots, RegistryTypeOK
<1>12. ASSUME NEW m \in reports, MergeSlots(m) PROVE RegistryTypeOK'
  <2>1. \A d \in Devices : [device |-> d, slots |-> slotsEtiqueta[d] \cup m.slots] \in Merge
    BY DEF Merge, SlotReport, RegistryTypeOK
  <2>2. QED
    BY <1>12, <2>1 DEF MergeSlots, LinkedTo, RegistryTypeOK
<1>13. ASSUME NEW w \in merges, ApplyMerge(w) PROVE RegistryTypeOK'
  BY <1>13 DEF ApplyMerge, Merge, RegistryTypeOK
<1>14. CASE UNCHANGED registryVars
  BY <1>14 DEF registryVars, RegistryTypeOK
<1>15. CASE UserNext
  BY <1>1, <1>2, <1>3, <1>4, <1>15 DEF UserNext
<1>16. CASE ScaleNext
  BY <1>5, <1>6, <1>16 DEF ScaleNext
<1>17. CASE IpNext
  BY <1>7, <1>8, <1>9, <1>10, <1>17 DEF IpNext
<1>18. CASE SlotNext
  BY <1>11, <1>12, <1>13, <1>18 DEF SlotNext
<1>19. QED
  BY <1>14, <1>15, <1>16, <1>17, <1>18 DEF RegistryNext

-----------------------------------------------------------------------------
(* Links and addresses are only added to the history and slots only come   *)
(* into use, so what a row may say only grows.                             *)

LEMMA HistoryGrows ==
    ASSUME RegistryTypeOK, [RegistryNext]_registryVars
    PROVE  /\ \A k \in Scales : occupied[k] \subseteq occupied'[k]
           /\ \A d \in Devices : linked[d] \subseteq linked'[d]
           /\ \A a \in Agents : met[a] \subseteq met'[a]
<1> DEFINE Grown == /\ \A k \in Scales : occupied[k] \subseteq occupied'[k]
                    /\ \A d \in Devices : linked[d] \subseteq linked'[d]
                    /\ \A a \in Agents : met[a] \subseteq met'[a]
<1> USE DEF RegistryTypeOK, rowVars, placeVars, ipVars, slotVars
<1>1. ASSUME UserNext PROVE Grown
  BY <1>1 DEF UserNext, Create, LinkAgent, EditIp, Remove
<1>2. ASSUME ScaleNext PROVE Grown
  BY <1>2 DEF ScaleNext, Move, Occupy
<1>3. ASSUME IpNext PROVE Grown
  BY <1>3 DEF IpNext, HearScale, ReportDiscovered, Reconcile, ApplyFix
<1>4. ASSUME SlotNext PROVE Grown
  BY <1>4 DEF SlotNext, ReportSlots, MergeSlots, ApplyMerge
<1>5. CASE UNCHANGED registryVars
  BY <1>5 DEF registryVars
<1>6. QED
  BY <1>1, <1>2, <1>3, <1>4, <1>5 DEF RegistryNext

LEMMA InUseGrows ==
    ASSUME RegistryTypeOK, [RegistryNext]_registryVars
    PROVE  /\ \A d \in Devices : InUseAt(linked[d]) \subseteq InUseAt(linked[d])'
           /\ \A a \in Agents : InUseAt({a}) \subseteq InUseAt({a})'
  BY HistoryGrows DEF InUseAt, RegistryTypeOK

LEMMA HeardGrows ==
    ASSUME RegistryTypeOK, [RegistryNext]_registryVars
    PROVE  \A d \in Devices : HeardBy(linked[d]) \subseteq HeardBy(linked[d])'
  BY HistoryGrows DEF HeardBy, RegistryTypeOK

(* Which step may add a message or an update, or change a map.             *)
LEMMA MessagesFrom ==
    ASSUME RegistryTypeOK, [RegistryNext]_registryVars
    PROVE  /\ \/ reports' \subseteq reports
              \/ \E k \in Scales : \E slots \in SUBSET occupied[k] : ReportSlots(k, slots)
           /\ \/ merges' \subseteq merges
              \/ \E m \in reports : MergeSlots(m)
           /\ \/ UNCHANGED slotsEtiqueta /\ merges \ overtaken = (merges \ overtaken)'
              \/ UNCHANGED slotsEtiqueta /\ \E m \in reports : MergeSlots(m)
              \/ \E w \in merges : ApplyMerge(w)
           /\ fixes' \subseteq fixes \/ \E m \in sightings : Reconcile(m)
           /\ \/ UNCHANGED <<heard, met>> /\ sightings' \subseteq sightings
              \/ \E a \in Agents, ips \in SUBSET Addresses, online \in BOOLEAN :
                    ReportDiscovered(a, ips, online)
           /\ UNCHANGED deviceIp \/ UNCHANGED fixes \/ \E f \in fixes : ApplyFix(f)
<1> USE DEF rowVars, placeVars, ipVars, slotVars
<1>1. CASE UserNext
  BY <1>1 DEF UserNext, Create, LinkAgent, EditIp, Remove
<1>2. CASE ScaleNext
  BY <1>2 DEF ScaleNext, Move, Occupy
<1>3. CASE IpNext
  <2>1. ASSUME NEW k \in Scales, NEW online \in BOOLEAN, NEW kept \in SUBSET heard[LanOf[k]],
               HearScale(k, kept, online)
        PROVE  ReportDiscovered(LanOf[k], kept \cup {addr[k]}, online)
               /\ LanOf[k] \in Agents /\ kept \cup {addr[k]} \in SUBSET Addresses
    BY <2>1 DEF HearScale, RegistryTypeOK
  <2>2. ASSUME NEW a \in Agents, NEW ips \in SUBSET Addresses, NEW online \in BOOLEAN,
               ReportDiscovered(a, ips, online)
        PROVE  UNCHANGED <<slotsEtiqueta, reports, merges, overtaken, fixes, deviceIp>>
    BY <2>2 DEF ReportDiscovered
  <2>3. ASSUME NEW a \in Agents, NEW online \in BOOLEAN, NEW kept \in SUBSET heard[a],
               ReportDiscovered(a, kept, online)
        PROVE  kept \in SUBSET Addresses
    BY DEF RegistryTypeOK
  <2>4. CASE \E a \in Agents, ips \in SUBSET Addresses, online \in BOOLEAN :
                 ReportDiscovered(a, ips, online)
    BY <2>2, <2>4
  <2>5. CASE \E m \in sightings : Reconcile(m)
    BY <2>5 DEF Reconcile
  <2>6. CASE \E f \in fixes : ApplyFix(f)
    BY <2>6 DEF ApplyFix
  <2>7. CASE \E k \in Scales, online \in BOOLEAN :
                 \E kept \in SUBSET heard[LanOf[k]] : HearScale(k, kept, online)
    <3>1. PICK k \in Scales, online \in BOOLEAN :
                 \E kept \in SUBSET heard[LanOf[k]] : HearScale(k, kept, online)
      BY <2>7
    <3>2. PICK kept \in SUBSET heard[LanOf[k]] : HearScale(k, kept, online)
      BY <3>1
    <3>3. \E a \in Agents, ips \in SUBSET Addresses, live \in BOOLEAN : ReportDiscovered(a, ips, live)
      BY <2>1, <3>2
    <3>4. QED
      BY <2>4, <3>3
  <2>8. CASE \E a \in Agents, online \in BOOLEAN :
                 \E kept \in SUBSET heard[a] : ReportDiscovered(a, kept, online)
    BY <2>3, <2>4, <2>8
  <2>9. QED
    BY <1>3, <2>5, <2>6, <2>7, <2>8 DEF IpNext
<1>4. CASE SlotNext
  BY <1>4 DEF SlotNext, ReportSlots, MergeSlots, ApplyMerge
<1>5. CASE UNCHANGED registryVars
  BY <1>5 DEF registryVars
<1>6. QED
  BY <1>1, <1>2, <1>3, <1>4, <1>5 DEF RegistryNext

-----------------------------------------------------------------------------
(* The maps.                                                               *)

LEMMA LinksNext == RegistryTypeOK /\ LinksKept /\ [RegistryNext]_registryVars => LinksKept'
<1> SUFFICES ASSUME RegistryTypeOK, LinksKept, [RegistryNext]_registryVars PROVE LinksKept'
  OBVIOUS
<1> USE DEF RegistryTypeOK, LinksKept, rowVars, placeVars, ipVars, slotVars
<1>1. CASE UserNext
  BY <1>1 DEF UserNext, Create, LinkAgent, EditIp, Remove
<1>2. CASE ScaleNext
  BY <1>2 DEF ScaleNext, Move, Occupy
<1>3. CASE IpNext
  BY <1>3 DEF IpNext, HearScale, ReportDiscovered, Reconcile, ApplyFix
<1>4. CASE SlotNext
  BY <1>4 DEF SlotNext, ReportSlots, MergeSlots, ApplyMerge
<1>5. CASE UNCHANGED registryVars
  BY <1>5 DEF registryVars
<1>6. QED
  BY <1>1, <1>2, <1>3, <1>4, <1>5 DEF RegistryNext

LEMMA ReportsNext == RegistryTypeOK /\ ReportsTrue /\ [RegistryNext]_registryVars => ReportsTrue'
<1> SUFFICES ASSUME RegistryTypeOK, ReportsTrue, [RegistryNext]_registryVars PROVE ReportsTrue'
  OBVIOUS
<1>1. \A m \in reports : m.slots \subseteq InUseAt({m.agent})'
  BY InUseGrows DEF ReportsTrue, RegistryTypeOK, SlotReport
<1>2. ASSUME NEW k \in Scales, NEW slots \in SUBSET occupied[k], ReportSlots(k, slots)
      PROVE  ReportsTrue'
  <2>1. ASSUME NEW m \in reports', m = [agent |-> LanOf[k], ip |-> addr[k], slots |-> slots]
        PROVE  m.slots \subseteq InUseAt({m.agent})'
    <3>1. m.slots = slots /\ m.agent = LanOf[k]
      BY <2>1
    <3>2. QED
      BY <1>2, <3>1 DEF InUseAt, ReportSlots, placeVars
  <2>2. QED
    BY <1>1, <1>2, <2>1 DEF ReportSlots, ReportsTrue
<1>3. CASE reports' \subseteq reports
  BY <1>1, <1>3 DEF ReportsTrue
<1>4. QED
  BY <1>2, <1>3, MessagesFrom

LEMMA MapsNext ==
    ASSUME RegistryTypeOK, RegistryInv, [RegistryNext]_registryVars
    PROVE  MergesTrue' /\ SlotsFromOwnAgents'
<1>1. \A w \in merges : w.slots \subseteq InUseAt(linked[w.device])'
  BY InUseGrows DEF RegistryInv, MergesTrue, RegistryTypeOK, Merge
<1>2. \A d \in Devices : slotsEtiqueta[d] \subseteq InUseAt(linked[d])'
  BY InUseGrows DEF RegistryInv, SlotsFromOwnAgents
<1>3. ASSUME NEW m \in reports, MergeSlots(m) PROVE MergesTrue'
  <2>1. ASSUME NEW d \in LinkedTo(m.agent)
        PROVE  slotsEtiqueta[d] \cup m.slots \subseteq InUseAt(linked[d])'
    <3>1. d \in Devices /\ m.agent \in linked[d]
      BY DEF LinkedTo, Present, RegistryInv, LinksKept, RegistryTypeOK, SlotReport
    <3>2. InUseAt({m.agent}) \subseteq InUseAt(linked[d])
      BY <3>1 DEF InUseAt
    <3>3. InUseAt({m.agent}) \subseteq InUseAt(linked[d])'
      BY <3>1, <3>2, InUseGrows
    <3>4. QED
      BY <1>2, <3>1, <3>3 DEF RegistryInv, ReportsTrue
  <2>2. QED
    BY <1>1, <1>3, <2>1 DEF MergeSlots, MergesTrue
<1>4. MergesTrue'
  BY <1>1, <1>3, MessagesFrom DEF MergesTrue
<1>5. ASSUME NEW w \in merges, ApplyMerge(w) PROVE SlotsFromOwnAgents'
  BY <1>1, <1>2, <1>5 DEF SlotsFromOwnAgents, ApplyMerge, RegistryTypeOK, Merge
<1>6. SlotsFromOwnAgents'
  BY <1>2, <1>5, MessagesFrom DEF SlotsFromOwnAgents
<1>7. QED
  BY <1>4, <1>6

(* An update that nothing has overtaken still holds all its row lists.     *)
LEMMA CurrentNext ==
    RegistryTypeOK /\ MergesCurrent /\ [RegistryNext]_registryVars => MergesCurrent'
<1> SUFFICES ASSUME RegistryTypeOK, MergesCurrent, [RegistryNext]_registryVars PROVE MergesCurrent'
  OBVIOUS
<1>1. ASSUME NEW m \in reports, MergeSlots(m) PROVE MergesCurrent'
  BY <1>1 DEF MergeSlots, MergesCurrent, rowVars
<1>2. ASSUME NEW w \in merges, ApplyMerge(w) PROVE MergesCurrent'
  BY <1>2 DEF ApplyMerge, MergesCurrent, RegistryTypeOK, Merge
<1>3. CASE UNCHANGED slotsEtiqueta /\ merges \ overtaken = (merges \ overtaken)'
  BY <1>3 DEF MergesCurrent
<1>4. QED
  BY <1>1, <1>2, <1>3, MessagesFrom

-----------------------------------------------------------------------------
(* The addresses.                                                          *)

LEMMA SightingsNext ==
    RegistryTypeOK /\ SightingsTrue /\ [RegistryNext]_registryVars => SightingsTrue'
<1> SUFFICES ASSUME RegistryTypeOK, SightingsTrue, [RegistryNext]_registryVars PROVE SightingsTrue'
  OBVIOUS
<1>1. ASSUME NEW a \in Agents, NEW ips \in SUBSET Addresses, NEW online \in BOOLEAN,
             ReportDiscovered(a, ips, online)
      PROVE  SightingsTrue'
  <2>1. /\ heard' = [heard EXCEPT ![a] = ips]
        /\ met' = [met EXCEPT ![a] = met[a] \cup ips]
        /\ sightings' \subseteq sightings \cup {[agent |-> a, ips |-> ips]}
    BY <1>1 DEF ReportDiscovered
  <2>2. \A m \in sightings : m.agent \in Agents
    BY DEF RegistryTypeOK, Sighting
  <2>3. QED
    BY <2>1, <2>2 DEF SightingsTrue, RegistryTypeOK
<1>2. CASE UNCHANGED <<heard, met>> /\ sightings' \subseteq sightings
  BY <1>2 DEF SightingsTrue
<1>3. QED
  BY <1>1, <1>2, MessagesFrom

LEMMA FixesNext ==
    ASSUME RegistryTypeOK, RegistryInv, [RegistryNext]_registryVars
    PROVE  FixesTrue'
<1>1. \A f \in fixes : f.ip \in HeardBy(linked[f.device])'
  BY HeardGrows DEF RegistryInv, FixesTrue, RegistryTypeOK, Fix
<1>2. ASSUME NEW m \in sightings, Reconcile(m) PROVE FixesTrue'
  <2>1. ASSUME NEW f \in Fix, LinkedTo(m.agent) = {f.device}, f.ip \in m.ips
        PROVE  f.ip \in HeardBy(linked[f.device])'
    <3>1. f.device \in Devices /\ m.agent \in linked[f.device]
      BY <2>1 DEF LinkedTo, Present, RegistryInv, LinksKept, RegistryTypeOK, Sighting, Fix
    <3>2. f.ip \in HeardBy(linked[f.device])
      BY <2>1, <3>1 DEF HeardBy, RegistryInv, SightingsTrue
    <3>3. QED
      BY <3>1, <3>2, HeardGrows
  <2>2. ASSUME NEW f \in fixes' PROVE f.ip \in HeardBy(linked[f.device])'
    <3>1. CASE f \in fixes
      BY <1>1, <3>1
    <3>2. CASE f \notin fixes
      <4>1. f \in Fix /\ LinkedTo(m.agent) = {f.device} /\ m.ips \ {deviceIp[f.device]} = {f.ip}
        BY <1>2, <3>2, Zenon DEF Reconcile
      <4>2. f.ip \in m.ips
        BY <4>1
      <4>3. QED
        BY <2>1, <4>1, <4>2
    <3>3. QED
      BY <3>1, <3>2
  <2>3. QED
    BY <2>2 DEF FixesTrue
<1>3. CASE fixes' \subseteq fixes
  BY <1>1, <1>3 DEF FixesTrue
<1>4. QED
  BY <1>2, <1>3, MessagesFrom

-----------------------------------------------------------------------------
(* The inductive invariant: messages, pending updates, maps and            *)
(* corrections only say what the agents of the row said of their own       *)
(* scales, and an update nothing has overtaken lists all its row lists     *)
(* (agent.gateway.ts:220-281).                                             *)
THEOREM RegistryInvariant == RegistrySpec => []RegistryInv
<1>1. RegistryInit => RegistryInv
  BY RegistryTypeInit DEF RegistryInit, RegistryInv, LinksKept, ReportsTrue, MergesTrue,
     SlotsFromOwnAgents, MergesCurrent, SightingsTrue, FixesTrue
<1>2. RegistryInv /\ [RegistryNext]_registryVars => RegistryInv'
  BY RegistryTypeNext, LinksNext, ReportsNext, MapsNext, CurrentNext, SightingsNext, FixesNext
     DEF RegistryInv
<1>3. QED
  BY <1>1, <1>2, PTL DEF RegistrySpec

(* No agent can put a slot on the map of a row it was never linked to, for *)
(* any number of networks that share their addresses.                      *)
THEOREM SlotsTheorem == RegistrySpec => []SlotsFromOwnAgents
<1>1. RegistryInv => SlotsFromOwnAgents
  BY DEF RegistryInv
<1>2. QED
  BY <1>1, RegistryInvariant, PTL

(* A row loses a slot only to an update that another one has overtaken,    *)
(* for any number of rows, agents and reports (agent.gateway.ts:230-244).  *)
THEOREM SlotsLostTheorem == RegistrySpec => SlotsLostToOvertaken
<1>1. ASSUME RegistryInv, [RegistryNext]_registryVars
      PROVE  [\A d \in Devices : slotsEtiqueta[d] \subseteq slotsEtiqueta'[d]
                 \/ \E w \in overtaken : w.device = d /\ w \notin merges']_registryVars
  <2>1. ASSUME NEW w \in merges, ApplyMerge(w)
        PROVE  \A d \in Devices : slotsEtiqueta[d] \subseteq slotsEtiqueta'[d]
                  \/ \E v \in overtaken : v.device = d /\ v \notin merges'
    BY <1>1, <2>1 DEF ApplyMerge, RegistryInv, RegistryTypeOK, MergesCurrent, Merge
  <2>2. UNCHANGED slotsEtiqueta \/ \E w \in merges : ApplyMerge(w)
    BY <1>1, MessagesFrom DEF RegistryInv
  <2>3. QED
    BY <2>1, <2>2
<1>2. QED
  BY <1>1, RegistryInvariant, PTL DEF RegistrySpec, SlotsLostToOvertaken

(* The gateway corrects a row's address only to one an agent of the row    *)
(* heard a scale at, however stale the report (agent.gateway.ts:262-281).  *)
THEOREM CorrectionTheorem == RegistrySpec => CorrectedWithinNetwork
<1>1. ASSUME RegistryInv, [RegistryNext]_registryVars
      PROVE  [\A d \in Devices : fixes' # fixes /\ deviceIp'[d] # deviceIp[d] =>
                 deviceIp'[d] \in HeardBy(linked[d])]_registryVars
  <2>1. ASSUME NEW f \in fixes, ApplyFix(f), NEW d \in Devices, deviceIp'[d] # deviceIp[d]
        PROVE  deviceIp'[d] \in HeardBy(linked[d])
    BY <1>1, <2>1 DEF ApplyFix, RegistryInv, RegistryTypeOK, FixesTrue, Fix
  <2>2. UNCHANGED deviceIp \/ UNCHANGED fixes \/ \E f \in fixes : ApplyFix(f)
    BY <1>1, MessagesFrom DEF RegistryInv
  <2>3. QED
    BY <2>1, <2>2
<1>2. QED
  BY <1>1, RegistryInvariant, PTL DEF RegistrySpec, CorrectedWithinNetwork
=============================================================================
