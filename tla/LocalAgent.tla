----------------------------- MODULE LocalAgent -----------------------------
(***************************************************************************)
(* One Agent Local (agent-local/src/index.ts) and the scales it serves     *)
(* over TCP (agent-local/src/scale-client.ts): the handler of sync:command,*)
(* which runs once per command with nothing that serialises two commands,  *)
(* the periodic reading of the label slots, and the results that wait for  *)
(* a connection to the backend.                                            *)
(*                                                                         *)
(* The scale is external. It serves one client at a time and resets the    *)
(* others, acknowledges a label format written to a slot that holds a      *)
(* factory model and discards it, and may discard a PLU row in silence.    *)
(***************************************************************************)
EXTENDS Naturals, FiniteSets

CONSTANTS
    Commands,      \* commands received from the backend
    Ips,           \* addresses of the scales, in the local network
    ForeignIps,    \* addresses isAllowedDeviceIp refuses
    IpOf,          \* the deviceIp of each command
    Slots,         \* label slots of a scale
    FormatsOf,     \* the slots whose formats each command carries
    Names,         \* names of the formats, none of them a factory model's
    NameOf,        \* the name each command gives the format of a slot
    FactorySlots,  \* slots of each scale that hold a factory model
    Factory, Empty,
    Report, Ramuza, Nobody  \* the other clients of a scale, and none

Clients == Commands \cup {Report, Ramuza}

ASSUME AgentAssumption ==
    /\ ForeignIps \cap Ips = {}
    /\ IpOf \in [Commands -> Ips \cup ForeignIps]
    /\ FormatsOf \in [Commands -> SUBSET Slots]
    /\ FactorySlots \in [Ips -> SUBSET Slots]
    /\ Factory \notin Commands /\ Empty \notin Commands /\ Factory # Empty
    /\ Nobody \notin Clients /\ Report \notin Commands /\ Ramuza \notin Commands

ASSUME NamesAssumption == NameOf \in [Commands -> [Slots -> Names]]

VARIABLES
    connected,     \* socket.connected
    handler,       \* where each sync:command handler is
    stored,        \* whose format each slot of each scale holds
    pending,       \* commands whose body is with the scale, not processed yet
    applied,       \* commands whose body the scale has processed
    unread,        \* formats of a command still to be read back
    divergent,     \* formats of a command that were read back and differ
    outcome,       \* the ScaleSyncOutcome of each command
    session,       \* the client each scale is serving
    sincronizando, \* the set of that name
    beside,        \* history: the commands each one has shared its scale with
    discovered,    \* scales heard in the last 60 s
    toReport,      \* what the loop of reportSlots has left
    outbox,        \* results emitted while disconnected
    sent           \* results that left for the backend

scaleVars  == <<stored, pending, applied, session>>
reportVars == <<discovered, toReport>>
resultVars == <<outcome, outbox, sent>>
markVars   == <<sincronizando, beside>>
vars == <<connected, handler, unread, divergent, scaleVars, markVars, reportVars, resultVars>>

Handler == {"idle", "connecting", "writing", "reading", "settled", "listing", "listed", "done"}
Outcome == {"none", "ok", "failed"}

TypeOK ==
    /\ connected     \in BOOLEAN
    /\ handler       \in [Commands -> Handler]
    /\ stored        \in [Ips -> [Slots -> Commands \cup {Factory, Empty}]]
    /\ pending       \subseteq Commands
    /\ applied       \subseteq Commands
    /\ unread        \in [Commands -> SUBSET Slots]
    /\ divergent     \in [Commands -> SUBSET Slots]
    /\ outcome       \in [Commands -> Outcome]
    /\ session       \in [Ips -> Clients \cup {Nobody}]
    /\ sincronizando \subseteq Ips
    /\ beside        \in [Commands -> SUBSET Commands]
    /\ discovered    \subseteq Ips
    /\ toReport      \subseteq Ips
    /\ outbox        \subseteq Commands
    /\ sent          \subseteq Commands

Init ==
    /\ connected     = TRUE
    /\ handler       = [c \in Commands |-> "idle"]
    /\ stored        = [ip \in Ips |-> [n \in Slots |->
                           IF n \in FactorySlots[ip] THEN Factory ELSE Empty]]
    /\ pending       = {}
    /\ applied       = {}
    /\ unread        = [c \in Commands |-> {}]
    /\ divergent     = [c \in Commands |-> {}]
    /\ outcome       = [c \in Commands |-> "none"]
    /\ session       = [ip \in Ips |-> Nobody]
    /\ sincronizando = {}
    /\ beside        = [c \in Commands |-> {}]
    /\ discovered    = {}
    /\ toReport      = {}
    /\ outbox        = {}
    /\ sent          = {}

\* Between the mark and the finally block.
AtScale(c) == handler[c] \in {"connecting", "writing", "reading", "settled"}
Meeting(c) == {d \in Commands \ {c} : AtScale(d) /\ IpOf[d] = IpOf[c]}

Goto(c, where) == handler' = [handler EXCEPT ![c] = where]

\* The session of a client that closes its connection is free again.
Release(c) == session' = [ip \in Ips |-> IF session[ip] = c THEN Nobody ELSE session[ip]]

-----------------------------------------------------------------------------
(* Plausible bugs: the handlers below are replaced by these to see which   *)
(* property notices.                                                       *)

\* The reading is taken for a confirmation, whatever it found.
ConfirmedAsRead(c) ==
    /\ handler[c] = "reading"
    /\ unread[c] = {}
    /\ Goto(c, "settled")
    /\ outcome' = [outcome EXCEPT ![c] = "ok"]
    /\ UNCHANGED <<connected, unread, divergent, scaleVars, markVars, reportVars, outbox, sent>>

\* The mark is removed once the body is written, before it is read back.
AcknowledgedUnmarks(c) ==
    /\ handler[c] = "writing"
    /\ c \in applied
    /\ Release(c)
    /\ IF FormatsOf[c] = {}
       THEN Goto(c, "settled") /\ outcome' = [outcome EXCEPT ![c] = "ok"]
       ELSE Goto(c, "reading") /\ UNCHANGED outcome
    /\ unread' = [unread EXCEPT ![c] = FormatsOf[c]]
    /\ sincronizando' = sincronizando \ {IpOf[c]}
    /\ UNCHANGED <<connected, beside, divergent, stored, pending, applied, reportVars, outbox, sent>>

\* A result that cannot leave at once is dropped.
SettleUnbuffered(c) ==
    /\ handler[c] = "settled"
    /\ sincronizando' = sincronizando \ {IpOf[c]}
    /\ IF connected THEN sent' = sent \cup {c} ELSE UNCHANGED sent
    /\ Goto(c, "listing")
    /\ UNCHANGED <<connected, beside, unread, divergent, scaleVars, reportVars, outcome, outbox>>

-----------------------------------------------------------------------------
(* sync:command.                                                           *)

\* An address outside the local network is refused without touching a scale.
Receive(c) ==
    /\ connected
    /\ handler[c] = "idle"
    /\ IF IpOf[c] \in ForeignIps
       THEN /\ Goto(c, "done")
            /\ outcome' = [outcome EXCEPT ![c] = "failed"]
            /\ sent' = sent \cup {c}
            /\ UNCHANGED markVars
       ELSE /\ Goto(c, "connecting")
            /\ sincronizando' = sincronizando \cup {IpOf[c]}
            /\ beside' = [d \in Commands |->
                   IF d = c THEN Meeting(c)
                   ELSE IF d \in Meeting(c) THEN beside[d] \cup {c} ELSE beside[d]]
            /\ UNCHANGED <<outcome, sent>>
    /\ UNCHANGED <<connected, unread, divergent, scaleVars, reportVars, outbox>>

\* escreverNaBalanca: the scale accepts the connection and the body is written.
OpenSession(c) ==
    /\ handler[c] = "connecting"
    /\ session[IpOf[c]] = Nobody
    /\ session' = [session EXCEPT ![IpOf[c]] = c]
    /\ pending' = pending \cup {c}
    /\ Goto(c, "writing")
    /\ UNCHANGED <<connected, unread, divergent, stored, applied, markVars, reportVars, resultVars>>

\* The scale stores the formats, except over its factory models: while the agent
\* waits, or when it has given up, whose connection then held the whole body.
ScaleStores(c) ==
    LET ip == IpOf[c] IN
    /\ c \in pending
    /\ pending' = pending \ {c}
    /\ applied' = applied \cup {c}
    /\ stored' = [stored EXCEPT ![ip] = [n \in Slots |->
           IF n \in FormatsOf[c] /\ stored[ip][n] # Factory THEN c ELSE stored[ip][n]]]
    /\ UNCHANGED <<connected, handler, unread, divergent, session, markVars, reportVars, resultVars>>

\* END TIM arrives. Without formats the outcome is ok as it stands.
Acknowledged(c) ==
    /\ handler[c] = "writing"
    /\ c \in applied
    /\ Release(c)
    /\ IF FormatsOf[c] = {}
       THEN Goto(c, "settled") /\ outcome' = [outcome EXCEPT ![c] = "ok"]
       ELSE Goto(c, "reading") /\ UNCHANGED outcome
    /\ unread' = [unread EXCEPT ![c] = FormatsOf[c]]
    /\ UNCHANGED <<connected, divergent, stored, pending, applied, markVars, reportVars, outbox, sent>>

\* A reset, a close or 10 s of silence end the write or the reading; the scale
\* may already have stored what it got.
Fails(c) ==
    /\ handler[c] \in {"connecting", "writing", "reading"}
    /\ Release(c)
    /\ Goto(c, "settled")
    /\ outcome' = [outcome EXCEPT ![c] = "failed"]
    /\ UNCHANGED <<connected, unread, divergent, stored, pending, applied, markVars, reportVars, outbox, sent>>

\* verificarFormatosGravados: one slot is read back over a connection of its own.
\* Names only are compared: another command's format of that name passes for this one.
ReadBack(c, n) ==
    LET there == stored[IpOf[c]][n] IN
    /\ handler[c] = "reading"
    /\ n \in unread[c]
    /\ session[IpOf[c]] = Nobody
    /\ unread' = [unread EXCEPT ![c] = @ \ {n}]
    /\ divergent' = IF there \in Commands /\ NameOf[there][n] = NameOf[c][n] THEN divergent
                    ELSE [divergent EXCEPT ![c] = @ \cup {n}]
    /\ UNCHANGED <<connected, handler, scaleVars, markVars, reportVars, resultVars>>

Confirmed(c) ==
    /\ handler[c] = "reading"
    /\ unread[c] = {}
    /\ Goto(c, "settled")
    /\ outcome' = [outcome EXCEPT ![c] = IF divergent[c] = {} THEN "ok" ELSE "failed"]
    /\ UNCHANGED <<connected, unread, divergent, scaleVars, markVars, reportVars, outbox, sent>>

\* The finally block and the emit, which socket.io buffers while disconnected.
Settle(c) ==
    /\ handler[c] = "settled"
    /\ sincronizando' = sincronizando \ {IpOf[c]}
    /\ IF connected
       THEN sent' = sent \cup {c} /\ UNCHANGED outbox
       ELSE outbox' = outbox \cup {c} /\ UNCHANGED sent
    /\ Goto(c, "listing")
    /\ UNCHANGED <<connected, beside, unread, divergent, scaleVars, reportVars, outcome>>

\* The slots are listed once more after the result, over a session that no mark
\* announces any more.
OpenList(c) ==
    /\ handler[c] = "listing"
    /\ session[IpOf[c]] = Nobody
    /\ session' = [session EXCEPT ![IpOf[c]] = c]
    /\ Goto(c, "listed")
    /\ UNCHANGED <<connected, unread, divergent, stored, pending, applied, markVars, reportVars, resultVars>>

\* The list arrived, or the scale refused it or kept silent for 15 s.
ListSlots(c) ==
    /\ handler[c] \in {"listing", "listed"}
    /\ Release(c)
    /\ Goto(c, "done")
    /\ UNCHANGED <<connected, unread, divergent, stored, pending, applied, markVars, reportVars, resultVars>>

-----------------------------------------------------------------------------
(* reportSlots, every 10 minutes over the scales heard by UDP.             *)

\* The loop runs over the live map: a scale heard meanwhile is visited as well.
Hear(ip) ==
    /\ ip \notin discovered
    /\ discovered' = discovered \cup {ip}
    /\ toReport' = IF toReport = {} THEN {} ELSE toReport \cup {ip}
    /\ UNCHANGED <<connected, handler, unread, divergent, scaleVars, markVars, resultVars>>

\* A scale silent for DISCOVERY_TTL_MS is dropped, and skipped by the loop.
Expire(ip) ==
    /\ ip \in discovered
    /\ discovered' = discovered \ {ip}
    /\ toReport' = IF session[ip] = Report THEN toReport ELSE toReport \ {ip}
    /\ UNCHANGED <<connected, handler, unread, divergent, scaleVars, markVars, resultVars>>

StartReport ==
    /\ connected
    /\ toReport = {}
    /\ discovered # {}
    /\ toReport' = discovered
    /\ UNCHANGED <<connected, handler, unread, divergent, scaleVars, markVars, discovered, resultVars>>

\* A scale that is being synchronised is skipped, a busy one resets the query.
Query(ip) ==
    /\ ip \in toReport
    /\ session[ip] # Report
    /\ IF ip \notin sincronizando /\ session[ip] = Nobody
       THEN session' = [session EXCEPT ![ip] = Report] /\ UNCHANGED toReport
       ELSE toReport' = toReport \ {ip} /\ UNCHANGED session
    /\ UNCHANGED <<connected, handler, unread, divergent, stored, pending, applied, markVars, discovered, resultVars>>

\* The list arrived, or 15 s passed in silence.
QueryEnds(ip) ==
    /\ session[ip] = Report
    /\ Release(Report)
    /\ toReport' = toReport \ {ip}
    /\ UNCHANGED <<connected, handler, unread, divergent, stored, pending, applied, markVars, discovered, resultVars>>

-----------------------------------------------------------------------------
(* The connection to the backend, and the official software.               *)

Disconnect ==
    /\ connected
    /\ connected' = FALSE
    /\ UNCHANGED <<handler, unread, divergent, scaleVars, markVars, reportVars, resultVars>>

\* What was buffered is flushed as soon as the connection is back.
Reconnect ==
    /\ ~connected
    /\ connected' = TRUE
    /\ sent' = sent \cup outbox
    /\ outbox' = {}
    /\ UNCHANGED <<handler, unread, divergent, scaleVars, markVars, reportVars, outcome>>

RamuzaOpens(ip) ==
    /\ session[ip] = Nobody
    /\ session' = [session EXCEPT ![ip] = Ramuza]
    /\ UNCHANGED <<connected, handler, unread, divergent, stored, pending, applied, markVars, reportVars, resultVars>>

RamuzaCloses(ip) ==
    /\ session[ip] = Ramuza
    /\ Release(Ramuza)
    /\ UNCHANGED <<connected, handler, unread, divergent, stored, pending, applied, markVars, reportVars, resultVars>>

Handle(c) ==
    \/ OpenSession(c) \/ Acknowledged(c) \/ Fails(c)
    \/ \E n \in Slots : ReadBack(c, n)
    \/ Confirmed(c) \/ Settle(c) \/ OpenList(c) \/ ListSlots(c)

Next ==
    \/ \E c \in Commands : Receive(c) \/ Handle(c) \/ ScaleStores(c)
    \/ \E ip \in Ips : Hear(ip) \/ Expire(ip) \/ Query(ip) \/ QueryEnds(ip) \/ RamuzaOpens(ip) \/ RamuzaCloses(ip)
    \/ StartReport
    \/ Disconnect
    \/ Reconnect

Spec == Init /\ [][Next]_vars

\* Every connection to a scale has a timeout and every continuation runs;
\* socket.io keeps reconnecting (index.ts:52).
FairSpec ==
    /\ Spec
    /\ \A c \in Commands : WF_vars(Handle(c))
    /\ \A ip \in Ips : WF_vars(Query(ip)) /\ WF_vars(QueryEnds(ip))
    /\ WF_vars(Reconnect)

-----------------------------------------------------------------------------
(* Properties.                                                             *)

\* A format the scale discarded is never reported as synchronised, however two
\* commands for the same scale interleave (scale-client.ts:1064, ARCHITECTURE.md:111).
FactorySlotNeverOk ==
    \A c \in Commands : outcome[c] = "ok" => FormatsOf[c] \cap FactorySlots[IpOf[c]] = {}

\* A successful command was really written, and it is the last writer of each of
\* its slots unless another command wrote that slot: nothing else overwrites a label.
OkIsStored ==
    \A c \in Commands : outcome[c] = "ok" =>
        /\ c \in applied
        /\ \A n \in FormatsOf[c] : LET other == stored[IpOf[c]][n] IN
               other \in applied /\ n \in FormatsOf[other]

\* index.ts:130 wants a scale marked while it is written. It is, from the first step of
\* its command to the finally block, whatever fails in between, but for one race: the mark
\* is only missing when another command that was there beside this one has finished
\* (index.ts:188-190).
UnmarkedByAnother ==
    \A c \in Commands : AtScale(c) /\ IpOf[c] \notin sincronizando =>
        \E d \in beside[c] : ~AtScale(d)

\* What a mark tells discovery and the slot report, then: a marked scale is being written by
\* some command, so none stays marked; one that is not, while it is written, has lost its
\* mark to a command that finished there meanwhile.
MarkTells ==
    /\ \A ip \in sincronizando : \E c \in Commands : AtScale(c) /\ IpOf[c] = ip
    /\ UnmarkedByAnother

\* Why the two hold whatever the interleaving: a factory model is never
\* overwritten, a slot that holds a label of a command keeps holding one, and
\* what a reading has found in order was such a label.
FactoryKept  == \A ip \in Ips : \A n \in FactorySlots[ip] : stored[ip][n] = Factory
WriterKnown  == \A ip \in Ips, n \in Slots : stored[ip][n] \in Commands =>
                    stored[ip][n] \in applied /\ n \in FormatsOf[stored[ip][n]]
Written(c, ns) == /\ c \in applied
                  /\ IpOf[c] \in Ips
                  /\ \A n \in ns : stored[IpOf[c]][n] \in Commands
ReadIsWritten == \A c \in Commands : handler[c] = "reading" =>
                    Written(c, FormatsOf[c] \ (unread[c] \cup divergent[c]))
OkIsWritten   == \A c \in Commands : outcome[c] = "ok" => Written(c, FormatsOf[c])

\* ...and why a scale may lose its mark only to one that was there beside it.
BesideKnown == \A c, d \in Commands :
    AtScale(c) /\ AtScale(d) /\ IpOf[c] = IpOf[d] /\ c # d => d \in beside[c]
BesideCame  == \A c \in Commands : \A d \in beside[c] : handler[d] # "idle"

IInv ==
    /\ TypeOK
    /\ \A c \in Commands : AtScale(c) \/ c \in pending => IpOf[c] \in Ips
    /\ FactoryKept
    /\ WriterKnown
    /\ ReadIsWritten
    /\ OkIsWritten
    /\ BesideKnown
    /\ BesideCame
    /\ MarkTells

\* A command that arrived is answered, whatever the scale does.
CommandAnswered == \A c \in Commands : handler[c] # "idle" ~> c \in sent

\* index.ts:130: sincronizando holds the "balancas ocupadas por uma
\* sincronizacao em andamento". The code breaks it: no run checks it, and
\* README.md shows how.
BusyIsMarked == \A c \in Commands : AtScale(c) => IpOf[c] \in sincronizando
=============================================================================
