--------------------------- MODULE DeviceRegistry ---------------------------
(***************************************************************************)
(* The scales registered in one store (the Device rows) and what the       *)
(* Agents Locais keep telling about them: the addresses they hear by UDP,  *)
(* from which the gateway corrects a drifted Device.ip, and the label      *)
(* slots they read, which it merges into Device.slotsEtiqueta              *)
(* (agent.gateway.ts: onDevicesDiscovered, reconcileDriftedIp,             *)
(* onDevicesSlots; agent-local/src/index.ts: reportDiscovered,             *)
(* reportSlots; devices.controller.ts).                                    *)
(*                                                                         *)
(* Both handlers of the gateway read the row, await, and write: between    *)
(* the two other handlers and requests run. The scales themselves and the  *)
(* DHCP server that moves them are external. The names are other than those *)
(* of LocalAgent, the other side of a store: Store_proofs extends both.     *)
(***************************************************************************)
EXTENDS Naturals, FiniteSets

CONSTANTS
    Devices,     \* rows that may be created, each id used once
    Agents,      \* Agents Locais of the store
    NoAgent,
    Scales,      \* the physical scales
    LanOf,       \* the agent in whose network each scale is
    Addresses,         \* addresses; two networks may use the same ones
    LabelSlots,       \* label slots
    MaxSightings, \* bounds on the devices:discovered and devices:slots messages
    MaxReports    \* that are on their way

ASSUME RegistryAssumption ==
    /\ NoAgent \notin Agents
    /\ LanOf \in [Scales -> Agents]
    /\ MaxSightings \in Nat
    /\ MaxReports \in Nat

VARIABLES
    row,           \* whether each row exists
    deviceIp,      \* Device.ip
    deviceAgent,   \* Device.agentId
    slotsEtiqueta, \* the slots Device.slotsEtiqueta lists
    linked,        \* history: agents each row was ever linked to
    addr,          \* where each scale is
    occupied,      \* the slots each scale has in use
    heard,         \* an agent's map discovered
    met,           \* history: addresses of scales each agent ever heard
    sightings,     \* devices:discovered messages on their way
    fixes,         \* address corrections between the read and the update
    reports,       \* devices:slots messages on their way
    merges,        \* slot maps between the read and the update
    overtaken      \* history: those whose row was updated after they had read it

rowVars   == <<row, deviceIp, deviceAgent, slotsEtiqueta, linked>>
placeVars == <<addr, occupied>>
ipVars    == <<heard, met, sightings, fixes>>
slotVars  == <<reports, merges, overtaken>>
registryVars == <<rowVars, placeVars, ipVars, slotVars>>

Sighting   == [agent : Agents, ips : SUBSET Addresses]
Fix        == [device : Devices, ip : Addresses, seen : SUBSET Addresses]
SlotReport == [agent : Agents, ip : Addresses, slots : SUBSET LabelSlots]
Merge      == [device : Devices, slots : SUBSET LabelSlots]

RegistryTypeOK ==
    /\ row           \in [Devices -> {"absent", "present", "deleted"}]
    /\ deviceIp      \in [Devices -> Addresses]
    /\ deviceAgent   \in [Devices -> Agents \cup {NoAgent}]
    /\ slotsEtiqueta \in [Devices -> SUBSET LabelSlots]
    /\ linked        \in [Devices -> SUBSET Agents]
    /\ addr          \in [Scales -> Addresses]
    /\ occupied      \in [Scales -> SUBSET LabelSlots]
    /\ heard         \in [Agents -> SUBSET Addresses]
    /\ met           \in [Agents -> SUBSET Addresses]
    /\ sightings     \subseteq Sighting
    /\ fixes         \subseteq Fix
    /\ reports       \subseteq SlotReport
    /\ merges        \subseteq Merge
    /\ overtaken     \subseteq Merge

Present      == {d \in Devices : row[d] = "present"}
LinkedTo(a)  == {d \in Present : deviceAgent[d] = a}
Neighbours(k) == {l \in Scales \ {k} : LanOf[l] = LanOf[k]}

\* @@unique([lojaId, ip]).
Free(d, i) == \A e \in Present \ {d} : deviceIp[e] # i

RegistryInit ==
    /\ row           = [d \in Devices |-> "absent"]
    /\ deviceIp      \in [Devices -> Addresses]
    /\ deviceAgent   = [d \in Devices |-> NoAgent]
    /\ slotsEtiqueta = [d \in Devices |-> {}]
    /\ linked        = [d \in Devices |-> {}]
    /\ addr          \in [Scales -> Addresses]
    /\ \A k \in Scales : \A l \in Neighbours(k) : addr[l] # addr[k]
    /\ occupied      = [k \in Scales |-> {}]
    /\ heard         = [a \in Agents |-> {}]
    /\ met           = [a \in Agents |-> {}]
    /\ sightings     = {}
    /\ fixes         = {}
    /\ reports       = {}
    /\ merges        = {}
    /\ overtaken     = {}

-----------------------------------------------------------------------------
(* Plausible bugs: each replaces the action it is named after, to show that *)
(* a property notices it.                                                  *)

\* The row is looked up by its address alone.
MergeSlotsAnyAgent(m) ==
    /\ m \in reports
    /\ reports' = reports \ {m}
    /\ merges' = merges \cup {[device |-> d, slots |-> slotsEtiqueta[d] \cup m.slots] :
                                 d \in {e \in Present : deviceIp[e] = m.ip}}
    /\ UNCHANGED <<overtaken, rowVars, placeVars, ipVars>>

\* What is written is what the agent reported, not merged with the row's map.
MergeSlotsReplaces(m) ==
    /\ m \in reports
    /\ reports' = reports \ {m}
    /\ merges' = merges \cup {[device |-> d, slots |-> m.slots] :
                                 d \in {e \in LinkedTo(m.agent) : deviceIp[e] = m.ip}}
    /\ UNCHANGED <<overtaken, rowVars, placeVars, ipVars>>

\* The filter on the candidates is inverted: d.ip === device.ip.
ReconcileInverted(m) ==
    /\ m \in sightings
    /\ sightings' = sightings \ {m}
    /\ fixes' = fixes \cup {f \in Fix :
           /\ LinkedTo(m.agent) = {f.device}
           /\ m.ips \cap {deviceIp[f.device]} = {f.ip}
           /\ f.seen = m.ips}
    /\ UNCHANGED <<heard, met, rowVars, placeVars, slotVars>>

-----------------------------------------------------------------------------
(* Requests of the users.                                                  *)

\* POST /devices leaves the row without an agent, POST /devices/import links it.
Create(d, i, a) ==
    /\ row[d] = "absent"
    /\ Free(d, i)
    /\ row'         = [row EXCEPT ![d] = "present"]
    /\ deviceIp'          = [deviceIp EXCEPT ![d] = i]
    /\ deviceAgent' = [deviceAgent EXCEPT ![d] = a]
    /\ linked'      = [linked EXCEPT ![d] = @ \cup ({a} \ {NoAgent})]
    /\ UNCHANGED <<slotsEtiqueta, placeVars, ipVars, slotVars>>

LinkAgent(d, a) ==
    /\ d \in Present
    /\ deviceAgent' = [deviceAgent EXCEPT ![d] = a]
    /\ linked'      = [linked EXCEPT ![d] = @ \cup {a}]
    /\ UNCHANGED <<row, deviceIp, slotsEtiqueta, placeVars, ipVars, slotVars>>

EditIp(d, i) ==
    /\ d \in Present
    /\ Free(d, i)
    /\ deviceIp' = [deviceIp EXCEPT ![d] = i]
    /\ UNCHANGED <<row, deviceAgent, slotsEtiqueta, linked, placeVars, ipVars, slotVars>>

Remove(d) ==
    /\ d \in Present
    /\ row' = [row EXCEPT ![d] = "deleted"]
    /\ UNCHANGED <<deviceIp, deviceAgent, slotsEtiqueta, linked, placeVars, ipVars, slotVars>>

-----------------------------------------------------------------------------
(* The scales.                                                             *)

\* DHCP gives a scale another address of its network.
Move(k, i) ==
    /\ i # addr[k]
    /\ \A l \in Neighbours(k) : addr[l] # i
    /\ addr' = [addr EXCEPT ![k] = i]
    /\ UNCHANGED <<occupied, rowVars, ipVars, slotVars>>

Occupy(k, n) ==
    /\ n \notin occupied[k]
    /\ occupied' = [occupied EXCEPT ![k] = @ \cup {n}]
    /\ UNCHANGED <<addr, rowVars, ipVars, slotVars>>

-----------------------------------------------------------------------------
(* Addresses.                                                              *)

\* reportDiscovered drops what was not heard for DISCOVERY_TTL_MS, because the
\* scale moved or its broadcasts got lost, and emits the rest if it can.
ReportDiscovered(a, ips, online) ==
    /\ heard' = [heard EXCEPT ![a] = ips]
    /\ met' = [met EXCEPT ![a] = @ \cup ips]
    /\ IF online
       THEN /\ Cardinality(sightings) < MaxSightings
            /\ sightings' = sightings \cup {[agent |-> a, ips |-> ips]}
       ELSE UNCHANGED sightings
    /\ UNCHANGED <<fixes, rowVars, placeVars, slotVars>>

\* A broadcast arrived.
HearScale(k, kept, online) == ReportDiscovered(LanOf[k], kept \cup {addr[k]}, online)

\* reconcileDriftedIp up to the answer of findMany: the agent's only row, and the
\* only address reported that is not the row's.
Reconcile(m) ==
    /\ m \in sightings
    /\ sightings' = sightings \ {m}
    /\ fixes' = fixes \cup {f \in Fix :
           /\ LinkedTo(m.agent) = {f.device}
           /\ m.ips \ {deviceIp[f.device]} = {f.ip}
           /\ f.seen = m.ips}
    /\ UNCHANGED <<heard, met, rowVars, placeVars, slotVars>>

\* ...and its update, which fails when the row is gone or another one has the address.
ApplyFix(f) ==
    /\ f \in fixes
    /\ fixes' = fixes \ {f}
    /\ deviceIp' = IF f.device \in Present /\ Free(f.device, f.ip)
             THEN [deviceIp EXCEPT ![f.device] = f.ip] ELSE deviceIp
    /\ UNCHANGED <<heard, met, sightings, row, deviceAgent, slotsEtiqueta, linked, placeVars, slotVars>>

-----------------------------------------------------------------------------
(* Label slots.                                                            *)

\* listarSlotsEtiqueta: what the scale lists may be incomplete.
ReportSlots(k, slots) ==
    /\ Cardinality(reports) < MaxReports
    /\ slots \subseteq occupied[k]
    /\ reports' = reports \cup {[agent |-> LanOf[k], ip |-> addr[k], slots |-> slots]}
    /\ UNCHANGED <<merges, overtaken, rowVars, placeVars, ipVars>>

\* onDevicesSlots up to the answer of findFirst: the map is merged with the one read.
MergeSlots(m) ==
    /\ m \in reports
    /\ reports' = reports \ {m}
    /\ merges' = merges \cup {[device |-> d, slots |-> slotsEtiqueta[d] \cup m.slots] :
                                 d \in {e \in LinkedTo(m.agent) : deviceIp[e] = m.ip}}
    /\ UNCHANGED <<overtaken, rowVars, placeVars, ipVars>>

\* ...and its update, whatever the row's map is by now.
ApplyMerge(w) ==
    /\ w \in merges
    /\ merges' = merges \ {w}
    /\ slotsEtiqueta' = IF w.device \in Present
                        THEN [slotsEtiqueta EXCEPT ![w.device] = w.slots] ELSE slotsEtiqueta
    /\ overtaken' = (overtaken \cup {v \in merges : v.device = w.device}) \ {w}
    /\ UNCHANGED <<reports, row, deviceIp, deviceAgent, linked, placeVars, ipVars>>

-----------------------------------------------------------------------------
UserNext ==
    \E d \in Devices :
        \/ \E i \in Addresses : EditIp(d, i) \/ \E a \in Agents \cup {NoAgent} : Create(d, i, a)
        \/ \E a \in Agents : LinkAgent(d, a)
        \/ Remove(d)

ScaleNext ==
    \E k \in Scales :
        \/ \E i \in Addresses : Move(k, i)
        \/ \E n \in LabelSlots : Occupy(k, n)

IpNext ==
    \/ \E k \in Scales, online \in BOOLEAN :
          \E kept \in SUBSET heard[LanOf[k]] : HearScale(k, kept, online)
    \/ \E a \in Agents, online \in BOOLEAN :
          \E kept \in SUBSET heard[a] : ReportDiscovered(a, kept, online)
    \/ \E m \in sightings : Reconcile(m)
    \/ \E f \in fixes : ApplyFix(f)

SlotNext ==
    \/ \E k \in Scales : \E slots \in SUBSET occupied[k] : ReportSlots(k, slots)
    \/ \E m \in reports : MergeSlots(m)
    \/ \E w \in merges : ApplyMerge(w)

RegistryNext == UserNext \/ ScaleNext \/ IpNext \/ SlotNext

RegistrySpec == RegistryInit /\ [][RegistryNext]_registryVars

\* A scale keeps announcing itself to a connected agent, an address nobody
\* announces is dropped after 60 s, and the handlers complete. The fairness is
\* strong because MaxSightings, which the code does not have, may hold a report back.
InUse(a) == {addr[k] : k \in {l \in Scales : LanOf[l] = a}}
FairRegistrySpec ==
    /\ RegistrySpec
    /\ \A k \in Scales :
          SF_registryVars(\E kept \in SUBSET heard[LanOf[k]] :
                     kept \subseteq InUse(LanOf[k]) /\ HearScale(k, kept, TRUE))
    /\ \A m \in Sighting : WF_registryVars(Reconcile(m))
    /\ \A f \in Fix : WF_registryVars(ApplyFix(f))

-----------------------------------------------------------------------------
(* Properties.                                                             *)

\* The slots in use on the scales of these agents.
InUseAt(agents) == UNION {occupied[k] : k \in {l \in Scales : LanOf[l] \in agents}}

\* A row's map never lists a slot that was not in use on a scale of an agent it
\* was linked to, although every store's network uses the same addresses and a
\* row may change agent between the read and the update (agent.gateway.ts:228).
SlotsFromOwnAgents ==
    \A d \in Devices : slotsEtiqueta[d] \subseteq InUseAt(linked[d])

\* agent.gateway.ts:34, 41-46 want the map to be additive. It is, but for one race:
\* a slot is only lost to an update that was overtaken, one whose row another update
\* was written to after its own read (agent.gateway.ts:230-244). Reports, links, edits
\* and deletions in between cost nothing.
SlotsLostToOvertaken ==
    [][\A d \in Devices : slotsEtiqueta[d] \subseteq slotsEtiqueta'[d]
          \/ \E w \in overtaken : w.device = d /\ w \notin merges']_registryVars

\* The gateway gives a row only an address at which an agent of the row heard a
\* scale of its network, however old the report is that the correction rests on and
\* whoever moved, edited or linked what in between (agent.gateway.ts:262-281).
HeardBy(agents) == UNION {met[a] : a \in agents}
CorrectedWithinNetwork ==
    [][\A d \in Devices : fixes' # fixes /\ deviceIp'[d] # deviceIp[d] =>
          deviceIp'[d] \in HeardBy(linked[d])]_registryVars

\* ...because every message and every pending update says what its agent's
\* scales said, and the update's row was linked to that agent when it was read.
LinksKept     == \A d \in Devices : deviceAgent[d] \in linked[d] \cup {NoAgent}
ReportsTrue   == \A m \in reports : m.slots \subseteq InUseAt({m.agent})
MergesTrue    == \A w \in merges : w.slots \subseteq InUseAt(linked[w.device])
MergesCurrent == \A w \in merges \ overtaken : slotsEtiqueta[w.device] \subseteq w.slots
SightingsTrue ==
    /\ \A a \in Agents : heard[a] \subseteq met[a]
    /\ \A m \in sightings : m.ips \subseteq met[m.agent]
FixesTrue     == \A f \in fixes : f.ip \in HeardBy(linked[f.device])

RegistryInv ==
    /\ RegistryTypeOK
    /\ LinksKept
    /\ ReportsTrue
    /\ MergesTrue
    /\ SlotsFromOwnAgents
    /\ MergesCurrent
    /\ SightingsTrue
    /\ FixesTrue

\* agent.gateway.ts:253-261: a scale alone in its network, whose row is alone at
\* its agent, is found again after its address has changed, whatever stale
\* addresses and corrections were under way.
Settled(d, k, i) ==
    /\ LinkedTo(LanOf[k]) = {d}
    /\ Neighbours(k) = {}
    /\ addr[k] = i
    /\ Free(d, i)
DriftRepaired ==
    \A d \in Devices, k \in Scales, i \in Addresses : <>[]Settled(d, k, i) => []<>(deviceIp[d] = i)

\* agent.gateway.ts:259-261: "Ambiguo (multiplas balancas no mesmo agent, ou
\* multiplas descobertas na mesma porta) nao mexe em nada". The code breaks it: no run checks it, and README.md shows how.
AmbiguousLeftAlone == \A f \in fixes : f.seen = {f.ip}

\* agent.gateway.ts:34, 41-46: the map is additive, a slot once seen in use never
\* becomes free again. The code breaks it, as README.md shows.
SlotsAdditive ==
    [][\A d \in Devices : slotsEtiqueta[d] \subseteq slotsEtiqueta'[d]]_registryVars
=============================================================================
