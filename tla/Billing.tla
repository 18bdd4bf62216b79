------------------------------- MODULE Billing -------------------------------
(***************************************************************************)
(* The subscription of one tenant: what POST /billing/subscribe and        *)
(* /billing/cancel do at the payment provider and in the database, what    *)
(* the provider's webhooks make of it afterwards (billing.service.ts,      *)
(* asaas.service.ts), and whom the guard of every other route turns away   *)
(* for it (jwt-auth.guard.ts).                                             *)
(*                                                                         *)
(* Each call is a handler with one action per await that changes or reads  *)
(* modelled state; between two of them other calls run, and any of them    *)
(* may be the last (an error, a crash).  The provider is external: its     *)
(* bills change state by themselves, and it repeats a webhook until it is  *)
(* answered, in no particular order.                                       *)
(***************************************************************************)
EXTENDS Naturals

CONSTANTS
    Calls,     \* calls to the routes, each once; a subscription bears the name of its call
    Bills,     \* bills of a subscription
    Nulo,
    MaxFaults  \* bound on the calls that end half way, and on lost answers

\* The tenant's row.
Assinatura == [id : Calls, status : {"ATIVA", "INADIMPLENTE", "CANCELADA"}]

ASSUME BillingAssumption == Nulo \notin Calls \cup Assinatura /\ MaxFaults \in Nat

VARIABLES
    subscription, \* at the provider: of each call "none", "active" or "deleted"
    bill,         \* at the provider: the last event of each bill
    outbox,       \* webhooks the provider has not seen answered
    assinatura,   \* the tenant's row: [id, status] or Nulo
    fatura,       \* status of the Fatura row of each bill
    kind, pc,     \* what a call does, and the step it is at
    subject,      \* what it acts on: the subscription read, or the webhook
    faults,
    raced,        \* history: calls that should not overlap did
    disordered,   \* history: bills with a webhook that overtook another one
    unknown,      \* history: bills with a webhook of a subscription not in the row
    arrears       \* history: subscriptions that had a bill overdue

providerVars == <<subscription, bill>>
callVars     == <<kind, pc, subject>>
historyVars  == <<raced, disordered, unknown, arrears>>
vars == <<providerVars, outbox, assinatura, fatura, callVars, faults, historyVars>>

Bill  == Calls \X Bills
Event == {"OVERDUE", "CONFIRMED", "RECEIVED", "DELETED"}
Kind  == {"subscribe", "cancel", "webhook"}

\* ASAAS_EVENT_TO_STATUS_FATURA; a bill without an event has no Fatura.
StatusFatura(e) ==
    CASE e = "CONFIRMED" -> "CONFIRMADA" [] e = "RECEIVED" -> "RECEBIDA"
      [] e = "OVERDUE"   -> "VENCIDA"    [] e = "DELETED"  -> "CANCELADA"
      [] OTHER           -> "none"

Under == {"reading", "contracting", "saving", "cancelling", "marking", "finding", "billing", "standing"}

TypeOK ==
    /\ subscription \in [Calls -> {"none", "active", "deleted"}]
    /\ bill       \in [Bill -> Event \cup {"none"}]
    /\ outbox     \subseteq [bill : Bill, event : Event]
    /\ assinatura \in Assinatura \cup {Nulo}
    /\ fatura     \in [Bill -> {"none", "CONFIRMADA", "RECEBIDA", "VENCIDA", "CANCELADA"}]
    /\ kind       \in [Calls -> Kind \cup {"none"}]
    /\ pc         \in [Calls -> Under \cup {"none", "over", "failed"}]
    /\ subject    \in [Calls -> Calls \cup [bill : Bill, event : Event] \cup {Nulo}]
    /\ faults     \in 0 .. MaxFaults
    /\ raced      \in BOOLEAN
    /\ disordered \subseteq Bill
    /\ unknown    \subseteq Bill
    /\ arrears    \subseteq Calls

Init ==
    /\ subscription = [c \in Calls |-> "none"]
    /\ bill       = [b \in Bill |-> "none"]
    /\ outbox     = {}
    /\ assinatura = Nulo
    /\ fatura     = [b \in Bill |-> "none"]
    /\ kind       = [c \in Calls |-> "none"]
    /\ pc         = [c \in Calls |-> "none"]
    /\ subject    = [c \in Calls |-> Nulo]
    /\ faults     = 0
    /\ raced      = FALSE
    /\ disordered = {}
    /\ unknown    = {}
    /\ arrears    = {}

Running(K) == {c \in Calls : pc[c] \in Under /\ kind[c] \in K}
Goto(c, where) == pc' = [pc EXCEPT ![c] = where]
Faulty == faults < MaxFaults /\ faults' = faults + 1

\* JwtAuthGuard: a tenant without a row passes; the routes of billing skip this.
Blocked == assinatura # Nulo /\ assinatura.status \in {"INADIMPLENTE", "CANCELADA"}

-----------------------------------------------------------------------------
(* The provider.                                                           *)

\* Events of one bill happen in the order of Rank.
Rank(e) == CASE e = "OVERDUE" -> 1 [] e = "CONFIRMED" -> 2 [] e = "RECEIVED" -> 3 [] e = "DELETED" -> 4
Before(e) ==
    CASE e = "OVERDUE"   -> {"none"}
      [] e = "RECEIVED"  -> {"none", "OVERDUE", "CONFIRMED"}
      [] OTHER           -> {"none", "OVERDUE"}

Happen(b, e) ==
    /\ subscription[b[1]] # "none"
    /\ bill[b] \in Before(e)
    /\ bill'   = [bill EXCEPT ![b] = e]
    /\ outbox' = outbox \cup {[bill |-> b, event |-> e]}
    /\ arrears' = IF e = "OVERDUE" THEN arrears \cup {b[1]} ELSE arrears
    /\ UNCHANGED <<subscription, assinatura, fatura, callVars, faults, raced, disordered, unknown>>

-----------------------------------------------------------------------------
(* Plausible bugs: each replaces the action it is named after, to show that *)
(* a property notices it.                                                  *)

\* The status of the row found is not looked at.
SubscribeAgain(c) ==
    /\ pc[c] = "reading" /\ kind[c] = "subscribe"
    /\ Goto(c, "contracting")
    /\ UNCHANGED <<providerVars, outbox, assinatura, fatura, kind, subject, faults, historyVars>>

\* A Fatura that exists is left as it is (upsert with update: {}).
RecordOnce(c) ==
    LET m == subject[c] IN
    /\ pc[c] = "billing"
    /\ fatura' = [fatura EXCEPT ![m.bill] = IF @ = "none" THEN StatusFatura(m.event) ELSE @]
    /\ Goto(c, "standing")
    /\ UNCHANGED <<providerVars, outbox, assinatura, kind, subject, faults, historyVars>>

\* The row is looked up by the tenant, not by the subscription of the webhook.
FindTenant(c) ==
    /\ pc[c] = "finding"
    /\ assinatura # Nulo
    /\ Goto(c, "billing")
    /\ UNCHANGED <<providerVars, outbox, assinatura, fatura, kind, subject, faults, historyVars>>

\* A bill overdue changes its Fatura, but not the tenant's standing.
StandingUnowed(e, status) ==
    CASE e \in {"RECEIVED", "CONFIRMED"} -> "ATIVA" [] OTHER -> status

-----------------------------------------------------------------------------
(* POST /billing/subscribe and /billing/cancel.                            *)

Ask(c, k) ==
    /\ kind[c] = "none"
    /\ kind' = [kind EXCEPT ![c] = k]
    /\ Goto(c, "reading")
    /\ raced' = (raced \/ Running(IF k = "subscribe" THEN Kind ELSE {"subscribe", "cancel"}) # {})
    /\ UNCHANGED <<providerVars, outbox, assinatura, fatura, subject, faults, disordered, unknown, arrears>>

\* Refused while the tenant has a subscription that is not cancelled.
ReadToSubscribe(c) ==
    /\ pc[c] = "reading" /\ kind[c] = "subscribe"
    /\ Goto(c, IF assinatura # Nulo /\ assinatura.status # "CANCELADA" THEN "over" ELSE "contracting")
    /\ UNCHANGED <<providerVars, outbox, assinatura, fatura, kind, subject, faults, historyVars>>

\* createCustomer, which leaves nothing behind that is charged, and createSubscription.
Contract(c) ==
    /\ pc[c] = "contracting"
    /\ subscription' = [subscription EXCEPT ![c] = "active"]
    /\ Goto(c, "saving")
    /\ UNCHANGED <<bill, outbox, assinatura, fatura, kind, subject, faults, historyVars>>

Save(c) ==
    /\ pc[c] = "saving"
    /\ assinatura' = [id |-> c, status |-> "ATIVA"]
    /\ Goto(c, "over")
    /\ UNCHANGED <<providerVars, outbox, fatura, kind, subject, faults, historyVars>>

ReadToCancel(c) ==
    /\ pc[c] = "reading" /\ kind[c] = "cancel"
    /\ IF assinatura = Nulo
       THEN Goto(c, "over") /\ UNCHANGED subject
       ELSE Goto(c, "cancelling") /\ subject' = [subject EXCEPT ![c] = assinatura.id]
    /\ UNCHANGED <<providerVars, outbox, assinatura, fatura, kind, faults, historyVars>>

\* The provider may refuse to delete what it has deleted, and the call ends there.
Withdraw(c) ==
    /\ pc[c] = "cancelling"
    /\ \/ Goto(c, "marking")
       \/ subscription[subject[c]] = "deleted" /\ Goto(c, "over")
    /\ subscription' = [subscription EXCEPT ![subject[c]] = "deleted"]
    /\ UNCHANGED <<bill, outbox, assinatura, fatura, kind, subject, faults, historyVars>>

\* The update names the tenant, not the subscription that was read.
Mark(c) ==
    /\ pc[c] = "marking"
    /\ assinatura' = [assinatura EXCEPT !.status = "CANCELADA"]
    /\ Goto(c, "over")
    /\ UNCHANGED <<providerVars, outbox, fatura, kind, subject, faults, historyVars>>

-----------------------------------------------------------------------------
(* POST /billing/webhook.                                                  *)

Deliver(c, m) ==
    LET rivals == {d \in Running({"webhook"}) : subject[d].bill = m.bill} IN
    /\ kind[c] = "none"
    /\ m \in outbox
    /\ kind'    = [kind EXCEPT ![c] = "webhook"]
    /\ subject' = [subject EXCEPT ![c] = m]
    /\ Goto(c, "finding")
    /\ raced' = (raced \/ Running({"subscribe"}) # {})
    /\ disordered' =
         IF rivals # {} \/ \E n \in outbox : n.bill = m.bill /\ Rank(n.event) < Rank(m.event)
         THEN disordered \cup {m.bill} ELSE disordered
    /\ UNCHANGED <<providerVars, outbox, assinatura, fatura, faults, unknown, arrears>>

\* Answered either way: what is not known is not asked for again.
Find(c) ==
    LET m == subject[c] IN
    /\ pc[c] = "finding"
    /\ IF assinatura # Nulo /\ assinatura.id = m.bill[1]
       THEN Goto(c, "billing") /\ UNCHANGED <<outbox, unknown>>
       ELSE /\ Goto(c, "over")
            /\ outbox'  = outbox \ {m}
            /\ unknown' = unknown \cup {m.bill}
    /\ UNCHANGED <<providerVars, assinatura, fatura, kind, subject, faults, raced, disordered, arrears>>

Record(c) ==
    LET m == subject[c] IN
    /\ pc[c] = "billing"
    /\ fatura' = [fatura EXCEPT ![m.bill] = StatusFatura(m.event)]
    /\ Goto(c, "standing")
    /\ UNCHANGED <<providerVars, outbox, assinatura, kind, subject, faults, historyVars>>

\* The row is updated by its id, whatever subscription it names by now; the answer
\* may not reach the provider.
Standing(e, status) ==
    CASE e \in {"RECEIVED", "CONFIRMED"} -> "ATIVA" [] e = "OVERDUE" -> "INADIMPLENTE" [] OTHER -> status

Stand(c) ==
    LET m == subject[c] IN
    /\ pc[c] = "standing"
    /\ assinatura' = [assinatura EXCEPT !.status = Standing(m.event, @)]
    /\ Goto(c, "over")
    /\ \/ outbox' = outbox \ {m} /\ UNCHANGED faults
       \/ Faulty /\ UNCHANGED outbox
    /\ UNCHANGED <<providerVars, fatura, kind, subject, historyVars>>

-----------------------------------------------------------------------------
\* A call to the database or the provider fails, or the process dies.
Fail(c) ==
    /\ pc[c] \in Under
    /\ Faulty
    /\ Goto(c, "failed")
    /\ UNCHANGED <<providerVars, outbox, assinatura, fatura, kind, subject, historyVars>>

Subscribe(c) == Ask(c, "subscribe") \/ ReadToSubscribe(c) \/ Contract(c) \/ Save(c)
Cancel(c)    == Ask(c, "cancel") \/ ReadToCancel(c) \/ Withdraw(c) \/ Mark(c)
Webhook(c)   == (\E m \in outbox : Deliver(c, m)) \/ Find(c) \/ Record(c) \/ Stand(c)

Next ==
    \/ \E b \in Bill, e \in Event : Happen(b, e)
    \/ \E c \in Calls : Subscribe(c) \/ Cancel(c) \/ Webhook(c) \/ Fail(c)

Spec == Init /\ [][Next]_vars

-----------------------------------------------------------------------------
(* Properties.                                                             *)

\* The tenant is charged for one subscription, the one of the row: unless calls
\* overlapped, any other live one is being saved, or was contracted by a call that
\* died before it could save it (billing.service.ts:44-52) and goes on charging.
ChargedIsKnown ==
    ~raced => \A c \in Calls : subscription[c] = "active" =>
        \/ assinatura # Nulo /\ assinatura.id = c
        \/ pc[c] \in {"saving", "failed"}

\* Whatever fails and is repeated, a bill of the subscription in force ends up in the
\* database as the provider has it, once its webhooks are answered - if they came one
\* after the other, and none before the row named the subscription
\* (billing.service.ts:111-114 answers those and forgets them).
FaturasAreTrue ==
    \A b \in Bill :
        /\ assinatura # Nulo /\ assinatura.id = b[1]
        /\ \A m \in outbox : m.bill # b
        /\ b \notin disordered \cup unknown
        => fatura[b] = StatusFatura(bill[b])

\* A tenant is only turned away for arrears of the subscription in force, or once that
\* subscription no longer charges - unless a call met a subscribe under way, since all
\* of them update the tenant's row without asking what it names by then.
BlockedForAReason ==
    ~raced /\ Blocked =>
        \/ assinatura.status = "INADIMPLENTE" /\ assinatura.id \in arrears
        \/ assinatura.status = "CANCELADA" /\ subscription[assinatura.id] = "deleted"

\* assinatura/page.tsx:115: "O acesso ao sistema fica bloqueado até a regularização":
\* once all is quiet, a bill known to be overdue keeps the tenant out. The code breaks it: no
\* run checks it, and README.md shows how.
BlockedUntilSettled ==
    \A b \in Bill :
        /\ assinatura # Nulo /\ assinatura.id = b[1]
        /\ bill[b] = "OVERDUE" /\ fatura[b] = "VENCIDA"
        /\ outbox = {} /\ Running(Kind) = {} /\ ~raced /\ disordered = {}
        => Blocked

\* The payment of another bill of the same subscription is the only way it does: unless
\* one was paid, whoever has a bill overdue on record is turned away once the bill's
\* webhooks are answered, whatever failed and was repeated (billing.service.ts:132-152).
Paid(b) == bill[b] \in {"CONFIRMED", "RECEIVED"}
OwedAndKnown(b) ==
    /\ assinatura # Nulo /\ assinatura.id = b[1]
    /\ bill[b] = "OVERDUE" /\ fatura[b] = "VENCIDA"
UnblockedByAnotherBill ==
    \A b \in Bill :
        /\ OwedAndKnown(b) /\ ~Blocked
        /\ \A m \in outbox : m.bill # b
        /\ ~raced /\ b \notin disordered \cup unknown
        => \E p \in Bill \ {b} : p[1] = b[1] /\ Paid(p)

-----------------------------------------------------------------------------
(* The inductive invariant behind the properties (Billing_proofs).         *)

\* What a call at each step has found.
Staged ==
    \A c \in Calls :
        /\ kind[c] = "none" <=> pc[c] = "none"
        /\ pc[c] \in {"contracting", "saving"} => kind[c] = "subscribe"
        /\ pc[c] \in {"cancelling", "marking"} =>
               kind[c] = "cancel" /\ subject[c] \in Calls /\ assinatura # Nulo
        /\ pc[c] \in {"finding", "billing", "standing"} =>
               kind[c] = "webhook" /\ subject[c] \in [bill : Bill, event : Event]
        /\ pc[c] \in {"billing", "standing"} => assinatura # Nulo

\* A subscription is made by its call alone.
Contracted ==
    /\ \A c \in Calls : subscription[c] # "none" => pc[c] \in {"saving", "over", "failed"}
    /\ assinatura # Nulo => subscription[assinatura.id] # "none"
    /\ \A c \in Calls :
        /\ pc[c] = "saving" => subscription[c] # "none"
        /\ pc[c] \in {"cancelling", "marking"} => subscription[subject[c]] # "none"

\* A bill overdue is on record before its webhook is.
Overdue(m) == m.event = "OVERDUE" => m.bill[1] \in arrears
Recorded ==
    /\ \A m \in outbox : Overdue(m)
    /\ \A c \in Calls : pc[c] \in {"finding", "billing", "standing"} => Overdue(subject[c])

\* Calls that do not race: a subscribe runs alone, and so does a cancel but for webhooks;
\* then what a call has read of the row still holds.
Alone ==
    /\ \A c \in Running({"subscribe"}), d \in Running(Kind) : c = d
    /\ \A c, d \in Running({"cancel"}) : c = d
Settled ==
    /\ ChargedIsKnown
    /\ assinatura # Nulo /\ assinatura.status = "CANCELADA" => subscription[assinatura.id] = "deleted"
    /\ assinatura # Nulo /\ assinatura.status = "INADIMPLENTE" => assinatura.id \in arrears
    /\ \A c \in Calls :
        /\ pc[c] \in {"contracting", "saving"} =>
               assinatura = Nulo \/ assinatura.status = "CANCELADA"
        /\ pc[c] = "cancelling" => subject[c] = assinatura.id
        /\ pc[c] = "marking" => subscription[assinatura.id] = "deleted"
        /\ pc[c] \in {"billing", "standing"} => subject[c].bill[1] = assinatura.id

\* Of a bill whose webhooks come one after the other, the one being handled is still to be
\* answered and the oldest of those, and none is younger than the bill's last event: so
\* the one of the last event is the last to be answered, and what it wrote stays.
Pending(b)  == {m \in outbox : m.bill = b}
Handling(b) == {c \in Calls : pc[c] \in {"finding", "billing", "standing"} /\ subject[c].bill = b}
InStep(b) ==
    /\ \A m \in Pending(b) : bill[b] # "none" /\ Rank(m.event) <= Rank(bill[b])
    /\ \A c, d \in Handling(b) : c = d
    /\ \A c \in Handling(b) :
        /\ subject[c] \in outbox
        /\ \A m \in Pending(b) : Rank(subject[c].event) <= Rank(m.event)
        /\ pc[c] = "standing" => fatura[b] = StatusFatura(subject[c].event)
    /\ \/ [bill |-> b, event |-> bill[b]] \in outbox
       \/ Pending(b) = {} /\ fatura[b] = StatusFatura(bill[b])
Tracked == \A b \in Bill : b \notin disordered \cup unknown => InStep(b)

\* What a bill is recorded for, or has its webhook handled for, is a subscription that was
\* saved; and a webhook of a payment is of a bill that stays paid.
Saved ==
    /\ assinatura # Nulo => pc[assinatura.id] = "over"
    /\ \A b \in Bill : fatura[b] # "none" => pc[b[1]] = "over"
    /\ \A c \in Calls : pc[c] \in {"billing", "standing"} => pc[subject[c].bill[1]] = "over"
Paying(m) == m.event \in {"CONFIRMED", "RECEIVED"} => Paid(m.bill)
Banked ==
    /\ \A m \in outbox : Paying(m)
    /\ \A c \in Calls : pc[c] \in {"finding", "billing", "standing"} => Paying(subject[c])

\* All of it is inductive, and UnblockedByAnotherBill beside it.
IInv ==
    /\ TypeOK /\ Staged /\ Contracted /\ Recorded /\ Saved /\ Banked
    /\ ~raced => Alone /\ Settled
    /\ Tracked
=============================================================================
