--------------------------- MODULE Billing_proofs ---------------------------
(***************************************************************************)
(* For any number of calls, bills and faults: calls that do not overlap    *)
(* leave no subscription charging beside the one in the tenant's row, turn *)
(* the tenant away only for arrears or for a subscription that is over,    *)
(* and let a tenant in arrears in only once another bill is paid.          *)
(***************************************************************************)
EXTENDS Billing, TLAPS

USE BillingAssumption

\* What holds whether calls overlap or not.
Base == TypeOK /\ Staged /\ Contracted /\ Recorded

LEMMA BaseInit == Init => Base
<1> SUFFICES ASSUME Init PROVE Base OBVIOUS
<1> USE DEF Init
<1>1. TypeOK
  <2>1. faults \in 0 .. MaxFaults
    OBVIOUS
  <2>2. QED
    BY <2>1 DEF TypeOK, Kind, Under, Event
<1>2. Staged /\ Contracted /\ Recorded
  BY DEF Staged, Contracted, Recorded
<1>3. QED
  BY <1>1, <1>2 DEF Base

LEMMA TypeNext == Base /\ [Next]_vars => TypeOK'
<1> SUFFICES ASSUME Base, [Next]_vars PROVE TypeOK' OBVIOUS
<1> USE DEF Base, TypeOK, Kind, Under, Event, Assinatura
<1>1. ASSUME NEW b \in Bill, NEW e \in Event, Happen(b, e) PROVE TypeOK'
  <2>1. b[1] \in Calls
    BY DEF Bill
  <2>2. QED
    BY <1>1, <2>1 DEF Happen, callVars
<1>2. ASSUME NEW c \in Calls, Ask(c, "subscribe") \/ Ask(c, "cancel") PROVE TypeOK'
  BY <1>2 DEF Ask, Goto, providerVars
<1>3. ASSUME NEW c \in Calls, ReadToSubscribe(c) PROVE TypeOK'
  BY <1>3 DEF ReadToSubscribe, Goto, providerVars, historyVars
<1>4. ASSUME NEW c \in Calls, Contract(c) PROVE TypeOK'
  BY <1>4 DEF Contract, Goto, historyVars
<1>5. ASSUME NEW c \in Calls, Save(c) PROVE TypeOK'
  BY <1>5 DEF Save, Goto, providerVars, historyVars
<1>6. ASSUME NEW c \in Calls, ReadToCancel(c) PROVE TypeOK'
  BY <1>6 DEF ReadToCancel, Goto, providerVars, historyVars
<1>7. ASSUME NEW c \in Calls, Withdraw(c) PROVE TypeOK'
  BY <1>7 DEF Withdraw, Goto, historyVars
<1>8. ASSUME NEW c \in Calls, Mark(c) PROVE TypeOK'
  BY <1>8 DEF Mark, Goto, Staged, providerVars, historyVars
<1>9. ASSUME NEW c \in Calls, NEW m \in outbox, Deliver(c, m) PROVE TypeOK'
  <2>1. m \in [bill : Bill, event : Event]
    OBVIOUS
  <2>2. QED
    BY <1>9, <2>1 DEF Deliver, Goto, providerVars
<1>10. ASSUME NEW c \in Calls, Find(c) PROVE TypeOK'
  <2>1. subject[c] \in [bill : Bill, event : Event]
    BY <1>10 DEF Find, Staged
  <2>2. QED
    BY <1>10, <2>1 DEF Find, Goto, providerVars
<1>11. ASSUME NEW c \in Calls, Record(c) PROVE TypeOK'
  <2>1. subject[c] \in [bill : Bill, event : Event]
    BY <1>11 DEF Record, Staged
  <2>2. StatusFatura(subject[c].event) \in {"none", "CONFIRMADA", "RECEBIDA", "VENCIDA", "CANCELADA"}
    BY <2>1 DEF StatusFatura
  <2>3. QED
    BY <1>11, <2>1, <2>2 DEF Record, Goto, providerVars, historyVars
<1>12. ASSUME NEW c \in Calls, Stand(c) PROVE TypeOK'
  <2>1. assinatura \in Assinatura
    BY <1>12 DEF Stand, Staged
  <2>2. Standing(subject[c].event, assinatura.status) \in {"ATIVA", "INADIMPLENTE", "CANCELADA"}
    BY <2>1 DEF Standing
  <2>3. QED
    BY <1>12, <2>1, <2>2 DEF Stand, Goto, Faulty, providerVars, historyVars
<1>13. ASSUME NEW c \in Calls, Fail(c) PROVE TypeOK'
  BY <1>13 DEF Fail, Goto, Faulty, providerVars, historyVars
<1>14. CASE UNCHANGED vars
  BY <1>14 DEF vars, providerVars, callVars, historyVars
<1>15. QED
  BY <1>1, <1>2, <1>3, <1>4, <1>5, <1>6, <1>7, <1>8, <1>9, <1>10, <1>11, <1>12, <1>13, <1>14
  DEF Next, Subscribe, Cancel, Webhook

LEMMA BaseNext == Base /\ [Next]_vars => Base'
<1> SUFFICES ASSUME Base, [Next]_vars PROVE Base' OBVIOUS
<1>0. TypeOK /\ TypeOK'
  BY TypeNext DEF Base
<1> SUFFICES Staged' /\ Contracted' /\ Recorded'
  BY <1>0 DEF Base
<1> DEFINE Goal == Staged' /\ Contracted' /\ Recorded'
<1> USE DEF Base, TypeOK, Staged, Contracted, Recorded, Overdue, Assinatura
<1>1. ASSUME NEW b \in Bill, NEW e \in Event, Happen(b, e) PROVE Goal
  BY <1>0, <1>1 DEF Happen, callVars
<1>2. ASSUME NEW c \in Calls, Ask(c, "subscribe") \/ Ask(c, "cancel") PROVE Goal
  BY <1>0, <1>2 DEF Ask, Goto, providerVars
<1>3. ASSUME NEW c \in Calls, ReadToSubscribe(c) PROVE Goal
  BY <1>0, <1>3 DEF ReadToSubscribe, Goto, providerVars, historyVars
<1>4. ASSUME NEW c \in Calls, Contract(c) PROVE Goal
  BY <1>0, <1>4 DEF Contract, Goto, historyVars
<1>5. ASSUME NEW c \in Calls, Save(c) PROVE Goal
  <2>1. assinatura' \in Assinatura /\ assinatura' # Nulo /\ assinatura'.id = c
    BY <1>5 DEF Save
  <2>2. QED
    BY <1>0, <1>5, <2>1 DEF Save, Goto, providerVars, historyVars
<1>6. ASSUME NEW c \in Calls, ReadToCancel(c) PROVE Goal
  BY <1>0, <1>6 DEF ReadToCancel, Goto, providerVars, historyVars
<1>7. ASSUME NEW c \in Calls, Withdraw(c) PROVE Goal
  BY <1>0, <1>7 DEF Withdraw, Goto, historyVars
<1>8. ASSUME NEW c \in Calls, Mark(c) PROVE Goal
  BY <1>0, <1>8 DEF Mark, Goto, providerVars, historyVars
<1>9. ASSUME NEW c \in Calls, NEW m \in outbox, Deliver(c, m) PROVE Goal
  BY <1>0, <1>9 DEF Deliver, Goto, providerVars
<1>10. ASSUME NEW c \in Calls, Find(c) PROVE Goal
  BY <1>0, <1>10 DEF Find, Goto, providerVars
<1>11. ASSUME NEW c \in Calls, Record(c) PROVE Goal
  BY <1>0, <1>11 DEF Record, Goto, providerVars, historyVars
<1>12. ASSUME NEW c \in Calls, Stand(c) PROVE Goal
  <2>1. assinatura \in Assinatura
    BY <1>12 DEF Stand
  <2>2. assinatura' # Nulo /\ assinatura'.id = assinatura.id
    <3>1. Standing(subject[c].event, assinatura.status) \in {"ATIVA", "INADIMPLENTE", "CANCELADA"}
      BY <2>1 DEF Standing
    <3>2. assinatura' \in Assinatura /\ assinatura'.id = assinatura.id
      BY <1>12, <2>1, <3>1 DEF Stand
    <3>3. QED
      BY <3>2
  <2>3. /\ outbox' \subseteq outbox
        /\ pc[c] = "standing" /\ pc' = [pc EXCEPT ![c] = "over"]
        /\ UNCHANGED <<subscription, kind, subject, arrears>>
    BY <1>12 DEF Stand, Goto, providerVars, historyVars
  <2>4. Staged'
    BY <2>2, <2>3
  <2>5. Contracted'
    BY <2>2, <2>3
  <2>6. Recorded'
    BY <2>2, <2>3
  <2>7. QED
    BY <2>4, <2>5, <2>6
<1>13. ASSUME NEW c \in Calls, Fail(c) PROVE Goal
  BY <1>0, <1>13 DEF Fail, Goto, Under, providerVars, historyVars
<1>14. CASE UNCHANGED vars
  BY <1>0, <1>14 DEF vars, providerVars, callVars, historyVars
<1>15. QED
  BY <1>1, <1>2, <1>3, <1>4, <1>5, <1>6, <1>7, <1>8, <1>9, <1>10, <1>11, <1>12, <1>13, <1>14
  DEF Next, Subscribe, Cancel, Webhook

-----------------------------------------------------------------------------
\* What a step leaves of calls that do not race when none of them starts.
LEMMA AloneKept ==
    ASSUME Base, Alone,
           \A c \in Calls : pc'[c] \in Under => pc[c] \in Under,
           kind' = kind
    PROVE  Alone'
  BY DEF Alone, Running

LEMMA AloneNext == Base /\ (~raced => Alone) /\ [Next]_vars => (~raced' => Alone')
<1> SUFFICES ASSUME Base, ~raced => Alone, [Next]_vars, ~raced' PROVE Alone' OBVIOUS
<1> USE DEF Base, TypeOK, Under
<1>1. ASSUME NEW c \in Calls, NEW k \in {"subscribe", "cancel"}, Ask(c, k) PROVE Alone'
  <2>1. /\ kind' = [kind EXCEPT ![c] = k] /\ pc' = [pc EXCEPT ![c] = "reading"]
        /\ ~raced /\ Running(IF k = "subscribe" THEN Kind ELSE {"subscribe", "cancel"}) = {}
    BY <1>1 DEF Ask, Goto
  <2>2. QED
    BY <2>1 DEF Alone, Running, Kind
<1>2. ASSUME NEW c \in Calls, NEW m \in outbox, Deliver(c, m) PROVE Alone'
  <2>1. /\ kind' = [kind EXCEPT ![c] = "webhook"] /\ pc' = [pc EXCEPT ![c] = "finding"]
        /\ ~raced /\ Running({"subscribe"}) = {}
    BY <1>2 DEF Deliver, Goto
  <2>2. QED
    BY <2>1 DEF Alone, Running, Kind
<1>3. CASE /\ \A c \in Calls : pc'[c] \in Under => pc[c] \in Under
           /\ kind' = kind /\ raced' = raced
  BY <1>3, AloneKept
<1>4. ASSUME NEW c \in Calls,
             ReadToSubscribe(c) \/ Contract(c) \/ Save(c) \/ ReadToCancel(c) \/ Withdraw(c)
             \/ Mark(c) \/ Find(c) \/ Record(c) \/ Stand(c) \/ Fail(c)
      PROVE  Alone'
  BY <1>3, <1>4 DEF ReadToSubscribe, Contract, Save, ReadToCancel, Withdraw, Mark, Find, Record,
                    Stand, Fail, Goto, historyVars
<1>5. CASE UNCHANGED vars \/ \E b \in Bill, e \in Event : Happen(b, e)
  BY <1>3, <1>5 DEF vars, Happen, callVars, historyVars
<1>6. QED
  BY <1>1, <1>2, <1>4, <1>5 DEF Next, Subscribe, Cancel, Webhook

-----------------------------------------------------------------------------
\* The parts of Settled but the first speak of the row, which only Save, Mark and Stand
\* write; so these three are the steps to look at.
LEMMA SettledNext == Base /\ (~raced => Alone /\ Settled) /\ [Next]_vars => (~raced' => Settled')
<1> SUFFICES ASSUME Base, ~raced => Alone /\ Settled, [Next]_vars, ~raced' PROVE Settled' OBVIOUS
<1>0. Base' /\ ~raced
  <2>1. Base'
    BY BaseNext
  <2>2. raced => raced'
    BY DEF Next, Subscribe, Cancel, Webhook, Happen, Ask, ReadToSubscribe, Contract, Save,
           ReadToCancel, Withdraw, Mark, Deliver, Find, Record, Stand, Fail, historyVars, vars
  <2>3. QED
    BY <2>1, <2>2
<1> USE <1>0 DEF Base, TypeOK, Staged, Contracted, Assinatura, Settled, ChargedIsKnown
<1>1. ASSUME NEW b \in Bill, NEW e \in Event, Happen(b, e) PROVE Settled'
  BY <1>1 DEF Happen, callVars
<1>2. ASSUME NEW c \in Calls, Ask(c, "subscribe") \/ Ask(c, "cancel") PROVE Settled'
  BY <1>2 DEF Ask, Goto, providerVars
<1>3. ASSUME NEW c \in Calls, ReadToSubscribe(c) PROVE Settled'
  BY <1>3 DEF ReadToSubscribe, Goto, providerVars, historyVars
<1>4. ASSUME NEW c \in Calls, Contract(c) PROVE Settled'
  BY <1>4 DEF Contract, Goto, historyVars
<1>5. ASSUME NEW c \in Calls, Save(c) PROVE Settled'
  <2>1. /\ assinatura' = [id |-> c, status |-> "ATIVA"] /\ pc' = [pc EXCEPT ![c] = "over"]
        /\ pc[c] = "saving" /\ UNCHANGED <<subscription, kind, subject, arrears>>
    BY <1>5 DEF Save, Goto, providerVars, historyVars
  <2>2. \A d \in Calls : pc[d] \in Under => d = c
    BY <2>1 DEF Alone, Running, Under, Kind
  <2>3. \A d \in Calls \ {c} : subscription[d] = "active" => pc[d] = "failed"
    BY <2>1, <2>2 DEF Under
  <2>4. QED
    BY <2>1, <2>2, <2>3 DEF Under
<1>6. ASSUME NEW c \in Calls, ReadToCancel(c) PROVE Settled'
  BY <1>6 DEF ReadToCancel, Goto, providerVars, historyVars
<1>7. ASSUME NEW c \in Calls, Withdraw(c) PROVE Settled'
  BY <1>7 DEF Withdraw, Goto, historyVars
<1>8. ASSUME NEW c \in Calls, Mark(c) PROVE Settled'
  <2>1. assinatura \in Assinatura
    BY <1>8 DEF Mark
  <2>2. /\ assinatura' \in Assinatura /\ assinatura'.id = assinatura.id
        /\ assinatura'.status = "CANCELADA"
        /\ pc[c] = "marking" /\ pc' = [pc EXCEPT ![c] = "over"]
        /\ UNCHANGED <<subscription, kind, subject, arrears>>
    BY <1>8, <2>1 DEF Mark, Goto, providerVars, historyVars
  <2>3. QED
    BY <2>1, <2>2
<1>9. ASSUME NEW c \in Calls, NEW m \in outbox, Deliver(c, m) PROVE Settled'
  BY <1>9 DEF Deliver, Goto, providerVars
<1>10. ASSUME NEW c \in Calls, Find(c) PROVE Settled'
  BY <1>10 DEF Find, Goto, providerVars
<1>11. ASSUME NEW c \in Calls, Record(c) PROVE Settled'
  BY <1>11 DEF Record, Goto, providerVars, historyVars
<1>12. ASSUME NEW c \in Calls, Stand(c) PROVE Settled'
  <2>1. assinatura \in Assinatura
    BY <1>12 DEF Stand
  <2>2. Standing(subject[c].event, assinatura.status) \in {"ATIVA", "INADIMPLENTE", "CANCELADA"}
    BY <2>1 DEF Standing
  <2>3. /\ assinatura' \in Assinatura /\ assinatura'.id = assinatura.id
        /\ assinatura'.status = Standing(subject[c].event, assinatura.status)
        /\ pc[c] = "standing" /\ pc' = [pc EXCEPT ![c] = "over"]
        /\ UNCHANGED <<subscription, kind, subject, arrears>>
    BY <1>12, <2>1, <2>2 DEF Stand, Goto, providerVars, historyVars
  <2>4. \A d \in Calls : pc[d] \notin {"contracting", "saving"}
    BY <2>3 DEF Alone, Running, Under, Kind
  <2>5. assinatura'.status = "INADIMPLENTE" => assinatura.id \in arrears
    BY <2>1, <2>3 DEF Standing, Recorded, Overdue
  <2>6. assinatura'.status = "CANCELADA" => assinatura.status = "CANCELADA"
    BY <2>3 DEF Standing
  <2>7. QED
    BY <2>1, <2>3, <2>4, <2>5, <2>6
<1>13. ASSUME NEW c \in Calls, Fail(c) PROVE Settled'
  BY <1>13 DEF Fail, Goto, providerVars, historyVars
<1>14. CASE UNCHANGED vars
  BY <1>14 DEF vars, providerVars, callVars, historyVars
<1>15. QED
  BY <1>1, <1>2, <1>3, <1>4, <1>5, <1>6, <1>7, <1>8, <1>9, <1>10, <1>11, <1>12, <1>13, <1>14
  DEF Next, Subscribe, Cancel, Webhook

-----------------------------------------------------------------------------
(* A bill whose webhooks come one after the other.                          *)

LEMMA RankOrders ==
    /\ \A e, f \in Event : Rank(e) \in Nat /\ (Rank(e) = Rank(f) => e = f)
    /\ \A e \in Event, x \in Event \cup {"none"} : x \in Before(e) /\ x # "none" => Rank(x) < Rank(e)
<1>1. Rank("OVERDUE") = 1 /\ Rank("CONFIRMED") = 2 /\ Rank("RECEIVED") = 3 /\ Rank("DELETED") = 4
  BY DEF Rank
<1>2. \A e, f \in Event : Rank(e) \in Nat /\ (Rank(e) = Rank(f) => e = f)
  BY <1>1 DEF Event
<1>3. ASSUME NEW e \in Event, NEW x \in Event, x \in Before(e) PROVE Rank(x) < Rank(e)
  <2>1. /\ e # "OVERDUE"
        /\ e = "RECEIVED" => x \in {"OVERDUE", "CONFIRMED"}
        /\ e # "RECEIVED" => x = "OVERDUE"
    BY <1>3 DEF Before, Event
  <2>2. QED
    BY <1>1, <2>1 DEF Event
<1>4. QED
  BY <1>2, <1>3

HandlingAt == {"finding", "billing", "standing"}

\* Steps that deliver, handle and answer no webhook.
LEMMA TrackedKept ==
    ASSUME Base, Tracked, UNCHANGED <<outbox, bill, fatura, disordered, unknown>>,
           \A c \in Calls : pc'[c] \in HandlingAt => pc[c] = pc'[c] /\ subject'[c] = subject[c]
    PROVE  Tracked'
<1> SUFFICES ASSUME NEW b \in Bill, b \notin disordered \cup unknown PROVE InStep(b)'
  BY DEF Tracked
<1>1. InStep(b)
  BY DEF Tracked
<1>2. Pending(b)' = Pending(b)
  BY DEF Pending
<1>3. /\ Handling(b)' \subseteq Handling(b)
      /\ \A c \in Handling(b)' : pc'[c] = pc[c] /\ subject'[c] = subject[c]
  BY DEF Handling, HandlingAt
<1>4. QED
  BY <1>1, <1>2, <1>3 DEF InStep

LEMMA TrackedHappen ==
    ASSUME Base, Tracked, NEW b \in Bill, NEW e \in Event, Happen(b, e)
    PROVE  Tracked'
<1> DEFINE m == [bill |-> b, event |-> e]
<1>1. /\ bill' = [bill EXCEPT ![b] = e] /\ bill \in [Bill -> Event \cup {"none"}]
      /\ outbox' = outbox \cup {m} /\ bill[b] \in Before(e)
      /\ UNCHANGED <<fatura, pc, subject, disordered, unknown>>
  BY DEF Happen, callVars, Base, TypeOK
<1>2. ASSUME NEW d \in Bill, d \notin disordered \cup unknown PROVE InStep(d)'
  <2>1. InStep(d) /\ Handling(d)' = Handling(d)
    BY <1>1, <1>2 DEF Tracked, Handling
  <2>2. CASE d # b
    <3>1. Pending(d)' = Pending(d) /\ bill'[d] = bill[d]
      BY <1>1, <2>2 DEF Pending
    <3>2. [bill |-> d, event |-> bill[d]] \in outbox => [bill |-> d, event |-> bill[d]] \in outbox'
      BY <1>1
    <3>3. QED
      BY <1>1, <2>1, <3>1, <3>2 DEF InStep
  <2>3. CASE d = b
    <3>1. bill'[b] = e /\ Pending(b)' = Pending(b) \cup {m} /\ e # "none"
      BY <1>1 DEF Pending, Event
    <3>2. \A n \in Pending(b) : n.event \in Event /\ Rank(n.event) < Rank(e)
      <4>1. ASSUME NEW n \in Pending(b) PROVE n.event \in Event /\ Rank(n.event) < Rank(e)
        <5>1. n.event \in Event /\ bill[b] \in Event /\ Rank(n.event) <= Rank(bill[b])
          BY <1>1, <2>1, <2>3, <4>1 DEF InStep, Pending, Base, TypeOK
        <5>2. Rank(bill[b]) < Rank(e)
          BY <1>1, <2>1, <2>3, <4>1, RankOrders DEF InStep
        <5>3. QED
          BY <5>1, <5>2, RankOrders
      <4>2. QED
        BY <4>1
    <3>3. \A c \in Handling(b) : subject[c] \in Pending(b)
      BY <2>1, <2>3 DEF InStep, Handling, Pending
    <3>4. \A c \in Handling(b) : Rank(subject[c].event) <= Rank(m.event)
      BY <3>2, <3>3, RankOrders
    <3>5. \A n \in Pending(b)' : bill'[b] # "none" /\ Rank(n.event) <= Rank(bill'[b])
      BY <3>1, <3>2, RankOrders
    <3>6. [bill |-> b, event |-> bill'[b]] \in outbox'
      BY <1>1, <3>1
    <3>7. QED
      BY <1>1, <2>1, <2>3, <3>1, <3>4, <3>5, <3>6 DEF InStep
  <2>4. QED
    BY <2>2, <2>3
<1>3. QED
  BY <1>1, <1>2 DEF Tracked

\* A webhook is taken up while no other of its bill is, and none older is left - or the
\* bill counts no longer.
LEMMA TrackedDeliver ==
    ASSUME Base, Tracked, NEW c \in Calls, NEW m \in outbox, Deliver(c, m)
    PROVE  Tracked'
<1>1. /\ pc' = [pc EXCEPT ![c] = "finding"] /\ subject' = [subject EXCEPT ![c] = m]
      /\ pc \in [Calls -> Under \cup {"none", "over", "failed"}] /\ DOMAIN subject = Calls
      /\ pc[c] \notin HandlingAt
      /\ m \in [bill : Bill, event : Event] /\ outbox \subseteq [bill : Bill, event : Event]
      /\ disordered \subseteq disordered'
      /\ UNCHANGED <<outbox, bill, fatura, unknown>>
  BY DEF Deliver, Goto, Base, TypeOK, Staged, HandlingAt, providerVars
<1>2. m.bill \notin disordered' =>
         /\ \A d \in Handling(m.bill) : FALSE
         /\ \A n \in Pending(m.bill) : ~(Rank(n.event) < Rank(m.event))
  <2>1. Handling(m.bill) \subseteq {d \in Running({"webhook"}) : subject[d].bill = m.bill}
    BY DEF Handling, Running, Under, Base, Staged
  <2>2. QED
    BY <2>1 DEF Deliver, Pending
<1>3. ASSUME NEW b \in Bill, b \notin disordered' \cup unknown' PROVE InStep(b)'
  <2>1. InStep(b) /\ Pending(b)' = Pending(b)
    BY <1>1, <1>3 DEF Tracked, Pending
  <2>2. CASE b # m.bill
    <3>1. Handling(b)' = Handling(b) /\ \A d \in Handling(b) : d # c
      BY <1>1, <2>2 DEF Handling, HandlingAt
    <3>2. QED
      BY <1>1, <2>1, <3>1 DEF InStep, Handling
  <2>3. CASE b = m.bill
    <3>1. Handling(b)' = {c}
      BY <1>1, <1>2, <1>3, <2>3 DEF Handling
    <3>2. \A n \in Pending(b) : Rank(m.event) <= Rank(n.event)
      <4>1. ASSUME NEW n \in Pending(b) PROVE Rank(m.event) <= Rank(n.event)
        <5>1. n.event \in Event /\ m.event \in Event /\ ~(Rank(n.event) < Rank(m.event))
          BY <1>1, <1>2, <1>3, <2>3, <4>1 DEF Pending
        <5>2. QED
          BY <5>1, RankOrders
      <4>2. QED
        BY <4>1
    <3>3. QED
      BY <1>1, <2>1, <3>1, <3>2 DEF InStep
  <2>4. QED
    BY <2>2, <2>3
<1>4. QED
  BY <1>3 DEF Tracked

\* A webhook answered and not recorded leaves its bill out of account.
LEMMA TrackedFind ==
    ASSUME Base, Tracked, NEW c \in Calls, Find(c)
    PROVE  Tracked'
<1> DEFINE m == subject[c]
<1>1. /\ pc[c] = "finding" /\ pc \in [Calls -> Under \cup {"none", "over", "failed"}]
      /\ m \in [bill : Bill, event : Event] /\ outbox \subseteq [bill : Bill, event : Event]
      /\ UNCHANGED <<bill, fatura, subject, disordered>>
      /\ \/ pc' = [pc EXCEPT ![c] = "billing"] /\ UNCHANGED <<outbox, unknown>>
         \/ /\ pc' = [pc EXCEPT ![c] = "over"]
            /\ outbox' = outbox \ {m} /\ unknown' = unknown \cup {m.bill}
  BY DEF Find, Goto, Base, TypeOK, Staged, providerVars
<1>2. ASSUME NEW b \in Bill, b \notin disordered' \cup unknown' PROVE InStep(b)'
  <2>1. InStep(b)
    BY <1>1, <1>2 DEF Tracked
  <2>2. \A n \in [bill : {b}, event : Event \cup {"none"}] : n \in outbox' <=> n \in outbox
    BY <1>1, <1>2
  <2>3. Pending(b)' = Pending(b)
    <3>1. \A n \in outbox : n.bill = b => n \in [bill : {b}, event : Event \cup {"none"}]
      BY <1>1
    <3>2. outbox' \subseteq outbox
      BY <1>1
    <3>3. QED
      BY <2>2, <3>1, <3>2 DEF Pending
  <2>4. Handling(b)' \subseteq Handling(b) /\ \A d \in Handling(b)' : pc'[d] = "standing" => pc[d] = "standing"
    BY <1>1 DEF Handling
  <2>5. \A d \in Handling(b) : subject[d] \in outbox => subject[d] \in outbox'
    BY <1>1, <1>2 DEF Handling
  <2>6. [bill |-> b, event |-> bill[b]] \in outbox' <=> [bill |-> b, event |-> bill[b]] \in outbox
    BY <2>2 DEF Base, TypeOK
  <2>7. QED
    BY <1>1, <2>1, <2>3, <2>4, <2>5, <2>6 DEF InStep
<1>3. QED
  BY <1>2 DEF Tracked

LEMMA TrackedRecord ==
    ASSUME Base, Tracked, NEW c \in Calls, Record(c)
    PROVE  Tracked'
<1> DEFINE m == subject[c]
<1>1. /\ pc[c] = "billing" /\ pc' = [pc EXCEPT ![c] = "standing"]
      /\ pc \in [Calls -> Under \cup {"none", "over", "failed"}] /\ DOMAIN fatura = Bill
      /\ m \in [bill : Bill, event : Event]
      /\ fatura' = [fatura EXCEPT ![m.bill] = StatusFatura(m.event)]
      /\ UNCHANGED <<bill, outbox, subject, disordered, unknown>>
  BY DEF Record, Goto, Base, TypeOK, Staged, providerVars, historyVars
<1>2. ASSUME NEW b \in Bill, b \notin disordered \cup unknown PROVE InStep(b)'
  <2>1. InStep(b) /\ Pending(b)' = Pending(b) /\ Handling(b)' = Handling(b)
    BY <1>1, <1>2 DEF Tracked, Pending, Handling
  <2>2. CASE b = m.bill
    <3>1. c \in Handling(b) /\ Handling(b) = {c}
      BY <1>1, <2>1, <2>2 DEF Handling, InStep
    <3>2. Pending(b) # {}
      BY <2>1, <2>2, <3>1 DEF InStep, Pending
    <3>3. QED
      BY <1>1, <2>1, <2>2, <3>1, <3>2 DEF InStep
  <2>3. CASE b # m.bill
    <3>1. fatura'[b] = fatura[b] /\ \A d \in Handling(b) : d # c
      BY <1>1, <2>3 DEF Handling
    <3>2. \A d \in Handling(b) : pc'[d] = pc[d]
      BY <1>1, <3>1 DEF Handling
    <3>3. QED
      BY <1>1, <2>1, <3>1, <3>2 DEF InStep
  <2>4. QED
    BY <2>2, <2>3
<1>3. QED
  BY <1>1, <1>2 DEF Tracked

\* The webhook answered was the oldest: if it was of the last event, none is left.
LEMMA TrackedStand ==
    ASSUME Base, Tracked, NEW c \in Calls, Stand(c)
    PROVE  Tracked'
<1> DEFINE m == subject[c]
<1>1. /\ pc[c] = "standing" /\ pc' = [pc EXCEPT ![c] = "over"]
      /\ pc \in [Calls -> Under \cup {"none", "over", "failed"}]
      /\ m \in [bill : Bill, event : Event] /\ outbox \subseteq [bill : Bill, event : Event]
      /\ outbox' = outbox \ {m} \/ outbox' = outbox
      /\ UNCHANGED <<bill, fatura, subject, disordered, unknown>>
  BY DEF Stand, Goto, Base, TypeOK, Staged, providerVars, historyVars
<1>2. ASSUME NEW b \in Bill, b \notin disordered \cup unknown PROVE InStep(b)'
  <2>1. InStep(b)
    BY <1>2 DEF Tracked
  <2>2. /\ Handling(b)' \subseteq Handling(b) \ {c} /\ Pending(b)' \subseteq Pending(b)
        /\ \A d \in Handling(b)' : pc'[d] = pc[d]
    BY <1>1 DEF Handling, Pending
  <2>3. CASE b = m.bill
    <3>1. c \in Handling(b) /\ Handling(b)' = {}
      BY <1>1, <2>1, <2>2, <2>3 DEF Handling, InStep
    <3>2. /\ m \in Pending(b) /\ fatura[b] = StatusFatura(m.event)
          /\ \A n \in Pending(b) : Rank(m.event) <= Rank(n.event) /\ Rank(n.event) <= Rank(bill[b])
          /\ bill[b] # "none" /\ bill[b] \in Event
      BY <1>1, <2>1, <2>3, <3>1 DEF InStep, Pending, Base, TypeOK
    <3>3. [bill |-> b, event |-> bill[b]] \in outbox
      BY <2>1, <3>2 DEF InStep
    <3>4. CASE outbox' = outbox \/ bill[b] # m.event
      <4>1. [bill |-> b, event |-> bill[b]] \in outbox'
        <5>1. [bill |-> b, event |-> bill[b]].event = bill[b]
          OBVIOUS
        <5>2. QED
          BY <1>1, <3>3, <3>4, <5>1
      <4>2. QED
        BY <1>1, <2>1, <2>2, <3>1, <4>1 DEF InStep
    <3>5. CASE outbox' = outbox \ {m} /\ bill[b] = m.event
      <4>1. ASSUME NEW n \in Pending(b) PROVE n = m
        <5>1. n \in [bill : Bill, event : Event] /\ n.bill = b
          BY <1>1 DEF Pending
        <5>2. Rank(n.event) = Rank(m.event)
          BY <1>1, <3>2, <3>5, <5>1, RankOrders
        <5>3. n.event = m.event
          BY <1>1, <5>1, <5>2, RankOrders
        <5>4. QED
          BY <1>1, <2>3, <5>1, <5>3
      <4>2. Pending(b)' = {}
        BY <3>5, <4>1 DEF Pending
      <4>3. QED
        BY <1>1, <2>1, <3>1, <3>2, <3>5, <4>2 DEF InStep
    <3>6. QED
      BY <1>1, <3>4, <3>5
  <2>4. CASE b # m.bill
    <3>1. \A n \in [bill : {b}, event : Event \cup {"none"}] : n \in outbox' <=> n \in outbox
      BY <1>1, <2>4
    <3>2. [bill |-> b, event |-> bill[b]] \in outbox' <=> [bill |-> b, event |-> bill[b]] \in outbox
      BY <3>1 DEF Base, TypeOK
    <3>3. \A d \in Handling(b) : subject[d] \in outbox => subject[d] \in outbox'
      BY <1>1, <2>4 DEF Handling
    <3>4. QED
      BY <1>1, <2>1, <2>2, <3>2, <3>3 DEF InStep
  <2>5. QED
    BY <2>3, <2>4
<1>3. QED
  BY <1>1, <1>2 DEF Tracked

LEMMA TrackedNext == Base /\ Tracked /\ [Next]_vars => Tracked'
<1> SUFFICES ASSUME Base, Tracked, [Next]_vars PROVE Tracked' OBVIOUS
<1>1. ASSUME NEW c \in Calls,
             Ask(c, "subscribe") \/ Ask(c, "cancel") \/ ReadToSubscribe(c) \/ Contract(c)
             \/ Save(c) \/ ReadToCancel(c) \/ Withdraw(c) \/ Mark(c) \/ Fail(c)
      PROVE  Tracked'
  <2>1. /\ \A d \in Calls : pc'[d] \in HandlingAt => pc[d] = pc'[d] /\ subject'[d] = subject[d]
        /\ UNCHANGED <<outbox, bill, fatura, disordered, unknown>>
    BY <1>1 DEF Ask, ReadToSubscribe, Contract, Save, ReadToCancel, Withdraw, Mark, Fail, Goto,
                HandlingAt, providerVars, historyVars, Base, TypeOK
  <2>2. QED
    BY <2>1, TrackedKept
<1>2. CASE UNCHANGED vars
  BY <1>2, TrackedKept DEF vars, providerVars, callVars, historyVars
<1>3. QED
  BY <1>1, <1>2, TrackedHappen, TrackedDeliver, TrackedFind, TrackedRecord, TrackedStand
  DEF Next, Subscribe, Cancel, Webhook

-----------------------------------------------------------------------------
(* What a payment and a bill on record say of the past.                    *)

LEMMA SavedNext == Base /\ Saved /\ [Next]_vars => Saved'
<1> SUFFICES ASSUME Base, Saved, [Next]_vars PROVE Saved' OBVIOUS
<1>0. Base'
  BY BaseNext
<1> USE <1>0 DEF Base, TypeOK, Staged, Assinatura, Saved
<1>1. ASSUME NEW b \in Bill, NEW e \in Event, Happen(b, e) PROVE Saved'
  BY <1>1 DEF Happen, callVars
<1>2. ASSUME NEW c \in Calls, Ask(c, "subscribe") \/ Ask(c, "cancel") PROVE Saved'
  BY <1>2 DEF Ask, Goto, providerVars, Bill
<1>3. ASSUME NEW c \in Calls,
             ReadToSubscribe(c) \/ Contract(c) \/ ReadToCancel(c) \/ Withdraw(c) \/ Fail(c)
      PROVE  Saved'
  BY <1>3 DEF ReadToSubscribe, Contract, ReadToCancel, Withdraw, Fail, Goto, Under,
              providerVars, historyVars, Bill
<1>4. ASSUME NEW c \in Calls, Save(c) PROVE Saved'
  <2>1. assinatura' # Nulo /\ assinatura'.id = c
    BY <1>4 DEF Save
  <2>2. QED
    BY <1>4, <2>1 DEF Save, Goto, providerVars, historyVars, Bill
<1>5. ASSUME NEW c \in Calls, Mark(c) PROVE Saved'
  <2>1. assinatura # Nulo /\ assinatura'.id = assinatura.id
    <3>1. assinatura # Nulo /\ assinatura \in Assinatura
      BY <1>5 DEF Mark
    <3>3. QED
      BY <1>5, <3>1 DEF Mark
  <2>2. QED
    BY <1>5, <2>1 DEF Mark, Goto, providerVars, historyVars, Bill
<1>6. ASSUME NEW c \in Calls, NEW m \in outbox, Deliver(c, m) PROVE Saved'
  BY <1>6 DEF Deliver, Goto, providerVars, Bill
<1>7. ASSUME NEW c \in Calls, Find(c) PROVE Saved'
  BY <1>7 DEF Find, Goto, providerVars, Bill
<1>8. ASSUME NEW c \in Calls, Record(c) PROVE Saved'
  BY <1>8 DEF Record, Goto, providerVars, historyVars, Bill
<1>9. ASSUME NEW c \in Calls, Stand(c) PROVE Saved'
  <2>1. assinatura # Nulo /\ assinatura'.id = assinatura.id
    <3>1. assinatura # Nulo /\ assinatura \in Assinatura
      BY <1>9 DEF Stand
    <3>2. Standing(subject[c].event, assinatura.status) \in {"ATIVA", "INADIMPLENTE", "CANCELADA"}
      BY <3>1 DEF Standing
    <3>3. QED
      BY <1>9, <3>1, <3>2 DEF Stand
  <2>2. QED
    BY <1>9, <2>1 DEF Stand, Goto, providerVars, historyVars, Bill
<1>10. CASE UNCHANGED vars
  BY <1>10 DEF vars, providerVars, callVars, historyVars
<1>11. QED
  BY <1>1, <1>2, <1>3, <1>4, <1>5, <1>6, <1>7, <1>8, <1>9, <1>10
  DEF Next, Subscribe, Cancel, Webhook

\* A bill paid stays paid.
LEMMA PaidForGood ==
    ASSUME Base, [Next]_vars, NEW b \in Bill, Paid(b)
    PROVE  Paid(b)'
<1>1. ASSUME NEW d \in Bill, NEW e \in Event, Happen(d, e) PROVE Paid(b)'
  <2>1. bill' = [bill EXCEPT ![d] = e] /\ bill[d] \in Before(e)
    BY <1>1 DEF Happen
  <2>2. CASE d = b
    <3>1. e = "RECEIVED"
      BY <2>1, <2>2 DEF Before, Paid, Event
    <3>2. QED
      BY <2>1, <2>2, <3>1 DEF Paid, Base, TypeOK
  <2>3. CASE d # b
    BY <2>1, <2>3 DEF Paid, Base, TypeOK
  <2>4. QED
    BY <2>2, <2>3
<1>2. CASE bill' = bill
  BY <1>2 DEF Paid
<1>3. QED
  BY <1>1, <1>2
  DEF Next, Subscribe, Cancel, Webhook, Ask, ReadToSubscribe, Contract, Save, ReadToCancel,
      Withdraw, Mark, Deliver, Find, Record, Stand, Fail, providerVars, vars

LEMMA BankedNext == Base /\ Banked /\ [Next]_vars => Banked'
<1> SUFFICES ASSUME Base, Banked, [Next]_vars PROVE Banked' OBVIOUS
<1>0. Base'
  BY BaseNext
<1>1. \A m \in [bill : Bill, event : Event] : Paying(m) => Paying(m)'
  BY PaidForGood DEF Paying
<1>2. CASE /\ outbox' \subseteq outbox
           /\ \A c \in Calls : pc'[c] \in HandlingAt =>
                  \/ pc[c] \in HandlingAt /\ subject'[c] = subject[c]
                  \/ subject'[c] \in outbox
  <2>1. \A m \in outbox' : Paying(m)'
    BY <1>1, <1>2 DEF Banked, Base, TypeOK
  <2>2. ASSUME NEW c \in Calls, pc'[c] \in HandlingAt PROVE Paying(subject[c])'
    <3>1. Paying(subject'[c]) /\ subject'[c] \in [bill : Bill, event : Event]
      BY <1>2, <2>2 DEF Banked, Base, TypeOK, Staged, HandlingAt
    <3>2. QED
      BY <1>1, <3>1 DEF Paying
  <2>3. QED
    BY <2>1, <2>2 DEF Banked, HandlingAt
<1>3. ASSUME NEW b \in Bill, NEW e \in Event, Happen(b, e) PROVE Banked'
  <2>1. /\ outbox' = outbox \cup {[bill |-> b, event |-> e]} /\ bill'[b] = e
        /\ UNCHANGED <<pc, subject>>
    BY <1>3 DEF Happen, callVars, Base, TypeOK
  <2>2. Paying([bill |-> b, event |-> e])'
    BY <2>1 DEF Paying, Paid
  <2>3. \A m \in outbox' : Paying(m)'
    BY <1>1, <2>1, <2>2 DEF Banked, Base, TypeOK
  <2>4. ASSUME NEW c \in Calls, pc'[c] \in HandlingAt PROVE Paying(subject[c])'
    <3>1. Paying(subject[c]) /\ subject[c] \in [bill : Bill, event : Event] /\ subject'[c] = subject[c]
      BY <2>1, <2>4 DEF Banked, Base, Staged, HandlingAt
    <3>2. QED
      BY <1>1, <3>1 DEF Paying
  <2>5. QED
    BY <2>3, <2>4 DEF Banked, HandlingAt
<1>4. ASSUME NEW c \in Calls,
             \/ Ask(c, "subscribe") \/ Ask(c, "cancel") \/ ReadToSubscribe(c) \/ Contract(c)
             \/ Save(c) \/ ReadToCancel(c) \/ Withdraw(c) \/ Mark(c) \/ Fail(c)
      PROVE  Banked'
  <2>1. /\ outbox' = outbox
        /\ \A d \in Calls : pc'[d] \in HandlingAt => pc[d] = pc'[d] /\ subject'[d] = subject[d]
    BY <1>4 DEF Ask, ReadToSubscribe, Contract, Save, ReadToCancel, Withdraw, Mark, Fail, Goto,
                HandlingAt, providerVars, historyVars, Base, TypeOK
  <2>2. QED
    BY <1>2, <2>1
<1>5. ASSUME NEW c \in Calls, NEW m \in outbox, Deliver(c, m) PROVE Banked'
  <2>1. /\ outbox' = outbox /\ subject' = [subject EXCEPT ![c] = m] /\ DOMAIN subject = Calls
        /\ pc' = [pc EXCEPT ![c] = "finding"] /\ DOMAIN pc = Calls
    BY <1>5 DEF Deliver, Goto, Base, TypeOK
  <2>2. QED
    BY <1>2, <2>1
<1>6. ASSUME NEW c \in Calls, Find(c) \/ Record(c) \/ Stand(c) PROVE Banked'
  <2>1. /\ outbox' \subseteq outbox /\ subject' = subject
        /\ pc[c] \in HandlingAt /\ \E where : pc' = [pc EXCEPT ![c] = where]
    BY <1>6 DEF Find, Record, Stand, Goto, HandlingAt, providerVars, historyVars
  <2>2. \A d \in Calls : pc'[d] \in HandlingAt => pc[d] \in HandlingAt
    BY <2>1 DEF Base, TypeOK
  <2>3. QED
    BY <1>2, <2>1, <2>2
<1>7. CASE UNCHANGED vars
  BY <1>2, <1>7 DEF vars, providerVars, callVars, historyVars
<1>8. QED
  BY <1>3, <1>4, <1>5, <1>6, <1>7 DEF Next, Subscribe, Cancel, Webhook

-----------------------------------------------------------------------------
\* The invariant is inductive.
THEOREM Invariant == Spec => []IInv
<1>1. Init => IInv
  <2> SUFFICES ASSUME Init PROVE IInv OBVIOUS
  <2>1. Base
    BY BaseInit
  <2>2. Alone /\ Settled
    BY DEF Init, Alone, Running, Settled, ChargedIsKnown, Under
  <2>3. Tracked
    BY DEF Init, Tracked, InStep, Pending, Handling, StatusFatura
  <2>4. Saved /\ Banked
    BY DEF Init, Saved, Banked
  <2>5. QED
    BY <2>1, <2>2, <2>3, <2>4 DEF IInv, Base
<1>2. IInv /\ [Next]_vars => IInv'
  BY BaseNext, AloneNext, SettledNext, TrackedNext, SavedNext, BankedNext DEF IInv, Base
<1>3. QED
  BY <1>1, <1>2, PTL DEF Spec

\* Every variable keeps its type; in particular no handler writes to a row that is not there.
THEOREM TypeCorrect == Spec => []TypeOK
<1>1. IInv => TypeOK
  BY DEF IInv
<1>2. QED
  BY <1>1, Invariant, PTL

\* Calls that do not overlap leave one live subscription, the one of the row, beside those
\* of calls that failed after contracting (billing.service.ts:26-71).
THEOREM ChargedTheorem == Spec => []ChargedIsKnown
<1>1. IInv => ChargedIsKnown
  BY DEF IInv, Settled, ChargedIsKnown
<1>2. QED
  BY <1>1, Invariant, PTL

\* Whatever webhooks fail and are repeated, a bill whose webhooks came one after the other
\* ends up on record as the provider has it (billing.service.ts:103-149).
THEOREM FaturasTheorem == Spec => []FaturasAreTrue
<1>1. IInv => FaturasAreTrue
  <2> SUFFICES ASSUME IInv, NEW b \in Bill, \A m \in outbox : m.bill # b,
                      b \notin disordered \cup unknown
               PROVE  fatura[b] = StatusFatura(bill[b])
    BY DEF FaturasAreTrue
  <2>1. InStep(b)
    BY DEF IInv, Tracked
  <2>2. [bill |-> b, event |-> bill[b]] \notin outbox
    OBVIOUS
  <2>3. QED
    BY <2>1, <2>2 DEF InStep
<1>2. QED
  BY <1>1, Invariant, PTL

\* A tenant turned away has arrears, or a subscription that no longer charges
\* (jwt-auth.guard.ts:85-88), whatever webhooks are repeated, lost or reordered.
THEOREM BlockedTheorem == Spec => []BlockedForAReason
<1>1. IInv => BlockedForAReason
  <2> SUFFICES ASSUME IInv, ~raced, Blocked PROVE \/ assinatura.status = "INADIMPLENTE" /\ assinatura.id \in arrears
                                                  \/ assinatura.status = "CANCELADA" /\ subscription[assinatura.id] = "deleted"
    BY DEF BlockedForAReason
  <2>1. QED
    BY DEF IInv, Settled, Blocked
<1>2. QED
  BY <1>1, Invariant, PTL

-----------------------------------------------------------------------------
(* The payment of another bill of the same subscription is the only way out *)
(* for a tenant in arrears.                                                *)

\* What UnblockedByAnotherBill says of one bill.
Owing(b) ==
    /\ OwedAndKnown(b) /\ ~Blocked /\ Pending(b) = {}
    /\ ~raced /\ b \notin disordered \cup unknown
Excused(b) == \E p \in Bill \ {b} : p[1] = b[1] /\ Paid(p)

LEMMA OwingBill == UnblockedByAnotherBill <=> \A b \in Bill : Owing(b) => Excused(b)
  BY DEF UnblockedByAnotherBill, Owing, Excused, Pending

\* While a bill is overdue on record and blocks nobody, it did so before: of each step
\* that could put it so, what it leaves contradicts one of the four conditions.
LEMMA OwingBefore ==
    ASSUME IInv, [Next]_vars, NEW b \in Bill, Owing(b)', ~Excused(b)'
    PROVE  Owing(b)
<1>0. /\ Base /\ Base' /\ Saved /\ Banked /\ ~raced /\ Settled
      /\ b \notin disordered \cup unknown /\ InStep(b)
  <2>1. Base /\ Saved /\ Banked /\ Tracked /\ (~raced => Settled)
    BY DEF IInv, Base
  <2>2. Base'
    BY <2>1, BaseNext
  <2>3. raced => raced'
    BY DEF Next, Subscribe, Cancel, Webhook, Happen, Ask, ReadToSubscribe, Contract, Save,
           ReadToCancel, Withdraw, Mark, Deliver, Find, Record, Stand, Fail, historyVars, vars
  <2>4. disordered \subseteq disordered' /\ unknown \subseteq unknown'
    <3>1. ASSUME NEW c \in Calls, NEW m \in outbox, Deliver(c, m)
          PROVE  disordered \subseteq disordered' /\ unknown' = unknown
      BY <3>1 DEF Deliver
    <3>2. ASSUME NEW c \in Calls, Find(c)
          PROVE  disordered' = disordered /\ unknown \subseteq unknown'
      BY <3>2 DEF Find
    <3>3. QED
      BY <3>1, <3>2
      DEF Next, Subscribe, Cancel, Webhook, Happen, Ask, ReadToSubscribe, Contract, Save,
          ReadToCancel, Withdraw, Mark, Record, Stand, Fail, historyVars, vars
  <2>5. QED
    BY <2>1, <2>2, <2>3, <2>4 DEF Owing, Tracked
<1> USE DEF Owing
<1>1. ASSUME NEW d \in Bill, NEW e \in Event, Happen(d, e) PROVE Owing(b)
  <2>1. /\ bill' = [bill EXCEPT ![d] = e] /\ outbox' = outbox \cup {[bill |-> d, event |-> e]}
        /\ UNCHANGED <<assinatura, fatura, raced>>
    BY <1>1 DEF Happen
  <2>2. d # b
    <3>1. [bill |-> d, event |-> e] \in outbox' /\ [bill |-> d, event |-> e].bill = d
      BY <2>1
    <3>2. \A m \in outbox' : m.bill # b
      BY DEF Pending
    <3>3. QED
      BY <3>1, <3>2
  <2>3. bill'[b] = bill[b] /\ Pending(b) \subseteq Pending(b)'
    BY <2>1, <2>2, <1>0 DEF Pending, Base, TypeOK
  <2>4. QED
    BY <1>0, <2>1, <2>3 DEF OwedAndKnown, Blocked
<1>2. CASE UNCHANGED <<assinatura, bill, fatura, outbox>>
  BY <1>0, <1>2 DEF OwedAndKnown, Blocked, Pending
<1>3. ASSUME NEW c \in Calls, Save(c) PROVE FALSE
  <2>1. assinatura'.id = c /\ pc[c] = "saving" /\ fatura' = fatura
    BY <1>3 DEF Save
  <2>2. b[1] = c /\ fatura[b] # "none"
    BY <2>1 DEF OwedAndKnown
  <2>3. QED
    BY <1>0, <2>1, <2>2 DEF Saved
<1>4. ASSUME NEW c \in Calls, Mark(c) PROVE FALSE
  <2>1. assinatura' = [assinatura EXCEPT !.status = "CANCELADA"] /\ assinatura \in Assinatura
    BY <1>0, <1>4 DEF Mark, Base, Staged, TypeOK
  <2>2. assinatura'.status = "CANCELADA"
    BY <2>1 DEF Assinatura
  <2>3. QED
    BY <2>2 DEF Blocked, OwedAndKnown
<1>5. ASSUME NEW c \in Calls, Find(c) PROVE Owing(b)
  <2>1. CASE UNCHANGED outbox
    BY <1>2, <1>5, <2>1 DEF Find, providerVars
  <2>2. CASE outbox' = outbox \ {subject[c]} /\ unknown' = unknown \cup {subject[c].bill}
    <3>1. subject[c].bill # b
      BY <2>2
    <3>2. Pending(b) = Pending(b)'
      BY <2>2, <3>1 DEF Pending
    <3>3. UNCHANGED <<assinatura, bill, fatura, raced>>
      BY <1>5 DEF Find, providerVars
    <3>4. QED
      BY <1>0, <3>2, <3>3 DEF OwedAndKnown, Blocked
  <2>3. QED
    BY <1>5, <2>1, <2>2 DEF Find
<1>6. ASSUME NEW c \in Calls, Record(c) PROVE Owing(b)
  <2>1. /\ pc[c] = "billing" /\ UNCHANGED <<bill, outbox, assinatura, raced>>
        /\ fatura' = [fatura EXCEPT ![subject[c].bill] = StatusFatura(subject[c].event)]
    BY <1>6 DEF Record, providerVars, historyVars
  <2>2. Pending(b) = {}
    BY <2>1 DEF Pending
  <2>3. subject[c].bill # b
    <3>1. c \in Handling(b) => subject[c] \in outbox
      BY <1>0 DEF InStep
    <3>2. QED
      BY <2>1, <2>2, <3>1 DEF Handling, Pending
  <2>4. fatura'[b] = fatura[b]
    BY <1>0, <2>1, <2>3 DEF Base, TypeOK
  <2>5. QED
    BY <1>0, <2>1, <2>2, <2>4 DEF OwedAndKnown, Blocked
<1>7. ASSUME NEW c \in Calls, Stand(c) PROVE Owing(b)
  <2> DEFINE m == subject[c]
  <2>1. /\ pc[c] = "standing" /\ assinatura # Nulo /\ assinatura \in Assinatura
        /\ m \in [bill : Bill, event : Event]
        /\ outbox' = outbox \ {m} \/ outbox' = outbox
        /\ UNCHANGED <<bill, fatura, raced>>
    BY <1>0, <1>7 DEF Stand, Base, Staged, TypeOK, providerVars, historyVars
  <2>2. Standing(m.event, assinatura.status) \in {"ATIVA", "INADIMPLENTE", "CANCELADA"}
    BY <2>1 DEF Standing, Assinatura
  <2>3. /\ assinatura'.id = assinatura.id /\ assinatura' # Nulo
        /\ assinatura'.status = Standing(m.event, assinatura.status)
    BY <1>0, <1>7, <2>1, <2>2 DEF Stand, Assinatura, OwedAndKnown
  <2>4. m.bill[1] = assinatura.id
    BY <1>0, <2>1 DEF Settled
  <2>5. bill[b] = "OVERDUE" /\ b[1] = assinatura.id /\ fatura[b] = "VENCIDA"
    BY <2>1, <2>3 DEF OwedAndKnown
  <2>6. m.event # "OVERDUE"
    BY <2>3 DEF Standing, Blocked
  <2>7. m.event \notin {"CONFIRMED", "RECEIVED"}
    <3>1. ASSUME m.event \in {"CONFIRMED", "RECEIVED"} PROVE FALSE
      <4>1. Paid(m.bill) /\ m.bill \in Bill
        BY <1>0, <2>1, <3>1 DEF Banked, Paying
      <4>2. m.bill # b
        BY <4>1, <2>5 DEF Paid
      <4>3. \E p \in Bill \ {b} : p[1] = b[1] /\ bill'[p] \in {"CONFIRMED", "RECEIVED"}
        BY <4>1, <4>2, <2>1, <2>4, <2>5 DEF Paid
      <4>4. QED
        BY <4>3 DEF Excused, Paid
    <3>2. QED
      BY <3>1
  <2>8. m.event = "DELETED"
    BY <2>1, <2>6, <2>7 DEF Event
  <2>9. assinatura'.status = assinatura.status
    BY <2>3, <2>8 DEF Standing
  <2>10. m.bill # b
    <3>1. ASSUME m.bill = b PROVE FALSE
      <4>1. c \in Handling(b) /\ m \in Pending(b)
        BY <1>0, <2>1, <3>1 DEF Handling, InStep, Pending
      <4>2. Rank("DELETED") <= Rank("OVERDUE")
        BY <1>0, <2>5, <2>8, <4>1 DEF InStep
      <4>3. QED
        BY <4>2 DEF Rank
    <3>2. QED
      BY <3>1
  <2>11. Pending(b)' = Pending(b)
    BY <2>1, <2>10 DEF Pending
  <2>12. QED
    BY <1>0, <2>1, <2>3, <2>5, <2>9, <2>11 DEF OwedAndKnown, Blocked
<1>8. ASSUME NEW c \in Calls,
             \/ Ask(c, "subscribe") \/ Ask(c, "cancel") \/ ReadToSubscribe(c) \/ Contract(c)
             \/ ReadToCancel(c) \/ Withdraw(c) \/ Fail(c) \/ \E m \in outbox : Deliver(c, m)
      PROVE  Owing(b)
  <2>1. UNCHANGED <<assinatura, bill, fatura, outbox>>
    BY <1>8 DEF Ask, ReadToSubscribe, Contract, ReadToCancel, Withdraw, Fail, Deliver, providerVars
  <2>2. QED
    BY <1>2, <2>1
<1>9. CASE UNCHANGED vars
  BY <1>2, <1>9 DEF vars, providerVars
<1>10. QED
  BY <1>1, <1>3, <1>4, <1>5, <1>6, <1>7, <1>8, <1>9 DEF Next, Subscribe, Cancel, Webhook

\* Whoever has a bill overdue on record is turned away until another bill of the subscription
\* is paid, whatever webhooks fail and are repeated (billing.service.ts:132-149,
\* jwt-auth.guard.ts:85-88).
THEOREM UnblockedTheorem == Spec => []UnblockedByAnotherBill
<1>1. Init => UnblockedByAnotherBill
  BY DEF Init, UnblockedByAnotherBill, OwedAndKnown
<1>2. IInv /\ UnblockedByAnotherBill /\ [Next]_vars => UnblockedByAnotherBill'
  <2> SUFFICES ASSUME IInv, UnblockedByAnotherBill, [Next]_vars,
                      NEW b \in Bill, Owing(b)', ~Excused(b)'
               PROVE  FALSE
    BY DEF UnblockedByAnotherBill, Owing, Excused, Pending
  <2>1. Owing(b)
    BY OwingBefore
  <2>2. PICK p \in Bill \ {b} : p[1] = b[1] /\ Paid(p)
    BY <2>1, OwingBill DEF Excused
  <2>3. Paid(p)'
    BY <2>2, PaidForGood DEF IInv, Base
  <2>4. QED
    BY <2>2, <2>3 DEF Excused
<1>3. QED
  BY <1>1, <1>2, Invariant, PTL DEF Spec
=============================================================================
