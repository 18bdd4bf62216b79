-------------------------- MODULE Sessions_proofs --------------------------
(***************************************************************************)
(* For any number of requests and of failing calls to Redis: a token       *)
(* revoked before a request arrives is refused, requests that issue tokens *)
(* one after the other leave one good session, and another device is only  *)
(* blamed for a login or for a session's own renewal. The second part is    *)
(* about Access, whose variables are apart from those of Sessions: who is   *)
(* locked out, and what a profile lets in.                                  *)
(***************************************************************************)
EXTENDS Sessions, Access, FiniteSetTheorems, TLAPS

USE SessionsAssumption

\* The types and the stages of the handlers are inductive together: only a guarded
\* request has a token to touch, and only a registration reads an older session.
TypeInv == TypeOK /\ Staged

LEMMA TypeInit == Init => TypeInv
<1> SUFFICES ASSUME Init PROVE TypeInv OBVIOUS
<1> USE DEF Init
<1>1. TypeOK
  <2>1. /\ kind \in [Requests -> Kind \cup {"none"}]
        /\ pc \in [Requests -> Pc]
        /\ then \in [Requests -> Then]
        /\ verdict \in [Requests -> Motivo \cup {"none", "accepted"}]
        /\ revoked \in [Requests -> Motivo \cup {"none"}]
    BY DEF Kind, Pc, Then
  <2>2. faults \in 0 .. MaxFaults
    OBVIOUS
  <2>3. QED
    BY <2>1, <2>2 DEF TypeOK
<1>2. Staged
  BY DEF Staged
<1>3. QED
  BY <1>1, <1>2 DEF TypeInv

\* How Continue ends a revocation.
LEMMA ContinueType ==
    ASSUME TypeInv, NEW r \in Requests, pc[r] \in {"revoking", "clearing"}, Continue(r)
    PROVE  /\ pc' = [pc EXCEPT ![r] = IF then[r] = "rejected" THEN "over" ELSE then[r]]
           /\ verdict' = [verdict EXCEPT ![r] = IF then[r] = "rejected" THEN "inatividade" ELSE verdict[r]]
           /\ then[r] \in {"rejected", "over", "reading", "activating"}
           /\ kind[r] # "none"
<1>1. then[r] \in {"rejected", "over", "reading", "activating"} /\ kind[r] # "none"
  BY DEF TypeInv, Staged
<1>2. CASE then[r] = "rejected"
  BY <1>1, <1>2 DEF Continue, Goto, Decide
<1>3. CASE then[r] # "rejected"
  <2>1. pc' = [pc EXCEPT ![r] = then[r]] /\ verdict' = verdict
    BY <1>3 DEF Continue, Goto
  <2>2. verdict = [verdict EXCEPT ![r] = verdict[r]]
    BY DEF TypeInv, TypeOK
  <2>3. QED
    BY <1>1, <1>3, <2>1, <2>2
<1>4. QED
  BY <1>2, <1>3

LEMMA TypeNext == TypeInv /\ [Next]_vars => TypeInv'
<1> SUFFICES ASSUME TypeInv, [Next]_vars PROVE TypeInv' OBVIOUS
<1> USE DEF TypeInv, TypeOK, Staged, Motivo, Kind, Pc, Then, Works, Breaks
<1>1. ASSUME NEW r \in Requests, Login(r) PROVE TypeInv'
  BY <1>1 DEF Login, Arrive, Goto, Decide, redisVars, historyVars
<1>2. ASSUME NEW r \in Requests, NEW t \in Requests, NEW k \in {"page", "refresh", "logout"}, Request(r, k, t)
      PROVE TypeInv'
  BY <1>2 DEF Request, Arrive, Goto, redisVars, historyVars
<1>3. ASSUME NEW r \in Requests, CheckRevocation(r) PROVE TypeInv'
  BY <1>3 DEF CheckRevocation, Refuse, Goto, Decide, redisVars, historyVars
<1>4. ASSUME NEW r \in Requests, RevocationUnknown(r) PROVE TypeInv'
  BY <1>4 DEF RevocationUnknown, Refuse, Goto, Decide, redisVars, historyVars
<1>5. ASSUME NEW r \in Requests, CheckInactivity(r) PROVE TypeInv'
  BY <1>5 DEF CheckInactivity, StartRevoke, Goto, redisVars, historyVars
<1>6. ASSUME NEW r \in Requests, InactivityUnknown(r) PROVE TypeInv'
  BY <1>6 DEF InactivityUnknown, Goto, redisVars, historyVars
<1>7. ASSUME NEW r \in Requests, Touch(r) PROVE TypeInv'
  BY <1>7 DEF Touch, StartRevoke, Goto, Decide, historyVars
<1>8. ASSUME NEW r \in Requests, Revoke(r) PROVE TypeInv'
  BY <1>8, ContinueType DEF Revoke, Goto, Motive, historyVars
<1>9. ASSUME NEW r \in Requests, Clear(r) PROVE TypeInv'
  BY <1>9, ContinueType DEF Clear, historyVars
<1>10. ASSUME NEW r \in Requests, RevokeFails(r) PROVE TypeInv'
  BY <1>10, ContinueType DEF RevokeFails, redisVars, historyVars
<1>11. ASSUME NEW r \in Requests, Read(r) PROVE TypeInv'
  BY <1>11 DEF Read, StartRevoke, Goto, redisVars, historyVars
<1>12. ASSUME NEW r \in Requests, Activate(r) PROVE TypeInv'
  BY <1>12 DEF Activate, Goto, historyVars
<1>13. ASSUME NEW r \in Requests, Open(r) PROVE TypeInv'
  BY <1>13 DEF Open, Goto, historyVars
<1>14. ASSUME NEW r \in Requests, RegisterFails(r) PROVE TypeInv'
  BY <1>14 DEF RegisterFails, Goto, redisVars, historyVars
<1>15. ASSUME NEW t \in Requests, Lapse(t) PROVE TypeInv'
  BY <1>15 DEF Lapse, handlerVars
<1>16. ASSUME NEW t \in Requests, Expire(t) PROVE TypeInv'
  BY <1>16 DEF Expire, handlerVars, historyVars
<1>17. CASE UNCHANGED vars
  BY <1>17 DEF vars, handlerVars, redisVars, historyVars
<1>18. QED
  BY <1>1, <1>2, <1>3, <1>4, <1>5, <1>6, <1>7, <1>8, <1>9, <1>10, <1>11, <1>12, <1>13, <1>14, <1>15, <1>16, <1>17
  DEF Next, Guard, Register

\* Nothing takes a token off the list, and a doomed request is stopped by the
\* first check.
LEMMA DoomedInit == Init => DoomedAreStopped
  BY DEF Init, DoomedAreStopped

\* What every step but the arrival of a doomed request leaves to show.
LEMMA DoomedKept ==
    ASSUME TypeInv, DoomedAreStopped,
           doomed' = doomed,
           presents' = presents,
           \A t \in Requests : revoked[t] # "none" => revoked'[t] # "none",
           \A q \in doomed : pc'[q] \in {"revocation", "over"} /\ verdict'[q] # "accepted"
    PROVE  DoomedAreStopped'
  BY DEF DoomedAreStopped, TypeInv, TypeOK

LEMMA DoomedNext == TypeInv /\ DoomedAreStopped /\ [Next]_vars => DoomedAreStopped'
<1> SUFFICES ASSUME TypeInv, DoomedAreStopped, [Next]_vars PROVE DoomedAreStopped' OBVIOUS
<1> USE DEF TypeInv, TypeOK
<1>0. \A q \in doomed : q \in Requests /\ kind[q] # "none" /\ pc[q] \in {"revocation", "over"} /\ verdict[q] # "accepted"
  BY DEF DoomedAreStopped, Staged
<1>1. ASSUME NEW r \in Requests, Login(r) PROVE DoomedAreStopped'
  BY <1>0, <1>1 DEF DoomedAreStopped, Login, Arrive, Goto, Decide, redisVars
<1>2. ASSUME NEW r \in Requests, NEW t \in Requests, NEW k \in {"page", "refresh", "logout"}, Request(r, k, t)
      PROVE DoomedAreStopped'
  <2>1. /\ presents' = [presents EXCEPT ![r] = t]
        /\ pc' = [pc EXCEPT ![r] = "revocation"]
        /\ kind[r] = "none"
        /\ UNCHANGED <<verdict, revoked>>
        /\ doomed' = IF revoked[t] = "none" THEN doomed ELSE doomed \cup {r}
    BY <1>2 DEF Request, Arrive, Goto, redisVars
  <2>2. verdict[r] # "accepted"
    BY <2>1 DEF Staged
  <2>3. QED
    BY <1>0, <2>1, <2>2 DEF DoomedAreStopped
<1>3. ASSUME NEW r \in Requests, CheckRevocation(r) PROVE DoomedAreStopped'
  <2>1. CASE revoked[presents[r]] = "none"
    BY <1>0, <1>3, <2>1 DEF DoomedAreStopped, CheckRevocation, Goto, redisVars, historyVars
  <2>2. CASE revoked[presents[r]] # "none"
    <3>1. presents[r] \in Requests
      BY <1>3 DEF CheckRevocation, Staged
    <3>2. revoked[presents[r]] # "accepted"
      BY <3>1 DEF Motivo
    <3>3. QED
      BY <1>0, <1>3, <2>2, <3>2, DoomedKept DEF CheckRevocation, Refuse, Goto, Decide, redisVars, historyVars
  <2>3. QED
    BY <2>1, <2>2
<1>4. ASSUME NEW r \in Requests, RevocationUnknown(r) PROVE DoomedAreStopped'
  BY <1>0, <1>4, DoomedKept DEF RevocationUnknown, Refuse, Goto, Decide, redisVars, historyVars
<1>5. ASSUME NEW r \in Requests, CheckInactivity(r) PROVE DoomedAreStopped'
  BY <1>0, <1>5, DoomedKept DEF CheckInactivity, StartRevoke, Goto, redisVars, historyVars
<1>6. ASSUME NEW r \in Requests, InactivityUnknown(r) PROVE DoomedAreStopped'
  BY <1>0, <1>6, DoomedKept DEF InactivityUnknown, Goto, redisVars, historyVars
<1>7. ASSUME NEW r \in Requests, Touch(r) PROVE DoomedAreStopped'
  BY <1>0, <1>7, DoomedKept DEF Touch, StartRevoke, Goto, Decide, historyVars
<1>8. ASSUME NEW r \in Requests, Revoke(r) PROVE DoomedAreStopped'
  BY <1>0, <1>8, DoomedKept, ContinueType DEF Revoke, Goto, Motive, historyVars
<1>9. ASSUME NEW r \in Requests, Clear(r) PROVE DoomedAreStopped'
  BY <1>0, <1>9, DoomedKept, ContinueType DEF Clear, historyVars
<1>10. ASSUME NEW r \in Requests, RevokeFails(r) PROVE DoomedAreStopped'
  BY <1>0, <1>10, DoomedKept, ContinueType DEF RevokeFails, redisVars, historyVars
<1>11. ASSUME NEW r \in Requests, Read(r) PROVE DoomedAreStopped'
  BY <1>0, <1>11, DoomedKept DEF Read, StartRevoke, Goto, redisVars, historyVars
<1>12. ASSUME NEW r \in Requests, Activate(r) PROVE DoomedAreStopped'
  BY <1>0, <1>12, DoomedKept DEF Activate, Goto, historyVars
<1>13. ASSUME NEW r \in Requests, Open(r) PROVE DoomedAreStopped'
  BY <1>0, <1>13, DoomedKept DEF Open, Goto, historyVars
<1>14. ASSUME NEW r \in Requests, RegisterFails(r) PROVE DoomedAreStopped'
  BY <1>0, <1>14, DoomedKept DEF RegisterFails, Goto, redisVars, historyVars
<1>15. ASSUME NEW t \in Requests, Lapse(t) PROVE DoomedAreStopped'
  BY <1>0, <1>15, DoomedKept DEF Lapse, handlerVars
<1>16. ASSUME NEW t \in Requests, Expire(t) PROVE DoomedAreStopped'
  BY <1>0, <1>16, DoomedKept DEF Expire, handlerVars, historyVars
<1>17. CASE UNCHANGED vars
  BY <1>0, <1>17, DoomedKept DEF vars, handlerVars, redisVars, historyVars
<1>18. QED
  BY <1>1, <1>2, <1>3, <1>4, <1>5, <1>6, <1>7, <1>8, <1>9, <1>10, <1>11, <1>12, <1>13, <1>14, <1>15, <1>16, <1>17
  DEF Next, Guard, Register

\* While registrations come one after the other and Redis answers, the good token is
\* the active one, and from the moment a registration has revoked it until that
\* registration is over there is none.
LEMMA SerialInit == Init => Serial
  BY DEF Init, Serial, Issuing, Valid, Issued, Replacing, Replaced

\* A step that issues no token, starts no registration and brings none further.
LEMMA SerialKept ==
    ASSUME TypeInv, Serial,
           UNCHANGED <<kind, anterior, active, expired, overlapped, faults>>,
           \A t \in Requests : revoked[t] # "none" => revoked'[t] # "none",
           \A q \in Requests : pc[q] = "over" => pc'[q] = "over",
           \A q \in Requests : Issued(q)' => Issued(q),
           \A q \in Requests : Replacing(q)' => Replacing(q),
           \A q \in Requests : Replaced(q)' => Replaced(q),
           \A q \in Requests : pc'[q] = "opening" => pc[q] = "opening"
    PROVE  Serial'
<1> SUFFICES ASSUME ~overlapped', faults' = 0
             PROVE  /\ \A q, r \in Issuing' : q = r
                    /\ \A t \in Requests : Valid(t)' => t = active'
                    /\ \A r, t \in Requests : Replacing(r)' /\ Valid(t)' => t = anterior'[r]
                    /\ \A r, t \in Requests : Replaced(r)' => ~Valid(t)'
                    /\ \A r \in Requests : pc'[r] = "opening" => active' = r
  BY DEF Serial
<1>1. /\ \A q, r \in Issuing : q = r
      /\ \A t \in Requests : Valid(t) => t = active
      /\ \A r, t \in Requests : Replacing(r) /\ Valid(t) => t = anterior[r]
      /\ \A r, t \in Requests : Replaced(r) => ~Valid(t)
      /\ \A r \in Requests : pc[r] = "opening" => active = r
  BY DEF Serial
<1>2. Issuing' \subseteq Issuing
  BY DEF Issuing
<1>3. \A t \in Requests : Valid(t)' => Valid(t)
  BY DEF Valid
<1>4. QED
  BY <1>1, <1>2, <1>3

\* A request that arrives issues no token yet, and is alone if it will.
LEMMA ArrivalSerial ==
    ASSUME TypeInv, Serial, NEW r \in Requests, NEW k \in {"login", "page", "refresh", "logout"},
           NEW t \in Requests \cup {NoToken}, NEW where \in {"reading", "revocation"},
           Arrive(r, k, t, where), \A q \in Requests : q # r => verdict'[q] = verdict[q]
    PROVE  Serial'
<1> USE DEF TypeInv, TypeOK
<1>1. /\ kind[r] = "none"
      /\ kind' = [kind EXCEPT ![r] = k]
      /\ pc' = [pc EXCEPT ![r] = where]
      /\ overlapped' = (overlapped \/ (k \in {"login", "refresh"} /\ Issuing # {}))
      /\ UNCHANGED <<then, anterior, active, revoked, expired, faults>>
  BY DEF Arrive, Goto, redisVars
<1> SUFFICES ASSUME ~overlapped', faults' = 0
             PROVE  /\ \A q, s \in Issuing' : q = s
                    /\ \A u \in Requests : Valid(u)' => u = active'
                    /\ \A q, u \in Requests : Replacing(q)' /\ Valid(u)' => u = anterior'[q]
                    /\ \A q, u \in Requests : Replaced(q)' => ~Valid(u)'
                    /\ \A q \in Requests : pc'[q] = "opening" => active' = q
  BY DEF Serial
<1>2. /\ \A q, s \in Issuing : q = s
      /\ \A u \in Requests : Valid(u) => u = active
      /\ \A q, u \in Requests : Replacing(q) /\ Valid(u) => u = anterior[q]
      /\ \A q, u \in Requests : Replaced(q) => ~Valid(u)
      /\ \A q \in Requests : pc[q] = "opening" => active = q
  BY <1>1 DEF Serial
<1>3. \A q, s \in Issuing' : q = s
  <2>1. CASE k \in {"login", "refresh"}
    <3>1. Issuing = {}
      BY <1>1, <2>1
    <3>2. \A q \in Issuing' : q = r
      BY <1>1, <3>1 DEF Issuing
    <3>3. QED
      BY <3>2
  <2>2. CASE k \notin {"login", "refresh"}
    <3>1. Issuing' \subseteq Issuing
      BY <1>1, <2>2 DEF Issuing
    <3>2. QED
      BY <1>2, <3>1
  <2>3. QED
    BY <2>1, <2>2
<1>4. \A u \in Requests : Valid(u)' => Valid(u)
  BY <1>1 DEF Valid, Issued
<1>5. \A q \in Requests : /\ Replacing(q)' => Replacing(q)
                          /\ Replaced(q)' => Replaced(q)
                          /\ pc'[q] = "opening" => pc[q] = "opening"
  BY <1>1 DEF Replacing, Replaced
<1>6. QED
  BY <1>1, <1>2, <1>3, <1>4, <1>5

\* No other request is at a registration while one is.
LEMMA Alone ==
    ASSUME TypeInv, Serial, ~overlapped, faults = 0, NEW r \in Issuing
    PROVE  /\ \A q \in Requests : Replacing(q) \/ Replaced(q) => q = r
           /\ \A q \in Requests : pc[q] = "opening" => q = r
<1>1. \A q \in Requests : Replacing(q) \/ Replaced(q) => q \in Issuing
  BY DEF TypeInv, Staged, Issuing, Replacing, Replaced
<1>2. \A q \in Requests : pc[q] = "opening" => Replaced(q)
  BY DEF Replaced
<1>3. \A q \in Issuing : q = r
  BY DEF Serial
<1>4. QED
  BY <1>1, <1>2, <1>3

LEMMA RevokeSerial ==
    ASSUME TypeInv, Serial, NEW r \in Requests, Revoke(r)
    PROVE  Serial'
<1> USE DEF TypeInv, TypeOK
<1>0. /\ pc[r] = "revoking"
      /\ UNCHANGED <<kind, anterior, then, active, expired, overlapped, faults>>
  BY DEF Revoke, Works, historyVars
<1>1. CASE Victim(r) \in expired /\ then[r] # "activating"
  <2>1. UNCHANGED revoked /\ Continue(r)
    BY <1>1 DEF Revoke
  <2>2. /\ pc' = [pc EXCEPT ![r] = IF then[r] = "rejected" THEN "over" ELSE then[r]]
        /\ verdict' = [verdict EXCEPT ![r] = IF then[r] = "rejected" THEN "inatividade" ELSE verdict[r]]
        /\ then[r] \in {"rejected", "reading"} \/ (then[r] = "over" /\ kind[r] = "logout")
    <3>1. then[r] \in {"rejected", "reading"} \/ (then[r] = "over" /\ kind[r] = "logout")
      BY <1>0, <1>1 DEF Staged
    <3>2. QED
      BY <1>0, <2>1, <3>1, ContinueType
  <2>3. \A q \in Requests : Issued(q)' => Issued(q)
    BY <1>0, <2>2 DEF Issued
  <2>4. \A q \in Requests : /\ Replacing(q)' => Replacing(q)
                            /\ Replaced(q)' => Replaced(q)
                            /\ pc'[q] = "opening" => pc[q] = "opening"
    BY <1>0, <2>2 DEF Replacing, Replaced
  <2>5. QED
    BY <1>0, <2>1, <2>2, <2>3, <2>4, SerialKept
<1>2. CASE ~(Victim(r) \in expired /\ then[r] # "activating")
  <2>1. /\ revoked' = [revoked EXCEPT ![Victim(r)] = Motive(r)]
        /\ pc' = [pc EXCEPT ![r] = "clearing"]
        /\ UNCHANGED verdict
    BY <1>2 DEF Revoke, Goto
  <2>2. \A t \in Requests : revoked[t] # "none" => revoked'[t] # "none"
    BY <2>1 DEF Motive
  <2>3. CASE then[r] # "activating"
    BY <1>0, <2>1, <2>2, <2>3, SerialKept DEF Issued, Replacing, Replaced
  <2>4. CASE then[r] = "activating"
    <3> SUFFICES ASSUME ~overlapped', faults' = 0
                 PROVE  /\ \A q, s \in Issuing' : q = s
                        /\ \A u \in Requests : Valid(u)' => u = active'
                        /\ \A q, u \in Requests : Replacing(q)' /\ Valid(u)' => u = anterior'[q]
                        /\ \A q, u \in Requests : Replaced(q)' => ~Valid(u)'
                        /\ \A q \in Requests : pc'[q] = "opening" => active' = q
      BY DEF Serial
    <3>1. r \in Issuing /\ Replacing(r)
      BY <1>0, <2>4 DEF Issuing, Replacing, Staged
    <3>2. /\ \A q, s \in Issuing : q = s
          /\ \A u \in Requests : Valid(u) => u = active
          /\ \A u \in Requests : Valid(u) => u = anterior[r]
      BY <1>0, <3>1 DEF Serial
    <3>3. \A u \in Requests : ~Valid(u)'
      <4>1. \A u \in Requests : Valid(u)' => Valid(u)
        BY <1>0, <2>1, <2>2 DEF Valid, Issued
      <4>2. anterior[r] \in Requests => revoked'[anterior[r]] # "none"
        BY <2>1, <2>4 DEF Victim, Motive
      <4>3. QED
        BY <3>2, <4>1, <4>2 DEF Valid
    <3>4. Issuing' \subseteq Issuing
      BY <1>0, <2>1 DEF Issuing
    <3>5. \A q \in Requests : pc'[q] # "opening"
      BY <1>0, <2>1, <3>1, Alone
    <3>6. QED
      BY <3>2, <3>3, <3>4, <3>5
  <2>5. QED
    BY <2>3, <2>4
<1>3. QED
  BY <1>1, <1>2

LEMMA ActivateSerial ==
    ASSUME TypeInv, Serial, NEW r \in Requests, Activate(r)
    PROVE  Serial'
<1> USE DEF TypeInv, TypeOK
<1>1. /\ pc[r] = "activating"
      /\ pc' = [pc EXCEPT ![r] = "opening"]
      /\ active' = r
      /\ UNCHANGED <<kind, verdict, then, anterior, revoked, expired, overlapped, faults>>
  BY DEF Activate, Works, Goto, historyVars
<1> SUFFICES ASSUME ~overlapped', faults' = 0
             PROVE  /\ \A q, s \in Issuing' : q = s
                    /\ \A u \in Requests : ~Valid(u)'
                    /\ \A q \in Requests : pc'[q] = "opening" => q = r
  BY <1>1 DEF Serial
<1>2. r \in Issuing /\ Replaced(r)
  BY <1>1 DEF Staged, Issuing, Replaced
<1>3. Issuing' \subseteq Issuing
  BY <1>1 DEF Issuing
<1>4. \A u \in Requests : ~Valid(u)'
  BY <1>1, <1>2 DEF Serial, Valid, Issued
<1>5. \A q \in Requests : pc'[q] = "opening" => q = r
  BY <1>1, <1>2, Alone
<1>6. QED
  BY <1>1, <1>3, <1>4, <1>5 DEF Serial

\* A registration ends with the one good token.
LEMMA OpenSerial ==
    ASSUME TypeInv, Serial, NEW r \in Requests, Open(r)
    PROVE  Serial'
<1> USE DEF TypeInv, TypeOK
<1>1. /\ pc[r] = "opening"
      /\ pc' = [pc EXCEPT ![r] = "over"]
      /\ UNCHANGED <<kind, verdict, then, anterior, active, revoked, expired, overlapped, faults>>
  BY DEF Open, Works, Goto, historyVars
<1> SUFFICES ASSUME ~overlapped', faults' = 0
             PROVE  /\ \A q, s \in Issuing' : q = s
                    /\ \A u \in Requests : Valid(u)' => u = active'
                    /\ \A q \in Requests : ~Replacing(q)' /\ ~Replaced(q)' /\ pc'[q] # "opening"
  BY <1>1 DEF Serial
<1>2. r \in Issuing /\ Replaced(r) /\ active = r
  BY <1>1 DEF Staged, Issuing, Replaced, Serial
<1>3. Issuing' \subseteq Issuing
  BY <1>1 DEF Issuing
<1>4. \A u \in Requests : Valid(u)' => u = r
  BY <1>1, <1>2 DEF Serial, Valid, Issued
<1>5. \A q \in Requests : ~Replacing(q)' /\ ~Replaced(q)' /\ pc'[q] # "opening"
  <2>1. \A q \in Requests : q # r => ~Replacing(q) /\ ~Replaced(q) /\ pc[q] # "opening"
    BY <1>1, <1>2, Alone
  <2>2. QED
    BY <1>1, <2>1 DEF Replacing, Replaced
<1>6. QED
  BY <1>1, <1>2, <1>3, <1>4, <1>5 DEF Serial

LEMMA ReadSerial ==
    ASSUME TypeInv, Serial, NEW r \in Requests, Read(r)
    PROVE  Serial'
<1> USE DEF TypeInv, TypeOK
<1>1. /\ pc[r] = "reading"
      /\ anterior' = [anterior EXCEPT ![r] = active]
      /\ UNCHANGED <<kind, verdict, active, revoked, expired, overlapped, faults>>
      /\ IF active = NoToken
         THEN pc' = [pc EXCEPT ![r] = "activating"] /\ then' = then
         ELSE pc' = [pc EXCEPT ![r] = "revoking"] /\ then' = [then EXCEPT ![r] = "activating"]
  BY DEF Read, StartRevoke, Works, Goto, redisVars, historyVars
<1> SUFFICES ASSUME ~overlapped', faults' = 0
             PROVE  /\ \A q, s \in Issuing' : q = s
                    /\ \A u \in Requests : Valid(u)' => u = active'
                    /\ \A q, u \in Requests : Replacing(q)' /\ Valid(u)' => u = anterior'[q]
                    /\ \A q, u \in Requests : Replaced(q)' => ~Valid(u)'
                    /\ \A q \in Requests : pc'[q] = "opening" => active' = q
  BY DEF Serial
<1>2. r \in Issuing
  BY <1>1 DEF Staged, Issuing
<1>3. Issuing' \subseteq Issuing
  BY <1>1 DEF Issuing
<1>4. \A u \in Requests : Valid(u)' => u = active
  BY <1>1 DEF Serial, Valid, Issued
<1>5. \A q \in Requests : q # r => ~Replacing(q)' /\ ~Replaced(q)' /\ pc'[q] # "opening"
  <2>1. \A q \in Requests : q # r => ~Replacing(q) /\ ~Replaced(q) /\ pc[q] # "opening"
    BY <1>1, <1>2, Alone
  <2>2. QED
    BY <1>1, <2>1 DEF Replacing, Replaced
<1>6. \A q, s \in Issuing' : q = s
  BY <1>1, <1>3 DEF Serial
<1>7. CASE active = NoToken
  <2>1. \A u \in Requests : ~Valid(u)'
    BY <1>4, <1>7
  <2>2. pc'[r] # "opening"
    BY <1>1, <1>7
  <2>3. QED
    BY <1>5, <1>6, <2>1, <2>2
<1>8. CASE active # NoToken
  <2>1. pc'[r] = "revoking" /\ anterior'[r] = active /\ then'[r] = "activating"
    BY <1>1, <1>8
  <2>2. ~Replaced(r)'
    BY <2>1 DEF Replaced
  <2>3. QED
    BY <1>1, <1>4, <1>5, <1>6, <2>1, <2>2
<1>9. QED
  BY <1>7, <1>8

\* The active session's key goes with its token, which is then no longer good.
LEMMA ExpireSerial ==
    ASSUME TypeInv, Serial, NEW t \in Requests, Expire(t)
    PROVE  Serial'
<1> USE DEF TypeInv, TypeOK
<1>1. /\ expired' = expired \cup {t}
      /\ active' = IF active = t THEN NoToken ELSE active
      /\ pc[t] = "over"
      /\ UNCHANGED <<kind, pc, verdict, then, anterior, revoked, overlapped, faults>>
  BY DEF Expire, Issued, handlerVars, historyVars
<1>2. \A u \in Requests : Valid(u)' => Valid(u) /\ u # t
  BY <1>1 DEF Valid, Issued
<1>3. Issuing' = Issuing
  BY <1>1 DEF Issuing
<1>4. \A q \in Requests : (Replacing(q)' <=> Replacing(q)) /\ (Replaced(q)' <=> Replaced(q))
  BY <1>1 DEF Replacing, Replaced
<1>5. QED
  BY <1>1, <1>2, <1>3, <1>4 DEF Serial

\* After a failing call nothing is promised.
LEMMA BreaksSerial == TypeInv /\ Breaks => Serial'
  BY DEF TypeInv, TypeOK, Breaks, Serial

LEMMA SerialNext == TypeInv /\ Serial /\ [Next]_vars => Serial'
<1> SUFFICES ASSUME TypeInv, Serial, [Next]_vars PROVE Serial' OBVIOUS
<1> USE DEF TypeInv, TypeOK
<1>1. ASSUME NEW r \in Requests, Login(r) PROVE Serial'
  <2>1. Arrive(r, "login", NoToken, "reading") /\ \A q \in Requests : q # r => verdict'[q] = verdict[q]
    BY <1>1 DEF Login, Decide
  <2>2. QED
    BY <2>1, ArrivalSerial
<1>2. ASSUME NEW r \in Requests, NEW t \in Requests, NEW k \in {"page", "refresh", "logout"}, Request(r, k, t)
      PROVE Serial'
  BY <1>2, ArrivalSerial DEF Request
<1>3. ASSUME NEW r \in Requests, CheckRevocation(r) PROVE Serial'
  <2>1. /\ pc[r] = "revocation"
        /\ UNCHANGED <<kind, then, anterior, active, revoked, expired, overlapped, faults>>
    BY <1>3 DEF CheckRevocation, Works, redisVars, historyVars
  <2>2. CASE revoked[presents[r]] = "none"
    <3>1. pc' = [pc EXCEPT ![r] = "inactivity"] /\ UNCHANGED verdict
      BY <1>3, <2>2 DEF CheckRevocation, Goto
    <3>2. QED
      BY <2>1, <3>1, SerialKept DEF Issued, Replacing, Replaced
  <2>3. CASE revoked[presents[r]] # "none"
    <3>1. /\ pc' = [pc EXCEPT ![r] = "over"]
          /\ verdict' = [verdict EXCEPT ![r] = revoked[presents[r]]]
      BY <1>3, <2>3 DEF CheckRevocation, Refuse, Goto, Decide
    <3>2. revoked[presents[r]] # "accepted"
      BY <2>1 DEF Staged, Motivo
    <3>3. QED
      BY <2>1, <3>1, <3>2, SerialKept DEF Issued, Replacing, Replaced
  <2>4. QED
    BY <2>2, <2>3
<1>4. ASSUME NEW r \in Requests, CheckInactivity(r) PROVE Serial'
  <2>1. /\ pc[r] = "inactivity"
        /\ UNCHANGED <<kind, verdict, anterior, active, revoked, expired, overlapped, faults>>
        /\ \/ pc' = [pc EXCEPT ![r] = "touching"] /\ UNCHANGED then
           \/ pc' = [pc EXCEPT ![r] = "revoking"] /\ then' = [then EXCEPT ![r] = "rejected"]
    BY <1>4 DEF CheckInactivity, StartRevoke, Goto, Works, redisVars, historyVars
  <2>2. QED
    BY <2>1, SerialKept DEF Issued, Replacing, Replaced
<1>5. ASSUME NEW r \in Requests, Touch(r), Works PROVE Serial'
  <2>1. /\ pc[r] = "touching"
        /\ verdict' = [verdict EXCEPT ![r] = "accepted"]
        /\ UNCHANGED <<kind, anterior, active, revoked, expired, overlapped, faults>>
    BY <1>5 DEF Touch, Decide, Works, historyVars
  <2>2. CASE kind[r] \in {"logout", "refresh"}
    <3>1. /\ pc' = [pc EXCEPT ![r] = "revoking"]
          /\ \/ then' = [then EXCEPT ![r] = "over"]
             \/ then' = [then EXCEPT ![r] = "reading"]
      BY <1>5, <2>2 DEF Touch, StartRevoke, Goto
    <3>2. QED
      BY <2>1, <3>1, SerialKept DEF Issued, Replacing, Replaced
  <2>3. CASE kind[r] \notin {"logout", "refresh"}
    <3>1. pc' = [pc EXCEPT ![r] = "over"] /\ UNCHANGED then
      BY <1>5, <2>3 DEF Touch, Goto
    <3>2. kind[r] \notin {"login", "refresh"}
      BY <2>1, <2>3 DEF Staged
    <3>3. QED
      BY <2>1, <3>1, <3>2, SerialKept DEF Issued, Replacing, Replaced
  <2>4. QED
    BY <2>2, <2>3
<1>6. ASSUME NEW r \in Requests, Clear(r) PROVE Serial'
  <2>1. /\ pc[r] = "clearing"
        /\ UNCHANGED <<kind, then, anterior, active, revoked, expired, overlapped, faults>>
        /\ pc' = [pc EXCEPT ![r] = IF then[r] = "rejected" THEN "over" ELSE then[r]]
        /\ verdict' = [verdict EXCEPT ![r] = IF then[r] = "rejected" THEN "inatividade" ELSE verdict[r]]
    BY <1>6, ContinueType DEF Clear, Works, historyVars
  <2>2. \A q \in Requests : Issued(q)' => Issued(q)
    <3>1. ~Issued(r)'
      BY <2>1 DEF Issued, Staged
    <3>2. \A q \in Requests : q # r => pc'[q] = pc[q] /\ verdict'[q] = verdict[q]
      BY <2>1
    <3>3. QED
      BY <2>1, <3>1, <3>2 DEF Issued
  <2>3. /\ pc'[r] \in {"over", "reading", "activating"}
        /\ pc'[r] = "activating" => Replaced(r)
    BY <2>1 DEF Staged, Replaced
  <2>4. \A q \in Requests : /\ Replacing(q)' => Replacing(q)
                            /\ Replaced(q)' => Replaced(q)
                            /\ pc'[q] = "opening" => pc[q] = "opening"
    BY <2>1, <2>3 DEF Replacing, Replaced
  <2>5. QED
    BY <2>1, <2>2, <2>4, SerialKept
<1>7. ASSUME NEW t \in Requests, Lapse(t) PROVE Serial'
  BY <1>7, SerialKept DEF Lapse, handlerVars, Issued, Replacing, Replaced
<1>8. CASE UNCHANGED vars
  BY <1>8, SerialKept DEF vars, handlerVars, redisVars, historyVars, Issued, Replacing, Replaced
<1>9. ASSUME NEW r \in Requests,
             RevocationUnknown(r) \/ InactivityUnknown(r) \/ RevokeFails(r) \/ RegisterFails(r)
      PROVE  Serial'
  BY <1>9, BreaksSerial DEF RevocationUnknown, InactivityUnknown, RevokeFails, RegisterFails
<1>10. ASSUME NEW r \in Requests, Touch(r) PROVE Serial'
  BY <1>5, <1>10, BreaksSerial DEF Touch
<1>11. QED
  BY <1>1, <1>2, <1>3, <1>4, <1>6, <1>7, <1>8, <1>9, <1>10,
     RevokeSerial, ReadSerial, ActivateSerial, OpenSerial, ExpireSerial
  DEF Next, Guard, Register

\* A request is judged once and reads an older session once, when it registers.
LEMMA JudgedInit == Init => Judged
  BY DEF Init, Judged

LEMMA JudgedNext == TypeInv /\ Judged /\ [Next]_vars => Judged'
<1> SUFFICES ASSUME TypeInv, Judged, [Next]_vars PROVE Judged' OBVIOUS
<1> USE DEF TypeInv, TypeOK, Staged, Judged, Issued
<1>1. ASSUME NEW r \in Requests, Login(r) PROVE Judged'
  BY <1>1 DEF Login, Arrive, Goto, Decide, redisVars, historyVars
<1>2. ASSUME NEW r \in Requests, NEW t \in Requests, NEW k \in {"page", "refresh", "logout"}, Request(r, k, t) PROVE Judged'
  BY <1>2 DEF Request, Arrive, Goto, redisVars, historyVars
<1>3. ASSUME NEW r \in Requests, CheckRevocation(r) PROVE Judged'
  BY <1>3 DEF CheckRevocation, Refuse, Goto, Decide, redisVars, historyVars
<1>4. ASSUME NEW r \in Requests, RevocationUnknown(r) PROVE Judged'
  BY <1>4 DEF RevocationUnknown, Refuse, Goto, Decide, redisVars, historyVars
<1>5. ASSUME NEW r \in Requests, CheckInactivity(r) PROVE Judged'
  BY <1>5 DEF CheckInactivity, StartRevoke, Goto, redisVars, historyVars
<1>6. ASSUME NEW r \in Requests, InactivityUnknown(r) PROVE Judged'
  BY <1>6 DEF InactivityUnknown, Goto, redisVars, historyVars
<1>7. ASSUME NEW r \in Requests, Touch(r) PROVE Judged'
  BY <1>7 DEF Touch, StartRevoke, Goto, Decide, historyVars
<1>8. ASSUME NEW r \in Requests, Revoke(r) PROVE Judged'
  BY <1>8, ContinueType DEF Revoke, Goto, Motive, historyVars
<1>9. ASSUME NEW r \in Requests, Clear(r) PROVE Judged'
  BY <1>9, ContinueType DEF Clear, historyVars
<1>10. ASSUME NEW r \in Requests, RevokeFails(r) PROVE Judged'
  BY <1>10, ContinueType DEF RevokeFails, redisVars, historyVars
<1>11. ASSUME NEW r \in Requests, Read(r) PROVE Judged'
  BY <1>11 DEF Read, StartRevoke, Goto, redisVars, historyVars
<1>12. ASSUME NEW r \in Requests, Activate(r) PROVE Judged'
  BY <1>12 DEF Activate, Goto, historyVars
<1>13. ASSUME NEW r \in Requests, Open(r) PROVE Judged'
  BY <1>13 DEF Open, Goto, historyVars
<1>14. ASSUME NEW r \in Requests, RegisterFails(r) PROVE Judged'
  BY <1>14 DEF RegisterFails, Goto, redisVars, historyVars
<1>15. ASSUME NEW t \in Requests, Lapse(t) PROVE Judged'
  BY <1>15 DEF Lapse, handlerVars
<1>16. ASSUME NEW t \in Requests, Expire(t) PROVE Judged'
  BY <1>16 DEF Expire, handlerVars, historyVars
<1>17. CASE UNCHANGED vars
  BY <1>17 DEF vars, handlerVars, redisVars, historyVars
<1>18. QED
  BY <1>1, <1>2, <1>3, <1>4, <1>5, <1>6, <1>7, <1>8, <1>9, <1>10, <1>11, <1>12, <1>13, <1>14, <1>15, <1>16, <1>17
  DEF Next, Guard, Register

\* Nothing takes back a reason once given, and a token leaves session:seen with one.
LEMMA SeenInit == Init => Seen
  BY DEF Init, Seen, Issued

\* The reasons for a token's end are never taken back.
LEMMA ReasonStays ==
    ASSUME TypeInv,
           lapsed \subseteq lapsed',
           \A q \in Requests : anterior[q] # NoToken => anterior'[q] = anterior[q],
           \A q \in Requests : kind[q] \in {"logout", "refresh"} /\ verdict[q] = "accepted" =>
               kind'[q] = kind[q] /\ verdict'[q] = verdict[q] /\ presents'[q] = presents[q],
           NEW t \in Requests, Reason(t)
    PROVE  Reason(t)'
  BY DEF Reason, RevokedBy

\* A step that takes back no reason and needs none for what it leaves as it was.
LEMMA SeenKept ==
    ASSUME TypeInv, Judged, Seen, faults = 0,
           lapsed \subseteq lapsed',
           \A q \in Requests : anterior[q] # NoToken => anterior'[q] = anterior[q],
           \A q \in Requests : kind[q] # "none" => kind'[q] = kind[q] /\ presents'[q] = presents[q],
           \A q \in Requests : kind[q] \in {"logout", "refresh"} /\ verdict[q] = "accepted" =>
               verdict'[q] = verdict[q],
           \A t \in Requests : Issued(t)' => Issued(t) \/ t \in seen',
           \A t \in seen : t \in seen' \/ Reason(t)',
           \A t \in Requests : revoked'[t] = "inatividade" => revoked[t] = "inatividade" \/ Reason(t)',
           \A q \in Requests : verdict'[q] = "inatividade" =>
               verdict[q] = "inatividade" \/ (kind[q] # "none" /\ Reason(presents[q])'),
           \A q \in Requests : pc'[q] \in {"revoking", "clearing"} /\ then'[q] = "rejected" =>
               \/ pc[q] \in {"revoking", "clearing"} /\ then[q] = "rejected"
               \/ kind[q] # "none" /\ Reason(presents[q])'
    PROVE  Seen'
<1> USE DEF TypeInv, TypeOK
<1>1. \A t \in Requests : Reason(t) => Reason(t)'
  <2>1. ASSUME NEW q \in Requests, kind[q] \in {"logout", "refresh"}, verdict[q] = "accepted"
        PROVE  kind'[q] = kind[q] /\ verdict'[q] = verdict[q] /\ presents'[q] = presents[q]
    BY <2>1
  <2>2. QED
    BY <2>1, ReasonStays
<1>2. \A t \in Requests : Issued(t)' => t \in seen' \/ Reason(t)'
  BY <1>1 DEF Seen
<1>3. \A t \in Requests : revoked'[t] = "inatividade" => Reason(t)'
  BY <1>1 DEF Seen
<1>4. \A q \in Requests : verdict[q] = "inatividade" => kind[q] # "none" /\ Reason(presents[q])'
  BY <1>1 DEF Seen, Judged, Staged
<1>5. \A q \in Requests : pc[q] \in {"revoking", "clearing"} /\ then[q] = "rejected" =>
         kind[q] # "none" /\ Reason(presents[q])'
  BY <1>1 DEF Seen, Judged, Staged
<1>6. \A q \in Requests : verdict'[q] = "inatividade" => Reason(presents[q])'
  BY <1>4
<1>7. \A q \in Requests : pc'[q] \in {"revoking", "clearing"} /\ then'[q] = "rejected" =>
         Reason(presents[q])'
  BY <1>5
<1>8. QED
  BY <1>2, <1>3, <1>6, <1>7 DEF Seen

\* After a failing call nothing is promised.
LEMMA BreaksSeen == TypeInv /\ Breaks => Seen'
  BY DEF TypeInv, TypeOK, Breaks, Seen

LEMMA FaultsStay == TypeInv /\ [Next]_vars /\ faults # 0 => faults' # 0
  BY DEF TypeInv, TypeOK, Next, vars, Guard, Register, Works, Breaks, Login, Request, Arrive,
         CheckRevocation, RevocationUnknown, CheckInactivity, InactivityUnknown, Touch, Revoke,
         Clear, RevokeFails, Read, Activate, Open, RegisterFails, Lapse, Expire, historyVars

LEMMA SeenNext == TypeInv /\ Judged /\ Seen /\ [Next]_vars => Seen'
<1> SUFFICES ASSUME TypeInv, Judged, Seen, [Next]_vars, faults = 0 PROVE Seen'
  BY FaultsStay DEF Seen
<1> USE DEF TypeInv, TypeOK, Staged, Judged, Issued
<1>1. ASSUME NEW r \in Requests, Login(r) PROVE Seen'
  BY <1>1, SeenKept DEF Login, Arrive, Goto, Decide, redisVars, historyVars
<1>2. ASSUME NEW r \in Requests, NEW t \in Requests, NEW k \in {"page", "refresh", "logout"}, Request(r, k, t) PROVE Seen'
  BY <1>2, SeenKept DEF Request, Arrive, Goto, redisVars, historyVars
<1>3. ASSUME NEW r \in Requests, CheckRevocation(r) PROVE Seen'
  <2>1. /\ pc[r] = "revocation" /\ presents[r] \in Requests /\ kind[r] \notin {"none", "login"}
        /\ verdict[r] = "none"
        /\ UNCHANGED <<kind, presents, then, anterior, revoked, seen, lapsed, faults>>
        /\ \/ pc' = [pc EXCEPT ![r] = "inactivity"] /\ UNCHANGED verdict
           \/ pc' = [pc EXCEPT ![r] = "over"] /\ verdict' = [verdict EXCEPT ![r] = revoked[presents[r]]]
    BY <1>3 DEF CheckRevocation, Refuse, Goto, Decide, redisVars, historyVars, Works
  <2>2. revoked[presents[r]] # "accepted"
    BY <2>1 DEF Motivo
  <2>3. revoked[presents[r]] = "inatividade" => Reason(presents[r])'
    <3>1. revoked[presents[r]] = "inatividade" => Reason(presents[r])
      BY <2>1 DEF Seen
    <3>2. QED
      BY <2>1, <3>1, ReasonStays
  <2>4. \A t \in Requests : Issued(t)' => Issued(t)
    BY <2>1, <2>2
  <2>5. QED
    BY <2>1, <2>3, <2>4, SeenKept
<1>4. ASSUME NEW r \in Requests, CheckInactivity(r) PROVE Seen'
  <2>1. /\ pc[r] = "inactivity" /\ presents[r] \in Requests /\ kind[r] # "none"
        /\ Issued(presents[r])
        /\ UNCHANGED <<kind, presents, verdict, anterior, revoked, seen, lapsed, faults>>
        /\ \/ pc' = [pc EXCEPT ![r] = "touching"] /\ UNCHANGED then
           \/ /\ presents[r] \notin seen
              /\ pc' = [pc EXCEPT ![r] = "revoking"] /\ then' = [then EXCEPT ![r] = "rejected"]
    BY <1>4 DEF CheckInactivity, StartRevoke, Goto, redisVars, historyVars, Works
  <2>2. presents[r] \notin seen => Reason(presents[r])'
    <3>1. presents[r] \notin seen => Reason(presents[r])
      BY <2>1 DEF Seen
    <3>2. QED
      BY <2>1, <3>1, ReasonStays
  <2>3. QED
    BY <2>1, <2>2, SeenKept
<1>5. ASSUME NEW r \in Requests, Touch(r), Works PROVE Seen'
  BY <1>5, SeenKept DEF Touch, StartRevoke, Goto, Decide, historyVars, Works
<1>6. ASSUME NEW r \in Requests, Revoke(r) PROVE Seen'
  <2>1. /\ pc[r] = "revoking" /\ kind[r] # "none"
        /\ then[r] \in {"rejected", "over", "reading", "activating"}
        /\ UNCHANGED <<kind, presents, then, anterior, seen, lapsed, faults>>
    BY <1>6 DEF Revoke, historyVars, Works
  <2>2. \A t \in Requests : Reason(t) => Reason(t)'
    <3>1. \A q \in Requests : kind[q] \in {"logout", "refresh"} /\ verdict[q] = "accepted" =>
             verdict'[q] = verdict[q]
      BY <1>6, <2>1, ContinueType DEF Revoke
    <3>2. QED
      BY <2>1, <3>1, ReasonStays
  <2>3. then[r] = "rejected" => presents[r] \in Requests /\ Reason(presents[r])' /\ verdict[r] = "none"
    BY <2>1, <2>2 DEF Seen
  <2>4. CASE Victim(r) \in expired /\ then[r] # "activating"
    <3>1. /\ UNCHANGED revoked
          /\ pc' = [pc EXCEPT ![r] = IF then[r] = "rejected" THEN "over" ELSE then[r]]
          /\ verdict' = [verdict EXCEPT ![r] = IF then[r] = "rejected" THEN "inatividade" ELSE verdict[r]]
      BY <1>6, <2>1, <2>4, ContinueType DEF Revoke
    <3>2. \A t \in Requests : Issued(t)' => Issued(t)
      BY <2>1, <2>4, <3>1
    <3>3. QED
      BY <2>1, <2>3, <3>1, <3>2, SeenKept
  <2>5. CASE ~(Victim(r) \in expired /\ then[r] # "activating")
    <3>1. /\ revoked' = [revoked EXCEPT ![Victim(r)] = Motive(r)]
          /\ pc' = [pc EXCEPT ![r] = "clearing"]
          /\ UNCHANGED verdict
      BY <1>6, <2>5 DEF Revoke, Goto
    <3>2. Motive(r) = "inatividade" => then[r] = "rejected"
      BY <2>1 DEF Motive
    <3>3. \A t \in Requests : revoked'[t] = "inatividade" => revoked[t] = "inatividade" \/ Reason(t)'
      <4>1. ASSUME NEW t \in Requests, revoked'[t] = "inatividade", revoked[t] # "inatividade"
            PROVE  Reason(t)'
        <5>1. t = Victim(r) /\ Motive(r) = "inatividade"
          BY <3>1, <4>1
        <5>2. t = presents[r] /\ then[r] = "rejected"
          BY <3>2, <5>1 DEF Victim
        <5>3. QED
          BY <2>1, <2>2, <5>2 DEF Seen
      <4>2. QED
        BY <4>1
    <3>4. QED
      BY <2>1, <2>3, <3>1, <3>3, SeenKept
  <2>6. QED
    BY <2>4, <2>5
<1>7. ASSUME NEW r \in Requests, Clear(r) PROVE Seen'
  <2>1. /\ pc[r] = "clearing" /\ kind[r] # "none"
        /\ then[r] \in {"rejected", "over", "reading", "activating"}
        /\ UNCHANGED <<kind, presents, then, anterior, revoked, lapsed, faults>>
        /\ seen' = seen \ {Victim(r)}
        /\ pc' = [pc EXCEPT ![r] = IF then[r] = "rejected" THEN "over" ELSE then[r]]
        /\ verdict' = [verdict EXCEPT ![r] = IF then[r] = "rejected" THEN "inatividade" ELSE verdict[r]]
    BY <1>7, ContinueType DEF Clear, historyVars, Works
  <2>2. \A t \in Requests : Reason(t) => Reason(t)'
    <3>1. \A q \in Requests : kind[q] \in {"logout", "refresh"} /\ verdict[q] = "accepted" =>
             verdict'[q] = verdict[q]
      BY <2>1
    <3>2. QED
      BY <2>1, <3>1, ReasonStays
  <2>3. then[r] = "rejected" => presents[r] \in Requests /\ Reason(presents[r])' /\ verdict[r] = "none"
    BY <2>1, <2>2 DEF Seen
  <2>4. ASSUME NEW t \in Requests, t = Victim(r), then[r] # "rejected" PROVE RevokedBy(r, t)'
    <3>1. CASE then[r] = "activating"
      BY <2>1, <2>4, <3>1 DEF RevokedBy, Victim
    <3>2. CASE then[r] \in {"over", "reading"}
      BY <2>1, <2>4, <3>2 DEF RevokedBy, Victim
    <3>3. QED
      BY <2>1, <2>4, <3>1, <3>2
  <2>5. ASSUME NEW t \in Requests, t = Victim(r) PROVE Reason(t)'
    <3>1. CASE then[r] = "rejected"
      BY <2>1, <2>2, <2>5, <3>1 DEF Victim, Seen
    <3>2. CASE then[r] # "rejected"
      BY <2>4, <2>5, <3>2 DEF Reason
    <3>3. QED
      BY <3>1, <3>2
  <2>6. \A t \in Requests : Issued(t)' => Issued(t)
    BY <2>1
  <2>7. \A t \in seen : t \in seen' \/ Reason(t)'
    BY <2>1, <2>5
  <2>8. QED
    BY <2>1, <2>3, <2>6, <2>7, SeenKept
<1>8. ASSUME NEW r \in Requests, Read(r) PROVE Seen'
  BY <1>8, SeenKept DEF Read, StartRevoke, Goto, redisVars, historyVars, Works
<1>9. ASSUME NEW r \in Requests, Activate(r) PROVE Seen'
  BY <1>9, SeenKept DEF Activate, Goto, historyVars, Works
<1>10. ASSUME NEW r \in Requests, Open(r) PROVE Seen'
  BY <1>10, SeenKept DEF Open, Goto, historyVars, Works
<1>11. ASSUME NEW t \in Requests, Lapse(t) PROVE Seen'
  BY <1>11, SeenKept DEF Lapse, handlerVars, Reason
<1>12. ASSUME NEW t \in Requests, Expire(t) PROVE Seen'
  BY <1>12, SeenKept DEF Expire, handlerVars, historyVars
<1>13. CASE UNCHANGED vars
  BY <1>13 DEF vars, handlerVars, redisVars, historyVars, Seen, Reason, RevokedBy
<1>14. ASSUME NEW r \in Requests,
              RevocationUnknown(r) \/ InactivityUnknown(r) \/ RevokeFails(r) \/ RegisterFails(r)
       PROVE  Seen'
  BY <1>14, BreaksSeen DEF RevocationUnknown, InactivityUnknown, RevokeFails, RegisterFails
<1>15. ASSUME NEW r \in Requests, Touch(r) PROVE Seen'
  BY <1>5, <1>15, BreaksSeen DEF Touch
<1>16. QED
  BY <1>1, <1>2, <1>3, <1>4, <1>6, <1>7, <1>8, <1>9, <1>10, <1>11, <1>12, <1>13, <1>14, <1>15
  DEF Next, Guard, Register

\* A registration that is past the write of session:active stays so.
LEMMA KnownInit == Init => Known
  BY DEF Init, Known

LEMMA KnownNext == TypeInv /\ Judged /\ Known /\ [Next]_vars => Known'
<1> SUFFICES ASSUME TypeInv, Judged, Known, [Next]_vars PROVE Known' OBVIOUS
<1> USE DEF TypeInv, TypeOK, Staged, Judged, Known, Begun, Issued
<1>1. ASSUME NEW r \in Requests, Login(r) PROVE Known'
  BY <1>1 DEF Login, Arrive, Goto, Decide, redisVars, historyVars
<1>2. ASSUME NEW r \in Requests, NEW t \in Requests, NEW k \in {"page", "refresh", "logout"}, Request(r, k, t) PROVE Known'
  BY <1>2 DEF Request, Arrive, Goto, redisVars, historyVars
<1>3. ASSUME NEW r \in Requests, CheckRevocation(r) PROVE Known'
  BY <1>3 DEF CheckRevocation, Refuse, Goto, Decide, redisVars, historyVars
<1>4. ASSUME NEW r \in Requests, RevocationUnknown(r) PROVE Known'
  BY <1>4 DEF RevocationUnknown, Refuse, Goto, Decide, redisVars, historyVars
<1>5. ASSUME NEW r \in Requests, CheckInactivity(r) PROVE Known'
  BY <1>5 DEF CheckInactivity, StartRevoke, Goto, redisVars, historyVars
<1>6. ASSUME NEW r \in Requests, InactivityUnknown(r) PROVE Known'
  BY <1>6 DEF InactivityUnknown, Goto, redisVars, historyVars
<1>7. ASSUME NEW r \in Requests, Touch(r) PROVE Known'
  BY <1>7 DEF Touch, StartRevoke, Goto, Decide, historyVars
<1>8. ASSUME NEW r \in Requests, Revoke(r) PROVE Known'
  BY <1>8, ContinueType DEF Revoke, Goto, Motive, Victim, historyVars
<1>9. ASSUME NEW r \in Requests, Clear(r) PROVE Known'
  BY <1>9, ContinueType DEF Clear, historyVars
<1>10. ASSUME NEW r \in Requests, RevokeFails(r) PROVE Known'
  BY <1>10, ContinueType DEF RevokeFails, redisVars, historyVars
<1>11. ASSUME NEW r \in Requests, Read(r) PROVE Known'
  BY <1>11 DEF Read, StartRevoke, Goto, redisVars, historyVars
<1>12. ASSUME NEW r \in Requests, Activate(r) PROVE Known'
  BY <1>12 DEF Activate, Goto, historyVars
<1>13. ASSUME NEW r \in Requests, Open(r) PROVE Known'
  BY <1>13 DEF Open, Goto, historyVars
<1>14. ASSUME NEW r \in Requests, RegisterFails(r) PROVE Known'
  BY <1>14 DEF RegisterFails, Goto, redisVars, historyVars
<1>15. ASSUME NEW t \in Requests, Lapse(t) PROVE Known'
  BY <1>15 DEF Lapse, handlerVars
<1>16. ASSUME NEW t \in Requests, Expire(t) PROVE Known'
  BY <1>16 DEF Expire, handlerVars, historyVars
<1>17. CASE UNCHANGED vars
  BY <1>17 DEF vars, handlerVars, redisVars, historyVars
<1>18. QED
  BY <1>1, <1>2, <1>3, <1>4, <1>5, <1>6, <1>7, <1>8, <1>9, <1>10, <1>11, <1>12, <1>13, <1>14, <1>15, <1>16, <1>17
  DEF Next, Guard, Register

\* The active session is good or about to be replaced.
LEMMA HeldInit == Init => Held
  BY DEF Init, Held, Begun

LEMMA CalmBefore == TypeInv /\ [Next]_vars /\ Calm' => Calm /\ faults' = faults
  BY DEF TypeInv, TypeOK, Calm, Next, vars, Guard, Register, Works, Breaks, Login, Request, Arrive,
         CheckRevocation, RevocationUnknown, CheckInactivity, InactivityUnknown, Touch, Revoke,
         Clear, RevokeFails, Read, Activate, Open, RegisterFails, Lapse, Expire, handlerVars, historyVars

Lives(t) == revoked[t] = "none" /\ (t \in seen \/ pc[t] = "opening")
Leaves(t) == \E q \in Requests : Replaces(q, t)

\* A step that leaves the active session where it is, and whoever replaces it.
LEMMA HeldKept ==
    ASSUME TypeInv, Judged, Held, Calm,
           active' = active,
           \A t \in Requests : Leaves(t) => Leaves(t)',
           \A t \in Requests : t = active /\ Lives(t) => Lives(t)' \/ Leaves(t)',
           \A q \in Requests : Begun(q)' => Begun(q) \/ active # NoToken,
           \A q \in Requests : pc'[q] \in {"revoking", "clearing"} /\ then'[q] = "rejected" =>
               /\ presents'[q] = presents[q]
               /\ \/ pc[q] \in {"revoking", "clearing"} /\ then[q] = "rejected"
                  \/ presents[q] \in Requests /\ ~Lives(presents[q])
    PROVE  Held'
<1> USE DEF TypeInv, TypeOK
<1>1. active # NoToken => Lives(active) \/ Leaves(active)
  BY DEF Held, Lives, Leaves
<1>2. ASSUME NEW t \in Requests, t = active PROVE Lives(t)' \/ Leaves(t)'
  BY <1>1, <1>2
<1>3. ASSUME NEW t \in Requests, t = active, NEW q \in Requests,
             pc'[q] \in {"revoking", "clearing"}, then'[q] = "rejected", presents'[q] = t
      PROVE  Leaves(t)'
  <2>1. Leaves(t)
    BY <1>1, <1>3 DEF Held, Leaves
  <2>2. QED
    BY <2>1
<1>4. active = NoToken => \A q \in Requests : ~Begun(q)'
  BY DEF Held
<1>5. active' # NoToken => Lives(active)' \/ Leaves(active)'
  BY <1>2
<1>6. ASSUME NEW q \in Requests, pc'[q] \in {"revoking", "clearing"}, then'[q] = "rejected",
             presents'[q] = active'
      PROVE  Leaves(active)'
  <2>1. active \in Requests
    BY <1>6 DEF Judged
  <2>2. PICK t \in Requests : t = active
    BY <2>1
  <2>3. Leaves(t)'
    BY <1>3, <1>6, <2>2
  <2>4. QED
    BY <2>2, <2>3
<1>7. active' # NoToken => \/ revoked'[active'] = "none" /\ (active' \in seen' \/ pc'[active'] = "opening")
                           \/ \E q \in Requests : Replaces(q, active)'
  BY <1>5 DEF Lives, Leaves
<1>8. \A q \in Requests :
         pc'[q] \in {"revoking", "clearing"} /\ then'[q] = "rejected" /\ presents'[q] = active' =>
         \E u \in Requests : Replaces(u, active)'
  BY <1>6 DEF Leaves
<1>9. QED
  BY <1>4, <1>7, <1>8 DEF Held

LEMMA HeldNext == TypeInv /\ Judged /\ Known /\ Held /\ [Next]_vars => Held'
<1> SUFFICES ASSUME TypeInv, Judged, Known, Held, [Next]_vars, Calm, Calm', faults' = faults PROVE Held'
  BY CalmBefore DEF Held
<1> USE DEF TypeInv, TypeOK, Staged
<1>1. ASSUME NEW r \in Requests, Login(r) PROVE Held'
  BY <1>1, HeldKept DEF Login, Arrive, Goto, Decide, redisVars, historyVars, Judged, Known, Lives, Leaves, Replaces, Begun, Issued, Calm
<1>2. ASSUME NEW r \in Requests, NEW t \in Requests, NEW k \in {"page", "refresh", "logout"}, Request(r, k, t) PROVE Held'
  BY <1>2, HeldKept DEF Request, Arrive, Goto, redisVars, historyVars, Judged, Known, Lives, Leaves, Replaces, Begun, Issued, Calm
<1>3. ASSUME NEW r \in Requests, CheckRevocation(r) PROVE Held'
  <2>1. /\ pc[r] = "revocation" /\ presents[r] \in Requests /\ verdict[r] = "none"
        /\ UNCHANGED <<kind, presents, then, anterior, revoked, active, seen>>
        /\ \/ pc' = [pc EXCEPT ![r] = "inactivity"] /\ UNCHANGED verdict
           \/ pc' = [pc EXCEPT ![r] = "over"] /\ verdict' = [verdict EXCEPT ![r] = revoked[presents[r]]]
    BY <1>3 DEF CheckRevocation, Refuse, Goto, Decide, redisVars, historyVars, Works, Judged
  <2>2. revoked[presents[r]] # "accepted"
    BY <2>1 DEF Motivo
  <2>3. \A q \in Requests : Begun(q)' => Begun(q)
    BY <2>1, <2>2 DEF Begun
  <2>4. \A t, q \in Requests : Replaces(q, t) => Replaces(q, t)'
    BY <2>1 DEF Replaces
  <2>5. \A t \in Requests : (Leaves(t) => Leaves(t)') /\ (Lives(t) => Lives(t)')
    BY <2>1, <2>4 DEF Leaves, Lives
  <2>6. QED
    BY <2>1, <2>3, <2>5, HeldKept
<1>4. ASSUME NEW r \in Requests, CheckInactivity(r) PROVE Held'
  BY <1>4, HeldKept DEF CheckInactivity, StartRevoke, Goto, redisVars, historyVars, Judged, Known, Lives, Leaves, Replaces, Begun, Issued, Calm
<1>5. ASSUME NEW r \in Requests, Touch(r) PROVE Held'
  BY <1>5, HeldKept DEF Touch, StartRevoke, Goto, Decide, historyVars, Judged, Known, Lives, Leaves, Replaces, Begun, Issued, Calm
<1>6. ASSUME NEW r \in Requests, Revoke(r) PROVE Held'
  <2>1. /\ pc[r] = "revoking" /\ then[r] \in {"rejected", "reading", "activating"}
        /\ UNCHANGED <<kind, presents, then, anterior, active, seen>>
    BY <1>6 DEF Revoke, Works, historyVars, Calm
  <2>2. /\ revoked' = [revoked EXCEPT ![Victim(r)] = Motive(r)]
        /\ pc' = [pc EXCEPT ![r] = "clearing"]
        /\ UNCHANGED verdict
    BY <1>6 DEF Revoke, Goto, Calm
  <2>3. \A q \in Requests : Begun(q)' => Begun(q)
    BY <2>1, <2>2 DEF Begun
  <2>4. \A t, q \in Requests : Replaces(q, t) => Replaces(q, t)'
    BY <2>1, <2>2 DEF Replaces
  <2>5. \A t \in Requests : Leaves(t) => Leaves(t)'
    BY <2>4 DEF Leaves
  <2>6. ASSUME NEW t \in Requests, t = active, Lives(t), ~Lives(t)' PROVE Leaves(t)'
    <3>1. t = Victim(r)
      BY <2>1, <2>2, <2>6 DEF Lives
    <3>2. CASE then[r] = "rejected"
      <4>1. presents[r] = active
        BY <2>6, <3>1, <3>2 DEF Victim
      <4>2. Leaves(t)
        BY <2>1, <2>6, <3>2, <4>1 DEF Held, Leaves
      <4>3. QED
        BY <2>5, <4>2
    <3>3. CASE then[r] # "rejected"
      <4>1. Replaces(r, t)'
        BY <2>1, <2>2, <3>1, <3>3 DEF Victim, Replaces, Judged
      <4>2. QED
        BY <4>1 DEF Leaves
    <3>4. QED
      BY <3>2, <3>3
  <2>7. QED
    BY <2>1, <2>2, <2>3, <2>5, <2>6, HeldKept
<1>7. ASSUME NEW r \in Requests, Clear(r) PROVE Held'
  <2>1. /\ pc[r] = "clearing" /\ then[r] \in {"rejected", "reading", "activating"}
        /\ UNCHANGED <<kind, presents, then, anterior, active, revoked>>
    BY <1>7 DEF Clear, Works, historyVars, Calm
  <2>2. /\ seen' = seen \ {Victim(r)}
        /\ pc' = [pc EXCEPT ![r] = IF then[r] = "rejected" THEN "over" ELSE then[r]]
        /\ verdict' = [verdict EXCEPT ![r] = IF then[r] = "rejected" THEN "inatividade" ELSE verdict[r]]
    BY <1>7, <2>1, ContinueType DEF Clear
  <2>3. \A q \in Requests : Begun(q)' => Begun(q)
    BY <2>1, <2>2 DEF Begun, Judged
  <2>4. \A t, q \in Requests : Replaces(q, t) => Replaces(q, t)'
    BY <2>1, <2>2 DEF Replaces, Judged
  <2>5. \A t \in Requests : Leaves(t) => Leaves(t)'
    BY <2>4 DEF Leaves
  <2>6. ASSUME NEW t \in Requests, t = active, Lives(t), ~Lives(t)' PROVE Leaves(t)'
    <3>1. t = Victim(r)
      BY <2>1, <2>2, <2>6 DEF Lives
    <3>2. CASE then[r] = "rejected"
      <4>1. presents[r] = active
        BY <2>6, <3>1, <3>2 DEF Victim
      <4>2. Leaves(t)
        BY <2>1, <2>6, <3>2, <4>1 DEF Held, Leaves
      <4>3. QED
        BY <2>5, <4>2
    <3>3. CASE then[r] # "rejected"
      <4>1. Replaces(r, t)'
        BY <2>1, <2>2, <3>1, <3>3 DEF Victim, Replaces, Judged
      <4>2. QED
        BY <4>1 DEF Leaves
    <3>4. QED
      BY <3>2, <3>3
  <2>7. QED
    BY <2>1, <2>2, <2>3, <2>5, <2>6, HeldKept
<1>8. ASSUME NEW r \in Requests, Read(r) PROVE Held'
  BY <1>8, HeldKept DEF Read, StartRevoke, Goto, redisVars, historyVars, Judged, Known, Lives, Leaves, Replaces, Begun, Issued, Calm
<1>9. ASSUME NEW r \in Requests, Open(r) PROVE Held'
  BY <1>9, HeldKept DEF Open, Goto, historyVars, Judged, Known, Lives, Leaves, Replaces, Begun, Issued, Calm
<1>10. ASSUME NEW r \in Requests, Activate(r) PROVE Held'
  BY <1>10 DEF Activate, Goto, historyVars, Held, Known, Begun, Issued, Replaces
<1>11. CASE UNCHANGED vars
  BY <1>11 DEF vars, handlerVars, redisVars, historyVars, Held, Calm, Begun, Replaces
<1>12. ASSUME NEW r \in Requests,
              RevocationUnknown(r) \/ InactivityUnknown(r) \/ RevokeFails(r) \/ RegisterFails(r)
       PROVE  Held'
  BY <1>12 DEF RevocationUnknown, InactivityUnknown, RevokeFails, RegisterFails, Breaks
<1>13. ASSUME NEW t \in Requests, Lapse(t) \/ Expire(t) PROVE Held'
  BY <1>13 DEF Lapse, Expire, Calm
<1>14. QED
  BY <1>1, <1>2, <1>3, <1>4, <1>5, <1>6, <1>7, <1>8, <1>9, <1>10, <1>11, <1>12, <1>13
  DEF Next, Guard, Register

-----------------------------------------------------------------------------
\* What a registration read as the session to replace stays read.
LEMMA ReadByStays ==
    ASSUME TypeInv, Judged, [Next]_vars, NEW t \in Requests \cup {NoToken}, ReadBy(t)
    PROVE  ReadBy(t)'
<1>1. PICK q \in Requests : anterior[q] = t /\ t # NoToken
  BY DEF ReadBy
<1>2. anterior'[q] = t
  <2>1. ASSUME NEW r \in Requests, Read(r) PROVE anterior'[q] = t
    <3>1. pc[r] = "reading" /\ anterior' = [anterior EXCEPT ![r] = active]
      BY <2>1 DEF Read
    <3>2. anterior[r] = NoToken
      BY <3>1 DEF Judged
    <3>3. QED
      BY <1>1, <3>1, <3>2 DEF TypeInv, TypeOK
  <2>2. CASE anterior' = anterior
    BY <1>1, <2>2
  <2>3. QED
    BY <2>1, <2>2
    DEF Next, vars, Guard, Register, Login, Request, Arrive, CheckRevocation, RevocationUnknown,
        CheckInactivity, InactivityUnknown, Touch, Revoke, Clear, RevokeFails, Activate, Open,
        RegisterFails, Lapse, Expire, handlerVars
<1>3. QED
  BY <1>1, <1>2 DEF ReadBy

LEMMA ReplacementsInit == Init => Replacements
  BY DEF Init, Replacements

LEMMA ReplacementsNext ==
    TypeInv /\ Judged /\ Replacements /\ [Next]_vars => Replacements'
<1> SUFFICES ASSUME TypeInv, Judged, Replacements, [Next]_vars PROVE Replacements' OBVIOUS
<1> USE DEF TypeInv, TypeOK, Staged, Judged
<1>0. \A t \in Requests \cup {NoToken} : ReadBy(t) => ReadBy(t)'
  BY ReadByStays
<1>a. ASSUME \A r \in Requests :
                /\ revoked'[r] = revoked[r] \/ revoked'[r] # "outro_dispositivo"
                /\ \/ presents'[r] = presents[r] /\ verdict'[r] = verdict[r]
                   \/ verdict'[r] # "outro_dispositivo"
                /\ pc'[r] \in {"revoking", "clearing"} /\ then'[r] = "activating" =>
                       \/ anterior'[r] # NoToken
                       \/ pc[r] \in {"revoking", "clearing"} /\ then[r] = "activating"
                          /\ anterior'[r] = anterior[r]
      PROVE  Replacements'
  <2>1. ASSUME NEW r \in Requests, revoked'[r] = "outro_dispositivo" PROVE ReadBy(r)'
    BY <1>0, <1>a, <2>1 DEF Replacements
  <2>2. ASSUME NEW r \in Requests, verdict'[r] = "outro_dispositivo" PROVE ReadBy(presents[r])'
    <3>1. presents'[r] = presents[r] /\ ReadBy(presents[r])
      BY <1>a, <2>2 DEF Replacements
    <3>2. PICK q \in Requests : anterior'[q] = presents[r] /\ presents[r] # NoToken
      BY <1>0, <3>1 DEF ReadBy
    <3>3. QED
      BY <3>1, <3>2 DEF ReadBy
  <2>3. \A r \in Requests :
            pc'[r] \in {"revoking", "clearing"} /\ then'[r] = "activating" => anterior'[r] # NoToken
    BY <1>a DEF Replacements
  <2>4. QED
    BY <2>1, <2>2, <2>3 DEF Replacements
<1>1. ASSUME NEW r \in Requests, Login(r) PROVE Replacements'
  BY <1>1, <1>a DEF Login, Arrive, Goto, Decide, redisVars
<1>2. ASSUME NEW r \in Requests, NEW t \in Requests, NEW k \in {"page", "refresh", "logout"}, Request(r, k, t)
      PROVE  Replacements'
  BY <1>2, <1>a DEF Request, Arrive, Goto, redisVars
<1>3. ASSUME NEW r \in Requests, CheckRevocation(r) PROVE Replacements'
  <2>1. CASE revoked[presents[r]] # "outro_dispositivo"
    BY <1>3, <1>a, <2>1 DEF CheckRevocation, Refuse, Goto, Decide, redisVars
  <2>2. CASE revoked[presents[r]] = "outro_dispositivo"
    <3>1. /\ pc' = [pc EXCEPT ![r] = "over"] /\ presents[r] \in Requests
          /\ verdict' = [verdict EXCEPT ![r] = "outro_dispositivo"]
          /\ UNCHANGED <<presents, then, anterior, revoked>>
      BY <1>3, <2>2 DEF CheckRevocation, Refuse, Goto, Decide, redisVars
    <3>2. ReadBy(presents[r])
      BY <2>2, <3>1 DEF Replacements
    <3>3. QED
      BY <3>1, <3>2 DEF Replacements, ReadBy
  <2>3. QED
    BY <2>1, <2>2
<1>4. ASSUME NEW r \in Requests, RevocationUnknown(r) PROVE Replacements'
  BY <1>4, <1>a DEF RevocationUnknown, Refuse, Goto, Decide, redisVars
<1>5. ASSUME NEW r \in Requests, CheckInactivity(r) PROVE Replacements'
  BY <1>5, <1>a DEF CheckInactivity, StartRevoke, Goto, redisVars
<1>6. ASSUME NEW r \in Requests, InactivityUnknown(r) PROVE Replacements'
  BY <1>6, <1>a DEF InactivityUnknown, Goto, redisVars
<1>7. ASSUME NEW r \in Requests, Touch(r) PROVE Replacements'
  BY <1>7, <1>a DEF Touch, StartRevoke, Goto, Decide
<1>8. ASSUME NEW r \in Requests, Revoke(r) PROVE Replacements'
  <2>1. CASE then[r] = "activating"
    <3>1. /\ revoked' = [revoked EXCEPT ![anterior[r]] = "outro_dispositivo"]
          /\ pc' = [pc EXCEPT ![r] = "clearing"]
          /\ UNCHANGED <<presents, then, anterior, verdict>>
      BY <1>8, <2>1 DEF Revoke, Goto, Victim, Motive
    <3>2. ReadBy(anterior[r])
      BY <1>8, <2>1 DEF Revoke, Replacements, ReadBy
    <3>3. QED
      BY <1>8, <2>1, <3>1, <3>2 DEF Replacements, ReadBy, Revoke
  <2>2. CASE then[r] # "activating"
    <3>1. Motive(r) # "outro_dispositivo"
      BY <2>2 DEF Motive
    <3>2. \/ revoked' = revoked
          \/ revoked' = [revoked EXCEPT ![Victim(r)] = Motive(r)]
      BY <1>8 DEF Revoke
    <3>3. \A t \in Requests : revoked'[t] = revoked[t] \/ revoked'[t] # "outro_dispositivo"
      BY <3>1, <3>2
    <3>4. /\ verdict' = [verdict EXCEPT ![r] = verdict'[r]]
          /\ verdict'[r] \in {verdict[r], "inatividade"} /\ then' = then /\ presents' = presents
          /\ \A q \in Requests : q # r => pc'[q] = pc[q]
          /\ anterior' = anterior
      BY <1>8, ContinueType DEF Revoke, Goto
    <3>5. QED
      BY <1>a, <2>2, <3>3, <3>4
  <2>3. QED
    BY <2>1, <2>2
<1>9. ASSUME NEW r \in Requests, Clear(r) \/ RevokeFails(r) PROVE Replacements'
  <2>1. /\ pc' = [pc EXCEPT ![r] = IF then[r] = "rejected" THEN "over" ELSE then[r]]
        /\ verdict' = [verdict EXCEPT ![r] = IF then[r] = "rejected" THEN "inatividade" ELSE verdict[r]]
        /\ then[r] \in {"rejected", "over", "reading", "activating"}
        /\ UNCHANGED <<presents, then, anterior, revoked>>
    BY <1>9, ContinueType DEF Clear, RevokeFails, redisVars
  <2>2. QED
    BY <1>a, <2>1
<1>10. ASSUME NEW r \in Requests, Read(r) PROVE Replacements'
  BY <1>10, <1>a DEF Read, StartRevoke, Goto, redisVars
<1>11. ASSUME NEW r \in Requests, Activate(r) \/ Open(r) \/ RegisterFails(r) PROVE Replacements'
  BY <1>11, <1>a DEF Activate, Open, RegisterFails, Goto, redisVars
<1>12. ASSUME NEW t \in Requests, Lapse(t) \/ Expire(t) PROVE Replacements'
  BY <1>12, <1>a DEF Lapse, Expire, handlerVars
<1>13. CASE UNCHANGED vars
  BY <1>13, <1>a DEF vars, handlerVars, redisVars
<1>14. QED
  BY <1>1, <1>2, <1>3, <1>4, <1>5, <1>6, <1>7, <1>8, <1>9, <1>10, <1>11, <1>12, <1>13
  DEF Next, Guard, Register

-----------------------------------------------------------------------------
LEMMA RenewingInit == Init => Renewing
  BY DEF Init, Renewing, Renews

\* Only a registration that runs alone writes the active session, and a refresh that is
\* still to read it was alone from its arrival.
LEMMA RenewingNext ==
    TypeInv /\ Judged /\ Serial /\ Renewing /\ [Next]_vars => Renewing'
<1> SUFFICES ASSUME TypeInv, Judged, Serial, Renewing, [Next]_vars, ~overlapped', faults' = 0
             PROVE  \A q \in Requests :
                        /\ Renews(q)' => active' \in {presents'[q], NoToken}
                        /\ kind'[q] = "refresh" /\ anterior'[q] # NoToken => anterior'[q] = presents'[q]
  BY DEF Renewing
<1>0. ~overlapped /\ faults = 0
  <2>1. faults = 0
    BY FaultsStay
  <2>2. overlapped => overlapped'
    BY DEF Next, vars, Guard, Register, Login, Request, Arrive, CheckRevocation, RevocationUnknown,
           CheckInactivity, InactivityUnknown, Touch, Revoke, Clear, RevokeFails, Read, Activate,
           Open, RegisterFails, Lapse, Expire, historyVars
  <2>3. QED
    BY <2>1, <2>2
<1>a. ~Breaks
  BY DEF Breaks, TypeInv, TypeOK
<1>b. \A q \in Requests :
          /\ Renews(q) => active \in {presents[q], NoToken}
          /\ kind[q] = "refresh" /\ anterior[q] # NoToken => anterior[q] = presents[q]
  BY <1>0 DEF Renewing
<1> DEFINE Goal == \A q \in Requests :
                       /\ Renews(q)' => active' \in {presents'[q], NoToken}
                       /\ kind'[q] = "refresh" /\ anterior'[q] # NoToken => anterior'[q] = presents'[q]
<1> USE DEF TypeInv, TypeOK, Staged, Judged, Renews
<1>1. ASSUME NEW r \in Requests, Login(r) PROVE Goal
  BY <1>b, <1>1 DEF Login, Arrive, Goto, redisVars
<1>2. ASSUME NEW r \in Requests, NEW t \in Requests, NEW k \in {"page", "refresh", "logout"}, Request(r, k, t)
      PROVE  Goal
  <2>1. revoked[t] = "none" => active = t
    BY <1>0, <1>2 DEF Request, Serial, Valid
  <2>2. anterior[r] = NoToken
    BY <1>2 DEF Request, Arrive
  <2>3. QED
    BY <1>b, <1>2, <2>1, <2>2 DEF Request, Arrive, Goto, redisVars
<1>3. ASSUME NEW r \in Requests, CheckRevocation(r) PROVE Goal
  BY <1>b, <1>3 DEF CheckRevocation, Refuse, Goto, redisVars
<1>4. ASSUME NEW r \in Requests, CheckInactivity(r) PROVE Goal
  BY <1>b, <1>4 DEF CheckInactivity, StartRevoke, Goto, redisVars
<1>5. ASSUME NEW r \in Requests, Touch(r) PROVE Goal
  BY <1>b, <1>5 DEF Touch, StartRevoke, Goto
<1>6. ASSUME NEW r \in Requests, Revoke(r) \/ Clear(r) PROVE Goal
  <2>1. /\ pc[r] \in {"revoking", "clearing"}
        /\ \/ pc' = [pc EXCEPT ![r] = "clearing"]
           \/ pc' = [pc EXCEPT ![r] = IF then[r] = "rejected" THEN "over" ELSE then[r]]
        /\ UNCHANGED <<kind, presents, then, anterior, active>>
    BY <1>6, ContinueType DEF Revoke, Clear, Goto
  <2>2. \A t \in Requests : revoked'[t] = "none" => revoked[t] = "none"
    BY <1>6 DEF Revoke, Clear, Motive
  <2>3. \A q \in Requests : Renews(q)' => Renews(q)
    BY <2>1, <2>2
  <2>4. QED
    BY <1>b, <2>1, <2>3
<1>7. ASSUME NEW r \in Requests, Read(r) PROVE Goal
  BY <1>b, <1>7 DEF Read, StartRevoke, Goto, redisVars
<1>8. ASSUME NEW r \in Requests, Activate(r) PROVE Goal
  <2>1. \A q \in Issuing : q = r
    <3>1. r \in Issuing
      BY <1>8 DEF Activate, Issuing
    <3>2. QED
      BY <1>0, <3>1 DEF Serial
  <2>2. \A q \in Requests : Renews(q) => q = r
    BY <2>1 DEF Issuing
  <2>3. \A q \in Requests : ~Renews(q)'
    BY <1>8, <2>2 DEF Activate, Goto
  <2>4. QED
    BY <1>b, <1>8, <2>3 DEF Activate
<1>9. ASSUME NEW r \in Requests, Open(r) PROVE Goal
  BY <1>b, <1>9 DEF Open, Goto
<1>10. ASSUME NEW t \in Requests, Lapse(t) \/ Expire(t) PROVE Goal
  BY <1>b, <1>10 DEF Lapse, Expire, handlerVars
<1>11. CASE UNCHANGED vars
  BY <1>b, <1>11 DEF vars, handlerVars, redisVars
<1>12. QED
  BY <1>a, <1>1, <1>2, <1>3, <1>4, <1>5, <1>6, <1>7, <1>8, <1>9, <1>10, <1>11
  DEF Next, Guard, Register, RevocationUnknown, InactivityUnknown, RevokeFails, RegisterFails

\* The invariant the runs check is inductive.
THEOREM Invariant == Spec => []IInv
<1>1. Init => IInv
  BY TypeInit, DoomedInit, SerialInit, JudgedInit, SeenInit, KnownInit, HeldInit, ReplacementsInit,
     RenewingInit DEF IInv, TypeInv
<1>2. IInv /\ [Next]_vars => IInv'
  BY TypeNext, DoomedNext, SerialNext, JudgedNext, SeenNext, KnownNext, HeldNext, ReplacementsNext,
     RenewingNext DEF IInv, TypeInv
<1>3. QED
  BY <1>1, <1>2, PTL DEF Spec

\* Every variable keeps its type, whatever the requests and the failing calls.
THEOREM TypeCorrect == Spec => []TypeOK
<1>1. IInv => TypeOK
  BY DEF IInv
<1>2. QED
  BY <1>1, Invariant, PTL

\* A request whose token was revoked when it arrived is refused, even if Redis fails
\* in the middle of the check (motivoRevogacao fails closed).
THEOREM RevokedTheorem == Spec => []RevokedStaysOut
<1>1. IInv => RevokedStaysOut
  BY DEF IInv, DoomedAreStopped, RevokedStaysOut
<1>2. QED
  BY <1>1, Invariant, PTL

\* While Redis answers, inactivity is blamed only on a token that was inactive for ten
\* minutes or had been revoked besides (inativo, marcarAtividade).
THEOREM InactivityTheorem == Spec => []InactivityHasReason
<1>1. IInv => InactivityHasReason
  BY DEF IInv, Seen, InactivityHasReason
<1>2. QED
  BY <1>1, Invariant, PTL

\* However logins and refreshes overlap, once they are over somebody is in
\* (registrarSessaoAtiva revokes only what it replaces).
THEOREM SomebodyTheorem == Spec => []SomeoneIsIn
<1>1. IInv => SomeoneIsIn
  BY DEF IInv, TypeOK, Staged, Known, Held, Calm, Begun, Replaces, Valid, Issued, SomeoneIsIn
<1>2. QED
  BY <1>1, Invariant, PTL

\* Registrations that do not overlap leave at most one good token
\* (registrarSessaoAtiva revokes the one it replaces).
THEOREM SingleSessionTheorem == Spec => []SerialSingleSession
<1>1. IInv => SerialSingleSession
  BY DEF IInv, Serial, SerialSingleSession
<1>2. QED
  BY <1>1, Invariant, PTL

\* Who is told that the account was used on another device had the session replaced by a
\* login or by its own renewal, unless registrations overlapped or Redis failed
\* (registrarSessaoAtiva, whose default motive no caller overrides).
THEOREM ReplacedTheorem == Spec => []ReplacedOrRenewed
<1>1. IInv => ReplacedOrRenewed
  <2> SUFFICES ASSUME IInv, NEW r \in Requests, verdict[r] = "outro_dispositivo"
               PROVE  \E q \in Requests : anterior[q] = presents[r] /\ RenewsNoOther(q)
    BY DEF ReplacedOrRenewed
  <2>1. PICK q \in Requests : anterior[q] = presents[r] /\ presents[r] # NoToken
    BY DEF IInv, Replacements, ReadBy
  <2>2. RenewsNoOther(q)
    BY <2>1 DEF IInv, Renewing, RenewsNoOther, TypeOK
  <2>3. QED
    BY <2>1, <2>2
<1>2. QED
  BY <1>1, Invariant, PTL

-----------------------------------------------------------------------------
(* Who may enter where (Access): the row that locks an account, and the     *)
(* stores of a profile.                                                    *)

USE AccessAssumption

\* What a failure writes is a row, counts one more at most, and locks only a full count.
LEMMA CountedRow ==
    ASSUME NEW row \in Row
    PROVE /\ Counted(row) \in Row
          /\ Counted(row).falhas <= row.falhas + 1
          /\ Counted(row).trancada => row.falhas + 1 >= MaxTentativas
<1>1. row.falhas \in Nat
  BY DEF Row
<1>2. CASE row.falhas + 1 >= MaxTentativas
  <2>1. Counted(row) = [falhas |-> 0, trancada |-> TRUE]
    BY <1>2 DEF Counted, Trancar
  <2>2. Counted(row) \in Row /\ Counted(row).falhas = 0
    BY <2>1 DEF Row
  <2>3. QED
    BY <1>1, <1>2, <2>2
<1>3. CASE ~(row.falhas + 1 >= MaxTentativas)
  <2>1. Counted(row) = [falhas |-> row.falhas + 1, trancada |-> FALSE]
    <3>1. Trancar(row.falhas + 1) = FALSE
      BY <1>1, <1>3 DEF Trancar
    <3>2. QED
      BY <3>1 DEF Counted
  <2>2. QED
    BY <1>1, <2>1 DEF Row
<1>4. QED
  BY <1>2, <1>3

LEMMA ZeroRow == Zero \in Row
BY DEF Zero, Row

LEMMA LidoRow == AccessTypeOK => Lido \in Row
BY DEF AccessTypeOK, Lido, Row

LEMMA AccessTypeInit == AccessInit => AccessTypeOK
<1> SUFFICES ASSUME AccessInit PROVE AccessTypeOK
  OBVIOUS
<1>1. lido \in [Acts -> Row] /\ ideal \in Row
  BY ZeroRow DEF AccessInit
<1>2. stage \in [Acts -> Stages] /\ pedido \in [Acts -> SUBSET Lojas]
  BY DEF AccessInit, Stages
<1>3. /\ failedLoginAttempts \in Nat /\ lockedUntil \in {"none", "future", "past"}
      /\ lojas \subseteq Lojas /\ ultimo \subseteq Lojas
      /\ overtaken \subseteq Acts /\ wrong \subseteq Acts
      /\ trusted \in BOOLEAN /\ mixed \in BOOLEAN
  BY DEF AccessInit
<1>4. QED
  BY <1>1, <1>2, <1>3 DEF AccessTypeOK

LEMMA AccessTypeNext == AccessTypeOK /\ [AccessNext]_accessVars => AccessTypeOK'
<1> SUFFICES ASSUME AccessTypeOK, [AccessNext]_accessVars PROVE AccessTypeOK'
  OBVIOUS
<1>a. lido \in [Acts -> Row] /\ Zero \in Row /\ Lido \in Row
  BY ZeroRow, LidoRow DEF AccessTypeOK
<1>b. ASSUME NEW c \in Acts PROVE Overtakes(c) => overtaken' \subseteq Acts
  BY DEF AccessTypeOK, Overtakes
<1>1. ASSUME NEW c \in Acts, Find(c) PROVE AccessTypeOK'
  BY <1>1, <1>a DEF AccessTypeOK, Find, Becomes, Stages, rowVars, counterHistory, profileVars
<1>2. ASSUME NEW c \in Acts, RegistrarFalha(c) PROVE AccessTypeOK'
  <2>1. lido[c] \in Row /\ ideal \in Row
    BY <1>a DEF AccessTypeOK
  <2>2. Counted(lido[c]) \in Row /\ Counted(ideal) \in Row
    BY <2>1, CountedRow
  <2>3. Counted(lido[c]).falhas \in Nat
    BY <2>2 DEF Row
  <2>4. failedLoginAttempts' \in Nat /\ ideal' \in Row /\ lockedUntil' \in {"none", "future", "past"}
    BY <1>2, <2>2, <2>3 DEF RegistrarFalha
  <2>5. overtaken' \subseteq Acts
    BY <1>2, <1>b DEF RegistrarFalha
  <2>6. stage' \in [Acts -> Stages] /\ wrong' \subseteq Acts /\ trusted' \in BOOLEAN
    BY <1>2 DEF AccessTypeOK, RegistrarFalha, Becomes, Stages
  <2>7. UNCHANGED <<lido, profileVars>>
    BY <1>2 DEF RegistrarFalha
  <2>8. QED
    BY <2>4, <2>5, <2>6, <2>7 DEF AccessTypeOK, profileVars
<1>3. ASSUME NEW c \in Acts, Accept(c) PROVE AccessTypeOK'
  <2>1. /\ failedLoginAttempts' \in Nat /\ lockedUntil' \in {"none", "future", "past"}
        /\ overtaken' \subseteq Acts /\ trusted' \in BOOLEAN
    <3>1. CASE Reset(c)
      BY <3>1, <1>b DEF Reset
    <3>2. CASE ~Reset(c)
      <4>1. trusted' = (trusted /\ c \notin overtaken) /\ UNCHANGED <<rowVars, overtaken>>
        BY <1>3, <3>2 DEF Accept
      <4>2. QED
        BY <4>1 DEF AccessTypeOK, rowVars
    <3>3. QED
      BY <3>1, <3>2
  <2>2. stage' \in [Acts -> Stages] /\ ideal' \in Row
    BY <1>3, <1>a DEF AccessTypeOK, Accept, Becomes, Stages
  <2>3. UNCHANGED <<lido, wrong, profileVars>>
    BY <1>3 DEF Accept
  <2>4. QED
    BY <2>1, <2>2, <2>3 DEF AccessTypeOK, profileVars
<1>4. ASSUME NEW c \in Acts, Release(c) PROVE AccessTypeOK'
  BY <1>4, <1>a, <1>b DEF AccessTypeOK, Release, Reset, Becomes, Stages, profileVars
<1>5. ASSUME NEW c \in Acts, NEW S \in SUBSET Lojas, Empty(c, S) PROVE AccessTypeOK'
  BY <1>5 DEF AccessTypeOK, Empty, Becomes, Stages, rowVars, counterHistory
<1>6. ASSUME NEW c \in Acts, Create(c) PROVE AccessTypeOK'
  BY <1>6 DEF AccessTypeOK, Create, Becomes, Stages, rowVars, counterHistory
<1>7. ASSUME NEW c \in Acts, Stop(c) PROVE AccessTypeOK'
  BY <1>7 DEF AccessTypeOK, Stop, Becomes, Stages, rowVars, counterHistory, profileVars
<1>8. CASE Elapse
  BY <1>8 DEF AccessTypeOK, Elapse, counterHistory, profileVars
<1>9. CASE UNCHANGED accessVars
  BY <1>9 DEF AccessTypeOK, accessVars, rowVars, counterHistory, profileVars
<1>10. QED
  BY <1>1, <1>2, <1>3, <1>4, <1>5, <1>6, <1>7, <1>8, <1>9 DEF AccessNext

\* A write of the row overtakes whoever else is comparing; what does not write it leaves a
\* login that is comparing as it was, unless it has just read.
LEMMA FreshNext == AccessTypeOK /\ Fresh /\ [AccessNext]_accessVars => Fresh'
<1> SUFFICES ASSUME AccessTypeOK, Fresh, [AccessNext]_accessVars,
                    NEW d \in Acts, stage'[d] = "comparing", d \notin overtaken'
             PROVE lido'[d] = Lido' /\ lockedUntil' # "future"
  BY DEF Fresh
<1> USE DEF AccessTypeOK
<1>a. ASSUME NEW c \in Acts, Overtakes(c), stage[d] = "comparing" PROVE d = c
  BY <1>a DEF Overtakes
<1>b. ASSUME UNCHANGED <<rowVars, overtaken, lido>>, stage[d] = "comparing"
      PROVE lido'[d] = Lido' /\ lockedUntil' # "future"
  BY <1>b DEF Fresh, Lido, rowVars
<1>1. ASSUME NEW c \in Acts, Find(c) PROVE lido'[d] = Lido' /\ lockedUntil' # "future"
  <2>1. CASE d = c
    <3>1. lockedUntil # "future" /\ lido'[d] = Lido
      BY <1>1, <2>1 DEF Find, Becomes
    <3>2. UNCHANGED rowVars
      BY <1>1 DEF Find
    <3>3. QED
      BY <3>1, <3>2 DEF Lido, rowVars
  <2>2. CASE d # c
    <3>1. stage[d] = "comparing" /\ lido'[d] = lido[d] /\ UNCHANGED <<rowVars, overtaken>>
      BY <1>1, <2>2 DEF Find, Becomes, counterHistory
    <3>2. QED
      BY <3>1 DEF Fresh, Lido, rowVars
  <2>3. QED
    BY <2>1, <2>2
<1>2. ASSUME NEW c \in Acts, RegistrarFalha(c) PROVE FALSE
  <2>1. stage[d] = "comparing" /\ d # c
    BY <1>2 DEF RegistrarFalha, Becomes
  <2>2. QED
    BY <1>2, <1>a, <2>1 DEF RegistrarFalha
<1>3. ASSUME NEW c \in Acts, Accept(c) PROVE lido'[d] = Lido' /\ lockedUntil' # "future"
  <2>1. stage[d] = "comparing" /\ d # c
    BY <1>3 DEF Accept, Becomes
  <2>2. ~Reset(c)
    BY <1>a, <2>1 DEF Reset
  <2>3. UNCHANGED <<rowVars, overtaken, lido>>
    BY <1>3, <2>2 DEF Accept
  <2>4. QED
    BY <1>b, <2>1, <2>3
<1>4. ASSUME NEW c \in Acts, Release(c) PROVE FALSE
  <2>1. stage[d] = "comparing" /\ d # c
    BY <1>4 DEF Release, Becomes
  <2>2. QED
    BY <1>4, <1>a, <2>1 DEF Release, Reset
<1>5. ASSUME NEW c \in Acts, NEW S \in SUBSET Lojas, Empty(c, S)
      PROVE lido'[d] = Lido' /\ lockedUntil' # "future"
  BY <1>5, <1>b DEF Empty, Becomes, counterHistory
<1>6. ASSUME NEW c \in Acts, Create(c) PROVE lido'[d] = Lido' /\ lockedUntil' # "future"
  BY <1>6, <1>b DEF Create, Becomes, counterHistory
<1>7. ASSUME NEW c \in Acts, Stop(c) PROVE lido'[d] = Lido' /\ lockedUntil' # "future"
  BY <1>7, <1>b DEF Stop, Becomes, counterHistory
<1>8. CASE Elapse
  BY <1>8 DEF Elapse, Fresh, Lido, counterHistory
<1>9. CASE UNCHANGED accessVars
  BY <1>9, <1>b DEF accessVars, counterHistory
<1>10. QED
  BY <1>1, <1>2, <1>3, <1>4, <1>5, <1>6, <1>7, <1>8, <1>9 DEF AccessNext

\* A login that counts a failure was not among the wrong ones, so that the wrong ones are one
\* more; and it writes one more than it read, which was at most as many as they were.
LEMMA EarnedNext == AccessTypeOK /\ Earned /\ [AccessNext]_accessVars => Earned'
<1> SUFFICES ASSUME AccessTypeOK, Earned, [AccessNext]_accessVars PROVE Earned'
  OBVIOUS
<1>a. IsFiniteSet(wrong) /\ Cardinality(wrong) \in Nat
  BY FS_CardinalityType DEF Earned
<1>b. ASSUME NEW c \in Acts, NEW where \in Stages \ {"comparing"},
             c \notin wrong, Becomes(c, where),
             UNCHANGED <<rowVars, lido, wrong>>
      PROVE Earned'
  <2>1. \A d \in wrong : stage'[d] = "over"
    BY <1>b DEF AccessTypeOK, Earned, Becomes
  <2>2. \A d \in Acts : stage'[d] = "comparing" => stage[d] = "comparing"
    BY <1>b DEF AccessTypeOK, Becomes
  <2>3. QED
    BY <1>b, <2>1, <2>2 DEF Earned, rowVars
<1>c. ASSUME NEW c \in Acts, stage[c] # "over" PROVE c \notin wrong
  BY <1>c DEF Earned
<1>1. ASSUME NEW c \in Acts, Find(c) PROVE Earned'
  <2>1. CASE lockedUntil = "future"
    BY <1>1, <1>b, <1>c, <2>1 DEF Find, counterHistory, Stages
  <2>2. CASE lockedUntil # "future"
    <3>1. /\ Becomes(c, "comparing") /\ lido' = [lido EXCEPT ![c] = Lido]
          /\ UNCHANGED <<rowVars, wrong>> /\ c \notin wrong
      BY <1>1, <1>c, <2>2 DEF Find, counterHistory
    <3>2. lido'[c].falhas = failedLoginAttempts
      BY <3>1 DEF AccessTypeOK, Lido
    <3>3. \A d \in Acts : stage'[d] = "comparing" => lido'[d].falhas <= Cardinality(wrong)
      BY <3>1, <3>2 DEF AccessTypeOK, Earned, Becomes
    <3>4. \A d \in wrong : stage'[d] = "over"
      BY <3>1 DEF AccessTypeOK, Earned, Becomes
    <3>5. QED
      BY <3>1, <3>3, <3>4 DEF Earned, rowVars
  <2>3. QED
    BY <2>1, <2>2
<1>2. ASSUME NEW c \in Acts, RegistrarFalha(c) PROVE Earned'
  <2>1. stage[c] = "comparing" /\ c \notin wrong /\ wrong' = wrong \cup {c} /\ Becomes(c, "over")
    BY <1>2, <1>c DEF RegistrarFalha
  <2>2. IsFiniteSet(wrong') /\ Cardinality(wrong') = Cardinality(wrong) + 1
    BY <1>a, <2>1, FS_AddElement
  <2>3. lido[c] \in Row /\ lido[c].falhas \in Nat /\ lido[c].falhas <= Cardinality(wrong)
    BY <2>1 DEF AccessTypeOK, Earned, Row
  <2>4. /\ Counted(lido[c]) \in Row
        /\ Counted(lido[c]).falhas <= lido[c].falhas + 1
        /\ Counted(lido[c]).trancada => lido[c].falhas + 1 >= MaxTentativas
    BY <2>3, CountedRow
  <2>5. Counted(lido[c]).falhas \in Nat
    BY <2>4 DEF Row
  <2>6. failedLoginAttempts' <= Cardinality(wrong')
    <3>1. failedLoginAttempts' = Counted(lido[c]).falhas
      BY <1>2 DEF RegistrarFalha
    <3>2. QED
      BY <1>a, <2>2, <2>3, <2>4, <2>5, <3>1
  <2>7. lockedUntil' # "none" => Cardinality(wrong') >= MaxTentativas
    <3>1. lockedUntil' # "none" => lido[c].falhas + 1 >= MaxTentativas
      BY <1>2, <2>4 DEF RegistrarFalha
    <3>2. QED
      BY <1>a, <2>2, <2>3, <3>1
  <2>8. \A d \in wrong' : stage'[d] = "over"
    BY <2>1 DEF AccessTypeOK, Earned, Becomes
  <2>9. \A d \in Acts : stage'[d] = "comparing" => lido'[d].falhas <= Cardinality(wrong')
    <3> SUFFICES ASSUME NEW d \in Acts, stage'[d] = "comparing"
                 PROVE lido'[d].falhas <= Cardinality(wrong')
      OBVIOUS
    <3>1. stage[d] = "comparing" /\ lido' = lido
      BY <1>2, <2>1 DEF AccessTypeOK, Becomes, RegistrarFalha
    <3>2. lido[d].falhas \in Nat /\ lido[d].falhas <= Cardinality(wrong)
      BY <3>1 DEF AccessTypeOK, Earned, Row
    <3>3. QED
      BY <1>a, <2>2, <3>1, <3>2
  <2>10. QED
    BY <2>2, <2>6, <2>7, <2>8, <2>9 DEF Earned
<1>d. ASSUME NEW c \in Acts, stage[c] # "over", Becomes(c, "over"), Reset(c), UNCHANGED <<lido, wrong>>
      PROVE Earned'
  <2>1. \A d \in wrong : stage'[d] = "over"
    BY <1>d DEF AccessTypeOK, Earned, Becomes
  <2>2. \A d \in Acts : stage'[d] = "comparing" => stage[d] = "comparing"
    BY <1>d DEF AccessTypeOK, Becomes
  <2>3. failedLoginAttempts' = 0 /\ lockedUntil' = "none"
    BY <1>d DEF Reset
  <2>4. QED
    BY <1>a, <1>d, <2>1, <2>2, <2>3 DEF Earned
<1>3. ASSUME NEW c \in Acts, Accept(c) PROVE Earned'
  <2>1. stage[c] = "comparing" /\ Becomes(c, "over") /\ UNCHANGED <<lido, wrong>>
    BY <1>3 DEF Accept
  <2>2. CASE Reset(c)
    BY <1>d, <2>1, <2>2
  <2>3. CASE ~Reset(c)
    <3>1. UNCHANGED rowVars
      BY <1>3, <2>3 DEF Accept
    <3>2. QED
      BY <1>b, <1>c, <2>1, <3>1 DEF Stages
  <2>4. QED
    BY <2>2, <2>3
<1>4. ASSUME NEW c \in Acts, Release(c) PROVE Earned'
  BY <1>4, <1>d DEF Release
<1>5. ASSUME NEW c \in Acts, NEW S \in SUBSET Lojas, Empty(c, S) PROVE Earned'
  BY <1>5, <1>b, <1>c DEF Empty, counterHistory, Stages
<1>6. ASSUME NEW c \in Acts, Create(c) PROVE Earned'
  <2>1. \E where \in Stages \ {"comparing"} : Becomes(c, where)
    BY <1>6 DEF Create, Stages
  <2>2. QED
    BY <1>6, <1>b, <1>c, <2>1 DEF Create, counterHistory
<1>7. ASSUME NEW c \in Acts, Stop(c) PROVE Earned'
  <2>1. \E where \in Stages \ {"comparing"} : Becomes(c, where)
    BY <1>7 DEF Stop, Stages
  <2>2. QED
    BY <1>7, <1>b, <1>c, <2>1 DEF Stop, counterHistory
<1>8. CASE Elapse
  BY <1>8 DEF Elapse, Earned, counterHistory
<1>9. CASE UNCHANGED accessVars
  BY <1>9 DEF accessVars, rowVars, counterHistory, Earned
<1>10. QED
  BY <1>1, <1>2, <1>3, <1>4, <1>5, <1>6, <1>7, <1>8, <1>9 DEF AccessNext

\* A write that keeps the trust is of a login that read the row as it still is.
LEMMA CountedNext ==
    AccessTypeOK /\ Fresh /\ CountedInTurn /\ [AccessNext]_accessVars => CountedInTurn'
<1> SUFFICES ASSUME AccessTypeOK, Fresh, CountedInTurn, [AccessNext]_accessVars, trusted'
             PROVE Lido' = ideal'
  BY DEF CountedInTurn
<1>a. ASSUME UNCHANGED <<rowVars, ideal, trusted>> PROVE Lido' = ideal'
  BY <1>a DEF CountedInTurn, Lido, rowVars
<1>b. ASSUME NEW c \in Acts, Reset(c), ideal' = Zero PROVE Lido' = ideal'
  BY <1>b DEF Reset, Lido, Zero
<1>1. ASSUME NEW c \in Acts, Find(c) PROVE Lido' = ideal'
  BY <1>1, <1>a DEF Find, counterHistory
<1>2. ASSUME NEW c \in Acts, RegistrarFalha(c) PROVE Lido' = ideal'
  <2>1. trusted /\ c \notin overtaken /\ stage[c] = "comparing" /\ ideal' = Counted(ideal)
    BY <1>2 DEF RegistrarFalha
  <2>2. lido[c] = ideal /\ ideal \in Row
    BY <2>1 DEF Fresh, CountedInTurn, AccessTypeOK
  <2>3. Counted(ideal) \in Row
    BY <2>2, CountedRow
  <2>4. /\ failedLoginAttempts' = Counted(ideal).falhas
        /\ lockedUntil' = IF Counted(ideal).trancada THEN "future" ELSE "none"
    BY <1>2, <2>2 DEF RegistrarFalha
  <2>5. (lockedUntil' # "none") = Counted(ideal).trancada
    BY <2>3, <2>4 DEF Row
  <2>6. Lido' = [falhas |-> Counted(ideal).falhas, trancada |-> Counted(ideal).trancada]
    BY <2>4, <2>5 DEF Lido
  <2>7. QED
    BY <2>1, <2>3, <2>6 DEF Row
<1>3. ASSUME NEW c \in Acts, Accept(c) PROVE Lido' = ideal'
  <2>1. CASE Reset(c)
    BY <1>3, <1>b, <2>1 DEF Accept
  <2>2. CASE ~Reset(c)
    <3>1. /\ ~(lido[c].falhas > 0 \/ lido[c].trancada) /\ UNCHANGED rowVars
          /\ trusted /\ c \notin overtaken /\ stage[c] = "comparing" /\ ideal' = Zero
      BY <1>3, <2>2 DEF Accept
    <3>2. lido[c] = Lido /\ lido[c] \in Row
      BY <3>1 DEF Fresh, AccessTypeOK
    <3>3. failedLoginAttempts = 0 /\ lockedUntil = "none"
      <4>1. ~(Lido.falhas > 0) /\ ~Lido.trancada
        BY <3>1, <3>2
      <4>2. Lido.falhas = failedLoginAttempts /\ (Lido.trancada <=> lockedUntil # "none")
        BY DEF Lido
      <4>3. QED
        BY <4>1, <4>2 DEF AccessTypeOK
    <3>4. QED
      BY <3>1, <3>3 DEF Lido, Zero, rowVars
  <2>3. QED
    BY <2>1, <2>2
<1>4. ASSUME NEW c \in Acts, Release(c) PROVE Lido' = ideal'
  BY <1>4, <1>b DEF Release
<1>5. ASSUME NEW c \in Acts, NEW S \in SUBSET Lojas, Empty(c, S) PROVE Lido' = ideal'
  BY <1>5, <1>a DEF Empty, counterHistory
<1>6. ASSUME NEW c \in Acts, Create(c) PROVE Lido' = ideal'
  BY <1>6, <1>a DEF Create, counterHistory
<1>7. ASSUME NEW c \in Acts, Stop(c) PROVE Lido' = ideal'
  BY <1>7, <1>a DEF Stop, counterHistory
<1>8. CASE Elapse
  BY <1>8 DEF Elapse, CountedInTurn, Lido, counterHistory
<1>9. CASE UNCHANGED accessVars
  BY <1>9, <1>a DEF accessVars, counterHistory
<1>10. QED
  BY <1>1, <1>2, <1>3, <1>4, <1>5, <1>6, <1>7, <1>8, <1>9 DEF AccessNext

\* Between the two queries of an update the profile is empty, and only an update of its own
\* fills it; two of them make "mixed" true.
LEMMA ProfileNext ==
    AccessTypeOK /\ Emptied /\ ProfileWhole /\ [AccessNext]_accessVars => Emptied' /\ ProfileWhole'
<1> SUFFICES ASSUME AccessTypeOK, Emptied, ProfileWhole, [AccessNext]_accessVars
             PROVE Emptied' /\ ProfileWhole'
  OBVIOUS
<1>a. ASSUME NEW c \in Acts, NEW where \in Stages \ {"creating"}, Becomes(c, where),
             stage[c] # "creating", stage[c] # "interrupted", UNCHANGED profileVars
      PROVE Emptied' /\ ProfileWhole'
  <2>1. \A d \in Acts : stage'[d] = "creating" => stage[d] = "creating"
    BY <1>a DEF AccessTypeOK, Becomes
  <2>2. \A d \in Acts : stage[d] \in {"creating", "interrupted"} => stage'[d] = stage[d]
    BY <1>a DEF AccessTypeOK, Becomes
  <2>3. QED
    BY <1>a, <2>1, <2>2 DEF Emptied, ProfileWhole, profileVars
<1>1. ASSUME NEW c \in Acts, Find(c) PROVE Emptied' /\ ProfileWhole'
  BY <1>1, <1>a DEF Find, Stages
<1>2. ASSUME NEW c \in Acts, RegistrarFalha(c) PROVE Emptied' /\ ProfileWhole'
  BY <1>2, <1>a DEF RegistrarFalha, Stages
<1>3. ASSUME NEW c \in Acts, Accept(c) PROVE Emptied' /\ ProfileWhole'
  BY <1>3, <1>a DEF Accept, Stages
<1>4. ASSUME NEW c \in Acts, Release(c) PROVE Emptied' /\ ProfileWhole'
  BY <1>4, <1>a DEF Release, Stages
<1>5. ASSUME NEW c \in Acts, NEW S \in SUBSET Lojas, Empty(c, S) PROVE Emptied' /\ ProfileWhole'
  <2>1. lojas' = {} /\ stage' = [stage EXCEPT ![c] = "creating"]
    BY <1>5 DEF Empty, Becomes
  <2>2. stage'[c] = "creating"
    BY <2>1 DEF AccessTypeOK
  <2>3. ASSUME ~mixed', NEW d \in Acts, stage'[d] = "creating" PROVE d = c
    BY <1>5, <2>1, <2>3 DEF Empty, AccessTypeOK
  <2>4. QED
    BY <2>1, <2>2, <2>3 DEF Emptied, ProfileWhole
<1>6. ASSUME NEW c \in Acts, Create(c) PROVE Emptied' /\ ProfileWhole'
  <2> SUFFICES ASSUME ~mixed PROVE Emptied' /\ ProfileWhole'
    BY <1>6 DEF Create, Emptied, ProfileWhole
  <2>1. stage[c] = "creating" /\ lojas = {} /\ \A d \in Acts : stage[d] = "creating" => c = d
    BY <1>6 DEF Create, Emptied
  <2>2. stage' = [stage EXCEPT ![c] = "over"] /\ lojas' = pedido[c] /\ ultimo' = pedido[c]
    BY <1>6, <2>1 DEF Create, Becomes
  <2>3. \A d \in Acts : stage'[d] # "creating"
    BY <2>1, <2>2 DEF AccessTypeOK
  <2>4. QED
    BY <2>2, <2>3 DEF Emptied, ProfileWhole
<1>7. ASSUME NEW c \in Acts, Stop(c) PROVE Emptied' /\ ProfileWhole'
  <2>1. CASE stage[c] = "comparing"
    BY <1>7, <1>a, <2>1 DEF Stop, Stages
  <2>2. CASE stage[c] # "comparing"
    <3>1. /\ stage[c] = "creating" /\ stage' = [stage EXCEPT ![c] = "interrupted"]
          /\ UNCHANGED profileVars
      BY <1>7, <2>2 DEF Stop, Becomes
    <3>2. \A d \in Acts : stage'[d] = "creating" => stage[d] = "creating"
      BY <3>1 DEF AccessTypeOK
    <3>3. Emptied'
      BY <3>1, <3>2 DEF Emptied, profileVars
    <3>4. ~mixed => lojas' = {} /\ stage'[c] = "interrupted"
      BY <3>1 DEF AccessTypeOK, Emptied, profileVars
    <3>5. ProfileWhole'
      BY <3>1, <3>4 DEF ProfileWhole, profileVars
    <3>6. QED
      BY <3>3, <3>5
  <2>3. QED
    BY <2>1, <2>2
<1>8. CASE Elapse
  BY <1>8 DEF Elapse, Emptied, ProfileWhole, profileVars
<1>9. CASE UNCHANGED accessVars
  BY <1>9 DEF accessVars, Emptied, ProfileWhole, profileVars
<1>10. QED
  BY <1>1, <1>2, <1>3, <1>4, <1>5, <1>6, <1>7, <1>8, <1>9 DEF AccessNext

LEMMA AccessInvInit == AccessInit => AccessInv
<1> SUFFICES ASSUME AccessInit PROVE AccessInv
  OBVIOUS
<1>1. AccessTypeOK
  BY AccessTypeInit
<1>2. Fresh /\ Emptied /\ ProfileWhole
  BY DEF AccessInit, Fresh, Emptied, ProfileWhole
<1>3. Earned
  <2>1. IsFiniteSet({}) /\ Cardinality({}) = 0
    BY FS_EmptySet
  <2>2. QED
    BY <2>1 DEF AccessInit, Earned
<1>4. CountedInTurn
  <2>1. (lockedUntil # "none") = FALSE
    BY DEF AccessInit
  <2>2. Lido = Zero
    BY <2>1 DEF AccessInit, Lido, Zero
  <2>3. QED
    BY <2>2 DEF AccessInit, CountedInTurn
<1>5. QED
  BY <1>1, <1>2, <1>3, <1>4 DEF AccessInv

LEMMA AccessInvNext == AccessInv /\ [AccessNext]_accessVars => AccessInv'
BY AccessTypeNext, FreshNext, EarnedNext, CountedNext, ProfileNext DEF AccessInv

\* The row a login compares against, the wrong passwords behind every count, and the stores
\* between the queries of an update are as AccessInv says, whatever overlaps.
THEOREM AccessInvariant == AccessSpec => []AccessInv
<1>1. QED
  BY AccessInvInit, AccessInvNext, PTL DEF AccessSpec

\* For any number of requests and of attempts, an account is only locked after as many wrong
\* passwords as lock it (auth.service.ts:32-33, 267-276).
THEOREM EarnedTheorem == AccessSpec => []LockEarned
<1>1. AccessInv => LockEarned
  BY DEF AccessInv, Earned, LockEarned
<1>2. QED
  BY <1>1, AccessInvariant, PTL

\* As long as no login writes on a row that was written since it read it, the columns are those
\* of a counter of one step (schema.prisma:653).
THEOREM CountedTheorem == AccessSpec => []CountedInTurn
<1>1. AccessInv => CountedInTurn
  BY DEF AccessInv
<1>2. QED
  BY <1>1, AccessInvariant, PTL

\* A profile has the stores its last update asked for, unless updates ran together: only one
\* between its queries leaves it without any (perfis.controller.ts:54-65).
THEOREM ProfileTheorem == AccessSpec => []ProfileWhole
<1>1. AccessInv => ProfileWhole
  BY DEF AccessInv
<1>2. QED
  BY <1>1, AccessInvariant, PTL

\* Only its time, a release, or a login that had read the row before takes a lock away
\* (auth.service.ts:55, 274).
THEOREM StandsTheorem == AccessSpec => LockStands
<1> DEFINE Lifted == lockedUntil = "future" /\ lockedUntil' = "none"
<1>1. AccessInv /\ [AccessNext]_accessVars
         => [Lifted => \E c \in Acts : LiftedBy(c)]_accessVars
  <2> SUFFICES ASSUME AccessInv, [AccessNext]_accessVars, Lifted
               PROVE \E c \in Acts : LiftedBy(c)
    OBVIOUS
  <2>a. stage \in [Acts -> Stages] /\ Fresh
    BY DEF AccessInv, AccessTypeOK
  <2>b. ASSUME NEW c \in Acts, stage[c] = "comparing", Becomes(c, "over")
        PROVE LiftedBy(c)
    BY <2>a, <2>b DEF Fresh, LiftedBy, Becomes
  <2>1. ASSUME NEW c \in Acts, RegistrarFalha(c) PROVE LiftedBy(c)
    BY <2>1, <2>b DEF RegistrarFalha
  <2>2. ASSUME NEW c \in Acts, Accept(c) PROVE LiftedBy(c)
    BY <2>2, <2>b DEF Accept
  <2>3. ASSUME NEW c \in Acts, Release(c) PROVE LiftedBy(c)
    BY <2>3, <2>a DEF Release, LiftedBy, Becomes
  <2>4. ASSUME NEW c \in Acts, Find(c) \/ Create(c) \/ Stop(c) PROVE FALSE
    BY <2>4 DEF Find, Create, Stop, rowVars
  <2>5. ASSUME NEW c \in Acts, NEW S \in SUBSET Lojas, Empty(c, S) PROVE FALSE
    BY <2>5 DEF Empty, rowVars
  <2>6. ~Elapse /\ ~UNCHANGED accessVars
    BY DEF Elapse, accessVars, rowVars
  <2>7. QED
    BY <2>1, <2>2, <2>3, <2>4, <2>5, <2>6 DEF AccessNext
<1>2. QED
  BY <1>1, AccessInvariant, PTL DEF AccessSpec, LockStands
=============================================================================
