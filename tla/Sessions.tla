------------------------------ MODULE Sessions ------------------------------
(***************************************************************************)
(* The sessions of one user account: what login, refresh, change of        *)
(* password, logout and the guard of every route do to the keys            *)
(* session:active, session:revoked and session:seen in Redis               *)
(* (session-revocation.service.ts, auth.service.ts, jwt-auth.guard.ts).    *)
(*                                                                         *)
(* Every request is a handler with one action per call to Redis; between   *)
(* two calls the other requests run. A request that issues a token gives   *)
(* it a fresh jti, so the request names the token. A page stands for every *)
(* other route, and for requests refused by a later check (scope, billing, *)
(* the old password): none of these touches the keys. A change of password *)
(* goes through the same calls as a refresh.                               *)
(***************************************************************************)
EXTENDS Naturals, FiniteSets

CONSTANTS
    Requests,  \* requests that may arrive, each once
    NoToken,
    MaxFaults, \* bound on the calls to Redis that fail
    MaxAged    \* bound on the tokens that lapse or expire

ASSUME SessionsAssumption ==
    /\ NoToken \notin Requests
    /\ MaxFaults \in Nat
    /\ MaxAged \in Nat

VARIABLES
    kind,      \* what each request asks for
    presents,  \* the token it presents
    pc,        \* the call to Redis its handler is about to make
    then,      \* where the handler goes after a revocation
    anterior,  \* the session a registration read as the active one
    verdict,   \* what the guard decided
    revoked,   \* session:revoked:<jti>, with its motive
    active,    \* session:active:<userId>
    seen,      \* the tokens with a session:seen:<jti>
    expired,   \* tokens past their exp
    faults,    \* calls to Redis that failed
    doomed,    \* history: requests whose token was revoked when they arrived
    lapsed,    \* history: tokens that were inactive for 10 minutes
    overlapped \* history: two requests that issue tokens were under way together

handlerVars == <<kind, presents, pc, then, anterior, verdict>>
redisVars   == <<revoked, active, seen>>
historyVars == <<doomed, lapsed, overlapped>>
vars        == <<handlerVars, redisVars, expired, faults, historyVars>>

Motivo == {"logout", "outro_dispositivo", "inatividade", "troca_de_escopo"}
Kind   == {"login", "page", "refresh", "logout"}
Pc     == {"none", "revocation", "inactivity", "touching", "revoking", "clearing",
           "reading", "activating", "opening", "over"}
Then   == {"none", "rejected", "over", "reading", "activating"}

TypeOK ==
    /\ kind       \in [Requests -> Kind \cup {"none"}]
    /\ presents   \in [Requests -> Requests \cup {NoToken}]
    /\ pc         \in [Requests -> Pc]
    /\ then       \in [Requests -> Then]
    /\ anterior   \in [Requests -> Requests \cup {NoToken}]
    /\ verdict    \in [Requests -> Motivo \cup {"none", "accepted"}]
    /\ revoked    \in [Requests -> Motivo \cup {"none"}]
    /\ active     \in Requests \cup {NoToken}
    /\ seen       \subseteq Requests
    /\ expired    \subseteq Requests
    /\ faults     \in 0 .. MaxFaults
    /\ doomed     \subseteq Requests
    /\ lapsed     \subseteq Requests
    /\ overlapped \in BOOLEAN

Issuing == {r \in Requests : kind[r] \in {"login", "refresh"} /\ pc[r] # "over"}

\* The cookie with the token has left for the browser.
Issued(t) == kind[t] \in {"login", "refresh"} /\ pc[t] = "over" /\ verdict[t] = "accepted"
Valid(t)  == Issued(t) /\ t \notin expired /\ revoked[t] = "none"

Init ==
    /\ kind       = [r \in Requests |-> "none"]
    /\ presents   = [r \in Requests |-> NoToken]
    /\ pc         = [r \in Requests |-> "none"]
    /\ then       = [r \in Requests |-> "none"]
    /\ anterior   = [r \in Requests |-> NoToken]
    /\ verdict    = [r \in Requests |-> "none"]
    /\ revoked    = [r \in Requests |-> "none"]
    /\ active     = NoToken
    /\ seen       = {}
    /\ expired    = {}
    /\ faults     = 0
    /\ doomed     = {}
    /\ lapsed     = {}
    /\ overlapped = FALSE

Goto(r, where) == pc' = [pc EXCEPT ![r] = where]
Decide(r, what) == verdict' = [verdict EXCEPT ![r] = what]

Works == faults' = faults
Breaks ==
    /\ faults < MaxFaults
    /\ faults' = faults + 1

-----------------------------------------------------------------------------
(* The calls of a handler.                                                 *)

\* revoke(jti, exp, motivo) is called from four places; `then` tells which one.
Victim(r) == IF then[r] = "activating" THEN anterior[r] ELSE presents[r]
\* A plausible bug: inatividade and outro_dispositivo are mixed up.
MotiveMixedUp(r) ==
    CASE then[r] = "over"    -> "logout"
      [] then[r] = "reading" -> "troca_de_escopo"
      [] OTHER               -> "outro_dispositivo"

Motive(r) ==
    CASE then[r] = "rejected"   -> "inatividade"
      [] then[r] = "over"       -> "logout"
      [] then[r] = "reading"    -> "troca_de_escopo"
      [] then[r] = "activating" -> "outro_dispositivo"
      [] OTHER                  -> "logout"

StartRevoke(r, next) ==
    /\ then' = [then EXCEPT ![r] = next]
    /\ Goto(r, "revoking")

\* The guard throws only once the idle session has been revoked.
Continue(r) ==
    IF then[r] = "rejected"
    THEN Goto(r, "over") /\ Decide(r, "inatividade")
    ELSE Goto(r, then[r]) /\ UNCHANGED verdict

-----------------------------------------------------------------------------
(* Plausible bugs: each replaces the action it is named after, to show that *)
(* a property notices it.                                                  *)

\* An error of Redis counts as "not revoked".
RevocationUnknownFailsOpen(r) ==
    /\ pc[r] = "revocation"
    /\ Breaks
    /\ Goto(r, "inactivity")
    /\ UNCHANGED <<kind, presents, then, anterior, verdict, redisVars, expired, historyVars>>

\* A new session does not start its window of inactivity.
OpenUnseen(r) ==
    /\ pc[r] = "opening"
    /\ Works
    /\ Goto(r, "over")
    /\ UNCHANGED <<kind, presents, then, anterior, verdict, redisVars, expired, historyVars>>

\* The previous session is replaced without being revoked.
ReadOnly(r) ==
    /\ pc[r] = "reading"
    /\ Works
    /\ anterior' = [anterior EXCEPT ![r] = active]
    /\ Goto(r, "activating")
    /\ UNCHANGED <<kind, presents, then, verdict, redisVars, expired, historyVars>>

-----------------------------------------------------------------------------
(* Requests arrive.                                                        *)

Arrive(r, k, t, where) ==
    /\ kind[r] = "none"
    /\ kind'     = [kind EXCEPT ![r] = k]
    /\ presents' = [presents EXCEPT ![r] = t]
    /\ Goto(r, where)
    /\ overlapped' = (overlapped \/ (k \in {"login", "refresh"} /\ Issuing # {}))
    /\ UNCHANGED <<then, anterior, redisVars, expired, faults, lapsed>>

\* The password was right (AuthService.login).
Login(r) ==
    /\ Arrive(r, "login", NoToken, "reading")
    /\ Decide(r, "accepted")
    /\ UNCHANGED doomed

\* A token past its exp is refused by jwt.verify before Redis is asked.
Request(r, k, t) ==
    /\ Issued(t)
    /\ t \notin expired
    /\ Arrive(r, k, t, "revocation")
    /\ doomed' = IF revoked[t] = "none" THEN doomed ELSE doomed \cup {r}
    /\ UNCHANGED verdict

-----------------------------------------------------------------------------
(* JwtAuthGuard.                                                           *)

Refuse(r, motive) == Goto(r, "over") /\ Decide(r, motive)

CheckRevocation(r) ==
    LET motive == revoked[presents[r]] IN
    /\ pc[r] = "revocation"
    /\ Works
    /\ IF motive = "none" THEN Goto(r, "inactivity") /\ UNCHANGED verdict
                          ELSE Refuse(r, motive)
    /\ UNCHANGED <<kind, presents, then, anterior, redisVars, expired, historyVars>>

\* It fails closed.
RevocationUnknown(r) ==
    /\ pc[r] = "revocation"
    /\ Breaks
    /\ Refuse(r, "logout")
    /\ UNCHANGED <<kind, presents, then, anterior, redisVars, expired, historyVars>>

CheckInactivity(r) ==
    /\ pc[r] = "inactivity"
    /\ Works
    /\ IF presents[r] \in seen THEN Goto(r, "touching") /\ UNCHANGED then
                               ELSE StartRevoke(r, "rejected")
    /\ UNCHANGED <<kind, presents, anterior, verdict, redisVars, expired, historyVars>>

\* It fails open.
InactivityUnknown(r) ==
    /\ pc[r] = "inactivity"
    /\ Breaks
    /\ Goto(r, "touching")
    /\ UNCHANGED <<kind, presents, then, anterior, verdict, redisVars, expired, historyVars>>

\* marcarAtividade, whose error is logged, and on to the route.
Touch(r) ==
    /\ pc[r] = "touching"
    /\ \/ Works  /\ seen' = seen \cup {presents[r]}
       \/ Breaks /\ seen' = seen
    /\ Decide(r, "accepted")
    /\ CASE kind[r] = "logout"  -> StartRevoke(r, "over")
         [] kind[r] = "refresh" -> StartRevoke(r, "reading")
         [] OTHER               -> Goto(r, "over") /\ UNCHANGED then
    /\ UNCHANGED <<kind, presents, anterior, revoked, active, expired, historyVars>>

-----------------------------------------------------------------------------
(* revoke.                                                                 *)

\* A token without time left needs no entry; a replaced one gets the exp of its
\* successor.
Revoke(r) ==
    /\ pc[r] = "revoking"
    /\ Works
    /\ IF Victim(r) \in expired /\ then[r] # "activating"
       THEN Continue(r) /\ UNCHANGED revoked
       ELSE /\ revoked' = [revoked EXCEPT ![Victim(r)] = Motive(r)]
            /\ Goto(r, "clearing")
            /\ UNCHANGED verdict
    /\ UNCHANGED <<kind, presents, then, anterior, active, seen, expired, historyVars>>

Clear(r) ==
    /\ pc[r] = "clearing"
    /\ Works
    /\ seen' = seen \ {Victim(r)}
    /\ Continue(r)
    /\ UNCHANGED <<kind, presents, then, anterior, revoked, active, expired, historyVars>>

\* An error is logged and the caller goes on.
RevokeFails(r) ==
    /\ pc[r] \in {"revoking", "clearing"}
    /\ Breaks
    /\ Continue(r)
    /\ UNCHANGED <<kind, presents, then, anterior, redisVars, expired, historyVars>>

-----------------------------------------------------------------------------
(* registrarSessaoAtiva, for the token named by the request.               *)

Read(r) ==
    /\ pc[r] = "reading"
    /\ Works
    /\ anterior' = [anterior EXCEPT ![r] = active]
    /\ IF active = NoToken THEN Goto(r, "activating") /\ UNCHANGED then
                           ELSE StartRevoke(r, "activating")
    /\ UNCHANGED <<kind, presents, verdict, redisVars, expired, historyVars>>

Activate(r) ==
    /\ pc[r] = "activating"
    /\ Works
    /\ active' = r
    /\ Goto(r, "opening")
    /\ UNCHANGED <<kind, presents, then, anterior, verdict, revoked, seen, expired, historyVars>>

Open(r) ==
    /\ pc[r] = "opening"
    /\ Works
    /\ seen' = seen \cup {r}
    /\ Goto(r, "over")
    /\ UNCHANGED <<kind, presents, then, anterior, verdict, revoked, active, expired, historyVars>>

\* Any error ends the registration, and the token is handed out all the same.
RegisterFails(r) ==
    /\ pc[r] \in {"reading", "activating", "opening"}
    /\ Breaks
    /\ Goto(r, "over")
    /\ UNCHANGED <<kind, presents, then, anterior, verdict, redisVars, expired, historyVars>>

-----------------------------------------------------------------------------
(* Time.                                                                   *)

Ages(t) == Cardinality(lapsed \cup expired \cup {t}) <= MaxAged

\* session:seen:<jti> expires after 10 minutes without a request.
Lapse(t) ==
    /\ t \in seen
    /\ Ages(t)
    /\ seen'   = seen \ {t}
    /\ lapsed' = lapsed \cup {t}
    /\ UNCHANGED <<handlerVars, revoked, active, expired, faults, doomed, overlapped>>

\* The token's 15 minutes end, and session:active:<userId> with them.
Expire(t) ==
    /\ Issued(t)
    /\ t \notin expired
    /\ Ages(t)
    /\ expired' = expired \cup {t}
    /\ active'  = IF active = t THEN NoToken ELSE active
    /\ UNCHANGED <<handlerVars, revoked, seen, faults, historyVars>>

Guard(r) == \/ CheckRevocation(r) \/ RevocationUnknown(r)
            \/ CheckInactivity(r) \/ InactivityUnknown(r) \/ Touch(r)
Register(r) == Read(r) \/ Activate(r) \/ Open(r) \/ RegisterFails(r)

Next ==
    \/ \E r \in Requests :
          \/ Login(r)
          \/ \E t \in Requests, k \in {"page", "refresh", "logout"} : Request(r, k, t)
          \/ Guard(r)
          \/ Revoke(r) \/ Clear(r) \/ RevokeFails(r)
          \/ Register(r)
    \/ \E t \in Requests : Lapse(t) \/ Expire(t)

Spec == Init /\ [][Next]_vars

-----------------------------------------------------------------------------
(* Properties.                                                             *)

\* A request that arrives with a token revoked by then is never let through,
\* whatever fails and whoever else writes the keys meanwhile: the list fails
\* closed (session-revocation.service.ts:95-107).
RevokedStaysOut == \A r \in doomed : verdict[r] # "accepted"

\* One account, one session (session-revocation.service.ts:31): as long as Redis
\* answers and no two requests issue tokens at the same time, at most one token
\* is good. The read and the write of session:active are not atomic, so two
\* logins at once leave two.
SerialSingleSession ==
    ~overlapped /\ faults = 0 => \A t, u \in Requests : Valid(t) /\ Valid(u) => t = u

\* Who works is not logged out (session-revocation.service.ts:36-40): inactivity
\* is only blamed on a token that was inactive for 10 minutes, unless it had
\* been revoked meanwhile for another reason or Redis failed.
RevokedBy(q, t) ==
    \/ anterior[q] = t
    \/ presents[q] = t /\ kind[q] \in {"logout", "refresh"} /\ verdict[q] = "accepted"
Reason(t) == t \in lapsed \/ \E q \in Requests : RevokedBy(q, t)
InactivityHasReason ==
    faults = 0 => \A r \in Requests : verdict[r] = "inatividade" => Reason(presents[r])

\* Devices that log in and refresh at once never push one another out
\* altogether: once they are done, and nobody logged out or stayed away, one of
\* them has a good session.
SomeoneIsIn ==
    /\ \A r \in Requests : pc[r] \in {"none", "over"} /\ kind[r] # "logout"
    /\ \E r \in Requests : kind[r] = "login"
    /\ lapsed = {} /\ expired = {} /\ faults = 0
    => \E t \in Requests : Valid(t)

\* session-revocation.service.ts:6-9, 15: who is told that the account was used on another
\* device learns that somebody else is using it. Said to a request whose session was
\* replaced, the message means that somebody logged in. The code breaks it: refresh
\* revokes the session it renews (auth.service.ts:106), and the registration of the new one
\* revokes it again, with the motive of another device;
\* no run checks it, and README.md shows how.
OtherDeviceLoggedIn ==
    \A r \in Requests : verdict[r] = "outro_dispositivo" =>
        \E q \in Requests : kind[q] = "login" /\ anterior[q] = presents[r]

\* There is no third way: whoever is told so had the session replaced by a login or by its
\* own renewal, unless registrations overlapped or Redis failed - only then does the
\* renewal of one session push out another (session-revocation.service.ts:129-135).
RenewsNoOther(q) ==
    kind[q] = "refresh" => presents[q] = anterior[q] \/ overlapped \/ faults > 0
ReplacedOrRenewed ==
    \A r \in Requests : verdict[r] = "outro_dispositivo" =>
        \E q \in Requests : anterior[q] = presents[r] /\ RenewsNoOther(q)

-----------------------------------------------------------------------------
(* The inductive invariant behind the properties (Sessions_proofs).        *)

\* How far a handler of each kind gets.
Staged ==
    \A r \in Requests :
        /\ kind[r] = "none" <=> pc[r] = "none"
        /\ kind[r] = "none" => verdict[r] = "none"
        /\ pc[r] \in {"revocation", "inactivity", "touching"} =>
               presents[r] \in Requests /\ kind[r] # "login"
        /\ pc[r] \in {"reading", "activating", "opening"} => kind[r] \in {"login", "refresh"}
        /\ pc[r] \in {"revoking", "clearing"} =>
               \/ then[r] = "rejected"
               \/ then[r] = "over"     /\ kind[r] = "logout"
               \/ then[r] \in {"reading", "activating"} /\ kind[r] \in {"login", "refresh"}

\* A token is revoked for good, so its request cannot get past the first check.
DoomedAreStopped ==
    \A r \in doomed :
        /\ presents[r] \in Requests
        /\ revoked[presents[r]] # "none"
        /\ pc[r] \in {"revocation", "over"}
        /\ verdict[r] # "accepted"

\* The steps of a registration: it is about to revoke the session it read, it has
\* done so.
Replacing(r) == pc[r] = "revoking" /\ then[r] = "activating"
Replaced(r) ==
    \/ pc[r] \in {"activating", "opening"}
    \/ pc[r] = "clearing" /\ then[r] = "activating"

\* The good token is the active one until a registration has revoked it.
Serial ==
    ~overlapped /\ faults = 0 =>
        /\ \A q, r \in Issuing : q = r
        /\ \A t \in Requests : Valid(t) => t = active
        /\ \A r, t \in Requests : Replacing(r) /\ Valid(t) => t = anterior[r]
        /\ \A r, t \in Requests : Replaced(r) => ~Valid(t)
        /\ \A r \in Requests : pc[r] = "opening" => active = r

\* A request is judged once, before it goes on, and reads an older session only as
\* it registers.
Judged ==
    \A r \in Requests :
        /\ pc[r] \in {"none", "revocation", "inactivity", "touching"} => verdict[r] = "none"
        /\ verdict[r] = "inatividade" => presents[r] \in Requests
        /\ pc[r] \in {"revocation", "inactivity"} => Issued(presents[r])
        /\ pc[r] \in {"revoking", "clearing"} =>
               /\ then[r] = "rejected" => verdict[r] = "none" /\ presents[r] \in Requests
               /\ then[r] \in {"over", "reading"} =>
                      verdict[r] = "accepted" /\ kind[r] \in {"logout", "refresh"}
        /\ \/ pc[r] \in {"none", "revocation", "inactivity", "touching", "reading"}
           \/ pc[r] \in {"revoking", "clearing"} /\ then[r] # "activating"
           => anterior[r] = NoToken

\* As long as Redis answers, a token leaves session:seen for a reason only.
Seen ==
    faults = 0 =>
        /\ \A t \in Requests : Issued(t) => t \in seen \/ Reason(t)
        /\ \A t \in Requests : revoked[t] = "inatividade" => Reason(t)
        /\ \A r \in Requests : verdict[r] = "inatividade" => Reason(presents[r])
        /\ \A r \in Requests :
               pc[r] \in {"revoking", "clearing"} /\ then[r] = "rejected" => Reason(presents[r])

\* Only a token whose registration is past the write of session:active is ever read
\* there, presented or revoked.
Begun(t) ==
    kind[t] \in {"login", "refresh"} /\ verdict[t] = "accepted" /\ pc[t] \in {"opening", "over"}
Known ==
    /\ active # NoToken => Begun(active)
    /\ \A r \in Requests :
           /\ anterior[r] # NoToken => Begun(anterior[r])
           /\ presents[r] # NoToken => Issued(presents[r])
           /\ revoked[r] # "none" => Begun(r)
           /\ kind[r] = "login" => verdict[r] = "accepted"
           /\ \/ pc[r] \in {"reading", "activating", "opening"}
              \/ pc[r] \in {"revoking", "clearing"} /\ then[r] = "activating"
              => verdict[r] = "accepted"

\* While nobody logs out, nothing lapses and Redis answers, the active session is
\* good, unless a registration is going to replace it.
Calm == faults = 0 /\ lapsed = {} /\ expired = {} /\ \A r \in Requests : kind[r] # "logout"
Replaces(q, t) ==
    /\ pc[q] \in {"reading", "activating", "revoking", "clearing"}
    /\ \/ anterior[q] = t
       \/ presents[q] = t /\ kind[q] = "refresh" /\ verdict[q] = "accepted"
Held ==
    Calm =>
        /\ active # NoToken =>
               \/ revoked[active] = "none" /\ (active \in seen \/ pc[active] = "opening")
               \/ \E q \in Requests : Replaces(q, active)
        /\ active = NoToken => \A r \in Requests : ~Begun(r)
        /\ \A r \in Requests :
               /\ pc[r] \in {"revoking", "clearing"} /\ then[r] = "rejected"
               /\ presents[r] = active
               => \E q \in Requests : Replaces(q, active)

\* A refresh alone with its token renews the active session, or one that has expired.
Renews(q) ==
    /\ kind[q] = "refresh"
    /\ \/ pc[q] = "revocation" /\ revoked[presents[q]] = "none"
       \/ pc[q] \in {"inactivity", "touching", "reading"}
       \/ pc[q] \in {"revoking", "clearing"} /\ then[q] = "reading"
Renewing ==
    ~overlapped /\ faults = 0 => \A q \in Requests :
        /\ Renews(q) => active \in {presents[q], NoToken}
        /\ kind[q] = "refresh" /\ anterior[q] # NoToken => anterior[q] = presents[q]

\* Who is blamed on another device was read as the session to replace.
ReadBy(t) == t # NoToken /\ \E q \in Requests : anterior[q] = t
Replacements ==
    \A r \in Requests :
        /\ revoked[r] = "outro_dispositivo" => ReadBy(r)
        /\ verdict[r] = "outro_dispositivo" => ReadBy(presents[r])
        /\ pc[r] \in {"revoking", "clearing"} /\ then[r] = "activating" => anterior[r] # NoToken

\* All of it is inductive.
IInv ==
    /\ TypeOK /\ Staged /\ DoomedAreStopped /\ Serial /\ Judged /\ Seen /\ Known /\ Held
    /\ Renewing /\ Replacements
=============================================================================
