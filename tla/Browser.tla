------------------------------- MODULE Browser -------------------------------
(***************************************************************************)
(* One browser with several tabs of the dashboard, signed in with one      *)
(* account: the session cookie the tabs share, the user cached for all of  *)
(* them, the store each tab keeps for itself, and the requests in flight   *)
(* (lib/api.ts, SessionKeepAlive.tsx, the dashboard's layout.tsx), with    *)
(* the server at the other end of them (auth.controller.ts,                *)
(* auth.service.ts, session-scope.service.ts).                             *)
(*                                                                         *)
(* A request takes its token and its headers when it is sent; the server   *)
(* handles it in one step, since Sessions has its interleavings; and the   *)
(* reply is applied when it arrives, if its page is still there.  Tokens   *)
(* are numbered as they are issued.  An account that may enter every store *)
(* stands for all accounts.                                                *)
(***************************************************************************)
EXTENDS Naturals, Sequences, FiniteSets

CONSTANTS
    Tabs, Stores,
    Flights,    \* the requests that may be in flight at a time
    Default,    \* the store a login starts in
    Nulo,
    MaxTokens,  \* bound on the tokens issued
    MaxEvents   \* bound on the kinds of mishaps of one run

\* Requests whose answer carries another cookie, and all of them.
Turning == {"login", "refresh", "password", "logout"}
Kind    == Turning \cup {"me", "check", "switch", "work"}

Tokens == 0 .. MaxTokens
Store  == Stores \cup {Nulo}
Reply  == [ok : BOOLEAN, jti : Tokens, store : Store]
Flight == [tab : Tabs \cup {Nulo}, kind : Kind, token : Tokens, header : Store,
           keeps : Store \cup Tokens, there : BOOLEAN, reply : Reply \cup {Nulo}]
Session == [by : Tabs \cup {Nulo}, how : {"login", "refresh", "password"}, store : Stores]

ASSUME BrowserAssumption ==
    /\ Default \in Stores
    /\ MaxTokens \in Nat /\ MaxEvents \in Nat
    /\ Nulo \notin Tabs \cup Stores \cup Tokens \cup Reply \cup Flight

VARIABLES
    cookie,  \* the token in the browser's cookie, 0 without one
    cached,  \* localStorage: there is a cached user
    page,    \* what each tab is at
    scope,   \* sessionStorage of each tab: its store
    known,   \* sessionStorage of each tab: the token it knows, or 0
    shown,   \* the store its selector shows
    warned,  \* it says that the account was entered elsewhere
    flight,  \* the requests in flight
    good,    \* the one token the server accepts, or 0
    issued,  \* of the tokens issued so far: by whom, how, and their store
    events   \* history: what has happened that may cost somebody the session

browserVars == <<cookie, cached>>
tabVars     == <<page, scope, known, shown, warned>>
serverVars  == <<good, issued>>
vars == <<browserVars, tabVars, flight, serverVars, events>>

Page   == {"closed", "login", "password", "opening", "home"}
Inside == {"password", "opening", "home"}
Event  == {"overlap", "cut", "lost", "elsewhere", "lapse", "logout", "typo", "late"}

TypeOK ==
    /\ cookie \in Tokens
    /\ cached \in BOOLEAN
    /\ page   \in [Tabs -> Page]
    /\ scope  \in [Tabs -> Store]
    /\ known  \in [Tabs -> Tokens]
    /\ shown  \in [Tabs -> Store]
    /\ warned \in [Tabs -> BOOLEAN]
    /\ flight \in [Flights -> Flight \cup {Nulo}]
    /\ \A f \in Flights : flight[f] # Nulo =>
          /\ flight[f].kind = "switch" => flight[f].keeps \in Stores
          /\ flight[f].tab = Nulo => flight[f].kind \in Turning /\ flight[f].reply = Nulo
    /\ issued \in Seq(Session)
    /\ good   \in 0 .. Len(issued) /\ Len(issued) <= MaxTokens
    /\ events \subseteq Event

Init ==
    /\ cookie = 0 /\ cached = FALSE
    /\ page   = [t \in Tabs |-> "closed"]
    /\ scope  = [t \in Tabs |-> Nulo]
    /\ known  = [t \in Tabs |-> 0]
    /\ shown  = [t \in Tabs |-> Nulo]
    /\ warned = [t \in Tabs |-> FALSE]
    /\ flight = [f \in Flights |-> Nulo]
    /\ good   = 0 /\ issued = <<>>
    /\ events = {}

Flying == {f \in Flights : flight[f] # Nulo}
Waiting(f) == flight[f] # Nulo /\ flight[f].reply = Nulo
Of(t, K) == {f \in Flying : flight[f].tab = t /\ flight[f].kind \in K}
Happens(E) ==
    /\ Cardinality(events \cup E) <= MaxEvents
    /\ events' = events \cup E
If(happened, e) == IF happened THEN {e} ELSE {}

\* The reply is there, and after it the request is over.
Answered(f, K) ==
    /\ flight[f] # Nulo /\ flight[f].reply # Nulo
    /\ flight[f].kind \in K
Done(f) == flight' = [flight EXCEPT ![f] = Nulo]

-----------------------------------------------------------------------------
(* Plausible bugs: each replaces the definition it is named after, to show  *)
(* that a property notices it.                                             *)

\* The store of the session goes before the tab's.
ResolvedByToken(q) == issued[q.token].store

\* The reply of a renewal carries no cookie, as that of a switch.
RenewedUncookied(f) ==
    LET q == flight[f] IN
    /\ Answered(f, {"refresh"}) /\ q.reply.ok
    /\ known'  = [known EXCEPT ![q.tab] = q.reply.jti]
    /\ Done(f)
    /\ UNCHANGED <<browserVars, page, scope, shown, warned, serverVars, events>>

\* A renewal does not note its token, as a change of password does not.
RenewedUnnoted(f) ==
    LET q == flight[f] IN
    /\ Answered(f, {"refresh"}) /\ q.reply.ok
    /\ cookie' = q.reply.jti
    /\ Done(f)
    /\ UNCHANGED <<cached, tabVars, serverVars, events>>

-----------------------------------------------------------------------------
(* What the tabs send.                                                     *)

\* What the code keeps over the await: the store chosen, the token known, the store seen.
Request(t, k, keeps) ==
    [tab |-> t, kind |-> k, token |-> cookie, header |-> scope[t], keeps |-> keeps,
     there |-> TRUE, reply |-> Nulo]

\* Requests overlap when one was sent before, and arrives after, another turned the cookie.
Send(t, f, k, keeps) ==
    /\ flight[f] = Nulo
    /\ flight' = [flight EXCEPT ![f] = Request(t, k, keeps)]
    /\ Happens(If(\E g \in Flying : k \in Turning \/ flight[g].kind \in Turning, "overlap")
               \cup If(Of(t, {"me", "switch"} \ {k}) # {} /\ k \in {"me", "switch"}, "late"))
    /\ UNCHANGED serverVars

\* A new tab has a storage of its own, and it is empty.
Open(t) ==
    /\ page[t] = "closed"
    /\ page' = [page EXCEPT ![t] = "opening"]
    /\ UNCHANGED <<browserVars, scope, known, shown, warned, flight, serverVars, events>>

\* The dashboard asks who is signed in, unless the cache has nobody.
Enter(t, f) ==
    /\ page[t] = "opening"
    /\ IF ~cached
       THEN /\ page' = [page EXCEPT ![t] = "login"]
            /\ UNCHANGED <<flight, serverVars, events>>
       ELSE /\ page' = [page EXCEPT ![t] = "home"]
            /\ Send(t, f, "me", Nulo)
    /\ UNCHANGED <<browserVars, scope, known, shown, warned>>

Ask(t, f, at, k, keeps) ==
    /\ page[t] = at
    /\ Send(t, f, k, keeps)
    /\ UNCHANGED <<browserVars, tabVars>>

\* The forms and the selector are disabled while their request is under way; a renewal
\* is started by any event, once four minutes have passed since the last one ended.
Login(t, f)     == Of(t, {"login"}) = {} /\ Ask(t, f, "login", "login", Nulo)
Password(t, f)  == Of(t, {"password"}) = {} /\ Ask(t, f, "password", "password", Nulo)
Switch(t, f, s) ==
    /\ \A g \in Of(t, {"switch"}) : ~flight[g].there
    /\ s # shown[t]
    /\ Ask(t, f, "home", "switch", s)
Refresh(t, f)   == Ask(t, f, "home", "refresh", Nulo)
Check(t, f)     == known[t] # 0 /\ Ask(t, f, "home", "check", known[t])
Work(t, f)      == Ask(t, f, "home", "work", shown[t])

\* The page is left: nobody waits for its requests, and one counts no longer unless
\* the server has yet to turn the cookie for it.
Leave(t, to) ==
    /\ page'   = [page EXCEPT ![t] = to]
    /\ shown'  = [shown EXCEPT ![t] = Nulo]
    /\ warned' = [warned EXCEPT ![t] = FALSE]
Abandon(t) ==
    flight' = [f \in Flights |->
        IF f \notin Of(t, Kind) THEN flight[f]
        ELSE IF Waiting(f) /\ flight[f].kind \in Turning THEN [flight[f] EXCEPT !.tab = Nulo]
        ELSE Nulo]

\* The login is the next page of the same script: its requests go on, but the
\* dashboard takes no notice of them any more.
Logout(t, f) ==
    /\ page[t] = "home"
    /\ flight[f] = Nulo
    /\ flight' = [g \in Flights |->
         IF g = f THEN Request(t, "logout", Nulo)
         ELSE IF g \in Of(t, Kind) THEN [flight[g] EXCEPT !.there = FALSE] ELSE flight[g]]
    /\ Happens(If(Flying # {}, "overlap"))
    /\ Leave(t, "login")
    /\ cached' = FALSE
    /\ UNCHANGED <<cookie, scope, known, serverVars>>

\* The button of the warning forgets the token the tab knew.
Reload(t) ==
    /\ page[t] = "home"
    /\ Leave(t, "opening")
    /\ known' \in {known, IF warned[t] THEN [known EXCEPT ![t] = 0] ELSE known}
    /\ Abandon(t)
    /\ Happens(If(Of(t, Turning) # {}, "cut"))
    /\ UNCHANGED <<browserVars, scope, serverVars>>

-----------------------------------------------------------------------------
(* The server.                                                             *)

Accepted(q) == q.token # 0 /\ q.token = good

\* SessionScopeService.resolver: the header wins over the store of the token.
Resolved(q) == IF q.header # Nulo THEN q.header ELSE issued[q.token].store

\* The reply needs neither the token nor the headers of its request.
Respond(f, ok, jti, store) ==
    flight' = [flight EXCEPT ![f] =
        IF @.tab = Nulo THEN Nulo
        ELSE [@ EXCEPT !.token = 0, !.header = Nulo,
                       !.reply = [ok |-> ok, jti |-> jti, store |-> store]]]

\* The guard refuses a token that is not the active one.
Refuse(f) ==
    /\ Waiting(f)
    /\ flight[f].kind # "login" /\ ~Accepted(flight[f])
    /\ Respond(f, FALSE, 0, Nulo)
    /\ UNCHANGED <<browserVars, tabVars, serverVars, events>>

\* A wrong password is a 401 as well, of a login or of a change.
Mistype(f) ==
    /\ Waiting(f)
    /\ \/ flight[f].kind = "login"
       \/ flight[f].kind = "password" /\ Accepted(flight[f])
    /\ Respond(f, FALSE, 0, Nulo)
    /\ Happens({"typo"})
    /\ UNCHANGED <<browserVars, tabVars, serverVars>>

\* emitirSessao: the new token is the only good one; a renewed one keeps the store the
\* request was made in.
Emit(by, how, store) ==
    /\ Len(issued) < MaxTokens
    /\ issued' = Append(issued, [by |-> by, how |-> how, store |-> store])
    /\ good'   = Len(issued) + 1

Issue(f) ==
    LET q == flight[f]
        store == IF q.kind = "login" THEN Default ELSE Resolved(q)
    IN
    /\ Waiting(f)
    /\ \/ q.kind = "login"
       \/ q.kind \in {"refresh", "password"} /\ Accepted(q)
    /\ Emit(q.tab, q.kind, store)
    /\ Respond(f, TRUE, good', store)
    /\ UNCHANGED <<browserVars, tabVars, events>>

\* me, a page's own requests, switch-loja (which issues no token) and logout.
Handle(f) ==
    LET q == flight[f] IN
    /\ Waiting(f)
    /\ q.kind \in {"me", "check", "work", "switch", "logout"} /\ Accepted(q)
    /\ Respond(f, TRUE, q.token, IF q.kind = "switch" THEN q.keeps ELSE Resolved(q))
    /\ good' = IF q.kind = "logout" THEN 0 ELSE good
    /\ Happens(If(q.kind = "logout", "logout"))
    /\ UNCHANGED <<browserVars, tabVars, issued>>

-----------------------------------------------------------------------------
(* Replies.                                                                *)

\* request(): any 401 clears the user of all tabs, and sends this one to the login.
Expelled(f) ==
    LET t == flight[f].tab IN
    /\ Answered(f, Kind) /\ ~flight[f].reply.ok
    /\ cached' = FALSE
    /\ IF page[t] \in Inside
       THEN /\ Leave(t, "login")
            /\ Abandon(t)
            /\ Happens(If(\E g \in Of(t, Turning) : g # f, "cut"))
       ELSE Done(f) /\ UNCHANGED <<page, shown, warned, events>>
    /\ UNCHANGED <<cookie, scope, known, serverVars>>

LoggedIn(f) ==
    LET q == flight[f] IN
    /\ Answered(f, {"login"}) /\ q.reply.ok
    /\ cookie' = q.reply.jti
    /\ cached' = TRUE
    /\ scope'  = [scope EXCEPT ![q.tab] = q.reply.store]
    /\ known'  = [known EXCEPT ![q.tab] = q.reply.jti]
    /\ page'   \in {[page EXCEPT ![q.tab] = p] : p \in {"opening", "password"}}
    /\ Done(f)
    /\ UNCHANGED <<shown, warned, serverVars, events>>

PasswordChanged(f) ==
    LET q == flight[f] IN
    /\ Answered(f, {"password"}) /\ q.reply.ok
    /\ cookie' = q.reply.jti
    /\ cached' = TRUE
    /\ page'   = [page EXCEPT ![q.tab] = "opening"]
    /\ Done(f)
    /\ UNCHANGED <<scope, known, shown, warned, serverVars, events>>

Renewed(f) ==
    LET q == flight[f] IN
    /\ Answered(f, {"refresh"}) /\ q.reply.ok
    /\ cookie' = q.reply.jti
    /\ known'  = [known EXCEPT ![q.tab] = q.reply.jti]
    /\ warned' = IF q.there THEN [warned EXCEPT ![q.tab] = FALSE] ELSE warned
    /\ Done(f)
    /\ UNCHANGED <<cached, page, scope, shown, serverVars, events>>

Told(f) ==
    LET q == flight[f] IN
    /\ Answered(f, {"me", "check", "work"}) /\ q.reply.ok
    /\ shown'  = IF q.kind = "me" /\ q.there
                 THEN [shown EXCEPT ![q.tab] = q.reply.store] ELSE shown
    /\ warned' = IF q.kind = "check" /\ q.there /\ q.reply.jti # q.keeps
                 THEN [warned EXCEPT ![q.tab] = TRUE] ELSE warned
    /\ Done(f)
    /\ UNCHANGED <<browserVars, page, scope, known, serverVars, events>>

Switched(f) ==
    LET q == flight[f] IN
    /\ Answered(f, {"switch"}) /\ q.reply.ok
    /\ cached' = TRUE
    /\ scope'  = [scope EXCEPT ![q.tab] = q.reply.store]
    /\ shown'  = IF q.there THEN [shown EXCEPT ![q.tab] = q.reply.store] ELSE shown
    /\ Done(f)
    /\ UNCHANGED <<cookie, page, known, warned, serverVars, events>>

LoggedOut(f) ==
    LET q == flight[f] IN
    /\ Answered(f, {"logout"}) /\ q.reply.ok
    /\ cookie' = 0
    /\ scope'  = [scope EXCEPT ![q.tab] = Nulo]
    /\ Done(f)
    /\ UNCHANGED <<cached, page, known, shown, warned, serverVars, events>>

\* The network loses a request or its reply.
Lose(f) ==
    /\ flight[f] # Nulo
    /\ Happens(If(~Waiting(f) /\ flight[f].kind \in Turning, "lost"))
    /\ Done(f)
    /\ UNCHANGED <<browserVars, tabVars, serverVars>>

-----------------------------------------------------------------------------
(* What the browser has no part in.                                        *)

\* Somebody enters the account on another device.
Elsewhere ==
    /\ Emit(Nulo, "login", Default)
    /\ Happens({"elsewhere"})
    /\ UNCHANGED <<browserVars, tabVars, flight>>

\* Ten minutes without a request.
Lapse ==
    /\ good # 0 /\ good' = 0
    /\ Happens({"lapse"})
    /\ UNCHANGED <<browserVars, tabVars, flight, issued>>

-----------------------------------------------------------------------------
Tab(t, f) ==
    \/ Enter(t, f) \/ Login(t, f) \/ Password(t, f) \/ Logout(t, f)
    \/ Refresh(t, f) \/ Check(t, f) \/ Work(t, f) \/ \E s \in Stores : Switch(t, f, s)
Server(f) == Refuse(f) \/ Mistype(f) \/ Issue(f) \/ Handle(f)
Arrival(f) ==
    \/ Expelled(f) \/ LoggedIn(f) \/ PasswordChanged(f) \/ Renewed(f)
    \/ Told(f) \/ Switched(f) \/ LoggedOut(f) \/ Lose(f)

Next ==
    \/ \E t \in Tabs : Open(t) \/ Reload(t) \/ \E f \in Flights : Tab(t, f)
    \/ \E f \in Flights : Server(f) \/ Arrival(f)
    \/ Elsewhere \/ Lapse

Spec == Init /\ [][Next]_vars

-----------------------------------------------------------------------------
(* Properties.                                                             *)

\* "Sessão que dura enquanto a pessoa está trabalhando" (SessionKeepAlive.tsx:7):
\* no tab is sent to the login unless the session was ended from outside, a password
\* was wrong, or a request met a turn of the cookie under way. In particular a renewal
\* that runs alone costs nobody the session, in any tab.
ThrownOutForAReason ==
    [][\A t \in Tabs : page[t] \in {"home", "password"} /\ page'[t] = "login"
           => events' # {} \/ \E f \in Flights : Logout(t, f)]_vars

\* The warning tells of somebody else (SessionKeepAlive.tsx:100-106): a token newer than
\* the tab's own came from another tab or another device - or from a change of password
\* in this one, which does not note its token (api.ts:221-228) - unless the reply with
\* the tab's own token was overtaken or never arrived.
WarningMeansSomebodyElse ==
    events \cap {"overlap", "cut", "lost"} = {} =>
        \A t \in Tabs : warned[t] =>
            \E n \in (known[t] + 1) .. Len(issued) : issued[n].by # t \/ issued[n].how = "password"

\* What is done in a tab that has a store of its own is done in the store it shows,
\* whatever the other tabs do (api.ts:37-42) - unless a store was chosen before the
\* dashboard had heard who is signed in (layout.tsx:77-83, 197-205).
WorkIn(f, own) ==
    LET q == flight[f] IN
    /\ Handle(f) /\ q.kind = "work" /\ q.keeps # Nulo
    /\ own => q.header # Nulo
OwnStoreIsUsed ==
    [][\A f \in Flights : WorkIn(f, TRUE) /\ "late" \notin events
           => flight'[f].reply.store = flight[f].keeps]_vars

\* api.ts:37-42 says the store is the tab's ("Empresa/loja ativa DESTA aba"), no longer
\* the one that "a outra aba tinha selecionado": work is done in the store shown.
ShownStoreIsUsed ==
    [][\A f \in Flights : WorkIn(f, FALSE) /\ events = {}
           => flight'[f].reply.store = flight[f].keeps]_vars

-----------------------------------------------------------------------------
(* The inductive invariants behind ThrownOutForAReason, OwnStoreIsUsed and  *)
(* WarningMeansSomebodyElse (Browser_proofs).                               *)

\* Who waits for what, and where: only the dashboard shows a store.
Placed ==
    /\ \A t \in Tabs : page[t] # "home" => shown[t] = Nulo
    /\ \A f \in Flying : LET q == flight[f] IN q.tab # Nulo =>
          /\ q.kind \in {"login", "password"} => page[q.tab] = q.kind
          /\ q.kind \in {"me", "switch"} /\ q.there => page[q.tab] = "home"
    /\ \A f, g \in Flying :
          /\ flight[f].kind \in {"login", "password"} /\ flight[f].kind = flight[g].kind
          /\ flight[f].tab = flight[g].tab /\ flight[f].tab # Nulo
          => f = g

\* As long as nothing has happened, a turn of the cookie is alone in flight, every other
\* request bears the good token, and the cookie has it or is about to get it.
Quiet ==
    events = {} =>
        /\ \A f, g \in Flying : flight[f].kind \in Turning => f = g
        /\ \A f \in Flying :
              /\ flight[f].tab # Nulo
              /\ Waiting(f) /\ flight[f].kind # "login" => Accepted(flight[f])
              /\ ~Waiting(f) => flight[f].reply.ok /\ flight[f].kind # "logout" /\ good # 0
        /\ cached \/ (\E t \in Tabs : page[t] \in {"home", "password"}) => good # 0
        /\ \A f \in Flying : flight[f].kind \in Turning /\ ~Waiting(f) =>
              flight[f].reply.jti = good
        /\ (\A f \in Flying : flight[f].kind \in Turning => Waiting(f)) => cookie = good

\* The store shown, the tab's own, and the one its requests were made in.
ShownIsOwn == \A t \in Tabs : shown[t] = Nulo \/ scope[t] = Nulo \/ shown[t] = scope[t]
OneAnswer ==
    \A f, g \in Flying :
        flight[f].kind = "me" /\ flight[g].kind = "switch" => flight[f].tab # flight[g].tab
InStore(f) ==
    LET q == flight[f] IN
    /\ q.kind = "switch" /\ ~q.there => page[q.tab] # "home"
    /\ q.kind = "me" /\ q.there /\ scope[q.tab] # Nulo =>
          /\ q.reply = Nulo => q.header = scope[q.tab]
          /\ q.reply # Nulo /\ q.reply.ok => q.reply.store = scope[q.tab]
    /\ q.kind = "work" /\ q.reply = Nulo => q.header = Nulo \/ q.keeps \in {Nulo, q.header}
StoresAgree == "late" \notin events => ShownIsOwn /\ OneAnswer /\ \A f \in Flying : InStore(f)

\* Tokens get their numbers in turn, and nobody has one that was not issued.
Numbered ==
    /\ good \in {0, Len(issued)}
    /\ \A t \in Tabs : known[t] <= Len(issued)
    /\ \A f \in Flying : ~Waiting(f) => flight[f].reply.jti <= Len(issued)

\* As long as the turns of the cookie come one by one and bring their token home, a turn
\* is alone in flight, and only the dashboard renews, checks and warns.
Undisturbed == events \cap {"overlap", "cut", "lost"} = {}
Attended ==
    /\ \A f \in Flying : LET q == flight[f] IN
          /\ q.tab # Nulo /\ q.there
          /\ q.kind \in {"refresh", "check"} => page[q.tab] = "home"
    /\ \A f, g \in Flying : flight[f].kind \in Turning => f = g
    /\ \A t \in Tabs : warned[t] => page[t] = "home"

\* A tab that knows a token knows its own last one, or is about to.
Own(t, n) == issued[n].by = t /\ issued[n].how # "password"
Brings(f) ==
    /\ f \in Flying /\ flight[f].kind \in {"login", "refresh"}
    /\ ~Waiting(f) /\ flight[f].reply.ok
KnowsOwn ==
    /\ \A t \in Tabs, n \in 1 .. Len(issued) : Own(t, n) /\ known[t] # 0 /\ n > known[t] =>
          \E f \in Flights : Brings(f) /\ flight[f].tab = t
    /\ \A f \in Flights : Brings(f) =>
          /\ flight[f].reply.jti # 0
          /\ \A n \in 1 .. Len(issued) : Own(flight[f].tab, n) => n <= flight[f].reply.jti

\* What a check has found, and what the warning rests on.
Theirs(t, n) == n \in 1 .. Len(issued) /\ n > known[t] /\ ~Own(t, n)
Found(f) ==
    LET q == flight[f] IN
    /\ q.keeps = known[q.tab] /\ q.keeps # 0
    /\ ~Waiting(f) /\ q.reply.ok /\ q.reply.jti # q.keeps => Theirs(q.tab, q.reply.jti)
ChecksHold ==
    /\ \A f \in Flying : flight[f].kind = "check" => Found(f)
    /\ \A t \in Tabs : warned[t] => \E n \in 1 .. Len(issued) : Theirs(t, n)

Noted == Undisturbed => Attended /\ KnowsOwn /\ ChecksHold

\* All of it is inductive.
IInv == TypeOK /\ Placed /\ Quiet /\ StoresAgree /\ Numbered /\ Noted
=============================================================================
