--------------------------- MODULE Browser_proofs ---------------------------
(***************************************************************************)
(* For any number of tabs, stores, requests in flight and tokens: nobody   *)
(* loses the session while nothing happens to it, a tab with a store of    *)
(* its own works in the store it shows, and one that warns of somebody     *)
(* else is right.                                                          *)
(***************************************************************************)
EXTENDS Browser, TLAPS

USE BrowserAssumption

\* The steps of the tabs that send a request from a page and change nothing else.
Asks(t, f) ==
    \/ Login(t, f) \/ Password(t, f) \/ Refresh(t, f) \/ Check(t, f) \/ Work(t, f)
    \/ \E s \in Stores : Switch(t, f, s)

\* The part of TypeOK that is about the requests in flight.
FlightsType ==
    /\ flight \in [Flights -> Flight \cup {Nulo}]
    /\ \A f \in Flights : flight[f] # Nulo =>
          /\ flight[f].kind = "switch" => flight[f].keeps \in Stores
          /\ flight[f].tab = Nulo => flight[f].kind \in Turning /\ flight[f].reply = Nulo

\* What a request looks like, and the place it takes.
LEMMA RequestType ==
    ASSUME TypeOK, NEW t \in Tabs, NEW k \in Kind, NEW keeps \in Store \cup Tokens
    PROVE  /\ Request(t, k, keeps) \in Flight /\ Request(t, k, keeps) # Nulo
           /\ Request(t, k, keeps).tab = t /\ Request(t, k, keeps).kind = k
           /\ Request(t, k, keeps).token = cookie /\ Request(t, k, keeps).header = scope[t]
           /\ Request(t, k, keeps).keeps = keeps /\ Request(t, k, keeps).there
           /\ Request(t, k, keeps).reply = Nulo
<1>1. Request(t, k, keeps) \in Flight
  BY DEF Request, TypeOK, Flight
<1>2. QED
  BY <1>1 DEF Request

LEMMA AsksSend ==
    ASSUME TypeOK, NEW t \in Tabs, NEW f \in Flights, Asks(t, f)
    PROVE  \E k \in Kind, keeps \in Store \cup Tokens :
              /\ Send(t, f, k, keeps) /\ UNCHANGED <<browserVars, tabVars>>
              /\ page[t] = (IF k \in {"login", "password"} THEN k ELSE "home")
              /\ k \in {"login", "password"} => Of(t, {k}) = {}
              /\ k \in Kind \ {"me", "logout"}
              /\ k = "work" => keeps = shown[t]
              /\ k = "switch" => keeps \in Stores
              /\ k = "check" => keeps = known[t] /\ keeps # 0
<1> DEFINE Goal ==
       \E k \in Kind, keeps \in Store \cup Tokens :
          /\ Send(t, f, k, keeps) /\ UNCHANGED <<browserVars, tabVars>>
          /\ page[t] = (IF k \in {"login", "password"} THEN k ELSE "home")
          /\ k \in {"login", "password"} => Of(t, {k}) = {}
          /\ k \in Kind \ {"me", "logout"}
          /\ k = "work" => keeps = shown[t]
          /\ k = "switch" => keeps \in Stores
          /\ k = "check" => keeps = known[t] /\ keeps # 0
<1> USE DEF Ask, Kind, Turning, Store
<1>1. ASSUME Login(t, f) PROVE Goal
  BY <1>1 DEF Login
<1>2. ASSUME Password(t, f) PROVE Goal
  BY <1>2 DEF Password
<1>3. ASSUME Refresh(t, f) PROVE Goal
  BY <1>3 DEF Refresh
<1>4. ASSUME Check(t, f) PROVE Goal
  BY <1>4 DEF Check, TypeOK
<1>5. ASSUME Work(t, f) PROVE Goal
  BY <1>5 DEF Work, TypeOK
<1>6. ASSUME NEW s \in Stores, Switch(t, f, s) PROVE Goal
  BY <1>6 DEF Switch
<1>7. QED
  BY <1>1, <1>2, <1>3, <1>4, <1>5, <1>6 DEF Asks

\* A flying request is a record, and so is its reply.
LEMMA FlightType ==
    ASSUME TypeOK, NEW f \in Flights, flight[f] # Nulo
    PROVE  /\ flight[f] \in Flight
           /\ ~Waiting(f) => flight[f].reply \in Reply
  BY DEF TypeOK, Flight, Waiting

LEMMA SendType ==
    ASSUME TypeOK, NEW t \in Tabs, NEW f \in Flights, NEW k \in Kind, NEW keeps \in Store \cup Tokens,
           Send(t, f, k, keeps), k = "switch" => keeps \in Stores
    PROVE  /\ FlightsType'
           /\ flight[f] = Nulo /\ flight' = [flight EXCEPT ![f] = Request(t, k, keeps)]
           /\ events \subseteq events' /\ events' \subseteq Event
           /\ UNCHANGED serverVars
<1>1. Request(t, k, keeps) \in Flight
  BY RequestType
<1>2. FlightsType'
  <2>1. flight' = [flight EXCEPT ![f] = Request(t, k, keeps)]
    BY DEF Send
  <2>2. /\ Request(t, k, keeps).kind = k /\ Request(t, k, keeps).keeps = keeps
        /\ Request(t, k, keeps).tab # Nulo
    BY DEF Request
  <2>3. QED
    BY <1>1, <2>1, <2>2 DEF FlightsType, TypeOK
<1>3. QED
  BY <1>1, <1>2 DEF Send, TypeOK, Happens, If, Event

LEMMA RespondType ==
    ASSUME TypeOK, NEW f \in Flights, Waiting(f),
           NEW ok \in BOOLEAN, NEW jti \in Tokens, NEW store \in Store, Respond(f, ok, jti, store)
    PROVE  /\ FlightsType'
           /\ \A g \in Flights : g # f => flight'[g] = flight[g]
           /\ flight[f].tab = Nulo => flight'[f] = Nulo
           /\ flight[f].tab # Nulo =>
                /\ flight'[f] # Nulo /\ flight'[f].reply # Nulo
                /\ flight'[f].tab = flight[f].tab /\ flight'[f].kind = flight[f].kind
                /\ flight'[f].keeps = flight[f].keeps /\ flight'[f].there = flight[f].there
                /\ flight'[f].reply.ok = ok /\ flight'[f].reply.jti = jti /\ flight'[f].reply.store = store
<1> DEFINE r == [ok |-> ok, jti |-> jti, store |-> store]
           new == [flight[f] EXCEPT !.token = 0, !.header = Nulo, !.reply = r]
<1>1. r \in Reply
  BY DEF Reply
<1>2. flight[f] \in Flight
  BY FlightType DEF Waiting
<1>3. 0 \in Tokens /\ Nulo \in Store
  BY DEF Tokens, Store
<1>4. /\ new \in Flight /\ new.tab = flight[f].tab /\ new.kind = flight[f].kind
      /\ new.keeps = flight[f].keeps /\ new.there = flight[f].there /\ new.reply = r
  BY <1>1, <1>2, <1>3 DEF Flight
<1>5. flight' = [flight EXCEPT ![f] = IF flight[f].tab = Nulo THEN Nulo ELSE new]
  BY DEF Respond
<1>6. FlightsType'
  <2>1. flight' \in [Flights -> Flight \cup {Nulo}]
    BY <1>4, <1>5 DEF TypeOK
  <2>2. ASSUME NEW g \in Flights, flight'[g] # Nulo
        PROVE  /\ flight'[g].kind = "switch" => flight'[g].keeps \in Stores
               /\ flight'[g].tab = Nulo => flight'[g].kind \in Turning /\ flight'[g].reply = Nulo
    <3>1. CASE g = f
      BY <1>4, <1>5, <2>2, <3>1 DEF TypeOK, Waiting
    <3>2. CASE g # f
      BY <1>5, <2>2, <3>2 DEF TypeOK
    <3>3. QED
      BY <3>1, <3>2
  <2>3. QED
    BY <2>1, <2>2 DEF FlightsType
<1>7. QED
  BY <1>1, <1>4, <1>5, <1>6 DEF TypeOK

LEMMA AbandonType ==
    ASSUME TypeOK, NEW t \in Tabs, Abandon(t)
    PROVE  /\ FlightsType'
           /\ \A f \in Flights : f \notin Of(t, Kind) => flight'[f] = flight[f]
           /\ \A f \in Of(t, Kind) : ~(Waiting(f) /\ flight[f].kind \in Turning) => flight'[f] = Nulo
           /\ \A f \in Of(t, Kind) : flight'[f] # Nulo =>
                /\ flight'[f].tab = Nulo /\ flight'[f].kind = flight[f].kind
<1>1. ASSUME NEW f \in Of(t, Kind), Waiting(f), flight[f].kind \in Turning
      PROVE  /\ flight'[f] \in Flight
             /\ flight'[f].tab = Nulo /\ flight'[f].kind = flight[f].kind
             /\ flight'[f].reply = Nulo
  <2>1. f \in Flights /\ flight[f] \in Flight
    BY FlightType DEF Of, Flying
  <2>2. flight'[f] = [flight[f] EXCEPT !.tab = Nulo]
    BY <1>1, <2>1 DEF Abandon
  <2>3. QED
    BY <1>1, <2>1, <2>2 DEF Flight, Waiting
<1>2. \A f \in Flights : f \notin Of(t, Kind) => flight'[f] = flight[f]
  BY DEF Abandon
<1>3. \A f \in Of(t, Kind) : ~(Waiting(f) /\ flight[f].kind \in Turning) => flight'[f] = Nulo
  BY DEF Abandon, Of, Flying
<1>4. \A f \in Flights : flight'[f] \in Flight \cup {Nulo}
  BY <1>1, <1>2, <1>3 DEF TypeOK
<1>5. FlightsType'
  <2>1. flight' \in [Flights -> Flight \cup {Nulo}]
    BY <1>4 DEF Abandon
  <2>2. ASSUME NEW f \in Flights, flight'[f] # Nulo
        PROVE  /\ flight'[f].kind = "switch" => flight'[f].keeps \in Stores
               /\ flight'[f].tab = Nulo => flight'[f].kind \in Turning /\ flight'[f].reply = Nulo
    BY <1>1, <1>2, <1>3, <2>2 DEF TypeOK, Turning
  <2>3. QED
    BY <2>1, <2>2 DEF FlightsType
<1>6. QED
  BY <1>1, <1>2, <1>3, <1>5

\* The store of a request the guard lets through, and the token it may be answered with.
LEMMA ResolvedType ==
    ASSUME TypeOK, NEW f \in Flights, Waiting(f), Accepted(flight[f])
    PROVE  Resolved(flight[f]) \in Stores
<1>1. flight[f] \in Flight
  BY FlightType DEF Waiting
<1>2. CASE flight[f].header # Nulo
  BY <1>1, <1>2 DEF Resolved, Flight, Store
<1>3. CASE flight[f].header = Nulo
  <2>1. flight[f].token \in 1 .. Len(issued)
    BY DEF Accepted, TypeOK
  <2>2. issued[flight[f].token] \in Session
    BY <2>1 DEF TypeOK
  <2>3. QED
    BY <1>3, <2>2 DEF Resolved, Session
<1>4. QED
  BY <1>2, <1>3

LEMMA EmitType ==
    ASSUME TypeOK, NEW by \in Tabs \cup {Nulo}, NEW how \in {"login", "refresh", "password"},
           NEW store \in Stores, Emit(by, how, store)
    PROVE  /\ issued' \in Seq(Session)
           /\ good' = Len(issued) + 1 /\ good' \in 0 .. Len(issued') /\ Len(issued') <= MaxTokens
           /\ good' \in Tokens /\ good' # 0
<1>1. [by |-> by, how |-> how, store |-> store] \in Session
  BY DEF Session
<1>2. issued \in Seq(Session) /\ Len(issued) \in Nat /\ Len(issued) < MaxTokens
  BY DEF Emit, TypeOK
<1>3. issued' \in Seq(Session) /\ Len(issued') = Len(issued) + 1
  BY <1>1, <1>2 DEF Emit
<1>4. QED
  BY <1>2, <1>3 DEF Emit, Tokens

LEMMA IssueType ==
    ASSUME TypeOK, NEW f \in Flights, Issue(f)
    PROVE  /\ TypeOK'
           /\ Waiting(f) /\ flight[f].kind \in {"login", "refresh", "password"}
           /\ good' \in Tokens /\ good' # 0
           /\ \E store \in Stores : Respond(f, TRUE, good', store)
<1> DEFINE q == flight[f]
           store == IF q.kind = "login" THEN Default ELSE Resolved(q)
<1>1. Waiting(f) /\ q.kind \in {"login", "refresh", "password"} /\ q.tab \in Tabs \cup {Nulo}
  BY FlightType DEF Issue, Waiting, Flight
<1>2. store \in Stores
  BY <1>1, ResolvedType DEF Issue
<1>3. Emit(q.tab, q.kind, store) /\ Respond(f, TRUE, good', store)
  BY DEF Issue
<1>4. good' \in Tokens /\ good' # 0
  BY <1>1, <1>2, <1>3, EmitType
<1>5. FlightsType'
  <2>1. TRUE \in BOOLEAN /\ store \in Store
    BY <1>2 DEF Store
  <2>2. QED
    BY <1>1, <1>3, <1>4, <2>1, RespondType
<1>6. TypeOK'
  <2>1. issued' \in Seq(Session) /\ good' \in 0 .. Len(issued') /\ Len(issued') <= MaxTokens
    BY <1>1, <1>2, <1>3, EmitType
  <2>2. QED
    BY <1>5, <2>1 DEF Issue, TypeOK, FlightsType, browserVars, tabVars
<1>7. QED
  BY <1>1, <1>2, <1>3, <1>4, <1>6

LEMMA HandleType ==
    ASSUME TypeOK, NEW f \in Flights, Handle(f)
    PROVE  /\ TypeOK'
           /\ Waiting(f) /\ flight[f].kind \in {"me", "check", "work", "switch", "logout"}
           /\ \E jti \in Tokens, store \in Store :
                /\ Respond(f, TRUE, jti, store)
                /\ store = (IF flight[f].kind = "switch" THEN flight[f].keeps ELSE Resolved(flight[f]))
<1> DEFINE q == flight[f]
           store == IF q.kind = "switch" THEN q.keeps ELSE Resolved(q)
<1>1. Waiting(f) /\ q.kind \in {"me", "check", "work", "switch", "logout"} /\ Accepted(q)
  BY DEF Handle
<1>2. q.token \in Tokens /\ store \in Store
  <2>1. q.token \in Tokens
    BY <1>1, FlightType DEF Waiting, Flight
  <2>2. Resolved(q) \in Stores
    BY <1>1, ResolvedType
  <2>3. q.kind = "switch" => q.keeps \in Stores
    BY <1>1 DEF Waiting, TypeOK
  <2>4. QED
    BY <2>1, <2>2, <2>3 DEF Store
<1>3. Respond(f, TRUE, q.token, store)
  BY DEF Handle
<1>4. FlightsType'
  BY <1>1, <1>2, <1>3, RespondType
<1>5. events' \subseteq Event
  BY DEF Handle, Happens, If, TypeOK, Event
<1>6. TypeOK'
  BY <1>4, <1>5 DEF Handle, TypeOK, FlightsType, browserVars, tabVars
<1>7. QED
  BY <1>1, <1>2, <1>3, <1>6

\* What a reply that arrives may say.
LEMMA ReplyType ==
    ASSUME TypeOK, NEW f \in Flights, NEW K, Answered(f, K)
    PROVE  /\ flight[f] \in Flight /\ ~Waiting(f) /\ f \in Flying
           /\ flight[f].reply.ok \in BOOLEAN /\ flight[f].reply.jti \in Tokens
           /\ flight[f].reply.store \in Store
           /\ flight[f].tab \in Tabs
<1>1. flight[f] \in Flight /\ ~Waiting(f) /\ flight[f].reply \in Reply /\ flight[f].tab # Nulo
  BY FlightType DEF Answered, Waiting, TypeOK
<1>2. QED
  BY <1>1 DEF Answered, Flying, Flight, Reply

LEMMA DoneType ==
    ASSUME TypeOK, NEW f \in Flights, Done(f)
    PROVE  FlightsType' /\ flight' = [flight EXCEPT ![f] = Nulo]
  BY DEF Done, TypeOK, FlightsType

LEMMA TypeInit == Init => TypeOK
<1> SUFFICES ASSUME Init PROVE TypeOK OBVIOUS
<1>1. issued \in Seq(Session) /\ Len(issued) = 0
  BY DEF Init
<1>2. 0 \in Tokens /\ 0 \in 0 .. 0 /\ 0 <= MaxTokens
  BY DEF Tokens
<1>3. QED
  BY <1>1, <1>2 DEF Init, TypeOK, Store, Page

LEMMA TypeNext == TypeOK /\ [Next]_vars => TypeOK'
<1> SUFFICES ASSUME TypeOK, [Next]_vars PROVE TypeOK' OBVIOUS
<1> USE DEF FlightsType, Page, Event, Store
<1>1. ASSUME NEW t \in Tabs, Open(t) PROVE TypeOK'
  BY <1>1 DEF Open, TypeOK, browserVars, serverVars
<1>2. ASSUME NEW t \in Tabs, NEW f \in Flights, Enter(t, f) PROVE TypeOK'
  <2>1. CASE cached
    <3>1. Send(t, f, "me", Nulo)
      BY <1>2, <2>1 DEF Enter
    <3>2. "me" \in Kind /\ Nulo \in Store \cup Tokens
      BY DEF Kind
    <3>3. FlightsType' /\ events' \subseteq Event /\ UNCHANGED serverVars
      BY <3>1, <3>2, SendType
    <3>4. QED
      BY <1>2, <2>1, <3>3 DEF Enter, TypeOK, browserVars, serverVars
  <2>2. CASE ~cached
    BY <1>2, <2>2 DEF Enter, TypeOK, browserVars, serverVars
  <2>3. QED
    BY <2>1, <2>2
<1>3. ASSUME NEW t \in Tabs, NEW f \in Flights, Asks(t, f) PROVE TypeOK'
  <2>1. PICK k \in Kind, keeps \in Store \cup Tokens :
           /\ Send(t, f, k, keeps) /\ UNCHANGED <<browserVars, tabVars>>
           /\ k = "switch" => keeps \in Stores
    BY <1>3, AsksSend
  <2>2. FlightsType' /\ events' \subseteq Event /\ UNCHANGED serverVars
    BY <2>1, SendType
  <2>3. QED
    BY <2>1, <2>2 DEF TypeOK, browserVars, tabVars, serverVars
<1>4. ASSUME NEW t \in Tabs, NEW f \in Flights, Logout(t, f) PROVE TypeOK'
  <2>1. /\ Request(t, "logout", Nulo) \in Flight /\ Request(t, "logout", Nulo).kind = "logout"
        /\ Request(t, "logout", Nulo).tab # Nulo
    BY RequestType DEF Kind, Turning
  <2>2. ASSUME NEW g \in Flights PROVE flight'[g] \in Flight \cup {Nulo}
                 /\ (flight'[g] # Nulo =>
                       /\ flight'[g].kind = "switch" => flight'[g].keeps \in Stores
                       /\ flight'[g].tab = Nulo => flight'[g].kind \in Turning /\ flight'[g].reply = Nulo)
    <3>1. CASE g = f
      BY <1>4, <2>1, <3>1 DEF Logout
    <3>2. CASE g # f /\ g \in Of(t, Kind)
      <4>1. flight[g] \in Flight /\ flight[g] # Nulo
        BY <3>2, FlightType DEF Of, Flying
      <4>2. flight'[g] = [flight[g] EXCEPT !.there = FALSE]
        BY <1>4, <3>2 DEF Logout
      <4>3. QED
        BY <4>1, <4>2 DEF TypeOK, Flight
    <3>3. CASE g # f /\ g \notin Of(t, Kind)
      BY <1>4, <3>3 DEF Logout, TypeOK
    <3>4. QED
      BY <3>1, <3>2, <3>3
  <2>3. FlightsType'
    BY <1>4, <2>2 DEF Logout
  <2>4. events' \subseteq Event
    BY <1>4 DEF Logout, Happens, If, TypeOK
  <2>5. QED
    BY <1>4, <2>3, <2>4 DEF Logout, Leave, TypeOK, serverVars
<1>5. ASSUME NEW t \in Tabs, Reload(t) PROVE TypeOK'
  <2>1. FlightsType'
    BY <1>5, AbandonType DEF Reload
  <2>2. events' \subseteq Event /\ known' \in [Tabs -> Tokens]
    BY <1>5 DEF Reload, Happens, If, TypeOK, Tokens
  <2>3. QED
    BY <1>5, <2>1, <2>2 DEF Reload, Leave, TypeOK, browserVars, serverVars
<1>6. ASSUME NEW f \in Flights, Refuse(f) \/ Mistype(f) PROVE TypeOK'
  <2>1. Waiting(f) /\ Respond(f, FALSE, 0, Nulo)
    BY <1>6 DEF Refuse, Mistype
  <2>2. FlightsType'
    <3>1. 0 \in Tokens
      BY DEF Tokens
    <3>2. QED
      BY <2>1, <3>1, RespondType
  <2>3. QED
    BY <1>6, <2>2 DEF Refuse, Mistype, Happens, TypeOK, browserVars, tabVars, serverVars
<1>7. ASSUME NEW f \in Flights, Issue(f) \/ Handle(f) PROVE TypeOK'
  BY <1>7, IssueType, HandleType
<1>8. ASSUME NEW f \in Flights, Expelled(f) PROVE TypeOK'
  <2>1. flight[f].tab \in Tabs
    BY <1>8, ReplyType DEF Expelled
  <2>2. CASE page[flight[f].tab] \in Inside
    <3>1. FlightsType' /\ events' \subseteq Event
      BY <1>8, <2>1, <2>2, AbandonType DEF Expelled, Happens, If, TypeOK
    <3>2. QED
      BY <1>8, <2>1, <2>2, <3>1 DEF Expelled, Leave, TypeOK, serverVars
  <2>3. CASE page[flight[f].tab] \notin Inside
    <3>1. FlightsType'
      BY <1>8, <2>3, DoneType DEF Expelled
    <3>2. QED
      BY <1>8, <2>3, <3>1 DEF Expelled, TypeOK, serverVars
  <2>4. QED
    BY <2>2, <2>3
<1>9. ASSUME NEW f \in Flights,
             \/ LoggedIn(f) \/ PasswordChanged(f) \/ Renewed(f)
             \/ Told(f) \/ Switched(f) \/ LoggedOut(f)
      PROVE  TypeOK'
  <2> DEFINE q == flight[f]
  <2>1. q.tab \in Tabs /\ q.reply.jti \in Tokens /\ q.reply.store \in Store
    BY <1>9, ReplyType DEF LoggedIn, PasswordChanged, Renewed, Told, Switched, LoggedOut
  <2>2. FlightsType'
    BY <1>9, DoneType DEF LoggedIn, PasswordChanged, Renewed, Told, Switched, LoggedOut
  <2>3. CASE LoggedIn(f)
    <3>1. page' \in [Tabs -> Page]
      BY <2>1, <2>3 DEF LoggedIn, TypeOK
    <3>2. QED
      BY <2>1, <2>2, <2>3, <3>1 DEF LoggedIn, TypeOK, serverVars
  <2>4. CASE PasswordChanged(f)
    BY <2>1, <2>2, <2>4 DEF PasswordChanged, TypeOK, serverVars
  <2>5. CASE Renewed(f)
    BY <2>1, <2>2, <2>5 DEF Renewed, TypeOK, serverVars
  <2>6. CASE LoggedOut(f)
    <3>1. 0 \in Tokens
      BY DEF Tokens
    <3>2. QED
      BY <2>1, <2>2, <2>6, <3>1 DEF LoggedOut, TypeOK, serverVars
  <2>7. CASE Told(f) \/ Switched(f)
    BY <2>1, <2>2, <2>7 DEF Told, Switched, TypeOK, browserVars, serverVars
  <2>8. QED
    BY <1>9, <2>3, <2>4, <2>5, <2>6, <2>7
<1>10. ASSUME NEW f \in Flights, Lose(f) PROVE TypeOK'
  <2>1. FlightsType' /\ events' \subseteq Event
    BY <1>10, DoneType DEF Lose, Happens, If, TypeOK
  <2>2. QED
    BY <1>10, <2>1 DEF Lose, TypeOK, browserVars, tabVars, serverVars
<1>11. CASE Elsewhere
  <2>1. Emit(Nulo, "login", Default)
    BY <1>11 DEF Elsewhere
  <2>2. issued' \in Seq(Session) /\ good' \in 0 .. Len(issued') /\ Len(issued') <= MaxTokens
    BY <2>1, EmitType
  <2>3. QED
    BY <1>11, <2>2 DEF Elsewhere, Happens, TypeOK, browserVars, tabVars
<1>12. CASE Lapse
  BY <1>12 DEF Lapse, Happens, TypeOK, browserVars, tabVars
<1>13. CASE UNCHANGED vars
  BY <1>13 DEF vars, TypeOK, browserVars, tabVars, serverVars
<1>14. QED
  BY <1>1, <1>2, <1>3, <1>4, <1>5, <1>6, <1>7, <1>8, <1>9, <1>10, <1>11, <1>12, <1>13
  DEF Next, Tab, Asks, Server, Arrival

-----------------------------------------------------------------------------
\* The slots after each kind of step, field by field.
SameBut(f, g) ==
    /\ flight'[f].tab = flight[g].tab /\ flight'[f].kind = flight[g].kind
    /\ flight'[f].token = flight[g].token /\ flight'[f].header = flight[g].header
    /\ flight'[f].keeps = flight[g].keeps /\ flight'[f].reply = flight[g].reply

LEMMA LogoutFlights ==
    ASSUME TypeOK, NEW t \in Tabs, NEW f \in Flights, Logout(t, f)
    PROVE  /\ flight[f] = Nulo /\ flight'[f] # Nulo
           /\ flight'[f].tab = t /\ flight'[f].kind = "logout" /\ flight'[f].reply = Nulo
           /\ flight'[f].token = cookie
           /\ \A g \in Flights : g # f /\ g \in Of(t, Kind) =>
                flight'[g] # Nulo /\ SameBut(g, g) /\ ~flight'[g].there
           /\ \A g \in Flights : g # f /\ g \notin Of(t, Kind) => flight'[g] = flight[g]
<1>1. flight' = [g \in Flights |->
         IF g = f THEN Request(t, "logout", Nulo)
         ELSE IF g \in Of(t, Kind) THEN [flight[g] EXCEPT !.there = FALSE] ELSE flight[g]]
  BY DEF Logout
<1>2. flight'[f] = Request(t, "logout", Nulo) /\ flight[f] = Nulo
  BY <1>1 DEF Logout
<1>3. "logout" \in Kind /\ Nulo \in Store \cup Tokens
  BY DEF Kind, Turning, Store
<1>4. /\ flight'[f] # Nulo /\ flight'[f].tab = t /\ flight'[f].kind = "logout" /\ flight'[f].reply = Nulo
      /\ flight'[f].token = cookie
  BY <1>2, <1>3, RequestType
<1>5. ASSUME NEW g \in Flights, g # f, g \in Of(t, Kind)
      PROVE  flight'[g] # Nulo /\ SameBut(g, g) /\ ~flight'[g].there
  <2>1. flight[g] \in Flight
    BY <1>5, FlightType DEF Of, Flying
  <2>2. flight'[g] = [flight[g] EXCEPT !.there = FALSE]
    BY <1>1, <1>5
  <2>3. flight'[g] \in Flight
    BY <2>1, <2>2 DEF Flight
  <2>4. QED
    BY <2>1, <2>2, <2>3 DEF SameBut, Flight
<1>6. \A g \in Flights : g # f /\ g \notin Of(t, Kind) => flight'[g] = flight[g]
  BY <1>1
<1>7. QED
  BY <1>2, <1>4, <1>5, <1>6

\* A request after a step is the one before it, as far as its page is concerned.
Thin(g) ==
    flight'[g] # Nulo =>
        /\ flight[g] # Nulo /\ flight'[g].kind = flight[g].kind
        /\ flight'[g].tab # Nulo =>
              flight'[g].tab = flight[g].tab /\ (flight'[g].there => flight[g].there)

LEMMA TabType ==
    ASSUME TypeOK, NEW g \in Flights, flight[g] # Nulo
    PROVE  /\ flight[g].tab \in Tabs \cup {Nulo} /\ flight[g].kind \in Kind
           /\ \A t \in Tabs : flight[g].tab = t => g \in Of(t, Kind)
<1>1. flight[g] \in Flight
  BY FlightType
<1>2. QED
  BY <1>1 DEF Flight, Of, Flying

LEMMA SendFlights ==
    ASSUME TypeOK, NEW t \in Tabs, NEW f \in Flights, NEW k \in Kind,
           NEW keeps \in Store \cup Tokens, Send(t, f, k, keeps)
    PROVE  /\ flight[f] = Nulo /\ flight'[f] # Nulo
           /\ flight'[f].tab = t /\ flight'[f].kind = k /\ flight'[f].reply = Nulo
           /\ flight'[f].token = cookie /\ flight'[f].header = scope[t]
           /\ flight'[f].keeps = keeps /\ flight'[f].there
           /\ \A g \in Flights : g # f => flight'[g] = flight[g]
<1>1. flight' = [flight EXCEPT ![f] = Request(t, k, keeps)] /\ flight[f] = Nulo
  BY DEF Send
<1>2. flight'[f] = Request(t, k, keeps) /\ \A g \in Flights : g # f => flight'[g] = flight[g]
  BY <1>1 DEF TypeOK
<1>3. QED
  BY <1>1, <1>2, RequestType

LEMMA AbandonThin ==
    ASSUME TypeOK, NEW t \in Tabs, Abandon(t)
    PROVE  \A g \in Flights :
              /\ Thin(g)
              /\ flight'[g] # Nulo /\ flight'[g].tab # Nulo =>
                    flight'[g] = flight[g] /\ flight'[g].tab # t
<1> SUFFICES ASSUME NEW g \in Flights, flight'[g] # Nulo
             PROVE  /\ Thin(g)
                    /\ flight'[g].tab # Nulo => flight'[g] = flight[g] /\ flight'[g].tab # t
  BY DEF Thin
<1>1. CASE g \in Of(t, Kind)
  BY <1>1, AbandonType DEF Thin, Of, Flying
<1>2. CASE g \notin Of(t, Kind)
  <2>1. flight'[g] = flight[g]
    BY <1>2, AbandonType
  <2>2. QED
    BY <1>2, <2>1, TabType DEF Thin
<1>3. QED
  BY <1>1, <1>2

LEMMA RespondThin ==
    ASSUME TypeOK, NEW f \in Flights, Waiting(f),
           NEW ok \in BOOLEAN, NEW jti \in Tokens, NEW store \in Store, Respond(f, ok, jti, store)
    PROVE  \A g \in Flights : Thin(g)
<1> SUFFICES ASSUME NEW g \in Flights PROVE Thin(g) OBVIOUS
<1>1. CASE g = f
  BY <1>1, RespondType DEF Thin, Waiting
<1>2. CASE g # f
  BY <1>2, RespondType DEF Thin
<1>3. QED
  BY <1>1, <1>2

LEMMA PlacedThin ==
    ASSUME TypeOK, Placed, FlightsType', \A g \in Flights : Thin(g),
           \A t \in Tabs : page'[t] # "home" => shown'[t] = Nulo,
           \A t \in Tabs : page'[t] # page[t] =>
              \A g \in Flights : flight'[g] # Nulo /\ flight'[g].tab = t =>
                 /\ flight'[g].kind \notin {"login", "password"}
                 /\ flight'[g].kind \in {"me", "switch"} => ~flight'[g].there
    PROVE  Placed'
<1>1. ASSUME NEW g \in Flights, flight'[g] # Nulo, flight'[g].tab # Nulo
      PROVE  /\ flight[g] # Nulo /\ flight[g].tab \in Tabs /\ flight'[g].tab = flight[g].tab
             /\ flight'[g].kind = flight[g].kind /\ (flight'[g].there => flight[g].there)
  BY <1>1, TabType DEF Thin
<1>2. ASSUME NEW g \in Flights, flight'[g] # Nulo, flight'[g].tab # Nulo
      PROVE  /\ flight'[g].kind \in {"login", "password"} => page'[flight'[g].tab] = flight'[g].kind
             /\ flight'[g].kind \in {"me", "switch"} /\ flight'[g].there => page'[flight'[g].tab] = "home"
  <2>1. CASE page'[flight[g].tab] = page[flight[g].tab]
    BY <1>1, <1>2, <2>1 DEF Placed, Flying
  <2>2. CASE page'[flight[g].tab] # page[flight[g].tab]
    BY <1>1, <1>2, <2>2
  <2>3. QED
    BY <2>1, <2>2
<1>3. ASSUME NEW g \in Flights, NEW h \in Flights, flight'[g] # Nulo, flight'[h] # Nulo,
             flight'[g].kind \in {"login", "password"}, flight'[g].kind = flight'[h].kind,
             flight'[g].tab = flight'[h].tab, flight'[g].tab # Nulo
      PROVE  g = h
  <2>1. /\ flight[g] # Nulo /\ flight[h] # Nulo
        /\ flight[g].kind = flight'[g].kind /\ flight[h].kind = flight'[h].kind
        /\ flight[g].tab = flight'[g].tab /\ flight[h].tab = flight'[h].tab
    BY <1>1, <1>3
  <2>2. QED
    BY <1>3, <2>1 DEF Placed, Flying
<1>4. QED
  BY <1>2, <1>3 DEF Placed, Flying

LEMMA PlacedNext == TypeOK /\ Placed /\ [Next]_vars => Placed'
<1> SUFFICES ASSUME TypeOK, Placed, [Next]_vars PROVE Placed' OBVIOUS
<1>0. TypeOK' /\ FlightsType'
  BY TypeNext DEF TypeOK, FlightsType
<1>1. ASSUME NEW t \in Tabs, Open(t) PROVE Placed'
  BY <1>0, <1>1, PlacedThin DEF Open, TypeOK, Thin, Placed, Flying
<1>2. ASSUME NEW t \in Tabs, NEW f \in Flights, NEW k \in Kind, NEW keeps \in Store \cup Tokens,
             Send(t, f, k, keeps), UNCHANGED shown,
             \A u \in Tabs : \/ page'[u] = page[u]
                             \/ u = t /\ page[t] = "opening" /\ page'[t] = "home",
             k \in {"login", "password"} => Of(t, {k}) = {} /\ page'[t] = k,
             k \in {"me", "switch"} => page'[t] = "home"
      PROVE  Placed'
  <2>1. /\ flight'[f] # Nulo /\ flight'[f].tab = t /\ flight'[f].kind = k
        /\ \A g \in Flights : g # f => flight'[g] = flight[g]
    BY <1>2, SendFlights
  <2>2. \A u \in Tabs : page'[u] # "home" => shown'[u] = Nulo
    BY <1>2 DEF Placed
  <2>3. ASSUME NEW g \in Flights, flight'[g] # Nulo, flight'[g].tab # Nulo
        PROVE  /\ flight'[g].kind \in {"login", "password"} => page'[flight'[g].tab] = flight'[g].kind
               /\ flight'[g].kind \in {"me", "switch"} /\ flight'[g].there => page'[flight'[g].tab] = "home"
    <3>1. CASE g = f
      BY <1>2, <2>1, <3>1
    <3>2. CASE g # f
      <4>1. flight'[g] = flight[g] /\ flight[g].tab \in Tabs
        BY <2>1, <2>3, <3>2, TabType
      <4>2. /\ flight[g].kind \in {"login", "password"} => page[flight[g].tab] = flight[g].kind
            /\ flight[g].kind \in {"me", "switch"} /\ flight[g].there => page[flight[g].tab] = "home"
        BY <2>3, <4>1 DEF Placed, Flying
      <4>3. QED
        BY <1>2, <4>1, <4>2
    <3>3. QED
      BY <3>1, <3>2
  <2>4. ASSUME NEW g \in Flights, NEW h \in Flights, flight'[g] # Nulo, flight'[h] # Nulo,
               flight'[g].kind \in {"login", "password"}, flight'[g].kind = flight'[h].kind,
               flight'[g].tab = flight'[h].tab, flight'[g].tab # Nulo
        PROVE  g = h
    <3>1. CASE g # f /\ h # f
      BY <2>1, <2>4, <3>1 DEF Placed, Flying
    <3>2. \A i \in Flights : i # f /\ flight'[i] # Nulo /\ flight'[i].tab = t => flight'[i].kind # k \/ k \notin {"login", "password"}
      BY <1>2, <2>1 DEF Of, Flying
    <3>3. QED
      BY <2>1, <2>4, <3>1, <3>2
  <2>5. QED
    BY <2>2, <2>3, <2>4 DEF Placed, Flying
<1>3. ASSUME NEW t \in Tabs, NEW f \in Flights, Enter(t, f) PROVE Placed'
  <2>1. CASE cached
    <3>1. /\ Send(t, f, "me", Nulo) /\ UNCHANGED shown
          /\ page' = [page EXCEPT ![t] = "home"] /\ page[t] = "opening"
      BY <1>3, <2>1 DEF Enter
    <3>2. "me" \in Kind /\ Nulo \in Store \cup Tokens
      BY DEF Kind, Store
    <3>3. QED
      BY <1>2, <3>1, <3>2 DEF TypeOK
  <2>2. CASE ~cached
    BY <1>0, <1>3, <2>2, PlacedThin DEF Enter, TypeOK, Thin, Placed, Flying
  <2>3. QED
    BY <2>1, <2>2
<1>4. ASSUME NEW t \in Tabs, NEW f \in Flights, Asks(t, f) PROVE Placed'
  <2>1. PICK k \in Kind, keeps \in Store \cup Tokens :
           /\ Send(t, f, k, keeps) /\ UNCHANGED <<browserVars, tabVars>>
           /\ page[t] = (IF k \in {"login", "password"} THEN k ELSE "home")
           /\ k \in {"login", "password"} => Of(t, {k}) = {}
    BY <1>4, AsksSend
  <2>2. UNCHANGED shown /\ UNCHANGED page
    BY <2>1 DEF tabVars
  <2>3. /\ k \in {"login", "password"} => page'[t] = k
        /\ k \in {"me", "switch"} => page'[t] = "home"
    BY <2>1, <2>2
  <2>4. QED
    BY <1>2, <2>1, <2>2, <2>3
<1>5. ASSUME NEW t \in Tabs, NEW f \in Flights, Logout(t, f) PROVE Placed'
  <2>1. /\ page' = [page EXCEPT ![t] = "login"] /\ shown' = [shown EXCEPT ![t] = Nulo]
        /\ page[t] = "home"
    BY <1>5 DEF Logout, Leave
  <2>2. \A u \in Tabs : page'[u] # "home" => shown'[u] = Nulo
    BY <2>1 DEF Placed, TypeOK
  <2>3. ASSUME NEW g \in Flights, flight'[g] # Nulo, flight'[g].tab # Nulo
        PROVE  \/ g = f /\ flight'[g].kind = "logout"
               \/ /\ g # f /\ flight[g] # Nulo /\ flight[g].tab \in Tabs
                  /\ flight'[g].tab = flight[g].tab /\ flight'[g].kind = flight[g].kind
                  /\ flight[g].tab = t => ~flight'[g].there
                  /\ flight[g].tab # t => flight'[g] = flight[g]
    <3>1. CASE g = f
      BY <1>5, <3>1, LogoutFlights
    <3>2. CASE g # f /\ g \in Of(t, Kind)
      BY <1>5, <3>2, LogoutFlights DEF SameBut, Of, Flying
    <3>3. CASE g # f /\ g \notin Of(t, Kind)
      BY <1>5, <2>3, <3>3, LogoutFlights, TabType
    <3>4. QED
      BY <3>1, <3>2, <3>3
  <2>4. ASSUME NEW g \in Flights, flight'[g] # Nulo, flight'[g].tab # Nulo
        PROVE  /\ flight'[g].kind \in {"login", "password"} => page'[flight'[g].tab] = flight'[g].kind
               /\ flight'[g].kind \in {"me", "switch"} /\ flight'[g].there => page'[flight'[g].tab] = "home"
    <3>1. CASE g = f
      BY <1>5, <3>1, LogoutFlights
    <3>2. CASE g # f /\ flight[g].tab = t
      <4>1. flight[g].kind \notin {"login", "password"}
        BY <2>1, <2>3, <2>4, <3>2 DEF Placed, Flying
      <4>2. QED
        BY <2>3, <2>4, <3>2, <4>1
    <3>3. CASE g # f /\ flight[g].tab # t
      <4>1. flight'[g] = flight[g] /\ flight[g].tab \in Tabs /\ page'[flight[g].tab] = page[flight[g].tab]
        BY <2>1, <2>3, <2>4, <3>3 DEF TypeOK
      <4>2. QED
        BY <2>4, <4>1 DEF Placed, Flying
    <3>4. QED
      BY <3>1, <3>2, <3>3
  <2>5. ASSUME NEW g \in Flights, NEW h \in Flights, flight'[g] # Nulo, flight'[h] # Nulo,
               flight'[g].kind \in {"login", "password"}, flight'[g].kind = flight'[h].kind,
               flight'[g].tab = flight'[h].tab, flight'[g].tab # Nulo
        PROVE  g = h
    <3>1. /\ flight[g] # Nulo /\ flight[g].tab = flight'[g].tab /\ flight[g].kind = flight'[g].kind
          /\ flight[h] # Nulo /\ flight[h].tab = flight'[h].tab /\ flight[h].kind = flight'[h].kind
      BY <2>3, <2>5
    <3>2. QED
      BY <2>5, <3>1 DEF Placed, Flying
  <2>6. QED
    BY <2>2, <2>4, <2>5 DEF Placed, Flying
<1>6. ASSUME NEW t \in Tabs, NEW to \in Page \ {"home"}, Leave(t, to), Abandon(t) PROVE Placed'
  <2>1. /\ \A g \in Flights : Thin(g)
        /\ \A g \in Flights : flight'[g] # Nulo => flight'[g].tab # t
    BY <1>6, AbandonThin
  <2>2. page' = [page EXCEPT ![t] = to] /\ shown' = [shown EXCEPT ![t] = Nulo]
    BY <1>6 DEF Leave
  <2>3. \A u \in Tabs : page'[u] # "home" => shown'[u] = Nulo
    BY <2>2 DEF Placed, TypeOK
  <2>4. \A u \in Tabs : page'[u] # page[u] => u = t
    BY <2>2 DEF TypeOK
  <2>5. QED
    BY <1>0, <2>1, <2>3, <2>4, PlacedThin
<1>7. ASSUME NEW f \in Flights, Server(f) PROVE Placed'
  <2>1. \E ok \in BOOLEAN, jti \in Tokens, store \in Store : Waiting(f) /\ Respond(f, ok, jti, store)
    <3>1. 0 \in Tokens /\ Nulo \in Store /\ Stores \subseteq Store
      BY DEF Tokens, Store
    <3>2. QED
      BY <1>7, <3>1, IssueType, HandleType DEF Server, Refuse, Mistype
  <2>2. \A g \in Flights : Thin(g)
    BY <2>1, RespondThin
  <2>3. UNCHANGED <<page, shown>>
    BY <1>7 DEF Server, Refuse, Mistype, Issue, Handle, tabVars
  <2>4. QED
    BY <1>0, <2>2, <2>3, PlacedThin DEF Placed
<1>8. ASSUME NEW f \in Flights, Done(f),
             \A u \in Tabs : page'[u] # "home" => shown'[u] = Nulo,
             \A u \in Tabs : page'[u] # page[u] =>
                /\ flight[f] # Nulo /\ u = flight[f].tab
                /\ flight[f].kind \in {"login", "password"}
      PROVE  Placed'
  <2>1. flight'[f] = Nulo /\ \A g \in Flights : g # f => flight'[g] = flight[g]
    BY <1>8 DEF Done, TypeOK
  <2>2. \A g \in Flights : Thin(g)
    BY <2>1 DEF Thin
  <2>3. ASSUME NEW u \in Tabs, page'[u] # page[u], NEW g \in Flights, flight'[g] # Nulo, flight'[g].tab = u
        PROVE  /\ flight'[g].kind \notin {"login", "password"}
               /\ flight'[g].kind \in {"me", "switch"} => ~flight'[g].there
    <3>1. g # f /\ flight'[g] = flight[g] /\ flight[g] # Nulo /\ u # Nulo
      BY <2>1, <2>3
    <3>2. page[u] = flight[f].kind
      BY <1>8, <2>3, <3>1 DEF Placed, Flying
    <3>3. QED
      BY <1>8, <2>3, <3>1, <3>2 DEF Placed, Flying
  <2>4. QED
    BY <1>0, <1>8, <2>2, <2>3, PlacedThin
<1>9. ASSUME NEW f \in Flights, Expelled(f) PROVE Placed'
  <2>1. flight[f].tab \in Tabs
    BY <1>9, ReplyType DEF Expelled
  <2>2. CASE page[flight[f].tab] \in Inside
    BY <1>6, <1>9, <2>1, <2>2 DEF Expelled, Page
  <2>3. CASE page[flight[f].tab] \notin Inside
    BY <1>8, <1>9, <2>3 DEF Expelled, Placed
  <2>4. QED
    BY <2>2, <2>3
<1>10. ASSUME NEW f \in Flights,
             \/ LoggedIn(f) \/ PasswordChanged(f) \/ Renewed(f)
             \/ Told(f) \/ Switched(f) \/ LoggedOut(f) \/ Lose(f)
      PROVE  Placed'
  <2>1. CASE LoggedIn(f) \/ PasswordChanged(f)
    <3>1. /\ Done(f) /\ UNCHANGED shown /\ Answered(f, {"login", "password"}) /\ flight[f] # Nulo
          /\ \E p \in {"opening", "password"} : page' = [page EXCEPT ![flight[f].tab] = p]
      BY <2>1 DEF LoggedIn, PasswordChanged, Answered
    <3>2. flight[f].tab \in Tabs /\ page[flight[f].tab] = flight[f].kind /\ flight[f].kind \in {"login", "password"}
      BY <3>1, ReplyType DEF Answered, Placed, Flying
    <3>3. \A u \in Tabs : page'[u] # page[u] => u = flight[f].tab
      BY <3>1 DEF TypeOK
    <3>4. \A u \in Tabs : shown[u] # Nulo => page[u] = "home" /\ u # flight[f].tab
      BY <3>2 DEF Placed
    <3>5. QED
      BY <1>8, <3>1, <3>2, <3>3, <3>4
  <2>2. CASE Renewed(f) \/ LoggedOut(f) \/ Lose(f)
    BY <1>8, <2>2 DEF Renewed, LoggedOut, Lose, Placed, tabVars
  <2>3. CASE Told(f) \/ Switched(f)
    <3>1. /\ Done(f) /\ UNCHANGED page /\ flight[f] # Nulo /\ flight[f].tab \in Tabs
      BY <2>3, ReplyType DEF Told, Switched, Answered
    <3>2. \/ UNCHANGED shown
          \/ /\ flight[f].kind \in {"me", "switch"} /\ flight[f].there
             /\ shown' = [shown EXCEPT ![flight[f].tab] = flight[f].reply.store]
      BY <2>3 DEF Told, Switched, Answered
    <3>3. flight[f].kind \in {"me", "switch"} /\ flight[f].there => page[flight[f].tab] = "home"
      BY <3>1 DEF Placed, Flying
    <3>4. \A u \in Tabs : page'[u] # "home" => shown'[u] = Nulo
      BY <3>1, <3>2, <3>3 DEF Placed, TypeOK
    <3>5. QED
      BY <1>8, <3>1, <3>4
  <2>4. QED
    BY <1>10, <2>1, <2>2, <2>3
<1>11. ASSUME NEW t \in Tabs, Reload(t) PROVE Placed'
  BY <1>6, <1>11 DEF Reload, Page
<1>12. CASE Elsewhere \/ Lapse \/ UNCHANGED vars
  BY <1>12 DEF Elsewhere, Lapse, vars, tabVars, Placed, Flying
<1>13. QED
  BY <1>1, <1>3, <1>4, <1>5, <1>7, <1>9, <1>10, <1>11, <1>12
  DEF Next, Tab, Asks, Arrival

-----------------------------------------------------------------------------
(* The store a tab shows.                                                   *)

\* A request after a step is the one before it in every respect, unless nobody waits for it.
Kept(g) ==
    Thin(g) /\ (flight'[g] # Nulo /\ flight'[g].tab # Nulo => SameBut(g, g))

\* me, switch and work are always somebody's.
LEMMA SomebodyAsks ==
    ASSUME TypeOK, NEW g \in Flights, flight[g] # Nulo, flight[g].kind \in {"me", "switch", "work"}
    PROVE  flight[g].tab \in Tabs
<1>1. flight[g].tab # Nulo
  BY DEF TypeOK, Turning
<1>2. QED
  BY <1>1, TabType

\* A step that adds no request, and moves the store of no tab that waits for me.
LEMMA StoresKept ==
    ASSUME TypeOK, TypeOK', StoresAgree, "late" \notin events,
           \A g \in Flights : Kept(g), ShownIsOwn',
           \A g \in Flights : flight'[g] # Nulo /\ flight'[g].tab # Nulo =>
              /\ page'[flight'[g].tab] = "home" =>
                    page[flight'[g].tab] = "home" /\ (flight[g].there => flight'[g].there)
              /\ flight'[g].kind = "me" /\ flight'[g].there =>
                    scope'[flight'[g].tab] \in {scope[flight'[g].tab], Nulo}
    PROVE  StoresAgree'
<1>1. ASSUME NEW g \in Flights, flight'[g] # Nulo, flight'[g].kind \in {"me", "switch", "work"}
      PROVE  /\ flight'[g].tab # Nulo /\ flight[g] # Nulo /\ SameBut(g, g)
             /\ flight'[g].there => flight[g].there
  <2>1. flight'[g].tab # Nulo
    BY <1>1 DEF TypeOK, Turning
  <2>2. QED
    BY <1>1, <2>1 DEF Kept, Thin
<1>2. OneAnswer'
  BY <1>1 DEF OneAnswer, Flying, SameBut, StoresAgree
<1>3. ASSUME NEW g \in Flights, flight'[g] # Nulo PROVE InStore(g)'
  <2>1. CASE flight'[g].kind = "switch"
    <3>1. /\ flight[g].kind = "switch" /\ flight[g].tab = flight'[g].tab /\ g \in Flying
          /\ flight'[g].tab # Nulo
      BY <1>1, <1>3, <2>1 DEF SameBut, Flying
    <3>2. ~flight[g].there => page[flight[g].tab] # "home"
      BY <3>1 DEF StoresAgree, InStore
    <3>3. ~flight'[g].there => page'[flight'[g].tab] # "home"
      BY <1>3, <3>1, <3>2
    <3>4. QED
      BY <2>1, <3>3 DEF InStore
  <2>2. CASE flight'[g].kind = "me"
    <3>1. /\ flight[g].kind = "me" /\ g \in Flying /\ flight'[g].tab # Nulo /\ SameBut(g, g)
          /\ flight'[g].there => flight[g].there
      BY <1>1, <1>3, <2>2 DEF SameBut, Flying
    <3>2. InStore(g)
      BY <3>1 DEF StoresAgree
    <3>3. QED
      BY <1>3, <2>2, <3>1, <3>2 DEF InStore, SameBut
  <2>3. CASE flight'[g].kind = "work"
    <3>1. flight[g].kind = "work" /\ g \in Flying /\ SameBut(g, g)
      BY <1>1, <1>3, <2>3 DEF SameBut, Flying
    <3>2. InStore(g)
      BY <3>1 DEF StoresAgree
    <3>3. QED
      BY <2>3, <3>1, <3>2 DEF InStore, SameBut
  <2>4. CASE flight'[g].kind \notin {"me", "switch", "work"}
    BY <2>4 DEF InStore
  <2>5. QED
    BY <2>1, <2>2, <2>3, <2>4
<1>4. QED
  BY <1>2, <1>3 DEF StoresAgree, Flying

LEMMA StoresSend ==
    ASSUME TypeOK, TypeOK', Placed, StoresAgree, "late" \notin events',
           NEW t \in Tabs, NEW f \in Flights, NEW k \in Kind, NEW keeps \in Store \cup Tokens,
           Send(t, f, k, keeps), UNCHANGED <<scope, shown>>,
           k = "me" => page[t] = "opening" /\ page' = [page EXCEPT ![t] = "home"],
           k # "me" => UNCHANGED page,
           k = "work" => keeps = shown[t]
    PROVE  StoresAgree'
<1>1. /\ flight[f] = Nulo /\ flight'[f] # Nulo
      /\ flight'[f].tab = t /\ flight'[f].kind = k /\ flight'[f].reply = Nulo
      /\ flight'[f].header = scope[t] /\ flight'[f].keeps = keeps /\ flight'[f].there
      /\ \A g \in Flights : g # f => flight'[g] = flight[g]
  BY SendFlights
<1>2. /\ "late" \notin events
      /\ k \in {"me", "switch"} => Of(t, {"me", "switch"} \ {k}) = {}
  BY DEF Send, Happens, If
<1>3. /\ k = "me" => \A g \in Flights : flight[g] # Nulo /\ flight[g].kind = "switch" => flight[g].tab # t
      /\ k = "switch" => \A g \in Flights : flight[g] # Nulo /\ flight[g].kind = "me" => flight[g].tab # t
  BY <1>2 DEF Of, Flying
<1>4. ShownIsOwn /\ OneAnswer /\ \A g \in Flying : InStore(g)
  BY <1>2 DEF StoresAgree
<1>5. ShownIsOwn'
  BY <1>4 DEF ShownIsOwn
<1>6. OneAnswer'
  BY <1>1, <1>3, <1>4 DEF OneAnswer, Flying
<1>7. InStore(f)'
  <2>1. k = "me" => InStore(f)'
    BY <1>1 DEF InStore
  <2>2. k = "switch" => InStore(f)'
    BY <1>1 DEF InStore
  <2>3. k = "work" => InStore(f)'
    BY <1>1, <1>4 DEF InStore, ShownIsOwn
  <2>4. k \notin {"me", "switch", "work"} => InStore(f)'
    BY <1>1 DEF InStore
  <2>5. QED
    BY <2>1, <2>2, <2>3, <2>4
<1>8. ASSUME NEW g \in Flights, g # f, flight'[g] # Nulo PROVE InStore(g)'
  <2>1. flight'[g] = flight[g] /\ InStore(g)
    BY <1>1, <1>4, <1>8 DEF Flying
  <2>2. flight[g].kind = "switch" => page'[flight[g].tab] = page[flight[g].tab]
    BY <1>3, <1>8, <2>1, SomebodyAsks DEF TypeOK
  <2>3. QED
    BY <2>1, <2>2 DEF InStore
<1>9. QED
  BY <1>5, <1>6, <1>7, <1>8 DEF StoresAgree, Flying

LEMMA StoresServed ==
    ASSUME TypeOK, TypeOK', StoresAgree, "late" \notin events, NEW f \in Flights, Waiting(f),
           NEW ok \in BOOLEAN, NEW jti \in Tokens, NEW store \in Store, Respond(f, ok, jti, store),
           ok /\ flight[f].kind = "me" => store = Resolved(flight[f]),
           UNCHANGED <<page, scope, shown>>
    PROVE  StoresAgree'
<1>1. /\ \A g \in Flights : g # f => flight'[g] = flight[g]
      /\ flight[f].tab = Nulo => flight'[f] = Nulo
      /\ flight[f].tab # Nulo =>
           /\ flight'[f] # Nulo /\ flight'[f].reply # Nulo
           /\ flight'[f].tab = flight[f].tab /\ flight'[f].kind = flight[f].kind
           /\ flight'[f].there = flight[f].there
           /\ flight'[f].reply.ok = ok /\ flight'[f].reply.store = store
  BY RespondType
<1>2. ShownIsOwn /\ OneAnswer /\ \A g \in Flying : InStore(g)
  BY DEF StoresAgree
<1>3. flight[f] # Nulo /\ flight[f].reply = Nulo /\ InStore(f)
  BY <1>2 DEF Waiting, Flying
<1>4. ShownIsOwn'
  BY <1>2 DEF ShownIsOwn
<1>5. \A g \in Flights : flight'[g] # Nulo =>
         flight[g] # Nulo /\ flight'[g].tab = flight[g].tab /\ flight'[g].kind = flight[g].kind
  BY <1>1, <1>3
<1>6. OneAnswer'
  BY <1>2, <1>5 DEF OneAnswer, Flying
<1>7. flight'[f] # Nulo => InStore(f)'
  BY <1>1, <1>3 DEF InStore, Resolved
<1>8. ASSUME NEW g \in Flights, g # f, flight'[g] # Nulo PROVE InStore(g)'
  BY <1>1, <1>2, <1>8 DEF InStore, Flying
<1>9. QED
  BY <1>4, <1>6, <1>7, <1>8 DEF StoresAgree, Flying

\* What has happened stays so.
LEMMA EventsGrow == [Next]_vars => events \subseteq events'
<1> SUFFICES ASSUME [Next]_vars PROVE events \subseteq events' OBVIOUS
<1> USE DEF Happens
<1>1. ASSUME NEW t \in Tabs, NEW f \in Flights, Tab(t, f) PROVE events \subseteq events'
  BY <1>1 DEF Tab, Enter, Login, Password, Switch, Refresh, Check, Work, Ask, Send, Logout
<1>2. ASSUME NEW t \in Tabs, Open(t) \/ Reload(t) PROVE events \subseteq events'
  BY <1>2 DEF Open, Reload
<1>3. ASSUME NEW f \in Flights, Server(f) PROVE events \subseteq events'
  BY <1>3 DEF Server, Refuse, Mistype, Issue, Handle
<1>4. ASSUME NEW f \in Flights, Arrival(f) PROVE events \subseteq events'
  <2>1. CASE Expelled(f)
    BY <2>1 DEF Expelled
  <2>2. CASE ~Expelled(f)
    BY <1>4, <2>2 DEF Arrival, LoggedIn, PasswordChanged, Renewed, Told, Switched, LoggedOut, Lose
  <2>3. QED
    BY <2>1, <2>2
<1>5. CASE Elsewhere \/ Lapse \/ UNCHANGED vars
  BY <1>5 DEF Elsewhere, Lapse, vars
<1>6. QED
  BY <1>1, <1>2, <1>3, <1>4, <1>5 DEF Next

LEMMA DoneKept ==
    ASSUME TypeOK, NEW f \in Flights, Done(f)
    PROVE  \A g \in Flights : Kept(g) /\ (flight'[g] # Nulo => g # f /\ flight'[g] = flight[g])
<1>1. flight'[f] = Nulo /\ \A g \in Flights : g # f => flight'[g] = flight[g]
  BY DEF Done, TypeOK
<1>2. QED
  BY <1>1 DEF Kept, Thin, SameBut

LEMMA AbandonKept ==
    ASSUME TypeOK, NEW t \in Tabs, Abandon(t)
    PROVE  \A g \in Flights :
              /\ Kept(g)
              /\ flight'[g] # Nulo /\ flight'[g].tab # Nulo =>
                    flight'[g] = flight[g] /\ flight'[g].tab # t
  BY AbandonThin DEF Kept, SameBut

LEMMA StoresNext == TypeOK /\ Placed /\ StoresAgree /\ [Next]_vars => StoresAgree'
<1> SUFFICES ASSUME TypeOK, Placed, StoresAgree, [Next]_vars, "late" \notin events'
             PROVE  StoresAgree'
  BY DEF StoresAgree
<1>0. /\ TypeOK' /\ "late" \notin events
      /\ ShownIsOwn /\ OneAnswer /\ \A g \in Flying : InStore(g)
  BY TypeNext, EventsGrow DEF StoresAgree
<1>1. ASSUME NEW t \in Tabs, Open(t) PROVE StoresAgree'
  <2>1. /\ page' = [page EXCEPT ![t] = "opening"] /\ UNCHANGED <<scope, shown, flight>>
    BY <1>1 DEF Open
  <2>2. \A g \in Flights : Kept(g)
    BY <2>1 DEF Kept, Thin, SameBut
  <2>3. ShownIsOwn'
    BY <1>0, <2>1 DEF ShownIsOwn
  <2>4. \A u \in Tabs : page'[u] = "home" => page[u] = "home"
    BY <2>1 DEF TypeOK
  <2>5. \A g \in Flights : flight[g] # Nulo /\ flight[g].tab # Nulo => flight[g].tab \in Tabs
    BY TabType
  <2>6. QED
    BY <1>0, <2>1, <2>2, <2>3, <2>4, <2>5, StoresKept
<1>2. ASSUME NEW t \in Tabs, NEW f \in Flights, Enter(t, f) PROVE StoresAgree'
  <2>1. CASE cached
    <3>1. /\ Send(t, f, "me", Nulo) /\ UNCHANGED <<scope, shown>>
          /\ page[t] = "opening" /\ page' = [page EXCEPT ![t] = "home"]
          /\ "me" \in Kind /\ Nulo \in Store \cup Tokens
      BY <1>2, <2>1 DEF Enter, Kind, Store
    <3>2. QED
      BY <1>0, <3>1, StoresSend
  <2>2. CASE ~cached
    <3>1. /\ page' = [page EXCEPT ![t] = "login"] /\ UNCHANGED <<scope, shown, flight>>
      BY <1>2, <2>2 DEF Enter
    <3>2. \A g \in Flights : Kept(g)
      BY <3>1 DEF Kept, Thin, SameBut
    <3>3. ShownIsOwn'
      BY <1>0, <3>1 DEF ShownIsOwn
    <3>4. \A u \in Tabs : page'[u] = "home" => page[u] = "home"
      BY <3>1 DEF TypeOK
    <3>5. \A g \in Flights : flight[g] # Nulo /\ flight[g].tab # Nulo => flight[g].tab \in Tabs
      BY TabType
    <3>6. QED
      BY <1>0, <3>1, <3>2, <3>3, <3>4, <3>5, StoresKept
  <2>3. QED
    BY <2>1, <2>2
<1>3. ASSUME NEW t \in Tabs, NEW f \in Flights, Asks(t, f) PROVE StoresAgree'
  <2>1. PICK k \in Kind, keeps \in Store \cup Tokens :
           /\ Send(t, f, k, keeps) /\ UNCHANGED <<browserVars, tabVars>>
           /\ k \in Kind \ {"me", "logout"}
           /\ k = "work" => keeps = shown[t]
    BY <1>3, AsksSend
  <2>2. UNCHANGED <<scope, shown>> /\ UNCHANGED page /\ k # "me"
    BY <2>1 DEF tabVars
  <2>3. QED
    BY <1>0, <2>1, <2>2, StoresSend
<1>4. ASSUME NEW t \in Tabs, NEW f \in Flights, Logout(t, f) PROVE StoresAgree'
  <2>1. /\ page' = [page EXCEPT ![t] = "login"] /\ shown' = [shown EXCEPT ![t] = Nulo]
        /\ UNCHANGED scope
    BY <1>4 DEF Logout, Leave
  <2>2. ShownIsOwn'
    BY <1>0, <2>1 DEF ShownIsOwn, TypeOK
  <2>3. ASSUME NEW g \in Flights, flight'[g] # Nulo
        PROVE  \/ g = f /\ flight'[g].kind = "logout"
               \/ /\ g # f /\ flight[g] # Nulo /\ SameBut(g, g)
                  /\ flight'[g].there => flight'[g] = flight[g]
                  /\ ~flight'[g].there => flight'[g] = flight[g] \/ flight'[g].tab = t
    <3>1. CASE g = f
      BY <1>4, <3>1, LogoutFlights
    <3>2. CASE g # f /\ g \in Of(t, Kind)
      BY <1>4, <3>2, LogoutFlights DEF Of, Flying, SameBut
    <3>3. CASE g # f /\ g \notin Of(t, Kind)
      BY <1>4, <2>3, <3>3, LogoutFlights DEF SameBut
    <3>4. QED
      BY <3>1, <3>2, <3>3
  <2>4. OneAnswer'
    BY <1>0, <2>3 DEF OneAnswer, Flying, SameBut
  <2>5. ASSUME NEW g \in Flights, flight'[g] # Nulo PROVE InStore(g)'
    <3>1. CASE g = f
      BY <2>3, <2>5, <3>1 DEF InStore
    <3>2. CASE g # f /\ flight'[g] = flight[g]
      <4>1. InStore(g)
        BY <1>0, <2>5, <3>2 DEF Flying
      <4>2. flight[g].kind = "switch" /\ page'[flight[g].tab] = "home" => page[flight[g].tab] = "home"
        BY <2>1, <2>5, <3>2, SomebodyAsks DEF TypeOK
      <4>3. QED
        BY <2>1, <3>2, <4>1, <4>2 DEF InStore
    <3>3. CASE g # f /\ ~flight'[g].there /\ flight'[g].tab = t
      <4>1. InStore(g) /\ SameBut(g, g)
        BY <1>0, <2>3, <2>5, <3>3 DEF Flying
      <4>2. page'[t] # "home"
        BY <2>1 DEF TypeOK
      <4>3. QED
        BY <3>3, <4>1, <4>2 DEF InStore, SameBut
    <3>4. QED
      BY <2>3, <2>5, <3>1, <3>2, <3>3
  <2>6. QED
    BY <2>2, <2>4, <2>5 DEF StoresAgree, Flying
<1>5. ASSUME NEW t \in Tabs, NEW to \in Page \ {"home"}, Leave(t, to), Abandon(t), UNCHANGED scope
      PROVE  StoresAgree'
  <2>1. page' = [page EXCEPT ![t] = to] /\ shown' = [shown EXCEPT ![t] = Nulo]
    BY <1>5 DEF Leave
  <2>2. ShownIsOwn'
    BY <1>0, <1>5, <2>1 DEF ShownIsOwn, TypeOK
  <2>3. ASSUME NEW g \in Flights, flight'[g] # Nulo, flight'[g].tab # Nulo
        PROVE  flight'[g] = flight[g] /\ page'[flight'[g].tab] = page[flight'[g].tab]
    <3>1. flight'[g] = flight[g] /\ flight[g].tab # t
      BY <1>5, <2>3, AbandonKept
    <3>2. flight[g].tab \in Tabs
      BY <2>3, <3>1, TabType
    <3>3. QED
      BY <2>1, <3>1, <3>2 DEF TypeOK
  <2>4. \A g \in Flights : Kept(g)
    BY <1>5, AbandonKept
  <2>5. QED
    BY <1>0, <1>5, <2>2, <2>3, <2>4, StoresKept
<1>6. ASSUME NEW f \in Flights, Server(f) PROVE StoresAgree'
  <2>1. \E ok \in BOOLEAN, jti \in Tokens, store \in Store :
           /\ Waiting(f) /\ Respond(f, ok, jti, store)
           /\ ok /\ flight[f].kind = "me" => store = Resolved(flight[f])
    <3>1. 0 \in Tokens /\ Nulo \in Store /\ Stores \subseteq Store
      BY DEF Tokens, Store
    <3>2. CASE Refuse(f) \/ Mistype(f)
      BY <3>1, <3>2 DEF Refuse, Mistype
    <3>3. CASE Issue(f)
      <4>1. PICK store \in Stores : Respond(f, TRUE, good', store)
        BY <3>3, IssueType
      <4>2. Waiting(f) /\ flight[f].kind # "me" /\ good' \in Tokens /\ store \in Store
        BY <3>1, <3>3, IssueType
      <4>3. QED
        BY <4>1, <4>2
    <3>4. CASE Handle(f)
      <4>1. PICK jti \in Tokens, store \in Store :
               /\ Respond(f, TRUE, jti, store)
               /\ store = (IF flight[f].kind = "switch" THEN flight[f].keeps ELSE Resolved(flight[f]))
        BY <3>4, HandleType
      <4>2. Waiting(f) /\ (flight[f].kind = "me" => store = Resolved(flight[f]))
        BY <3>4, <4>1 DEF Handle
      <4>3. QED
        BY <4>1, <4>2
    <3>5. QED
      BY <1>6, <3>2, <3>3, <3>4 DEF Server
  <2>2. UNCHANGED <<page, scope, shown>>
    BY <1>6 DEF Server, Refuse, Mistype, Issue, Handle, tabVars
  <2>3. QED
    BY <1>0, <2>1, <2>2, StoresServed
<1>7. ASSUME NEW f \in Flights, Done(f), ShownIsOwn',
             \A u \in Tabs : page'[u] = "home" => page[u] = "home",
             \A g \in Flights : /\ g # f /\ flight[g] # Nulo /\ flight[g].tab \in Tabs
                                /\ flight[g].kind = "me" /\ flight[g].there
                                => scope'[flight[g].tab] \in {scope[flight[g].tab], Nulo}
      PROVE  StoresAgree'
  <2>1. \A g \in Flights : Kept(g) /\ (flight'[g] # Nulo => g # f /\ flight'[g] = flight[g])
    BY <1>7, DoneKept
  <2>2. \A g \in Flights : flight[g] # Nulo /\ flight[g].tab # Nulo => flight[g].tab \in Tabs
    BY TabType
  <2>3. QED
    BY <1>0, <1>7, <2>1, <2>2, StoresKept
<1>8. ASSUME NEW f \in Flights, Expelled(f) PROVE StoresAgree'
  <2>1. flight[f].tab \in Tabs /\ UNCHANGED scope
    BY <1>8, ReplyType DEF Expelled
  <2>2. CASE page[flight[f].tab] \in Inside
    BY <1>5, <1>8, <2>1, <2>2 DEF Expelled, Page
  <2>3. CASE page[flight[f].tab] \notin Inside
    BY <1>0, <1>7, <1>8, <2>1, <2>3 DEF Expelled, ShownIsOwn
  <2>4. QED
    BY <2>2, <2>3
<1>9. ASSUME NEW f \in Flights, LoggedIn(f) \/ LoggedOut(f) \/ PasswordChanged(f) PROVE StoresAgree'
  <2> DEFINE t == flight[f].tab
  <2>1. t \in Tabs /\ f \in Flying
    BY <1>9, ReplyType DEF LoggedIn, LoggedOut, PasswordChanged
  <2>2. CASE LoggedIn(f)
    <3>1. page[t] = "login"
      BY <2>1, <2>2 DEF LoggedIn, Answered, Placed, Flying
    <3>2. /\ scope' = [scope EXCEPT ![t] = flight[f].reply.store] /\ UNCHANGED shown /\ Done(f)
          /\ \E p \in {"opening", "password"} : page' = [page EXCEPT ![t] = p]
      BY <2>2 DEF LoggedIn
    <3>3. shown[t] = Nulo
      BY <2>1, <3>1 DEF Placed
    <3>4. ShownIsOwn'
      BY <1>0, <3>2, <3>3 DEF ShownIsOwn, TypeOK
    <3>5. \A g \in Flights : flight[g] # Nulo /\ flight[g].tab \in Tabs
             /\ flight[g].kind = "me" /\ flight[g].there => flight[g].tab # t
      BY <3>1 DEF Placed, Flying
    <3>6. \A u \in Tabs : page'[u] = "home" => page[u] = "home"
      BY <3>2 DEF TypeOK
    <3>7. \A u \in Tabs : u # t => scope'[u] = scope[u]
      BY <3>2 DEF TypeOK
    <3>8. QED
      BY <1>7, <3>2, <3>4, <3>5, <3>6, <3>7
  <2>3. CASE LoggedOut(f)
    <3>1. scope' = [scope EXCEPT ![t] = Nulo] /\ UNCHANGED shown /\ UNCHANGED page /\ Done(f)
      BY <2>3 DEF LoggedOut
    <3>2. ShownIsOwn' /\ \A u \in Tabs : scope'[u] \in {scope[u], Nulo}
      BY <1>0, <3>1 DEF ShownIsOwn, TypeOK
    <3>3. QED
      BY <1>7, <3>1, <3>2
  <2>4. CASE PasswordChanged(f)
    <3>1. /\ page' = [page EXCEPT ![t] = "opening"] /\ UNCHANGED scope /\ UNCHANGED shown /\ Done(f)
      BY <2>4 DEF PasswordChanged
    <3>2. ShownIsOwn' /\ \A u \in Tabs : page'[u] = "home" => page[u] = "home"
      BY <1>0, <3>1 DEF ShownIsOwn, TypeOK
    <3>3. QED
      BY <1>7, <3>1, <3>2
  <2>5. QED
    BY <1>9, <2>2, <2>3, <2>4
<1>10. ASSUME NEW f \in Flights, Renewed(f) \/ Lose(f) PROVE StoresAgree'
  <2>1. UNCHANGED scope /\ UNCHANGED shown /\ UNCHANGED page /\ Done(f)
    BY <1>10 DEF Renewed, Lose, tabVars
  <2>2. ShownIsOwn'
    BY <1>0, <2>1 DEF ShownIsOwn
  <2>3. QED
    BY <1>7, <2>1, <2>2
<1>11. ASSUME NEW f \in Flights, Told(f) PROVE StoresAgree'
  <2> DEFINE q == flight[f]
  <2>1. q.tab \in Tabs /\ f \in Flying /\ q.reply # Nulo /\ q.reply.ok /\ InStore(f)
    BY <1>0, <1>11, ReplyType DEF Told, Answered
  <2>2. /\ UNCHANGED scope /\ UNCHANGED page /\ Done(f)
        /\ shown' = IF q.kind = "me" /\ q.there THEN [shown EXCEPT ![q.tab] = q.reply.store] ELSE shown
    BY <1>11 DEF Told
  <2>3. q.kind = "me" /\ q.there => scope[q.tab] = Nulo \/ q.reply.store = scope[q.tab]
    BY <2>1 DEF InStore
  <2>4. ShownIsOwn'
    BY <1>0, <2>1, <2>2, <2>3 DEF ShownIsOwn, TypeOK
  <2>5. QED
    BY <1>7, <2>2, <2>4
<1>12. ASSUME NEW f \in Flights, Switched(f) PROVE StoresAgree'
  <2> DEFINE q == flight[f]
  <2>1. q.tab \in Tabs /\ f \in Flying /\ q.kind = "switch" /\ InStore(f)
    BY <1>0, <1>12, ReplyType DEF Switched, Answered
  <2>2. /\ scope' = [scope EXCEPT ![q.tab] = q.reply.store] /\ UNCHANGED page /\ Done(f)
        /\ shown' = IF q.there THEN [shown EXCEPT ![q.tab] = q.reply.store] ELSE shown
    BY <1>12 DEF Switched
  <2>3. ~q.there => shown[q.tab] = Nulo
    BY <2>1 DEF InStore, Placed
  <2>4. ShownIsOwn'
    BY <1>0, <2>1, <2>2, <2>3 DEF ShownIsOwn, TypeOK
  <2>5. \A g \in Flights : flight[g] # Nulo /\ flight[g].kind = "me" => flight[g].tab # q.tab
    BY <1>0, <2>1 DEF OneAnswer, Flying
  <2>6. \A u \in Tabs : u # q.tab => scope'[u] = scope[u]
    BY <2>2 DEF TypeOK
  <2>7. QED
    BY <1>7, <2>2, <2>4, <2>5, <2>6
<1>13. ASSUME NEW t \in Tabs, Reload(t) PROVE StoresAgree'
  BY <1>5, <1>13 DEF Reload, Page
<1>14. CASE Elsewhere \/ Lapse \/ UNCHANGED vars
  <2>1. UNCHANGED <<page, scope, shown, flight>>
    BY <1>14 DEF Elsewhere, Lapse, vars, tabVars
  <2>2. QED
    BY <1>0, <2>1 DEF StoresAgree, ShownIsOwn, OneAnswer, InStore, Flying
<1>15. QED
  BY <1>1, <1>2, <1>3, <1>4, <1>6, <1>8, <1>9, <1>10, <1>11, <1>12, <1>13, <1>14
  DEF Next, Tab, Asks, Arrival

-----------------------------------------------------------------------------
(* The session while nothing happens to it.                                 *)

LEMMA QuietSend ==
    ASSUME TypeOK, Quiet, events' = {}, NEW t \in Tabs, NEW f \in Flights, NEW k \in Kind,
           NEW keeps \in Store \cup Tokens, Send(t, f, k, keeps), UNCHANGED browserVars,
           k # "login" => good # 0,
           \A u \in Tabs : page'[u] \in {"home", "password"} =>
              page[u] \in {"home", "password"} \/ cached
    PROVE  Quiet'
<1>1. /\ flight[f] = Nulo /\ flight'[f] # Nulo
      /\ flight'[f].tab = t /\ flight'[f].kind = k /\ flight'[f].reply = Nulo
      /\ flight'[f].token = cookie
      /\ \A g \in Flights : g # f => flight'[g] = flight[g]
  BY SendFlights
<1>2. events = {} /\ \A g \in Flying : k \notin Turning /\ flight[g].kind \notin Turning
  BY DEF Send, Happens, If
<1>3. cookie = good
  BY <1>2 DEF Quiet
<1>4. good' = good /\ cookie' = cookie /\ cached' = cached
  BY DEF Send, serverVars, browserVars
<1>5. \A g \in Flights : flight'[g] # Nulo /\ g # f => g \in Flying /\ flight'[g] = flight[g]
  BY <1>1 DEF Flying
<1>6. \A g, h \in Flying' : flight'[g].kind \in Turning => g = h
  BY <1>1, <1>2, <1>5 DEF Flying
<1>7. \A g \in Flying' :
         /\ flight'[g].tab # Nulo
         /\ Waiting(g)' /\ flight'[g].kind # "login" => Accepted(flight[g])'
         /\ ~Waiting(g)' => flight'[g].reply.ok /\ flight'[g].kind # "logout" /\ good' # 0
  <2>1. ASSUME NEW g \in Flights, flight'[g] # Nulo, g # f
        PROVE  /\ flight'[g].tab # Nulo
               /\ Waiting(g)' /\ flight'[g].kind # "login" => Accepted(flight[g])'
               /\ ~Waiting(g)' => flight'[g].reply.ok /\ flight'[g].kind # "logout" /\ good' # 0
    <3>1. g \in Flying /\ flight'[g] = flight[g]
      BY <1>5, <2>1
    <3>2. QED
      BY <1>2, <1>4, <3>1 DEF Quiet, Waiting, Accepted
  <2>2. Waiting(f)'
    BY <1>1 DEF Waiting
  <2>3. k # "login" => Accepted(flight[f])'
    BY <1>1, <1>3, <1>4 DEF Accepted
  <2>4. QED
    BY <1>1, <2>1, <2>2, <2>3 DEF Flying
<1>8. cached' \/ (\E u \in Tabs : page'[u] \in {"home", "password"}) => good' # 0
  BY <1>2, <1>4 DEF Quiet
<1>9. \A g \in Flying' : flight'[g].kind \in Turning => Waiting(g)'
  BY <1>1, <1>2, <1>5 DEF Waiting, Flying
<1>10. QED
  BY <1>3, <1>4, <1>6, <1>7, <1>8, <1>9 DEF Quiet

\* A step that only takes requests away, none of them with a cookie to bring.
LEMMA QuietLess ==
    ASSUME Quiet, events = {},
           \A g \in Flights : flight'[g] # Nulo => flight[g] # Nulo /\ flight'[g] = flight[g],
           \A g \in Flying : flight[g].kind \in Turning /\ ~Waiting(g) => flight'[g] # Nulo,
           good' = good, cookie' = cookie,
           cached' => cached \/ good # 0,
           \A u \in Tabs : page'[u] \in {"home", "password"} =>
              page[u] \in {"home", "password"} \/ good # 0
    PROVE  Quiet'
<1>1. \A g \in Flying' : g \in Flying /\ flight'[g] = flight[g]
  BY DEF Flying
<1>2. \A g, h \in Flying' : flight'[g].kind \in Turning => g = h
  BY <1>1 DEF Quiet
<1>3. \A g \in Flying' :
         /\ flight'[g].tab # Nulo
         /\ Waiting(g)' /\ flight'[g].kind # "login" => Accepted(flight[g])'
         /\ ~Waiting(g)' => flight'[g].reply.ok /\ flight'[g].kind # "logout" /\ good' # 0
  BY <1>1 DEF Quiet, Waiting, Accepted
<1>4. cached' \/ (\E u \in Tabs : page'[u] \in {"home", "password"}) => good' # 0
  BY DEF Quiet
<1>5. \A g \in Flying' : flight'[g].kind \in Turning /\ ~Waiting(g)' => flight'[g].reply.jti = good'
  BY <1>1 DEF Quiet, Waiting
<1>6. (\A g \in Flying' : flight'[g].kind \in Turning => Waiting(g)') => cookie' = good'
  <2>1. ASSUME \A g \in Flying' : flight'[g].kind \in Turning => Waiting(g)',
               NEW g \in Flying, flight[g].kind \in Turning
        PROVE  Waiting(g)
    <3>1. CASE flight'[g] = Nulo
      BY <2>1, <3>1
    <3>2. CASE flight'[g] # Nulo
      BY <2>1, <3>2 DEF Flying, Waiting
    <3>3. QED
      BY <3>1, <3>2
  <2>2. QED
    BY <2>1 DEF Quiet
<1>7. QED
  BY <1>2, <1>3, <1>4, <1>5, <1>6 DEF Quiet

LEMMA QuietStill ==
    ASSUME Quiet, events = {}, flight' = flight, good' = good, cookie' = cookie, cached' = cached,
           \A u \in Tabs : page'[u] \in {"home", "password"} => page[u] \in {"home", "password"}
    PROVE  Quiet'
<1>1. \A g \in Flying : flight'[g] # Nulo
  BY DEF Flying
<1>2. cached' => cached
  BY Zenon
<1>3. QED
  BY <1>1, <1>2, QuietLess

LEMMA QuietNext == TypeOK /\ Placed /\ Quiet /\ [Next]_vars => Quiet'
<1> SUFFICES ASSUME TypeOK, Placed, Quiet, [Next]_vars, events' = {} PROVE Quiet'
  BY DEF Quiet
<1>0. TypeOK' /\ events = {}
  BY TypeNext, EventsGrow
<1>1. ASSUME NEW t \in Tabs, Open(t) PROVE Quiet'
  <2>1. \A u \in Tabs : page'[u] \in {"home", "password"} => page[u] \in {"home", "password"}
    BY <1>1 DEF Open, TypeOK
  <2>2. QED
    BY <1>0, <1>1, <2>1, QuietStill DEF Open, browserVars, serverVars
<1>2. ASSUME NEW t \in Tabs, NEW f \in Flights, Enter(t, f) PROVE Quiet'
  <2>1. CASE cached
    <3>1. /\ Send(t, f, "me", Nulo) /\ UNCHANGED browserVars /\ good # 0
          /\ "me" \in Kind /\ Nulo \in Store \cup Tokens
      BY <1>0, <1>2, <2>1 DEF Enter, Kind, Store, Quiet
    <3>2. QED
      BY <2>1, <3>1, QuietSend
  <2>2. CASE ~cached
    <3>1. page' = [page EXCEPT ![t] = "login"] /\ UNCHANGED <<flight, good, cookie, cached>>
      BY <1>2, <2>2 DEF Enter, browserVars, serverVars
    <3>2. \A u \in Tabs : page'[u] \in {"home", "password"} => page[u] \in {"home", "password"}
      BY <3>1 DEF TypeOK
    <3>3. QED
      BY <1>0, <3>1, <3>2, QuietStill
  <2>3. QED
    BY <2>1, <2>2
<1>3. ASSUME NEW t \in Tabs, NEW f \in Flights, Asks(t, f) PROVE Quiet'
  <2>1. PICK k \in Kind, keeps \in Store \cup Tokens :
           /\ Send(t, f, k, keeps) /\ UNCHANGED <<browserVars, tabVars>>
           /\ page[t] = (IF k \in {"login", "password"} THEN k ELSE "home")
    BY <1>3, AsksSend
  <2>2. UNCHANGED browserVars /\ UNCHANGED page
    BY <2>1 DEF tabVars
  <2>3. k # "login" => page[t] \in {"home", "password"}
    BY <2>1
  <2>4. k # "login" => good # 0
    BY <1>0, <2>3 DEF Quiet
  <2>5. QED
    BY <2>1, <2>2, <2>4, QuietSend
<1>4. ASSUME NEW t \in Tabs, NEW f \in Flights, Logout(t, f) PROVE Quiet'
  <2>1. Flying = {}
    BY <1>4 DEF Logout, Happens, If
  <2>2. cookie = good /\ good # 0
    BY <1>0, <1>4, <2>1 DEF Quiet, Logout
  <2>3. good' = good /\ cookie' = cookie
    BY <1>4 DEF Logout, serverVars
  <2>4. /\ flight'[f].tab = t /\ flight'[f].kind = "logout" /\ flight'[f].reply = Nulo
        /\ flight'[f].token = cookie
        /\ \A g \in Flights : flight'[g] # Nulo => g = f
    BY <1>4, <2>1, LogoutFlights DEF Of, Flying
  <2>5. Flying' \subseteq {f} /\ Accepted(flight[f])'
    BY <2>2, <2>3, <2>4 DEF Flying, Accepted
  <2>6. flight'[f] # Nulo => Waiting(f)'
    BY <2>4 DEF Waiting
  <2>7. QED
    BY <2>2, <2>3, <2>4, <2>5, <2>6 DEF Quiet, Flying
<1>5. ASSUME NEW t \in Tabs, Reload(t) PROVE Quiet'
  <2>1. /\ Of(t, Turning) = {} /\ Abandon(t) /\ page' = [page EXCEPT ![t] = "opening"]
        /\ good' = good /\ cookie' = cookie /\ cached' = cached
    BY <1>5 DEF Reload, Leave, Happens, If, browserVars, serverVars
  <2>2. ASSUME NEW g \in Flights, flight'[g] # Nulo PROVE flight[g] # Nulo /\ flight'[g] = flight[g]
    <3>1. CASE g \in Of(t, Kind)
      BY <2>1, <2>2, <3>1, AbandonType DEF Of
    <3>2. CASE g \notin Of(t, Kind)
      BY <2>1, <2>2, <3>2, AbandonType
    <3>3. QED
      BY <3>1, <3>2
  <2>3. ASSUME NEW g \in Flying, flight[g].kind \in Turning PROVE flight'[g] # Nulo
    <3>1. g \notin Of(t, Kind)
      BY <2>1, <2>3 DEF Of, Flying
    <3>2. QED
      BY <2>1, <3>1, AbandonType DEF Flying
  <2>4. \A u \in Tabs : page'[u] \in {"home", "password"} => page[u] \in {"home", "password"}
    BY <2>1 DEF TypeOK
  <2>5. QED
    BY <1>0, <2>1, <2>2, <2>3, <2>4, QuietLess
<1>6. ASSUME NEW f \in Flights, Refuse(f) \/ Mistype(f) PROVE FALSE
  <2>1. CASE Refuse(f)
    BY <1>0, <2>1 DEF Refuse, Quiet, Waiting, Flying
  <2>2. CASE Mistype(f)
    BY <2>2 DEF Mistype, Happens
  <2>3. QED
    BY <1>6, <2>1, <2>2
<1>7. ASSUME NEW f \in Flights, Issue(f) PROVE Quiet'
  <2>1. PICK store \in Stores : Respond(f, TRUE, good', store)
    BY <1>7, IssueType
  <2>2. /\ Waiting(f) /\ flight[f].kind \in Turning \ {"logout"} /\ f \in Flying
        /\ good' \in Tokens /\ good' # 0 /\ store \in Store
    BY <1>7, IssueType DEF Turning, Waiting, Flying, Store
  <2>3. \A g \in Flying : g = f
    BY <1>0, <2>2 DEF Quiet
  <2>4. /\ \A g \in Flights : flight'[g] # Nulo => g = f
        /\ flight'[f] # Nulo => /\ flight'[f].tab # Nulo /\ flight'[f].reply # Nulo
                                /\ flight'[f].kind \in Turning \ {"logout"}
                                /\ flight'[f].reply.ok /\ flight'[f].reply.jti = good'
    BY <2>1, <2>2, <2>3, RespondType DEF Flying
  <2>5. f \in Flying'
    <3>1. flight[f].tab # Nulo
      BY <1>0, <2>2 DEF Quiet
    <3>2. QED
      BY <2>1, <2>2, <3>1, RespondType DEF Flying
  <2>6. Flying' = {f} /\ ~Waiting(f)'
    BY <2>4, <2>5 DEF Flying, Waiting
  <2>7. QED
    BY <2>2, <2>4, <2>5, <2>6 DEF Quiet, Flying
<1>8. ASSUME NEW f \in Flights, Handle(f) PROVE Quiet'
  <2>1. PICK jti \in Tokens, store \in Store : Respond(f, TRUE, jti, store)
    BY <1>8, HandleType
  <2>2. /\ Waiting(f) /\ flight[f].kind \in Kind \ Turning /\ Accepted(flight[f]) /\ f \in Flying
        /\ good' = good /\ UNCHANGED browserVars /\ UNCHANGED page
    BY <1>8 DEF Handle, Happens, If, Turning, Kind, tabVars, Waiting, Flying
  <2>3. flight[f].tab # Nulo /\ good # 0
    BY <1>0, <2>2 DEF Quiet, Accepted
  <2>4. /\ flight'[f] # Nulo /\ flight'[f].tab # Nulo /\ flight'[f].reply # Nulo
        /\ flight'[f].kind = flight[f].kind /\ flight'[f].reply.ok
        /\ \A g \in Flights : g # f => flight'[g] = flight[g]
    BY <2>1, <2>2, <2>3, RespondType
  <2>5. /\ Flying' = Flying /\ \A g \in Flying : flight'[g].kind = flight[g].kind
        /\ \A g \in Flying : g # f => flight'[g] = flight[g]
    BY <2>2, <2>4 DEF Flying
  <2>6. \A g \in Flying : g # f => (Waiting(g)' <=> Waiting(g))
    BY <2>5 DEF Waiting
  <2>7. \A g, h \in Flying' : flight'[g].kind \in Turning => g = h
    BY <1>0, <2>5 DEF Quiet
  <2>8. ASSUME NEW g \in Flying'
        PROVE  /\ flight'[g].tab # Nulo
               /\ Waiting(g)' /\ flight'[g].kind # "login" => Accepted(flight[g])'
               /\ ~Waiting(g)' => flight'[g].reply.ok /\ flight'[g].kind # "logout" /\ good' # 0
    <3>1. CASE g = f
      BY <2>2, <2>3, <2>4, <3>1 DEF Waiting, Turning
    <3>2. CASE g # f
      BY <1>0, <2>2, <2>5, <2>6, <3>2 DEF Quiet, Accepted
    <3>3. QED
      BY <3>1, <3>2
  <2>9. /\ cached' \/ (\E u \in Tabs : page'[u] \in {"home", "password"}) => good' # 0
        /\ \A g \in Flying' : flight'[g].kind \in Turning /\ ~Waiting(g)' => flight'[g].reply.jti = good'
    BY <1>0, <2>2, <2>3, <2>4, <2>5, <2>6 DEF Quiet
  <2>10. (\A g \in Flying' : flight'[g].kind \in Turning => Waiting(g)') => cookie' = good'
    BY <1>0, <2>2, <2>5, <2>6 DEF Quiet, browserVars
  <2>11. QED
    BY <2>7, <2>8, <2>9, <2>10 DEF Quiet
<1>9. ASSUME NEW f \in Flights, Expelled(f) \/ LoggedOut(f) PROVE FALSE
  <2>1. f \in Flying /\ ~Waiting(f)
    BY <1>9, ReplyType DEF Expelled, LoggedOut
  <2>2. QED
    BY <1>0, <1>9, <2>1 DEF Quiet, Expelled, LoggedOut, Answered
<1>10. ASSUME NEW f \in Flights, LoggedIn(f) \/ PasswordChanged(f) \/ Renewed(f) PROVE Quiet'
  <2>1. f \in Flying /\ ~Waiting(f) /\ flight[f].kind \in Turning
    BY <1>10, ReplyType DEF LoggedIn, PasswordChanged, Renewed, Answered, Turning
  <2>2. /\ \A g \in Flying : g = f
        /\ flight[f].reply.jti = good /\ good # 0
    BY <1>0, <2>1 DEF Quiet
  <2>3. /\ cookie' = flight[f].reply.jti /\ good' = good /\ Done(f)
    BY <1>10 DEF LoggedIn, PasswordChanged, Renewed, serverVars
  <2>4. Flying' = {}
    BY <2>2, <2>3, DoneKept DEF Flying
  <2>5. QED
    BY <2>2, <2>3, <2>4 DEF Quiet
<1>11. ASSUME NEW f \in Flights, Told(f) \/ Switched(f) \/ Lose(f) PROVE Quiet'
  <2>1. /\ Done(f) /\ f \in Flying /\ ~(flight[f].kind \in Turning /\ ~Waiting(f))
        /\ good' = good /\ cookie' = cookie /\ UNCHANGED page
        /\ cached' = cached \/ ~Waiting(f)
    BY <1>11, ReplyType DEF Told, Switched, Lose, Answered, Turning, Happens, If, Flying,
                            browserVars, tabVars, serverVars
  <2>2. cached' => cached \/ good # 0
    BY <1>0, <2>1 DEF Quiet
  <2>3. flight' = [flight EXCEPT ![f] = Nulo] /\ f \in Flights
    BY <2>1 DEF Done, Flying
  <2>4. \A g \in Flights : g # f => flight'[g] = flight[g]
    BY <2>3 DEF TypeOK
  <2>5. \A g \in Flying : flight[g].kind \in Turning /\ ~Waiting(g) => flight'[g] # Nulo
    BY <2>1, <2>4 DEF Flying
  <2>6. \A g \in Flights : flight'[g] # Nulo => flight[g] # Nulo /\ flight'[g] = flight[g]
    BY <2>3 DEF TypeOK
  <2>7. QED
    BY <1>0, <2>1, <2>2, <2>5, <2>6, QuietLess
<1>12. CASE Elsewhere \/ Lapse
  BY <1>12 DEF Elsewhere, Lapse, Happens
<1>13. CASE UNCHANGED vars
  BY <1>0, <1>13, QuietStill DEF vars, browserVars, tabVars, serverVars
<1>14. QED
  BY <1>1, <1>2, <1>3, <1>4, <1>5, <1>6, <1>7, <1>8, <1>9, <1>10, <1>11, <1>12, <1>13
  DEF Next, Tab, Asks, Server, Arrival

-----------------------------------------------------------------------------
(* The numbers of the tokens, and the ones a tab knows.                     *)

\* A token issued goes to the end.
LEMMA Appended ==
    ASSUME TypeOK, NEW by \in Tabs \cup {Nulo}, NEW how \in {"login", "refresh", "password"},
           NEW store \in Stores, Emit(by, how, store)
    PROVE  /\ Len(issued) \in Nat /\ Len(issued') = Len(issued) + 1 /\ good' = Len(issued')
           /\ \A n \in 1 .. Len(issued) : issued'[n] = issued[n]
           /\ issued'[Len(issued')].by = by /\ issued'[Len(issued')].how = how
<1>1. [by |-> by, how |-> how, store |-> store] \in Session
  BY DEF Session
<1>2. /\ issued \in Seq(Session) /\ Len(issued) \in Nat
      /\ issued' = Append(issued, [by |-> by, how |-> how, store |-> store])
      /\ good' = Len(issued) + 1
  BY DEF Emit, TypeOK
<1>3. QED
  BY <1>1, <1>2

LEMMA NumberedThin ==
    ASSUME TypeOK, Numbered, UNCHANGED issued, good' \in {good, 0},
           \A t \in Tabs : known'[t] <= Len(issued),
           \A g \in Flights : flight'[g] # Nulo /\ flight'[g].reply # Nulo =>
              \/ flight'[g].reply.jti <= Len(issued)
              \/ flight[g] # Nulo /\ flight'[g].reply = flight[g].reply
    PROVE  Numbered'
  BY DEF Numbered, Flying, Waiting

LEMMA NumberedNext == TypeOK /\ Numbered /\ [Next]_vars => Numbered'
<1> SUFFICES ASSUME TypeOK, Numbered, [Next]_vars PROVE Numbered' OBVIOUS
<1>0. /\ TypeOK' /\ Len(issued) \in Nat
      /\ \A t \in Tabs : known[t] <= Len(issued) /\ known[t] \in Nat
  BY TypeNext DEF TypeOK, Numbered, Tokens
<1>1. ASSUME NEW t \in Tabs, Open(t) PROVE Numbered'
  BY <1>0, <1>1, NumberedThin DEF Open, serverVars
<1>2. ASSUME NEW t \in Tabs, NEW f \in Flights, NEW k \in Kind, NEW keeps \in Store \cup Tokens,
             Send(t, f, k, keeps), UNCHANGED known
      PROVE  Numbered'
  <2>1. flight'[f].reply = Nulo /\ \A g \in Flights : g # f => flight'[g] = flight[g]
    BY <1>2, SendFlights
  <2>2. UNCHANGED <<good, issued>>
    BY <1>2 DEF Send, serverVars
  <2>3. QED
    BY <1>0, <1>2, <2>1, <2>2, NumberedThin
<1>3. ASSUME NEW t \in Tabs, NEW f \in Flights, Enter(t, f) PROVE Numbered'
  <2>1. CASE cached
    <3>1. "me" \in Kind /\ Nulo \in Store \cup Tokens
      BY DEF Kind, Store
    <3>2. QED
      BY <1>2, <1>3, <2>1, <3>1 DEF Enter
  <2>2. CASE ~cached
    BY <1>0, <1>3, <2>2, NumberedThin DEF Enter, serverVars
  <2>3. QED
    BY <2>1, <2>2
<1>4. ASSUME NEW t \in Tabs, NEW f \in Flights, Asks(t, f) PROVE Numbered'
  BY <1>2, <1>4, AsksSend DEF tabVars
<1>5. ASSUME NEW t \in Tabs, NEW f \in Flights, Logout(t, f) PROVE Numbered'
  <2>1. \A g \in Flights : flight'[g] # Nulo /\ flight'[g].reply # Nulo =>
              flight[g] # Nulo /\ flight'[g].reply = flight[g].reply
    BY <1>5, LogoutFlights DEF SameBut, Of, Flying
  <2>2. UNCHANGED <<good, issued, known>>
    BY <1>5 DEF Logout, serverVars
  <2>3. QED
    BY <1>0, <2>1, <2>2, NumberedThin
<1>6. ASSUME NEW t \in Tabs, Reload(t) PROVE Numbered'
  <2>1. \A g \in Flights : flight'[g] # Nulo /\ flight'[g].reply # Nulo =>
              flight[g] # Nulo /\ flight'[g].reply = flight[g].reply
    <3>1. FlightsType' /\ \A g \in Flights : Thin(g)
      BY <1>6, AbandonType, AbandonThin DEF Reload
    <3>2. ASSUME NEW g \in Flights, flight'[g] # Nulo, flight'[g].reply # Nulo
          PROVE  flight'[g].tab # Nulo
      BY <3>1, <3>2 DEF FlightsType
    <3>3. QED
      BY <1>6, <3>2, AbandonThin DEF Reload, Thin
  <2>2. UNCHANGED <<good, issued>> /\ \A u \in Tabs : known'[u] \in {known[u], 0}
    BY <1>6 DEF Reload, serverVars, TypeOK
  <2>3. QED
    BY <1>0, <2>1, <2>2, NumberedThin
<1>7. ASSUME NEW f \in Flights, NEW ok \in BOOLEAN, NEW jti \in Tokens, NEW store \in Store,
             Waiting(f), Respond(f, ok, jti, store), jti <= Len(issued),
             UNCHANGED <<known, issued>>, good' \in {good, 0}
      PROVE  Numbered'
  <2>1. \A g \in Flights : flight'[g] # Nulo /\ flight'[g].reply # Nulo =>
              \/ flight'[g].reply.jti <= Len(issued)
              \/ flight[g] # Nulo /\ flight'[g].reply = flight[g].reply
    BY <1>7, RespondType
  <2>2. QED
    BY <1>0, <1>7, <2>1, NumberedThin
<1>8. ASSUME NEW f \in Flights, Refuse(f) \/ Mistype(f) PROVE Numbered'
  <2>1. Waiting(f) /\ Respond(f, FALSE, 0, Nulo) /\ UNCHANGED <<known, issued, good>>
    BY <1>8 DEF Refuse, Mistype, tabVars, serverVars
  <2>2. 0 \in Tokens /\ Nulo \in Store /\ FALSE \in BOOLEAN /\ 0 <= Len(issued)
    BY <1>0 DEF Tokens, Store
  <2>3. QED
    BY <1>7, <2>1, <2>2
<1>9. ASSUME NEW f \in Flights, Handle(f) PROVE Numbered'
  <2>1. /\ Waiting(f) /\ Accepted(flight[f]) /\ UNCHANGED <<known, issued>> /\ good' \in {good, 0}
    BY <1>9 DEF Handle, tabVars
  <2>2. flight[f].token \in Tokens /\ flight[f].token <= Len(issued)
    BY <1>0, <2>1, FlightType DEF Accepted, TypeOK, Waiting, Flight
  <2>3. \E store \in Store : Respond(f, TRUE, flight[f].token, store)
    <3>1. flight[f].kind = "switch" => flight[f].keeps \in Stores
      BY <2>1 DEF Waiting, TypeOK
    <3>2. QED
      BY <1>9, <2>1, <3>1, ResolvedType DEF Handle, Store
  <2>4. QED
    BY <1>7, <2>1, <2>2, <2>3
<1>10. ASSUME NEW by \in Tabs \cup {Nulo}, NEW how \in {"login", "refresh", "password"},
              NEW store \in Stores, Emit(by, how, store), UNCHANGED known,
              \A g \in Flights : flight'[g] # Nulo /\ flight'[g].reply # Nulo =>
                 \/ flight'[g].reply.jti = good'
                 \/ flight[g] # Nulo /\ flight'[g].reply = flight[g].reply
       PROVE  Numbered'
  <2>1. Len(issued') = Len(issued) + 1 /\ good' = Len(issued')
    BY <1>10, Appended
  <2>2. \A t \in Tabs : known'[t] <= Len(issued')
    BY <1>0, <1>10, <2>1
  <2>3. ASSUME NEW g \in Flights, flight'[g] # Nulo, flight'[g].reply # Nulo
        PROVE  flight'[g].reply.jti <= Len(issued')
    <3>1. CASE flight'[g].reply.jti = good'
      BY <1>0, <2>1, <3>1
    <3>2. CASE flight[g] # Nulo /\ flight'[g].reply = flight[g].reply
      <4>1. flight[g].reply \in Reply /\ flight[g].reply.jti <= Len(issued)
        BY <2>3, <3>2, FlightType DEF Numbered, Flying, Waiting
      <4>2. flight[g].reply.jti \in Nat
        BY <4>1 DEF Reply, Tokens
      <4>3. QED
        BY <1>0, <2>1, <3>2, <4>1, <4>2
    <3>3. QED
      BY <1>10, <2>3, <3>1, <3>2
  <2>4. QED
    BY <2>1, <2>2, <2>3 DEF Numbered, Flying, Waiting
<1>11. ASSUME NEW f \in Flights, Issue(f) PROVE Numbered'
  <2>1. /\ Waiting(f) /\ flight[f].kind \in {"login", "refresh", "password"}
        /\ UNCHANGED known /\ good' \in Tokens
    BY <1>11, IssueType DEF Issue, tabVars
  <2>2. PICK store \in Stores : Emit(flight[f].tab, flight[f].kind, store) /\ Respond(f, TRUE, good', store)
    <3>1. (IF flight[f].kind = "login" THEN Default ELSE Resolved(flight[f])) \in Stores
      BY <1>11, <2>1, ResolvedType DEF Issue
    <3>2. QED
      BY <1>11, <3>1 DEF Issue
  <2>3. flight[f].tab \in Tabs \cup {Nulo} /\ store \in Store
    BY <2>1, TabType DEF Waiting, Store
  <2>4. \A g \in Flights : flight'[g] # Nulo /\ flight'[g].reply # Nulo =>
                 \/ flight'[g].reply.jti = good'
                 \/ flight[g] # Nulo /\ flight'[g].reply = flight[g].reply
    <3>1. TRUE \in BOOLEAN /\ good' \in Tokens /\ store \in Store /\ Waiting(f)
      BY <2>1, <2>3
    <3>2. /\ \A g \in Flights : g # f => flight'[g] = flight[g]
          /\ flight'[f] # Nulo => flight'[f].reply.jti = good'
      BY <2>2, <3>1, RespondType
    <3>3. QED
      BY <3>2
  <2>5. QED
    BY <1>10, <2>1, <2>2, <2>3, <2>4
<1>12. CASE Elsewhere
  <2>1. Emit(Nulo, "login", Default) /\ UNCHANGED <<known, flight>>
    BY <1>12 DEF Elsewhere, tabVars
  <2>2. QED
    BY <1>10, <2>1
<1>13. ASSUME NEW f \in Flights, Expelled(f) PROVE Numbered'
  <2>1. UNCHANGED <<known, good, issued>>
    BY <1>13 DEF Expelled, serverVars
  <2>2. ASSUME NEW g \in Flights, flight'[g] # Nulo, flight'[g].reply # Nulo
        PROVE  flight[g] # Nulo /\ flight'[g].reply = flight[g].reply
    <3>1. CASE Done(f)
      BY <2>2, <3>1, DoneKept
    <3>2. CASE Abandon(flight[f].tab)
      <4>1. flight[f].tab \in Tabs
        BY <1>13, ReplyType DEF Expelled
      <4>2. FlightsType' /\ Thin(g)
        BY <3>2, <4>1, AbandonType, AbandonThin
      <4>3. flight'[g].tab # Nulo
        BY <2>2, <4>2 DEF FlightsType
      <4>4. QED
        BY <2>2, <3>2, <4>1, <4>2, <4>3, AbandonThin DEF Thin
    <3>3. QED
      BY <1>13, <3>1, <3>2 DEF Expelled
  <2>3. QED
    BY <1>0, <2>1, <2>2, NumberedThin
<1>14. ASSUME NEW f \in Flights, Done(f), good' \in {good, 0}, UNCHANGED issued,
              \A t \in Tabs : known'[t] <= Len(issued)
       PROVE  Numbered'
  <2>1. \A g \in Flights : flight'[g] # Nulo => flight[g] # Nulo /\ flight'[g] = flight[g]
    BY <1>14, DoneKept
  <2>2. QED
    BY <1>0, <1>14, <2>1, NumberedThin
<1>15. ASSUME NEW f \in Flights, LoggedIn(f) \/ Renewed(f) PROVE Numbered'
  <2>1. ~Waiting(f) /\ flight[f] # Nulo /\ flight[f].reply.jti \in Tokens /\ flight[f].tab \in Tabs
    BY <1>15, ReplyType DEF LoggedIn, Renewed, Flying
  <2>2. /\ Done(f) /\ UNCHANGED <<good, issued>>
        /\ known' = [known EXCEPT ![flight[f].tab] = flight[f].reply.jti]
    BY <1>15 DEF LoggedIn, Renewed, serverVars
  <2>3. \A t \in Tabs : known'[t] <= Len(issued)
    <3>1. flight[f].reply.jti <= Len(issued)
      BY <2>1 DEF Numbered, Flying
    <3>2. \A t \in Tabs : known'[t] = known[t] \/ known'[t] = flight[f].reply.jti
      BY <2>2 DEF TypeOK
    <3>3. QED
      BY <1>0, <3>1, <3>2
  <2>4. good' \in {good, 0}
    BY <2>2
  <2>5. QED
    BY <1>14, <2>1, <2>2, <2>3, <2>4
<1>16. ASSUME NEW f \in Flights, PasswordChanged(f) \/ Told(f) \/ Switched(f) \/ LoggedOut(f) \/ Lose(f)
       PROVE  Numbered'
  <2>1. Done(f) /\ UNCHANGED <<known, good, issued>>
    BY <1>16 DEF PasswordChanged, Told, Switched, LoggedOut, Lose, tabVars, serverVars
  <2>2. (\A t \in Tabs : known'[t] <= Len(issued)) /\ good' \in {good, 0}
    BY <1>0, <2>1
  <2>3. QED
    BY <1>14, <2>1, <2>2
<1>17. CASE Lapse \/ UNCHANGED vars
  BY <1>0, <1>17, NumberedThin DEF Lapse, vars, tabVars, serverVars
<1>18. QED
  BY <1>1, <1>3, <1>4, <1>5, <1>6, <1>8, <1>9, <1>11, <1>12, <1>13, <1>15, <1>16, <1>17
  DEF Next, Tab, Asks, Server, Arrival

-----------------------------------------------------------------------------
(* What the warning rests on.                                               *)

Heeded == Attended /\ KnowsOwn /\ ChecksHold

\* A request of a tab that is answered and brings no token to it.
LEMMA TokenRange ==
    ASSUME TypeOK
    PROVE  /\ Len(issued) \in Nat /\ \A t \in Tabs : known[t] \in Nat
           /\ \A f \in Flying : flight[f].tab \in Tabs \cup {Nulo} /\ flight[f].kind \in Kind
           /\ \A f \in Flying : ~Waiting(f) => flight[f].reply.jti \in Nat /\ flight[f].tab \in Tabs
<1>1. \A f \in Flying : flight[f].tab \in Tabs \cup {Nulo} /\ flight[f].kind \in Kind
  BY TabType DEF Flying
<1>2. ASSUME NEW f \in Flying, ~Waiting(f)
      PROVE  flight[f].reply.jti \in Nat /\ flight[f].tab \in Tabs
  <2>1. f \in Flights /\ flight[f] # Nulo /\ flight[f].reply \in Reply
    BY <1>2, FlightType DEF Flying
  <2>2. flight[f].tab # Nulo
    BY <1>2, <2>1 DEF TypeOK, Waiting
  <2>3. QED
    BY <1>1, <1>2, <2>1, <2>2 DEF Reply, Tokens
<1>3. Len(issued) \in Nat /\ \A t \in Tabs : known[t] \in Nat
  BY DEF TypeOK, Tokens
<1>4. QED
  BY <1>1, <1>2, <1>3

\* Requests that are over or given up: none of them has a token to bring.
LEMMA HeededLess ==
    ASSUME TypeOK, Heeded, UNCHANGED issued,
           \A g \in Flights : flight'[g] # Nulo => flight[g] # Nulo /\ flight'[g] = flight[g],
           \A g \in Flights : Brings(g) => flight'[g] # Nulo,
           \A t \in Tabs :
              \/ known'[t] = known[t]
              \/ /\ known'[t] = 0 /\ ~warned'[t]
                 /\ \A g \in Flights : flight'[g] # Nulo => flight'[g].tab # t,
           \A t \in Tabs : warned'[t] =>
              page'[t] = "home" /\ (warned[t] \/ \E n \in 1 .. Len(issued) : Theirs(t, n)),
           \A t \in Tabs : page[t] = "home" =>
              \/ page'[t] = "home"
              \/ \A g \in Flights : flight'[g] # Nulo => flight'[g].tab # t
    PROVE  Heeded'
<1>1. \A g \in Flying' : g \in Flying /\ g \in Flights /\ flight'[g] = flight[g] /\ (Waiting(g)' <=> Waiting(g))
  BY DEF Flying, Waiting
<1>2. Attended'
  <2>1. ASSUME NEW g \in Flying'
        PROVE  /\ flight'[g].tab # Nulo /\ flight'[g].there
               /\ flight'[g].kind \in {"refresh", "check"} => page'[flight'[g].tab] = "home"
    <3>1. /\ flight[g].tab # Nulo /\ flight[g].there
          /\ flight[g].kind \in {"refresh", "check"} => page[flight[g].tab] = "home"
      BY <1>1 DEF Heeded, Attended
    <3>2. flight[g].tab \in Tabs /\ flight'[g] # Nulo
      BY <1>1, <3>1, TokenRange DEF Flying
    <3>3. QED
      BY <1>1, <3>1, <3>2
  <2>2. \A g, h \in Flying' : flight'[g].kind \in Turning => g = h
    BY <1>1 DEF Heeded, Attended
  <2>3. QED
    BY <2>1, <2>2 DEF Attended
<1>3. KnowsOwn'
  <2>1. \A g \in Flights : Brings(g) <=> Brings(g)'
    BY <1>1 DEF Brings, Flying, Waiting
  <2>2. \A g \in Flights : Brings(g) => flight'[g] = flight[g]
    BY <1>1, <2>1 DEF Brings
  <2>3. \A t \in Tabs : known'[t] # 0 => known'[t] = known[t]
    OBVIOUS
  <2>4. QED
    BY <2>1, <2>2, <2>3 DEF Heeded, KnowsOwn, Own
<1>4. ChecksHold'
  <2>1. ASSUME NEW g \in Flying', flight'[g].kind = "check" PROVE Found(g)'
    <3>1. Found(g) /\ flight[g].tab \in Tabs /\ flight'[g] # Nulo
      BY <1>1, <2>1, TokenRange DEF Heeded, ChecksHold, Attended, Flying
    <3>2. known'[flight[g].tab] = known[flight[g].tab]
      BY <1>1, <3>1
    <3>3. QED
      BY <1>1, <3>1, <3>2 DEF Found, Theirs, Own
  <2>2. ASSUME NEW t \in Tabs, warned'[t] PROVE \E n \in 1 .. Len(issued)' : Theirs(t, n)'
    <3>1. known'[t] = known[t]
      BY <2>2
    <3>2. \E n \in 1 .. Len(issued) : Theirs(t, n)
      BY <2>2 DEF Heeded, ChecksHold
    <3>3. QED
      BY <3>1, <3>2 DEF Theirs, Own
  <2>3. QED
    BY <2>1, <2>2 DEF ChecksHold
<1>5. QED
  BY <1>2, <1>3, <1>4 DEF Heeded

\* A request is sent while no turn of the cookie is under way, and a turn of it alone.
LEMMA HeededSend ==
    ASSUME TypeOK, Heeded, Undisturbed', NEW t \in Tabs, NEW f \in Flights, NEW k \in Kind,
           NEW keeps \in Store \cup Tokens, Send(t, f, k, keeps), UNCHANGED <<known, warned>>,
           \A u \in Tabs : page[u] = "home" => page'[u] = "home",
           k \in {"refresh", "check"} => page'[t] = "home",
           k = "check" => keeps = known[t] /\ keeps # 0
    PROVE  Heeded'
<1>1. /\ flight[f] = Nulo /\ flight'[f] # Nulo
      /\ flight'[f].tab = t /\ flight'[f].kind = k /\ flight'[f].reply = Nulo
      /\ flight'[f].keeps = keeps /\ flight'[f].there
      /\ \A g \in Flights : g # f => flight'[g] = flight[g]
  BY SendFlights
<1>2. \A g \in Flying : k \notin Turning /\ flight[g].kind \notin Turning
  BY DEF Send, Happens, If, Undisturbed
<1>3. UNCHANGED issued
  BY DEF Send, serverVars
<1>4. Flying' = Flying \cup {f} /\ f \notin Flying /\ \A g \in Flying : flight'[g] = flight[g] /\ (Waiting(g)' <=> Waiting(g))
  BY <1>1 DEF Flying, Waiting
<1>5. Attended'
  <2>1. ASSUME NEW g \in Flying'
        PROVE  /\ flight'[g].tab # Nulo /\ flight'[g].there
               /\ flight'[g].kind \in {"refresh", "check"} => page'[flight'[g].tab] = "home"
    <3>1. CASE g = f
      BY <1>1, <3>1
    <3>2. CASE g # f
      <4>1. flight[g].tab \in Tabs
        BY <1>4, <3>2, TokenRange DEF Heeded, Attended
      <4>2. QED
        BY <1>4, <3>2, <4>1 DEF Heeded, Attended
    <3>3. QED
      BY <3>1, <3>2
  <2>2. \A g, h \in Flying' : flight'[g].kind \in Turning => g = h
    BY <1>1, <1>2, <1>4
  <2>3. \A u \in Tabs : warned'[u] => page'[u] = "home"
    BY DEF Heeded, Attended
  <2>4. QED
    BY <2>1, <2>2, <2>3 DEF Attended
<1>6. KnowsOwn'
  <2>1. \A g \in Flights : Brings(g) => FALSE
    BY <1>2 DEF Brings, Turning
  <2>2. \A g \in Flights : Brings(g)' => FALSE
    BY <1>1, <1>2, <1>4 DEF Brings, Turning, Waiting
  <2>3. QED
    BY <1>3, <2>1, <2>2 DEF Heeded, KnowsOwn, Own
<1>7. ChecksHold'
  <2>1. ASSUME NEW g \in Flying', flight'[g].kind = "check" PROVE Found(g)'
    <3>1. CASE g = f
      BY <1>1, <2>1, <3>1 DEF Found, Waiting
    <3>2. CASE g # f
      <4>1. Found(g)
        BY <1>4, <2>1, <3>2 DEF Heeded, ChecksHold
      <4>2. QED
        BY <1>3, <1>4, <3>2, <4>1 DEF Found, Theirs, Own
    <3>3. QED
      BY <3>1, <3>2
  <2>2. \A u \in Tabs : warned'[u] => \E n \in 1 .. Len(issued)' : Theirs(u, n)'
    BY <1>3 DEF Heeded, ChecksHold, Theirs, Own
  <2>3. QED
    BY <2>1, <2>2 DEF ChecksHold
<1>8. QED
  BY <1>5, <1>6, <1>7 DEF Heeded

\* A reply that issues no token; a check finds one that is not the tab's own.
LEMMA HeededServed ==
    ASSUME TypeOK, Heeded, NEW f \in Flights, NEW ok \in BOOLEAN, NEW jti \in Tokens,
           NEW store \in Store, Waiting(f), Respond(f, ok, jti, store),
           UNCHANGED <<known, warned, page, issued>>,
           flight[f].kind \in {"login", "refresh"} => ~ok,
           flight[f].kind = "check" /\ ok /\ jti # flight[f].keeps => Theirs(flight[f].tab, jti)
    PROVE  Heeded'
<1>1. f \in Flying /\ flight[f].tab # Nulo
  BY DEF Heeded, Attended, Waiting, Flying
<1>2. /\ flight'[f] # Nulo /\ flight'[f].reply # Nulo
      /\ flight'[f].tab = flight[f].tab /\ flight'[f].kind = flight[f].kind
      /\ flight'[f].keeps = flight[f].keeps /\ flight'[f].there = flight[f].there
      /\ flight'[f].reply.ok = ok /\ flight'[f].reply.jti = jti
      /\ \A g \in Flights : g # f => flight'[g] = flight[g]
  BY <1>1, RespondType
<1>3. /\ Flying' = Flying
      /\ \A g \in Flying : /\ flight'[g].tab = flight[g].tab /\ flight'[g].kind = flight[g].kind
                           /\ flight'[g].there = flight[g].there
                           /\ g # f => flight'[g] = flight[g] /\ (Waiting(g)' <=> Waiting(g))
  BY <1>1, <1>2 DEF Flying, Waiting
<1>4. Attended'
  BY <1>3 DEF Heeded, Attended
<1>5. KnowsOwn'
  <2>1. \A g \in Flights : Brings(g)' <=> Brings(g)
    BY <1>2, <1>3 DEF Brings, Waiting
  <2>2. \A g \in Flights : Brings(g) => flight'[g] = flight[g]
    BY <1>3 DEF Brings
  <2>3. QED
    BY <2>1, <2>2 DEF Heeded, KnowsOwn, Own
<1>6. ChecksHold'
  <2>1. ASSUME NEW g \in Flying', flight'[g].kind = "check" PROVE Found(g)'
    <3>1. Found(g)
      BY <1>3, <2>1 DEF Heeded, ChecksHold
    <3>2. CASE g = f
      BY <1>2, <2>1, <3>1, <3>2 DEF Found, Theirs, Own
    <3>3. CASE g # f
      BY <1>3, <3>1, <3>3 DEF Found, Theirs, Own
    <3>4. QED
      BY <3>2, <3>3
  <2>2. \A u \in Tabs : warned'[u] => \E n \in 1 .. Len(issued)' : Theirs(u, n)'
    BY DEF Heeded, ChecksHold, Theirs, Own
  <2>3. QED
    BY <2>1, <2>2 DEF ChecksHold
<1>7. QED
  BY <1>4, <1>5, <1>6 DEF Heeded

\* What is known of the tokens already issued stays so.
LEMMA HeededIssued ==
    ASSUME TypeOK, UNCHANGED known, Len(issued) \in Nat, Len(issued') = Len(issued) + 1,
           \A n \in 1 .. Len(issued) : issued'[n] = issued[n]
    PROVE  /\ \A t \in Tabs, n \in 1 .. Len(issued) : Own(t, n)' <=> Own(t, n)
           /\ \A t \in Tabs, n \in 1 .. Len(issued) : Theirs(t, n) => n \in 1 .. Len(issued') /\ Theirs(t, n)'
           /\ 1 .. Len(issued') = (1 .. Len(issued)) \cup {Len(issued')}
<1>1. \A t \in Tabs, n \in 1 .. Len(issued) : Own(t, n)' <=> Own(t, n)
  BY DEF Own
<1>2. 1 .. Len(issued') = (1 .. Len(issued)) \cup {Len(issued')}
  OBVIOUS
<1>3. QED
  BY <1>1, <1>2 DEF Theirs

LEMMA HeededIssue ==
    ASSUME TypeOK, Heeded, NEW f \in Flights, Issue(f)
    PROVE  Heeded'
<1> DEFINE u == flight[f].tab
<1>1. /\ Waiting(f) /\ flight[f].kind \in {"login", "refresh", "password"} /\ f \in Flying
      /\ good' \in Tokens /\ good' # 0 /\ UNCHANGED <<known, warned, page>>
  BY IssueType DEF Issue, tabVars, Waiting, Flying
<1>2. u \in Tabs /\ \A g \in Flying : g = f
  BY <1>1, TokenRange DEF Heeded, Attended, Turning
<1>3. PICK store \in Stores : Emit(u, flight[f].kind, store) /\ Respond(f, TRUE, good', store)
  <2>1. (IF flight[f].kind = "login" THEN Default ELSE Resolved(flight[f])) \in Stores
    BY <1>1, ResolvedType DEF Issue
  <2>2. QED
    BY <2>1 DEF Issue
<1>4. /\ Len(issued) \in Nat /\ Len(issued') = Len(issued) + 1 /\ good' = Len(issued')
      /\ \A n \in 1 .. Len(issued) : issued'[n] = issued[n]
      /\ issued'[Len(issued')].by = u /\ issued'[Len(issued')].how = flight[f].kind
  BY <1>1, <1>2, <1>3, Appended
<1>5. /\ flight'[f] # Nulo /\ flight'[f].reply # Nulo
      /\ flight'[f].tab = u /\ flight'[f].kind = flight[f].kind /\ flight'[f].there = flight[f].there
      /\ flight'[f].reply.ok = TRUE /\ flight'[f].reply.jti = good'
      /\ \A g \in Flights : g # f => flight'[g] = flight[g]
  <2>1. store \in Store /\ TRUE \in BOOLEAN /\ u # Nulo
    BY <1>2 DEF Store
  <2>2. QED
    BY <1>1, <1>3, <2>1, RespondType
<1>6. Flying' = {f} /\ ~Waiting(f)'
  BY <1>1, <1>2, <1>5 DEF Flying, Waiting
<1>7. Attended'
  BY <1>1, <1>2, <1>5, <1>6 DEF Heeded, Attended
<1>8. KnowsOwn'
  <2>1. ASSUME NEW t \in Tabs, NEW n \in 1 .. Len(issued'), Own(t, n)', known[t] # 0, n > known[t]
        PROVE  \E g \in Flights : Brings(g)' /\ flight'[g].tab = t
    <3>1. CASE n = Len(issued')
      BY <1>1, <1>4, <1>5, <1>6, <2>1, <3>1 DEF Own, Brings
    <3>2. CASE n \in 1 .. Len(issued)
      <4>1. PICK g \in Flights : Brings(g)
        BY <1>1, <1>4, <2>1, <3>2, HeededIssued DEF Heeded, KnowsOwn
      <4>2. QED
        BY <1>1, <1>2, <4>1 DEF Brings
    <3>3. QED
      BY <1>1, <1>4, <2>1, <3>1, <3>2, HeededIssued
  <2>2. \A g \in Flights : Brings(g)' => g = f
    BY <1>6 DEF Brings
  <2>3. \A n \in 1 .. Len(issued') : n <= flight'[f].reply.jti
    BY <1>4, <1>5
  <2>4. QED
    BY <1>1, <1>5, <2>1, <2>2, <2>3 DEF KnowsOwn
<1>9. ChecksHold'
  <2>1. \A g \in Flying' : flight'[g].kind # "check"
    BY <1>1, <1>5, <1>6
  <2>2. ASSUME NEW t \in Tabs, warned'[t] PROVE \E n \in 1 .. Len(issued') : Theirs(t, n)'
    <3>1. PICK n \in 1 .. Len(issued) : Theirs(t, n)
      BY <1>1, <2>2 DEF Heeded, ChecksHold
    <3>2. QED
      BY <1>1, <1>4, <3>1, HeededIssued
  <2>3. QED
    BY <2>1, <2>2 DEF ChecksHold
<1>10. QED
  BY <1>7, <1>8, <1>9 DEF Heeded

\* A login on another device is nobody's here.
LEMMA HeededElsewhere ==
    ASSUME TypeOK, Heeded, Elsewhere
    PROVE  Heeded'
<1>1. Emit(Nulo, "login", Default) /\ UNCHANGED <<known, warned, page, flight>>
  BY DEF Elsewhere, tabVars
<1>2. /\ Len(issued) \in Nat /\ Len(issued') = Len(issued) + 1
      /\ \A n \in 1 .. Len(issued) : issued'[n] = issued[n]
      /\ issued'[Len(issued')].by = Nulo
  BY <1>1, Appended
<1>3. Attended'
  BY <1>1 DEF Heeded, Attended, Flying
<1>4. /\ \A t \in Tabs, n \in 1 .. Len(issued) : Own(t, n)' <=> Own(t, n)
      /\ \A t \in Tabs, n \in 1 .. Len(issued) : Theirs(t, n) => n \in 1 .. Len(issued') /\ Theirs(t, n)'
      /\ 1 .. Len(issued') = (1 .. Len(issued)) \cup {Len(issued')}
  BY <1>1, <1>2, HeededIssued
<1>5. \A t \in Tabs : ~Own(t, Len(issued))' /\ ~(issued'[Len(issued')].by = t)
  BY <1>2 DEF Own
<1>6. \A t \in Tabs, n \in 1 .. Len(issued') : Own(t, n)' => n \in 1 .. Len(issued) /\ Own(t, n)
  BY <1>4, <1>5 DEF Own
<1>7. \A g \in Flights : Brings(g)' <=> Brings(g)
  BY <1>1 DEF Brings, Flying, Waiting
<1>8. KnowsOwn'
  <2>1. \A t \in Tabs, n \in 1 .. Len(issued') : Own(t, n)' /\ known'[t] # 0 /\ n > known'[t] =>
           \E g \in Flights : Brings(g)' /\ flight'[g].tab = t
    BY <1>1, <1>6, <1>7 DEF Heeded, KnowsOwn
  <2>2. ASSUME NEW g \in Flights, Brings(g)'
        PROVE  /\ flight'[g].reply.jti # 0
               /\ \A n \in 1 .. Len(issued') : Own(flight[g].tab, n)' => n <= flight'[g].reply.jti
    <3>1. Brings(g) /\ flight[g].tab \in Tabs
      BY <1>7, <2>2, TokenRange DEF Brings
    <3>2. /\ flight[g].reply.jti # 0
          /\ \A n \in 1 .. Len(issued) : Own(flight[g].tab, n) => n <= flight[g].reply.jti
      BY <3>1 DEF Heeded, KnowsOwn
    <3>3. QED
      BY <1>1, <1>6, <3>1, <3>2 DEF Own
  <2>3. QED
    BY <2>1, <2>2 DEF KnowsOwn
<1>9. ChecksHold'
  <2>1. ASSUME NEW g \in Flying', flight'[g].kind = "check" PROVE Found(g)'
    <3>1. Found(g) /\ flight[g].tab \in Tabs /\ (Waiting(g)' <=> Waiting(g))
      BY <1>1, <2>1, TokenRange DEF Heeded, ChecksHold, Attended, Flying, Waiting
    <3>2. Theirs(flight[g].tab, flight[g].reply.jti) => Theirs(flight[g].tab, flight[g].reply.jti)'
      BY <1>1, <1>4, <3>1 DEF Theirs
    <3>3. QED
      BY <1>1, <3>1, <3>2 DEF Found
  <2>2. ASSUME NEW t \in Tabs, warned'[t] PROVE \E n \in 1 .. Len(issued') : Theirs(t, n)'
    <3>1. PICK n \in 1 .. Len(issued) : Theirs(t, n)
      BY <1>1, <2>2 DEF Heeded, ChecksHold
    <3>2. QED
      BY <1>4, <3>1
  <2>3. QED
    BY <2>1, <2>2 DEF ChecksHold
<1>10. QED
  BY <1>3, <1>8, <1>9 DEF Heeded

\* A tab that gets its token home knows its last one.
LEMMA HeededHome ==
    ASSUME TypeOK, Placed, Heeded, NEW f \in Flights, LoggedIn(f) \/ Renewed(f)
    PROVE  Heeded'
<1> DEFINE u == flight[f].tab
           jti == flight[f].reply.jti
<1>1. Brings(f) /\ u \in Tabs /\ jti \in Nat /\ \A g \in Flying : g = f
  <2>1. /\ f \in Flying /\ flight[f].kind \in {"login", "refresh"} /\ ~Waiting(f) /\ flight[f].reply.ok
    BY DEF LoggedIn, Renewed, Answered, Flying, Waiting
  <2>2. QED
    BY <2>1, TokenRange DEF Brings, Heeded, Attended, Turning
<1>2. /\ Done(f) /\ UNCHANGED issued /\ known' = [known EXCEPT ![u] = jti]
  BY DEF LoggedIn, Renewed, serverVars
<1>3. Flying' = {}
  BY <1>1, <1>2, DoneKept DEF Flying
<1>4. ~warned'[u] /\ \A t \in Tabs \ {u} : warned'[t] = warned[t] /\ page'[t] = page[t]
  <2>1. CASE LoggedIn(f)
    <3>1. page[u] = "login"
      BY <1>1, <2>1 DEF LoggedIn, Answered, Placed, Flying
    <3>2. ~warned[u] /\ UNCHANGED warned
      BY <1>1, <2>1, <3>1 DEF LoggedIn, Heeded, Attended
    <3>3. QED
      BY <1>1, <2>1, <3>2 DEF LoggedIn, TypeOK
  <2>2. CASE Renewed(f)
    <3>1. flight[f].there
      BY <1>1 DEF Heeded, Attended, Brings
    <3>2. QED
      BY <1>1, <2>2, <3>1 DEF Renewed, TypeOK
  <2>3. QED
    BY <2>1, <2>2
<1>5. Attended'
  BY <1>3, <1>4 DEF Heeded, Attended
<1>6. known'[u] = jti /\ \A t \in Tabs \ {u} : known'[t] = known[t]
  BY <1>1, <1>2 DEF TypeOK
<1>7. KnowsOwn'
  <2>1. ASSUME NEW t \in Tabs, NEW n \in 1 .. Len(issued), Own(t, n), known'[t] # 0, n > known'[t]
        PROVE  FALSE
    <3>1. CASE t = u
      BY <1>1, <1>6, <2>1, <3>1 DEF Heeded, KnowsOwn
    <3>2. CASE t # u
      <4>1. PICK g \in Flights : Brings(g) /\ flight[g].tab = t
        BY <1>6, <2>1, <3>2 DEF Heeded, KnowsOwn
      <4>2. QED
        BY <1>1, <3>2, <4>1 DEF Brings
    <3>3. QED
      BY <3>1, <3>2
  <2>2. \A g \in Flights : ~Brings(g)'
    BY <1>3 DEF Brings
  <2>3. QED
    BY <1>2, <2>1, <2>2 DEF KnowsOwn, Own
<1>8. ChecksHold'
  <2>1. ASSUME NEW t \in Tabs, warned'[t] PROVE \E n \in 1 .. Len(issued') : Theirs(t, n)'
    <3>1. t # u /\ warned[t]
      BY <1>4, <2>1
    <3>2. QED
      BY <1>2, <1>6, <3>1 DEF Heeded, ChecksHold, Theirs, Own
  <2>2. QED
    BY <1>3, <2>1 DEF ChecksHold
<1>9. QED
  BY <1>5, <1>7, <1>8 DEF Heeded

LEMMA HeededLogout ==
    ASSUME TypeOK, Heeded, Undisturbed', NEW t \in Tabs, NEW f \in Flights, Logout(t, f)
    PROVE  Heeded'
<1>1. Flying = {}
  BY DEF Logout, Happens, If, Undisturbed
<1>2. /\ flight'[f] = Request(t, "logout", Nulo)
      /\ \A g \in Flights : g # f => flight'[g] = flight[g]
  BY <1>1 DEF Logout, Of
<1>3. "logout" \in Kind /\ Nulo \in Store \cup Tokens
  BY DEF Kind, Turning, Store
<1>4. /\ flight'[f].tab = t /\ flight'[f].kind = "logout" /\ flight'[f].there
      /\ Flying' \subseteq {f}
  BY <1>1, <1>2, <1>3, RequestType DEF Flying
<1>5. /\ UNCHANGED <<known, issued>>
      /\ \A u \in Tabs : warned'[u] => warned[u] /\ page'[u] = page[u]
  BY DEF Logout, Leave, serverVars, TypeOK
<1>6. Attended'
  BY <1>4, <1>5 DEF Heeded, Attended
<1>7. KnowsOwn'
  <2>1. \A g \in Flights : ~Brings(g) /\ ~Brings(g)'
    BY <1>1, <1>4 DEF Brings
  <2>2. QED
    BY <1>5, <2>1 DEF Heeded, KnowsOwn, Own
<1>8. ChecksHold'
  BY <1>4, <1>5 DEF Heeded, ChecksHold, Theirs, Own
<1>9. QED
  BY <1>6, <1>7, <1>8 DEF Heeded

\* The token a check is answered with is the last one issued: it is the one the tab knows,
\* or it is not the tab's own, which the tab would know.
LEMMA HeededHandle ==
    ASSUME TypeOK, Numbered, Heeded, NEW f \in Flights, Handle(f)
    PROVE  Heeded'
<1> DEFINE q == flight[f]
<1>1. /\ Waiting(f) /\ q.kind \in {"me", "check", "work", "switch", "logout"} /\ Accepted(q)
      /\ f \in Flying /\ UNCHANGED <<known, warned, page, issued>>
  BY DEF Handle, tabVars, Waiting, Flying
<1>2. q.token \in Tokens /\ q.token = Len(issued) /\ q.token # 0
  BY <1>1, FlightType DEF Accepted, Numbered, Waiting, Flight
<1>3. \E store \in Store : Respond(f, TRUE, q.token, store)
  <2>1. q.kind = "switch" => q.keeps \in Stores
    BY <1>1 DEF Waiting, TypeOK
  <2>2. QED
    BY <1>1, <2>1, ResolvedType DEF Handle, Store
<1>4. ASSUME q.kind = "check", q.token # q.keeps PROVE Theirs(q.tab, q.token)
  <2>1. /\ q.tab \in Tabs /\ q.keeps = known[q.tab] /\ q.keeps # 0
        /\ Len(issued) \in Nat /\ known[q.tab] \in Nat /\ known[q.tab] <= Len(issued)
    BY <1>1, <1>4, TokenRange DEF Heeded, ChecksHold, Found, Attended, Numbered
  <2>2. q.token \in 1 .. Len(issued) /\ q.token > known[q.tab]
    BY <1>2, <1>4, <2>1
  <2>3. \A g \in Flights : ~Brings(g)
    BY <1>1, <1>4 DEF Heeded, Attended, Brings, Turning
  <2>4. ~Own(q.tab, q.token)
    BY <2>1, <2>2, <2>3 DEF Heeded, KnowsOwn
  <2>5. QED
    BY <2>2, <2>4 DEF Theirs
<1>5. QED
  BY <1>1, <1>2, <1>3, <1>4, HeededServed

LEMMA NotedNext == TypeOK /\ Placed /\ Numbered /\ Noted /\ [Next]_vars => Noted'
<1> SUFFICES ASSUME TypeOK, Placed, Numbered, Noted, [Next]_vars, Undisturbed' PROVE Heeded'
  BY DEF Noted, Heeded
<1>0. Heeded /\ Undisturbed
  BY EventsGrow DEF Noted, Heeded, Undisturbed
<1>w. \A t \in Tabs : warned[t] => page[t] = "home" /\ \E n \in 1 .. Len(issued) : Theirs(t, n)
  BY <1>0 DEF Heeded, Attended, ChecksHold
<1>1. ASSUME NEW t \in Tabs, Open(t) PROVE Heeded'
  <2>1. /\ page[t] = "closed" /\ page' = [page EXCEPT ![t] = "opening"]
        /\ UNCHANGED <<known, warned, issued, flight>>
    BY <1>1 DEF Open, serverVars
  <2>2. \A u \in Tabs : page[u] = "home" => page'[u] = "home"
    BY <2>1 DEF TypeOK
  <2>3. QED
    BY <1>0, <1>w, <2>1, <2>2, HeededLess DEF Brings, Flying
<1>2. ASSUME NEW t \in Tabs, NEW f \in Flights, Enter(t, f) PROVE Heeded'
  <2>1. CASE cached
    <3>1. /\ Send(t, f, "me", Nulo) /\ UNCHANGED <<known, warned>>
          /\ page' = [page EXCEPT ![t] = "home"]
      BY <1>2, <2>1 DEF Enter
    <3>2. "me" \in Kind /\ Nulo \in Store \cup Tokens /\ \A u \in Tabs : page[u] = "home" => page'[u] = "home"
      BY <3>1 DEF Kind, Store, TypeOK
    <3>3. QED
      BY <1>0, <3>1, <3>2, HeededSend
  <2>2. CASE ~cached
    <3>1. /\ page[t] = "opening" /\ page' = [page EXCEPT ![t] = "login"]
          /\ UNCHANGED <<known, warned, issued, flight>>
      BY <1>2, <2>2 DEF Enter, serverVars
    <3>2. \A u \in Tabs : page[u] = "home" => page'[u] = "home"
      BY <3>1 DEF TypeOK
    <3>3. QED
      BY <1>0, <1>w, <3>1, <3>2, HeededLess DEF Brings, Flying
  <2>3. QED
    BY <2>1, <2>2
<1>3. ASSUME NEW t \in Tabs, NEW f \in Flights, Asks(t, f) PROVE Heeded'
  <2>1. PICK k \in Kind, keeps \in Store \cup Tokens :
           /\ Send(t, f, k, keeps) /\ UNCHANGED <<browserVars, tabVars>>
           /\ page[t] = (IF k \in {"login", "password"} THEN k ELSE "home")
           /\ k = "check" => keeps = known[t] /\ keeps # 0
    BY <1>3, AsksSend
  <2>2. UNCHANGED <<known, warned, page>>
    BY <2>1 DEF tabVars
  <2>3. QED
    BY <1>0, <2>1, <2>2, HeededSend
<1>4. ASSUME NEW t \in Tabs, NEW f \in Flights, Logout(t, f) PROVE Heeded'
  BY <1>0, <1>4, HeededLogout
<1>5. ASSUME NEW t \in Tabs, Abandon(t), UNCHANGED issued,
             \A g \in Of(t, Turning) : Waiting(g) => FALSE, \A g \in Of(t, Kind) : ~Brings(g),
             \A u \in Tabs : known'[u] = known[u] \/ (known'[u] = 0 /\ u = t),
             ~warned'[t] /\ \A u \in Tabs \ {t} : warned'[u] = warned[u] /\ page'[u] = page[u]
      PROVE  Heeded'
  <2>1. \A g \in Flights : flight'[g] # Nulo => g \notin Of(t, Kind) /\ flight'[g] = flight[g]
    BY <1>5, AbandonType DEF Of
  <2>2. \A g \in Flights : flight'[g] # Nulo => flight[g] # Nulo /\ flight'[g].tab # t
    BY <2>1, TabType
  <2>3. \A g \in Flights : Brings(g) => flight'[g] # Nulo
    BY <1>5, AbandonType DEF Brings, Flying
  <2>4. QED
    BY <1>0, <1>w, <1>5, <2>1, <2>2, <2>3, HeededLess
<1>6. ASSUME NEW t \in Tabs, Reload(t) PROVE Heeded'
  <2>1. /\ Of(t, Turning) = {} /\ Abandon(t) /\ UNCHANGED issued
    BY <1>6 DEF Reload, Happens, If, Undisturbed, serverVars
  <2>2. \A g \in Of(t, Kind) : ~Brings(g)
    BY <2>1 DEF Of, Brings, Turning
  <2>3. /\ \A u \in Tabs : known'[u] = known[u] \/ (known'[u] = 0 /\ u = t)
        /\ ~warned'[t] /\ \A u \in Tabs \ {t} : warned'[u] = warned[u] /\ page'[u] = page[u]
    <3>1. known' = known \/ known' = [known EXCEPT ![t] = 0]
      BY <1>6 DEF Reload
    <3>2. \A u \in Tabs : known'[u] = known[u] \/ (known'[u] = 0 /\ u = t)
      BY <3>1 DEF TypeOK
    <3>3. QED
      BY <1>6, <3>2 DEF Reload, Leave, TypeOK
  <2>4. QED
    BY <1>5, <2>1, <2>2, <2>3
<1>7. ASSUME NEW f \in Flights, Refuse(f) \/ Mistype(f) PROVE Heeded'
  <2>1. Waiting(f) /\ Respond(f, FALSE, 0, Nulo) /\ UNCHANGED <<known, warned, page, issued>>
    BY <1>7 DEF Refuse, Mistype, tabVars, serverVars
  <2>2. 0 \in Tokens /\ Nulo \in Store /\ FALSE \in BOOLEAN
    BY DEF Tokens, Store
  <2>3. QED
    BY <1>0, <2>1, <2>2, HeededServed
<1>8. ASSUME NEW f \in Flights, Issue(f) \/ Handle(f) PROVE Heeded'
  BY <1>0, <1>8, HeededIssue, HeededHandle
<1>9. ASSUME NEW f \in Flights, Done(f), UNCHANGED <<known, issued>>, ~Brings(f),
             \A t \in Tabs : page[t] = "home" => page'[t] = "home",
             \A t \in Tabs : warned'[t] =>
                page'[t] = "home" /\ (warned[t] \/ \E n \in 1 .. Len(issued) : Theirs(t, n))
      PROVE  Heeded'
  <2>1. \A g \in Flights : flight'[g] # Nulo => flight[g] # Nulo /\ flight'[g] = flight[g]
    BY <1>9, DoneKept
  <2>2. \A g \in Flights : g # f => flight'[g] = flight[g]
    BY <1>9 DEF Done, TypeOK
  <2>3. \A g \in Flights : Brings(g) => flight'[g] # Nulo
    BY <1>9, <2>2 DEF Brings, Flying
  <2>4. QED
    BY <1>0, <1>9, <2>1, <2>3, HeededLess
<1>10. ASSUME NEW f \in Flights, Expelled(f) PROVE Heeded'
  <2> DEFINE t == flight[f].tab
  <2>1. t \in Tabs /\ ~Waiting(f) /\ ~flight[f].reply.ok /\ f \in Flying /\ UNCHANGED <<known, issued>>
    BY <1>10, ReplyType DEF Expelled, serverVars
  <2>2. CASE page[t] \in Inside
    <3>1. Abandon(t) /\ \A g \in Of(t, Turning) : g = f
      BY <1>10, <2>2 DEF Expelled, Happens, If, Undisturbed
    <3>2. /\ \A g \in Of(t, Turning) : Waiting(g) => FALSE
          /\ \A g \in Of(t, Kind) : ~Brings(g)
      BY <2>1, <3>1 DEF Of, Brings, Turning
    <3>3. ~warned'[t] /\ \A u \in Tabs \ {t} : warned'[u] = warned[u] /\ page'[u] = page[u]
      BY <1>10, <2>1, <2>2 DEF Expelled, Leave, TypeOK
    <3>4. \A u \in Tabs : known'[u] = known[u] \/ (known'[u] = 0 /\ u = t)
      BY <2>1
    <3>5. QED
      BY <1>5, <2>1, <3>1, <3>2, <3>3, <3>4
  <2>3. CASE page[t] \notin Inside
    <3>1. Done(f) /\ UNCHANGED <<page, warned>>
      BY <1>10, <2>3 DEF Expelled
    <3>2. ~Brings(f)
      BY <2>1 DEF Brings
    <3>3. QED
      BY <1>9, <1>w, <2>1, <3>1, <3>2
  <2>4. QED
    BY <2>2, <2>3
<1>11. ASSUME NEW f \in Flights, LoggedIn(f) \/ Renewed(f) PROVE Heeded'
  BY <1>0, <1>11, HeededHome
<1>12. ASSUME NEW f \in Flights, PasswordChanged(f) PROVE Heeded'
  <2>1. /\ f \in Flying /\ flight[f].kind = "password" /\ flight[f].tab \in Tabs
    BY <1>12, ReplyType DEF PasswordChanged, Answered
  <2>2. /\ Done(f) /\ UNCHANGED <<known, issued, warned>>
        /\ page' = [page EXCEPT ![flight[f].tab] = "opening"]
    BY <1>12 DEF PasswordChanged, serverVars
  <2>3. page[flight[f].tab] = "password"
    BY <2>1 DEF Placed
  <2>4. ~Brings(f) /\ \A t \in Tabs : page[t] = "home" => page'[t] = "home"
    BY <2>1, <2>2, <2>3 DEF Brings, TypeOK
  <2>5. QED
    BY <1>9, <1>w, <2>2, <2>4
<1>13. ASSUME NEW f \in Flights, Told(f) PROVE Heeded'
  <2> DEFINE q == flight[f]
  <2>1. /\ f \in Flying /\ ~Waiting(f) /\ q.reply.ok /\ q.kind \in {"me", "check", "work"} /\ q.tab \in Tabs
    BY <1>13, ReplyType DEF Told, Answered
  <2>2. /\ Done(f) /\ UNCHANGED <<known, issued, page>>
    BY <1>13 DEF Told, serverVars
  <2>3. \A t \in Tabs : warned'[t] =>
           \/ warned[t]
           \/ t = q.tab /\ q.kind = "check" /\ q.there /\ q.reply.jti # q.keeps
    <3>1. \/ warned' = warned
          \/ warned' = [warned EXCEPT ![q.tab] = TRUE] /\ q.kind = "check" /\ q.there /\ q.reply.jti # q.keeps
      BY <1>13 DEF Told
    <3>2. QED
      BY <3>1 DEF TypeOK
  <2>4. ASSUME q.kind = "check", q.there, q.reply.jti # q.keeps
        PROVE  page[q.tab] = "home" /\ \E n \in 1 .. Len(issued) : Theirs(q.tab, n)
    BY <1>0, <2>1, <2>4 DEF Heeded, Attended, ChecksHold, Found, Theirs
  <2>5. ~Brings(f)
    BY <2>1 DEF Brings
  <2>6. \A t \in Tabs : warned'[t] =>
                page'[t] = "home" /\ (warned[t] \/ \E n \in 1 .. Len(issued) : Theirs(t, n))
    BY <1>w, <2>2, <2>3, <2>4
  <2>7. QED
    BY <1>9, <2>2, <2>5, <2>6
<1>14. ASSUME NEW f \in Flights, Switched(f) \/ LoggedOut(f) \/ Lose(f) PROVE Heeded'
  <2>1. Done(f) /\ UNCHANGED <<known, issued, warned, page>>
    BY <1>14 DEF Switched, LoggedOut, Lose, tabVars, serverVars
  <2>2. ~Brings(f)
    BY <1>14 DEF Switched, LoggedOut, Lose, Answered, Brings, Turning, Happens, If, Undisturbed
  <2>3. QED
    BY <1>9, <1>w, <2>1, <2>2
<1>15. CASE Elsewhere
  BY <1>0, <1>15, HeededElsewhere
<1>16. CASE Lapse \/ UNCHANGED vars
  <2>1. UNCHANGED <<known, issued, warned, page, flight>>
    BY <1>16 DEF Lapse, vars, tabVars, serverVars
  <2>2. QED
    BY <1>0, <1>w, <2>1, HeededLess DEF Brings, Flying
<1>17. QED
  BY <1>1, <1>2, <1>3, <1>4, <1>6, <1>7, <1>8, <1>10, <1>11, <1>12, <1>13, <1>14, <1>15, <1>16
  DEF Next, Tab, Asks, Server, Arrival

-----------------------------------------------------------------------------
(* The theorems.                                                            *)

\* The strengthening is an invariant, whatever the constants.
THEOREM Invariant == Spec => []IInv
<1>1. Init => IInv
  <2>1. Init => Placed /\ Quiet /\ StoresAgree
    BY DEF Init, Placed, Quiet, StoresAgree, ShownIsOwn, OneAnswer, Flying
  <2>2. Init => Numbered /\ Noted
    <3> SUFFICES ASSUME Init PROVE Numbered /\ Noted OBVIOUS
    <3>1. Len(issued) = 0 /\ Flying = {} /\ \A g \in Flights : ~Brings(g)
      BY DEF Init, Flying, Brings
    <3>2. QED
      BY <3>1 DEF Init, Numbered, Noted, Attended, KnowsOwn, ChecksHold
  <2>3. QED
    BY <2>1, <2>2, TypeInit DEF IInv
<1>2. IInv /\ [Next]_vars => IInv'
  BY TypeNext, PlacedNext, QuietNext, StoresNext, NumberedNext, NotedNext DEF IInv
<1>3. QED
  BY <1>1, <1>2, PTL DEF Spec

\* Cookie, tabs, requests and server keep their types; in particular a request whose tab is
\* gone is one that may still turn the cookie, and has no answer yet.
THEOREM TypeCorrect == Spec => []TypeOK
<1>1. IInv => TypeOK
  BY DEF IInv
<1>2. QED
  BY <1>1, Invariant, PTL

\* Nobody is sent to the login page out of the blue: it takes a logout there, or a mishap.
THEOREM ThrownOutTheorem == Spec => ThrownOutForAReason
<1> DEFINE Step == \A t \in Tabs : page[t] \in {"home", "password"} /\ page'[t] = "login"
                      => events' # {} \/ \E f \in Flights : Logout(t, f)
<1>1. ASSUME IInv, [Next]_vars PROVE [Step]_vars
  <2> SUFFICES ASSUME NEW t \in Tabs, page[t] \in {"home", "password"}, page'[t] = "login",
                      events' = {}
               PROVE  \E f \in Flights : Logout(t, f)
    BY <1>1
  <2>1. TypeOK /\ Quiet /\ events = {}
    BY <1>1, EventsGrow DEF IInv
  <2>2. ASSUME NEW f \in Flights, Expelled(f) PROVE FALSE
    <3>1. f \in Flying /\ ~Waiting(f) /\ ~flight[f].reply.ok
      BY <2>1, <2>2, ReplyType DEF Expelled
    <3>2. QED
      BY <2>1, <3>1 DEF Quiet
  <2>3. ASSUME NEW u \in Tabs, NEW f \in Flights, Tab(u, f) PROVE Logout(t, f)
    <3>1. CASE Asks(u, f)
      <4>1. UNCHANGED page
        BY <2>1, <3>1, AsksSend DEF tabVars
      <4>2. QED
        BY <4>1
    <3>2. CASE Enter(u, f)
      BY <2>1, <3>2 DEF Enter, TypeOK
    <3>3. CASE Logout(u, f)
      BY <2>1, <3>3 DEF Logout, Leave, TypeOK
    <3>4. QED
      BY <2>3, <3>1, <3>2, <3>3 DEF Tab, Asks
  <2>4. ASSUME NEW u \in Tabs, Open(u) \/ Reload(u) PROVE FALSE
    BY <2>1, <2>4 DEF Open, Reload, Leave, TypeOK
  <2>5. ASSUME NEW f \in Flights, Server(f) PROVE FALSE
    BY <2>5 DEF Server, Refuse, Mistype, Issue, Handle, tabVars
  <2>6. ASSUME NEW f \in Flights, Arrival(f) PROVE FALSE
    <3>1. CASE LoggedIn(f) \/ PasswordChanged(f)
      BY <2>1, <3>1, ReplyType DEF LoggedIn, PasswordChanged, TypeOK
    <3>2. CASE Renewed(f) \/ Told(f) \/ Switched(f) \/ LoggedOut(f) \/ Lose(f)
      BY <3>2 DEF Renewed, Told, Switched, LoggedOut, Lose, tabVars
    <3>3. QED
      BY <2>2, <2>6, <3>1, <3>2 DEF Arrival
  <2>7. CASE Elsewhere \/ Lapse \/ UNCHANGED vars
    BY <2>7 DEF Elsewhere, Lapse, vars, tabVars
  <2>8. QED
    BY <1>1, <2>3, <2>4, <2>5, <2>6, <2>7 DEF Next
<1>2. QED
  BY <1>1, Invariant, PTL DEF Spec, ThrownOutForAReason

\* A tab that says the account was entered elsewhere is right (SessionKeepAlive.tsx:100-106),
\* however many tabs and devices there are.
THEOREM WarningTheorem == Spec => []WarningMeansSomebodyElse
<1>1. IInv => WarningMeansSomebodyElse
  <2> SUFFICES ASSUME IInv, Undisturbed, NEW t \in Tabs, warned[t]
               PROVE  \E n \in (known[t] + 1) .. Len(issued) : issued[n].by # t \/ issued[n].how = "password"
    BY DEF WarningMeansSomebodyElse, Undisturbed
  <2>1. PICK n \in 1 .. Len(issued) : Theirs(t, n)
    BY DEF IInv, Noted, ChecksHold
  <2>2. n \in (known[t] + 1) .. Len(issued)
    BY <2>1, TokenRange DEF Theirs, IInv
  <2>3. QED
    BY <2>1, <2>2 DEF Theirs, Own
<1>2. QED
  BY <1>1, Invariant, PTL

\* Whatever the other tabs do, a tab with a store of its own works in the store it shows.
THEOREM OwnStoreTheorem == Spec => OwnStoreIsUsed
<1> DEFINE Step == \A f \in Flights : WorkIn(f, TRUE) /\ "late" \notin events
                      => flight'[f].reply.store = flight[f].keeps
<1>1. ASSUME IInv, [Next]_vars PROVE [Step]_vars
  <2> SUFFICES ASSUME NEW f \in Flights, WorkIn(f, TRUE), "late" \notin events
               PROVE  flight'[f].reply.store = flight[f].keeps
    OBVIOUS
  <2> DEFINE q == flight[f]
  <2>1. /\ Handle(f) /\ Waiting(f) /\ q.kind = "work" /\ q.keeps # Nulo /\ q.header # Nulo
    BY DEF WorkIn, Handle
  <2>2. f \in Flying /\ q.reply = Nulo /\ q.tab \in Tabs
    BY <1>1, <2>1, SomebodyAsks DEF Waiting, Flying, IInv
  <2>3. q.keeps = q.header
    BY <1>1, <2>1, <2>2 DEF IInv, StoresAgree, InStore
  <2>4. PICK jti \in Tokens, store \in Store : Respond(f, TRUE, jti, store) /\ store = Resolved(q)
    BY <1>1, <2>1, HandleType DEF IInv
  <2>5. flight'[f].reply.store = store
    BY <1>1, <2>1, <2>2, <2>4, RespondType DEF IInv
  <2>6. QED
    BY <2>1, <2>3, <2>4, <2>5 DEF Resolved
<1>2. QED
  BY <1>1, Invariant, PTL DEF Spec, OwnStoreIsUsed
=============================================================================
