---- MODULE CASCallback_proofs ----
(***************************************************************************)
(* Theorems about CASCallback, for any number of logins, reloads, clients  *)
(* and registrations, and whatever host the callback is configured with:   *)
(* type correctness, that codes are justified, one to a ticket and as the  *)
(* application asked, and that no ticket is spent for an unknown client.   *)
(***************************************************************************)
EXTENDS CASCallback, OAuthURLs_proofs

Serving == {"read", "ticket", "account", "code"}
Validated == {"ticket", "account", "code"}
Holding == {"account", "code"}

Owner(c, id, u) == c.id = id /\ SameOrigin(c.domain, u)
Ticket(h) == request[h].ticket
UserOfTicket(t) == UserOf[t[1]]

\* A request past validateCallbackURLForClient names the client of its callback_url;
\* past ValidateTicket it holds a ticket of its own, spent and not yet turned into a
\* code, that CAS issued for the service it names; past ResolveCASUser it has the
\* account of the ticket's user.
HandlerOK(h) ==
    /\ pc[h] \in Serving => request[h].service # None
    /\ pc[h] \in Validated =>
        /\ Ticket(h) # None
        /\ \E c \in clients : Owner(c, ClientID(h), Callback(h))
    /\ pc[h] \in Holding =>
        /\ Ticket(h) \in spent
        /\ bound[Ticket(h)] = ServiceURL(request[h])
        /\ ExpOf(h) # BadExp
        /\ \A k \in codes : k.ticket # Ticket(h)
    /\ pc[h] = "code" => account[h] # 0 /\ account[h] = binding[UserOfTicket(Ticket(h))]

\* Two requests never hold one ticket.
HoldersApart ==
    \A h, g \in Handlers :
        pc[h] \in Holding /\ pc[g] \in Holding /\ Ticket(h) = Ticket(g) => h = g

\* A service that carries what the application asked for at b.
AsAsked(s, b) ==
    asked[b] # None /\ s.callback = asked[b].callback /\ s.exp = asked[b].exp

\* Whatever CAS loses and the retry puts back, the services that go round carry the
\* callback_url and the token_exp of the login.
BrowserOK(b) ==
    /\ pc[b] = "away" => asked[b] = None
    /\ pc[b] = "atCAS" => service[b] # None
    /\ service[b] # None => AsAsked(service[b], b)
    /\ request[b].service # None => AsAsked(request[b].service, b)
TicketsAsAsked == \A t \in Tickets : bound[t] # None => AsAsked(bound[t], t[1])

\* A code stays what it was issued as: its ticket is spent and keeps its service,
\* its account is the one its user is bound to for good.
CodeOK(k) ==
    /\ \E c \in clients : Owner(c, k.client, k.callback)
    /\ k.account # 0 /\ k.account = binding[UserOfTicket(k.ticket)]
    /\ k.ticket \in spent
    /\ bound[k.ticket] # None
    /\ bound[k.ticket].client = k.client /\ bound[k.ticket].callback = k.callback
    /\ k.exp = TokenExp(bound[k.ticket].exp)

\* AdminStore stores a domain that it has normalised and looked up.
AdminsOK == \A a \in Admins : phase[a] \in {"check", "create"} => domain[a] # None

IInv ==
    /\ TypeOK
    /\ AdminsOK
    /\ \A h \in Handlers : HandlerOK(h)
    /\ HoldersApart
    /\ \A b \in Browsers : BrowserOK(b)
    /\ TicketsAsAsked
    /\ \A k \in codes : CodeOK(k)
    /\ OneCodePerTicket

-----------------------------------------------------------------------------
(* What requests and services are *)

\* A request that is served names a service, and its service URL is one too.
LEMMA ServiceOf ==
    ASSUME IInv, NEW h \in Handlers, pc[h] \in Serving
    PROVE  /\ request[h].service \in Service
           /\ ServiceURL(request[h]) \in Service
           /\ ServiceURL(request[h]) # None
           /\ ServiceURL(request[h]).client = ClientID(h)
           /\ ServiceURL(request[h]).callback = Callback(h)
           /\ ServiceURL(request[h]).exp = ExpOf(h)
  <1>1. request[h].service \in Service
    BY DEF IInv, TypeOK, HandlerOK, Request
  <1> QED
    BY <1>1, NoneAssumption DEF Service, ServiceURL, ClientID, Callback, ExpOf

LEMMA TicketOf ==
    ASSUME IInv, NEW h \in Handlers, pc[h] \in Validated
    PROVE  Ticket(h) \in Tickets /\ request[h].ticket = Ticket(h)
  BY DEF IInv, TypeOK, HandlerOK, Request, Ticket, Serving, Validated

LEMMA HolderOf ==
    ASSUME IInv, NEW h \in Handlers, pc[h] \in Holding
    PROVE  /\ Ticket(h) \in spent /\ bound[Ticket(h)] # None
           /\ bound[Ticket(h)].client = ClientID(h)
           /\ bound[Ticket(h)].callback = Callback(h)
           /\ bound[Ticket(h)].exp = ExpOf(h) /\ ExpOf(h) # BadExp
  BY ServiceOf DEF IInv, HandlerOK, Holding, Serving

\* A ticket is of one of the browsers, whose user has a place in the bindings.
LEMMA UserOfTicketType ==
    ASSUME NEW t \in Tickets
    PROVE  t[1] \in Browsers /\ UserOfTicket(t) \in Users
  BY DEF Tickets, Users, UserOfTicket

-----------------------------------------------------------------------------
(* What a step that is not about a request leaves true of it *)

Growing ==
    /\ clients \subseteq clients' /\ spent \subseteq spent'
    /\ \A t \in Tickets : bound[t] # None => bound'[t] = bound[t]
    /\ \A s \in Users : binding[s] # 0 => binding'[s] = binding[s]

LEMMA HandlerKept ==
    ASSUME IInv, Growing, NEW h \in Handlers,
           pc'[h] = pc[h], request'[h] = request[h], account'[h] = account[h],
           pc[h] \in Holding => \A k \in codes' \ codes : k.ticket # Ticket(h)
    PROVE  HandlerOK(h)'
  <1>1. HandlerOK(h)
    BY DEF IInv
  <1>2. pc[h] \in Holding => /\ Ticket(h) \in Tickets /\ bound[Ticket(h)] # None
                             /\ UserOfTicket(Ticket(h)) \in Users
    BY TicketOf, HolderOf, UserOfTicketType DEF Holding, Validated
  <1>3. pc[h] \in Validated => \E c \in clients' : Owner(c, ClientID(h), Callback(h))
    BY <1>1 DEF HandlerOK, Growing
  <1>4. pc[h] = "code" => account[h] = binding'[UserOfTicket(Ticket(h))]
    BY <1>1, <1>2 DEF HandlerOK, Growing, Holding
  <1>5. /\ ClientID(h)' = ClientID(h) /\ Callback(h)' = Callback(h) /\ ExpOf(h)' = ExpOf(h)
        /\ Ticket(h)' = Ticket(h) /\ ServiceURL(request[h])' = ServiceURL(request[h])
    BY DEF ClientID, Callback, ExpOf, Ticket, ServiceURL
  <1>6. pc[h] \in Holding =>
            /\ Ticket(h) \in spent' /\ bound'[Ticket(h)] = ServiceURL(request[h])
            /\ \A k \in codes' : k.ticket # Ticket(h)
    BY <1>1, <1>2 DEF HandlerOK, Growing
  <1> QED
    BY <1>1, <1>3, <1>4, <1>5, <1>6 DEF HandlerOK

\* An issued code stays right.
LEMMA CodeKept ==
    ASSUME IInv, Growing, NEW k \in codes
    PROVE  CodeOK(k)'
  <1>1. CodeOK(k) /\ k.ticket \in Tickets /\ UserOfTicket(k.ticket) \in Users
    BY UserOfTicketType DEF IInv, TypeOK, Code
  <1> QED
    BY <1>1 DEF CodeOK, Growing

\* What the application asked for stays what is carried.
LEMMA BrowsersKept ==
    ASSUME IInv, UNCHANGED <<pc, asked, service, request>>
    PROVE  \A b \in Browsers : BrowserOK(b)'
  BY DEF IInv, BrowserOK, AsAsked

LEMMA TicketsKept ==
    ASSUME IInv, UNCHANGED <<asked, bound>>
    PROVE  TicketsAsAsked'
  BY DEF IInv, TicketsAsAsked, AsAsked

LEMMA InitInv == Init => IInv
  <1> SUFFICES ASSUME Init PROVE IInv
    OBVIOUS
  <1>1. TypeOK
    BY BoundsAssumption DEF Init, TypeOK, NoRequest, Request, Steps
  <1>2. /\ \A h \in Handlers : pc[h] = "away" /\ request[h] = NoRequest
        /\ codes = {} /\ AdminsOK
    BY DEF Init, AdminsOK
  <1>3. ASSUME NEW h \in Handlers PROVE HandlerOK(h)
    BY <1>2 DEF HandlerOK, Serving, Validated, Holding
  <1>4. ASSUME NEW b \in Browsers PROVE BrowserOK(b)
    BY <1>2 DEF Init, BrowserOK, NoRequest, Handlers
  <1> QED
    BY <1>1, <1>2, <1>3, <1>4
    DEF Init, IInv, HoldersApart, Holding, TicketsAsAsked, OneCodePerTicket

-----------------------------------------------------------------------------
(* AdminStore *)

LEMMA AdminInv ==
    ASSUME IInv, NEW a \in Admins, Submit(a) \/ CheckDomain(a) \/ CreateClient(a)
    PROVE  IInv'
  <1>1. UNCHANGED <<requestVars, casVars, binding, codes>>
    BY DEF Submit, CheckDomain, CreateClient
  <1>2. TypeOK' /\ AdminsOK'
    <2>1. CASE Submit(a)
      <3>1. ASSUME NEW u \in Domains PROVE Origin(u) \in HostPort /\ Origin(u) # None
        BY HostsAssumption, ParametersAssumption, NoneAssumption DEF Origin, HostPort
      <3> QED
        BY <1>1, <2>1, <3>1
        DEF Submit, IInv, TypeOK, AdminsOK, requestVars, casVars
    <2>2. CASE CheckDomain(a)
      BY <1>1, <2>2 DEF CheckDomain, IInv, TypeOK, AdminsOK, requestVars, casVars
    <2>3. CASE CreateClient(a)
      <3>1. [id |-> a, domain |-> domain[a]] \in Client
        BY <2>3 DEF CreateClient, IInv, TypeOK, AdminsOK, Client
      <3> QED
        BY <1>1, <2>3, <3>1 DEF CreateClient, IInv, TypeOK, AdminsOK, requestVars, casVars
    <2> QED
      BY <2>1, <2>2, <2>3
  <1>3. Growing
    BY <1>1 DEF Growing, Submit, CheckDomain, CreateClient, casVars
  <1>4. \A h \in Handlers : HandlerOK(h)'
    BY <1>1, <1>3, HandlerKept DEF requestVars
  <1>5. HoldersApart' /\ OneCodePerTicket'
    BY <1>1 DEF IInv, HoldersApart, OneCodePerTicket, Ticket, requestVars
  <1>6. \A k \in codes' : CodeOK(k)'
    BY <1>1, <1>3, CodeKept
  <1> QED
    BY <1>1, <1>2, <1>4, <1>5, <1>6, BrowsersKept, TicketsKept
    DEF IInv, requestVars, casVars

-----------------------------------------------------------------------------
(* Steps of a login or a request *)

OthersKept(h) ==
    \A g \in Handlers \ {h} :
        pc'[g] = pc[g] /\ request'[g] = request[g] /\ account'[g] = account[g]

\* A step of one request that issues no code.
LEMMA RequestStep ==
    ASSUME IInv, TypeOK', Growing, UNCHANGED <<adminVars, codes>>,
           NEW h \in Handlers, OthersKept(h), HandlerOK(h)',
           pc'[h] \in Holding =>
               request'[h] = request[h] /\ (pc[h] \in Holding \/ Ticket(h) \notin spent),
           \A b \in Browsers : BrowserOK(b)', TicketsAsAsked'
    PROVE  IInv'
  <1>1. AdminsOK' /\ OneCodePerTicket'
    BY DEF IInv, AdminsOK, OneCodePerTicket, adminVars
  <1>2. ASSUME NEW g \in Handlers PROVE HandlerOK(g)'
    BY HandlerKept DEF OthersKept
  <1>3. HoldersApart'
    <2>1. \A g \in Handlers : pc[g] \in Holding => Ticket(g) \in spent
      BY DEF IInv, HandlerOK
    <2> QED
      BY <2>1 DEF IInv, HoldersApart, OthersKept, Ticket
  <1>4. \A k \in codes' : CodeOK(k)'
    BY CodeKept
  <1> QED
    BY <1>1, <1>2, <1>3, <1>4 DEF IInv

LEMMA StartInv ==
    ASSUME IInv, NEW b \in Browsers, Start(b)
    PROVE  IInv'
  <1>1. /\ pc[b] = "away" /\ pc' = [pc EXCEPT ![b] = "atCAS"]
        /\ UNCHANGED <<adminVars, request, account, casVars, binding, codes>>
    BY DEF Start, Goto
  <1>2. PICK s \in Services :
            /\ asked' = [asked EXCEPT ![b] = s]
            /\ service' = [service EXCEPT ![b] =
                 [host |-> PublicHost, client |-> s.client, callback |-> s.callback,
                  exp |-> s.exp]]
    BY DEF Start
  <1> DEFINE w == [host |-> PublicHost, client |-> s.client, callback |-> s.callback,
                   exp |-> s.exp]
  <1>3. w \in Service /\ w # None /\ s # None
    BY NoneAssumption DEF Service, Callbacks, ClientIDs
  <1>4. b \in Handlers
    BY DEF Handlers
  <1>5. TypeOK'
    BY <1>1, <1>2, <1>3 DEF IInv, TypeOK, Steps, adminVars, casVars
  <1>6. asked[b] = None /\ service[b] = None /\ request[b].service = None
    BY <1>1 DEF IInv, BrowserOK, AsAsked
  <1>7. ASSUME NEW c \in Browsers PROVE BrowserOK(c)'
    <2>1. CASE c = b
      <3>1. /\ asked'[c] = s /\ service'[c] = w /\ pc'[c] = "atCAS"
            /\ request'[c].service = None
        BY <1>1, <1>2, <1>4, <1>6, <2>1 DEF IInv, TypeOK
      <3> QED
        BY <1>3, <3>1 DEF BrowserOK, AsAsked
    <2>2. CASE c # b
      <3>1. /\ asked'[c] = asked[c] /\ service'[c] = service[c] /\ pc'[c] = pc[c]
            /\ request'[c] = request[c]
        BY <1>1, <1>2, <2>2 DEF IInv, TypeOK, Handlers
      <3> QED
        BY <3>1 DEF IInv, BrowserOK, AsAsked
    <2> QED
      BY <2>1, <2>2
  <1>8. TicketsAsAsked'
    BY <1>1, <1>2, <1>6, UserOfTicketType
    DEF IInv, TypeOK, TicketsAsAsked, AsAsked, casVars
  <1>9. HandlerOK(b)' /\ pc'[b] \notin Holding
    BY <1>1, <1>4 DEF IInv, TypeOK, HandlerOK, Serving, Validated, Holding
  <1> QED
    BY <1>1, <1>4, <1>5, <1>7, <1>8, <1>9, RequestStep
    DEF IInv, TypeOK, Growing, OthersKept, adminVars, casVars

LEMMA LoginInv ==
    ASSUME IInv, NEW b \in Browsers, Login(b)
    PROVE  IInv'
  <1>1. /\ pc[b] = "atCAS" /\ pc' = [pc EXCEPT ![b] = "read"]
        /\ UNCHANGED <<adminVars, asked, service, account, spent, binding, codes>>
    BY DEF Login, Goto
  <1>2. PICK n \in 1..MaxTickets, lost \in BOOLEAN :
            LET s == IF lost THEN [service[b] EXCEPT !.client = None] ELSE service[b]
            IN  /\ bound[<<b, n>>] = None
                /\ lost => losses[b] < MaxLosses
                /\ losses' = [losses EXCEPT ![b] = IF lost THEN @ + 1 ELSE @]
                /\ bound' = [bound EXCEPT ![<<b, n>>] = s]
                /\ request' = [request EXCEPT ![b] = [ticket |-> <<b, n>>, service |-> s]]
    BY DEF Login
  <1> DEFINE s == IF lost THEN [service[b] EXCEPT !.client = None] ELSE service[b]
             t == <<b, n>>
  <1>3. b \in Handlers /\ t \in Tickets /\ t[1] = b
    BY DEF Handlers, Tickets
  <1>4. service[b] \in Service /\ AsAsked(service[b], b)
    BY <1>1 DEF IInv, TypeOK, BrowserOK
  <1>5. s \in Service /\ s # None /\ AsAsked(s, b)
    BY <1>4, NoneAssumption DEF Service, AsAsked
  <1> HIDE DEF s, t
  <1>6. /\ bound[t] = None /\ bound' = [bound EXCEPT ![t] = s]
        /\ request' = [request EXCEPT ![b] = [ticket |-> t, service |-> s]]
    BY <1>2 DEF s, t
  <1>7. losses' \in [Browsers -> 0..MaxLosses]
    BY <1>2, BoundsAssumption DEF IInv, TypeOK
  <1>8. TypeOK'
    <2>1. [ticket |-> t, service |-> s] \in Request
      BY <1>3, <1>5 DEF Request
    <2> QED
      BY <1>1, <1>3, <1>5, <1>6, <1>7, <2>1 DEF IInv, TypeOK, Steps, adminVars
  <1>9. ASSUME NEW c \in Browsers PROVE BrowserOK(c)'
    <2>1. BrowserOK(c) /\ c \in Handlers
      BY DEF IInv, Handlers
    <2>2. CASE c = b
      <3>1. pc'[c] = "read" /\ request'[c].service = s
        BY <1>1, <1>6, <2>1, <2>2 DEF IInv, TypeOK
      <3> QED
        BY <1>1, <1>5, <2>1, <2>2, <3>1 DEF BrowserOK, AsAsked
    <2>3. CASE c # b
      <3>1. pc'[c] = pc[c] /\ request'[c] = request[c]
        BY <1>1, <1>6, <2>1, <2>3 DEF IInv, TypeOK
      <3> QED
        BY <1>1, <2>1, <3>1 DEF BrowserOK, AsAsked
    <2> QED
      BY <2>2, <2>3
  <1>10. TicketsAsAsked'
    BY <1>1, <1>3, <1>5, <1>6 DEF IInv, TypeOK, TicketsAsAsked, AsAsked
  <1>11. HandlerOK(b)' /\ pc'[b] \notin Holding
    BY <1>1, <1>3, <1>5, <1>6 DEF IInv, TypeOK, HandlerOK, Serving, Validated, Holding
  <1>12. Growing
    BY <1>1, <1>3, <1>6 DEF IInv, TypeOK, Growing, adminVars
  <1>13. OthersKept(b)
    BY <1>1, <1>6 DEF IInv, TypeOK, OthersKept
  <1> QED
    BY <1>1, <1>3, <1>8, <1>9, <1>10, <1>11, <1>12, <1>13, RequestStep

LEMMA ReloadInv ==
    ASSUME IInv, NEW d \in Reloads, Reload(d)
    PROVE  IInv'
  <1>1. /\ pc' = [pc EXCEPT ![d] = "read"]
        /\ UNCHANGED <<adminVars, asked, service, account, casVars, binding, codes>>
    BY DEF Reload, Goto
  <1>2. PICK t \in Tickets, x \in Tickets \cup {None} :
            /\ bound[t] # None
            /\ request' = [request EXCEPT ![d] = [ticket |-> x, service |-> bound[t]]]
    BY DEF Reload
  <1>3. bound[t] \in Service /\ d \in Handlers /\ d \notin Browsers
    BY <1>2, CallersAssumption DEF IInv, TypeOK, Handlers
  <1>4. TypeOK'
    <2>1. [ticket |-> x, service |-> bound[t]] \in Request
      BY <1>3 DEF Request
    <2> QED
      BY <1>1, <1>2, <1>3, <2>1 DEF IInv, TypeOK, Steps, adminVars, casVars
  <1>5. ASSUME NEW b \in Browsers PROVE BrowserOK(b)'
    <2>1. pc'[b] = pc[b] /\ request'[b] = request[b]
      BY <1>1, <1>2, <1>3 DEF IInv, TypeOK, Handlers
    <2> QED
      BY <1>1, <2>1 DEF IInv, BrowserOK, AsAsked
  <1>6. TicketsAsAsked'
    BY <1>1, TicketsKept DEF casVars
  <1>7. HandlerOK(d)' /\ pc'[d] \notin Holding
    BY <1>1, <1>2, <1>3 DEF IInv, TypeOK, HandlerOK, Serving, Validated, Holding
  <1>8. Growing /\ OthersKept(d)
    BY <1>1, <1>2 DEF IInv, TypeOK, Growing, OthersKept, adminVars, casVars
  <1> QED
    BY <1>1, <1>3, <1>4, <1>5, <1>6, <1>7, <1>8, RequestStep

-----------------------------------------------------------------------------
(* HandleCallback *)

\* A step that moves a request on and leaves the services that go round alone.
LEMMA MovesOn ==
    ASSUME IInv, NEW h \in Handlers, NEW p \in Steps \ {"away", "atCAS"},
           pc' = [pc EXCEPT ![h] = p], UNCHANGED <<asked, service, request, bound>>
    PROVE  (\A b \in Browsers : BrowserOK(b)') /\ TicketsAsAsked'
  <1>1. TicketsAsAsked'
    BY TicketsKept
  <1>2. ASSUME NEW b \in Browsers PROVE BrowserOK(b)'
    <2>1. (b # h /\ pc'[b] = pc[b]) \/ pc'[b] \notin {"away", "atCAS"}
      BY DEF IInv, TypeOK, Handlers
    <2> QED
      BY <2>1 DEF IInv, BrowserOK, AsAsked
  <1> QED
    BY <1>1, <1>2

\* A request that ends without a code: refused, or failed by a call.
LEMMA EndsInv ==
    ASSUME IInv, NEW h \in Handlers, Goto(h, "failed"),
           UNCHANGED <<adminVars, asked, service, request, account, casVars, binding, codes>>
    PROVE  IInv'
  <1>1. TypeOK'
    BY DEF IInv, TypeOK, Goto, Steps, adminVars, casVars
  <1>2. HandlerOK(h)' /\ pc'[h] \notin Holding
    BY DEF IInv, TypeOK, HandlerOK, Goto, Serving, Validated, Holding
  <1>3. Growing /\ OthersKept(h)
    BY DEF IInv, TypeOK, Growing, OthersKept, Goto, adminVars, casVars
  <1>4. (\A b \in Browsers : BrowserOK(b)') /\ TicketsAsAsked'
    BY MovesOn DEF Goto, Steps, casVars
  <1> QED
    BY <1>1, <1>2, <1>3, <1>4, RequestStep

LEMMA RetryLoginInv ==
    ASSUME IInv, NEW h \in Handlers, RetryLogin(h)
    PROVE  IInv'
  <1>1. /\ pc[h] = "read" /\ ClientID(h) = None
        /\ UNCHANGED <<adminVars, asked, request, account, casVars, binding, codes>>
    BY DEF RetryLogin
  <1>2. ASSUME NEW c \in ClientsOf(clients, Callback(h)), Goto(h, "atCAS"),
               service' = IF h \in Browsers
                          THEN [service EXCEPT ![h] = RetryService(request[h], c.id)]
                          ELSE service
        PROVE  IInv'
    <2> DEFINE s == RetryService(request[h], c.id)
    <2>1. request[h].service \in Service
      BY <1>1, ServiceOf DEF Serving
    <2>2. c.id \in ClientIDs
      BY FoundHasOrigin DEF IInv, TypeOK, Client, ClientIDs
    <2>3. /\ s \in Service /\ s # None
          /\ s.callback = request[h].service.callback /\ s.exp = request[h].service.exp
      BY <2>1, <2>2, NoneAssumption DEF Service, RetryService
    <2> HIDE DEF s
    <2>4. /\ pc' = [pc EXCEPT ![h] = "atCAS"]
          /\ service' = IF h \in Browsers THEN [service EXCEPT ![h] = s] ELSE service
      BY <1>2 DEF Goto, s
    <2>5. TypeOK'
      BY <1>1, <2>3, <2>4 DEF IInv, TypeOK, Steps, adminVars, casVars
    <2>6. ASSUME NEW b \in Browsers PROVE BrowserOK(b)'
      <3>1. BrowserOK(b) /\ b \in Handlers
        BY DEF IInv, Handlers
      <3>2. CASE b = h
        <4>1. service'[b] = s /\ pc'[b] = "atCAS"
          BY <2>4, <3>1, <3>2 DEF IInv, TypeOK
        <4>2. AsAsked(request[b].service, b)
          BY <2>1, <3>1, <3>2, NoneAssumption DEF BrowserOK
        <4> QED
          BY <1>1, <2>3, <3>2, <4>1, <4>2 DEF BrowserOK, AsAsked
      <3>3. CASE b # h
        <4>1. service'[b] = service[b] /\ pc'[b] = pc[b]
          BY <2>4, <3>1, <3>3 DEF IInv, TypeOK
        <4> QED
          BY <1>1, <3>1, <4>1 DEF BrowserOK, AsAsked
      <3> QED
        BY <3>2, <3>3
    <2>7. TicketsAsAsked'
      BY <1>1, TicketsKept DEF casVars
    <2>8. HandlerOK(h)' /\ pc'[h] \notin Holding
      BY <2>4 DEF IInv, TypeOK, HandlerOK, Serving, Validated, Holding
    <2>9. Growing /\ OthersKept(h)
      BY <1>1, <2>4 DEF IInv, TypeOK, Growing, OthersKept, adminVars, casVars
    <2> QED
      BY <1>1, <2>5, <2>6, <2>7, <2>8, <2>9, RequestStep
  <1>3. CASE Goto(h, "failed") /\ UNCHANGED service
    BY <1>1, <1>3, EndsInv
  <1> QED
    BY <1>2, <1>3 DEF RetryLogin

\* The client that is found is registered for the page and named by the request.
LEMMA ValidateCallbackInv ==
    ASSUME IInv, NEW h \in Handlers, ValidateCallback(h)
    PROVE  IInv'
  <1>1. /\ pc[h] = "read" /\ Complete(h)
        /\ UNCHANGED <<adminVars, asked, service, request, account, casVars, binding, codes>>
    BY DEF ValidateCallback
  <1>2. CASE Goto(h, "failed")
    BY <1>1, <1>2, EndsInv
  <1>3. ASSUME NEW c \in ClientsOf(clients, Callback(h)), c.id = ClientID(h),
               Goto(h, "ticket")
        PROVE  IInv'
    <2>1. pc' = [pc EXCEPT ![h] = "ticket"] /\ pc'[h] = "ticket"
      BY <1>3 DEF Goto, IInv, TypeOK
    <2>2. c \in clients /\ Owner(c, ClientID(h), Callback(h))
      <3>1. /\ c \in clients /\ Callback(h).scheme = "https"
            /\ Origin(Callback(h)) = c.domain
        BY <1>3, FoundHasOrigin
      <3> QED
        BY <1>3, <3>1 DEF Owner, SameOrigin, Origin
    <2>3. HandlerOK(h) /\ Ticket(h) # None
      BY <1>1 DEF IInv, Complete, Ticket
    <2>4. HandlerOK(h)' /\ pc'[h] \notin Holding
      BY <1>1, <2>1, <2>2, <2>3
      DEF HandlerOK, Serving, Validated, Holding, Ticket, ClientID, Callback, adminVars
    <2>5. TypeOK'
      BY <1>1, <2>1 DEF IInv, TypeOK, Steps, adminVars, casVars
    <2>6. Growing /\ OthersKept(h)
      BY <1>1, <2>1 DEF IInv, TypeOK, Growing, OthersKept, adminVars, casVars
    <2>7. (\A b \in Browsers : BrowserOK(b)') /\ TicketsAsAsked'
      BY <1>1, <2>1, MovesOn DEF Steps, casVars
    <2> QED
      BY <1>1, <2>4, <2>5, <2>6, <2>7, RequestStep
  <1> QED
    BY <1>2, <1>3 DEF ValidateCallback

\* CAS takes a ticket once, and only for the service it was issued for; whatever the
\* verdict, the ticket is spent.
LEMMA ValidateTicketInv ==
    ASSUME IInv, NEW h \in Handlers, ValidateTicket(h)
    PROVE  IInv'
  <1>1. /\ pc[h] = "ticket" /\ spent' = spent \cup {Ticket(h)}
        /\ UNCHANGED <<adminVars, asked, service, request, account, bound, losses, binding, codes>>
    BY DEF ValidateTicket, Ticket
  <1>2. PICK p \in {"account", "failed"} :
            /\ pc' = [pc EXCEPT ![h] = p]
            /\ p = "account" => TicketValid(h) /\ ExpOf(h) # BadExp
    BY DEF ValidateTicket, Goto
  <1>3. Ticket(h) \in Tickets /\ HandlerOK(h)
    BY <1>1, TicketOf DEF IInv, Validated
  <1>4. pc'[h] = p
    BY <1>2 DEF IInv, TypeOK
  <1>5. TypeOK'
    BY <1>1, <1>2, <1>3 DEF IInv, TypeOK, Steps, adminVars
  <1>6. \A k \in codes : k.ticket \in spent
    BY DEF IInv, CodeOK
  <1>7. p = "account" => /\ Ticket(h) \notin spent
                         /\ bound[Ticket(h)] = ServiceURL(request[h]) /\ ExpOf(h) # BadExp
    BY <1>2 DEF TicketValid, Ticket
  <1>8. /\ ClientID(h)' = ClientID(h) /\ Callback(h)' = Callback(h) /\ ExpOf(h)' = ExpOf(h)
        /\ Ticket(h)' = Ticket(h) /\ ServiceURL(request[h])' = ServiceURL(request[h])
    BY <1>1 DEF ClientID, Callback, ExpOf, Ticket, ServiceURL
  <1>9. HandlerOK(h)'
    BY <1>1, <1>3, <1>4, <1>6, <1>7, <1>8
    DEF HandlerOK, Serving, Validated, Holding, adminVars
  <1>10. Growing /\ OthersKept(h)
    BY <1>1, <1>2 DEF IInv, TypeOK, Growing, OthersKept, adminVars
  <1>11. (\A b \in Browsers : BrowserOK(b)') /\ TicketsAsAsked'
    BY <1>1, <1>2, MovesOn DEF Steps
  <1>12. pc'[h] \in Holding => request'[h] = request[h] /\ Ticket(h) \notin spent
    BY <1>1, <1>4, <1>7 DEF Holding
  <1> QED
    BY <1>1, <1>5, <1>9, <1>10, <1>11, <1>12, RequestStep

\* A user who has an account keeps it.
LEMMA ResolveUserInv ==
    ASSUME IInv, NEW h \in Handlers, ResolveUser(h)
    PROVE  IInv'
  <1> DEFINE s == UserOfTicket(Ticket(h))
  <1>1. /\ pc[h] = "account"
        /\ UNCHANGED <<adminVars, asked, service, request, casVars, codes>>
    BY DEF ResolveUser
  <1>2. PICK u \in Accounts :
            /\ binding[s] \in {0, u} /\ binding' = [binding EXCEPT ![s] = u]
            /\ account' = [account EXCEPT ![h] = u]
    BY DEF ResolveUser, UserOfTicket, Ticket
  <1>3. PICK p \in {"code", "failed"} : pc' = [pc EXCEPT ![h] = p]
    BY DEF ResolveUser, Goto
  <1>4. Ticket(h) \in Tickets /\ s \in Users /\ HandlerOK(h)
    BY <1>1, TicketOf, UserOfTicketType DEF IInv, Validated
  <1> HIDE DEF s
  <1>5. TypeOK'
    BY <1>1, <1>2, <1>3, <1>4 DEF IInv, TypeOK, Steps, adminVars, casVars
  <1>6. pc'[h] = p /\ account'[h] = u /\ binding'[s] = u /\ u # 0
    BY <1>2, <1>3, <1>4, AccountsAssumption DEF IInv, TypeOK
  <1>7. /\ ClientID(h)' = ClientID(h) /\ Callback(h)' = Callback(h) /\ ExpOf(h)' = ExpOf(h)
        /\ Ticket(h)' = Ticket(h) /\ ServiceURL(request[h])' = ServiceURL(request[h])
    BY <1>1 DEF ClientID, Callback, ExpOf, Ticket, ServiceURL
  <1>8. HandlerOK(h)'
    <2>1. binding'[UserOfTicket(Ticket(h))] = u
      BY <1>6 DEF s
    <2> QED
      BY <1>1, <1>4, <1>6, <1>7, <2>1
      DEF HandlerOK, Serving, Validated, Holding, adminVars, casVars
  <1>9. Growing
    BY <1>1, <1>2, <1>4 DEF IInv, TypeOK, Growing, adminVars, casVars
  <1>10. OthersKept(h)
    BY <1>1, <1>2, <1>3 DEF IInv, TypeOK, OthersKept
  <1>11. (\A b \in Browsers : BrowserOK(b)') /\ TicketsAsAsked'
    BY <1>1, <1>3, MovesOn DEF Steps, casVars
  <1>12. pc[h] \in Holding /\ request'[h] = request[h]
    BY <1>1 DEF Holding
  <1> QED
    BY <1>1, <1>5, <1>8, <1>9, <1>10, <1>11, <1>12, RequestStep

\* The code is the only one of its ticket, which no other request holds.
LEMMA GenerateCodeInv ==
    ASSUME IInv, NEW h \in Handlers, GenerateCode(h)
    PROVE  IInv'
  <1> DEFINE k == [by |-> h, ticket |-> request[h].ticket, client |-> ClientID(h),
                   account |-> account[h], callback |-> Callback(h), exp |-> TokenExp(ExpOf(h))]
  <1>1. /\ pc[h] = "code" /\ codes' = codes \cup {k}
        /\ UNCHANGED <<adminVars, asked, service, request, account, casVars, binding>>
    BY DEF GenerateCode
  <1>2. PICK p \in {"done", "failed"} : pc' = [pc EXCEPT ![h] = p]
    BY DEF GenerateCode, Goto
  <1>3. HandlerOK(h) /\ Ticket(h) \in Tickets /\ request[h].ticket = Ticket(h)
    BY <1>1, TicketOf DEF IInv, Validated
  <1>4. /\ Ticket(h) \in spent /\ bound[Ticket(h)] # None
        /\ bound[Ticket(h)].client = ClientID(h) /\ bound[Ticket(h)].callback = Callback(h)
        /\ bound[Ticket(h)].exp = ExpOf(h) /\ ExpOf(h) # BadExp
    BY <1>1, HolderOf DEF Holding
  <1>5. CodeOK(k)
    BY <1>1, <1>3, <1>4 DEF CodeOK, HandlerOK, Holding, Validated
  <1>6. k \in Code
    <2>1. ClientID(h) \in ClientIDs
      BY <1>1, <1>3 DEF IInv, TypeOK, HandlerOK, Validated, Owner, Client, ClientIDs
    <2>2. Callback(h) \in Callbacks /\ ExpOf(h) \in {s.exp : s \in Services}
      BY <1>1, ServiceOf DEF Serving, Service, Callback, ExpOf
    <2>3. TokenExp(ExpOf(h)) \in Nat
      BY <1>4, <2>2, ParametersAssumption DEF TokenExp
    <2>4. account[h] \in Accounts
      BY <1>1, <1>3 DEF IInv, TypeOK, HandlerOK
    <2> QED
      BY <1>3, <2>1, <2>2, <2>3, <2>4 DEF Code
  <1>7. k.ticket = Ticket(h)
    BY <1>3
  <1> HIDE DEF k
  <1>8. TypeOK'
    BY <1>1, <1>2, <1>6 DEF IInv, TypeOK, Steps, adminVars, casVars
  <1>9. Growing
    BY <1>1 DEF Growing, adminVars, casVars
  <1>10. ASSUME NEW g \in Handlers PROVE HandlerOK(g)'
    <2>1. CASE g = h
      <3>1. pc'[g] \notin Serving \cup Validated \cup Holding
        BY <1>2, <2>1 DEF IInv, TypeOK, Serving, Validated, Holding
      <3> QED
        BY <3>1 DEF HandlerOK, Serving, Validated, Holding
    <2>2. CASE g # h
      <3>1. pc'[g] = pc[g] /\ request'[g] = request[g] /\ account'[g] = account[g]
        BY <1>1, <1>2, <2>2 DEF IInv, TypeOK
      <3>2. pc[g] \in Holding => Ticket(g) # Ticket(h)
        BY <1>1, <2>2 DEF IInv, HoldersApart, Holding
      <3> QED
        BY <1>1, <1>7, <1>9, <3>1, <3>2, HandlerKept
    <2> QED
      BY <2>1, <2>2
  <1>11. HoldersApart'
    <2>1. \A g \in Handlers : pc'[g] \in Holding => pc[g] \in Holding
      BY <1>2 DEF IInv, TypeOK, Holding
    <2> QED
      BY <1>1, <2>1 DEF IInv, HoldersApart, Ticket
  <1>12. \A j \in codes' : CodeOK(j)'
    <2>1. ASSUME NEW j, j = k PROVE CodeOK(j)'
      BY <1>1, <1>5, <2>1 DEF CodeOK, adminVars, casVars
    <2> QED
      BY <1>1, <1>9, <2>1, CodeKept
  <1>13. OneCodePerTicket'
    <2>1. \A j \in codes : j.ticket # Ticket(h)
      BY <1>1, <1>3 DEF HandlerOK, Holding
    <2> QED
      BY <1>1, <1>7, <2>1 DEF IInv, OneCodePerTicket
  <1>14. AdminsOK' /\ (\A b \in Browsers : BrowserOK(b)') /\ TicketsAsAsked'
    BY <1>1, <1>2, MovesOn DEF IInv, AdminsOK, Steps, adminVars, casVars
  <1> QED
    BY <1>8, <1>10, <1>11, <1>12, <1>13, <1>14 DEF IInv

-----------------------------------------------------------------------------
(* The theorems *)

LEMMA IdleInv == IInv /\ UNCHANGED vars => IInv'
  <1> SUFFICES ASSUME IInv, UNCHANGED vars PROVE IInv'
    OBVIOUS
  <1>1. UNCHANGED <<adminVars, requestVars, casVars, binding, codes>>
    BY DEF vars
  <1>2. TypeOK' /\ AdminsOK' /\ HoldersApart' /\ OneCodePerTicket'
    BY <1>1 DEF IInv, TypeOK, AdminsOK, HoldersApart, OneCodePerTicket, Ticket, adminVars,
                requestVars, casVars
  <1>3. Growing
    BY <1>1 DEF Growing, adminVars, casVars
  <1>4. (\A h \in Handlers : HandlerOK(h)') /\ \A k \in codes' : CodeOK(k)'
    BY <1>1, <1>3, HandlerKept, CodeKept DEF requestVars
  <1> QED
    BY <1>1, <1>2, <1>4, BrowsersKept, TicketsKept DEF IInv, requestVars, casVars

LEMMA StepInv == IInv /\ [Next]_vars => IInv'
  <1> SUFFICES ASSUME IInv, [Next]_vars PROVE IInv'
    OBVIOUS
  <1>1. ASSUME NEW b \in Browsers, Start(b) \/ Login(b) PROVE IInv'
    BY <1>1, StartInv, LoginInv
  <1>2. ASSUME NEW d \in Reloads, Reload(d) PROVE IInv'
    BY <1>2, ReloadInv
  <1>3. ASSUME NEW h \in Handlers, HandlerStep(h) \/ Fail(h) PROVE IInv'
    <2>1. CASE RejectRequest(h) \/ Fail(h)
      BY <2>1, EndsInv DEF RejectRequest, Fail
    <2> QED
      BY <1>3, <2>1, RetryLoginInv, ValidateCallbackInv, ValidateTicketInv, ResolveUserInv,
         GenerateCodeInv DEF HandlerStep
  <1>4. ASSUME NEW a \in Admins, Submit(a) \/ CheckDomain(a) \/ CreateClient(a) PROVE IInv'
    BY <1>4, AdminInv
  <1> QED
    BY <1>1, <1>2, <1>3, <1>4, IdleInv DEF Next

\* The inductive invariant holds throughout every behaviour.
THEOREM Invariance == Spec => []IInv
  BY InitInv, StepInv, PTL DEF Spec

\* Every variable keeps its type; the lifetime a code asks for is a number.
THEOREM TypeCorrect == Spec => []TypeOK
  <1>1. IInv => TypeOK
    BY DEF IInv
  <1> QED
    BY <1>1, Invariance, PTL

\* A code names a client registered for the origin of its callback_url and the account
\* of the CAS user whose ticket, issued for that client and page, was spent on it.
THEOREM CodesJustified == Spec => []CodeJustified
  <1>1. IInv => CodeJustified
    BY DEF IInv, CodeJustified, CodeOK, Owner, UserOfTicket
  <1> QED
    BY <1>1, Invariance, PTL

\* However many requests carry it, a ticket yields one code.
THEOREM TicketsGoodOnce == Spec => []OneCodePerTicket
  <1>1. IInv => OneCodePerTicket
    BY DEF IInv
  <1> QED
    BY <1>1, Invariance, PTL

\* The callback_url and the lifetime survive every round through CAS.
THEOREM CodesAsAsked == Spec => []CodeAsAsked
  <1>1. ASSUME IInv, NEW k \in codes
        PROVE  /\ k.callback = asked[k.ticket[1]].callback
               /\ k.exp = IF asked[k.ticket[1]].exp = None THEN 0 ELSE asked[k.ticket[1]].exp
    <2>1. k.ticket \in Tickets /\ CodeOK(k)
      BY <1>1 DEF IInv, TypeOK, Code
    <2>2. AsAsked(bound[k.ticket], k.ticket[1])
      BY <1>1, <2>1 DEF IInv, TicketsAsAsked, CodeOK
    <2> QED
      BY <2>1, <2>2 DEF CodeOK, AsAsked, TokenExp
  <1>2. IInv => CodeAsAsked
    BY <1>1 DEF CodeAsAsked
  <1> QED
    BY <1>2, Invariance, PTL

\* A ticket is spent only past validateCallbackURLForClient.
THEOREM TicketsSpentForClients == Spec => TicketSpentForClient
  <1> DEFINE Known(t) == \E h \in Handlers :
                /\ request[h].ticket = t
                /\ \E c \in clients : c.id = ClientID(h) /\ SameOrigin(c.domain, Callback(h))
  <1>1. ASSUME IInv, [Next]_vars, NEW t \in spent' \ spent PROVE Known(t)
    <2>1. ASSUME NEW h \in Handlers, ValidateTicket(h) PROVE Known(t)
      <3>1. t = request[h].ticket /\ pc[h] = "ticket" /\ HandlerOK(h)
        BY <1>1, <2>1 DEF ValidateTicket, IInv
      <3> QED
        BY <3>1 DEF HandlerOK, Validated, Owner
    <2>2. spent' = spent \/ \E h \in Handlers : ValidateTicket(h)
      BY <1>1 DEF Next, HandlerStep, Start, Login, Reload, RejectRequest, RetryLogin,
                  ValidateCallback, ResolveUser, GenerateCode, Fail, Submit, CheckDomain,
                  CreateClient, casVars, vars
    <2> QED
      BY <1>1, <2>1, <2>2
  <1>2. IInv /\ [Next]_vars => \A t \in spent' \ spent : Known(t)
    BY <1>1
  <1> HIDE DEF Known
  <1>3. Spec => [][\A t \in spent' \ spent : Known(t)]_vars
    BY <1>2, Invariance, PTL DEF Spec
  <1> QED
    BY <1>3 DEF TicketSpentForClient, Known

-----------------------------------------------------------------------------
(* The owner of a page is served *)

\* AdminStore stores normalised domains only.
NormalInv ==
    /\ Normalised(clients)
    /\ \A a \in Admins : phase[a] \in {"check", "create"} =>
            LowerCase[domain[a].host] = domain[a].host

LEMMA NormalStep == TypeOK /\ NormalInv /\ [Next]_vars => NormalInv'
  <1> SUFFICES ASSUME TypeOK, NormalInv, [Next]_vars PROVE NormalInv'
    OBVIOUS
  <1>1. CASE UNCHANGED adminVars
    BY <1>1 DEF NormalInv, Normalised, adminVars
  <1>2. ASSUME NEW a \in Admins, Submit(a) PROVE NormalInv'
    <2>1. ASSUME NEW u \in Domains PROVE LowerCase[Origin(u).host] = Origin(u).host
      BY HostsAssumption, ParametersAssumption DEF Origin
    <2> QED
      BY <1>2, <2>1 DEF Submit, TypeOK, NormalInv, Normalised
  <1>3. ASSUME NEW a \in Admins, CheckDomain(a) PROVE NormalInv'
    BY <1>3 DEF CheckDomain, TypeOK, NormalInv, Normalised
  <1>4. ASSUME NEW a \in Admins, CreateClient(a) PROVE NormalInv'
    BY <1>4 DEF CreateClient, TypeOK, NormalInv, Normalised
  <1> QED
    BY <1>1, <1>2, <1>3, <1>4
    DEF Next, Start, Login, Reload, HandlerStep, RejectRequest, RetryLogin, ValidateCallback,
        ValidateTicket, ResolveUser, GenerateCode, Fail, vars

\* With clients that were all stored by AdminStore, no request of a page's own client
\* is refused before CAS is asked about the ticket.
THEOREM OwnersServed ==
    ASSUME Normalised(Registered)
    PROVE  Spec => OwnerServed
  <1> DEFINE Served(h) ==
                /\ pc[h] = "read" /\ Complete(h)
                /\ Accepted(Callback(h)) /\ ~Callback(h).fragment
                /\ Owners(h) # {} /\ \A c \in Owners(h) : ClientID(h) \in {None, c.id}
                => pc'[h] # "failed"
  <1>1. ASSUME TypeOK, NormalInv, [Next]_vars, NEW h \in Handlers \ Faulty,
               pc[h] = "read", Complete(h), Accepted(Callback(h)), ~Callback(h).fragment,
               Owners(h) # {}, \A c \in Owners(h) : ClientID(h) \in {None, c.id}
        PROVE  pc'[h] # "failed"
    <2>1. /\ ClientsOf(clients, Callback(h)) = Owners(h)
          /\ FirstFound(clients, Callback(h)) = Owners(h)
      BY <1>1, OwnerFound DEF NormalInv, Owners
    <2>2. CASE RetryLogin(h)
      BY <1>1, <2>1, <2>2 DEF RetryLogin, Goto, TypeOK
    <2>3. CASE ValidateCallback(h)
      <3>1. \A c \in Owners(h) : CallbackAllowed(c.domain, Callback(h))
        BY <2>1 DEF ClientsOf
      <3>2. \A c \in Owners(h) : c.id = ClientID(h)
        BY <1>1, <2>3 DEF ValidateCallback
      <3> QED
        BY <1>1, <2>1, <2>3, <3>1, <3>2 DEF ValidateCallback, Goto, TypeOK
    <2>4. CASE pc'[h] = pc[h]
      BY <1>1, <2>4
    <2>5. \/ pc'[h] = pc[h]
          \/ RetryLogin(h) \/ ValidateCallback(h)
      <3>1. ASSUME NEW g \in Handlers, NEW p \in Steps, Goto(g, p), g # h
            PROVE  pc'[h] = pc[h]
        BY <3>1 DEF Goto, TypeOK
      <3>2. ASSUME NEW b \in Browsers, Start(b) \/ Login(b) PROVE pc'[h] = pc[h]
        BY <1>1, <3>1, <3>2 DEF Start, Login, Handlers, Steps
      <3>3. ASSUME NEW d \in Reloads, Reload(d) PROVE pc'[h] = pc[h]
        BY <1>1, <3>1, <3>3 DEF Reload, Handlers, Steps
      <3>4. ASSUME NEW g \in Handlers, HandlerStep(g) \/ Fail(g)
            PROVE  pc'[h] = pc[h] \/ RetryLogin(h) \/ ValidateCallback(h)
        <4>1. CASE g = h
          BY <1>1, <3>4, <4>1
          DEF HandlerStep, RejectRequest, ValidateTicket, ResolveUser, GenerateCode, Fail
        <4>2. CASE g # h
          BY <3>1, <3>4, <4>2
          DEF HandlerStep, RejectRequest, RetryLogin, ValidateCallback, ValidateTicket,
              ResolveUser, GenerateCode, Fail, Steps
        <4> QED
          BY <4>1, <4>2
      <3>5. ASSUME NEW a \in Admins, Submit(a) \/ CheckDomain(a) \/ CreateClient(a)
            PROVE  pc'[h] = pc[h]
        BY <3>5 DEF Submit, CheckDomain, CreateClient, requestVars
      <3> QED
        BY <1>1, <3>2, <3>3, <3>4, <3>5 DEF Next, vars, requestVars
    <2> QED
      BY <2>2, <2>3, <2>4, <2>5
  <1>2. TypeOK /\ NormalInv /\ [Next]_vars => \A h \in Handlers \ Faulty : Served(h)
    BY <1>1
  <1>3. Init => NormalInv
    BY DEF Init, NormalInv
  <1> HIDE DEF Served
  <1>4. Spec => [][\A h \in Handlers \ Faulty : Served(h)]_vars
    BY <1>2, <1>3, NormalStep, TypeCorrect, PTL DEF Spec
  <1> QED
    BY <1>4 DEF OwnerServed, Served
====
