---- MODULE CASCallback ----
(***************************************************************************)
(* Logging in to an application through CAS: the browser goes to CAS with  *)
(* the URL of this service's callback, comes back to the callback with a   *)
(* ticket, and is sent on to the application with an authorization code    *)
(* (HandleCallback, src/service/cas_oauth.go; handler/oauth).  When CAS    *)
(* lost the client_id on the way, the callback finds the client by the     *)
(* domain of callback_url and sends the browser to CAS again.              *)
(*                                                                         *)
(* Meanwhile administrators register clients (AdminStore,                  *)
(* src/handler/oauth/store.go), and a callback may be requested again, by  *)
(* a reload or from the history of a browser, while the first request of   *)
(* it is being served.  CAS, the client store and the code store are       *)
(* external; the user resolver is what IdentityRegistry says of it.        *)
(***************************************************************************)
EXTENDS OAuthURLs, FiniteSets

CONSTANTS
    Browsers,       \* logins; also the handler's runs on behalf of each
    Reloads,        \* further requests of a callback URL some browser was sent to
    UserOf,         \* UserOf[b]: the CAS user logged in at b
    Faulty,         \* the requests in which a call to CAS or to a database may fail
    Services,       \* [client, callback, exp] that applications send browsers to CAS with
    None,           \* a parameter that is missing
    BadExp,         \* a token_exp that is not a number
    Admins,         \* requests to register a client; the client's id is the request's
    Domains,        \* the domains asked for
    Registered,     \* the clients registered before
    Accounts,       \* local accounts
    BaseURL,        \* cas.callback_base_url, None if not configured
    PublicHost,     \* where browsers reach this service
    RequestHost,    \* the Host this service sees in a request, behind its proxy
    MaxLosses,      \* bound: how often CAS loses the client_id of one login
    MaxTickets      \* bound: tickets per login

Handlers == Browsers \cup Reloads
Tickets == Browsers \X (1..MaxTickets)
Users == {UserOf[b] : b \in Browsers}

ASSUME CallersAssumption == Browsers \cap Reloads = {} /\ BadExp # None
ASSUME BoundsAssumption == MaxLosses \in Nat /\ MaxTickets \in Nat

VARIABLES
    \* the client store and the requests to it
    clients,    \* the clients: id and domain
    phase,      \* phase[a]: where AdminStore is
    domain,     \* domain[a]: the normalised domain
    \* the browsers and the callback's requests
    pc,         \* pc[h]: where the login or the request is
    asked,      \* asked[b]: the service the application sent the browser to CAS with
    service,    \* service[b]: the service of the browser's next visit to CAS
    request,    \* request[h]: the ticket and the service the callback is called with
    account,    \* account[h]: the local user of the ticket
    \* CAS
    bound,      \* bound[t]: the service ticket t was issued for, None before that
    spent,      \* the tickets that were validated
    losses,     \* losses[b]: how often CAS lost the client_id
    \* the rest of the database
    binding,    \* binding[s]: the account of CAS user s, 0 if none
    codes       \* the authorization codes

adminVars == <<clients, phase, domain>>
requestVars == <<pc, asked, service, request, account>>
casVars == <<bound, spent, losses>>
vars == <<adminVars, requestVars, casVars, binding, codes>>

NoRequest == [ticket |-> None, service |-> None]

-----------------------------------------------------------------------------
(* The URL of the callback *)

\* Mutant: the host of the request, whatever is configured.
SeenHost == RequestHost

\* callbackSchemeAndHost.
CallbackHost == IF BaseURL # None THEN BaseURL ELSE RequestHost

\* buildServiceURL: the request without its ticket, at the host CAS knows.
ServiceURL(r) == [r.service EXCEPT !.host = CallbackHost]

\* Mutant: the retry forgets the parameters it does not know.
RetryServicePlain(r, client) ==
    [host |-> CallbackHost, client |-> client, callback |-> r.service.callback, exp |-> None]

\* buildRetryServiceURL.
RetryService(r, client) == [r.service EXCEPT !.host = CallbackHost, !.client = client]

\* Mutant: whatever was given is passed on.
RawTokenExp(raw) == raw

\* parseOptionalTokenExp, for a raw value that is a number or missing.
TokenExp(raw) == IF raw = None THEN 0 ELSE raw

-----------------------------------------------------------------------------

Callbacks == {s.callback : s \in Services}
ClientIDs == {s.client : s \in Services} \cup {c.id : c \in Registered} \cup Admins
Service == [host : {PublicHost, CallbackHost}, client : ClientIDs \cup {None},
            callback : Callbacks, exp : {s.exp : s \in Services}]
Request == [ticket : Tickets \cup {None}, service : Service \cup {None}]
Code == [by : Handlers, ticket : Tickets, client : ClientIDs, account : Accounts,
         callback : Callbacks, exp : Nat]
Client == [id : Admins, domain : HostPort]
ASSUME NoneAssumption == None \notin Service \cup Services \cup HostPort
ASSUME AccountsAssumption == 0 \notin Accounts
ASSUME ParametersAssumption ==
    /\ \A s \in Services : s.exp \in Nat \cup {None, BadExp}
    /\ \A u \in Domains : u.host \in Hosts /\ u.port \in Port

Steps == {"away", "atCAS", "read", "ticket", "account", "code", "done", "failed"}

TypeOK ==
    /\ clients \in SUBSET (Registered \cup Client)
    /\ phase \in [Admins -> {"idle", "check", "create", "created", "refused", "failed"}]
    /\ domain \in [Admins -> HostPort \cup {None}]
    /\ pc \in [Handlers -> Steps]
    /\ asked \in [Browsers -> Services \cup {None}]
    /\ service \in [Browsers -> Service \cup {None}]
    /\ request \in [Handlers -> Request]
    /\ account \in [Handlers -> Accounts \cup {0}]
    /\ bound \in [Tickets -> Service \cup {None}]
    /\ spent \subseteq Tickets
    /\ losses \in [Browsers -> 0..MaxLosses]
    /\ binding \in [Users -> Accounts \cup {0}]
    /\ codes \subseteq Code

Init ==
    /\ clients = Registered
    /\ phase = [a \in Admins |-> "idle"]
    /\ domain = [a \in Admins |-> None]
    /\ pc = [h \in Handlers |-> "away"]
    /\ asked = [b \in Browsers |-> None]
    /\ service = [b \in Browsers |-> None]
    /\ request = [h \in Handlers |-> NoRequest]
    /\ account = [h \in Handlers |-> 0]
    /\ bound = [t \in Tickets |-> None]
    /\ spent = {}
    /\ losses = [b \in Browsers |-> 0]
    /\ binding = [s \in Users |-> 0]
    /\ codes = {}

Goto(h, step) == pc' = [pc EXCEPT ![h] = step]

-----------------------------------------------------------------------------
(* AdminStore, behind AdminRequiredMiddleware *)

Submit(a) ==
    /\ phase[a] = "idle"
    /\ \E u \in Domains :
        IF ValidDomain(u)
        THEN /\ domain' = [domain EXCEPT ![a] = Origin(u)]
             /\ phase' = [phase EXCEPT ![a] = "check"]
        ELSE /\ phase' = [phase EXCEPT ![a] = "refused"]
             /\ UNCHANGED domain
    /\ UNCHANGED <<clients, requestVars, casVars, binding, codes>>

\* The domain is looked up: it has a client, it has none, or the store fails.
CheckDomain(a) ==
    /\ phase[a] = "check"
    /\ \E p \in {"failed", IF ByDomain(clients, domain[a]) # {} THEN "refused" ELSE "create"} :
        phase' = [phase EXCEPT ![a] = p]
    /\ UNCHANGED <<clients, domain, requestVars, casVars, binding, codes>>

\* The client is created, or is not; an error may be reported in either case.
CreateClient(a) ==
    /\ phase[a] = "create"
    /\ \/ /\ clients' = clients \cup {[id |-> a, domain |-> domain[a]]}
          /\ \E p \in {"created", "failed"} : phase' = [phase EXCEPT ![a] = p]
       \/ /\ phase' = [phase EXCEPT ![a] = "failed"]
          /\ UNCHANGED clients
    /\ UNCHANGED <<domain, requestVars, casVars, binding, codes>>

-----------------------------------------------------------------------------
(* Browsers and CAS *)

\* An application sends the browser to the login page of CAS.
Start(b) ==
    /\ pc[b] = "away"
    /\ \E s \in Services :
        /\ asked' = [asked EXCEPT ![b] = s]
        /\ service' = [service EXCEPT ![b] =
             [host |-> PublicHost, client |-> s.client, callback |-> s.callback, exp |-> s.exp]]
    /\ Goto(b, "atCAS")
    /\ UNCHANGED <<adminVars, request, account, casVars, binding, codes>>

\* The user logs in, and CAS sends the browser to the service with a ticket for
\* it, having lost the client_id or not.  CAS knows the service by its public host.
Login(b) ==
    /\ pc[b] = "atCAS"
    /\ service[b].host = PublicHost
    /\ \E n \in 1..MaxTickets, lost \in BOOLEAN :
        LET s == IF lost THEN [service[b] EXCEPT !.client = None] ELSE service[b]
        IN  /\ bound[<<b, n>>] = None
            /\ \A m \in 1..(n - 1) : bound[<<b, m>>] # None
            /\ lost => losses[b] < MaxLosses
            /\ losses' = [losses EXCEPT ![b] = IF lost THEN @ + 1 ELSE @]
            /\ bound' = [bound EXCEPT ![<<b, n>>] = s]
            /\ request' = [request EXCEPT ![b] = [ticket |-> <<b, n>>, service |-> s]]
    /\ Goto(b, "read")
    /\ UNCHANGED <<adminVars, asked, service, account, spent, binding, codes>>

\* A callback URL is requested once more, or kept without its ticket.
Reload(d) ==
    /\ pc[d] = "away"
    /\ \E t \in Tickets : \E x \in {t, None} :
        /\ bound[t] # None
        /\ request' = [request EXCEPT ![d] = [ticket |-> x, service |-> bound[t]]]
    /\ Goto(d, "read")
    /\ UNCHANGED <<adminVars, asked, service, account, casVars, binding, codes>>

-----------------------------------------------------------------------------
(* HandleCallback *)

Callback(h) == request[h].service.callback
ClientID(h) == request[h].service.client
Complete(h) == request[h].ticket # None /\ Callback(h) # None

RejectRequest(h) ==
    /\ pc[h] = "read" /\ ~Complete(h)
    /\ Goto(h, "failed")
    /\ UNCHANGED <<adminVars, asked, service, request, account, casVars, binding, codes>>

\* buildCASLoginRetryURL: back to CAS with the client of the callback's domain.
\* The response to a reload is not followed.
RetryLogin(h) ==
    /\ pc[h] = "read" /\ Complete(h) /\ ClientID(h) = None
    /\ \/ \E c \in ClientsOf(clients, Callback(h)) :
            /\ Goto(h, "atCAS")
            /\ service' = IF h \in Browsers
                          THEN [service EXCEPT ![h] = RetryService(request[h], c.id)]
                          ELSE service
       \/ /\ ClientsOf(clients, Callback(h)) = {}
          /\ Goto(h, "failed")
          /\ UNCHANGED service
    /\ UNCHANGED <<adminVars, asked, request, account, casVars, binding, codes>>

\* Mutant: any registered client will do.
ValidateCallbackLoosely(h) ==
    /\ pc[h] = "read" /\ Complete(h) /\ ClientID(h) # None
    /\ Goto(h, IF \E c \in clients : c.id = ClientID(h) THEN "ticket" ELSE "failed")
    /\ UNCHANGED <<adminVars, asked, service, request, account, casVars, binding, codes>>

\* Mutant: the callback is not validated before the ticket.
SkipValidateCallback(h) ==
    /\ pc[h] = "read" /\ Complete(h) /\ ClientID(h) # None
    /\ Goto(h, "ticket")
    /\ UNCHANGED <<adminVars, asked, service, request, account, casVars, binding, codes>>

\* validateCallbackURLForClient.
ValidateCallback(h) ==
    /\ pc[h] = "read" /\ Complete(h) /\ ClientID(h) # None
    /\ \/ /\ \E c \in ClientsOf(clients, Callback(h)) : c.id = ClientID(h)
          /\ Goto(h, "ticket")
       \/ /\ \E c \in FirstFound(clients, Callback(h)) :
                c.id # ClientID(h) \/ ~CallbackAllowed(c.domain, Callback(h))
          /\ Goto(h, "failed")
       \/ /\ FirstFound(clients, Callback(h)) = {}
          /\ Goto(h, "failed")
    /\ UNCHANGED <<adminVars, asked, service, request, account, casVars, binding, codes>>

ExpOf(h) == request[h].service.exp

\* CAS's verdict on a ticket and a service; the ticket is of no use afterwards.
TicketValid(h) ==
    request[h].ticket \notin spent /\ bound[request[h].ticket] = ServiceURL(request[h])

\* Mutant: the error of ValidateTicket is not looked at.
ValidateTicketUnchecked(h) ==
    /\ pc[h] = "ticket"
    /\ spent' = spent \cup {request[h].ticket}
    /\ Goto(h, IF ExpOf(h) # BadExp THEN "account" ELSE "failed")
    /\ UNCHANGED <<adminVars, asked, service, request, account, bound, losses, binding, codes>>

\* The ticket is validated by CAS, and only then token_exp is parsed.
ValidateTicket(h) ==
    /\ pc[h] = "ticket"
    /\ spent' = spent \cup {request[h].ticket}
    /\ \/ Goto(h, IF TicketValid(h) /\ ExpOf(h) # BadExp THEN "account" ELSE "failed")
       \/ h \in Faulty /\ Goto(h, "failed")
    /\ UNCHANGED <<adminVars, asked, service, request, account, bound, losses, binding, codes>>

\* ResolveCASUser: the account the user is bound to, bound now if there was none.
ResolveUser(h) ==
    /\ pc[h] = "account"
    /\ \E u \in Accounts :
        LET s == UserOf[request[h].ticket[1]]
        IN  /\ binding[s] \in {0, u}
            /\ binding' = [binding EXCEPT ![s] = u]
            /\ account' = [account EXCEPT ![h] = u]
    /\ \/ Goto(h, "code")
       \/ h \in Faulty /\ Goto(h, "failed")
    /\ UNCHANGED <<adminVars, asked, service, request, casVars, codes>>

\* GenerateAuthorizeCode and the redirect to callback_url with the code.
GenerateCode(h) ==
    /\ pc[h] = "code"
    /\ codes' = codes \cup
        {[by |-> h, ticket |-> request[h].ticket, client |-> ClientID(h), account |-> account[h],
          callback |-> Callback(h), exp |-> TokenExp(ExpOf(h))]}
    /\ \/ Goto(h, "done")
       \/ h \in Faulty /\ Goto(h, "failed")
    /\ UNCHANGED <<adminVars, asked, service, request, account, casVars, binding>>

\* A call to CAS or to a database fails without effect.
Fail(h) ==
    /\ h \in Faulty
    /\ pc[h] \in {"read", "ticket", "account", "code"}
    /\ Goto(h, "failed")
    /\ UNCHANGED <<adminVars, asked, service, request, account, casVars, binding, codes>>

HandlerStep(h) ==
    \/ RejectRequest(h) \/ RetryLogin(h) \/ ValidateCallback(h)
    \/ ValidateTicket(h) \/ ResolveUser(h) \/ GenerateCode(h)

-----------------------------------------------------------------------------

\* All logins may be over: the system may rest.
Next ==
    \/ \E b \in Browsers : Start(b) \/ Login(b)
    \/ \E d \in Reloads : Reload(d)
    \/ \E h \in Handlers : HandlerStep(h) \/ Fail(h)
    \/ \E a \in Admins : Submit(a) \/ CheckDomain(a) \/ CreateClient(a)

\* A browser's request is served, and whoever CAS asks to log in does.
Fairness == \A b \in Browsers : WF_vars(Login(b) \/ HandlerStep(b))

Spec == Init /\ [][Next]_vars /\ Fairness

-----------------------------------------------------------------------------
(* Properties *)

\* An application's page is of its client's domain (docs/cas-oauth-debug.md:195).
SameOrigin(d, u) == u.scheme = "https" /\ LowerCase[u.host] = d.host /\ u.port = d.port

\* A code for client c that is sent to callback_url is issued only when c is
\* registered for the origin of callback_url (https, same host, same port), to
\* the account of the CAS user who got the ticket, on the strength of a ticket
\* that CAS issued for that very client and callback_url.
CodeJustified ==
    \A k \in codes :
        /\ \E c \in clients : c.id = k.client /\ SameOrigin(c.domain, k.callback)
        /\ k.account = binding[UserOf[k.ticket[1]]]
        /\ k.ticket \in spent
        /\ bound[k.ticket].client = k.client /\ bound[k.ticket].callback = k.callback

\* A ticket is good for one code, however often and from wherever the callback is
\* requested with it (docs/cas-oauth-debug.md:16: a ticket is consumed once).
OneCodePerTicket == \A k, j \in codes : k.ticket = j.ticket => k = j

\* However often the login went round through CAS, the code goes where the
\* application asked for it and lives as long as it asked for.
CodeAsAsked ==
    \A k \in codes :
        /\ k.callback = asked[k.ticket[1]].callback
        /\ k.exp = IF asked[k.ticket[1]].exp = None THEN 0 ELSE asked[k.ticket[1]].exp

\* A ticket is spent only on a request that names a client which is registered
\* for its callback_url: one without client_id keeps its ticket, and so does one
\* that must fail anyway (the comment at cas_oauth.go:226-228).
TicketSpentForClient ==
    [][\A t \in spent' \ spent : \E h \in Handlers :
        /\ request[h].ticket = t
        /\ \E c \in clients : c.id = ClientID(h) /\ SameOrigin(c.domain, Callback(h))]_vars

\* The clients registered for the very origin of the callback_url.
Owners(h) == ByDomain(clients, Origin(Callback(h)))

\* A request with an acceptable callback_url is not refused when it names the client
\* of that page's origin, or none and there is one: however the host is written, and
\* whatever is registered for the other names the search tries, or meanwhile.
OwnerServed ==
    [][\A h \in Handlers \ Faulty :
        /\ pc[h] = "read" /\ Complete(h)
        /\ Accepted(Callback(h)) /\ ~Callback(h).fragment
        /\ Owners(h) # {} /\ \A c \in Owners(h) : ClientID(h) \in {None, c.id}
        => pc'[h] # "failed"]_vars

\* A login with parameters that are in order ends with a code, though CAS loses
\* the client_id a few times; unless a call fails, or a reload spends the ticket.
LoginGetsCode ==
    \A b \in Browsers :
        /\ pc[b] = "atCAS" /\ b \notin Faulty /\ service[b].exp # BadExp
        /\ \E c \in clients :
            /\ c.id = service[b].client
            /\ SameOrigin(c.domain, service[b].callback)
            /\ CallbackAllowed(c.domain, service[b].callback)
        ~>
        \/ pc[b] = "done"
        \/ pc[b] = "failed" /\ \E d \in Reloads : request[d].ticket = request[b].ticket

\* store.go:55 "Domain has already been registered.": a domain has one client.
OneClientPerDomain == \A c, e \in clients : c.domain = e.domain => c = e
====
