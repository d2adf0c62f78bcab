---- MODULE OAuthURLs ----
(***************************************************************************)
(* The rules on the domains of OAuth clients and on the callback_url of a  *)
(* login (src/service/oauth.go), and the search for the client that owns a *)
(* callback_url (src/service/cas_oauth.go).  A URL is a record of the      *)
(* parts the rules look at.                                                *)
(***************************************************************************)
EXTENDS Naturals, Sequences

CONSTANTS
    Hosts,      \* host names as they may be written
    LowerCase,  \* LowerCase[h]: strings.ToLower(h)
    Public,     \* the lower-case names that are fully qualified: no wildcard, no localhost, no IP
    NoPort      \* the port of a URL that names none

ASSUME HostsAssumption ==
    /\ LowerCase \in [Hosts -> Hosts]
    /\ \A h \in Hosts : LowerCase[LowerCase[h]] = LowerCase[h]
    /\ Public \subseteq {LowerCase[h] : h \in Hosts}

ASSUME PortAssumption == NoPort \notin Nat

ValidPort == 1..65535
Port == ValidPort \cup {NoPort}

\* What a client is registered and looked up by: a host and its port, as written.
HostPort == [host : Hosts, port : Port]

\* parseOAuthURL lets the URL through.  A port that is out of range, and all that
\* url.Parse refuses, counts as a host that is not public.
Accepted(u) ==
    /\ u.scheme = "https"
    /\ ~u.userInfo
    /\ LowerCase[u.host] \in Public

\* The Host that parseOAuthURL leaves in the URL.  The port stays, 443 too.
Origin(u) == [host |-> LowerCase[u.host], port |-> u.port]

\* NormalizeOAuthClientDomain succeeds; OAuthClientDomainLookupKey is then Origin.
ValidDomain(u) == Accepted(u) /\ ~u.path /\ ~u.query /\ ~u.fragment

\* ValidateOAuthCallbackURLForDomain, for a domain that was normalised when stored.
CallbackAllowed(domain, u) == Accepted(u) /\ ~u.fragment /\ Origin(u) = domain

DefaultPort(u) ==
    \/ u.scheme = "https" /\ u.port = 443
    \/ u.scheme = "http" /\ u.port = 80

\* Mutant: the host is looked up as it is written only.
CandidatesAsWritten(u) ==
    << [host |-> u.host, port |-> u.port] >>
    \o IF DefaultPort(u) THEN << [host |-> u.host, port |-> NoPort] >> ELSE <<>>

\* callbackDomainCandidates.
Candidates(u) ==
    << [host |-> u.host, port |-> u.port], [host |-> LowerCase[u.host], port |-> u.port] >>
    \o IF DefaultPort(u)
       THEN << [host |-> u.host, port |-> NoPort], [host |-> LowerCase[u.host], port |-> NoPort] >>
       ELSE <<>>

\* GetByDomain: the clients of a domain, any of which the client store may return.
ByDomain(clients, domain) == {c \in clients : c.domain = domain}

\* The clients the search may stop at: those of the first candidate that has any.
FirstFound(clients, u) ==
    {c \in clients : \E i \in 1..Len(Candidates(u)) :
        /\ c.domain = Candidates(u)[i]
        /\ \A j \in 1..(i - 1) : ByDomain(clients, Candidates(u)[j]) = {}}

\* resolveClientInfoByCallbackURL: the clients it may return; with none it fails.
ClientsOf(clients, u) == {c \in FirstFound(clients, u) : CallbackAllowed(c.domain, u)}
====
