---- MODULE MCCASCallback ----
(* Instances of CASCallback for TLC. *)
EXTENDS CASCallback

CONSTANTS ann, bob, app

MCUserOf == [b \in Browsers |-> b]

\* "forum.com" may be written "Forum.com"; "localhost" is not public.
MCLower == [h \in Hosts |-> IF h = "Forum.com" THEN "forum.com" ELSE h]

URL(scheme, host, port) ==
    [scheme |-> scheme, userInfo |-> FALSE, host |-> host, port |-> port,
     path |-> FALSE, query |-> FALSE, fragment |-> FALSE]
Page(scheme, host, port) == [URL(scheme, host, port) EXCEPT !.path = TRUE]

Forum == [host |-> "forum.com", port |-> NoPort]
MCRegistered == {[id |-> app, domain |-> Forum]}

\* The domain that has a client, and one that has none.
MCDomains == {URL("https", "Forum.com", NoPort), URL("https", "shop.com", 443)}

Sent(client, callback, exp) == [client |-> client, callback |-> callback, exp |-> exp]

\* Logins that are in order, for the old client and for one being registered; with
\* the client's page at the default port; and of one client with another's page, which
\* goes on when CAS loses the client_id, until its token_exp turns out to be no number.
MCServices == {
    Sent(app, Page("https", "Forum.com", NoPort), 7),
    Sent("a1", Page("https", "shop.com", 443), None),
    Sent(app, Page("https", "forum.com", 443), None),
    Sent(app, Page("https", "shop.com", 443), BadExp)}
====
