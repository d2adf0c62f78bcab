---- MODULE SigninToken ----
(***************************************************************************)
(* The token of a sign-in (UserSignin, src/handler/signin/signin.go): an   *)
(* encrypted record of the account's id and an expiry (src/pkg/auth),      *)
(* which CheckToken (src/handler/check/token.go) decrypts and compares     *)
(* with the account of the email it is given.  The encryption is taken to  *)
(* be sound; two accounts may have one email (CASIdentity).                *)
(***************************************************************************)
EXTENDS Naturals

CONSTANTS
    Signins,    \* sign-ins
    Checks,     \* requests to check a token
    Ids,        \* accounts
    Emails,     \* their emails
    None,       \* no token
    Second,     \* nanoseconds in a second
    Week,       \* seconds in seven days
    MaxTime     \* bound: the last second looked at

VARIABLES
    now,        \* the clock, in seconds
    email,      \* email[u]: the email of account u
    token,      \* token[s]: the token sign-in s was answered with, None before that
    made,       \* made[s]: when that was
    verdict,    \* verdict[c]: the answer of check c, None before that
    age         \* age[c]: how old the token it was given was then

vars == <<now, email, token, made, verdict, age>>

Init ==
    /\ now = 0
    /\ email \in [Ids -> Emails]
    /\ token = [s \in Signins |-> None] /\ made = [s \in Signins |-> 0]
    /\ verdict = [c \in Checks |-> None] /\ age = [c \in Checks |-> 0]

\* The payload's Expire, a time.Duration: the number 7 * 60 * 60 * 24, which the
\* type takes for nanoseconds.
Expire == Week

\* GenerateToken: Expire in whole seconds from now.
GenerateToken(id) == [id |-> id, expired |-> now + Expire \div Second]

\* The account is found and the password fits; or the sign-in is refused, and
\* nothing comes of it.
UserSignin(s) ==
    /\ token[s] = None
    /\ \E u \in Ids : token' = [token EXCEPT ![s] = GenerateToken(u)]
    /\ made' = [made EXCEPT ![s] = now]
    /\ UNCHANGED <<now, email, verdict, age>>

\* ResolveToken: the record as it was made; its expiry is not looked at.
ResolveToken(s) == token[s]

\* The token is resolved, the first account of the email read, and the ids are
\* compared.
CheckToken(c) ==
    /\ verdict[c] = None
    /\ \E s \in Signins, e \in Emails :
        /\ token[s] # None
        /\ age' = [age EXCEPT ![c] = now - made[s]]
        /\ \/ \E u \in Ids :
                /\ email[u] = e /\ \A v \in Ids : email[v] = e => u <= v
                /\ verdict' = [verdict EXCEPT ![c] =
                     IF ResolveToken(s).id = u THEN "OK" ELSE "TokenInvalid"]
           \/ /\ \A u \in Ids : email[u] # e
              /\ verdict' = [verdict EXCEPT ![c] = "UserNotFound"]
    /\ UNCHANGED <<now, email, token, made>>

Tick ==
    /\ now < MaxTime
    /\ now' = now + 1
    /\ UNCHANGED <<email, token, made, verdict, age>>

\* No further sign-ins or checks: the system may rest.
Next ==
    \/ \E s \in Signins : UserSignin(s)
    \/ \E c \in Checks : CheckToken(c)
    \/ Tick

Spec == Init /\ [][Next]_vars

-----------------------------------------------------------------------------
(* Properties *)

\* signin.go:50 "valid for seven days": a check that answers OK was given a token
\* that is no older than that.
ValidSevenDays == \A c \in Checks : verdict[c] = "OK" => age[c] <= Week
====
