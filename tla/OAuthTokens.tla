---- MODULE OAuthTokens ----
(***************************************************************************)
(* How long a login lasts: the authorization code a login is given (Auth,  *)
(* src/handler/oauth/auth.go, and the CAS callback), its exchange for an   *)
(* access token and a refresh token, and the refreshes of these, on a      *)
(* clock.  Requests run concurrently; each is a few calls of the store,    *)
(* between which time passes and other requests run, and every call may    *)
(* fail, with or without effect.                                           *)
(*                                                                         *)
(* A client may ask for a lifetime of its access tokens (token_exp, in     *)
(* seconds).  The service turns it into a time.Duration, nanoseconds in a  *)
(* signed machine word; a product that does not fit wraps around.          *)
(*                                                                         *)
(* The manager and the store of tokens are libraries: what is modelled is  *)
(* what pkg/oauth/server.go configures and the handlers rely on.  The      *)
(* store's own removal of expired rows is left out, since an expired row   *)
(* is refused anyway.                                                      *)
(***************************************************************************)
EXTENDS Integers

CONSTANTS
    PasswordLogins, \* logins with a password (Auth)
    CASLogins,      \* logins through CAS
    Exchanges,      \* requests to exchange a code (Token)
    Refreshes,      \* requests to refresh (Refresh)
    TokenExps,      \* the values of token_exp
    Absent,         \* no token_exp
    BadExp,         \* a token_exp that is no number of the width of a word
    Second,         \* nanoseconds in a second
    MaxInt,         \* the largest signed word
    CodeExp, AccessExp, RefreshExp,     \* the lifetimes configured, in seconds
    None,           \* no row
    MaxTime         \* bound: the last second looked at

Logins == PasswordLogins \cup CASLogins
Word == (-MaxInt - 1)..MaxInt
Number(raw) == raw \notin {Absent, BadExp}

ASSUME LoginsAssumption == PasswordLogins \cap CASLogins = {}
ASSUME RequestsAssumption == Exchanges \cap Refreshes = {}
ASSUME WordAssumption ==
    /\ Second \in Nat \ {0} /\ MaxInt \in Nat
    /\ \A raw \in TokenExps : Number(raw) => raw \in Word
ASSUME LifetimesAssumption ==
    /\ CodeExp \in Nat /\ RefreshExp \in Nat /\ MaxTime \in Nat
    /\ AccessExp \in Nat \ {0} /\ AccessExp * Second <= MaxInt

VARIABLES
    now,        \* the clock, in seconds
    asked,      \* asked[l]: the token_exp of login l, None before it was given a code
    code,       \* code[l]: the row of its authorization code, None if there is none
    pc,         \* pc[q]: where the exchange or refresh q is
    source,     \* source[q]: the login whose code, or the request whose tokens, q has read
    read,       \* read[q]: the row it has read
    token,      \* token[q]: the tokens made by q, None if there are none
    stored      \* the requests whose refresh token is in the store

loginVars == <<asked, code>>
requestVars == <<pc, source, read>>
vars == <<now, loginVars, requestVars, token, stored>>

Requests == Exchanges \cup Refreshes
Time == 0..MaxTime
CodeRow == [made : Time, life : Word]
TokenRow == [login : Logins, made : Time, refreshMade : Time, life : 1..MaxInt,
             exp : Nat]

\* The marker of a row that is not there is no row, no request and no token_exp.
ASSUME NoneAssumption == None \notin TokenExps \cup Logins \cup CodeRow \cup TokenRow

TypeOK ==
    /\ now \in Time
    /\ asked \in [Logins -> TokenExps \cup {None}]
    /\ code \in [Logins -> CodeRow \cup {None}]
    /\ pc \in [Requests -> {"idle", "loaded", "removed", "saved", "ok", "failed"}]
    /\ source \in [Requests -> Logins \cup Requests \cup {None}]
    /\ read \in [Requests -> CodeRow \cup TokenRow \cup {None}]
    /\ token \in [Requests -> TokenRow \cup {None}]
    /\ stored \subseteq {q \in Requests : token[q] # None}

Init ==
    /\ now = 0
    /\ asked = [l \in Logins |-> None]
    /\ code = [l \in Logins |-> None]
    /\ pc = [q \in Requests |-> "idle"]
    /\ source = [q \in Requests |-> None]
    /\ read = [q \in Requests |-> None]
    /\ token = [q \in Requests |-> None]
    /\ stored = {}

-----------------------------------------------------------------------------
(* Lifetimes *)

\* The word an integer is cut down to.
Wrap(n) == ((n + MaxInt + 1) % (2 * (MaxInt + 1))) - (MaxInt + 1)

\* time.Duration(exp) * time.Second.
Duration(seconds) == Wrap(seconds * Second)

\* Auth: a token_exp that is no number is passed over; any other is multiplied.
PasswordExp(raw) == IF Number(raw) THEN Duration(raw) ELSE 0

\* Mutant: the seconds are taken for a time.Duration.
CASExpPlain(raw) == IF Number(raw) /\ raw > 0 THEN raw ELSE 0

\* parseOptionalTokenExp, of a raw value that is not refused.
CASExp(raw) == IF Number(raw) /\ raw > 0 THEN Duration(raw) ELSE 0

\* Mutant: the manager takes any lifetime but 0.
LifeUnchecked(exp) == IF exp # 0 THEN exp ELSE AccessExp * Second

\* The lifetime of an access token: the manager takes one that is positive, and
\* the one it was configured with otherwise.
Life(exp) == IF exp > 0 THEN exp ELSE AccessExp * Second

\* The "exp" claim of an access token made now, in whole seconds.
ExpClaim(life) == now + life \div Second

-----------------------------------------------------------------------------
(* Logins *)

\* GetAuthorizeToken: the row of a new code, with the lifetime asked for.  A login
\* that fails leaves nothing behind here.
SaveCode(l, raw, life) ==
    /\ asked' = [asked EXCEPT ![l] = raw]
    /\ code' = [code EXCEPT ![l] = [made |-> now, life |-> life]]
    /\ UNCHANGED <<now, requestVars, token, stored>>

PasswordLogin(l) ==
    /\ asked[l] = None
    /\ \E raw \in TokenExps : SaveCode(l, raw, PasswordExp(raw))

\* A login through CAS whose token_exp is no number is refused.
CASLogin(l) ==
    /\ asked[l] = None
    /\ \E raw \in TokenExps \ {BadExp} : SaveCode(l, raw, CASExp(raw))

-----------------------------------------------------------------------------
(* Token: the exchange of a code *)

Goto(q, step) == pc' = [pc EXCEPT ![q] = step]

CodeGood(l) == code[l] # None /\ now <= code[l].made + CodeExp

\* The manager reads the row of the code, and refuses a code that is not there
\* or has expired.
LoadCode(x) ==
    /\ pc[x] = "idle"
    /\ \E l \in Logins :
        /\ asked[l] # None
        /\ source' = [source EXCEPT ![x] = l]
        /\ \/ /\ CodeGood(l)
              /\ read' = [read EXCEPT ![x] = code[l]]
              /\ Goto(x, "loaded")
           \/ /\ ~CodeGood(l)
              /\ Goto(x, "failed")
              /\ UNCHANGED read
    /\ UNCHANGED <<now, loginVars, token, stored>>

\* Mutant: the code stays.
KeepCode(x) ==
    /\ pc[x] = "loaded" /\ x \in Exchanges
    /\ Goto(x, "removed")
    /\ UNCHANGED <<now, loginVars, source, read, token, stored>>

\* It removes the row, which another exchange may have done by now.
RemoveCode(x) ==
    /\ pc[x] = "loaded" /\ x \in Exchanges
    /\ code' = [code EXCEPT ![source[x]] = None]
    /\ \E p \in {"removed", "failed"} : Goto(x, p)
    /\ UNCHANGED <<now, asked, source, read, token, stored>>

\* And stores a new access token and refresh token.
SaveGrant(x) ==
    /\ pc[x] = "removed"
    /\ LET life == Life(read[x].life)
       IN  token' = [token EXCEPT ![x] =
             [login |-> source[x], made |-> now, refreshMade |-> now, life |-> life,
              exp |-> ExpClaim(life)]]
    /\ stored' = stored \cup {x}
    /\ \E p \in {"ok", "failed"} : Goto(x, p)
    /\ UNCHANGED <<now, loginVars, source, read>>

-----------------------------------------------------------------------------
(* Refresh *)

RefreshGood(t) == t \in stored /\ now <= token[t].refreshMade + RefreshExp

\* Mutant: the refresh token is removed as it is read.
LoadAndRemoveRefresh(r) ==
    /\ pc[r] = "idle"
    /\ \E t \in Requests :
        /\ pc[t] = "ok" /\ RefreshGood(t)
        /\ source' = [source EXCEPT ![r] = t]
        /\ read' = [read EXCEPT ![r] = token[t]]
        /\ stored' = stored \ {t}
    /\ Goto(r, "loaded")
    /\ UNCHANGED <<now, loginVars, token>>

\* The manager reads the row of a refresh token a client was answered with, and
\* refuses one that was replaced or has expired.
LoadRefresh(r) ==
    /\ pc[r] = "idle"
    /\ \E t \in Requests :
        /\ pc[t] = "ok"
        /\ source' = [source EXCEPT ![r] = t]
        /\ \/ /\ RefreshGood(t)
              /\ read' = [read EXCEPT ![r] = token[t]]
              /\ Goto(r, "loaded")
           \/ /\ ~RefreshGood(t)
              /\ Goto(r, "failed")
              /\ UNCHANGED read
    /\ UNCHANGED <<now, loginVars, token, stored>>

\* Mutant: a refresh starts the life of the refresh token anew.
RefreshedAnew(row) == [row EXCEPT !.made = now, !.refreshMade = now, !.exp = ExpClaim(row.life)]

\* The row of the new tokens: the lifetime asked for at the login, and the time
\* from which the refresh token's is counted, are those of the row that was read.
Refreshed(row) == [row EXCEPT !.made = now, !.exp = ExpClaim(row.life)]

\* It stores new tokens for the same login first ...
SaveRefreshed(r) ==
    /\ pc[r] = "loaded" /\ r \in Refreshes
    /\ token' = [token EXCEPT ![r] = Refreshed(read[r])]
    /\ stored' = stored \cup {r}
    /\ \E p \in {"saved", "failed"} : Goto(r, p)
    /\ UNCHANGED <<now, loginVars, source, read>>

\* ... and removes the refresh token they replace.
RemoveRefresh(r) ==
    /\ pc[r] = "saved"
    /\ stored' = stored \ {source[r]}
    /\ \E p \in {"ok", "failed"} : Goto(r, p)
    /\ UNCHANGED <<now, loginVars, source, read, token>>

-----------------------------------------------------------------------------

\* A call of the store fails without effect, and the request with it.
Fail(q) ==
    /\ pc[q] \in {"loaded", "removed", "saved"}
    /\ Goto(q, "failed")
    /\ UNCHANGED <<now, loginVars, source, read, token, stored>>

\* Time passes between any two steps.
Tick ==
    /\ now < MaxTime
    /\ now' = now + 1
    /\ UNCHANGED <<loginVars, requestVars, token, stored>>

\* All requests may be over: the system may rest.
Next ==
    \/ \E l \in PasswordLogins : PasswordLogin(l)
    \/ \E l \in CASLogins : CASLogin(l)
    \/ \E x \in Exchanges : LoadCode(x) \/ RemoveCode(x) \/ SaveGrant(x)
    \/ \E r \in Refreshes : LoadRefresh(r) \/ SaveRefreshed(r) \/ RemoveRefresh(r)
    \/ \E q \in Requests : Fail(q)
    \/ Tick

Spec == Init /\ [][Next]_vars

-----------------------------------------------------------------------------
(* Properties *)

\* The seconds a login asks its access tokens to live: token_exp if that is a
\* positive number, and what is configured otherwise.
AskedSeconds(raw) == IF Number(raw) /\ raw > 0 THEN raw ELSE AccessExp

\* The lifetime can be written in nanoseconds.
Fits(raw) == Number(raw) => raw * Second \in Word

\* Every access token of a login, the first one and those of all refreshes, is
\* good for as long as the login asked (README.md:114, api.yaml:288), whichever
\* of the two ways of logging in it took; except where the nanoseconds overflow.
LifetimeAsAsked ==
    \A q \in Requests : token[q] # None /\ Fits(asked[token[q].login]) =>
        token[q].exp = token[q].made + AskedSeconds(asked[token[q].login])

\* A login ends: however often it was refreshed, no refresh is granted once
\* refreshTokenExp has passed since the code was exchanged.
SessionEnds ==
    [][\A r \in Refreshes : pc[r] = "idle" /\ pc'[r] = "loaded" =>
        \E x \in Exchanges :
            /\ token[x] # None /\ token[x].login = read'[r].login
            /\ now <= token[x].made + RefreshExp]_vars

\* A refresh that fails costs the client nothing: the refresh token it was
\* answered with stays good until tokens that replace it are in the store, however
\* refreshes of it interleave and wherever they break off.
FailedRefreshCostsNothing ==
    \A t \in Requests : pc[t] = "ok" /\ t \notin stored =>
        \E r \in Refreshes : source[r] = t /\ token[r] # None

\* A code is good once: an exchange that reads it never comes after one of the
\* same code that succeeded.  Two that overlap may both succeed.
CodeGoodOnce ==
    [][\A x, y \in Exchanges :
        pc[x] = "idle" /\ pc'[x] = "loaded" /\ source'[x] = source[y] => pc[y] # "ok"]_vars
====
