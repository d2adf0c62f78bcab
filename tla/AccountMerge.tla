---- MODULE AccountMerge ----
(***************************************************************************)
(* The migration that merges CAS shadow accounts into local accounts       *)
(* (src/migrations/20260804_merge_cas_duplicate_users.sql), run beside the *)
(* service: CAS logins and signups as in CASIdentity, and what becomes of  *)
(* a login afterwards, the authorization code it is given, the tokens the  *)
(* code is exchanged for, their refreshes, and the profile an access token *)
(* is answered with (src/handler/oauth, src/pkg/oauth, src/handler/user).  *)
(*                                                                         *)
(* A session begins as a CAS login or as a login with a password; it has   *)
(* one row of oauth2_token, which holds its code or its tokens, and the    *)
(* access token it got last.  The access token is a JWT: its subject is    *)
(* what the row's was when it was made, and no database is asked about it. *)
(* Sessions from before CAS users had local accounts are still refreshed:  *)
(* their subject is "cas:" and a CAS username, here the CAS user.          *)
(*                                                                         *)
(* The database may be restarted at any moment, and the routes guarded by  *)
(* LoginRequiredMiddleware and AdminRequiredMiddleware (src/router) are    *)
(* judged by whom they take the holder of an access token for.             *)
(***************************************************************************)
EXTENDS CASIdentity

CONSTANTS
    Managers,       \* the usernames whose account was given a role that manages clients
    MaxMerges       \* bound: how often the migration is run

ASSUME ManagersAssumption == Managers \subseteq Names
ASSUME MergesAssumption == MaxMerges \in Nat

\* The subject of a CAS user starts with "cas:", that of an account is a number.
ASSUME SubjectsAssumption == Subjects \cap Nat = {}

VARIABLES
    stage,      \* stage[s]: what session s has, or is about to get
    held,       \* held[s]: the account a request of s has read and not written yet, 0 if none
    row,        \* row[s]: UserID in the session's row of oauth2_token, 0 if there is no row
    sub,        \* sub[s]: the subject of the access token, 0 if there is none
    merges,     \* how often the migration was run
    overtaken,  \* the sessions a request of which was overtaken by the migration
    outdated    \* the sessions whose access token is older than the last merge

sessionVars == <<stage, held, row, sub>>
historyVars == <<merges, overtaken, outdated>>
allVars == <<vars, sessionVars, historyVars>>

\* What a token may be about: a local account, or a CAS user.
Subject == Ids \cup Subjects

MergeTypeOK ==
    /\ TypeOK
    /\ stage \in [Logins ->
         {"none", "account", "code", "exchange", "tokens", "refresh", "ended"}]
    /\ held \in [Logins -> Subject \cup {0}]
    /\ row \in [Logins -> Subject \cup {0}]
    /\ sub \in [Logins -> Subject \cup {0}]
    /\ \A s \in Logins :
        /\ stage[s] \in {"account", "exchange", "refresh"} <=> held[s] # 0
        /\ stage[s] \in {"code", "tokens", "refresh"} <=> row[s] # 0
        /\ stage[s] \in {"tokens", "refresh"} <=> sub[s] # 0
    /\ merges \in 0..MaxMerges
    /\ overtaken \subseteq Logins /\ outdated \subseteq Logins

MergeInit ==
    /\ Init
    /\ held = [s \in Logins |-> 0]
    /\ row \in [Logins -> Subjects \cup {0}]
    /\ stage = [s \in Logins |-> IF row[s] = 0 THEN "none" ELSE "tokens"]
    /\ sub = row
    /\ merges = 0 /\ overtaken = {} /\ outdated = {}

-----------------------------------------------------------------------------
(* The migration *)

\* The email of an identity's shadow account, that of the identity first.
MergeEmail(i, shadow) == IF i.email # NoEmail THEN i.email ELSE shadow.email

\* cas_user_merge_candidates, by email and by username, for the shadow account
\* identity i is bound to.
ByEmail(i, shadow) ==
    {t \in users : /\ t.id # shadow.id
                   /\ t.username \notin ShadowNames
                   /\ MergeEmail(i, shadow) # NoEmail
                   /\ t.email = MergeEmail(i, shadow)}

\* Mutant: any local account will do.
AnyLocal(i, shadow) == {t \in users : t.id # shadow.id /\ t.username \notin ShadowNames}

ByUsername(i, shadow) ==
    {t \in users : /\ t.id # shadow.id
                   /\ t.username \notin ShadowNames
                   /\ t.username = i.provider_subject}
Candidates(i, shadow) ==
    IF ByEmail(i, shadow) # {} THEN ByEmail(i, shadow) ELSE ByUsername(i, shadow)

\* cas_user_merge_pairs: the identities with exactly one best candidate.
Pairs ==
    {p \in [identity : identities, shadow : users, target : users] :
        /\ p.shadow.id = p.identity.user_id
        /\ p.shadow.username \in ShadowNames
        /\ Candidates(p.identity, p.shadow) = {p.target}}

\* The account id becomes; itself when it is not merged.  A shadow account has
\* one identity, so it is merged into one account.
MergedId(id) ==
    IF \E p \in Pairs : p.shadow.id = id
    THEN (CHOOSE p \in Pairs : p.shadow.id = id).target.id
    ELSE id

\* An account without an email gets that of the account merged into it, of which
\* there is one, since it was matched by its username; its info stays, since that
\* of a shadow account is not taken over.  Signup requires an email, so no account
\* the service has made is filled in: only one that came into the table otherwise.
FilledUser(u) ==
    LET merged == {p \in Pairs : p.target = u}
    IN  IF u.email = NoEmail /\ merged # {}
        THEN [u EXCEPT !.email = (CHOOSE p \in merged : TRUE).shadow.email]
        ELSE u

Rebound(i) ==
    IF \E p \in Pairs : p.identity = i THEN [i EXCEPT !.user_id = MergedId(i.user_id)] ELSE i

\* Mutant: the shadow accounts stay.
NoneLeftover == {}

\* The merged shadow accounts that no identity is bound to any more.
Leftover ==
    {u \in users : /\ \E p \in Pairs : p.shadow = u
                   /\ \A i \in identities : Rebound(i).user_id # u.id}

\* A request of s has read an account and not written it to oauth2_token yet.
InFlight(s) == held[s] # 0 \/ (pc[s] = "ok" /\ stage[s] = "none")

\* Mutant: the rows of oauth2_token are not rewritten.
KeptRow(id) == id

\* The UserID the migration writes into a row of oauth2_token.
RewrittenRow(id) == MergedId(id)

\* The whole migration, one transaction, which locks every row it scans: it waits
\* for those that other transactions have inserted, and theirs wait for it.
Merge ==
    /\ merges < MaxMerges
    /\ \A l \in Logins : txUsers[l] = {} /\ txIdentities[l] = {}
    /\ users' = {FilledUser(u) : u \in users \ Leftover}
    /\ identities' = {Rebound(i) : i \in identities}
    /\ row' = [s \in Logins |-> RewrittenRow(row[s])]
    /\ merges' = merges + 1
    /\ overtaken' = overtaken \cup {s \in Logins : InFlight(s)}
    /\ outdated' = {s \in Logins : sub[s] # 0}
    /\ UNCHANGED <<nextId, txUsers, txIdentities, loginVars, signupVars, stage, held, sub>>

\* Mutant: the counter of users.id is made again from the table, as MySQL does
\* before version 8.
RecomputedId == IF users = {} THEN 1 ELSE 1 + CHOOSE n \in Ids :
    (\E u \in users : u.id = n) /\ \A u \in users : u.id <= n

\* What a restart leaves of the AUTO_INCREMENT counter of users.id: all of it,
\* since MySQL 8.
SurvivingId == nextId

\* The database restarts: open transactions are rolled back, and the logins they
\* belong to fail on their next statement.
RestartDatabase ==
    /\ txUsers' = [l \in Logins |-> {}]
    /\ txIdentities' = [l \in Logins |-> {}]
    /\ pc' = [l \in Logins |->
            IF pc[l] \in InTransaction THEN "error" ELSE pc[l]]
    /\ nextId' = SurvivingId
    /\ UNCHANGED <<users, identities, subject, email, target, answer,
                   signupVars, sessionVars, historyVars>>

-----------------------------------------------------------------------------
(* The sessions *)

Goto(s, step) == stage' = [stage EXCEPT ![s] = step]

\* Auth: the account is found and the password fits.
Authenticate(s) ==
    /\ pc[s] = "idle" /\ stage[s] = "none"
    /\ \E u \in users : held' = [held EXCEPT ![s] = u.id]
    /\ Goto(s, "account")
    /\ UNCHANGED <<vars, row, sub, historyVars>>

\* GetAuthorizeToken, GenerateAuthorizeCode: a row is made for the account that
\* was read, however long ago.
SaveCode(s) ==
    /\ \/ stage[s] = "account" /\ row' = [row EXCEPT ![s] = held[s]]
       \/ stage[s] = "none" /\ pc[s] = "ok" /\ row' = [row EXCEPT ![s] = answer[s]]
    /\ held' = [held EXCEPT ![s] = 0]
    /\ Goto(s, "code")
    /\ UNCHANGED <<vars, sub, historyVars>>

\* Token: the row of the code is read and removed.
LoadCode(s) ==
    /\ stage[s] = "code"
    /\ held' = [held EXCEPT ![s] = row[s]]
    /\ row' = [row EXCEPT ![s] = 0]
    /\ Goto(s, "exchange")
    /\ UNCHANGED <<vars, sub, historyVars>>

\* Refresh: the row of the refresh token is read.
LoadTokens(s) ==
    /\ stage[s] = "tokens"
    /\ held' = [held EXCEPT ![s] = row[s]]
    /\ Goto(s, "refresh")
    /\ UNCHANGED <<vars, row, sub, historyVars>>

\* Mutant: a refresh signs the subject of the old access token again.
SubjectKept(s) == IF stage[s] = "refresh" THEN sub[s] ELSE held[s]

\* The subject of a new access token.
NewSubject(s) == held[s]

\* The tokens are made for the account that was read, and written to a row that
\* replaces the one read.
SaveTokens(s) ==
    /\ stage[s] \in {"exchange", "refresh"}
    /\ row' = [row EXCEPT ![s] = held[s]]
    /\ sub' = [sub EXCEPT ![s] = NewSubject(s)]
    /\ held' = [held EXCEPT ![s] = 0]
    /\ outdated' = outdated \ {s}
    /\ Goto(s, "tokens")
    /\ UNCHANGED <<vars, merges, overtaken>>

\* Mutant: a code is still good when its exchange failed.
FailRequestKeepingCode(s) ==
    /\ stage[s] \in {"account", "exchange", "refresh"}
    /\ held' = [held EXCEPT ![s] = 0]
    /\ Goto(s, CASE stage[s] = "refresh" -> "tokens" [] stage[s] = "exchange" -> "code"
                  [] OTHER -> "ended")
    /\ UNCHANGED <<vars, row, sub, historyVars>>

\* A request fails: nothing was written, but a code that was read is gone.
FailRequest(s) ==
    /\ stage[s] \in {"account", "exchange", "refresh"}
    /\ held' = [held EXCEPT ![s] = 0]
    /\ Goto(s, IF stage[s] = "refresh" THEN "tokens" ELSE "ended")
    /\ UNCHANGED <<vars, row, sub, historyVars>>

-----------------------------------------------------------------------------

\* CAS logins and signups, by sessions that have not begun otherwise.
Service ==
    /\ Next
    /\ \A s \in Logins : stage[s] # "none" => pc'[s] = pc[s]
    /\ UNCHANGED <<sessionVars, historyVars>>

\* Everything may be over: the system may rest.
MergeNext ==
    \/ Service
    \/ Merge \/ RestartDatabase
    \/ \E s \in Logins :
        \/ Authenticate(s) \/ SaveCode(s) \/ LoadCode(s)
        \/ LoadTokens(s) \/ SaveTokens(s) \/ FailRequest(s)

MergeSpec == MergeInit /\ [][MergeNext]_allVars

-----------------------------------------------------------------------------
(* What an access token is good for *)

\* LoginRequiredMiddleware, through ResolvePrincipalFromToken: the JWT's subject
\* alone says who asks, a local account (0 if none) or a CAS user.
LocalUserID(s) == IF sub[s] \in Ids THEN sub[s] ELSE 0
CASUsername(s) == IF sub[s] \in Subjects THEN {sub[s]} ELSE {}

BuildCASUserInfo(casUsername) == [username |-> casUsername, info |-> CasInfo]
GetUserInfoByID(id) ==
    {[username |-> u.username, info |-> u.info] : u \in {v \in users : v.id = id}}

\* Get: what the profile request of a session's access token may be answered with.
Profile(s) ==
    IF CASUsername(s) # {} THEN {BuildCASUserInfo(c) : c \in CASUsername(s)}
    ELSE GetUserInfoByID(LocalUserID(s))

\* canManageOAuthClients: the role is looked up for every request.
CanManageOAuthClients(u) == u.username \in Managers

\* AdminRequiredMiddleware: a local user id, of an account that is found and has
\* the permission.
AdminAllowed(s) ==
    /\ LocalUserID(s) # 0
    /\ \E u \in users : u.id = LocalUserID(s) /\ CanManageOAuthClients(u)

-----------------------------------------------------------------------------
(* Properties *)

\* The account or CAS user a session of s is about.
Owned(s, id) ==
    IF pc[s] = "ok" THEN id = BindingOf(subject[s])
    ELSE id \in Subjects \/ \E u \in users : u.id = id

\* A session follows its account through merges: unless the migration overtook one
\* of its own requests, its row of oauth2_token names the account its CAS user is
\* bound to now, whatever codes, tokens and refreshes it went through.
RowsFollowAccount ==
    \A s \in Logins \ overtaken : row[s] # 0 => Owned(s, row[s])

\* And so does its access token, once it was refreshed after the merge: the
\* profile request it is sent with finds the account.
RefreshedTokensServed ==
    \A s \in Logins \ (overtaken \cup outdated) : sub[s] # 0 =>
        Owned(s, sub[s]) /\ Profile(s) # {}

\* No access token of a CAS login is ever served as somebody else: as long as it
\* lives, through merges, the deletion of accounts and restarts of the database,
\* the profile it opens is that of the account its CAS user is bound to now, and
\* the administrators' routes let it through only if that account manages clients.
ServedAsOwner ==
    \A s \in Logins : pc[s] = "ok" /\ sub[s] \in Ids =>
        /\ Profile(s) # {} => sub[s] = BindingOf(subject[s])
        /\ AdminAllowed(s) => \E u \in users :
                u.id = BindingOf(subject[s]) /\ CanManageOAuthClients(u)
====
