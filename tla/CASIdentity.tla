---- MODULE CASIdentity ----
(***************************************************************************)
(* The CAS user resolver (ResolveCASUser, src/service/cas_identity.go) and *)
(* the signup handler (UserSignup, src/handler/signup/signup.go), running  *)
(* concurrently over the tables users and user_identities of src/db.sql.   *)
(*                                                                         *)
(* A login is one call of the resolver, a signup one request.  Each        *)
(* database statement is a step.  A login reads user_identities on its own *)
(* (autocommit), then works in a transaction, which MySQL runs at          *)
(* REPEATABLE READ: its snapshot is fixed by its first SELECT, its rows    *)
(* stay its own until it commits, and an insert whose unique key another   *)
(* open transaction has inserted waits for that transaction to end.  The   *)
(* process may die or the database fail at each step; MySQL then rolls     *)
(* back what was not committed.                                            *)
(***************************************************************************)
EXTENDS Naturals

CONSTANTS
    Logins,         \* calls of ResolveCASUser
    Signups,        \* signup requests
    Names,          \* usernames
    Subjects,       \* CAS usernames, names themselves
    ShadowNames,    \* usernames that start with "cas_"
    ShadowOf,       \* ShadowOf[s]: BuildCASLocalUsername(s)
    Emails,         \* email addresses
    NoEmail,        \* the email of a CAS user who has no email attribute
    Blank,          \* a CAS username that is empty once trimmed
    MaxId,          \* the largest id the auto-increment column holds
    ReadErrors      \* the signups whose existence reads may fail

\* ShadowOf need not be injective: the suffix is 8 hex digits of a hash.
ASSUME NamesAssumption ==
    /\ Subjects \subseteq Names
    /\ ShadowNames \subseteq Names
    /\ ShadowOf \in [Subjects -> ShadowNames]
    /\ Blank \notin Names
    /\ NoEmail \notin Emails

ASSUME BoundsAssumption == MaxId \in Nat /\ ReadErrors \subseteq Signups

VARIABLES
    \* the database
    users,          \* the committed rows of users
    identities,     \* the committed rows of user_identities
    nextId,         \* the next auto-increment value of users
    txUsers,        \* txUsers[l]: the rows of users login l has not committed
    txIdentities,   \* txIdentities[l]: likewise of user_identities
    \* the logins
    pc,             \* pc[l]: the statement login l is about to run, or its end
    subject,        \* subject[l]: the trimmed CAS username
    email,          \* email[l]: the trimmed email attribute
    target,         \* target[l]: the account found or created, 0 before that
    answer,         \* answer[l]: the id returned, 0 when none was
    \* the signups
    form,           \* form[p]: the username and email of the request
    phase,          \* phase[p]: where the handler is
    cleared         \* cleared[p]: the existence reads that came back negative

dbVars == <<users, identities, nextId, txUsers, txIdentities>>
loginVars == <<pc, subject, email, target, answer>>
signupVars == <<form, phase, cleared>>
vars == <<dbVars, loginVars, signupVars>>

Ids == 1..MaxId
CasInfo == "cas authenticated user"
MaybeEmail == Emails \cup {NoEmail}
Column == {"email", "username"}

User == [id : Ids, username : Names, email : MaybeEmail, info : {"", CasInfo}]
UserIdentity == [user_id : Ids, provider_subject : Subjects, email : MaybeEmail]
Form == [username : Names, email : Emails]

\* The statements of a transaction, and the ends of a login.
InTransaction == {"find", "createUser", "createIdentity", "commit"}
Working == {"lookup"} \cup InTransaction
Answered == {"ok", "error"}
Closed == {"created", "existed", "failed"}

TypeOK ==
    /\ users \subseteq User
    /\ identities \subseteq UserIdentity
    /\ nextId \in 1..(MaxId + 1)
    /\ txUsers \in [Logins -> SUBSET User]
    /\ txIdentities \in [Logins -> SUBSET UserIdentity]
    /\ pc \in [Logins -> {"idle"} \cup Working \cup Answered]
    /\ subject \in [Logins -> Subjects \cup {Blank}]
    /\ email \in [Logins -> MaybeEmail]
    /\ target \in [Logins -> Ids \cup {0}]
    /\ answer \in [Logins -> Ids \cup {0}]
    /\ form \in [Signups -> Form \cup {Blank}]
    /\ phase \in [Signups -> {"idle", "checking", "create"} \cup Closed]
    /\ cleared \in [Signups -> SUBSET Column]
    /\ \A p \in Signups : phase[p] # "idle" => form[p] \in Form

Init ==
    /\ users = {} /\ identities = {} /\ nextId = 1
    /\ txUsers = [l \in Logins |-> {}]
    /\ txIdentities = [l \in Logins |-> {}]
    /\ pc = [l \in Logins |-> "idle"]
    /\ subject = [l \in Logins |-> Blank]
    /\ email = [l \in Logins |-> NoEmail]
    /\ target = [l \in Logins |-> 0]
    /\ answer = [l \in Logins |-> 0]
    /\ form = [p \in Signups |-> Blank]
    /\ phase = [p \in Signups |-> "idle"]
    /\ cleared = [p \in Signups |-> {}]

-----------------------------------------------------------------------------
(* Unique keys and the waiting they cause *)

UsernameTaken(n) == \E u \in users : u.username = n
SubjectTaken(s) == \E i \in identities : i.provider_subject = s

\* Another open transaction has inserted the key: an insert of it waits.
UsernameLocked(n, others) == \E m \in others : \E u \in txUsers[m] : u.username = n
SubjectLocked(s, others) ==
    \E m \in others : \E i \in txIdentities[m] : i.provider_subject = s

-----------------------------------------------------------------------------
(* The resolver *)

\* Mutant: an error path that returns without tx.Rollback().
ReturnWithoutRollback(l) ==
    /\ pc' = [pc EXCEPT ![l] = "error"]
    /\ UNCHANGED <<dbVars, subject, email, target, answer>>

\* Ends the transaction with nothing kept, and the call with an error.
Rollback(l) ==
    /\ txUsers' = [txUsers EXCEPT ![l] = {}]
    /\ txIdentities' = [txIdentities EXCEPT ![l] = {}]
    /\ pc' = [pc EXCEPT ![l] = "error"]
    /\ UNCHANGED <<users, identities, nextId, subject, email, target, answer>>

\* Makes the transaction's rows visible to every later read.
Publish(l) ==
    /\ users' = users \cup txUsers[l]
    /\ identities' = identities \cup txIdentities[l]
    /\ txUsers' = [txUsers EXCEPT ![l] = {}]
    /\ txIdentities' = [txIdentities EXCEPT ![l] = {}]
    /\ UNCHANGED nextId

Return(l, id) ==
    /\ pc' = [pc EXCEPT ![l] = "ok"]
    /\ answer' = [answer EXCEPT ![l] = id]
    /\ UNCHANGED <<subject, email, target>>

Arrive(l) ==
    /\ pc[l] = "idle"
    /\ \E s \in Subjects \cup {Blank}, e \in MaybeEmail :
        /\ subject' = [subject EXCEPT ![l] = s]
        /\ email' = [email EXCEPT ![l] = e]
        /\ pc' = [pc EXCEPT ![l] = IF s = Blank THEN "error" ELSE "lookup"]
    /\ UNCHANGED <<dbVars, target, answer, signupVars>>

\* GetUserIdentity, outside any transaction: the binding, when there is one,
\* is the answer; otherwise the transaction begins.
LookupIdentity(l) ==
    /\ pc[l] = "lookup"
    /\ \/ \E i \in identities :
            /\ i.provider_subject = subject[l]
            /\ Return(l, i.user_id)
       \/ /\ ~SubjectTaken(subject[l])
          /\ pc' = [pc EXCEPT ![l] = "find"]
          /\ UNCHANGED <<subject, email, target, answer>>
    /\ UNCHANGED <<dbVars, signupVars>>

\* The accounts a CAS user may be given: those of the same email that are not
\* shadow accounts or, failing that, the one of the same username.
SameEmail(e) ==
    {u \in users : e # NoEmail /\ u.email = e /\ u.username \notin ShadowNames}
SameUsername(s) == {u \in users : u.username = s /\ u.username \notin ShadowNames}
LocalUsers(s, e) == IF SameEmail(e) # {} THEN SameEmail(e) ELSE SameUsername(s)

\* findExistingLocalUserForCAS: its two SELECTs read the same snapshot, taken
\* by the first of them, so they are one step.
FindLocalUser(l) ==
    /\ pc[l] = "find"
    /\ \/ \E u \in LocalUsers(subject[l], email[l]) :
            /\ \A v \in LocalUsers(subject[l], email[l]) : u.id <= v.id
            /\ target' = [target EXCEPT ![l] = u.id]
            /\ pc' = [pc EXCEPT ![l] = "createIdentity"]
       \/ /\ LocalUsers(subject[l], email[l]) = {}
          /\ pc' = [pc EXCEPT ![l] = "createUser"]
          /\ UNCHANGED target
    /\ UNCHANGED <<dbVars, subject, email, answer, signupVars>>

ShadowUser(l) ==
    [id |-> nextId, username |-> ShadowOf[subject[l]], email |-> email[l], info |-> CasInfo]

\* Mutant: the user is created on the connection pool, not on the transaction.
CreateUserOutsideTransaction(l) ==
    /\ pc[l] = "createUser"
    /\ ~UsernameTaken(ShadowOf[subject[l]]) /\ nextId <= MaxId
    /\ users' = users \cup {ShadowUser(l)}
    /\ nextId' = nextId + 1
    /\ target' = [target EXCEPT ![l] = nextId]
    /\ pc' = [pc EXCEPT ![l] = "createIdentity"]
    /\ UNCHANGED <<identities, txUsers, txIdentities, subject, email, answer, signupVars>>

\* Mutant: a username that is taken is no error: the shadow account of that name
\* is used instead of a new one.
CreateUserReusing(l) ==
    /\ pc[l] = "createUser"
    /\ ~UsernameLocked(ShadowOf[subject[l]], Logins \ {l})
    /\ \/ /\ \E u \in users :
                /\ u.username = ShadowOf[subject[l]] /\ u.info = CasInfo
                /\ target' = [target EXCEPT ![l] = u.id]
          /\ UNCHANGED <<txUsers, nextId>>
       \/ /\ ~UsernameTaken(ShadowOf[subject[l]]) /\ nextId <= MaxId
          /\ target' = [target EXCEPT ![l] = nextId]
          /\ txUsers' = [txUsers EXCEPT ![l] = @ \cup {ShadowUser(l)}]
          /\ nextId' = nextId + 1
    /\ pc' = [pc EXCEPT ![l] = "createIdentity"]
    /\ UNCHANGED <<users, identities, txIdentities, subject, email, answer, signupVars>>

\* Waits while another transaction holds the username; a username that is
\* taken, or a column that is full, ends the call.
CreateUser(l) ==
    /\ pc[l] = "createUser"
    /\ ~UsernameLocked(ShadowOf[subject[l]], Logins \ {l})
    /\ \/ /\ UsernameTaken(ShadowOf[subject[l]]) \/ nextId > MaxId
          /\ Rollback(l)
       \/ /\ ~UsernameTaken(ShadowOf[subject[l]])
          /\ nextId <= MaxId
          /\ txUsers' = [txUsers EXCEPT ![l] = @ \cup {ShadowUser(l)}]
          /\ nextId' = nextId + 1
          /\ target' = [target EXCEPT ![l] = nextId]
          /\ pc' = [pc EXCEPT ![l] = "createIdentity"]
          /\ UNCHANGED <<users, identities, txIdentities, subject, email, answer>>
    /\ UNCHANGED signupVars

\* Mutant: ProviderSubject and Email exchanged.
IdentityRowSwapped(l) ==
    [user_id |-> target[l], provider_subject |-> email[l], email |-> subject[l]]

IdentityRow(l) ==
    [user_id |-> target[l], provider_subject |-> subject[l], email |-> email[l]]

\* Mutant: a duplicate identity is ignored, and the call goes on to its commit.
CreateIdentityIgnoringDuplicate(l) ==
    /\ pc[l] = "createIdentity"
    /\ ~SubjectLocked(subject[l], Logins \ {l})
    /\ txIdentities' = [txIdentities EXCEPT
            ![l] = IF SubjectTaken(subject[l]) THEN @ ELSE @ \cup {IdentityRow(l)}]
    /\ pc' = [pc EXCEPT ![l] = "commit"]
    /\ UNCHANGED <<users, identities, nextId, txUsers, subject, email, target, answer, signupVars>>

\* Mutant: the identity is saved over the row the subject already has.
CreateIdentityOverwriting(l) ==
    /\ pc[l] = "createIdentity"
    /\ ~SubjectLocked(subject[l], Logins \ {l})
    /\ identities' = {i \in identities : i.provider_subject # subject[l]}
    /\ txIdentities' = [txIdentities EXCEPT ![l] = @ \cup {IdentityRow(l)}]
    /\ pc' = [pc EXCEPT ![l] = "commit"]
    /\ UNCHANGED <<users, nextId, txUsers, subject, email, target, answer, signupVars>>

\* Waits while another transaction holds the subject; a subject bound since
\* LookupIdentity read the table ends the call.
CreateIdentity(l) ==
    /\ pc[l] = "createIdentity"
    /\ ~SubjectLocked(subject[l], Logins \ {l})
    /\ \/ SubjectTaken(subject[l]) /\ Rollback(l)
       \/ /\ ~SubjectTaken(subject[l])
          /\ txIdentities' = [txIdentities EXCEPT ![l] = @ \cup {IdentityRow(l)}]
          /\ pc' = [pc EXCEPT ![l] = "commit"]
          /\ UNCHANGED <<users, identities, nextId, txUsers, subject, email, target, answer>>
    /\ UNCHANGED signupVars

Commit(l) ==
    /\ pc[l] = "commit"
    /\ Publish(l)
    /\ Return(l, target[l])
    /\ UNCHANGED signupVars

\* The commit took effect, its acknowledgement did not arrive: the error path
\* rolls back a transaction that is over.
CommitUnacknowledged(l) ==
    /\ pc[l] = "commit"
    /\ Publish(l)
    /\ pc' = [pc EXCEPT ![l] = "error"]
    /\ UNCHANGED <<subject, email, target, answer, signupVars>>

\* A statement fails (the connection, a lock wait that timed out, the process).
Fail(l) ==
    /\ pc[l] \in Working
    /\ Rollback(l)
    /\ UNCHANGED signupVars

LoginStep(l) ==
    \/ LookupIdentity(l) \/ FindLocalUser(l)
    \/ CreateUser(l) \/ CreateIdentity(l) \/ Commit(l)

-----------------------------------------------------------------------------
(* Signup *)

Submit(p) ==
    /\ phase[p] = "idle"
    /\ \E f \in Form : form' = [form EXCEPT ![p] = f]
    /\ phase' = [phase EXCEPT ![p] = "checking"]
    /\ UNCHANGED <<dbVars, loginVars, cleared>>

InUse(c, f) ==
    \E u \in users : IF c = "email" THEN u.email = f.email ELSE u.username = f.username

\* CheckUserExisted: two reads in either order, the first that finds a row
\* decides, and a read that fails counts as one that found none.
CheckColumn(p, c) ==
    /\ phase[p] = "checking"
    /\ c \in Column \ cleared[p]
    /\ \/ /\ InUse(c, form[p])
          /\ phase' = [phase EXCEPT ![p] = "existed"]
          /\ UNCHANGED cleared
       \/ /\ ~InUse(c, form[p]) \/ p \in ReadErrors
          /\ cleared' = [cleared EXCEPT ![p] = @ \cup {c}]
          /\ phase' = [phase EXCEPT ![p] =
                IF cleared[p] \cup {c} = Column THEN "create" ELSE "checking"]
    /\ UNCHANGED <<dbVars, loginVars, form>>

SignupUser(p) ==
    [id |-> nextId, username |-> form[p].username, email |-> form[p].email, info |-> ""]

\* newUser.Create: an insert committed at once, the acknowledgement of which may
\* be lost.
InsertSignup(p) ==
    /\ phase[p] = "create"
    /\ ~UsernameLocked(form[p].username, Logins)
    /\ \/ /\ UsernameTaken(form[p].username) \/ nextId > MaxId
          /\ phase' = [phase EXCEPT ![p] = "failed"]
          /\ UNCHANGED <<users, nextId>>
       \/ /\ ~UsernameTaken(form[p].username)
          /\ nextId <= MaxId
          /\ users' = users \cup {SignupUser(p)}
          /\ nextId' = nextId + 1
          /\ \E end \in {"created", "failed"} : phase' = [phase EXCEPT ![p] = end]
    /\ UNCHANGED <<identities, txUsers, txIdentities, loginVars, form, cleared>>

\* The insert fails with nothing written.
FailSignup(p) ==
    /\ phase[p] = "create"
    /\ phase' = [phase EXCEPT ![p] = "failed"]
    /\ UNCHANGED <<dbVars, loginVars, form, cleared>>

SignupStep(p) == (\E c \in Column : CheckColumn(p, c)) \/ InsertSignup(p)

-----------------------------------------------------------------------------

\* Every login and signup may be over: the system may rest.
Next ==
    \/ \E l \in Logins :
        Arrive(l) \/ LoginStep(l) \/ CommitUnacknowledged(l) \/ Fail(l)
    \/ \E p \in Signups : Submit(p) \/ SignupStep(p) \/ FailSignup(p)

\* A call that was started runs on: each goroutine is scheduled, and a lock
\* is granted once it is free.  No failure is owed to anyone.
Fairness ==
    /\ \A l \in Logins : WF_vars(LoginStep(l))
    /\ \A p \in Signups : WF_vars(SignupStep(p))

Spec == Init /\ [][Next]_vars /\ Fairness

-----------------------------------------------------------------------------
(* Properties *)

\* Every login of a subject that is answered is answered with the account the
\* subject is bound to in user_identities, so all of them get the same one,
\* whatever ran between a login's lookup and its inserts.
AnswersAgree ==
    \A l \in Logins : pc[l] = "ok" =>
        /\ \E i \in identities : i.provider_subject = subject[l]
        /\ \A i \in identities : i.provider_subject = subject[l] => i.user_id = answer[l]

\* No account the resolver created is left without the identity it was created
\* for: the user row and the identity row stand or fall together.
NoOrphanShadow ==
    \A u \in users : u.info = CasInfo =>
        \E i \in identities :
            i.user_id = u.id /\ ShadowOf[i.provider_subject] = u.username

\* Subject s, come with email e, has a claim to account u, as far as the account
\* itself tells: subjects whose shadow names collide have it to the same accounts.
HasClaim(s, e, u) ==
    IF u.username \in ShadowNames
    THEN u.info = CasInfo /\ u.username = ShadowOf[s]
    ELSE u.username = s \/ (u.email = e /\ e # NoEmail)

ClaimsHeld ==
    \A i \in identities : \E u \in users :
        u.id = i.user_id /\ HasClaim(i.provider_subject, i.email, u)

\* A shadow account has the identity of one subject only.
OneOwner ==
    \A u \in users : u.username \in ShadowNames =>
        \A i, j \in identities : i.user_id = u.id /\ j.user_id = u.id => i = j

\* A subject is bound to an account it has a claim to: one of the email it came
\* with or of its own username, not a shadow account (findExistingLocalUserForCAS),
\* or the shadow account created for it; never to one registered under such a
\* name, nor to another subject's shadow account, though the two have the same
\* shadow name, and whichever of them logs in first.
BoundByRight == ClaimsHeld /\ OneOwner

\* A login that has come is answered or refused: waiting for a row lock another
\* login holds always ends, since no two of them wait for each other and every
\* way out of the resolver ends its transaction.  The same for a signup.
EveryCallEnds ==
    /\ \A l \in Logins : pc[l] = "lookup" ~> pc[l] \in Answered
    /\ \A p \in Signups : phase[p] = "checking" ~> phase[p] \in Closed

\* api.yaml:56 answers a signup whose email is registered with 402 and signup.go
\* checks both columns before it inserts: no two signups succeed with one email.
SignupEmailsDiffer ==
    \A p, q \in Signups :
        phase[p] = "created" /\ phase[q] = "created" /\ form[p].email = form[q].email => p = q

-----------------------------------------------------------------------------
(* What makes them hold: the inductive invariant *)

\* Neither the committed rows nor those of two transactions share a subject.
OneRowPerSubject ==
    \A i, j \in identities : i.provider_subject = j.provider_subject => i = j

PendingSubjectsFree ==
    \A l \in Logins : \A i \in txIdentities[l] :
        /\ ~SubjectTaken(i.provider_subject)
        /\ ~SubjectLocked(i.provider_subject, Logins \ {l})

\* What a login's transaction holds at each statement.
TransactionOK(l) ==
    /\ pc[l] \in Working => subject[l] \in Subjects
    /\ pc[l] \notin {"createIdentity", "commit"} =>
           txUsers[l] = {} /\ txIdentities[l] = {}
    /\ pc[l] = "createIdentity" => txIdentities[l] = {}
    /\ pc[l] = "commit" => txIdentities[l] = {IdentityRow(l)}
    /\ pc[l] \in {"createIdentity", "commit"} =>
        /\ target[l] \in Ids
        /\ \A u \in txUsers[l] :
               u.id = target[l] /\ u.username = ShadowOf[subject[l]]
        /\ \E u \in users \cup txUsers[l] :
               u.id = target[l] /\ HasClaim(subject[l], email[l], u)

\* What holds of the tables and the open transactions, whatever was answered.
TablesInv ==
    /\ TypeOK
    /\ OneRowPerSubject
    /\ PendingSubjectsFree
    /\ \A l \in Logins : TransactionOK(l)
    /\ NoOrphanShadow
    /\ ClaimsHeld

\* An id belongs to one account, committed or not, and is below the counter: no id
\* is ever given out twice.
IdsApart ==
    /\ \A u \in users : u.id < nextId
    /\ \A u, v \in users : u.id = v.id => u = v
    /\ \A l \in Logins : \A u \in txUsers[l] :
        /\ u.id < nextId
        /\ \A v \in users : v.id # u.id
        /\ \A m \in Logins \ {l} : \A v \in txUsers[m] : v.id # u.id

\* The identity of a shadow account came with the email the account has.
SameEmailAsShadow ==
    \A u \in users : u.username \in ShadowNames =>
        \A i \in identities : i.user_id = u.id => i.email = u.email

\* A login is about to bind its subject to the account it is creating, or to one
\* that is no shadow account.
TargetOK(l) ==
    pc[l] \in {"createIdentity", "commit"} =>
        /\ \A u \in txUsers[l] : u.email = email[l] /\ txUsers[l] = {u}
        /\ \A u \in users : u.id = target[l] => u.username \notin ShadowNames

\* Which account is whose.
AccountsInv ==
    /\ TablesInv
    /\ IdsApart
    /\ OneOwner
    /\ SameEmailAsShadow
    /\ \A l \in Logins : TargetOK(l)

IInv == AccountsInv /\ AnswersAgree

-----------------------------------------------------------------------------
(* The registry the resolver implements *)

Status(l) == IF pc[l] \in Working THEN "waiting" ELSE pc[l]
BindingOf(s) ==
    IF SubjectTaken(s)
    THEN (CHOOSE i \in identities : i.provider_subject = s).user_id
    ELSE 0

Registry == INSTANCE IdentityRegistry WITH
    Accounts <- Ids,
    status <- [l \in Logins |-> Status(l)],
    asked <- subject,
    answered <- answer,
    binding <- [s \in Subjects |-> BindingOf(s)]

\* The resolver is a registry of bindings: it binds a subject once, never
\* rebinds it, and every answer is the binding of the moment it is given, however
\* lookups, inserts, rollbacks and lost acknowledgements of logins interleave.
ImplementsRegistry == Registry!Spec
====
