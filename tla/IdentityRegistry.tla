---- MODULE IdentityRegistry ----
(***************************************************************************)
(* What the CAS user resolver promises its callers (ResolveCASUser,        *)
(* src/service/cas_identity.go), with no table, transaction or lock in     *)
(* sight: a CAS subject is bound to one local account once and for all,    *)
(* and every login of that subject that is answered is answered with that  *)
(* account.  A login that fails may have bound its subject all the same (a *)
(* commit whose acknowledgement was lost), but it has changed no other     *)
(* binding.                                                                *)
(***************************************************************************)
EXTENDS Naturals

CONSTANTS
    Logins,     \* the calls of the resolver
    Subjects,   \* the CAS usernames
    Blank,      \* a CAS username that is empty once trimmed, none of Subjects
    Accounts    \* the ids of local accounts, 0 is none of them

VARIABLES
    status,     \* status[l]: "idle", "waiting", "ok" or "error"
    asked,      \* asked[l]: the subject login l is about
    answered,   \* answered[l]: the account returned to login l, 0 before that
    binding     \* binding[s]: the account of subject s, 0 when it has none

vars == <<status, asked, answered, binding>>

Init ==
    /\ status = [l \in Logins |-> "idle"]
    /\ asked = [l \in Logins |-> Blank]
    /\ answered = [l \in Logins |-> 0]
    /\ binding = [s \in Subjects |-> 0]

\* A login arrives; one with a blank subject is refused at once.
Ask(l) ==
    /\ status[l] = "idle"
    /\ \E s \in Subjects \cup {Blank} :
        /\ asked' = [asked EXCEPT ![l] = s]
        /\ status' = [status EXCEPT ![l] = IF s = Blank THEN "error" ELSE "waiting"]
    /\ UNCHANGED <<answered, binding>>

\* Subject s has account u from this step on: it had it before, or had none.
Bind(s, u) ==
    /\ binding[s] \in {0, u}
    /\ binding' = [binding EXCEPT ![s] = u]

\* The login is answered with its subject's account, bound now if it was not.
Answer(l) ==
    /\ status[l] = "waiting"
    /\ \E u \in Accounts :
        /\ Bind(asked[l], u)
        /\ answered' = [answered EXCEPT ![l] = u]
    /\ status' = [status EXCEPT ![l] = "ok"]
    /\ UNCHANGED asked

\* The login fails, having bound its subject or not.
Refuse(l) ==
    /\ status[l] = "waiting"
    /\ status' = [status EXCEPT ![l] = "error"]
    /\ UNCHANGED binding \/ \E u \in Accounts : Bind(asked[l], u)
    /\ UNCHANGED <<asked, answered>>

Next == \E l \in Logins : Ask(l) \/ Answer(l) \/ Refuse(l)

Spec == Init /\ [][Next]_vars
====
