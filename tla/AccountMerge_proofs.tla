---- MODULE AccountMerge_proofs ----
(***************************************************************************)
(* Theorems about AccountMerge, for any number of sessions, signups, names *)
(* and merges: type correctness, that shadow accounts keep their identity  *)
(* and identities their right through merges, that the sessions a merge    *)
(* did not overtake follow their account, and that no access token is ever *)
(* served as somebody else's.                                              *)
(***************************************************************************)
EXTENDS AccountMerge, CASIdentity_proofs

\* Whatever a session of a CAS login still names is the account of its user, or dead.
Named(s, id) == id = BindingOf(subject[s]) \/ Dead(id)

\* What a session has read, stored and was given.
SessionOK(s) ==
    /\ stage[s] # "none" => pc[s] \in {"idle", "ok"}
    /\ pc[s] = "ok" =>
        /\ SubjectTaken(subject[s])
        /\ stage[s] = "none" => Named(s, answer[s])
        /\ \A id \in {held[s], row[s], sub[s]} \ {0} : Named(s, id)
    /\ s \notin overtaken =>
        /\ stage[s] = "none" => AnswerRight(s)
        /\ \A id \in {held[s], row[s]} \ {0} : Owned(s, id)
        /\ s \notin outdated /\ sub[s] # 0 => Owned(s, sub[s])

MergeInv ==
    /\ AccountsInv
    /\ MergeTypeOK
    /\ \A s \in Logins : SessionOK(s)

-----------------------------------------------------------------------------
(* What the migration does to the tables *)

\* A merged account is a shadow account, its target is none and one its identity has
\* a claim to.
LEMMA PairFacts ==
    ASSUME AccountsInv, NEW p \in Pairs
    PROVE  /\ p.identity \in identities /\ p.shadow \in users /\ p.target \in users
           /\ p.identity.user_id = p.shadow.id
           /\ p.shadow.username \in ShadowNames /\ p.target.username \notin ShadowNames
           /\ p.target.id # p.shadow.id
           /\ HasClaim(p.identity.provider_subject, p.identity.email, p.target)
  <1>1. /\ p.identity \in identities /\ p.shadow \in users /\ p.target \in users
        /\ p.identity.user_id = p.shadow.id /\ p.shadow.username \in ShadowNames
        /\ p.target \in Candidates(p.identity, p.shadow)
    BY DEF Pairs
  <1>2. MergeEmail(p.identity, p.shadow) = p.identity.email
    BY <1>1 DEF MergeEmail, AccountsInv, OneOwner, SameEmailAsShadow
  <1> QED
    BY <1>1, <1>2 DEF Candidates, ByEmail, ByUsername, HasClaim

\* An account is merged for the sake of its only identity.
LEMMA PairOfIdentity ==
    ASSUME AccountsInv, NEW p \in Pairs, NEW i \in identities, i.user_id = p.shadow.id
    PROVE  i = p.identity
  BY PairFacts DEF AccountsInv, OneOwner, SameEmailAsShadow

LEMMA PairOfUser ==
    ASSUME AccountsInv, NEW p \in Pairs, NEW u \in users
    PROVE  /\ u.id = p.shadow.id => u = p.shadow
           /\ u.id = p.target.id => u = p.target
  BY PairFacts DEF AccountsInv, IdsApart

LEMMA MergedIdIs ==
    ASSUME NEW id
    PROVE  \/ \E p \in Pairs : p.shadow.id = id /\ MergedId(id) = p.target.id
           \/ (\A p \in Pairs : p.shadow.id # id) /\ MergedId(id) = id
  BY DEF MergedId

LEMMA ReboundIs ==
    ASSUME AccountsInv, NEW i \in identities
    PROVE  /\ Rebound(i) \in UserIdentity
           /\ Rebound(i).user_id = MergedId(i.user_id)
           /\ Rebound(i).provider_subject = i.provider_subject
           /\ Rebound(i).email = i.email
  <1>1. i \in UserIdentity
    BY DEF AccountsInv, TablesInv, TypeOK
  <1>2. MergedId(i.user_id) \in Ids
    BY <1>1, MergedIdIs, PairFacts, IdTypes DEF UserIdentity
  <1>3. CASE \E p \in Pairs : p.identity = i
    BY <1>1, <1>2, <1>3 DEF Rebound, UserIdentity
  <1>4. CASE ~\E p \in Pairs : p.identity = i
    <2>1. \A p \in Pairs : p.shadow.id # i.user_id
      BY <1>4, PairOfIdentity
    <2> QED
      BY <1>1, <1>4, <2>1, MergedIdIs DEF Rebound
  <1> QED
    BY <1>3, <1>4

\* Only an email that is missing is filled in, and only in a target.
LEMMA FilledIs ==
    ASSUME AccountsInv, NEW u \in users
    PROVE  /\ FilledUser(u) \in User
           /\ FilledUser(u).id = u.id /\ FilledUser(u).username = u.username
           /\ FilledUser(u).info = u.info
           /\ u.email # NoEmail => FilledUser(u) = u
           /\ u.username \in ShadowNames => FilledUser(u) = u
  <1> DEFINE merged == {p \in Pairs : p.target = u}
  <1>1. u \in User
    BY DEF AccountsInv, TablesInv, TypeOK
  <1>2. CASE u.email = NoEmail /\ merged # {}
    <2>1. PICK p \in merged : FilledUser(u) = [u EXCEPT !.email = p.shadow.email]
      BY <1>2 DEF FilledUser
    <2>2. p \in Pairs /\ p.target = u
      OBVIOUS
    <2>3. p.shadow \in User /\ u.username \notin ShadowNames
      BY <2>2, PairFacts DEF AccountsInv, TablesInv, TypeOK
    <2> QED
      BY <1>1, <1>2, <2>1, <2>3 DEF User
  <1>3. CASE ~(u.email = NoEmail /\ merged # {})
    BY <1>1, <1>3, PairFacts DEF FilledUser
  <1> QED
    BY <1>2, <1>3

LEMMA ClaimKept ==
    ASSUME AccountsInv, NEW u \in users, NEW s, NEW e, HasClaim(s, e, u)
    PROVE  HasClaim(s, e, FilledUser(u))
  <1>1. u.email = NoEmail \/ FilledUser(u) = u
    BY FilledIs
  <1> QED
    BY <1>1, FilledIs DEF HasClaim

\* No identity stays bound to a merged account: all of them are deleted.
LEMMA LeftoverIs ==
    ASSUME AccountsInv, NEW u \in users
    PROVE  u \in Leftover <=> \E p \in Pairs : p.shadow.id = u.id
  <1>1. ASSUME NEW p \in Pairs, p.shadow.id = u.id PROVE u \in Leftover
    <2>1. p.shadow = u
      BY <1>1, PairOfUser
    <2>2. ASSUME NEW i \in identities PROVE Rebound(i).user_id # u.id
      <3>1. MergedId(i.user_id) # u.id
        BY <1>1, <2>1, MergedIdIs, PairFacts, PairOfUser
      <3> QED
        BY <3>1, ReboundIs
    <2> QED
      BY <2>1, <2>2 DEF Leftover
  <1> QED
    BY <1>1 DEF Leftover

\* What is left after a merge, and where it comes from.
LEMMA MergeTables ==
    ASSUME AccountsInv, Merge
    PROVE  /\ \A u \in users : (\A p \in Pairs : p.shadow.id # u.id) => FilledUser(u) \in users'
           /\ \A v \in users' : \E u \in users :
                v = FilledUser(u) /\ \A p \in Pairs : p.shadow.id # u.id
           /\ \A i \in identities : Rebound(i) \in identities'
           /\ \A j \in identities' : \E i \in identities : j = Rebound(i)
           /\ \A l \in Logins : txUsers'[l] = {} /\ txIdentities'[l] = {}
           /\ \A l \in Logins : txUsers[l] = {} /\ txIdentities[l] = {}
           /\ UNCHANGED <<nextId, txUsers, txIdentities, loginVars, signupVars, stage, held, sub>>
  BY LeftoverIs DEF Merge

LEMMA MergeKeepsTypes ==
    ASSUME AccountsInv, Merge
    PROVE  TypeOK'
  <1>1. users' \subseteq User /\ identities' \subseteq UserIdentity
    BY MergeTables, FilledIs, ReboundIs
  <1> QED
    BY <1>1, MergeTables DEF AccountsInv, TablesInv, TypeOK, loginVars, signupVars

\* The target of a pair survives.
LEMMA TargetSurvives ==
    ASSUME AccountsInv, Merge, NEW p \in Pairs
    PROVE  FilledUser(p.target) \in users'
  BY MergeTables, PairFacts, PairOfUser

LEMMA MergeBindsByRight ==
    ASSUME AccountsInv, Merge
    PROVE  ClaimsHeld'
  <1> SUFFICES ASSUME NEW j \in identities'
               PROVE  \E v \in users' : v.id = j.user_id /\ HasClaim(j.provider_subject, j.email, v)
    BY DEF ClaimsHeld, HasClaim
  <1>1. PICK i \in identities : j = Rebound(i)
    BY MergeTables
  <1>2. /\ j.user_id = MergedId(i.user_id)
        /\ j.provider_subject = i.provider_subject /\ j.email = i.email
    BY <1>1, ReboundIs
  <1>3. ASSUME NEW u \in users, HasClaim(i.provider_subject, i.email, u),
               FilledUser(u) \in users', u.id = MergedId(i.user_id)
        PROVE  \E v \in users' : v.id = j.user_id /\ HasClaim(j.provider_subject, j.email, v)
    BY <1>2, <1>3, ClaimKept, FilledIs
  <1>4. CASE \E p \in Pairs : p.shadow.id = i.user_id /\ MergedId(i.user_id) = p.target.id
    BY <1>3, <1>4, PairFacts, PairOfIdentity, TargetSurvives
  <1>5. CASE (\A p \in Pairs : p.shadow.id # i.user_id) /\ MergedId(i.user_id) = i.user_id
    <2>1. PICK u \in users : u.id = i.user_id /\ HasClaim(i.provider_subject, i.email, u)
      BY DEF AccountsInv, TablesInv, ClaimsHeld
    <2> QED
      BY <1>3, <1>5, <2>1, MergeTables
  <1> QED
    BY <1>4, <1>5, MergedIdIs

LEMMA MergeKeepsAccounts ==
    ASSUME AccountsInv, Merge
    PROVE  AccountsInv'
  <1>1. TypeOK' /\ ClaimsHeld'
    BY MergeKeepsTypes, MergeBindsByRight
  <1>2. OneRowPerSubject'
    <2>1. OneRowPerSubject
      BY DEF AccountsInv, TablesInv
    <2> QED
      BY <2>1, MergeTables, ReboundIs DEF OneRowPerSubject
  <1>3. PendingSubjectsFree'
    BY MergeTables DEF PendingSubjectsFree
  <1>4. ASSUME NEW l \in Logins PROVE TransactionOK(l)' /\ TargetOK(l)'
    <2>1. TransactionOK(l) /\ TargetOK(l)
      BY DEF AccountsInv, TablesInv
    <2>2. pc[l] # "commit" /\ UNCHANGED <<pc, subject, email, target>>
      BY <2>1, MergeTables DEF TransactionOK, loginVars
    <2>3. TargetOK(l)'
      BY <2>1, <2>2, MergeTables, FilledIs DEF TargetOK
    <2>4. ASSUME pc[l] = "createIdentity"
          PROVE  \E v \in users' : v.id = target[l] /\ HasClaim(subject[l], email[l], v)
      <3>1. PICK u \in users : u.id = target[l] /\ HasClaim(subject[l], email[l], u)
        BY <2>1, <2>4, MergeTables DEF TransactionOK
      <3>2. u.username \notin ShadowNames
        BY <2>1, <2>4, <3>1 DEF TargetOK
      <3>3. FilledUser(u) \in users'
        BY <3>2, MergeTables, PairFacts, PairOfUser
      <3> QED
        BY <3>1, <3>3, ClaimKept, FilledIs
    <2>5. TransactionOK(l)'
      BY <2>1, <2>2, <2>4, MergeTables DEF TransactionOK, HasClaim
    <2> QED
      BY <2>3, <2>5
  <1>5. NoOrphanShadow'
    <2>1. SUFFICES ASSUME NEW v \in users', v.info = CasInfo
                   PROVE  \E j \in identities' :
                            j.user_id = v.id /\ ShadowOf[j.provider_subject] = v.username
      BY DEF NoOrphanShadow
    <2>2. PICK u \in users : v = FilledUser(u) /\ \A p \in Pairs : p.shadow.id # u.id
      BY MergeTables
    <2>3. PICK i \in identities :
              i.user_id = u.id /\ ShadowOf[i.provider_subject] = u.username
      BY <2>1, <2>2, FilledIs DEF AccountsInv, TablesInv, NoOrphanShadow
    <2>4. Rebound(i) \in identities' /\ Rebound(i).user_id = u.id
      BY <2>2, <2>3, MergeTables, MergedIdIs, ReboundIs
    <2> QED
      BY <2>2, <2>3, <2>4, FilledIs, ReboundIs
  <1>6. IdsApart'
    <2>1. \A u \in users' : u.id < nextId'
      BY MergeTables, FilledIs DEF AccountsInv, IdsApart
    <2>2. \A u, v \in users' : u.id = v.id => u = v
      BY MergeTables, FilledIs DEF AccountsInv, IdsApart
    <2> QED
      BY <2>1, <2>2, MergeTables DEF IdsApart
  <1>7. OneOwner' /\ SameEmailAsShadow'
    <2>1. SUFFICES ASSUME NEW v \in users', v.username \in ShadowNames,
                          NEW j \in identities', j.user_id = v.id,
                          NEW k \in identities', k.user_id = v.id
                   PROVE  j.email = v.email /\ k = j
      BY DEF OneOwner, SameEmailAsShadow
    <2>2. PICK u \in users : v = FilledUser(u) /\ \A p \in Pairs : p.shadow.id # u.id
      BY MergeTables
    <2>3. u = v
      BY <2>1, <2>2, FilledIs
    <2>4. ASSUME NEW m \in identities', m.user_id = v.id
          PROVE  \E i \in identities : m = Rebound(i) /\ i.user_id = v.id
      <3>1. PICK i \in identities : m = Rebound(i)
        BY MergeTables
      <3>2. MergedId(i.user_id) = v.id
        BY <2>4, <3>1, ReboundIs
      <3>3. i.user_id = v.id
        BY <2>1, <2>3, <3>2, MergedIdIs, PairFacts, PairOfUser
      <3> QED
        BY <3>1, <3>3
    <2>5. PICK i \in identities : j = Rebound(i) /\ i.user_id = v.id
      BY <2>1, <2>4
    <2>6. PICK n \in identities : k = Rebound(n) /\ n.user_id = v.id
      BY <2>1, <2>4
    <2>7. i.email = v.email /\ n = i
      BY <2>1, <2>3, <2>5, <2>6 DEF AccountsInv, OneOwner, SameEmailAsShadow
    <2> QED
      BY <2>5, <2>6, <2>7, ReboundIs
  <1> QED
    BY <1>1, <1>2, <1>3, <1>4, <1>5, <1>6, <1>7 DEF AccountsInv, TablesInv

\* Whoever was bound to a merged account is bound to its target.
LEMMA BindingMerged ==
    ASSUME AccountsInv, Merge, NEW s, SubjectTaken(s)
    PROVE  SubjectTaken(s)' /\ BindingOf(s)' = MergedId(BindingOf(s))
  <1>1. PICK i \in identities : i.provider_subject = s
    BY DEF SubjectTaken
  <1>2. PICK j \in identities' : j = Rebound(i)
    BY MergeTables
  <1>3. j.provider_subject = s /\ j.user_id = MergedId(i.user_id)
    BY <1>1, <1>2, ReboundIs
  <1>4. BindingOf(s) = i.user_id
    BY <1>1, BindingOfRow DEF AccountsInv, TablesInv
  <1>5. BindingOf(s)' = j.user_id
    <2>1. OneRowPerSubject'
      BY MergeKeepsAccounts DEF AccountsInv, TablesInv
    <2> QED
      BY <1>3, <2>1, NextBindingOfRow
  <1>6. SubjectTaken(s)'
    BY <1>3 DEF SubjectTaken
  <1> QED
    BY <1>3, <1>4, <1>5, <1>6

\* A merged account dies, and a dead one stays dead.
LEMMA MergedDies ==
    ASSUME AccountsInv, Merge
    PROVE  /\ \A p \in Pairs : Dead(p.shadow.id)'
           /\ \A id : Dead(id) => Dead(id)' /\ MergedId(id) = id
  <1>1. ASSUME NEW p \in Pairs PROVE Dead(p.shadow.id)'
    <2>1. PICK id : id = p.shadow.id
      OBVIOUS
    <2>2. id \in Ids /\ id < nextId
      BY <2>1, PairFacts, IdTypes DEF AccountsInv, IdsApart
    <2>3. \A v \in users' : v.id # id
      BY <2>1, MergeTables, FilledIs
    <2>4. Dead(id)'
      BY <2>2, <2>3, MergeTables DEF Dead
    <2> QED
      BY <2>1, <2>4
  <1>2. ASSUME NEW id, Dead(id) PROVE Dead(id)' /\ MergedId(id) = id
    <2>1. \A v \in users' : v.id # id
      BY <1>2, MergeTables, FilledIs DEF Dead
    <2>2. MergedId(id) = id
      BY <1>2, MergedIdIs, PairFacts DEF Dead
    <2> QED
      BY <1>2, <2>1, <2>2, MergeTables DEF Dead
  <1> QED
    BY <1>1, <1>2

\* A restart rolls every open transaction back.
LEMMA RestartKeepsAccounts ==
    ASSUME AccountsInv, RestartDatabase
    PROVE  AccountsInv' /\ \A id : Dead(id) => Dead(id)'
  <1>1. /\ UNCHANGED <<users, identities, nextId, subject, email, target, answer, signupVars>>
        /\ \A l \in Logins : txUsers'[l] = {} /\ txIdentities'[l] = {}
        /\ pc' = [l \in Logins |-> IF pc[l] \in InTransaction THEN "error" ELSE pc[l]]
    BY DEF RestartDatabase, SurvivingId
  <1>2. AccountsKept
    BY <1>1, QuietStep DEF InTransaction
  <1>3. TypeOK'
    BY <1>1 DEF RestartDatabase, AccountsInv, TablesInv, TypeOK, Answered, signupVars
  <1>4. OneRowPerSubject' /\ NoOrphanShadow' /\ ClaimsHeld'
    BY <1>1, CommittedKept DEF AccountsInv, TablesInv
  <1>5. PendingSubjectsFree'
    BY <1>1 DEF PendingSubjectsFree
  <1>6. ASSUME NEW l \in Logins PROVE TransactionOK(l)'
    <2>1. TransactionOK(l)
      BY DEF AccountsInv, TablesInv
    <2> QED
      BY <1>1, <2>1 DEF TransactionOK, Working, InTransaction
  <1> QED
    BY <1>2, <1>3, <1>4, <1>5, <1>6 DEF AccountsInv, TablesInv, AccountsKept

-----------------------------------------------------------------------------
(* What becomes of the sessions *)

\* A subject that is taken is bound to an account.
LEMMA BindingIs ==
    ASSUME AccountsInv, NEW s, SubjectTaken(s)
    PROVE  \E i \in identities : /\ i.provider_subject = s /\ BindingOf(s) = i.user_id
                                /\ i.user_id \in Ids
  BY BindingOfRow, IdTypes DEF SubjectTaken, AccountsInv, TablesInv

\* A login that is over, or has not come, is as it was.
LEMMA LoginStands ==
    ASSUME TypeOK, [Next]_vars, NEW s \in Logins,
           pc[s] = "ok" \/ (pc[s] = "idle" /\ pc'[s] = "idle")
    PROVE  pc'[s] = pc[s] /\ subject'[s] = subject[s] /\ answer'[s] = answer[s]
  <1>1. ASSUME NEW l \in Logins,
               Arrive(l) \/ LoginStep(l) \/ CommitUnacknowledged(l) \/ Fail(l)
        PROVE  pc'[s] = pc[s] /\ subject'[s] = subject[s] /\ answer'[s] = answer[s]
    <2>1. CASE Arrive(l)
      BY <2>1 DEF Arrive, TypeOK
    <2>2. CASE LookupIdentity(l) \/ FindLocalUser(l)
      BY <2>2 DEF LookupIdentity, FindLocalUser, Return, TypeOK
    <2>3. CASE CreateUser(l) \/ CreateIdentity(l)
      BY <2>3 DEF CreateUser, CreateIdentity, Rollback, TypeOK
    <2>4. CASE Commit(l) \/ CommitUnacknowledged(l) \/ Fail(l)
      BY <2>4 DEF Commit, CommitUnacknowledged, Fail, Rollback, Return, Working,
                  InTransaction, TypeOK
    <2> QED
      BY <1>1, <2>1, <2>2, <2>3, <2>4 DEF LoginStep
  <1>2. ASSUME NEW p \in Signups, Submit(p) \/ SignupStep(p) \/ FailSignup(p)
        PROVE  pc'[s] = pc[s] /\ subject'[s] = subject[s] /\ answer'[s] = answer[s]
    BY <1>2 DEF Submit, SignupStep, CheckColumn, InsertSignup, FailSignup, loginVars
  <1>3. CASE UNCHANGED vars
    BY <1>3 DEF vars, loginVars
  <1> QED
    BY <1>1, <1>2, <1>3 DEF Next

\* The service itself deletes no row.
LEMMA TablesGrow ==
    ASSUME [Next]_vars
    PROVE  users \subseteq users' /\ identities \subseteq identities'
  <1>1. ASSUME NEW l \in Logins,
               Arrive(l) \/ LoginStep(l) \/ CommitUnacknowledged(l) \/ Fail(l)
        PROVE  users \subseteq users' /\ identities \subseteq identities'
    BY <1>1 DEF Arrive, LoginStep, LookupIdentity, FindLocalUser, CreateUser, CreateIdentity,
                Commit, CommitUnacknowledged, Fail, Rollback, Publish, dbVars
  <1>2. ASSUME NEW p \in Signups, Submit(p) \/ SignupStep(p) \/ FailSignup(p)
        PROVE  users \subseteq users' /\ identities \subseteq identities'
    BY <1>2 DEF Submit, SignupStep, CheckColumn, InsertSignup, FailSignup, dbVars
  <1> QED
    BY <1>1, <1>2 DEF Next, vars, dbVars

LEMMA BindingStays ==
    ASSUME AccountsInv, AccountsInv', identities \subseteq identities', NEW s, SubjectTaken(s)
    PROVE  SubjectTaken(s)' /\ BindingOf(s)' = BindingOf(s)
  <1>1. PICK i \in identities : i.provider_subject = s /\ BindingOf(s) = i.user_id
    BY BindingIs
  <1>2. BindingOf(s)' = i.user_id
    BY <1>1, NextBindingOfRow DEF AccountsInv, TablesInv
  <1> QED
    BY <1>1, <1>2 DEF SubjectTaken

\* A session nothing happens to, while what it names stays.
LEMMA SessionKept ==
    ASSUME NEW s \in Logins, SessionOK(s),
           pc'[s] = pc[s], subject'[s] = subject[s], answer'[s] = answer[s],
           stage'[s] = stage[s], held'[s] = held[s], row'[s] = row[s], sub'[s] = sub[s],
           s \in overtaken' <=> s \in overtaken, s \in outdated' <=> s \in outdated,
           SubjectTaken(subject[s]) => /\ SubjectTaken(subject[s])'
                                       /\ BindingOf(subject[s])' = BindingOf(subject[s]),
           \A id : Dead(id) => Dead(id)',
           users \subseteq users',
           AnswerRight(s) => AnswerRight(s)'
    PROVE  SessionOK(s)'
  <1>1. \A id : Named(s, id) /\ SubjectTaken(subject[s]) => Named(s, id)'
    BY DEF Named
  <1>2. \A id : Owned(s, id) /\ (pc[s] = "ok" => SubjectTaken(subject[s])) => Owned(s, id)'
    BY DEF Owned
  <1> QED
    BY <1>1, <1>2 DEF SessionOK

\* A session about to begin holds nothing.
LEMMA NothingYet ==
    ASSUME MergeTypeOK, NEW s \in Logins, stage[s] = "none"
    PROVE  held[s] = 0 /\ row[s] = 0 /\ sub[s] = 0
  BY DEF MergeTypeOK

LEMMA ServiceSession ==
    ASSUME MergeInv, Service, NEW s \in Logins
    PROVE  SessionOK(s)'
  <1>1. AccountsInv /\ TablesInv /\ MergeTypeOK /\ TypeOK /\ SessionOK(s)
    BY DEF MergeInv, AccountsInv, MergeTypeOK
  <1>2. /\ [Next]_vars /\ UNCHANGED <<stage, held, row, sub, overtaken, outdated>>
        /\ stage[s] # "none" => pc'[s] = pc[s]
    BY DEF Service, sessionVars, historyVars
  <1>3. AccountsInv' /\ \A id : Dead(id) => Dead(id)'
    BY <1>1, <1>2, AccountsStep DEF AccountsKept
  <1>4. AnswerRight(s) => AnswerRight(s)'
    BY <1>1, <1>2, TablesStep DEF AnswersStay
  <1>5. users \subseteq users' /\ identities \subseteq identities'
    BY <1>2, TablesGrow
  <1>6. CASE pc[s] = "ok" \/ (pc[s] = "idle" /\ stage[s] # "none")
    <2>1. pc'[s] = pc[s] /\ subject'[s] = subject[s] /\ answer'[s] = answer[s]
      BY <1>1, <1>2, <1>6, LoginStands
    <2>2. ASSUME SubjectTaken(subject[s])
          PROVE  SubjectTaken(subject[s])' /\ BindingOf(subject[s])' = BindingOf(subject[s])
      <3>1. PICK x : x = subject[s] /\ x = subject'[s]
        BY <2>1
      <3>2. SubjectTaken(x)' /\ BindingOf(x)' = BindingOf(x)
        BY <1>1, <1>3, <1>5, <2>2, <3>1, BindingStays
      <3> QED
        BY <3>1, <3>2 DEF SubjectTaken, BindingOf
    <2> QED
      BY <1>1, <1>2, <1>3, <1>4, <1>5, <2>1, <2>2, SessionKept
  <1>7. CASE pc[s] # "ok" /\ stage[s] = "none"
    <2>1. held'[s] = 0 /\ row'[s] = 0 /\ sub'[s] = 0 /\ stage'[s] = "none"
      BY <1>1, <1>2, <1>7, NothingYet
    <2>2. AnswerRight(s)'
      BY <1>4, <1>7 DEF AnswerRight
    <2>3. ASSUME pc'[s] = "ok"
          PROVE  SubjectTaken(subject[s])' /\ answer'[s] = BindingOf(subject[s])'
      <3>1. PICK i \in identities' : /\ i.provider_subject = subject'[s]
                                     /\ i.user_id = answer'[s]
        BY <2>2, <2>3 DEF AnswerRight
      <3>2. PICK x : x = subject'[s]
        OBVIOUS
      <3>3. BindingOf(x)' = i.user_id
        BY <1>3, <3>1, <3>2, NextBindingOfRow DEF AccountsInv, TablesInv
      <3> QED
        BY <3>1, <3>2, <3>3 DEF SubjectTaken, BindingOf
    <2> QED
      BY <2>1, <2>2, <2>3 DEF SessionOK, Named
  <1>8. pc[s] = "ok" \/ pc[s] = "idle" \/ stage[s] = "none"
    BY <1>1 DEF SessionOK
  <1> QED
    BY <1>6, <1>7, <1>8

\* The row of a session is rewritten with the binding it was made from; a request
\* that is under way still writes the old one.
LEMMA MergeSession ==
    ASSUME MergeInv, Merge, NEW s \in Logins
    PROVE  SessionOK(s)'
  <1>1. AccountsInv /\ MergeTypeOK /\ SessionOK(s)
    BY DEF MergeInv
  <1>2. UNCHANGED <<pc, subject, answer, stage, held, sub>>
    BY DEF Merge, loginVars
  <1>3. /\ row'[s] = MergedId(row[s])
        /\ overtaken' = overtaken \cup {r \in Logins : InFlight(r)}
        /\ outdated' = {r \in Logins : sub[r] # 0}
    BY DEF Merge, RewrittenRow
  <1>4. \A p \in Pairs : p.shadow.id \in Ids /\ p.shadow.id # 0 /\ p.shadow.id \notin Subjects
    BY <1>1, PairFacts, IdTypes, SubjectsAssumption DEF Ids
  <1>5. MergedId(0) = 0 /\ \A x \in Subjects : MergedId(x) = x
    BY <1>4, MergedIdIs
  <1>6. \A id : Dead(id) => Dead(id)' /\ MergedId(id) = id
    BY <1>1, MergedDies
  <1>7. ASSUME pc[s] = "ok"
        PROVE  /\ SubjectTaken(subject[s])'
               /\ BindingOf(subject[s])' = MergedId(BindingOf(subject[s]))
    <2>1. PICK x : x = subject[s] /\ x = subject'[s]
      BY <1>2
    <2>2. SubjectTaken(x)
      BY <1>1, <1>7, <2>1 DEF SessionOK
    <2>3. SubjectTaken(x)' /\ BindingOf(x)' = MergedId(BindingOf(x))
      BY <1>1, <2>2, BindingMerged
    <2> QED
      BY <2>1, <2>3 DEF SubjectTaken, BindingOf
  <1>8. ASSUME NEW id, NEW m, m = MergedId(id), pc[s] = "ok", Named(s, id)
        PROVE  Named(s, id)' /\ Named(s, m)'
    <2>1. CASE Dead(id)
      BY <1>6, <1>8, <2>1 DEF Named
    <2>2. CASE id = BindingOf(subject[s])
      <3>1. Named(s, m)'
        BY <1>7, <1>8, <2>2 DEF Named
      <3>2. m = id \/ Dead(id)'
        BY <1>1, <1>8, MergedIdIs, MergedDies
      <3> QED
        BY <3>1, <3>2 DEF Named
    <2> QED
      BY <1>8, <2>1, <2>2 DEF Named
  <1>9. ASSUME NEW id, NEW m, m = MergedId(id), Owned(s, id) PROVE Owned(s, m)'
    <2>1. CASE pc[s] = "ok"
      BY <1>2, <1>7, <1>9, <2>1 DEF Owned
    <2>2. CASE pc[s] # "ok" /\ id \in Subjects
      BY <1>2, <1>5, <1>9, <2>2 DEF Owned
    <2>3. ASSUME pc[s] # "ok", NEW u \in users, u.id = id
          PROVE  Owned(s, m)'
      <3>1. \E v \in users' : v.id = m
        <4>1. CASE \E p \in Pairs : p.shadow.id = id /\ MergedId(id) = p.target.id
          BY <1>1, <1>9, <4>1, TargetSurvives, PairFacts, FilledIs
        <4>2. CASE (\A p \in Pairs : p.shadow.id # id) /\ MergedId(id) = id
          BY <1>1, <1>9, <2>3, <4>2, MergeTables, FilledIs
        <4> QED
          BY <4>1, <4>2, MergedIdIs
      <3> QED
        BY <1>2, <2>3, <3>1 DEF Owned
    <2> QED
      BY <1>9, <2>1, <2>2, <2>3 DEF Owned
  <1>10. ASSUME pc'[s] = "ok"
         PROVE  /\ SubjectTaken(subject[s])'
                /\ stage'[s] = "none" => Named(s, answer[s])'
                /\ \A id \in {held'[s], row'[s], sub'[s]} \ {0} : Named(s, id)'
    BY <1>1, <1>2, <1>3, <1>5, <1>7, <1>8, <1>10 DEF SessionOK
  <1>11. ASSUME s \notin overtaken'
         PROVE  /\ stage'[s] = "none" => AnswerRight(s)'
                /\ \A id \in {held'[s], row'[s]} \ {0} : Owned(s, id)'
                /\ s \notin outdated' /\ sub'[s] # 0 => Owned(s, sub[s])'
    <2>1. s \notin overtaken /\ held[s] = 0 /\ ~(pc[s] = "ok" /\ stage[s] = "none")
      BY <1>3, <1>11 DEF InFlight
    <2>2. stage'[s] = "none" => AnswerRight(s)'
      BY <1>2, <2>1 DEF AnswerRight
    <2>3. row'[s] # 0 => Owned(s, row[s])
      BY <1>1, <1>3, <1>5, <2>1 DEF SessionOK
    <2>4. \A id \in {held'[s], row'[s]} \ {0} : Owned(s, id)'
      BY <1>2, <1>3, <1>9, <2>1, <2>3
    <2> QED
      BY <1>2, <1>3, <2>2, <2>4
  <1>12. stage'[s] # "none" => pc'[s] \in {"idle", "ok"}
    BY <1>1, <1>2 DEF SessionOK
  <1> QED
    BY <1>10, <1>11, <1>12 DEF SessionOK

LEMMA RestartSession ==
    ASSUME MergeInv, RestartDatabase, NEW s \in Logins
    PROVE  SessionOK(s)'
  <1>1. AccountsInv /\ MergeTypeOK /\ SessionOK(s)
    BY DEF MergeInv
  <1>2. /\ UNCHANGED <<users, identities, subject, answer, sessionVars, historyVars>>
        /\ pc'[s] = IF pc[s] \in InTransaction THEN "error" ELSE pc[s]
    BY DEF RestartDatabase
  <1>3. \A id : Dead(id) => Dead(id)'
    BY <1>1, RestartKeepsAccounts
  <1>4. SubjectTaken(subject[s])' = SubjectTaken(subject[s])
        /\ BindingOf(subject[s])' = BindingOf(subject[s])
    BY <1>2 DEF SubjectTaken, BindingOf
  <1>5. CASE pc'[s] = pc[s]
    <2>1. AnswerRight(s) => AnswerRight(s)'
      BY <1>2, <1>5 DEF AnswerRight
    <2> QED
      BY <1>1, <1>2, <1>3, <1>4, <1>5, <2>1, SessionKept DEF sessionVars, historyVars
  <1>6. CASE pc[s] \in InTransaction
    <2>1. stage'[s] = "none" /\ pc'[s] = "error"
      BY <1>1, <1>2, <1>6 DEF SessionOK, InTransaction, sessionVars
    <2>2. held'[s] = 0 /\ row'[s] = 0 /\ sub'[s] = 0
      BY <1>1, <1>2, <2>1, NothingYet DEF sessionVars
    <2> QED
      BY <2>1, <2>2 DEF SessionOK, AnswerRight
  <1> QED
    BY <1>2, <1>5, <1>6

\* What a request of a session does to it: it takes over what the session was given,
\* has read or has stored.
Moves(s) ==
    /\ UNCHANGED vars /\ UNCHANGED <<merges, overtaken>>
    /\ pc[s] \in {"idle", "ok"} /\ stage'[s] # "none"
    /\ \A id \in {held'[s], row'[s]} \ {0} :
        \/ id \in {held[s], row[s]}
        \/ pc[s] = "ok" /\ stage[s] = "none" /\ id = answer[s]
        \/ pc[s] = "idle" /\ \E u \in users : u.id = id
    /\ \/ sub'[s] = sub[s] /\ outdated' = outdated
       \/ sub'[s] = held[s] /\ outdated' = outdated \ {s}
    /\ \A r \in Logins \ {s} : /\ stage'[r] = stage[r] /\ held'[r] = held[r]
                              /\ row'[r] = row[r] /\ sub'[r] = sub[r]

LEMMA MovedSession ==
    ASSUME MergeInv, NEW s \in Logins, Moves(s), NEW r \in Logins
    PROVE  SessionOK(r)'
  <1>1. AccountsInv /\ SessionOK(r) /\ UNCHANGED <<vars, pc, subject, answer, users, identities>>
    BY DEF MergeInv, Moves, vars, dbVars, loginVars
  <1>2. /\ AnswerRight(r) => AnswerRight(r)'
        /\ \A id : Dead(id) => Dead(id)'
        /\ SubjectTaken(subject[r])' = SubjectTaken(subject[r])
        /\ BindingOf(subject[r])' = BindingOf(subject[r])
    BY <1>1 DEF AnswerRight, Dead, SubjectTaken, BindingOf, vars, dbVars
  <1>3. /\ \A id : Named(r, id) => Named(r, id)'
        /\ \A id : Owned(r, id) => Owned(r, id)'
    BY <1>1, <1>2 DEF Named, Owned
  <1>4. CASE r # s
    BY <1>1, <1>2, <1>4, SessionKept DEF Moves
  <1>5. CASE r = s
    <2>1. pc'[s] = "ok" => /\ SubjectTaken(subject[s])'
                           /\ \A id \in {held'[s], row'[s], sub'[s]} \ {0} : Named(s, id)'
      BY <1>1, <1>2, <1>3, <1>5 DEF SessionOK, Moves
    <2>2. ASSUME s \notin overtaken', NEW id \in {held'[s], row'[s]} \ {0} PROVE Owned(s, id)'
      <3>1. CASE id \in {held[s], row[s]}
        BY <1>1, <1>3, <1>5, <2>2, <3>1 DEF SessionOK, Moves
      <3>2. CASE pc[s] = "ok" /\ stage[s] = "none" /\ id = answer[s]
        <4>1. SubjectTaken(subject[s]) /\ AnswerRight(s)
          BY <1>1, <1>5, <2>2, <3>2 DEF SessionOK, Moves
        <4>2. id = BindingOf(subject[s])
          BY <1>1, <3>2, <4>1, BindingIs DEF AnswerRight
        <4> QED
          BY <1>3, <1>5, <3>2, <4>2 DEF Owned
      <3>3. CASE pc[s] = "idle" /\ \E u \in users : u.id = id
        BY <1>3, <1>5, <3>3 DEF Owned
      <3> QED
        BY <2>2, <3>1, <3>2, <3>3 DEF Moves
    <2>3. s \notin overtaken' /\ s \notin outdated' /\ sub'[s] # 0 => Owned(s, sub[s])'
      BY <1>1, <1>3, <1>5 DEF SessionOK, Moves
    <2>4. stage'[s] # "none" /\ pc'[s] \in {"idle", "ok"}
      BY <1>1 DEF Moves
    <2> QED
      BY <1>5, <2>1, <2>2, <2>3, <2>4 DEF SessionOK
  <1> QED
    BY <1>4, <1>5

RequestOf(s) ==
    \/ Authenticate(s) \/ SaveCode(s) \/ LoadCode(s)
    \/ LoadTokens(s) \/ SaveTokens(s) \/ FailRequest(s)

LEMMA RequestMoves ==
    ASSUME MergeInv, NEW s \in Logins, RequestOf(s)
    PROVE  Moves(s) /\ MergeTypeOK'
  <1>1. AccountsInv /\ MergeTypeOK /\ SessionOK(s)
    BY DEF MergeInv
  <1> USE DEF Goto, Moves, historyVars
  <1>2. CASE Authenticate(s)
    <2>1. PICK u \in users : held' = [held EXCEPT ![s] = u.id]
      BY <1>2 DEF Authenticate
    <2>2. u.id \in Ids /\ u.id # 0
      BY <1>1, IdTypes DEF Ids
    <2>3. held[s] = 0 /\ row[s] = 0 /\ sub[s] = 0
      BY <1>1, <1>2, NothingYet DEF Authenticate
    <2>4. Moves(s)
      BY <1>1, <1>2, <2>1, <2>3 DEF Authenticate, MergeTypeOK
    <2>5. MergeTypeOK'
      BY <1>1, <1>2, <2>1, <2>2, <2>3 DEF Authenticate, MergeTypeOK, Subject, TypeOK, vars, dbVars,
         loginVars, signupVars
    <2> QED
      BY <2>4, <2>5
  <1>3. CASE SaveCode(s)
    <2>1. PICK id : /\ row' = [row EXCEPT ![s] = id]
                    /\ \/ stage[s] = "account" /\ id = held[s]
                       \/ stage[s] = "none" /\ pc[s] = "ok" /\ id = answer[s]
      BY <1>3 DEF SaveCode
    <2>2. id \in Subject /\ id # 0
      <3>1. CASE stage[s] = "account" /\ id = held[s]
        BY <1>1, <3>1 DEF MergeTypeOK
      <3>2. CASE stage[s] = "none" /\ pc[s] = "ok" /\ id = answer[s]
        BY <1>1, <3>2, BindingIs, BoundsAssumption DEF SessionOK, Named, Dead, Ids, Subject
      <3> QED
        BY <2>1, <3>1, <3>2
    <2>3. Moves(s)
      BY <1>1, <1>3, <2>1 DEF SaveCode, MergeTypeOK, SessionOK
    <2>4. MergeTypeOK'
      BY <1>1, <1>3, <2>1, <2>2 DEF SaveCode, MergeTypeOK, TypeOK, vars, dbVars, loginVars,
         signupVars
    <2> QED
      BY <2>3, <2>4
  <1>4. CASE LoadCode(s)
    <2>1. Moves(s)
      BY <1>1, <1>4 DEF LoadCode, MergeTypeOK, SessionOK
    <2>2. MergeTypeOK'
      BY <1>1, <1>4 DEF LoadCode, MergeTypeOK, TypeOK, vars, dbVars, loginVars, signupVars
    <2> QED
      BY <2>1, <2>2
  <1>5. CASE LoadTokens(s)
    <2>1. Moves(s)
      BY <1>1, <1>5 DEF LoadTokens, MergeTypeOK, SessionOK
    <2>2. MergeTypeOK'
      BY <1>1, <1>5 DEF LoadTokens, MergeTypeOK, TypeOK, vars, dbVars, loginVars, signupVars
    <2> QED
      BY <2>1, <2>2
  <1>6. CASE SaveTokens(s)
    <2>1. Moves(s)
      BY <1>1, <1>6 DEF SaveTokens, NewSubject, MergeTypeOK, SessionOK
    <2>2. MergeTypeOK'
      BY <1>1, <1>6 DEF SaveTokens, NewSubject, MergeTypeOK, TypeOK, vars, dbVars, loginVars,
         signupVars
    <2> QED
      BY <2>1, <2>2
  <1>7. CASE FailRequest(s)
    <2>1. Moves(s)
      BY <1>1, <1>7 DEF FailRequest, MergeTypeOK, SessionOK
    <2>2. MergeTypeOK'
      BY <1>1, <1>7 DEF FailRequest, MergeTypeOK, TypeOK, vars, dbVars, loginVars, signupVars
    <2> QED
      BY <2>1, <2>2
  <1> QED
    BY <1>2, <1>3, <1>4, <1>5, <1>6, <1>7 DEF RequestOf

-----------------------------------------------------------------------------
(* The inductive invariant and what it implies *)

LEMMA MergeInitInv == MergeInit => MergeInv
  <1> SUFFICES ASSUME MergeInit PROVE MergeInv
    OBVIOUS
  <1>1. /\ Init /\ row \in [Logins -> Subjects \cup {0}]
        /\ held = [s \in Logins |-> 0] /\ sub = row
        /\ stage = [s \in Logins |-> IF row[s] = 0 THEN "none" ELSE "tokens"]
        /\ merges = 0 /\ overtaken = {} /\ outdated = {}
    BY DEF MergeInit
  <1>2. AccountsInv
    BY <1>1, InitInv DEF IInv
  <1>3. users = {} /\ \A l \in Logins : pc[l] = "idle"
    BY <1>1 DEF Init
  <1>4. TablesInv
    BY <1>2 DEF AccountsInv
  <1>5. MergeTypeOK
    BY <1>1, <1>4, MergesAssumption, SubjectsAssumption DEF TablesInv, MergeTypeOK, Subject
  <1>6. ASSUME NEW s \in Logins PROVE SessionOK(s)
    BY <1>1, <1>3 DEF SessionOK, AnswerRight, Owned
  <1> QED
    BY <1>2, <1>5, <1>6 DEF MergeInv

LEMMA MergeKeepsTypesOfRows ==
    ASSUME MergeInv, Merge
    PROVE  MergeTypeOK'
  <1>1. AccountsInv /\ MergeTypeOK
    BY DEF MergeInv
  <1>2. /\ UNCHANGED <<stage, held, sub>> /\ merges < MaxMerges /\ merges' = merges + 1
        /\ row' = [s \in Logins |-> MergedId(row[s])]
        /\ overtaken' \subseteq overtaken \cup Logins /\ outdated' \subseteq Logins
    BY DEF Merge, RewrittenRow
  <1>3. ASSUME NEW s \in Logins
        PROVE  row'[s] \in Subject \cup {0} /\ (row'[s] # 0 <=> row[s] # 0)
    <2>1. row[s] \in Subject \cup {0} /\ row'[s] = MergedId(row[s])
      BY <1>1, <1>2 DEF MergeTypeOK
    <2>2. \A p \in Pairs : /\ p.shadow.id \in Ids /\ p.target.id \in Ids
                           /\ p.shadow.id # 0 /\ p.target.id # 0
      BY <1>1, PairFacts, IdTypes DEF Ids
    <2> QED
      BY <2>1, <2>2, MergedIdIs DEF Subject
  <1>4. TypeOK'
    BY <1>1, MergeKeepsTypes
  <1>5. merges' \in 0..MaxMerges
    BY <1>1, <1>2, MergesAssumption DEF MergeTypeOK
  <1> QED
    BY <1>1, <1>2, <1>3, <1>4, <1>5 DEF MergeTypeOK

LEMMA MergeStepInv == MergeInv /\ [MergeNext]_allVars => MergeInv'
  <1> SUFFICES ASSUME MergeInv, [MergeNext]_allVars PROVE MergeInv'
    OBVIOUS
  <1>1. AccountsInv /\ MergeTypeOK
    BY DEF MergeInv
  <1>2. CASE Service
    <2>1. AccountsInv'
      BY <1>1, <1>2, AccountsStep DEF Service
    <2>2. MergeTypeOK'
      BY <1>1, <1>2, <2>1 DEF Service, AccountsInv, TablesInv, MergeTypeOK, sessionVars, historyVars
    <2> QED
      BY <1>2, <2>1, <2>2, ServiceSession DEF MergeInv
  <1>3. CASE Merge
    BY <1>1, <1>3, MergeKeepsAccounts, MergeKeepsTypesOfRows, MergeSession DEF MergeInv
  <1>4. CASE RestartDatabase
    <2>1. AccountsInv'
      BY <1>1, <1>4, RestartKeepsAccounts
    <2>2. MergeTypeOK'
      BY <1>1, <1>4, <2>1 DEF RestartDatabase, AccountsInv, TablesInv, MergeTypeOK, sessionVars,
         historyVars
    <2> QED
      BY <1>4, <2>1, <2>2, RestartSession DEF MergeInv
  <1>5. ASSUME UNCHANGED vars PROVE AccountsInv'
    BY <1>1, <1>5, AccountsStep
  <1>6. ASSUME NEW s \in Logins, RequestOf(s) PROVE MergeInv'
    <2>1. Moves(s) /\ MergeTypeOK'
      BY <1>6, RequestMoves
    <2>2. AccountsInv'
      BY <1>5, <2>1 DEF Moves
    <2> QED
      BY <1>6, <2>1, <2>2, MovedSession DEF MergeInv
  <1>7. CASE UNCHANGED allVars
    <2>1. AccountsInv' /\ UNCHANGED vars
      BY <1>5, <1>7 DEF allVars
    <2>2. MergeTypeOK'
      BY <1>1, <1>7, <2>1 DEF AccountsInv, TablesInv, MergeTypeOK, allVars, sessionVars, historyVars
    <2>3. ASSUME NEW s \in Logins PROVE SessionOK(s)'
      <3>1. /\ SessionOK(s) /\ UNCHANGED <<pc, subject, answer, users, identities>>
            /\ UNCHANGED <<stage, held, row, sub, overtaken, outdated>>
        BY <1>7 DEF MergeInv, allVars, vars, dbVars, loginVars, sessionVars, historyVars
      <3>2. /\ AnswerRight(s) => AnswerRight(s)'
            /\ \A id : Dead(id) => Dead(id)'
            /\ SubjectTaken(subject[s])' = SubjectTaken(subject[s])
            /\ BindingOf(subject[s])' = BindingOf(subject[s])
        BY <2>1, <3>1 DEF AnswerRight, Dead, SubjectTaken, BindingOf, vars, dbVars
      <3> QED
        BY <3>1, <3>2, SessionKept
    <2> QED
      BY <2>1, <2>2, <2>3 DEF MergeInv
  <1> QED
    BY <1>2, <1>3, <1>4, <1>6, <1>7 DEF MergeNext, RequestOf

\* The inductive invariant holds throughout every behaviour, however often the
\* migration is run, beside whatever logins, signups, requests and restarts.
THEOREM MergeInvariance == MergeSpec => []MergeInv
  BY MergeInitInv, MergeStepInv, PTL DEF MergeSpec

\* Every variable keeps its type: in particular a row of oauth2_token is never
\* rewritten with anything but an account or a CAS user.
THEOREM MergeTypeCorrect == MergeSpec => []MergeTypeOK
  <1>1. MergeInv => MergeTypeOK
    BY DEF MergeInv
  <1> QED
    BY <1>1, MergeInvariance, PTL

\* The migration leaves no shadow account without an identity (the DELETE of
\* cas_user_merge_pairs), nor do logins beside it.
THEOREM MergeLeavesNoOrphan == MergeSpec => []NoOrphanShadow
  <1>1. MergeInv => NoOrphanShadow
    BY DEF MergeInv, AccountsInv, TablesInv
  <1> QED
    BY <1>1, MergeInvariance, PTL

\* The migration binds a CAS user to no account it has no claim to, and nobody to
\* another's shadow account.
THEOREM MergeByRight == MergeSpec => []BoundByRight
  <1>1. MergeInv => BoundByRight
    BY DEF MergeInv, AccountsInv, TablesInv, BoundByRight
  <1> QED
    BY <1>1, MergeInvariance, PTL

\* A session's row of oauth2_token names the account its CAS user is bound to,
\* through any number of merges, unless one overtook a request of the session.
THEOREM RowsFollow == MergeSpec => []RowsFollowAccount
  <1>1. ASSUME MergeInv PROVE RowsFollowAccount
    BY <1>1 DEF MergeInv, SessionOK, RowsFollowAccount
  <1> QED
    BY <1>1, MergeInvariance, PTL

\* An access token made after the last merge names that account too, and its
\* profile request is answered.
THEOREM RefreshedServed == MergeSpec => []RefreshedTokensServed
  <1>1. ASSUME MergeInv, NEW s \in Logins \ (overtaken \cup outdated), sub[s] # 0
        PROVE  Owned(s, sub[s]) /\ Profile(s) # {}
    <2>1. AccountsInv /\ SessionOK(s) /\ Owned(s, sub[s])
      BY <1>1 DEF MergeInv, SessionOK
    <2>2. CASE sub[s] \in Subjects
      BY <2>1, <2>2 DEF Profile, CASUsername
    <2>3. CASE sub[s] \notin Subjects
      <3>1. \E u \in users : u.id = sub[s]
        <4>1. CASE pc[s] = "ok"
          BY <2>1, <4>1, BindingIs, IdentityHasUser DEF SessionOK, Owned
        <4>2. CASE pc[s] # "ok"
          BY <2>1, <2>3, <4>2 DEF Owned
        <4> QED
          BY <4>1, <4>2
      <3>2. LocalUserID(s) = sub[s] /\ CASUsername(s) = {}
        BY <2>1, <2>3, <3>1, IdTypes DEF LocalUserID, CASUsername
      <3> QED
        BY <2>1, <3>1, <3>2 DEF Profile, GetUserInfoByID
    <2> QED
      BY <2>1, <2>2, <2>3
  <1>2. MergeInv => RefreshedTokensServed
    BY <1>1 DEF RefreshedTokensServed
  <1> QED
    BY <1>2, MergeInvariance, PTL

\* No access token of a CAS login, however old, opens the profile of another
\* account than its user's, nor the administrators' routes in another's name: the
\* id of a merged account is never given out again.
THEOREM OnlyOwnersServed == MergeSpec => []ServedAsOwner
  <1>1. ASSUME MergeInv, NEW s \in Logins, pc[s] = "ok", sub[s] \in Ids
        PROVE  /\ Profile(s) # {} => sub[s] = BindingOf(subject[s])
               /\ AdminAllowed(s) => \E u \in users :
                       u.id = BindingOf(subject[s]) /\ CanManageOAuthClients(u)
    <2>1. sub[s] # 0 /\ sub[s] \notin Subjects
      BY <1>1, BoundsAssumption, SubjectsAssumption DEF Ids
    <2>2. Named(s, sub[s])
      BY <1>1, <2>1 DEF MergeInv, SessionOK
    <2>3. LocalUserID(s) = sub[s] /\ CASUsername(s) = {}
      BY <1>1, <2>1 DEF LocalUserID, CASUsername
    <2>4. (\E u \in users : u.id = sub[s]) => sub[s] = BindingOf(subject[s])
      BY <2>2 DEF Named, Dead
    <2> QED
      BY <2>3, <2>4 DEF Profile, GetUserInfoByID, AdminAllowed
  <1>2. MergeInv => ServedAsOwner
    BY <1>1 DEF ServedAsOwner
  <1> QED
    BY <1>2, MergeInvariance, PTL
====
