---- MODULE CASIdentity_proofs ----
(***************************************************************************)
(* Theorems about CASIdentity, for every set of logins, signups, names and *)
(* emails: the inductive invariant IInv, the safety invariants it implies, *)
(* and that the resolver implements IdentityRegistry.                      *)
(***************************************************************************)
EXTENDS CASIdentity, TLAPS

\* A login that does not move keeps what its transaction holds, as rows of
\* users are only ever added.
LEMMA TransactionKept ==
    ASSUME NEW l \in Logins, TransactionOK(l),
           pc'[l] = pc[l], subject'[l] = subject[l], email'[l] = email[l],
           target'[l] = target[l], txUsers'[l] = txUsers[l],
           txIdentities'[l] = txIdentities[l], users \subseteq users'
    PROVE  TransactionOK(l)'
  <1>1. IdentityRow(l)' = IdentityRow(l)
    BY DEF IdentityRow
  <1>2. ASSUME NEW u \in users \cup txUsers[l],
               u.id = target[l], HasClaim(subject[l], email[l], u)
        PROVE  \E v \in users' \cup txUsers'[l] :
                   v.id = target'[l] /\ HasClaim(subject'[l], email'[l], v)
    BY <1>2 DEF HasClaim
  <1> QED
    BY <1>1, <1>2 DEF TransactionOK, HasClaim

\* The committed rows are right when nothing was committed.
LEMMA CommittedKept ==
    ASSUME OneRowPerSubject, NoOrphanShadow, ClaimsHeld,
           identities' = identities, users \subseteq users',
           \A u \in users' \ users : u.info # CasInfo
    PROVE  OneRowPerSubject' /\ NoOrphanShadow' /\ ClaimsHeld'
  BY DEF OneRowPerSubject, NoOrphanShadow, ClaimsHeld, HasClaim

\* Login l was answered with what its subject is bound to; each such answer stays
\* right, and each new one is, whatever became of the others.
AnswerRight(l) ==
    pc[l] = "ok" =>
        /\ \E i \in identities : i.provider_subject = subject[l]
        /\ \A i \in identities : i.provider_subject = subject[l] => i.user_id = answer[l]
AnswersStay == \A l \in Logins : AnswerRight(l) => AnswerRight(l)'

\* No answer is disturbed by a step that commits no identity and answers no
\* login.
LEMMA AnswersKept ==
    ASSUME identities' = identities,
           \A l \in Logins : pc'[l] = "ok" =>
               pc[l] = "ok" /\ subject'[l] = subject[l] /\ answer'[l] = answer[l]
    PROVE  AnswersStay
  BY DEF AnswersStay, AnswerRight

\* Pending identities stay clear of each other when none is added.
LEMMA PendingKept ==
    ASSUME PendingSubjectsFree, identities' = identities,
           \A l \in Logins : txIdentities'[l] \subseteq txIdentities[l]
    PROVE  PendingSubjectsFree'
  BY DEF PendingSubjectsFree, SubjectTaken, SubjectLocked

LEMMA InitInv == Init => IInv
  BY NamesAssumption, BoundsAssumption
  DEF Init, IInv, AccountsInv, TablesInv, TypeOK, OneRowPerSubject, PendingSubjectsFree,
      TransactionOK, NoOrphanShadow, ClaimsHeld, IdsApart, OneOwner, SameEmailAsShadow,
      TargetOK, AnswersAgree, MaybeEmail, Ids, Working, InTransaction

-----------------------------------------------------------------------------
(* One lemma per operation *)

LEMMA RollbackInv ==
    ASSUME TablesInv, NEW l \in Logins, Rollback(l), UNCHANGED signupVars
    PROVE  TablesInv' /\ AnswersStay
  <1> USE DEF Rollback, signupVars
  <1>1. TypeOK'
    BY DEF TablesInv, TypeOK, Answered
  <1>2. ASSUME NEW m \in Logins PROVE TransactionOK(m)'
    <2>1. CASE m = l
      BY <2>1 DEF TablesInv, TypeOK, TransactionOK, Working, InTransaction
    <2>2. CASE m # l
      <3>1. TransactionOK(m)
        BY DEF TablesInv
      <3> QED
        BY <2>2, <3>1, TransactionKept DEF TablesInv, TypeOK
    <2> QED
      BY <2>1, <2>2
  <1>3. PendingSubjectsFree'
    BY PendingKept DEF TablesInv, TypeOK
  <1>4. AnswersStay
    BY AnswersKept DEF TablesInv, TypeOK
  <1> QED
    BY <1>1, <1>2, <1>3, <1>4, CommittedKept DEF TablesInv

LEMMA ArriveInv ==
    ASSUME TablesInv, NEW l \in Logins, Arrive(l)
    PROVE  TablesInv' /\ AnswersStay
  <1> USE DEF Arrive, dbVars, signupVars
  <1>1. TypeOK'
    BY DEF TablesInv, TypeOK, Answered, Working
  <1>2. ASSUME NEW m \in Logins PROVE TransactionOK(m)'
    <2>1. CASE m = l
      BY <2>1 DEF TablesInv, TypeOK, TransactionOK, Working, InTransaction
    <2>2. CASE m # l
      <3>1. TransactionOK(m)
        BY DEF TablesInv
      <3> QED
        BY <2>2, <3>1, TransactionKept DEF TablesInv, TypeOK
    <2> QED
      BY <2>1, <2>2
  <1>3. PendingSubjectsFree'
    BY PendingKept DEF TablesInv
  <1>4. AnswersStay
    BY AnswersKept DEF TablesInv, TypeOK
  <1> QED
    BY <1>1, <1>2, <1>3, <1>4, CommittedKept DEF TablesInv

LEMMA LookupIdentityInv ==
    ASSUME TablesInv, NEW l \in Logins, LookupIdentity(l)
    PROVE  TablesInv' /\ AnswersStay
  <1> USE DEF LookupIdentity, dbVars, signupVars, Return
  <1>1. TypeOK'
    BY DEF TablesInv, TypeOK, Answered, Working, InTransaction, UserIdentity
  <1>2. ASSUME NEW m \in Logins PROVE TransactionOK(m)'
    <2>1. CASE m = l
      BY <2>1 DEF TablesInv, TypeOK, TransactionOK, Working, InTransaction
    <2>2. CASE m # l
      <3>1. TransactionOK(m)
        BY DEF TablesInv
      <3> QED
        BY <2>2, <3>1, TransactionKept DEF TablesInv, TypeOK
    <2> QED
      BY <2>1, <2>2
  <1>3. PendingSubjectsFree'
    BY PendingKept DEF TablesInv
  <1>4. AnswersStay
    \* The row that answers login l is the only one of its subject.
    BY DEF TablesInv, TypeOK, AnswersStay, AnswerRight, OneRowPerSubject, SubjectTaken
  <1> QED
    BY <1>1, <1>2, <1>3, <1>4, CommittedKept DEF TablesInv

LEMMA FindLocalUserInv ==
    ASSUME TablesInv, NEW l \in Logins, FindLocalUser(l)
    PROVE  TablesInv' /\ AnswersStay
  <1> USE DEF FindLocalUser, dbVars, signupVars
  <1>1. LocalUsers(subject[l], email[l]) \subseteq User
    BY DEF TablesInv, TypeOK, LocalUsers, SameEmail, SameUsername
  <1>2. TypeOK'
    BY <1>1 DEF TablesInv, TypeOK, Working, InTransaction, User
  <1>3. ASSUME NEW m \in Logins PROVE TransactionOK(m)'
    <2>1. CASE m = l
      <3>1. CASE LocalUsers(subject[l], email[l]) = {}
        BY <2>1, <3>1 DEF TablesInv, TypeOK, TransactionOK, Working, InTransaction
      <3>2. CASE LocalUsers(subject[l], email[l]) # {}
        <4>1. PICK u \in LocalUsers(subject[l], email[l]) :
                /\ target' = [target EXCEPT ![l] = u.id]
                /\ pc' = [pc EXCEPT ![l] = "createIdentity"]
          BY <3>2
        <4>2. u \in users /\ u.id \in Ids /\ HasClaim(subject[l], email[l], u)
          BY <1>1, <4>1 DEF LocalUsers, SameEmail, SameUsername, HasClaim, User
        <4>3. pc[l] = "find" /\ txUsers[l] = {} /\ txIdentities[l] = {}
          BY DEF TablesInv, TransactionOK
        <4> QED
          BY <2>1, <4>1, <4>2, <4>3
          DEF TablesInv, TypeOK, TransactionOK, Working, InTransaction, HasClaim
      <3> QED
        BY <3>1, <3>2
    <2>2. CASE m # l
      <3>1. TransactionOK(m)
        BY DEF TablesInv
      <3> QED
        BY <2>2, <3>1, TransactionKept DEF TablesInv, TypeOK
    <2> QED
      BY <2>1, <2>2
  <1>4. PendingSubjectsFree'
    BY PendingKept DEF TablesInv
  <1>5. AnswersStay
    BY AnswersKept DEF TablesInv, TypeOK
  <1> QED
    BY <1>2, <1>3, <1>4, <1>5, CommittedKept DEF TablesInv

LEMMA CreateUserInv ==
    ASSUME TablesInv, NEW l \in Logins, CreateUser(l)
    PROVE  TablesInv' /\ AnswersStay
  <1>1. CASE Rollback(l)
    BY <1>1, RollbackInv DEF CreateUser
  <1>2. CASE ~Rollback(l)
    <2>1. /\ pc[l] = "createUser" /\ nextId \in Ids
          /\ txUsers' = [txUsers EXCEPT ![l] = @ \cup {ShadowUser(l)}]
          /\ nextId' = nextId + 1
          /\ target' = [target EXCEPT ![l] = nextId]
          /\ pc' = [pc EXCEPT ![l] = "createIdentity"]
          /\ UNCHANGED <<users, identities, txIdentities, subject, email, answer>>
          /\ UNCHANGED signupVars
      BY <1>2, BoundsAssumption DEF CreateUser, TablesInv, TypeOK, Ids
    <2>2. TransactionOK(l) /\ subject[l] \in Subjects
      BY <2>1 DEF TablesInv, TransactionOK, Working, InTransaction
    <2>3. ShadowUser(l) \in User
      BY <2>1, <2>2, NamesAssumption DEF TablesInv, TypeOK, ShadowUser, User
    <2>4. TypeOK'
      BY <2>1, <2>3, BoundsAssumption
      DEF TablesInv, TypeOK, Working, InTransaction, Ids, signupVars
    <2>5. ASSUME NEW m \in Logins PROVE TransactionOK(m)'
      <3>1. CASE m = l
        <4>1. txUsers'[l] = {ShadowUser(l)} /\ txIdentities'[l] = {}
          BY <2>1, <2>2 DEF TablesInv, TypeOK, TransactionOK
        <4>2. /\ ShadowUser(l).id = target'[l]
              /\ ShadowUser(l).username = ShadowOf[subject'[l]]
              /\ HasClaim(subject'[l], email'[l], ShadowUser(l))
          BY <2>1, <2>2, NamesAssumption DEF TablesInv, TypeOK, ShadowUser, HasClaim
        <4> QED
          BY <2>1, <2>2, <3>1, <4>1, <4>2
          DEF TablesInv, TypeOK, TransactionOK, HasClaim
      <3>2. CASE m # l
        <4>1. TransactionOK(m)
          BY DEF TablesInv
        <4> QED
          BY <2>1, <3>2, <4>1, TransactionKept DEF TablesInv, TypeOK
      <3> QED
        BY <3>1, <3>2
    <2>6. PendingSubjectsFree'
      BY <2>1, PendingKept DEF TablesInv
    <2>7. AnswersStay
      BY <2>1, AnswersKept DEF TablesInv, TypeOK
    <2> QED
      BY <2>1, <2>4, <2>5, <2>6, <2>7, CommittedKept DEF TablesInv
  <1> QED
    BY <1>1, <1>2

LEMMA CreateIdentityInv ==
    ASSUME TablesInv, NEW l \in Logins, CreateIdentity(l)
    PROVE  TablesInv' /\ AnswersStay
  <1>1. CASE Rollback(l)
    BY <1>1, RollbackInv DEF CreateIdentity
  <1>2. CASE ~Rollback(l)
    <2>1. /\ pc[l] = "createIdentity"
          /\ ~SubjectLocked(subject[l], Logins \ {l}) /\ ~SubjectTaken(subject[l])
          /\ txIdentities' = [txIdentities EXCEPT ![l] = @ \cup {IdentityRow(l)}]
          /\ pc' = [pc EXCEPT ![l] = "commit"]
          /\ UNCHANGED <<users, identities, nextId, txUsers, subject, email, target, answer>>
          /\ UNCHANGED signupVars
      BY <1>2 DEF CreateIdentity
    <2>2. /\ TransactionOK(l) /\ txIdentities[l] = {}
          /\ subject[l] \in Subjects /\ target[l] \in Ids
      BY <2>1 DEF TablesInv, TransactionOK, Working, InTransaction
    <2>3. IdentityRow(l) \in UserIdentity /\ IdentityRow(l)' = IdentityRow(l)
      BY <2>1, <2>2 DEF TablesInv, TypeOK, IdentityRow, UserIdentity
    <2>4. TypeOK'
      BY <2>1, <2>3 DEF TablesInv, TypeOK, Working, InTransaction, signupVars
    <2>5. ASSUME NEW m \in Logins PROVE TransactionOK(m)'
      <3>1. CASE m = l
        BY <2>1, <2>2, <2>3, <3>1
        DEF TablesInv, TypeOK, TransactionOK, HasClaim, Working, InTransaction
      <3>2. CASE m # l
        <4>1. TransactionOK(m)
          BY DEF TablesInv
        <4> QED
          BY <2>1, <3>2, <4>1, TransactionKept DEF TablesInv, TypeOK
      <3> QED
        BY <3>1, <3>2
    <2>6. PendingSubjectsFree'
      <3>1. txIdentities'[l] = {IdentityRow(l)} /\ IdentityRow(l).provider_subject = subject[l]
        BY <2>1, <2>2 DEF TablesInv, TypeOK, IdentityRow
      <3>2. \A m \in Logins \ {l} : txIdentities'[m] = txIdentities[m]
        BY <2>1 DEF TablesInv, TypeOK
      <3> QED
        BY <2>1, <3>1, <3>2 DEF TablesInv, PendingSubjectsFree, SubjectTaken, SubjectLocked
    <2>7. AnswersStay
      BY <2>1, AnswersKept DEF TablesInv, TypeOK
    <2> QED
      BY <2>1, <2>4, <2>5, <2>6, <2>7, CommittedKept DEF TablesInv
  <1> QED
    BY <1>1, <1>2

\* Committing, whether the login is then told so or not.
LEMMA PublishInv ==
    ASSUME TablesInv, NEW l \in Logins, pc[l] = "commit", Publish(l),
           \/ Return(l, target[l])
           \/ /\ pc' = [pc EXCEPT ![l] = "error"]
              /\ UNCHANGED <<subject, email, target, answer>>,
           UNCHANGED signupVars
    PROVE  TablesInv' /\ AnswersStay
  <1> USE DEF Publish, Return, signupVars
  <1>1. /\ TransactionOK(l) /\ txIdentities[l] = {IdentityRow(l)}
        /\ subject[l] \in Subjects /\ target[l] \in Ids
    BY DEF TablesInv, TransactionOK, Working, InTransaction
  <1>2. /\ IdentityRow(l).provider_subject = subject[l]
        /\ IdentityRow(l).user_id = target[l]
        /\ IdentityRow(l).email = email[l]
    BY DEF IdentityRow
  <1>3. ~SubjectTaken(subject[l])
    BY <1>1, <1>2 DEF TablesInv, PendingSubjectsFree
  <1>4. TypeOK'
    BY <1>1 DEF TablesInv, TypeOK, Answered
  <1>5. ASSUME NEW m \in Logins PROVE TransactionOK(m)'
    <2>1. CASE m = l
      BY <2>1 DEF TablesInv, TypeOK, TransactionOK, Working, InTransaction
    <2>2. CASE m # l
      <3>1. TransactionOK(m)
        BY DEF TablesInv
      <3> QED
        BY <2>2, <3>1, TransactionKept DEF TablesInv, TypeOK
    <2> QED
      BY <2>1, <2>2
  <1>6. PendingSubjectsFree'
    <2>1. SUFFICES ASSUME NEW m \in Logins, NEW i \in txIdentities'[m]
                   PROVE  /\ ~SubjectTaken(i.provider_subject)'
                          /\ ~SubjectLocked(i.provider_subject, Logins \ {m})'
      BY DEF PendingSubjectsFree
    <2>2. m # l /\ i \in txIdentities[m]
      BY DEF TablesInv, TypeOK
    <2>3. i.provider_subject # subject[l]
      BY <1>1, <1>2, <2>2 DEF TablesInv, PendingSubjectsFree, SubjectLocked
    <2>4. ~SubjectTaken(i.provider_subject)'
      BY <1>1, <1>2, <2>2, <2>3 DEF TablesInv, PendingSubjectsFree, SubjectTaken
    <2>5. ~SubjectLocked(i.provider_subject, Logins \ {m})'
      BY <2>2 DEF TablesInv, TypeOK, PendingSubjectsFree, SubjectLocked
    <2> QED
      BY <2>4, <2>5
  <1>7. OneRowPerSubject'
    BY <1>1, <1>2, <1>3 DEF TablesInv, OneRowPerSubject, SubjectTaken
  <1>8. AnswersStay
    BY <1>1, <1>2, <1>3 DEF TablesInv, TypeOK, AnswersStay, AnswerRight, SubjectTaken
  <1>9. NoOrphanShadow'
    BY <1>1, <1>2 DEF TablesInv, TransactionOK, NoOrphanShadow
  <1>10. ClaimsHeld'
    BY <1>1, <1>2 DEF TablesInv, TransactionOK, ClaimsHeld, HasClaim
  <1> QED
    BY <1>4, <1>5, <1>6, <1>7, <1>8, <1>9, <1>10 DEF TablesInv

\* A step of a signup that leaves the tables alone.
LEMMA SignupReadInv ==
    ASSUME TablesInv, NEW p \in Signups, UNCHANGED <<dbVars, loginVars>>, TypeOK'
    PROVE  TablesInv' /\ AnswersStay
  <1> USE DEF dbVars, loginVars
  <1>1. ASSUME NEW m \in Logins PROVE TransactionOK(m)'
    <2>1. TransactionOK(m)
      BY DEF TablesInv
    <2> QED
      BY <2>1, TransactionKept
  <1>2. PendingSubjectsFree' /\ AnswersStay
    BY PendingKept, AnswersKept DEF TablesInv
  <1> QED
    BY <1>1, <1>2, CommittedKept DEF TablesInv

LEMMA InsertSignupInv ==
    ASSUME TablesInv, NEW p \in Signups, InsertSignup(p)
    PROVE  TablesInv' /\ AnswersStay
  <1> USE DEF InsertSignup, loginVars
  <1>1. form[p] \in Form
    BY DEF TablesInv, TypeOK
  <1>2. users' = users \/ (users' = users \cup {SignupUser(p)} /\ nextId \in Ids)
    BY BoundsAssumption DEF TablesInv, TypeOK, Ids
  <1>3. nextId \in Ids => SignupUser(p) \in User
    BY <1>1 DEF SignupUser, User, Form, MaybeEmail
  <1>4. SignupUser(p).info # CasInfo
    BY DEF SignupUser, CasInfo
  <1>5. TypeOK'
    <2>1. users' \subseteq User /\ nextId' \in 1..(MaxId + 1)
      BY <1>2, <1>3, BoundsAssumption DEF TablesInv, TypeOK, Ids
    <2> QED
      BY <1>1, <2>1 DEF TablesInv, TypeOK, Closed
  <1>6. ASSUME NEW m \in Logins PROVE TransactionOK(m)'
    <2>1. TransactionOK(m)
      BY DEF TablesInv
    <2> QED
      BY <1>2, <2>1, TransactionKept
  <1>7. PendingSubjectsFree' /\ AnswersStay
    BY PendingKept, AnswersKept DEF TablesInv
  <1> QED
    BY <1>2, <1>4, <1>5, <1>6, <1>7, CommittedKept DEF TablesInv

LEMMA TablesStep == TablesInv /\ [Next]_vars => TablesInv' /\ AnswersStay
  <1> SUFFICES ASSUME TablesInv, [Next]_vars PROVE TablesInv' /\ AnswersStay
    OBVIOUS
  <1>1. CASE UNCHANGED vars
    <2> USE <1>1 DEF vars, dbVars, loginVars, signupVars
    <2>1. TypeOK'
      BY DEF TablesInv, TypeOK
    <2>2. ASSUME NEW m \in Logins PROVE TransactionOK(m)'
      <3>1. TransactionOK(m)
        BY DEF TablesInv
      <3> QED
        BY <3>1, TransactionKept
    <2>3. PendingSubjectsFree' /\ AnswersStay
      BY PendingKept, AnswersKept DEF TablesInv
    <2> QED
      BY <2>1, <2>2, <2>3, CommittedKept DEF TablesInv
  <1>2. ASSUME NEW l \in Logins,
               Arrive(l) \/ LoginStep(l) \/ CommitUnacknowledged(l) \/ Fail(l)
        PROVE  TablesInv' /\ AnswersStay
    <2>1. CASE Arrive(l)
      BY <2>1, ArriveInv
    <2>2. CASE LookupIdentity(l)
      BY <2>2, LookupIdentityInv
    <2>3. CASE FindLocalUser(l)
      BY <2>3, FindLocalUserInv
    <2>4. CASE CreateUser(l)
      BY <2>4, CreateUserInv
    <2>5. CASE CreateIdentity(l)
      BY <2>5, CreateIdentityInv
    <2>6. CASE Commit(l)
      BY <2>6, PublishInv DEF Commit
    <2>7. CASE CommitUnacknowledged(l)
      BY <2>7, PublishInv DEF CommitUnacknowledged, signupVars
    <2>8. CASE Fail(l)
      BY <2>8, RollbackInv DEF Fail
    <2> QED
      BY <1>2, <2>1, <2>2, <2>3, <2>4, <2>5, <2>6, <2>7, <2>8 DEF LoginStep
  <1>3. ASSUME NEW p \in Signups, Submit(p) \/ SignupStep(p) \/ FailSignup(p)
        PROVE  TablesInv' /\ AnswersStay
    <2>1. CASE Submit(p)
      <3>1. TypeOK'
        BY <2>1 DEF Submit, TablesInv, TypeOK, dbVars, loginVars
      <3> QED
        BY <2>1, <3>1, SignupReadInv DEF Submit
    <2>2. ASSUME NEW c \in Column, CheckColumn(p, c) PROVE TablesInv' /\ AnswersStay
      <3>1. TypeOK'
        BY <2>2 DEF CheckColumn, TablesInv, TypeOK, dbVars, loginVars, Closed
      <3> QED
        BY <2>2, <3>1, SignupReadInv DEF CheckColumn
    <2>3. CASE InsertSignup(p)
      BY <2>3, InsertSignupInv
    <2>4. CASE FailSignup(p)
      <3>1. TypeOK'
        BY <2>4 DEF FailSignup, TablesInv, TypeOK, dbVars, loginVars, Closed
      <3> QED
        BY <2>4, <3>1, SignupReadInv DEF FailSignup
    <2> QED
      BY <1>3, <2>1, <2>2, <2>3, <2>4 DEF SignupStep
  <1> QED
    BY <1>1, <1>2, <1>3 DEF Next

-----------------------------------------------------------------------------
(* Which account is whose *)

\* An id that was given out and is of no account any more: the account was never
\* committed or, in AccountMerge, it is deleted.  The id is never used again.
Dead(id) ==
    /\ id \in Ids /\ id < nextId
    /\ \A u \in users : u.id # id
    /\ \A l \in Logins : \A u \in txUsers[l] : u.id # id

\* Ids are numbers, and what an open transaction is about is below the counter.
LEMMA IdTypes ==
    ASSUME AccountsInv
    PROVE  /\ nextId \in Nat /\ Ids \subseteq Nat
           /\ \A u \in users : u.id \in Ids
           /\ \A l \in Logins : \A u \in txUsers[l] : u.id \in Ids
           /\ \A i \in identities : i.user_id \in Ids
  <1>1. Ids \subseteq Nat /\ 1..(MaxId + 1) \subseteq Nat
    BY BoundsAssumption DEF Ids
  <1>2. /\ users \subseteq User /\ identities \subseteq UserIdentity
        /\ \A l \in Logins : txUsers[l] \subseteq User
        /\ nextId \in 1..(MaxId + 1)
    BY DEF AccountsInv, TablesInv, TypeOK
  <1>3. (\A u \in User : u.id \in Ids) /\ \A i \in UserIdentity : i.user_id \in Ids
    BY DEF User, UserIdentity
  <1> QED
    BY <1>1, <1>2, <1>3

LEMMA IdentityHasUser ==
    ASSUME AccountsInv, NEW i \in identities
    PROVE  \E u \in users : u.id = i.user_id
  BY DEF AccountsInv, TablesInv, ClaimsHeld

LEMMA TargetBelow ==
    ASSUME AccountsInv, NEW l \in Logins, pc[l] \in {"createIdentity", "commit"}
    PROVE  /\ target[l] < nextId
           /\ \E u \in users \cup txUsers[l] : u.id = target[l]
  <1>1. PICK u \in users \cup txUsers[l] : u.id = target[l]
    BY DEF AccountsInv, TablesInv, TransactionOK
  <1>2. u.id < nextId
    BY DEF AccountsInv, IdsApart
  <1> QED
    BY <1>1, <1>2

AccountsKept ==
    /\ IdsApart' /\ OneOwner' /\ SameEmailAsShadow' /\ \A l \in Logins : TargetOK(l)'
    /\ \A id : Dead(id) => Dead(id)'

\* A step that commits nothing and starts nothing but what TargetOK allows.
LEMMA QuietStep ==
    ASSUME AccountsInv, UNCHANGED <<users, identities, nextId>>,
           \A l \in Logins : txUsers'[l] \subseteq txUsers[l],
           \A l \in Logins : pc'[l] \in {"createIdentity", "commit"} =>
                \/ /\ pc[l] \in {"createIdentity", "commit"}
                   /\ target'[l] = target[l] /\ email'[l] = email[l]
                \/ TargetOK(l)'
    PROVE  AccountsKept
  <1>1. IdsApart'
    BY DEF AccountsInv, IdsApart
  <1>2. OneOwner' /\ SameEmailAsShadow'
    BY DEF AccountsInv, OneOwner, SameEmailAsShadow
  <1>3. \A l \in Logins : TargetOK(l)'
    BY DEF AccountsInv, TargetOK
  <1>4. \A id : Dead(id) => Dead(id)'
    BY DEF Dead
  <1> QED
    BY <1>1, <1>2, <1>3, <1>4 DEF AccountsKept

LEMMA RollbackKeeps ==
    ASSUME AccountsInv, NEW l \in Logins, Rollback(l)
    PROVE  AccountsKept
  <1>1. /\ UNCHANGED <<users, identities, nextId, target, email>>
        /\ \A m \in Logins : txUsers'[m] \subseteq txUsers[m]
        /\ \A m \in Logins : pc'[m] = pc[m] \/ pc'[m] = "error"
    BY DEF Rollback, AccountsInv, TablesInv, TypeOK
  <1> QED
    BY <1>1, QuietStep

\* The account found is no shadow account.
LEMMA FindLocalUserKeeps ==
    ASSUME AccountsInv, NEW l \in Logins, FindLocalUser(l)
    PROVE  AccountsKept
  <1>1. /\ UNCHANGED <<users, identities, nextId, txUsers, email>>
        /\ \A m \in Logins \ {l} : pc'[m] = pc[m] /\ target'[m] = target[m]
        /\ txUsers[l] = {}
    BY DEF FindLocalUser, dbVars, AccountsInv, TablesInv, TypeOK, TransactionOK
  <1>2. pc'[l] \in {"createIdentity", "commit"} =>
            \E u \in users : u.username \notin ShadowNames /\ target'[l] = u.id
    BY DEF FindLocalUser, LocalUsers, SameEmail, SameUsername, AccountsInv, TablesInv, TypeOK
  <1>3. TargetOK(l)'
    BY <1>1, <1>2 DEF TargetOK, AccountsInv, IdsApart
  <1> QED
    BY <1>1, <1>3, QuietStep

\* A new shadow account gets an id nobody has, and waits to be committed.
LEMMA CreateUserKeeps ==
    ASSUME AccountsInv, NEW l \in Logins, CreateUser(l)
    PROVE  AccountsKept
  <1>1. CASE Rollback(l)
    BY <1>1, RollbackKeeps
  <1>2. CASE ~Rollback(l)
    <2> DEFINE new == ShadowUser(l)
    <2>1. /\ pc[l] = "createUser" /\ nextId' = nextId + 1
          /\ txUsers' = [txUsers EXCEPT ![l] = @ \cup {new}]
          /\ target' = [target EXCEPT ![l] = nextId]
          /\ pc' = [pc EXCEPT ![l] = "createIdentity"]
          /\ UNCHANGED <<users, identities, email>>
      BY <1>2 DEF CreateUser
    <2>2. txUsers[l] = {} /\ txUsers'[l] = {new}
      BY <2>1 DEF AccountsInv, TablesInv, TypeOK, TransactionOK
    <2>3. \A m \in Logins \ {l} :
              txUsers'[m] = txUsers[m] /\ pc'[m] = pc[m] /\ target'[m] = target[m]
      BY <2>1 DEF AccountsInv, TablesInv, TypeOK
    <2>4. new.id = nextId /\ new.email = email[l]
      BY DEF ShadowUser
    <2>5. PICK v : v = new
      OBVIOUS
    <2> HIDE DEF new
    <2>6. /\ \A u \in users : u.id < nextId /\ u.id # nextId
          /\ \A m \in Logins : \A u \in txUsers[m] : u.id < nextId /\ u.id # nextId
          /\ nextId < nextId' /\ \A n \in Nat : n < nextId => n < nextId'
      BY <2>1, IdTypes DEF AccountsInv, IdsApart
    <2>7. IdsApart'
      <3>1. \A u \in users' : u.id < nextId'
        BY <2>1, <2>6, IdTypes
      <3>2. \A m \in Logins : \A u \in txUsers'[m] :
                u.id < nextId' /\ \A w \in users' : w.id # u.id
        BY <2>1, <2>2, <2>3, <2>4, <2>6, IdTypes DEF AccountsInv, IdsApart
      <3>3. \A m \in Logins : \A u \in txUsers'[m] :
                \A k \in Logins \ {m} : \A w \in txUsers'[k] : w.id # u.id
        BY <2>2, <2>3, <2>4, <2>6 DEF AccountsInv, IdsApart
      <3> QED
        BY <2>1, <3>1, <3>2, <3>3 DEF AccountsInv, IdsApart
    <2>8. OneOwner' /\ SameEmailAsShadow'
      BY <2>1 DEF AccountsInv, OneOwner, SameEmailAsShadow
    <2>9. ASSUME NEW m \in Logins PROVE TargetOK(m)'
      <3>1. CASE m = l
        <4>1. target'[m] = nextId /\ txUsers'[m] = {v} /\ v.email = email'[m]
          BY <2>1, <2>2, <2>4, <2>5, <3>1 DEF AccountsInv, TablesInv, TypeOK
        <4> QED
          BY <2>1, <2>6, <4>1 DEF TargetOK
      <3>2. CASE m # l
        BY <2>1, <2>3, <3>2 DEF AccountsInv, TargetOK
      <3> QED
        BY <3>1, <3>2
    <2>10. ASSUME NEW id, Dead(id) PROVE Dead(id)'
      <3>1. id < nextId' /\ id # nextId
        BY <2>1, <2>6, <2>10, IdTypes DEF Dead
      <3>2. \A m \in Logins : \A u \in txUsers'[m] : u.id # id
        BY <2>2, <2>3, <2>4, <2>10, <3>1 DEF Dead
      <3> QED
        BY <2>1, <2>10, <3>1, <3>2 DEF Dead
    <2> QED
      BY <2>7, <2>8, <2>9, <2>10 DEF AccountsKept
  <1> QED
    BY <1>1, <1>2

LEMMA CreateIdentityKeeps ==
    ASSUME AccountsInv, NEW l \in Logins, CreateIdentity(l)
    PROVE  AccountsKept
  <1>1. CASE Rollback(l)
    BY <1>1, RollbackKeeps
  <1>2. CASE ~Rollback(l)
    <2>1. /\ pc[l] = "createIdentity" /\ pc' = [pc EXCEPT ![l] = "commit"]
          /\ UNCHANGED <<users, identities, nextId, txUsers, email, target>>
      BY <1>2 DEF CreateIdentity
    <2>2. \A m \in Logins : pc'[m] \in {"createIdentity", "commit"} =>
                pc[m] \in {"createIdentity", "commit"}
      BY <2>1 DEF AccountsInv, TablesInv, TypeOK
    <2> QED
      BY <2>1, <2>2, QuietStep
  <1> QED
    BY <1>1, <1>2

\* The committed account and its identity come together.
LEMMA PublishKeeps ==
    ASSUME AccountsInv, NEW l \in Logins, pc[l] = "commit", Publish(l),
           \E p \in {"ok", "error"} : pc' = [pc EXCEPT ![l] = p],
           UNCHANGED <<target, email>>
    PROVE  AccountsKept
  <1>1. /\ users' = users \cup txUsers[l]
        /\ identities' = identities \cup {IdentityRow(l)}
        /\ nextId' = nextId /\ txUsers'[l] = {}
        /\ \A m \in Logins \ {l} : txUsers'[m] = txUsers[m]
    BY DEF Publish, AccountsInv, TablesInv, TypeOK, TransactionOK
  <1>2. IdentityRow(l).user_id = target[l] /\ IdentityRow(l).email = email[l]
    BY DEF IdentityRow
  <1>3. \A u \in txUsers[l] : u.id = target[l] /\ u.email = email[l]
    BY DEF AccountsInv, TablesInv, TransactionOK, TargetOK
  <1>4. \A u \in txUsers[l] : txUsers[l] = {u}
    BY DEF AccountsInv, TargetOK
  <1>5. /\ \A u \in txUsers[l] : u.id < nextId /\ \A v \in users : v.id # u.id
        /\ \A m \in Logins \ {l} : \A u \in txUsers[l] : \A v \in txUsers[m] : v.id # u.id
    BY DEF AccountsInv, IdsApart
  <1>6. \A m \in Logins : pc'[m] \in {"createIdentity", "commit"} => m # l /\ pc'[m] = pc[m]
    BY DEF AccountsInv, TablesInv, TypeOK
  <1>7. IdsApart'
    <2>1. \A u \in users' : u.id < nextId'
      BY <1>1, <1>5 DEF AccountsInv, IdsApart
    <2>2. \A u, v \in users' : u.id = v.id => u = v
      BY <1>1, <1>4, <1>5 DEF AccountsInv, IdsApart
    <2>3. ASSUME NEW m \in Logins, NEW u \in txUsers'[m]
          PROVE  /\ u.id < nextId'
                 /\ \A v \in users' : v.id # u.id
                 /\ \A k \in Logins \ {m} : \A v \in txUsers'[k] : v.id # u.id
      <3>1. m # l /\ u \in txUsers[m]
        BY <1>1, <2>3
      <3>2. /\ u.id < nextId
            /\ \A v \in users : v.id # u.id
            /\ \A k \in Logins \ {m} : \A v \in txUsers[k] : v.id # u.id
        BY <3>1 DEF AccountsInv, IdsApart
      <3> QED
        BY <1>1, <1>5, <3>1, <3>2
    <2> QED
      BY <2>1, <2>2, <2>3 DEF IdsApart
  <1>8. OneOwner' /\ SameEmailAsShadow'
    <2>1. SUFFICES ASSUME NEW u \in users', u.username \in ShadowNames,
                          NEW i \in identities', i.user_id = u.id,
                          NEW j \in identities', j.user_id = u.id
                   PROVE  i.email = u.email /\ j = i
      BY DEF OneOwner, SameEmailAsShadow
    <2>2. CASE u \in users
      <3>1. target[l] # u.id
        BY <2>1, <2>2 DEF AccountsInv, TargetOK
      <3>2. i \in identities /\ j \in identities
        BY <1>1, <1>2, <2>1, <3>1
      <3> QED
        BY <2>1, <2>2, <3>2 DEF AccountsInv, OneOwner, SameEmailAsShadow
    <2>3. CASE u \in txUsers[l]
      <3>1. i \notin identities /\ j \notin identities
        BY <1>5, <2>1, <2>3, IdentityHasUser
      <3> QED
        BY <1>1, <1>2, <1>3, <2>3, <3>1
    <2> QED
      BY <1>1, <2>2, <2>3
  <1>9. ASSUME NEW m \in Logins PROVE TargetOK(m)'
    <2>1. SUFFICES ASSUME pc'[m] \in {"createIdentity", "commit"}
                   PROVE  /\ \A u \in txUsers'[m] : u.email = email'[m] /\ txUsers'[m] = {u}
                          /\ \A u \in users' : u.id = target'[m] => u.username \notin ShadowNames
      BY DEF TargetOK
    <2>2. m # l /\ pc[m] \in {"createIdentity", "commit"} /\ txUsers'[m] = txUsers[m]
      BY <1>1, <1>6, <2>1
    <2>3. TargetOK(m) /\ \E w \in users \cup txUsers[m] : w.id = target[m]
      BY <2>2, TargetBelow DEF AccountsInv
    <2>4. \A u \in txUsers[l] : u.id # target[m]
      BY <1>5, <2>2, <2>3
    <2> QED
      BY <1>1, <2>2, <2>3, <2>4 DEF TargetOK
  <1>10. \A id : Dead(id) => Dead(id)'
    BY <1>1 DEF Dead
  <1> QED
    BY <1>7, <1>8, <1>9, <1>10 DEF AccountsKept

\* A signup takes an id nobody has, whatever name it is for.
LEMMA InsertSignupKeeps ==
    ASSUME AccountsInv, NEW p \in Signups, InsertSignup(p)
    PROVE  AccountsKept
  <1>1. UNCHANGED <<identities, txUsers, txIdentities, pc, target, email>>
    BY DEF InsertSignup, loginVars
  <1>2. CASE UNCHANGED <<users, nextId>>
    BY <1>1, <1>2, QuietStep
  <1>3. CASE users' = users \cup {SignupUser(p)} /\ nextId' = nextId + 1
    <2>1. PICK new : new = SignupUser(p)
      OBVIOUS
    <2>2. new.id = nextId /\ users' = users \cup {new}
      BY <1>3, <2>1 DEF SignupUser
    <2>3. /\ \A u \in users : u.id < nextId /\ u.id # nextId /\ u.id < nextId'
          /\ \A m \in Logins : \A u \in txUsers[m] :
                u.id < nextId /\ u.id # nextId /\ u.id < nextId'
          /\ nextId < nextId' /\ \A n \in Nat : n < nextId => n # nextId /\ n < nextId'
      BY <1>3, IdTypes DEF AccountsInv, IdsApart
    <2>4. IdsApart'
      BY <1>1, <2>2, <2>3 DEF AccountsInv, IdsApart
    <2>5. OneOwner' /\ SameEmailAsShadow'
      <3>1. \A i \in identities : i.user_id # nextId
        BY <2>3, IdentityHasUser
      <3> QED
        BY <1>1, <2>2, <3>1 DEF AccountsInv, OneOwner, SameEmailAsShadow
    <2>6. ASSUME NEW m \in Logins PROVE TargetOK(m)'
      <3>1. pc[m] \in {"createIdentity", "commit"} => target[m] # nextId
        BY <2>3, TargetBelow
      <3> QED
        BY <1>1, <2>2, <3>1 DEF AccountsInv, TargetOK
    <2>7. \A id : Dead(id) => Dead(id)'
      BY <1>1, <2>2, <2>3, IdTypes DEF Dead
    <2> QED
      BY <2>4, <2>5, <2>6, <2>7 DEF AccountsKept
  <1> QED
    BY <1>2, <1>3 DEF InsertSignup

LEMMA AccountsStep ==
    ASSUME AccountsInv, [Next]_vars
    PROVE  AccountsInv' /\ AccountsKept
  <1>1. ASSUME UNCHANGED dbVars, UNCHANGED <<target, email>> \/ \E l \in Logins : Arrive(l),
               \A l \in Logins : pc'[l] \in {"createIdentity", "commit"} => pc'[l] = pc[l]
        PROVE  AccountsKept
    <2>1. \A l \in Logins : pc'[l] \in {"createIdentity", "commit"} =>
            target'[l] = target[l] /\ email'[l] = email[l]
      BY <1>1 DEF Arrive, AccountsInv, TablesInv, TypeOK
    <2> QED
      BY <1>1, <2>1, QuietStep DEF dbVars
  <1>2. ASSUME NEW l \in Logins,
               Arrive(l) \/ LoginStep(l) \/ CommitUnacknowledged(l) \/ Fail(l)
        PROVE  AccountsKept
    <2>1. CASE Arrive(l) \/ LookupIdentity(l)
      BY <1>1, <2>1 DEF Arrive, LookupIdentity, Return, AccountsInv, TablesInv, TypeOK
    <2>2. CASE Commit(l) \/ CommitUnacknowledged(l)
      BY <2>2, PublishKeeps DEF Commit, CommitUnacknowledged, Return
    <2> QED
      BY <1>2, <2>1, <2>2, FindLocalUserKeeps, CreateUserKeeps, CreateIdentityKeeps,
         RollbackKeeps DEF LoginStep, Fail
  <1>3. ASSUME NEW p \in Signups, Submit(p) \/ SignupStep(p) \/ FailSignup(p)
        PROVE  AccountsKept
    <2>1. CASE InsertSignup(p)
      BY <2>1, InsertSignupKeeps
    <2>2. CASE ~InsertSignup(p)
      BY <1>1, <1>3, <2>2 DEF Submit, SignupStep, CheckColumn, FailSignup, loginVars
    <2> QED
      BY <2>1, <2>2
  <1>4. UNCHANGED vars => AccountsKept
    BY <1>1 DEF vars, loginVars
  <1>5. AccountsKept
    BY <1>2, <1>3, <1>4 DEF Next
  <1>6. TablesInv'
    <2>1. TablesInv
      BY DEF AccountsInv
    <2> QED
      BY <2>1, TablesStep
  <1> QED
    BY <1>5, <1>6 DEF AccountsInv, AccountsKept

-----------------------------------------------------------------------------
(* The theorems *)

LEMMA StepInv == IInv /\ [Next]_vars => IInv'
  <1> SUFFICES ASSUME AccountsInv, AnswersAgree, [Next]_vars
               PROVE  AccountsInv' /\ AnswersAgree'
    BY DEF IInv
  <1>1. AnswersStay
    BY TablesStep DEF AccountsInv
  <1>2. AnswersAgree'
    BY <1>1 DEF AnswersStay, AnswerRight, AnswersAgree
  <1> QED
    BY <1>2, AccountsStep

\* The inductive invariant holds throughout every behaviour.
THEOREM Invariance == Spec => []IInv
  BY InitInv, StepInv, PTL DEF Spec

\* Every variable keeps its type: in particular a row is only ever written with
\* an id, names and emails of the right kind.
THEOREM TypeCorrect == Spec => []TypeOK
  <1>1. IInv => TypeOK
    BY DEF IInv, AccountsInv, TablesInv
  <1> QED
    BY <1>1, Invariance, PTL

\* All the answers a subject is given, by any number of concurrent logins, are
\* the account user_identities binds it to.
THEOREM LoginsAgree == Spec => []AnswersAgree
  <1>1. IInv => AnswersAgree
    BY DEF IInv, AccountsInv, TablesInv
  <1> QED
    BY <1>1, Invariance, PTL

\* A shadow account never stands without the identity it was created for,
\* wherever a login fails.
THEOREM ShadowsHaveIdentity == Spec => []NoOrphanShadow
  <1>1. IInv => NoOrphanShadow
    BY DEF IInv, AccountsInv, TablesInv
  <1> QED
    BY <1>1, Invariance, PTL

\* A subject is only ever bound to an account it has a claim to, and a shadow
\* account to one subject, however shadow names collide.
THEOREM BindingsByRight == Spec => []BoundByRight
  <1>1. IInv => BoundByRight
    BY DEF IInv, AccountsInv, TablesInv, BoundByRight
  <1> QED
    BY <1>1, Invariance, PTL

-----------------------------------------------------------------------------
(* The resolver implements the registry *)

\* While a subject has one row, BindingOf reads it.
LEMMA BindingOfRow ==
    ASSUME OneRowPerSubject, NEW i \in identities
    PROVE  BindingOf(i.provider_subject) = i.user_id
  <1>1. PICK j \in identities :
            /\ j.provider_subject = i.provider_subject
            /\ j = CHOOSE k \in identities : k.provider_subject = i.provider_subject
    OBVIOUS
  <1>2. j = i
    BY <1>1 DEF OneRowPerSubject
  <1> QED
    BY <1>1, <1>2 DEF BindingOf, SubjectTaken

\* The same of the state after a step.
LEMMA NextBindingOfRow ==
    ASSUME OneRowPerSubject', NEW i \in identities'
    PROVE  BindingOf(i.provider_subject)' = i.user_id
  <1>1. PICK j \in identities' :
            /\ j.provider_subject = i.provider_subject
            /\ j = CHOOSE k \in identities' : k.provider_subject = i.provider_subject
    OBVIOUS
  <1>2. j = i
    BY <1>1 DEF OneRowPerSubject
  <1> QED
    BY <1>1, <1>2 DEF BindingOf, SubjectTaken

LEMMA BindingKept ==
    ASSUME identities' = identities
    PROVE  [s \in Subjects |-> BindingOf(s)]' = [s \in Subjects |-> BindingOf(s)]
  BY DEF BindingOf, SubjectTaken

\* A step the registry does not see.
LEMMA Stutter ==
    ASSUME identities' = identities, subject' = subject, answer' = answer,
           \A l \in Logins : Status(l)' = Status(l)
    PROVE  UNCHANGED Registry!vars
  BY BindingKept DEF Registry!vars

\* A login that ends with an error and nothing committed is refused.
LEMMA RollbackRefines ==
    ASSUME IInv, NEW l \in Logins, pc[l] \in Working, Rollback(l)
    PROVE  Registry!Refuse(l)
  <1> USE DEF Rollback
  <1>1. Status(l) = "waiting" /\ Status(l)' = "error"
    BY DEF IInv, AccountsInv, TablesInv, TypeOK, Status, Working, InTransaction
  <1>2. \A m \in Logins \ {l} : Status(m)' = Status(m)
    BY DEF IInv, AccountsInv, TablesInv, TypeOK, Status
  <1>3. [m \in Logins |-> Status(m)]' = [[m \in Logins |-> Status(m)] EXCEPT ![l] = "error"]
    BY <1>1, <1>2
  <1> QED
    BY <1>1, <1>3, BindingKept DEF Registry!Refuse

LEMMA ArriveRefines ==
    ASSUME IInv, NEW l \in Logins, Arrive(l)
    PROVE  Registry!Ask(l)
  <1>1. PICK s \in Subjects \cup {Blank} :
            /\ subject' = [subject EXCEPT ![l] = s]
            /\ pc' = [pc EXCEPT ![l] = IF s = Blank THEN "error" ELSE "lookup"]
    BY DEF Arrive
  <1>2. /\ Status(l) = "idle"
        /\ Status(l)' = IF s = Blank THEN "error" ELSE "waiting"
    BY <1>1 DEF IInv, AccountsInv, TablesInv, TypeOK, Arrive, Status, Working, InTransaction
  <1>3. \A m \in Logins \ {l} : Status(m)' = Status(m)
    BY <1>1 DEF IInv, AccountsInv, TablesInv, TypeOK, Status
  <1>4. [m \in Logins |-> Status(m)]' =
            [[m \in Logins |-> Status(m)] EXCEPT
                ![l] = IF s = Blank THEN "error" ELSE "waiting"]
    BY <1>2, <1>3
  <1>5. identities' = identities /\ answer' = answer
    BY DEF Arrive, dbVars
  <1> QED
    BY <1>1, <1>2, <1>4, <1>5, BindingKept DEF Registry!Ask

LEMMA LookupIdentityRefines ==
    ASSUME IInv, NEW l \in Logins, LookupIdentity(l)
    PROVE  Registry!Answer(l) \/ UNCHANGED Registry!vars
  <1>1. identities' = identities
    BY DEF LookupIdentity, dbVars
  <1>2. subject[l] \in Subjects /\ Status(l) = "waiting"
    BY DEF LookupIdentity, IInv, AccountsInv, TablesInv, TransactionOK, Status, Working
  <1>3. ASSUME NEW i \in identities, i.provider_subject = subject[l], Return(l, i.user_id)
        PROVE  Registry!Answer(l)
    <2>1. Status(l)' = "ok" /\ \A m \in Logins \ {l} : Status(m)' = Status(m)
      BY <1>3 DEF Return, IInv, AccountsInv, TablesInv, TypeOK, Status, Working, InTransaction
    <2>2. [m \in Logins |-> Status(m)]' = [[m \in Logins |-> Status(m)] EXCEPT ![l] = "ok"]
      BY <2>1
    <2>3. i.user_id \in Ids /\ BindingOf(subject[l]) = i.user_id
      BY <1>3, BindingOfRow DEF IInv, AccountsInv, TablesInv, TypeOK, UserIdentity
    <2>4. Registry!Bind(subject[l], i.user_id)
      BY <1>1, <1>2, <2>3, BindingKept DEF Registry!Bind
    <2> QED
      BY <1>2, <1>3, <2>2, <2>3, <2>4 DEF Registry!Answer, Return
  <1>4. ASSUME ~SubjectTaken(subject[l]), pc' = [pc EXCEPT ![l] = "find"],
               UNCHANGED <<subject, email, target, answer>>
        PROVE  UNCHANGED Registry!vars
    <2>1. \A m \in Logins : Status(m)' = Status(m)
      BY <1>2, <1>4 DEF LookupIdentity, IInv, AccountsInv, TablesInv, TypeOK, Status, Working, InTransaction
    <2> QED
      BY <1>1, <1>4, <2>1, Stutter
  <1> QED
    BY <1>3, <1>4 DEF LookupIdentity

\* The statements of the transaction are not seen before it ends.
LEMMA TransactionRefines ==
    ASSUME IInv, NEW l \in Logins,
           FindLocalUser(l) \/ CreateUser(l) \/ CreateIdentity(l)
    PROVE  Registry!Refuse(l) \/ UNCHANGED Registry!vars
  <1>1. CASE Rollback(l)
    <2>1. pc[l] \in Working
      BY DEF FindLocalUser, CreateUser, CreateIdentity, Working, InTransaction
    <2> QED
      BY <1>1, <2>1, RollbackRefines
  <1>2. CASE ~Rollback(l)
    <2>1. /\ identities' = identities /\ subject' = subject /\ answer' = answer
          /\ pc[l] \in Working
          /\ \E s \in InTransaction : pc' = [pc EXCEPT ![l] = s]
      BY <1>2 DEF FindLocalUser, CreateUser, CreateIdentity, dbVars, Working, InTransaction
    <2>2. \A m \in Logins : Status(m)' = Status(m)
      BY <2>1 DEF IInv, AccountsInv, TablesInv, TypeOK, Status, Working
    <2> QED
      BY <2>1, <2>2, Stutter
  <1> QED
    BY <1>1, <1>2

\* A commit binds the subject, which had no row.
LEMMA PublishBinds ==
    ASSUME IInv, IInv', NEW l \in Logins, pc[l] = "commit", Publish(l)
    PROVE  /\ subject[l] \in Subjects /\ target[l] \in Ids
           /\ Registry!Bind(subject[l], target[l])
  <1>1. /\ txIdentities[l] = {IdentityRow(l)}
        /\ subject[l] \in Subjects /\ target[l] \in Ids
    BY DEF IInv, AccountsInv, TablesInv, TransactionOK, Working, InTransaction
  <1>2. PICK s \in Subjects : s = subject[l]
    BY <1>1
  <1>3. PICK row : /\ row.provider_subject = s /\ row.user_id = target[l]
                   /\ txIdentities[l] = {row}
    BY <1>1, <1>2 DEF IdentityRow
  <1>4. identities' = identities \cup {row}
    BY <1>3 DEF Publish
  <1>5. ~SubjectTaken(s)
    BY <1>3 DEF IInv, AccountsInv, TablesInv, PendingSubjectsFree
  <1>6. BindingOf(s) = 0
    BY <1>5 DEF BindingOf
  <1>7. BindingOf(s)' = target[l]
    BY <1>3, <1>4, NextBindingOfRow DEF IInv, AccountsInv, TablesInv
  <1>8. ASSUME NEW t \in Subjects \ {s} PROVE BindingOf(t)' = BindingOf(t)
    <2>1. CASE SubjectTaken(t)
      <3>1. PICK i \in identities : i.provider_subject = t
        BY <2>1 DEF SubjectTaken
      <3> QED
        BY <1>4, <3>1, BindingOfRow, NextBindingOfRow DEF IInv, AccountsInv, TablesInv
    <2>2. CASE ~SubjectTaken(t)
      BY <1>3, <1>4, <2>2 DEF BindingOf, SubjectTaken
    <2> QED
      BY <2>1, <2>2
  <1>9. [t \in Subjects |-> BindingOf(t)]' =
            [[t \in Subjects |-> BindingOf(t)] EXCEPT ![s] = target[l]]
    BY <1>7, <1>8
  <1> QED
    BY <1>1, <1>2, <1>6, <1>9 DEF Registry!Bind

LEMMA CommitRefines ==
    ASSUME IInv, IInv', NEW l \in Logins, Commit(l)
    PROVE  Registry!Answer(l)
  <1>1. pc[l] = "commit" /\ Publish(l) /\ Return(l, target[l])
    BY DEF Commit
  <1>2. Status(l) = "waiting" /\ Status(l)' = "ok"
    BY <1>1 DEF Return, IInv, AccountsInv, TablesInv, TypeOK, Status, Working, InTransaction
  <1>3. \A m \in Logins \ {l} : Status(m)' = Status(m)
    BY <1>1 DEF Return, IInv, AccountsInv, TablesInv, TypeOK, Status
  <1>4. [m \in Logins |-> Status(m)]' = [[m \in Logins |-> Status(m)] EXCEPT ![l] = "ok"]
    BY <1>2, <1>3
  <1>5. target[l] \in Ids /\ Registry!Bind(subject[l], target[l])
    BY <1>1, PublishBinds
  <1> QED
    BY <1>1, <1>2, <1>4, <1>5 DEF Registry!Answer, Return

LEMMA CommitUnacknowledgedRefines ==
    ASSUME IInv, IInv', NEW l \in Logins, CommitUnacknowledged(l)
    PROVE  Registry!Refuse(l)
  <1>1. /\ pc[l] = "commit" /\ Publish(l) /\ pc' = [pc EXCEPT ![l] = "error"]
        /\ subject' = subject /\ answer' = answer
    BY DEF CommitUnacknowledged
  <1>2. Status(l) = "waiting" /\ Status(l)' = "error"
    BY <1>1 DEF IInv, AccountsInv, TablesInv, TypeOK, Status, Working, InTransaction
  <1>3. \A m \in Logins \ {l} : Status(m)' = Status(m)
    BY <1>1 DEF IInv, AccountsInv, TablesInv, TypeOK, Status
  <1>4. [m \in Logins |-> Status(m)]' = [[m \in Logins |-> Status(m)] EXCEPT ![l] = "error"]
    BY <1>2, <1>3
  <1>5. target[l] \in Ids /\ Registry!Bind(subject[l], target[l])
    BY <1>1, PublishBinds
  <1> QED
    BY <1>1, <1>2, <1>4, <1>5 DEF Registry!Refuse

LEMMA SignupStutters ==
    ASSUME NEW p \in Signups, Submit(p) \/ SignupStep(p) \/ FailSignup(p)
    PROVE  UNCHANGED Registry!vars
  <1>1. identities' = identities /\ UNCHANGED loginVars
    BY DEF Submit, SignupStep, CheckColumn, InsertSignup, FailSignup, dbVars
  <1> QED
    BY <1>1, Stutter DEF loginVars, Status

LEMMA InitRefines == Init => Registry!Init
  BY DEF Init, Registry!Init, Status, Working, InTransaction, BindingOf, SubjectTaken

LEMMA StepRefines == IInv /\ IInv' /\ [Next]_vars => [Registry!Next]_(Registry!vars)
  <1> SUFFICES ASSUME IInv, IInv', [Next]_vars PROVE [Registry!Next]_(Registry!vars)
    OBVIOUS
  <1>1. CASE UNCHANGED vars
    BY <1>1, Stutter DEF vars, dbVars, loginVars, Status
  <1>2. ASSUME NEW l \in Logins,
               Arrive(l) \/ LoginStep(l) \/ CommitUnacknowledged(l) \/ Fail(l)
        PROVE  Registry!Ask(l) \/ Registry!Answer(l) \/ Registry!Refuse(l)
                   \/ UNCHANGED Registry!vars
    BY <1>2, ArriveRefines, LookupIdentityRefines, TransactionRefines, CommitRefines,
       CommitUnacknowledgedRefines, RollbackRefines
    DEF LoginStep, Fail
  <1>3. ASSUME NEW p \in Signups, Submit(p) \/ SignupStep(p) \/ FailSignup(p)
        PROVE  UNCHANGED Registry!vars
    BY <1>3, SignupStutters
  <1> QED
    BY <1>1, <1>2, <1>3 DEF Next, Registry!Next

\* The resolver, with its tables, transactions and waiting, is a write-once
\* registry of bindings that answers each login with its subject's binding.
THEOREM RegistryImplemented == Spec => ImplementsRegistry
  BY InitRefines, StepRefines, Invariance, PTL
  DEF Spec, ImplementsRegistry, Registry!Spec
====
