---- MODULE PasswordReset_proofs ----
(***************************************************************************)
(* Theorems about PasswordReset, for any number of requests for a code and *)
(* of resets, any codes and any lifetime of a token: type correctness,     *)
(* that a code which was answered works, and that a reset succeeds only    *)
(* with a live code and is refused only without one.                       *)
(***************************************************************************)
EXTENDS PasswordReset, TLAPS

\* What a call of GetCaptcha has done at each place, its two goroutines included:
\* past the mail's error the mail is out, past the other one the row is saved.
GetOK(g) ==
    /\ get[g] \in {"idle", "start", "notFound"} => mailer[g] = "none" /\ updater[g] = "none"
    /\ mailer[g] # "none" => code[g] \in Codes
    /\ updater[g] # "none" => token[g] \in Token /\ token[g].cap = code[g]
    /\ mailer[g] \in {"sending", "ended"} /\ ~mailErr[g] => code[g] \in mailbox
    /\ get[g] \in {"awaitUpdate", "ok"} => mailer[g] = "ended" /\ ~mailErr[g]
    /\ get[g] = "ok" => updater[g] = "ended" /\ ~saveErr[g]

\* A token was made by a call of GetCaptcha and has not changed since.
Issued(t) == t # None => \E g \in Gets : updater[g] # "none" /\ token[g] = t

\* A token that was saved and never overwritten unknowingly is the row's ...
SavedInRow == \A g \in Saved \ void : row.reset_t = token[g]

\* ... and that of every row a reset is about to save, unless it was saved after
\* the reset had read the row.
SavedInVerified ==
    \A r \in Resets : reset[r] = "save" =>
        \A g \in Saved \ (void \cup behind[r]) : verified[r].reset_t = token[g]

TokensIssued == Issued(row.reset_t) /\ \A r \in Resets : Issued(verified[r].reset_t)

IInv ==
    /\ TypeOK
    /\ \A g \in Gets : GetOK(g)
    /\ TokensIssued
    /\ SavedInRow
    /\ SavedInVerified

LEMMA InitInv == Init => IInv
  BY TimeAssumption
  DEF Init, IInv, TypeOK, GetOK, Issued, SavedInRow, SavedInVerified, TokensIssued,
      Saved, Blank, Row, Time, Goroutine

-----------------------------------------------------------------------------
(* What stays true *)

\* A call whose own state does not change: mails are never taken back.
LEMMA GetKept ==
    ASSUME NEW g \in Gets, GetOK(g), mailbox \subseteq mailbox',
           get'[g] = get[g], code'[g] = code[g], token'[g] = token[g],
           mailer'[g] = mailer[g], mailErr'[g] = mailErr[g],
           updater'[g] = updater[g], saveErr'[g] = saveErr[g]
    PROVE  GetOK(g)'
  BY DEF GetOK

\* Tokens stay issued, as one that was handed to its goroutine never changes.
LEMMA IssuedKept ==
    ASSUME TokensIssued,
           \A g \in Gets : updater[g] # "none" => updater'[g] # "none" /\ token'[g] = token[g],
           row' = row \/ \E r \in Resets : row'.reset_t = verified[r].reset_t,
           \A r \in Resets : verified'[r] = verified[r] \/ verified'[r] = row
    PROVE  TokensIssued'
  <1>1. ASSUME NEW t, Issued(t), t # None
        PROVE  \E g \in Gets : updater'[g] # "none" /\ token'[g] = t
    BY <1>1 DEF Issued
  <1>2. Issued(row.reset_t) /\ \A r \in Resets : Issued(verified[r].reset_t)
    BY DEF TokensIssued
  <1>3. row'.reset_t # None => \E g \in Gets : updater'[g] # "none" /\ token'[g] = row'.reset_t
    BY <1>1, <1>2
  <1>4. ASSUME NEW r \in Resets, verified'[r].reset_t # None
        PROVE  \E g \in Gets : updater'[g] # "none" /\ token'[g] = verified'[r].reset_t
    BY <1>1, <1>2, <1>4
  <1> QED
    BY <1>3, <1>4 DEF TokensIssued, Issued

\* No row is read or written, and no save ends: what is said of saved tokens stays.
LEMMA SavedKept ==
    ASSUME SavedInRow, SavedInVerified, Saved' = Saved,
           \A g \in Saved : token'[g] = token[g],
           UNCHANGED <<row, resetVars, tokenHistory>>
    PROVE  SavedInRow' /\ SavedInVerified'
  BY DEF SavedInRow, SavedInVerified, resetVars, tokenHistory

\* A step of one call of GetCaptcha that writes no row.
LEMMA GetStepInv ==
    ASSUME IInv, TypeOK', NEW g \in Gets, GetOK(g)', mailbox \subseteq mailbox',
           UNCHANGED <<row, resetVars, tokenHistory>>,
           updater[g] # "none" => updater'[g] # "none" /\ token'[g] = token[g],
           updater'[g] \in {"sending", "ended"} /\ ~saveErr'[g] <=>
               updater[g] \in {"sending", "ended"} /\ ~saveErr[g],
           \A h \in Gets \ {g} :
               /\ get'[h] = get[h] /\ code'[h] = code[h] /\ token'[h] = token[h]
               /\ mailer'[h] = mailer[h] /\ mailErr'[h] = mailErr[h]
               /\ updater'[h] = updater[h] /\ saveErr'[h] = saveErr[h]
    PROVE  IInv'
  <1>1. \A h \in Gets : GetOK(h)'
    BY GetKept DEF IInv
  <1>2. Saved' = Saved /\ \A h \in Saved : token'[h] = token[h]
    BY DEF Saved
  <1>3. TokensIssued'
    BY IssuedKept DEF IInv, resetVars
  <1> QED
    BY <1>1, <1>2, <1>3, SavedKept DEF IInv

-----------------------------------------------------------------------------
(* GetCaptcha *)

LEMMA ReadUserInv ==
    ASSUME IInv, NEW g \in Gets, ReadUser(g), UNCHANGED up
    PROVE  IInv'
  <1> USE DEF ReadUser
  <1>1. TypeOK'
    BY DEF IInv, TypeOK, Returned, Failed, resetVars, tokenHistory
  <1>2. GetOK(g)'
    BY DEF IInv, TypeOK, GetOK
  <1> QED
    BY <1>1, <1>2, GetStepInv DEF IInv, TypeOK

LEMMA StartGoroutinesInv ==
    ASSUME IInv, NEW g \in Gets, StartGoroutines(g), UNCHANGED up
    PROVE  IInv'
  <1> USE DEF StartGoroutines
  <1>1. \A c \in Codes : NewToken(c) \in Token /\ NewToken(c).cap = c
    BY TimeAssumption DEF NewToken, Token, IInv, TypeOK, Time
  <1>2. mailer[g] = "none" /\ updater[g] = "none"
    BY DEF IInv, GetOK
  <1>3. TypeOK'
    BY <1>1 DEF IInv, TypeOK, Returned, Failed, Goroutine, resetVars, tokenHistory
  <1>4. GetOK(g)'
    BY <1>1, <1>2 DEF IInv, TypeOK, GetOK
  <1>5. updater'[g] \in {"none", "running"}
    BY <1>2 DEF IInv, TypeOK
  <1> QED
    BY <1>2, <1>3, <1>4, <1>5, GetStepInv DEF IInv, TypeOK

LEMMA SendMailInv ==
    ASSUME IInv, NEW g \in Gets, SendMail(g), UNCHANGED up
    PROVE  IInv'
  <1> USE DEF SendMail
  <1>1. TypeOK'
    BY DEF IInv, TypeOK, GetOK, Goroutine, resetVars, tokenHistory
  <1>2. GetOK(g)'
    BY DEF IInv, TypeOK, GetOK
  <1> QED
    BY <1>1, <1>2, GetStepInv DEF IInv, TypeOK

LEMMA ReceiveMailInv ==
    ASSUME IInv, NEW g \in Gets, ReceiveMail(g), UNCHANGED up
    PROVE  IInv'
  <1> USE DEF ReceiveMail
  <1>1. TypeOK'
    BY DEF IInv, TypeOK, Returned, Failed, Goroutine, resetVars, tokenHistory
  <1>2. GetOK(g)'
    BY DEF IInv, TypeOK, GetOK
  <1> QED
    BY <1>1, <1>2, GetStepInv DEF IInv, TypeOK

LEMMA ReceiveUpdateInv ==
    ASSUME IInv, NEW g \in Gets, ReceiveUpdate(g), UNCHANGED up
    PROVE  IInv'
  <1> USE DEF ReceiveUpdate
  <1>1. TypeOK'
    BY DEF IInv, TypeOK, Returned, Failed, Goroutine, resetVars, tokenHistory
  <1>2. GetOK(g)'
    BY DEF IInv, TypeOK, GetOK
  <1> QED
    BY <1>1, <1>2, GetStepInv DEF IInv, TypeOK

\* The row now holds g's token; every token saved before is void.
LEMMA SaveTokenInv ==
    ASSUME IInv, NEW g \in Gets, SaveToken(g), UNCHANGED up
    PROVE  IInv'
  <1>1. /\ updater[g] = "running" /\ updater' = [updater EXCEPT ![g] = "sending"]
        /\ UNCHANGED <<mailbox, now, get, copy, code, token, mailer, mailErr, reset, typed, verified>>
    BY DEF SaveToken, resetVars
  <1>2. token[g] \in Token /\ GetOK(g)
    BY <1>1 DEF IInv, GetOK
  <1>3. CASE UNCHANGED <<row, behind, void>> /\ saveErr' = [saveErr EXCEPT ![g] = TRUE]
    <2>1. TypeOK'
      BY <1>1, <1>3 DEF IInv, TypeOK, Goroutine
    <2>2. GetOK(g)'
      BY <1>1, <1>2, <1>3 DEF IInv, TypeOK, GetOK
    <2> QED
      BY <1>1, <1>3, <2>1, <2>2, GetStepInv DEF IInv, TypeOK, resetVars, tokenHistory
  <1>4. CASE /\ row' = [copy[g] EXCEPT !.reset_t = token[g]]
             /\ void' = void \cup (Saved \ {g})
             /\ behind' = [r \in Resets |->
                    IF reset[r] = "save" THEN behind[r] \cup {g} ELSE behind[r]]
             /\ UNCHANGED saveErr
    <2>1. row' \in Row /\ row'.reset_t = token[g]
      BY <1>2, <1>4 DEF IInv, TypeOK, Row
    <2>2. TypeOK'
      BY <1>1, <1>4, <2>1 DEF IInv, TypeOK, Goroutine, Saved
    <2>3. ASSUME NEW h \in Gets PROVE GetOK(h)'
      <3>1. GetOK(h)
        BY DEF IInv
      <3> QED
        BY <1>1, <1>4, <3>1 DEF IInv, TypeOK, GetOK
    <2>4. TokensIssued'
      <3>1. \A h \in Gets : updater[h] # "none" => updater'[h] # "none"
        BY <1>1 DEF IInv, TypeOK
      <3>2. Issued(row.reset_t)'
        BY <1>1, <2>1 DEF IInv, TypeOK, Issued
      <3>3. ASSUME NEW r \in Resets PROVE Issued(verified[r].reset_t)'
        BY <1>1, <3>1 DEF IInv, TokensIssued, Issued
      <3> QED
        BY <3>2, <3>3 DEF TokensIssued
    <2>5. Saved' \subseteq Saved \cup {g}
      BY <1>1, <1>4 DEF IInv, TypeOK, Saved
    <2>6. SavedInRow'
      BY <1>1, <1>4, <2>1, <2>5 DEF SavedInRow
    <2>7. SavedInVerified'
      BY <1>1, <1>4, <2>5 DEF IInv, TypeOK, SavedInVerified
    <2> QED
      BY <2>2, <2>3, <2>4, <2>6, <2>7 DEF IInv
  <1> QED
    BY <1>3, <1>4 DEF SaveToken, tokenHistory

-----------------------------------------------------------------------------
(* PasswordReset *)

LEMMA VerifyInv ==
    ASSUME IInv, NEW r \in Resets, Verify(r), UNCHANGED up
    PROVE  IInv'
  <1>1. /\ verified' = [verified EXCEPT ![r] = row]
        /\ \E captcha \in mailbox \cup {None} : typed' = [typed EXCEPT ![r] = captcha]
        /\ \E p \in {"notFound", "refused", "failed", "save"} :
               reset' = [reset EXCEPT ![r] = p]
        /\ UNCHANGED <<row, mailbox, now, getVars, tokenHistory>>
    BY DEF Verify
  <1>2. TypeOK'
    BY <1>1 DEF IInv, TypeOK, getVars, tokenHistory
  <1>3. \A g \in Gets : GetOK(g)'
    BY <1>1, GetKept DEF IInv, getVars
  <1>4. TokensIssued'
    BY <1>1, IssuedKept DEF IInv, TypeOK, getVars
  <1>5. Saved' = Saved /\ SavedInRow'
    BY <1>1 DEF IInv, Saved, SavedInRow, getVars, tokenHistory
  <1>6. SavedInVerified'
    BY <1>1, <1>5 DEF IInv, TypeOK, SavedInRow, SavedInVerified, getVars, tokenHistory
  <1> QED
    BY <1>2, <1>3, <1>4, <1>5, <1>6 DEF IInv

\* The row goes back to what the reset had read, so the tokens saved since are void
\* and the others are what they were.
LEMMA SavePasswordInv ==
    ASSUME IInv, NEW r \in Resets, SavePassword(r), UNCHANGED up
    PROVE  IInv'
  <1>1. /\ reset[r] = "save" /\ \E p \in {"ok", "failed"} : reset' = [reset EXCEPT ![r] = p]
        /\ UNCHANGED <<mailbox, now, getVars, typed, verified, behind>>
    BY DEF SavePassword
  <1>2. \/ UNCHANGED <<row, void>>
        \/ row' = [verified[r] EXCEPT !.password_hash = r] /\ void' = void \cup behind[r]
    BY DEF SavePassword
  <1>3. row' = row \/ (row' \in Row /\ row'.reset_t = verified[r].reset_t)
    BY <1>2 DEF IInv, TypeOK, Row
  <1>4. TypeOK'
    BY <1>1, <1>2, <1>3 DEF IInv, TypeOK, getVars
  <1>5. \A g \in Gets : GetOK(g)'
    BY <1>1, GetKept DEF IInv, getVars
  <1>6. TokensIssued'
    BY <1>1, <1>3, IssuedKept DEF IInv, getVars
  <1>7. Saved' = Saved /\ token' = token
    BY <1>1 DEF Saved, getVars
  <1>8. SavedInRow'
    BY <1>1, <1>2, <1>3, <1>7 DEF IInv, SavedInRow, SavedInVerified
  <1>9. SavedInVerified'
    BY <1>1, <1>2, <1>7 DEF IInv, TypeOK, SavedInVerified
  <1> QED
    BY <1>4, <1>5, <1>6, <1>8, <1>9 DEF IInv

-----------------------------------------------------------------------------
(* The theorems *)

\* Neither the row nor a request changes: time passes, the process ends, or nothing
\* happens.
LEMMA IdleInv ==
    ASSUME IInv, TypeOK', UNCHANGED <<row, mailbox, getVars, resetVars, tokenHistory>>
    PROVE  IInv'
  <1>1. \A g \in Gets : GetOK(g)'
    BY GetKept DEF IInv, getVars
  <1>2. TokensIssued'
    BY IssuedKept DEF IInv, getVars, resetVars
  <1>3. Saved' = Saved /\ token' = token
    BY DEF Saved, getVars
  <1> QED
    BY <1>1, <1>2, <1>3, SavedKept DEF IInv

LEMMA StepInv == IInv /\ [Next]_vars => IInv'
  <1> SUFFICES ASSUME IInv, [Next]_vars PROVE IInv'
    OBVIOUS
  <1>1. ASSUME NEW g \in Gets, ReadUser(g) \/ GetStep(g), UNCHANGED up PROVE IInv'
    BY <1>1, ReadUserInv, StartGoroutinesInv, SendMailInv, SaveTokenInv, ReceiveMailInv,
       ReceiveUpdateInv DEF GetStep
  <1>2. ASSUME NEW r \in Resets, Verify(r) \/ SavePassword(r), UNCHANGED up PROVE IInv'
    BY <1>2, VerifyInv, SavePasswordInv
  <1>3. CASE Tick /\ UNCHANGED up
    <2>1. TypeOK'
      BY <1>3, TimeAssumption DEF Tick, IInv, TypeOK, Time, getVars, resetVars, tokenHistory
    <2> QED
      BY <1>3, <2>1, IdleInv DEF Tick
  <1>4. ASSUME NEW g \in Gets, Panic(g) PROVE IInv'
    <2>1. TypeOK'
      BY <1>4 DEF Panic, IInv, TypeOK, getVars, resetVars, tokenHistory
    <2> QED
      BY <1>4, <2>1, IdleInv DEF Panic
  <1>5. CASE UNCHANGED vars
    <2>1. TypeOK'
      BY <1>5 DEF vars, IInv, TypeOK, getVars, resetVars, tokenHistory
    <2> QED
      BY <1>5, <2>1, IdleInv DEF vars
  <1> QED
    BY <1>1, <1>2, <1>3, <1>4, <1>5 DEF Next, Running, Alive

\* The inductive invariant holds throughout every behaviour.
THEOREM Invariance == Spec => []IInv
  BY InitInv, StepInv, PTL DEF Spec

\* Every variable keeps its type; a saved row holds a token and never a half of one.
THEOREM TypeCorrect == Spec => []TypeOK
  <1>1. IInv => TypeOK
    BY DEF IInv
  <1> QED
    BY <1>1, Invariance, PTL

\* The only step that a reset which has not begun takes is Verify.
LEMMA ResetBegins ==
    ASSUME IInv, Next, NEW r \in Resets, reset[r] = "idle", reset'[r] # "idle"
    PROVE  /\ Verify(r) /\ typed'[r] \in mailbox \cup {None}
           /\ reset'[r] = "save" => VerifyCaptcha(row, typed'[r])
           /\ reset'[r] = "refused" => ~VerifyCaptcha(row, typed'[r])
  <1>1. PICK s \in Resets : Verify(s) \/ SavePassword(s)
    BY DEF Next, Running, ReadUser, GetStep, StartGoroutines, SendMail, SaveToken,
           ReceiveMail, ReceiveUpdate, Tick, Panic, resetVars
  <1>2. s = r /\ Verify(r)
    BY <1>1 DEF Verify, SavePassword, IInv, TypeOK
  <1>3. PICK captcha \in mailbox \cup {None} :
            /\ typed' = [typed EXCEPT ![r] = captcha]
            /\ \E p \in {"notFound"} \cup
                     IF VerifyCaptcha(row, captcha) THEN {"failed", "save"} ELSE {"refused"} :
                reset' = [reset EXCEPT ![r] = p]
    BY <1>2 DEF Verify
  <1>4. typed'[r] = captcha
    BY <1>3 DEF IInv, TypeOK
  <1> QED
    BY <1>2, <1>3, <1>4 DEF IInv, TypeOK

\* A reset goes on to save a password only if it was sent with the code that a call
\* of GetCaptcha drew, the token of which the row holds and has not expired.
THEOREM OnlyLiveCodesReset == Spec => ResetsOnlyByLiveCode
  <1> DEFINE Live == \A r \in Resets : reset[r] = "idle" /\ reset'[r] = "save" =>
                \E g \in Gets :
                    /\ token[g] # None /\ row.reset_t = token[g] /\ now <= token[g].exp
                    /\ typed'[r] = code[g]
  <1>1. IInv /\ [Next]_vars => [Live]_vars
    <2> SUFFICES ASSUME IInv, Next, NEW r \in Resets, reset[r] = "idle", reset'[r] = "save"
                 PROVE  \E g \in Gets : /\ token[g] # None /\ row.reset_t = token[g]
                                        /\ now <= token[g].exp /\ typed'[r] = code[g]
      BY DEF Live
    <2>1. TokenValid(row.reset_t) /\ typed'[r] = row.reset_t.cap
      BY ResetBegins DEF VerifyCaptcha
    <2>2. PICK g \in Gets : updater[g] # "none" /\ token[g] = row.reset_t
      BY <2>1 DEF TokenValid, IInv, TokensIssued, Issued
    <2>3. token[g].cap = code[g]
      BY <2>2 DEF IInv, GetOK
    <2> QED
      BY <2>1, <2>2, <2>3 DEF TokenValid
  <1> QED
    BY <1>1, Invariance, PTL DEF Spec, ResetsOnlyByLiveCode

\* What a request for a code leaves behind when it is answered "ok", until another
\* save overwrites its token unknowingly.
LEMMA AnsweredCode ==
    ASSUME IInv, NEW g \in Gets \ void, get[g] = "ok"
    PROVE  /\ code[g] \in mailbox /\ row.reset_t = token[g]
           /\ token[g] \in Token /\ token[g].cap = code[g]
  <1>1. GetOK(g)
    BY DEF IInv
  <1>2. g \in Saved
    BY <1>1 DEF GetOK, Saved
  <1> QED
    BY <1>1, <1>2 DEF IInv, GetOK, SavedInRow

\* A request for a code that was answered "ok" mailed the code the row's token
\* verifies, until another save overwrites the token unknowingly.
THEOREM AnsweredCodesWork == Spec => []AnsweredCodeWorks
  <1>1. IInv => AnsweredCodeWorks
    BY AnsweredCode DEF AnsweredCodeWorks
  <1> QED
    BY <1>1, Invariance, PTL

\* A reset with such a code is not refused before its token has expired.
THEOREM LiveCodesAccepted == Spec => LiveCodeAccepted
  <1> DEFINE Accepted == \A r \in Resets : reset[r] = "idle" /\ reset'[r] = "refused" =>
                \A g \in Gets \ void :
                    get[g] = "ok" /\ typed'[r] = code[g] => now > token[g].exp
  <1>1. IInv /\ [Next]_vars => [Accepted]_vars
    <2> SUFFICES ASSUME IInv, Next, NEW r \in Resets, reset[r] = "idle",
                        reset'[r] = "refused", NEW g \in Gets \ void,
                        get[g] = "ok", typed'[r] = code[g]
                 PROVE  now > token[g].exp
      BY DEF Accepted
    <2>1. ~VerifyCaptcha(row, typed'[r])
      BY ResetBegins
    <2>2. row.reset_t = token[g] /\ token[g] \in Token /\ token[g].cap = typed'[r]
      BY AnsweredCode
    <2>3. ~(now <= token[g].exp)
      BY <2>1, <2>2, NoneAssumption DEF VerifyCaptcha, TokenValid
    <2>4. now \in Nat /\ token[g].exp \in Nat
      BY <2>2, TimeAssumption DEF IInv, TypeOK, Time, Token
    <2> QED
      BY <2>3, <2>4
  <1> QED
    BY <1>1, Invariance, PTL DEF Spec, LiveCodeAccepted
====
