---- MODULE PasswordReset ----
(***************************************************************************)
(* Resetting a forgotten password (src/handler/password): GetCaptcha mails *)
(* a code to the account's address and stores a token of it in the         *)
(* account's row, PasswordReset takes the code and a new password.  Both   *)
(* read the whole row, change one field of their copy and save the whole   *)
(* copy.  The account is one row; requests about it run concurrently.      *)
(*                                                                         *)
(* GetCaptcha sends the mail and saves the row in two goroutines, each     *)
(* with an unbuffered channel for its error, which GetCaptcha closes when  *)
(* it returns: a goroutine that sends after that panics, and the panic of  *)
(* a goroutine other than the request's ends the process.                  *)
(***************************************************************************)
EXTENDS Naturals

CONSTANTS
    Gets,       \* calls of GetCaptcha
    Resets,     \* calls of PasswordReset; r also stands for the hash of r's new password
    Old,        \* the hash of the password before any reset
    Codes,      \* captcha codes
    None,       \* no token yet
    Lifetime,   \* how long a token is valid (3 minutes)
    MaxTime     \* bound: the last instant looked at

ASSUME PasswordAssumption == Old \notin Resets
ASSUME TimeAssumption == Lifetime \in Nat /\ MaxTime \in Nat

VARIABLES
    row,        \* the account: its password_hash and reset_t
    mailbox,    \* the codes that arrived by mail
    now,        \* the clock
    up,         \* the process runs
    \* the calls of GetCaptcha
    get,        \* get[g]: where the handler is, or how it ended
    copy,       \* copy[g]: the row it read
    code,       \* code[g]: the code it drew, None before that
    token,      \* token[g]: the token it generated
    mailer,     \* mailer[g]: its goroutine that sends the mail
    mailErr,    \* mailErr[g]: whether that failed
    updater,    \* updater[g]: its goroutine that saves the row
    saveErr,    \* saveErr[g]: whether that failed
    \* the calls of PasswordReset
    reset,      \* reset[r]: where the handler is, or how it ended
    typed,      \* typed[r]: the code it was sent with, None one never issued
    verified,   \* verified[r]: the row it read and verified the code against
    \* what became of the tokens that were saved
    behind,     \* behind[r]: the calls of GetCaptcha that saved since r read the row
    void        \* those whose token was overwritten by a save that did not know it

getVars == <<get, copy, code, token, mailer, mailErr, updater, saveErr>>
resetVars == <<reset, typed, verified>>
tokenHistory == <<behind, void>>
vars == <<row, mailbox, now, up, getVars, resetVars, tokenHistory>>

Time == 0..MaxTime
Token == [cap : Codes, exp : 0..(MaxTime + Lifetime)]
Row == [password_hash : Resets \cup {Old}, reset_t : Token \cup {None}]
Failed == {"notFound", "tokenFailed", "mailFailed", "updateFailed"}
Returned == Failed \cup {"ok"}
Goroutine == {"none", "running", "sending", "ended"}

ASSUME NoneAssumption == None \notin Codes \cup Token

TypeOK ==
    /\ row \in Row /\ mailbox \subseteq Codes /\ now \in Time /\ up \in BOOLEAN
    /\ get \in [Gets -> {"idle", "start", "awaitMail", "awaitUpdate"} \cup Returned]
    /\ copy \in [Gets -> Row]
    /\ code \in [Gets -> Codes \cup {None}]
    /\ token \in [Gets -> Token \cup {None}]
    /\ mailer \in [Gets -> Goroutine] /\ mailErr \in [Gets -> BOOLEAN]
    /\ updater \in [Gets -> Goroutine] /\ saveErr \in [Gets -> BOOLEAN]
    /\ reset \in [Resets -> {"idle", "save", "ok", "notFound", "refused", "failed"}]
    /\ typed \in [Resets -> Codes \cup {None}]
    /\ verified \in [Resets -> Row]
    /\ behind \in [Resets -> SUBSET Gets] /\ void \subseteq Gets

Blank == [password_hash |-> Old, reset_t |-> None]

Init ==
    /\ row = Blank /\ mailbox = {} /\ now = 0 /\ up = TRUE
    /\ get = [g \in Gets |-> "idle"]
    /\ copy = [g \in Gets |-> Blank]
    /\ code = [g \in Gets |-> None]
    /\ token = [g \in Gets |-> None]
    /\ mailer = [g \in Gets |-> "none"] /\ mailErr = [g \in Gets |-> FALSE]
    /\ updater = [g \in Gets |-> "none"] /\ saveErr = [g \in Gets |-> FALSE]
    /\ reset = [r \in Resets |-> "idle"]
    /\ typed = [r \in Resets |-> None]
    /\ verified = [r \in Resets |-> Blank]
    /\ behind = [r \in Resets |-> {}] /\ void = {}

-----------------------------------------------------------------------------
(* GetCaptcha *)

\* GetUserByEmail; any error counts as "not found".
ReadUser(g) ==
    /\ get[g] = "idle"
    /\ copy' = [copy EXCEPT ![g] = row]
    /\ \E p \in {"start", "notFound"} : get' = [get EXCEPT ![g] = p]
    /\ UNCHANGED <<row, mailbox, now, code, token, mailer, mailErr, updater, saveErr, resetVars, tokenHistory>>

\* Mutant: the claims exchanged.
NewTokenSwapped(c) == [cap |-> now + Lifetime, exp |-> c]

\* GenerateCaptchaToken.
NewToken(c) == [cap |-> c, exp |-> now + Lifetime]

\* A code is drawn and the mail goroutine started; then a token is made of the
\* code and the goroutine that saves it started, or the handler gives up.
StartGoroutines(g) ==
    /\ get[g] = "start"
    /\ \E c \in Codes :
        /\ code' = [code EXCEPT ![g] = c]
        /\ mailer' = [mailer EXCEPT ![g] = "running"]
        /\ \/ /\ token' = [token EXCEPT ![g] = NewToken(c)]
              /\ updater' = [updater EXCEPT ![g] = "running"]
              /\ get' = [get EXCEPT ![g] = "awaitMail"]
           \/ /\ get' = [get EXCEPT ![g] = "tokenFailed"]
              /\ UNCHANGED <<token, updater>>
    /\ UNCHANGED <<row, mailbox, now, copy, mailErr, saveErr, resetVars, tokenHistory>>

\* Mutant: the goroutine reports a failure and says nothing of a success.
SendMailReportingFailure(g) ==
    /\ mailer[g] = "running"
    /\ \/ /\ mailbox' = mailbox \cup {code[g]}
          /\ mailer' = [mailer EXCEPT ![g] = "ended"]
          /\ UNCHANGED mailErr
       \/ /\ mailErr' = [mailErr EXCEPT ![g] = TRUE]
          /\ mailer' = [mailer EXCEPT ![g] = "sending"]
          /\ UNCHANGED mailbox
    /\ UNCHANGED <<row, now, get, copy, code, token, updater, saveErr, resetVars, tokenHistory>>

\* The mail is sent, or is not; either outcome is then reported.
SendMail(g) ==
    /\ mailer[g] = "running"
    /\ mailer' = [mailer EXCEPT ![g] = "sending"]
    /\ \/ mailbox' = mailbox \cup {code[g]} /\ UNCHANGED mailErr
       \/ mailErr' = [mailErr EXCEPT ![g] = TRUE] /\ UNCHANGED mailbox
    /\ UNCHANGED <<row, now, get, copy, code, token, updater, saveErr, resetVars, tokenHistory>>

\* The calls whose token has been in the row.
Saved == {g \in Gets : updater[g] \in {"sending", "ended"} /\ ~saveErr[g]}

\* user.Update(): every column is written, from the copy read at the start.
SaveToken(g) ==
    /\ updater[g] = "running"
    /\ updater' = [updater EXCEPT ![g] = "sending"]
    /\ \/ /\ row' = [copy[g] EXCEPT !.reset_t = token[g]]
          /\ void' = void \cup (Saved \ {g})
          /\ behind' = [r \in Resets |->
                IF reset[r] = "save" THEN behind[r] \cup {g} ELSE behind[r]]
          /\ UNCHANGED saveErr
       \/ /\ saveErr' = [saveErr EXCEPT ![g] = TRUE]
          /\ UNCHANGED <<row, tokenHistory>>
    /\ UNCHANGED <<mailbox, now, get, copy, code, token, mailer, mailErr, resetVars>>

\* The handler receives the mail's error, and gives up if there is one.
ReceiveMail(g) ==
    /\ get[g] = "awaitMail"
    /\ mailer[g] = "sending"
    /\ mailer' = [mailer EXCEPT ![g] = "ended"]
    /\ get' = [get EXCEPT ![g] = IF mailErr[g] THEN "mailFailed" ELSE "awaitUpdate"]
    /\ UNCHANGED <<row, mailbox, now, copy, code, token, mailErr, updater, saveErr, resetVars, tokenHistory>>

\* Mutant: the handler answers without having waited for the row to be saved.
AnswerUnsaved(g) ==
    /\ get[g] = "awaitUpdate"
    /\ updater' = [updater EXCEPT ![g] = IF @ = "sending" THEN "ended" ELSE @]
    /\ get' = [get EXCEPT ![g] = IF saveErr[g] THEN "updateFailed" ELSE "ok"]
    /\ UNCHANGED <<row, mailbox, now, copy, code, token, mailer, mailErr, saveErr, resetVars, tokenHistory>>

ReceiveUpdate(g) ==
    /\ get[g] = "awaitUpdate"
    /\ updater[g] = "sending"
    /\ updater' = [updater EXCEPT ![g] = "ended"]
    /\ get' = [get EXCEPT ![g] = IF saveErr[g] THEN "updateFailed" ELSE "ok"]
    /\ UNCHANGED <<row, mailbox, now, copy, code, token, mailer, mailErr, saveErr, resetVars, tokenHistory>>

\* A goroutine sends on a channel the handler closed when it returned.
Sending(g) == mailer[g] = "sending" \/ updater[g] = "sending"
SendPanics(g) == get[g] \in Returned /\ Sending(g)

Panic(g) ==
    /\ up /\ SendPanics(g)
    /\ up' = FALSE
    /\ UNCHANGED <<row, mailbox, now, getVars, resetVars, tokenHistory>>

-----------------------------------------------------------------------------
(* PasswordReset *)

\* Mutant: a token is over at its last instant already.
TokenValidBefore(t) == t # None /\ now < t.exp

\* jwt.Parse: there is a token, it is one this service signed, and its time has not
\* run out.
TokenValid(t) == t # None /\ now <= t.exp

\* Mutant: the code is not compared with the token's.
TokenOnly(user, captcha) == TokenValid(user.reset_t)

\* The code is that of the row's token.
VerifyCaptcha(user, captcha) == TokenValid(user.reset_t) /\ captcha = user.reset_t.cap

\* The row is read and the code verified against it: the row is not found, the
\* code is refused, the new password cannot be decoded, or all is well.  The user
\* types a code that came by mail, or one that was never issued (None).
Verify(r) ==
    /\ reset[r] = "idle"
    /\ verified' = [verified EXCEPT ![r] = row]
    /\ \E captcha \in mailbox \cup {None} :
        /\ typed' = [typed EXCEPT ![r] = captcha]
        /\ \E p \in {"notFound"} \cup
                 IF VerifyCaptcha(row, captcha) THEN {"failed", "save"} ELSE {"refused"} :
            reset' = [reset EXCEPT ![r] = p]
    /\ UNCHANGED <<row, mailbox, now, getVars, tokenHistory>>

\* user.Update() again, from the copy that was verified.
SavePassword(r) ==
    /\ reset[r] = "save"
    /\ \/ /\ row' = [verified[r] EXCEPT !.password_hash = r]
          /\ reset' = [reset EXCEPT ![r] = "ok"]
          /\ void' = void \cup behind[r]
       \/ /\ reset' = [reset EXCEPT ![r] = "failed"]
          /\ UNCHANGED <<row, void>>
    /\ UNCHANGED <<mailbox, now, getVars, typed, verified, behind>>

-----------------------------------------------------------------------------

\* The process runs, and this step leaves it running.
Alive == up /\ UNCHANGED up

\* Time passes between any two steps.
Tick ==
    /\ now < MaxTime
    /\ now' = now + 1
    /\ UNCHANGED <<row, mailbox, getVars, resetVars, tokenHistory>>

GetStep(g) ==
    \/ StartGoroutines(g) \/ SendMail(g) \/ SaveToken(g)
    \/ ReceiveMail(g) \/ ReceiveUpdate(g)

Running ==
    \/ \E g \in Gets : ReadUser(g) \/ GetStep(g)
    \/ \E r \in Resets : Verify(r) \/ SavePassword(r)
    \/ Tick

\* All requests may be over, or the process down: the system may rest.
Next == (Alive /\ Running) \/ \E g \in Gets : Panic(g)

\* Handler and goroutines of a request are each scheduled; sending a mail and
\* saving a row end, with an error if need be.
Fairness ==
    \A g \in Gets :
        /\ WF_vars(StartGoroutines(g) /\ Alive)
        /\ WF_vars(SendMail(g) /\ Alive)
        /\ WF_vars(SaveToken(g) /\ Alive)
        /\ WF_vars((ReceiveMail(g) \/ ReceiveUpdate(g)) /\ Alive)

Spec == Init /\ [][Next]_vars /\ Fairness

-----------------------------------------------------------------------------
(* Properties *)

\* A reset goes on to store its password only if it was sent with the very code a
\* call of GetCaptcha drew, while the token made of that code is the row's and has
\* not expired, whatever requests saved the row in between.
ResetsOnlyByLiveCode ==
    [][\A r \in Resets : reset[r] = "idle" /\ reset'[r] = "save" =>
        \E g \in Gets :
            /\ token[g] # None /\ row.reset_t = token[g] /\ now <= token[g].exp
            /\ typed'[r] = code[g]]_vars

\* And it is refused only with good reason: not with the code of a request that
\* was answered "ok", while its token has not expired and no save that did not
\* know the token has overwritten it, whatever else was saved meanwhile.
LiveCodeAccepted ==
    [][\A r \in Resets : reset[r] = "idle" /\ reset'[r] = "refused" =>
        \A g \in Gets \ void :
            get[g] = "ok" /\ typed'[r] = code[g] => now > token[g].exp]_vars

\* Once a request was answered "ok", the code in the user's mailbox is the one the
\* row's token verifies: the handler waited for both its goroutines.  It stays so
\* through the saves of other requests, until one overwrites the token that did
\* not know it: a later request for a code, or a reset that had read the row
\* before.
AnsweredCodeWorks ==
    \A g \in Gets \ void : get[g] = "ok" =>
        code[g] \in mailbox /\ row.reset_t = token[g] /\ token[g].cap = code[g]

\* GetCaptcha returns, whichever of its goroutines is first and whichever fails.
GetCaptchaReturns == \A g \in Gets : get[g] = "start" ~> (get[g] \in Returned \/ ~up)

\* errno/code.go:30 has an answer for a mail that could not be sent, ErrMailSend:
\* that request fails, and the process goes on serving the others.
MailFailureIsAnswered == (\E g \in Gets : get[g] = "mailFailed") => up

\* api.yaml:265 "Reset OK": once a reset was answered so, the old password is gone
\* for good.
OldPasswordGone == (\E r \in Resets : reset[r] = "ok") => row.password_hash # Old
====
