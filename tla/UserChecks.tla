---- MODULE UserChecks ----
(***************************************************************************)
(* The two functions of src/service/service.go: CheckUserExisted, which    *)
(* the signup handler calls before it inserts an account, and              *)
(* CheckUserNotExisted, with which signin and Auth find the account of the *)
(* word a user typed, a username or an email.  Either starts two           *)
(* goroutines, one reading the email and one the username; each reports    *)
(* the account it found or that there is none, and the caller leaves its   *)
(* loop at the first account or after two reports of none.                 *)
(*                                                                         *)
(* CheckUserExisted ("check") has an unbuffered channel per goroutine, so  *)
(* a goroutine hands its report over; CheckUserNotExisted ("lookup") has   *)
(* one channel with room for both reports.  The caller's deferred calls    *)
(* close these channels and, last, the channel "done", by which a          *)
(* goroutine that has not got to its report learns nobody listens.         *)
(*                                                                         *)
(* Go's rules: a send on an unbuffered channel waits for the receive, a    *)
(* send on a closed channel panics, a blocked one included, and a panic    *)
(* that no goroutine of its own recovers ends the process (gin's Recovery  *)
(* guards the request's goroutine only).                                   *)
(***************************************************************************)
EXTENDS Naturals, Sequences

CONSTANTS
    Checks,     \* calls of CheckUserExisted
    Lookups,    \* calls of CheckUserNotExisted
    Accounts,   \* accounts that may be found
    Nil         \* no account

ASSUME CallsAssumption == Checks \cap Lookups = {}
ASSUME NilAssumption == Nil \notin Accounts

VARIABLES
    worker,     \* worker[c][k]: where the goroutine that reads column k is
    read,       \* read[c][k]: what it read
    buffer,     \* buffer[c]: what checkChannel of lookup c holds
    pc,         \* pc[c]: where the caller is
    misses,     \* misses[c]: the reports of no account it has received
    found,      \* found[c]: the last report received, the result in the end
    up          \* the process runs

vars == <<worker, read, buffer, pc, misses, found, up>>

Calls == Checks \cup Lookups
Column == {"email", "username"}
MaybeUser == Accounts \cup {Nil}

\* The caller's places: the loop, then the deferred calls, last in first out.
Leaving == {"closeUsername", "closeEmail", "closeChannel", "closeDone", "returned"}

TypeOK ==
    /\ worker \in [Calls -> [Column -> {"query", "select", "send", "ended"}]]
    /\ read \in [Calls -> [Column -> MaybeUser]]
    /\ buffer \in [Calls -> Seq(MaybeUser)]
    /\ pc \in [Calls -> {"loop"} \cup Leaving]
    /\ misses \in [Calls -> 0..2]
    /\ found \in [Calls -> MaybeUser]
    /\ up \in BOOLEAN
    /\ \A c \in Lookups : Len(buffer[c]) + misses[c] <= 2
    /\ \A c \in Checks : buffer[c] = <<>>

Init ==
    /\ worker = [c \in Calls |-> [k \in Column |-> "query"]]
    /\ read = [c \in Calls |-> [k \in Column |-> Nil]]
    /\ buffer = [c \in Calls |-> <<>>]
    /\ pc = [c \in Calls |-> "loop"]
    /\ misses = [c \in Calls |-> 0]
    /\ found = [c \in Calls |-> Nil]
    /\ up = TRUE

-----------------------------------------------------------------------------
(* The goroutines *)

\* GetUserByEmail, GetUserByUsername: the account that has the value by now,
\* other signups going on meanwhile, or none; any error, the database's
\* included, is taken for "not found".
Query(c, k) ==
    /\ worker[c][k] = "query"
    /\ \E user \in MaybeUser : read' = [read EXCEPT ![c][k] = user]
    /\ worker' = [worker EXCEPT ![c][k] = "select"]
    /\ UNCHANGED <<buffer, pc, misses, found, up>>

DoneClosed(c) == pc[c] = "returned"

\* The deferred calls that have run: a check closes the username's channel
\* first, a lookup has one channel for both.
UsernameClosed(c) == pc[c] \in {"closeEmail", "closeDone", "returned"}
EmailClosed(c) == pc[c] \in {"closeDone", "returned"}

\* Mutant: without "defer close(sameEmailChannel)".
EmailChannelOpen(c, k) ==
    IF k = "username" /\ c \in Checks THEN UsernameClosed(c) ELSE c \in Lookups /\ EmailClosed(c)

\* The channel goroutine k of call c sends on is closed.
ChannelClosed(c, k) ==
    IF k = "username" /\ c \in Checks THEN UsernameClosed(c) ELSE EmailClosed(c)

\* The select on done: the goroutine ends, or goes on to send.
Select(c, k) ==
    /\ worker[c][k] = "select"
    /\ worker' = [worker EXCEPT ![c][k] = IF DoneClosed(c) THEN "ended" ELSE "send"]
    /\ UNCHANGED <<read, buffer, pc, misses, found, up>>

\* The send finds the channel closed, or it is closed while the send waits.
SendPanics(c, k) ==
    /\ worker[c][k] = "send"
    /\ ChannelClosed(c, k)
    /\ up' = FALSE
    /\ UNCHANGED <<worker, read, buffer, pc, misses, found>>

\* Mutant: the goroutine of a lookup that found nothing sends nothing.
SendIfFound(c, k) ==
    /\ c \in Lookups
    /\ worker[c][k] = "send"
    /\ ~ChannelClosed(c, k)
    /\ buffer' = [buffer EXCEPT ![c] =
            IF read[c][k] = Nil THEN @ ELSE Append(@, read[c][k])]
    /\ worker' = [worker EXCEPT ![c][k] = "ended"]
    /\ UNCHANGED <<read, pc, misses, found, up>>

\* Mutant: the goroutine of a lookup goes on and sends again.
SendAgain(c, k) ==
    /\ c \in Lookups
    /\ worker[c][k] = "send"
    /\ ~ChannelClosed(c, k)
    /\ Len(buffer[c]) < 3
    /\ buffer' = [buffer EXCEPT ![c] = Append(@, read[c][k])]
    /\ UNCHANGED <<worker, read, pc, misses, found, up>>

\* A lookup's goroutine puts its report into the buffer, which has room for it.
Send(c, k) ==
    /\ c \in Lookups
    /\ worker[c][k] = "send"
    /\ ~ChannelClosed(c, k)
    /\ buffer' = [buffer EXCEPT ![c] = Append(@, read[c][k])]
    /\ worker' = [worker EXCEPT ![c][k] = "ended"]
    /\ UNCHANGED <<read, pc, misses, found, up>>

-----------------------------------------------------------------------------
(* The caller *)

\* Mutants: a loop that ends at the first report of none, or waits for a third.
OneMiss == 1
ThreeMisses == 3

\* The reports of none after which the loop ends, one per goroutine.
Misses == 2

\* What a turn of the loop does with a report: it leaves the loop if an account
\* was found, or if this was the last report of none.
Take(c, report) ==
    /\ found' = [found EXCEPT ![c] = report]
    /\ misses' = [misses EXCEPT ![c] = IF report = Nil THEN @ + 1 ELSE @]
    /\ pc' = [pc EXCEPT ![c] =
            IF report = Nil /\ misses[c] + 1 < Misses THEN "loop"
            ELSE IF c \in Checks THEN "closeUsername" ELSE "closeChannel"]

\* The select of a check: a goroutine that is sending hands its report over.
Receive(c, k) ==
    /\ c \in Checks
    /\ pc[c] = "loop"
    /\ worker[c][k] = "send"
    /\ worker' = [worker EXCEPT ![c][k] = "ended"]
    /\ Take(c, read[c][k])
    /\ UNCHANGED <<read, buffer, up>>

\* "for user = range checkChannel" of a lookup.
ReceiveBuffered(c) ==
    /\ pc[c] = "loop"
    /\ buffer[c] # <<>>
    /\ buffer' = [buffer EXCEPT ![c] = Tail(@)]
    /\ Take(c, Head(buffer[c]))
    /\ UNCHANGED <<worker, read, up>>

\* One deferred call.
Close(c) ==
    /\ pc[c] \in Leaving \ {"returned"}
    /\ pc' = [pc EXCEPT ![c] =
            CASE @ = "closeUsername" -> "closeEmail"
              [] @ = "closeDone"     -> "returned"
              [] OTHER               -> "closeDone"]
    /\ UNCHANGED <<worker, read, buffer, misses, found, up>>

-----------------------------------------------------------------------------

GoroutineStep(c, k) ==
    up /\ (Query(c, k) \/ Select(c, k) \/ Send(c, k) \/ SendPanics(c, k))
CallerStep(c) == up /\ (ReceiveBuffered(c) \/ Close(c) \/ \E k \in Column : Receive(c, k))

\* All calls may have returned, or the process be down: the system may rest.
Next ==
    \E c \in Calls : CallerStep(c) \/ \E k \in Column : GoroutineStep(c, k)

\* The Go scheduler runs every goroutine that can run.
Fairness ==
    \A c \in Calls :
        /\ WF_vars(CallerStep(c))
        /\ \A k \in Column : WF_vars(GoroutineStep(c, k))

Spec == Init /\ [][Next]_vars /\ Fairness

-----------------------------------------------------------------------------
(* Properties *)

\* The verdict of CheckUserExisted (found or not) and the account
\* CheckUserNotExisted returns: an account only if one of the reads found it, and
\* none only after both goroutines have read and found none, whichever came first.
VerdictJustified ==
    \A c \in Calls : pc[c] \in Leaving =>
        IF found[c] # Nil THEN \E k \in Column : read[c][k] = found[c]
        ELSE \A k \in Column : worker[c][k] = "ended" /\ read[c][k] = Nil

\* The caller returns: it never waits for a report that cannot come, which it
\* would if it went round once more than there are goroutines left to send, or
\* if a goroutine that found nothing kept silent.
CallReturns == \A c \in Calls : pc[c] = "loop" ~> (pc[c] = "returned" \/ ~up)

\* No goroutine is left behind: each one reports, learns that the call is over,
\* or takes the process down with it.
NoGoroutineLeft == \A c \in Calls, k \in Column :
    worker[c][k] = "query" ~> (worker[c][k] = "ended" \/ ~up)

\* service.go:16 and :22: a goroutine checks whether the check is over, and puts
\* its result into the channel only if it is not.  So none sends on a channel
\* that is closed, and the process survives every call.
NoSendOnClosedChannel == up
====
