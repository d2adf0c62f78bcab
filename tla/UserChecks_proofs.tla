---- MODULE UserChecks_proofs ----
(***************************************************************************)
(* Theorems about UserChecks, for every number of calls and accounts: type *)
(* correctness, in which a goroutine of a lookup always finds room in the  *)
(* buffer, and that every verdict is justified.                            *)
(***************************************************************************)
EXTENDS UserChecks, TLAPS

\* The goroutines of call c that have ended, of two.
Ended(c, k) == IF worker[c][k] = "ended" THEN 1 ELSE 0
Reports(c) == Ended(c, "email") + Ended(c, "username")

\* The reports of none that were received, and those that wait in the buffer, are
\* of goroutines that have ended; while the caller is in its loop, of all of them.
Counted(c) ==
    /\ misses[c] + Len(buffer[c]) <= Reports(c)
    /\ pc[c] = "loop" => misses[c] + Len(buffer[c]) = Reports(c)

\* An account that was found and has not been received waits in the buffer: while
\* the caller is in its loop, no such report was lost.
NothingLost(c) ==
    pc[c] = "loop" =>
        \A k \in Column : worker[c][k] = "ended" /\ read[c][k] # Nil =>
            \E i \in 1..Len(buffer[c]) : buffer[c][i] = read[c][k]

\* What waits in the buffer is what a goroutine that has ended has read.
BufferRead(c) ==
    \A i \in 1..Len(buffer[c]) : \E k \in Column :
        worker[c][k] = "ended" /\ read[c][k] = buffer[c][i]

\* A verdict rests on goroutines that have ended, so it stays justified.
VerdictFinal(c) ==
    pc[c] \in Leaving =>
        IF found[c] # Nil
        THEN \E k \in Column : worker[c][k] = "ended" /\ read[c][k] = found[c]
        ELSE \A k \in Column : worker[c][k] = "ended" /\ read[c][k] = Nil

CallOK(c) == Counted(c) /\ NothingLost(c) /\ BufferRead(c) /\ VerdictFinal(c)

IInv == TypeOK /\ \A c \in Calls : CallOK(c)

-----------------------------------------------------------------------------

\* A buffer that is read keeps all but its first report.
LEMMA TailOfBuffer ==
    ASSUME NEW S, NEW s \in Seq(S), s # <<>>
    PROVE  /\ Head(s) \in S /\ Head(s) = s[1] /\ Tail(s) \in Seq(S)
           /\ Len(s) \in Nat \ {0} /\ Len(Tail(s)) = Len(s) - 1
           /\ \A i \in 1..Len(Tail(s)) : Tail(s)[i] = s[i + 1]
  OBVIOUS

\* A call of which nothing changes keeps what is true of it.
LEMMA CallKept ==
    ASSUME NEW c \in Calls, CallOK(c),
           pc'[c] = pc[c], misses'[c] = misses[c], found'[c] = found[c],
           buffer'[c] = buffer[c],
           \A k \in Column : worker'[c][k] = worker[c][k] /\ read'[c][k] = read[c][k]
    PROVE  CallOK(c)'
  <1>1. Counted(c)'
    BY DEF CallOK, Counted, Reports, Ended, Column
  <1>2. NothingLost(c)'
    BY DEF CallOK, NothingLost
  <1>3. BufferRead(c)'
    BY DEF CallOK, BufferRead
  <1>4. VerdictFinal(c)'
    BY DEF CallOK, VerdictFinal
  <1> QED
    BY <1>1, <1>2, <1>3, <1>4 DEF CallOK

LEMMA InitInv == Init => IInv
  <1> SUFFICES ASSUME Init PROVE IInv
    OBVIOUS
  <1>1. TypeOK
    BY DEF Init, TypeOK, Calls, MaybeUser
  <1>2. ASSUME NEW c \in Calls PROVE CallOK(c)
    <2>1. /\ pc[c] = "loop" /\ misses[c] = 0 /\ buffer[c] = <<>>
          /\ \A k \in Column : worker[c][k] = "query"
      BY DEF Init
    <2> QED
      BY <2>1 DEF CallOK, Counted, NothingLost, BufferRead, VerdictFinal, Reports,
                  Ended, Column, Leaving
  <1> QED
    BY <1>1, <1>2 DEF IInv

\* Setting one place of a function of calls and columns.
LEMMA SetPlace ==
    ASSUME NEW S, NEW f \in [Calls -> [Column -> S]],
           NEW c \in Calls, NEW k \in Column, NEW v \in S
    PROVE  /\ [f EXCEPT ![c][k] = v] \in [Calls -> [Column -> S]]
           /\ \A d \in Calls, j \in Column :
                [f EXCEPT ![c][k] = v][d][j] = IF d = c /\ j = k THEN v ELSE f[d][j]
  OBVIOUS

\* What is true of one call.
LEMMA CallState ==
    ASSUME IInv, NEW c \in Calls
    PROVE  /\ CallOK(c)
           /\ misses[c] \in Nat
           /\ buffer[c] \in Seq(MaybeUser)
           /\ \A k \in Column : read[c][k] \in MaybeUser
  <1>1. misses[c] \in 0..2
    BY DEF IInv, TypeOK
  <1>2. 0..2 \subseteq Nat
    OBVIOUS
  <1>3. buffer[c] \in Seq(MaybeUser) /\ \A k \in Column : read[c][k] \in MaybeUser
    BY DEF IInv, TypeOK
  <1> QED
    BY <1>1, <1>2, <1>3 DEF IInv

\* The calls a goroutine step of call c leaves alone.
LEMMA OthersKept ==
    ASSUME IInv, NEW c \in Calls, NEW d \in Calls \ {c},
           pc'[d] = pc[d], misses'[d] = misses[d], found'[d] = found[d],
           buffer'[d] = buffer[d],
           \A k \in Column : worker'[d][k] = worker[d][k] /\ read'[d][k] = read[d][k]
    PROVE  CallOK(d)'
  BY CallKept DEF IInv

\* The bound on a lookup's buffer follows from counting its goroutines.
LEMMA RoomInBuffer ==
    ASSUME NEW c \in Calls, Counted(c),
           Len(buffer[c]) \in Nat, misses[c] \in Nat
    PROVE  misses[c] \in 0..2 /\ Len(buffer[c]) + misses[c] <= 2
  BY DEF Counted, Reports, Ended

\* The goroutine reads the database; it has not ended before or after.
LEMMA QueryInv ==
    ASSUME IInv, NEW c \in Calls, NEW k \in Column, Query(c, k)
    PROVE  IInv'
  <1>1. PICK user \in MaybeUser : read' = [read EXCEPT ![c][k] = user]
    BY DEF Query
  <1>2. /\ worker[c][k] = "query" /\ worker' = [worker EXCEPT ![c][k] = "select"]
        /\ UNCHANGED <<buffer, pc, misses, found, up>>
    BY DEF Query
  <1>3. /\ worker' \in [Calls -> [Column -> {"query", "select", "send", "ended"}]]
        /\ \A d \in Calls, j \in Column :
             worker'[d][j] = IF d = c /\ j = k THEN "select" ELSE worker[d][j]
    BY <1>2, SetPlace DEF IInv, TypeOK
  <1>4. /\ read' \in [Calls -> [Column -> MaybeUser]]
        /\ \A d \in Calls, j \in Column :
             read'[d][j] = IF d = c /\ j = k THEN user ELSE read[d][j]
    BY <1>1, SetPlace DEF IInv, TypeOK
  <1>5. TypeOK'
    BY <1>2, <1>3, <1>4 DEF IInv, TypeOK
  <1>6. CallOK(c)'
    <2>1. CallOK(c)
      BY DEF IInv
    <2>2. \A j \in Column : worker'[c][j] = "ended" <=> worker[c][j] = "ended"
      BY <1>2, <1>3
    <2>3. \A j \in Column : worker[c][j] = "ended" => read'[c][j] = read[c][j]
      BY <1>2, <1>4
    <2>4. Reports(c)' = Reports(c)
      BY <2>2 DEF Reports, Ended, Column
    <2> QED
      BY <1>2, <2>1, <2>2, <2>3, <2>4
      DEF CallOK, Counted, NothingLost, BufferRead, VerdictFinal
  <1>7. ASSUME NEW d \in Calls \ {c} PROVE CallOK(d)'
    BY <1>2, <1>3, <1>4, OthersKept
  <1> QED
    BY <1>5, <1>6, <1>7 DEF IInv

\* The goroutine goes on to send, or ends since the call has returned.
LEMMA SelectInv ==
    ASSUME IInv, NEW c \in Calls, NEW k \in Column, Select(c, k)
    PROVE  IInv'
  <1> DEFINE place == IF DoneClosed(c) THEN "ended" ELSE "send"
  <1>1. /\ worker[c][k] = "select" /\ worker' = [worker EXCEPT ![c][k] = place]
        /\ UNCHANGED <<read, buffer, pc, misses, found, up>>
    BY DEF Select
  <1>2. place \in {"ended", "send"} /\ (place = "ended" => pc[c] = "returned")
    BY DEF DoneClosed
  <1> HIDE DEF place
  <1>3. /\ worker' \in [Calls -> [Column -> {"query", "select", "send", "ended"}]]
        /\ \A d \in Calls, j \in Column :
             worker'[d][j] = IF d = c /\ j = k THEN place ELSE worker[d][j]
    BY <1>1, <1>2, SetPlace DEF IInv, TypeOK
  <1>4. TypeOK'
    BY <1>1, <1>3 DEF IInv, TypeOK
  <1>5. CallOK(c)'
    <2>1. CallOK(c) /\ misses[c] \in Nat /\ buffer[c] \in Seq(MaybeUser)
      BY CallState
    <2>2. \A j \in Column : worker[c][j] = "ended" => worker'[c][j] = "ended"
      BY <1>1, <1>3
    <2>3. pc[c] = "loop" => \A j \in Column : worker'[c][j] = "ended" => worker[c][j] = "ended"
      BY <1>1, <1>2, <1>3
    <2>4. Counted(c)'
      BY <1>1, <2>1, <2>2, <2>3 DEF CallOK, Counted, Reports, Ended, Column
    <2>5. NothingLost(c)'
      BY <1>1, <2>1, <2>3 DEF CallOK, NothingLost
    <2>6. BufferRead(c)'
      BY <1>1, <2>1, <2>2 DEF CallOK, BufferRead
    <2>7. VerdictFinal(c)'
      BY <1>1, <2>1, <2>2 DEF CallOK, VerdictFinal
    <2> QED
      BY <2>4, <2>5, <2>6, <2>7 DEF CallOK
  <1>6. ASSUME NEW d \in Calls \ {c} PROVE CallOK(d)'
    BY <1>1, <1>3, OthersKept
  <1> QED
    BY <1>4, <1>5, <1>6 DEF IInv

\* A lookup's goroutine appends its report: one more in the buffer, and one more
\* goroutine that has ended.
LEMMA SendInv ==
    ASSUME IInv, NEW c \in Calls, NEW k \in Column, Send(c, k)
    PROVE  IInv'
  <1>1. /\ c \in Lookups /\ worker[c][k] = "send"
        /\ buffer' = [buffer EXCEPT ![c] = Append(buffer[c], read[c][k])]
        /\ worker' = [worker EXCEPT ![c][k] = "ended"]
        /\ UNCHANGED <<read, pc, misses, found, up>>
    BY DEF Send
  <1>2. /\ worker' \in [Calls -> [Column -> {"query", "select", "send", "ended"}]]
        /\ \A d \in Calls, j \in Column :
             worker'[d][j] = IF d = c /\ j = k THEN "ended" ELSE worker[d][j]
    BY <1>1, SetPlace DEF IInv, TypeOK
  <1>3. /\ CallOK(c) /\ misses[c] \in Nat /\ buffer[c] \in Seq(MaybeUser)
        /\ read[c][k] \in MaybeUser
    BY CallState
  <1>4. /\ buffer'[c] \in Seq(MaybeUser)
        /\ Len(buffer[c]) \in Nat /\ Len(buffer'[c]) = Len(buffer[c]) + 1
        /\ buffer'[c][Len(buffer[c]) + 1] = read[c][k]
        /\ \A i \in 1..Len(buffer[c]) : buffer'[c][i] = buffer[c][i]
    BY <1>1, <1>3 DEF IInv, TypeOK
  <1>5. CallOK(c)'
    <2>1. Reports(c)' = Reports(c) + 1
      BY <1>1, <1>2 DEF Reports, Ended, Column
    <2>2. Counted(c)'
      BY <1>1, <1>3, <1>4, <2>1 DEF CallOK, Counted, Reports, Ended
    <2>3. NothingLost(c)'
      <3> SUFFICES ASSUME pc[c] = "loop", NEW j \in Column,
                          worker'[c][j] = "ended", read[c][j] # Nil
                   PROVE  \E i \in 1..Len(buffer'[c]) : buffer'[c][i] = read[c][j]
        BY <1>1 DEF NothingLost
      <3>1. CASE j = k
        BY <1>4, <3>1
      <3>2. CASE j # k
        <4>1. PICK i \in 1..Len(buffer[c]) : buffer[c][i] = read[c][j]
          BY <1>2, <1>3, <3>2 DEF CallOK, NothingLost
        <4> QED
          BY <1>4, <4>1
      <3> QED
        BY <3>1, <3>2
    <2>4. BufferRead(c)'
      <3> SUFFICES ASSUME NEW i \in 1..Len(buffer'[c])
                   PROVE  \E j \in Column : worker'[c][j] = "ended" /\ read[c][j] = buffer'[c][i]
        BY <1>1 DEF BufferRead
      <3>1. CASE i = Len(buffer[c]) + 1
        BY <1>2, <1>4, <3>1
      <3>2. CASE i # Len(buffer[c]) + 1
        <4>1. i \in 1..Len(buffer[c])
          BY <1>4, <3>2
        <4> QED
          BY <1>2, <1>3, <1>4, <4>1 DEF CallOK, BufferRead
      <3> QED
        BY <3>1, <3>2
    <2>5. VerdictFinal(c)'
      BY <1>1, <1>2, <1>3 DEF CallOK, VerdictFinal
    <2> QED
      BY <2>2, <2>3, <2>4, <2>5 DEF CallOK
  <1>6. TypeOK'
    <2>1. Len(buffer'[c]) + misses'[c] <= 2
      BY <1>1, <1>3, <1>4, <1>5 DEF CallOK, Counted, Reports, Ended
    <2> QED
      BY <1>1, <1>2, <1>4, <2>1, CallsAssumption DEF IInv, TypeOK
  <1>7. ASSUME NEW d \in Calls \ {c} PROVE CallOK(d)'
    BY <1>1, <1>2, OthersKept DEF IInv, TypeOK
  <1> QED
    BY <1>5, <1>6, <1>7 DEF IInv

\* The send on a closed channel ends the process; nothing else changes.
LEMMA SendPanicsInv ==
    ASSUME IInv, NEW c \in Calls, NEW k \in Column, SendPanics(c, k)
    PROVE  IInv'
  <1> USE DEF SendPanics
  <1>1. TypeOK'
    BY DEF IInv, TypeOK
  <1>2. \A d \in Calls : CallOK(d)'
    BY CallKept DEF IInv
  <1> QED
    BY <1>1, <1>2 DEF IInv

\* What a turn of the loop leaves behind, given what the report is.
LEMMA TakeEffect ==
    ASSUME IInv, NEW c \in Calls, NEW report \in MaybeUser, Take(c, report)
    PROVE  /\ found' = [found EXCEPT ![c] = report]
           /\ report # Nil => misses' = misses /\ pc'[c] \in Leaving
           /\ report = Nil => misses' = [misses EXCEPT ![c] = misses[c] + 1]
           /\ report = Nil /\ misses[c] + 1 < 2 => pc'[c] = "loop"
           /\ report = Nil /\ misses[c] + 1 >= 2 => pc'[c] \in Leaving
           /\ pc' \in [Calls -> {"loop"} \cup Leaving]
           /\ \A d \in Calls \ {c} : pc'[d] = pc[d]
  <1>1. /\ pc \in [Calls -> {"loop"} \cup Leaving]
        /\ misses \in [Calls -> 0..2] /\ misses[c] \in Nat
    BY CallState DEF IInv, TypeOK
  <1>2. {"closeUsername", "closeChannel"} \subseteq Leaving
    BY DEF Leaving
  <1>3. report # Nil => misses' = misses
    BY <1>1 DEF Take
  <1>4. report = Nil => misses' = [misses EXCEPT ![c] = misses[c] + 1]
    BY DEF Take
  <1>5. pc'[c] = IF report = Nil /\ misses[c] + 1 < 2 THEN "loop"
                 ELSE IF c \in Checks THEN "closeUsername" ELSE "closeChannel"
    BY <1>1 DEF Take, Misses
  <1>6. pc' \in [Calls -> {"loop"} \cup Leaving] /\ \A d \in Calls \ {c} : pc'[d] = pc[d]
    BY <1>1, <1>2 DEF Take
  <1> QED
    BY <1>1, <1>2, <1>3, <1>4, <1>5, <1>6 DEF Take

\* The second report of none means that both goroutines have ended and read none.
LEMMA ReceiveInv ==
    ASSUME IInv, NEW c \in Calls, NEW k \in Column, Receive(c, k)
    PROVE  IInv'
  <1> DEFINE report == read[c][k]
  <1>1. /\ c \in Checks /\ pc[c] = "loop" /\ worker[c][k] = "send"
        /\ worker' = [worker EXCEPT ![c][k] = "ended"]
        /\ Take(c, report)
        /\ UNCHANGED <<read, buffer, up>>
    BY DEF Receive
  <1>2. /\ worker' \in [Calls -> [Column -> {"query", "select", "send", "ended"}]]
        /\ \A d \in Calls, j \in Column :
             worker'[d][j] = IF d = c /\ j = k THEN "ended" ELSE worker[d][j]
    BY <1>1, SetPlace DEF IInv, TypeOK
  <1>3. /\ CallOK(c) /\ misses[c] \in Nat /\ report \in MaybeUser
        /\ buffer[c] = <<>> /\ Len(buffer[c]) = 0
    BY <1>1, CallState DEF IInv, TypeOK
  <1> HIDE DEF report
  <1>4. /\ found' = [found EXCEPT ![c] = report]
        /\ report # Nil => misses' = misses /\ pc'[c] \in Leaving
        /\ report = Nil => misses' = [misses EXCEPT ![c] = misses[c] + 1]
        /\ report = Nil /\ misses[c] + 1 < 2 => pc'[c] = "loop"
        /\ report = Nil /\ misses[c] + 1 >= 2 => pc'[c] \in Leaving
        /\ pc' \in [Calls -> {"loop"} \cup Leaving]
        /\ \A d \in Calls \ {c} : pc'[d] = pc[d]
    BY <1>1, <1>3, TakeEffect
  <1>5. Reports(c)' = Reports(c) + 1 /\ misses[c] = Reports(c) /\ Reports(c) + 1 <= 2
    BY <1>1, <1>2, <1>3 DEF CallOK, Counted, Reports, Ended, Column
  <1>6. \A j \in Column : worker[c][j] = "ended" => read[c][j] = Nil
    BY <1>1, <1>3 DEF CallOK, NothingLost
  <1>7. misses[c] + 1 >= 2 => \A j \in Column : worker'[c][j] = "ended"
    BY <1>1, <1>2, <1>5 DEF Reports, Ended, Column
  <1>8. misses' \in [Calls -> 0..2] /\ misses'[c] = IF report = Nil THEN misses[c] + 1 ELSE misses[c]
    <2>1. misses[c] + 1 \in 0..2
      BY <1>3, <1>5
    <2> QED
      BY <1>4, <2>1 DEF IInv, TypeOK
  <1>9. CallOK(c)'
    <2>1. Counted(c)'
      <3>1. "loop" \notin Leaving
        BY DEF Leaving
      <3> QED
        BY <1>1, <1>3, <1>4, <1>5, <1>8, <3>1 DEF Counted
    <2>2. NothingLost(c)'
      <3>1. "loop" \notin Leaving
        BY DEF Leaving
      <3>2. pc'[c] = "loop" => read'[c][k] = Nil
        BY <1>1, <1>4, <3>1 DEF report
      <3> QED
        BY <1>1, <1>2, <1>6, <3>2 DEF NothingLost
    <2>3. BufferRead(c)'
      BY <1>1, <1>3 DEF BufferRead
    <2>4. VerdictFinal(c)'
      <3>1. CASE report # Nil
        <4>1. found'[c] = report /\ worker'[c][k] = "ended" /\ read'[c][k] = report
          BY <1>1, <1>2, <1>4, <3>1 DEF IInv, TypeOK, report
        <4> QED
          BY <3>1, <4>1 DEF VerdictFinal
      <3>2. CASE report = Nil
        <4>1. found'[c] = Nil
          BY <1>4, <3>2 DEF IInv, TypeOK
        <4>2. \A j \in Column : worker'[c][j] = "ended" => read'[c][j] = Nil
          BY <1>1, <1>2, <1>6, <3>2 DEF report
        <4>3. pc'[c] \in Leaving => misses[c] + 1 >= 2
          BY <1>3, <1>4, <3>2 DEF Leaving
        <4> QED
          BY <1>7, <4>1, <4>2, <4>3 DEF VerdictFinal
      <3> QED
        BY <3>1, <3>2
    <2> QED
      BY <2>1, <2>2, <2>3, <2>4 DEF CallOK
  <1>10. TypeOK'
    <2>1. found' \in [Calls -> MaybeUser]
      BY <1>3, <1>4 DEF IInv, TypeOK
    <2>2. \A d \in Lookups : d # c
      BY <1>1, CallsAssumption
    <2>3. \A d \in Calls \ {c} : misses'[d] = misses[d]
      BY <1>4 DEF IInv, TypeOK
    <2>4. \A d \in Lookups : Len(buffer'[d]) + misses'[d] <= 2
      BY <1>1, <2>2, <2>3 DEF IInv, TypeOK, Calls
    <2> QED
      BY <1>1, <1>2, <1>4, <1>8, <2>1, <2>4 DEF IInv, TypeOK
  <1>11. ASSUME NEW d \in Calls \ {c} PROVE CallOK(d)'
    <2>1. misses'[d] = misses[d] /\ found'[d] = found[d]
      BY <1>4 DEF IInv, TypeOK
    <2> QED
      BY <1>1, <1>2, <1>4, <2>1, OthersKept
  <1> QED
    BY <1>9, <1>10, <1>11 DEF IInv

\* Likewise for the reports of a lookup, which were counted when they were sent.
LEMMA ReceiveBufferedInv ==
    ASSUME IInv, NEW c \in Calls, ReceiveBuffered(c)
    PROVE  IInv'
  <1> DEFINE report == Head(buffer[c])
  <1>1. /\ pc[c] = "loop" /\ buffer[c] # <<>>
        /\ buffer' = [buffer EXCEPT ![c] = Tail(buffer[c])]
        /\ Take(c, report)
        /\ UNCHANGED <<worker, read, up>>
    BY DEF ReceiveBuffered
  <1>2. CallOK(c) /\ misses[c] \in Nat /\ buffer[c] \in Seq(MaybeUser)
    BY CallState
  <1>3. /\ report \in MaybeUser /\ report = buffer[c][1]
        /\ buffer'[c] \in Seq(MaybeUser)
        /\ Len(buffer[c]) \in Nat \ {0} /\ Len(buffer'[c]) = Len(buffer[c]) - 1
        /\ \A i \in 1..Len(buffer'[c]) : buffer'[c][i] = buffer[c][i + 1]
    BY <1>1, <1>2, TailOfBuffer DEF IInv, TypeOK
  <1> HIDE DEF report
  <1>4. /\ found' = [found EXCEPT ![c] = report]
        /\ report # Nil => misses' = misses /\ pc'[c] \in Leaving
        /\ report = Nil => misses' = [misses EXCEPT ![c] = misses[c] + 1]
        /\ report = Nil /\ misses[c] + 1 < 2 => pc'[c] = "loop"
        /\ report = Nil /\ misses[c] + 1 >= 2 => pc'[c] \in Leaving
        /\ pc' \in [Calls -> {"loop"} \cup Leaving]
        /\ \A d \in Calls \ {c} : pc'[d] = pc[d]
    BY <1>1, <1>3, TakeEffect
  <1>5. /\ misses[c] + Len(buffer[c]) = Reports(c) /\ Reports(c)' = Reports(c)
        /\ Reports(c) \in 0..2
        /\ Reports(c) = 2 => \A j \in Column : worker[c][j] = "ended"
    BY <1>1, <1>2 DEF CallOK, Counted, Reports, Ended, Column
  <1>6. misses[c] + 1 \in 0..2
    BY <1>2, <1>3, <1>5
  <1>7. misses' \in [Calls -> 0..2] /\ misses'[c] = IF report = Nil THEN misses[c] + 1 ELSE misses[c]
    BY <1>4, <1>6 DEF IInv, TypeOK
  <1>8. "loop" \notin Leaving
    BY DEF Leaving
  <1>9. CallOK(c)'
    <2>1. Counted(c)'
      BY <1>2, <1>3, <1>4, <1>5, <1>7, <1>8 DEF Counted
    <2>2. NothingLost(c)'
      <3> SUFFICES ASSUME pc'[c] = "loop", NEW j \in Column,
                          worker[c][j] = "ended", read[c][j] # Nil
                   PROVE  \E i \in 1..Len(buffer'[c]) : buffer'[c][i] = read[c][j]
        BY <1>1 DEF NothingLost
      <3>1. report = Nil
        BY <1>4, <1>8
      <3>2. PICK i \in 1..Len(buffer[c]) : buffer[c][i] = read[c][j]
        BY <1>1, <1>2 DEF CallOK, NothingLost
      <3>3. i # 1
        BY <1>3, <3>1, <3>2
      <3>4. i - 1 \in 1..Len(buffer'[c]) /\ buffer'[c][i - 1] = buffer[c][i]
        BY <1>3, <3>3
      <3> QED
        BY <3>2, <3>4
    <2>3. BufferRead(c)'
      <3> SUFFICES ASSUME NEW i \in 1..Len(buffer'[c])
                   PROVE  \E j \in Column : worker[c][j] = "ended" /\ read[c][j] = buffer'[c][i]
        BY <1>1 DEF BufferRead
      <3>1. i + 1 \in 1..Len(buffer[c]) /\ buffer'[c][i] = buffer[c][i + 1]
        BY <1>3
      <3> QED
        BY <1>2, <3>1 DEF CallOK, BufferRead
    <2>4. VerdictFinal(c)'
      <3>1. CASE report # Nil
        <4>1. 1 \in 1..Len(buffer[c])
          BY <1>3
        <4>2. \E j \in Column : worker[c][j] = "ended" /\ read[c][j] = report
          BY <1>2, <1>3, <4>1 DEF CallOK, BufferRead
        <4>3. found'[c] = report
          BY <1>4 DEF IInv, TypeOK
        <4> QED
          BY <1>1, <3>1, <4>2, <4>3 DEF VerdictFinal
      <3>2. CASE report = Nil /\ pc'[c] \in Leaving
        \* It is the last report: the buffer held nothing else.
        <4>1. misses[c] + 1 >= 2
          BY <1>2, <1>4, <1>8, <3>2
        <4>2. Reports(c) = 2 /\ Len(buffer[c]) = 1
          <5>1. ASSUME NEW m \in Nat, NEW n \in Nat \ {0}, NEW r \in 0..2,
                       m + n = r, m + 1 >= 2
                PROVE  r = 2 /\ n = 1
            BY <5>1
          <5> QED
            BY <1>2, <1>3, <1>5, <4>1, <5>1
        <4>3. \A j \in Column : read[c][j] = Nil
          <5>1. \A i \in 1..Len(buffer[c]) : buffer[c][i] = Nil
            <6>1. \A i \in 1..Len(buffer[c]) : i = 1
              BY <4>2
            <6> QED
              BY <1>3, <3>2, <6>1
          <5>2. \A j \in Column : worker[c][j] = "ended"
            BY <1>5, <4>2
          <5> QED
            BY <1>1, <1>2, <5>1, <5>2 DEF CallOK, NothingLost
        <4>4. found'[c] = Nil
          BY <1>4, <3>2 DEF IInv, TypeOK
        <4> QED
          BY <1>1, <1>5, <4>2, <4>3, <4>4 DEF VerdictFinal
      <3>3. CASE pc'[c] \notin Leaving
        BY <3>3 DEF VerdictFinal
      <3> QED
        BY <3>1, <3>2, <3>3
    <2> QED
      BY <2>1, <2>2, <2>3, <2>4 DEF CallOK
  <1>10. TypeOK'
    <2>1. found' \in [Calls -> MaybeUser]
      BY <1>3, <1>4 DEF IInv, TypeOK
    <2>2. Len(buffer'[c]) + misses'[c] <= 2
      BY <1>2, <1>3, <1>5, <1>7
    <2>3. \A d \in Calls \ {c} : misses'[d] = misses[d] /\ buffer'[d] = buffer[d]
      BY <1>1, <1>4 DEF IInv, TypeOK
    <2>4. buffer' \in [Calls -> Seq(MaybeUser)]
      BY <1>1, <1>3 DEF IInv, TypeOK
    <2>5. c \notin Checks
      BY <1>1 DEF IInv, TypeOK
    <2>6. \A d \in Lookups : Len(buffer'[d]) + misses'[d] <= 2
      BY <2>2, <2>3 DEF IInv, TypeOK, Calls
    <2>7. \A d \in Checks : buffer'[d] = <<>>
      BY <2>3, <2>5 DEF IInv, TypeOK, Calls
    <2> QED
      BY <1>1, <1>4, <1>7, <2>1, <2>4, <2>6, <2>7 DEF IInv, TypeOK
  <1>11. ASSUME NEW d \in Calls \ {c} PROVE CallOK(d)'
    <2>1. misses'[d] = misses[d] /\ found'[d] = found[d] /\ buffer'[d] = buffer[d]
      BY <1>1, <1>4 DEF IInv, TypeOK
    <2> QED
      BY <1>1, <1>4, <2>1, OthersKept
  <1> QED
    BY <1>9, <1>10, <1>11 DEF IInv

\* A deferred call: the caller has left its loop before and after.
LEMMA CloseInv ==
    ASSUME IInv, NEW c \in Calls, Close(c)
    PROVE  IInv'
  <1>1. /\ pc[c] \in Leaving /\ UNCHANGED <<worker, read, buffer, misses, found, up>>
        /\ pc' = [pc EXCEPT ![c] = CASE pc[c] = "closeUsername" -> "closeEmail"
                                     [] pc[c] = "closeDone"     -> "returned"
                                     [] OTHER                   -> "closeDone"]
    BY DEF Close
  <1>2. /\ pc' \in [Calls -> {"loop"} \cup Leaving] /\ pc'[c] \in Leaving
        /\ \A d \in Calls \ {c} : pc'[d] = pc[d]
    BY <1>1 DEF IInv, TypeOK, Leaving
  <1>3. TypeOK'
    BY <1>1, <1>2 DEF IInv, TypeOK
  <1>4. CallOK(c)'
    <2>1. "loop" \notin Leaving /\ CallOK(c)
      BY DEF Leaving, IInv
    <2> QED
      BY <1>1, <1>2, <2>1
      DEF CallOK, Counted, NothingLost, BufferRead, VerdictFinal, Reports, Ended
  <1>5. ASSUME NEW d \in Calls \ {c} PROVE CallOK(d)'
    BY <1>1, <1>2, OthersKept
  <1> QED
    BY <1>3, <1>4, <1>5 DEF IInv

-----------------------------------------------------------------------------
(* The theorems *)

LEMMA StepInv == IInv /\ [Next]_vars => IInv'
  <1> SUFFICES ASSUME IInv, [Next]_vars PROVE IInv'
    OBVIOUS
  <1>1. ASSUME NEW c \in Calls, CallerStep(c) PROVE IInv'
    BY <1>1, ReceiveBufferedInv, CloseInv, ReceiveInv DEF CallerStep
  <1>2. ASSUME NEW c \in Calls, NEW k \in Column, GoroutineStep(c, k) PROVE IInv'
    BY <1>2, QueryInv, SelectInv, SendInv, SendPanicsInv DEF GoroutineStep
  <1>3. CASE UNCHANGED vars
    <2>1. TypeOK'
      BY <1>3 DEF vars, IInv, TypeOK
    <2>2. \A c \in Calls : CallOK(c)'
      BY <1>3, CallKept DEF vars, IInv
    <2> QED
      BY <2>1, <2>2 DEF IInv
  <1> QED
    BY <1>1, <1>2, <1>3 DEF Next

\* The inductive invariant holds throughout every behaviour.
THEOREM Invariance == Spec => []IInv
  BY InitInv, StepInv, PTL DEF Spec

\* Every variable keeps its type: in particular a lookup's channel never holds more
\* reports than it has room for, so its goroutines never wait to send.
THEOREM TypeCorrect == Spec => []TypeOK
  <1>1. IInv => TypeOK
    BY DEF IInv
  <1> QED
    BY <1>1, Invariance, PTL

\* Whichever goroutine is first, a call answers with an account one of its reads
\* found, or with none after both reads found none.
THEOREM VerdictsJustified == Spec => []VerdictJustified
  <1>1. IInv => VerdictJustified
    BY DEF IInv, CallOK, VerdictFinal, VerdictJustified
  <1> QED
    BY <1>1, Invariance, PTL
====
