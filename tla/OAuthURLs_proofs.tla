---- MODULE OAuthURLs_proofs ----
(***************************************************************************)
(* Theorems about the search for the client that owns a callback_url.      *)
(***************************************************************************)
EXTENDS OAuthURLs, SequenceTheorems, TLAPS

\* What a client store holds whose domains were all normalised before they were
\* stored, as AdminStore does: names in lower case.
Normalised(clients) == \A c \in clients : LowerCase[c.domain.host] = c.domain.host

AsWritten(u) == [host |-> u.host, port |-> u.port]

\* The first two candidates are the URL's host as it is written and in lower case.
LEMMA FirstCandidates ==
    ASSUME NEW u
    PROVE  /\ Len(Candidates(u)) \in Nat /\ Len(Candidates(u)) >= 2
           /\ Candidates(u)[1] = AsWritten(u) /\ Candidates(u)[2] = Origin(u)
  <1> DEFINE S == {[host |-> h, port |-> p] : h \in {u.host, LowerCase[u.host]},
                                              p \in {u.port, NoPort}}
             first == <<AsWritten(u), Origin(u)>>
             rest == IF DefaultPort(u)
                     THEN << [host |-> u.host, port |-> NoPort],
                             [host |-> LowerCase[u.host], port |-> NoPort] >>
                     ELSE <<>>
  <1>1. first \in Seq(S) /\ Len(first) = 2 /\ rest \in Seq(S)
    <2>1. ASSUME NEW h \in {u.host, LowerCase[u.host]}, NEW p \in {u.port, NoPort}
          PROVE  [host |-> h, port |-> p] \in S
      OBVIOUS
    <2>2. first \in Seq(S) /\ Len(first) = 2
      <3> HIDE DEF S
      <3> QED
        BY <2>1 DEF AsWritten, Origin
    <2>3. rest \in Seq(S)
      <3> HIDE DEF S
      <3>1. <<>> \in Seq(S)
        OBVIOUS
      <3>2. << [host |-> u.host, port |-> NoPort],
               [host |-> LowerCase[u.host], port |-> NoPort] >> \in Seq(S)
        BY <2>1
      <3> QED
        BY <3>1, <3>2
    <2> QED
      BY <2>2, <2>3
  <1>2. Candidates(u) = first \o rest
    BY DEF Candidates, AsWritten, Origin
  <1>3. /\ Len(first \o rest) = Len(first) + Len(rest)
        /\ (first \o rest)[1] = first[1] /\ (first \o rest)[2] = first[2]
    BY <1>1, ConcatProperties
  <1>4. Len(rest) \in Nat
    BY <1>1, LenProperties
  <1>5. first[1] = AsWritten(u) /\ first[2] = Origin(u)
    OBVIOUS
  <1> QED
    BY <1>1, <1>2, <1>3, <1>4, <1>5

\* A client the search returns is registered for the origin of the callback_url.
LEMMA FoundHasOrigin ==
    ASSUME NEW clients, NEW u, NEW c \in ClientsOf(clients, u)
    PROVE  c \in clients /\ u.scheme = "https" /\ Origin(u) = c.domain
  BY DEF ClientsOf, FirstFound, CallbackAllowed, Accepted

\* With normalised clients no other client is registered for the host as it is written.
LEMMA WrittenOrOrigin ==
    ASSUME NEW clients, Normalised(clients), NEW u, NEW c \in clients, c.domain = AsWritten(u)
    PROVE  c.domain = Origin(u)
  <1>1. c.domain.host = u.host
    BY DEF AsWritten
  <1> QED
    BY <1>1 DEF Normalised, AsWritten, Origin

\* Among clients whose domains are normalised, resolveClientInfoByCallbackURL finds
\* the owner of a page that may be a callback_url, however its host is written and
\* whatever other domains are registered: a client of another candidate, which
\* would fail the validation, never stands in front of it.
THEOREM OwnerFound ==
    ASSUME NEW clients, Normalised(clients), NEW u, Accepted(u), ~u.fragment
    PROVE  /\ ClientsOf(clients, u) = ByDomain(clients, Origin(u))
           /\ ByDomain(clients, Origin(u)) # {} =>
                FirstFound(clients, u) = ByDomain(clients, Origin(u))
  <1> DEFINE owners == ByDomain(clients, Origin(u))
  <1>1. ASSUME NEW c \in clients, c.domain = Origin(u)
        PROVE  c \in FirstFound(clients, u) /\ CallbackAllowed(c.domain, u)
    <2>1. CallbackAllowed(c.domain, u)
      BY <1>1 DEF CallbackAllowed
    <2>2. CASE ByDomain(clients, AsWritten(u)) = {}
      <3>1. c.domain = Candidates(u)[2]
        BY <1>1, FirstCandidates
      <3>2. 2 \in 1..Len(Candidates(u)) /\ \A j \in 1..(2 - 1) : j = 1
        BY FirstCandidates
      <3> QED
        BY <2>1, <2>2, <3>1, <3>2, FirstCandidates DEF FirstFound
    <2>3. CASE ByDomain(clients, AsWritten(u)) # {}
      <3>1. AsWritten(u) = Origin(u)
        BY <2>3, WrittenOrOrigin DEF ByDomain
      <3>2. c.domain = Candidates(u)[1]
        BY <1>1, <3>1, FirstCandidates
      <3>3. 1 \in 1..Len(Candidates(u)) /\ 1..(1 - 1) = {}
        BY FirstCandidates
      <3> QED
        BY <2>1, <3>2, <3>3 DEF FirstFound
    <2> QED
      BY <2>2, <2>3
  <1>2. ASSUME NEW c \in FirstFound(clients, u), owners # {}
        PROVE  c \in owners
    <2>1. PICK i \in 1..Len(Candidates(u)) :
              /\ c.domain = Candidates(u)[i]
              /\ \A j \in 1..(i - 1) : ByDomain(clients, Candidates(u)[j]) = {}
      BY <1>2 DEF FirstFound
    <2>2. i \in {1, 2}
      <3>1. ByDomain(clients, Candidates(u)[2]) # {}
        BY <1>2, FirstCandidates
      <3>2. i \in Nat /\ i >= 1
        BY FirstCandidates
      <3>3. i > 2 => 2 \in 1..(i - 1)
        BY <3>2
      <3>4. ~(i > 2)
        BY <2>1, <3>1, <3>3
      <3> QED
        BY <3>2, <3>4
    <2>3. c \in clients
      BY DEF FirstFound
    <2>4. c.domain = Origin(u)
      BY <2>1, <2>2, <2>3, FirstCandidates, WrittenOrOrigin
    <2> QED
      BY <2>3, <2>4 DEF ByDomain
  <1>3. ClientsOf(clients, u) = owners
    BY <1>1, FoundHasOrigin DEF ClientsOf, ByDomain
  <1>4. owners # {} => FirstFound(clients, u) = owners
    BY <1>1, <1>2 DEF ByDomain
  <1> QED
    BY <1>3, <1>4
====
