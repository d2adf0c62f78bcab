---- MODULE OAuthTokens_proofs ----
(***************************************************************************)
(* Theorems about OAuthTokens, for every set of logins and requests, every *)
(* word size, every token_exp and every configured lifetime: its four      *)
(* properties, by the inductive invariant IInv.                            *)
(***************************************************************************)
EXTENDS OAuthTokens, TLAPS

\* The lifetime of the tokens of login l, in nanoseconds, is the one it asked for.
LifeRight(l, life) == Fits(asked[l]) => life = AskedSeconds(asked[l]) * Second

\* A code carries the lifetime its login asked for, as far as a word can hold it.
CodesRight ==
    \A l \in Logins : code[l] # None => asked[l] # None /\ LifeRight(l, Life(code[l].life))

\* What an exchange has read and written at each of its steps; once it has removed
\* its code there is none, and there will be none.
ExchangeOK(x) ==
    /\ pc[x] # "saved"
    /\ pc[x] # "idle" => source[x] \in Logins /\ asked[source[x]] # None
    /\ pc[x] \in {"loaded", "removed"} =>
           read[x] \in CodeRow /\ LifeRight(source[x], Life(read[x].life))
    /\ pc[x] \in {"removed", "ok"} => code[source[x]] = None
    /\ pc[x] \in {"idle", "loaded", "removed"} => token[x] = None
    /\ pc[x] = "ok" => token[x] # None

\* A refresh is of tokens a client was answered with, which stay as they are.
RefreshOK(r) ==
    /\ pc[r] # "removed"
    /\ pc[r] # "idle" => source[r] \in Requests /\ pc[source[r]] = "ok"
    /\ pc[r] = "loaded" => read[r] = token[source[r]] /\ read[r] # None
    /\ pc[r] \in {"idle", "loaded"} => token[r] = None
    /\ pc[r] \in {"saved", "ok"} => token[r] # None

\* Tokens have the lifetime their login asked for, and a refresh token's life is
\* counted from an exchange of a code of the same login.
TokenRight(q) ==
    LET t == token[q]
    IN  /\ asked[t.login] # None
        /\ LifeRight(t.login, t.life)
        /\ t.exp = t.made + t.life \div Second
        /\ \E x \in Exchanges : /\ token[x] # None
                                /\ token[x].login = t.login
                                /\ token[x].made = t.refreshMade

\* Tokens that were stored without a failure and are gone were replaced.
Replaced ==
    \A q \in Requests : pc[q] \in {"saved", "ok"} /\ q \notin stored =>
        \E r \in Refreshes : source[r] = q /\ token[r] # None

IInv ==
    /\ TypeOK
    /\ CodesRight
    /\ \A x \in Exchanges : ExchangeOK(x)
    /\ \A r \in Refreshes : RefreshOK(r)
    /\ \A q \in Requests : token[q] # None => TokenRight(q)
    /\ Replaced

-----------------------------------------------------------------------------
(* Lifetimes *)

\* Cutting an integer down to a word gives a word, and changes no word.
LEMMA WrapWord ==
    ASSUME NEW n \in Int
    PROVE  /\ Wrap(n) \in Word
           /\ n \in Word => Wrap(n) = n
  <1>1. MaxInt \in Nat
    BY WordAssumption
  <1> DEFINE k == n + MaxInt + 1
             size == 2 * (MaxInt + 1)
  <1>2. k \in Int /\ size \in Nat \ {0}
    BY <1>1
  <1>3. k % size \in 0..(size - 1)
    BY <1>2, SMT
  <1>4. k \in Nat /\ k < size => k % size = k
    BY <1>2, SMT
  <1>5. Wrap(n) = (k % size) - (MaxInt + 1)
    BY DEF Wrap
  <1> HIDE DEF k
  <1>6. Wrap(n) \in Word
    BY <1>1, <1>3, <1>5 DEF Word
  <1>7. n \in Word => Wrap(n) = n
    BY <1>1, <1>4, <1>5 DEF Word, k
  <1> QED
    BY <1>6, <1>7

\* A lifetime in whole seconds comes back from nanoseconds.
LEMMA WholeSeconds ==
    ASSUME NEW n \in Nat
    PROVE  (n * Second) \div Second = n
  BY WordAssumption, SMT

\* The manager grants a positive lifetime that is a word.
LEMMA LifePositive ==
    ASSUME NEW exp \in Word
    PROVE  Life(exp) \in 1..MaxInt
  <1>1. AccessExp * Second \in Nat \ {0}
    BY WordAssumption, LifetimesAssumption, SMT
  <1> QED
    BY <1>1, WordAssumption, LifetimesAssumption DEF Life, Word

\* What either way of logging in makes of a token_exp is a word, and gives the
\* lifetime asked for unless the product does not fit one.
LEMMA ExpRight ==
    ASSUME NEW raw \in TokenExps
    PROVE  /\ PasswordExp(raw) \in Word /\ CASExp(raw) \in Word
           /\ Fits(raw) => /\ Life(PasswordExp(raw)) = AskedSeconds(raw) * Second
                           /\ Life(CASExp(raw)) = AskedSeconds(raw) * Second
  <1>1. 0 \in Word
    BY WordAssumption DEF Word
  <1>2. CASE Number(raw)
    <2>1. raw \in Int /\ Second \in Nat \ {0}
      BY <1>2, WordAssumption DEF Word
    <2>2. raw * Second \in Int /\ (raw > 0 <=> raw * Second > 0)
      BY <2>1, SMT
    <2>3. Duration(raw) \in Word /\ (Fits(raw) => Duration(raw) = raw * Second)
      BY <1>2, <2>2, WrapWord DEF Duration, Fits
    <2> QED
      BY <1>1, <1>2, <2>1, <2>2, <2>3 DEF PasswordExp, CASExp, Life, AskedSeconds
  <1>3. CASE ~Number(raw)
    BY <1>1, <1>3 DEF PasswordExp, CASExp, Life, AskedSeconds
  <1> QED
    BY <1>2, <1>3

\* The expiry of an access token is that many whole seconds from now.
LEMMA ExpClaimNat ==
    ASSUME now \in Time, NEW life \in 1..MaxInt
    PROVE  ExpClaim(life) \in Nat
  <1>1. life \in Nat /\ Second \in Nat \ {0} /\ now \in Nat
    BY WordAssumption, LifetimesAssumption DEF Time
  <1>2. life \div Second \in Nat
    BY <1>1, SMT
  <1> QED
    BY <1>1, <1>2 DEF ExpClaim

-----------------------------------------------------------------------------
(* One lemma per operation *)

LEMMA InitInv == Init => IInv
  BY LifetimesAssumption
  DEF Init, IInv, TypeOK, CodesRight, ExchangeOK, RefreshOK, Replaced, Requests, Time

\* A step that changes no token keeps what is true of tokens, as the token_exp of
\* a login that has one is never changed.
LEMMA TokensKept ==
    ASSUME IInv, UNCHANGED token,
           \A l \in Logins : asked[l] # None => asked'[l] = asked[l]
    PROVE  \A q \in Requests : token'[q] # None => TokenRight(q)'
  <1> SUFFICES ASSUME NEW q \in Requests, token[q] # None
               PROVE  TokenRight(q)'
    OBVIOUS
  <1>1. token[q] \in TokenRow /\ TokenRight(q)
    BY DEF IInv, TypeOK
  <1> QED
    BY <1>1 DEF TokenRight, LifeRight, TokenRow

\* A new code, with a lifetime made of the token_exp.
LEMMA SaveCodeInv ==
    ASSUME IInv, NEW l \in Logins, asked[l] = None,
           NEW raw \in TokenExps, NEW life \in Word, SaveCode(l, raw, life),
           Fits(raw) => Life(life) = AskedSeconds(raw) * Second
    PROVE  IInv'
  <1> USE NoneAssumption DEF SaveCode, requestVars
  <1>1. TypeOK'
    BY DEF IInv, TypeOK, CodeRow
  <1>2. \A m \in Logins : asked[m] # None => asked'[m] = asked[m] /\ code'[m] = code[m]
    BY DEF IInv, TypeOK
  <1>3. CodesRight'
    <2> SUFFICES ASSUME NEW m \in Logins, code'[m] # None
                 PROVE  asked'[m] # None /\ LifeRight(m, Life(code[m].life))'
      BY DEF CodesRight
    <2>1. CASE m = l
      BY <2>1 DEF IInv, TypeOK, LifeRight, Life
    <2>2. CASE m # l
      BY <2>2 DEF IInv, TypeOK, CodesRight, LifeRight, Life
    <2> QED
      BY <2>1, <2>2
  <1>4. ASSUME NEW x \in Exchanges PROVE ExchangeOK(x)'
    <2>1. ExchangeOK(x)
      BY DEF IInv
    <2> QED
      BY <1>2, <2>1 DEF ExchangeOK, LifeRight, Life
  <1>5. ASSUME NEW r \in Refreshes PROVE RefreshOK(r)'
    BY DEF IInv, RefreshOK
  <1>6. Replaced'
    BY DEF IInv, Replaced
  <1> QED
    BY <1>1, <1>2, <1>3, <1>4, <1>5, <1>6, TokensKept DEF IInv

\* The codes stay right when none is added.
LEMMA CodesKept ==
    ASSUME CodesRight, UNCHANGED asked,
           \A l \in Logins : code'[l] = code[l] \/ code'[l] = None
    PROVE  CodesRight'
  BY DEF CodesRight, LifeRight, Life

LEMMA LoadCodeInv ==
    ASSUME IInv, NEW x \in Exchanges, LoadCode(x)
    PROVE  IInv'
  <1> USE NoneAssumption, RequestsAssumption DEF LoadCode, Goto, loginVars, Requests
  <1>1. TypeOK'
    BY DEF IInv, TypeOK, CodeGood
  <1>2. ASSUME NEW y \in Exchanges PROVE ExchangeOK(y)'
    <2>1. ExchangeOK(y)
      BY DEF IInv
    <2>2. CASE y = x
      BY <2>1, <2>2 DEF IInv, TypeOK, CodesRight, ExchangeOK, LifeRight, Life, CodeGood
    <2>3. CASE y # x
      BY <2>1, <2>3 DEF IInv, TypeOK, ExchangeOK, LifeRight, Life
    <2> QED
      BY <2>2, <2>3
  <1>3. ASSUME NEW r \in Refreshes PROVE RefreshOK(r)'
    <2>1. RefreshOK(r) /\ r # x
      BY DEF IInv
    <2> QED
      BY <2>1 DEF IInv, TypeOK, RefreshOK
  <1>4. Replaced'
    BY DEF IInv, TypeOK, Replaced
  <1> QED
    BY <1>1, <1>2, <1>3, <1>4, TokensKept, CodesKept DEF IInv

LEMMA RemoveCodeInv ==
    ASSUME IInv, NEW x \in Exchanges, RemoveCode(x)
    PROVE  IInv'
  <1> USE NoneAssumption, RequestsAssumption DEF RemoveCode, Goto, Requests
  <1>1. TypeOK'
    BY DEF IInv, TypeOK, ExchangeOK
  <1>2. ASSUME NEW y \in Exchanges PROVE ExchangeOK(y)'
    <2>1. ExchangeOK(y) /\ ExchangeOK(x)
      BY DEF IInv
    <2>2. CASE y = x
      BY <2>1, <2>2 DEF IInv, TypeOK, ExchangeOK, LifeRight, Life
    <2>3. CASE y # x
      BY <2>1, <2>3 DEF IInv, TypeOK, ExchangeOK, LifeRight, Life
    <2> QED
      BY <2>2, <2>3
  <1>3. ASSUME NEW r \in Refreshes PROVE RefreshOK(r)'
    <2>1. RefreshOK(r) /\ r # x
      BY DEF IInv
    <2> QED
      BY <2>1 DEF IInv, TypeOK, RefreshOK
  <1>4. Replaced'
    BY DEF IInv, TypeOK, Replaced
  <1>5. \A l \in Logins : code'[l] = code[l] \/ code'[l] = None
    BY DEF IInv, TypeOK
  <1> QED
    BY <1>1, <1>2, <1>3, <1>4, <1>5, TokensKept, CodesKept DEF IInv

\* A request that fails is over, and so is what held of it before it ended.
LEMMA FailInv ==
    ASSUME IInv, NEW q \in Requests, Fail(q)
    PROVE  IInv'
  <1> USE DEF Fail, Goto, loginVars
  <1>1. TypeOK'
    BY DEF IInv, TypeOK
  <1>2. ASSUME NEW y \in Exchanges PROVE ExchangeOK(y)'
    <2>1. ExchangeOK(y) /\ y \in Requests
      BY DEF IInv, Requests
    <2> QED
      BY <2>1 DEF IInv, TypeOK, ExchangeOK, LifeRight, Life
  <1>3. ASSUME NEW r \in Refreshes PROVE RefreshOK(r)'
    <2>1. RefreshOK(r) /\ r \in Requests
      BY DEF IInv, Requests
    <2> QED
      BY <2>1 DEF IInv, TypeOK, RefreshOK
  <1>4. Replaced'
    BY DEF IInv, TypeOK, Replaced
  <1> QED
    BY <1>1, <1>2, <1>3, <1>4, TokensKept, CodesKept DEF IInv

LEMMA LoadRefreshInv ==
    ASSUME IInv, NEW r \in Refreshes, LoadRefresh(r)
    PROVE  IInv'
  <1> USE NoneAssumption, RequestsAssumption DEF LoadRefresh, Goto, loginVars, Requests
  <1>1. TypeOK'
    BY DEF IInv, TypeOK
  <1>2. ASSUME NEW y \in Exchanges PROVE ExchangeOK(y)'
    <2>1. ExchangeOK(y) /\ y # r
      BY DEF IInv
    <2> QED
      BY <2>1 DEF IInv, TypeOK, ExchangeOK, LifeRight, Life
  <1>3. ASSUME NEW s \in Refreshes PROVE RefreshOK(s)'
    <2>1. RefreshOK(s)
      BY DEF IInv
    <2>2. CASE s = r
      BY <2>1, <2>2 DEF IInv, TypeOK, RefreshOK, RefreshGood
    <2>3. CASE s # r
      BY <2>1, <2>3 DEF IInv, TypeOK, RefreshOK
    <2> QED
      BY <2>2, <2>3
  <1>4. Replaced'
    BY DEF IInv, TypeOK, Replaced, RefreshOK
  <1> QED
    BY <1>1, <1>2, <1>3, <1>4, TokensKept, CodesKept DEF IInv

\* New tokens change no others, so what is true of these stays true: of requests
\* that hold them, and of the exchanges their lives are counted from.
LEMMA SaveGrantInv ==
    ASSUME IInv, NEW x \in Exchanges, SaveGrant(x)
    PROVE  IInv'
  <1> USE NoneAssumption, RequestsAssumption DEF Goto, loginVars, Requests
  <1> DEFINE life == Life(read[x].life)
             t == [login |-> source[x], made |-> now, refreshMade |-> now, life |-> life,
                   exp |-> ExpClaim(life)]
  <1>1. /\ pc[x] = "removed" /\ token' = [token EXCEPT ![x] = t]
        /\ stored' = stored \cup {x}
        /\ \E p \in {"ok", "failed"} : pc' = [pc EXCEPT ![x] = p]
        /\ UNCHANGED <<now, asked, code, source, read>>
    BY DEF SaveGrant
  <1>2. /\ ExchangeOK(x) /\ source[x] \in Logins /\ asked[source[x]] # None
        /\ read[x] \in CodeRow /\ LifeRight(source[x], life)
        /\ code[source[x]] = None /\ token[x] = None
    BY <1>1 DEF IInv, ExchangeOK
  <1>3. life \in 1..MaxInt
    BY <1>2, LifePositive DEF CodeRow
  <1>4. t \in TokenRow
    BY <1>2, <1>3, ExpClaimNat DEF IInv, TypeOK, TokenRow
  <1>5. t.login = source[x] /\ t.made = now /\ t.refreshMade = now /\ t.life = life
        /\ t.exp = now + life \div Second
    BY DEF ExpClaim
  <1> HIDE DEF t, life
  <1>6. TypeOK'
    BY <1>1, <1>4 DEF IInv, TypeOK
  <1>7. ASSUME NEW y \in Exchanges PROVE ExchangeOK(y)'
    <2>1. ExchangeOK(y)
      BY DEF IInv
    <2>2. CASE y = x
      BY <1>1, <1>2, <1>4, <2>2 DEF IInv, TypeOK, ExchangeOK
    <2>3. CASE y # x
      BY <1>1, <2>1, <2>3 DEF IInv, TypeOK, ExchangeOK, LifeRight, Life
    <2> QED
      BY <2>2, <2>3
  <1>8. ASSUME NEW r \in Refreshes PROVE RefreshOK(r)'
    <2>1. RefreshOK(r) /\ r # x
      BY DEF IInv
    <2> QED
      BY <1>1, <2>1 DEF IInv, TypeOK, RefreshOK
  <1>9. ASSUME NEW q \in Requests, token'[q] # None PROVE TokenRight(q)'
    <2>1. CASE q = x
      <3>1. token'[q] = t /\ token'[x] = t /\ t # None
        BY <1>1, <1>4, <2>1 DEF IInv, TypeOK
      <3> QED
        BY <1>1, <1>2, <1>5, <3>1 DEF TokenRight, LifeRight
    <2>2. CASE q # x
      <3>1. token'[q] = token[q] /\ TokenRight(q)
        BY <1>1, <1>9, <2>2 DEF IInv, TypeOK
      <3>2. \A y \in Exchanges : token[y] # None => token'[y] = token[y]
        BY <1>1, <1>2 DEF IInv, TypeOK
      <3>3. PICK y \in Exchanges : /\ token[y] # None
                                   /\ token[y].login = token[q].login
                                   /\ token[y].made = token[q].refreshMade
        BY <3>1 DEF TokenRight
      <3>4. \E z \in Exchanges : /\ token'[z] # None
                                 /\ token'[z].login = token'[q].login
                                 /\ token'[z].made = token'[q].refreshMade
        BY <3>1, <3>2, <3>3
      <3> QED
        BY <1>1, <3>1, <3>4 DEF TokenRight, LifeRight
    <2> QED
      BY <2>1, <2>2
  <1>10. Replaced'
    BY <1>1 DEF IInv, TypeOK, Replaced
  <1>11. CodesRight'
    BY <1>1, CodesKept DEF IInv
  <1> QED
    BY <1>6, <1>7, <1>8, <1>9, <1>10, <1>11 DEF IInv

LEMMA SaveRefreshedInv ==
    ASSUME IInv, NEW r \in Refreshes, SaveRefreshed(r)
    PROVE  IInv'
  <1> USE NoneAssumption, RequestsAssumption DEF Goto, loginVars, Requests
  <1> DEFINE t == Refreshed(read[r])
  <1>1. /\ pc[r] = "loaded" /\ token' = [token EXCEPT ![r] = t]
        /\ stored' = stored \cup {r}
        /\ \E p \in {"saved", "failed"} : pc' = [pc EXCEPT ![r] = p]
        /\ UNCHANGED <<now, asked, code, source, read>>
    BY DEF SaveRefreshed
  <1>2. /\ source[r] \in Requests /\ pc[source[r]] = "ok" /\ token[r] = None
        /\ read[r] = token[source[r]] /\ read[r] \in TokenRow /\ TokenRight(source[r])
    BY <1>1 DEF IInv, TypeOK, RefreshOK
  <1>3. ExpClaim(read[r].life) \in Nat
    BY <1>2, ExpClaimNat DEF IInv, TypeOK, TokenRow
  <1>4. /\ t \in TokenRow /\ t.login = read[r].login /\ t.made = now
        /\ t.refreshMade = read[r].refreshMade /\ t.life = read[r].life
        /\ t.exp = now + t.life \div Second
    BY <1>2, <1>3 DEF IInv, TypeOK, TokenRow, Refreshed, ExpClaim
  <1> HIDE DEF t
  <1>5. TypeOK'
    BY <1>1, <1>4 DEF IInv, TypeOK
  <1>6. ASSUME NEW y \in Exchanges PROVE ExchangeOK(y)'
    <2>1. ExchangeOK(y) /\ y # r
      BY DEF IInv
    <2> QED
      BY <1>1, <2>1 DEF IInv, TypeOK, ExchangeOK, LifeRight, Life
  <1>7. ASSUME NEW s \in Refreshes PROVE RefreshOK(s)'
    <2>1. RefreshOK(s)
      BY DEF IInv
    <2>2. CASE s = r
      BY <1>1, <1>2, <1>4, <2>2 DEF IInv, TypeOK, RefreshOK
    <2>3. CASE s # r
      BY <1>1, <2>1, <2>3 DEF IInv, TypeOK, RefreshOK
    <2> QED
      BY <2>2, <2>3
  <1>8. ASSUME NEW q \in Requests, token'[q] # None PROVE TokenRight(q)'
    <2> DEFINE o == IF q = r THEN source[r] ELSE q
    \* Whatever tokens these are, those the old ones of which they are, or they
    \* themselves, were right before.
    <2>1. /\ TokenRight(o) /\ token[o] # None
          /\ token'[q].login = token[o].login /\ token'[q].life = token[o].life
          /\ token'[q].refreshMade = token[o].refreshMade
          /\ token'[q].exp = token'[q].made + token'[q].life \div Second
      <3>1. CASE q = r
        BY <1>1, <1>2, <1>4, <3>1 DEF IInv, TypeOK
      <3>2. CASE q # r
        BY <1>1, <1>8, <3>2 DEF IInv, TypeOK, TokenRight
      <3> QED
        BY <3>1, <3>2
    <2>2. \A y \in Exchanges : token'[y] = token[y]
      BY <1>1 DEF IInv, TypeOK
    <2> HIDE DEF o
    <2>3. \E y \in Exchanges : /\ token'[y] # None
                               /\ token'[y].login = token'[q].login
                               /\ token'[y].made = token'[q].refreshMade
      BY <2>1, <2>2 DEF TokenRight
    <2> QED
      BY <1>1, <2>1, <2>3 DEF TokenRight, LifeRight
  <1>9. Replaced'
    BY <1>1, <1>2, <1>4 DEF IInv, TypeOK, Replaced
  <1>10. CodesRight'
    BY <1>1, CodesKept DEF IInv
  <1> QED
    BY <1>5, <1>6, <1>7, <1>8, <1>9, <1>10 DEF IInv

LEMMA RemoveRefreshInv ==
    ASSUME IInv, NEW r \in Refreshes, RemoveRefresh(r)
    PROVE  IInv'
  <1> USE RequestsAssumption DEF RemoveRefresh, Goto, loginVars, Requests
  <1>1. TypeOK'
    BY DEF IInv, TypeOK
  <1>2. ASSUME NEW y \in Exchanges PROVE ExchangeOK(y)'
    <2>1. ExchangeOK(y) /\ y # r
      BY DEF IInv
    <2> QED
      BY <2>1 DEF IInv, TypeOK, ExchangeOK, LifeRight, Life
  <1>3. ASSUME NEW s \in Refreshes PROVE RefreshOK(s)'
    <2>1. RefreshOK(s)
      BY DEF IInv
    <2> QED
      BY <2>1 DEF IInv, TypeOK, RefreshOK
  <1>4. RefreshOK(r) /\ source[r] \in Requests /\ token[r] # None
    BY DEF IInv, RefreshOK
  <1>5. Replaced'
    BY <1>4 DEF IInv, TypeOK, Replaced
  <1> QED
    BY <1>1, <1>2, <1>3, <1>5, TokensKept, CodesKept DEF IInv

-----------------------------------------------------------------------------
(* The theorems *)

\* The clock moves and nothing else, or nothing at all.
LEMMA IdleInv ==
    ASSUME IInv, now' \in Time, UNCHANGED <<loginVars, requestVars, token, stored>>
    PROVE  IInv'
  <1> USE DEF loginVars, requestVars
  <1>1. TypeOK' /\ Replaced'
    BY DEF IInv, TypeOK, Replaced
  <1>2. ASSUME NEW x \in Exchanges PROVE ExchangeOK(x)'
    BY DEF IInv, ExchangeOK, LifeRight, Life
  <1>3. ASSUME NEW r \in Refreshes PROVE RefreshOK(r)'
    BY DEF IInv, RefreshOK
  <1> QED
    BY <1>1, <1>2, <1>3, TokensKept, CodesKept DEF IInv

LEMMA StepInv == IInv /\ [Next]_vars => IInv'
  <1> SUFFICES ASSUME IInv, [Next]_vars PROVE IInv'
    OBVIOUS
  <1>1. ASSUME NEW l \in PasswordLogins, PasswordLogin(l) PROVE IInv'
    BY <1>1, ExpRight, SaveCodeInv DEF PasswordLogin, Logins
  <1>2. ASSUME NEW l \in CASLogins, CASLogin(l) PROVE IInv'
    BY <1>2, ExpRight, SaveCodeInv DEF CASLogin, Logins
  <1>3. ASSUME NEW x \in Exchanges, LoadCode(x) \/ RemoveCode(x) \/ SaveGrant(x) PROVE IInv'
    BY <1>3, LoadCodeInv, RemoveCodeInv, SaveGrantInv
  <1>4. ASSUME NEW r \in Refreshes, LoadRefresh(r) \/ SaveRefreshed(r) \/ RemoveRefresh(r)
        PROVE  IInv'
    BY <1>4, LoadRefreshInv, SaveRefreshedInv, RemoveRefreshInv
  <1>5. ASSUME NEW q \in Requests, Fail(q) PROVE IInv'
    BY <1>5, FailInv
  <1>6. CASE Tick
    <2>1. now' \in Time
      BY <1>6, LifetimesAssumption DEF Tick, IInv, TypeOK, Time
    <2> QED
      BY <1>6, <2>1, IdleInv DEF Tick
  <1>7. CASE UNCHANGED vars
    BY <1>7, IdleInv DEF vars, IInv, TypeOK
  <1> QED
    BY <1>1, <1>2, <1>3, <1>4, <1>5, <1>6, <1>7 DEF Next

\* The inductive invariant holds throughout every behaviour.
THEOREM Invariance == Spec => []IInv
  BY InitInv, StepInv, PTL DEF Spec

\* Every row keeps its type: no lifetime that is not positive, or wider than a
\* word, ever gets into a token, whatever token_exp was asked for.
THEOREM TypeCorrect == Spec => []TypeOK
  <1>1. IInv => TypeOK
    BY DEF IInv
  <1> QED
    BY <1>1, Invariance, PTL

\* Every access token of a login, through all its refreshes, is good for as long as
\* the login asked, unless the nanoseconds do not fit a word.
THEOREM LifetimesAsAsked == Spec => []LifetimeAsAsked
  <1>1. ASSUME IInv, NEW q \in Requests, token[q] # None, Fits(asked[token[q].login])
        PROVE  token[q].exp = token[q].made + AskedSeconds(asked[token[q].login])
    <2> DEFINE l == token[q].login
    <2>1. /\ token[q] \in TokenRow /\ TokenRight(q) /\ l \in Logins
          /\ asked[l] \in TokenExps /\ AccessExp \in Nat
      BY <1>1, LifetimesAssumption DEF IInv, TypeOK, TokenRow, TokenRight
    <2>2. AskedSeconds(asked[l]) \in Nat
      BY <2>1, WordAssumption DEF AskedSeconds, Word
    <2>3. token[q].life \div Second = AskedSeconds(asked[l])
      BY <1>1, <2>1, <2>2, WholeSeconds DEF TokenRight, LifeRight
    <2> QED
      BY <2>1, <2>3 DEF TokenRight
  <1>2. IInv => LifetimeAsAsked
    BY <1>1 DEF LifetimeAsAsked
  <1> QED
    BY <1>2, Invariance, PTL

\* However refreshes of one token interleave and wherever they fail, a client that
\* was answered with tokens has a good refresh token, or one that replaces it was
\* stored.
THEOREM FailuresCostNothing == Spec => []FailedRefreshCostsNothing
  <1>1. IInv => FailedRefreshCostsNothing
    BY DEF IInv, Replaced, FailedRefreshCostsNothing
  <1> QED
    BY <1>1, Invariance, PTL

\* No refresh is granted once the refresh token's life is over, counted from the
\* exchange of the login's code and not from the refreshes since.
THEOREM SessionsEnd == Spec => SessionEnds
  <1> DEFINE Ends == \A r \in Refreshes : pc[r] = "idle" /\ pc'[r] = "loaded" =>
                \E x \in Exchanges :
                    /\ token[x] # None /\ token[x].login = read'[r].login
                    /\ now <= token[x].made + RefreshExp
  <1>1. IInv /\ [Next]_vars => [Ends]_vars
    <2> SUFFICES ASSUME IInv, Next, NEW r \in Refreshes, pc[r] = "idle", pc'[r] = "loaded"
                 PROVE  \E x \in Exchanges :
                            /\ token[x] # None /\ token[x].login = read'[r].login
                            /\ now <= token[x].made + RefreshExp
      BY DEF Ends
    <2>1. LoadRefresh(r)
      BY RequestsAssumption
      DEF Next, PasswordLogin, CASLogin, SaveCode, LoadCode, RemoveCode, SaveGrant,
          LoadRefresh, SaveRefreshed, RemoveRefresh, Fail, Tick, Goto, loginVars,
          requestVars, Requests, IInv, TypeOK
    <2>2. PICK t \in Requests : RefreshGood(t) /\ read'[r] = token[t]
      BY <2>1 DEF LoadRefresh, Goto, IInv, TypeOK, Requests
    <2>3. token[t] # None /\ TokenRight(t)
      BY <2>2 DEF RefreshGood, IInv, TypeOK
    <2> QED
      BY <2>2, <2>3 DEF RefreshGood, TokenRight
  <1> QED
    BY <1>1, Invariance, PTL DEF Spec, SessionEnds

\* An exchange that reads a code never comes after one of that code that succeeded.
THEOREM CodesGoodOnce == Spec => CodeGoodOnce
  <1> DEFINE Once == \A x, y \in Exchanges :
                pc[x] = "idle" /\ pc'[x] = "loaded" /\ source'[x] = source[y] => pc[y] # "ok"
  <1>1. IInv /\ [Next]_vars => [Once]_vars
    <2> SUFFICES ASSUME IInv, Next, NEW x \in Exchanges, NEW y \in Exchanges,
                        pc[x] = "idle", pc'[x] = "loaded", source'[x] = source[y],
                        pc[y] = "ok"
                 PROVE  FALSE
      BY DEF Once
    <2>1. LoadCode(x)
      BY RequestsAssumption
      DEF Next, PasswordLogin, CASLogin, SaveCode, LoadCode, RemoveCode, SaveGrant,
          LoadRefresh, SaveRefreshed, RemoveRefresh, Fail, Tick, Goto, loginVars,
          requestVars, Requests, IInv, TypeOK
    <2>2. code[source[y]] # None
      BY <2>1 DEF LoadCode, Goto, CodeGood, IInv, TypeOK, Requests
    <2> QED
      BY <2>2 DEF IInv, ExchangeOK
  <1> QED
    BY <1>1, Invariance, PTL DEF Spec, CodeGoodOnce
====
