--------------------------- MODULE SessionProofs ---------------------------
(* Theorems about Session, for every value of its constants. *)
EXTENDS Session, TLAPS

\* Earlier is the minimum.
LEMMA EarlierIsMin ==
  ASSUME NEW s \in Nat, NEW t \in Nat
  PROVE  Earlier(s, t) \in Nat /\ Earlier(s, t) <= s /\ Earlier(s, t) <= t
BY DEF Earlier

\* The step a handler is at says which fields it has.
LEMMA StateFields ==
  ASSUME NEW state \in RequestState
  PROVE  /\ state.step = "insert authentication" => state \in Creating
         /\ state.step = "insert challenge" => state \in Created
         /\ state.step = "renew" => state \in Renewing
         /\ state.step = "register" => state \in Registering
         /\ state.step = "prove" => state \in Proving
         /\ state.step = "rechallenge" => state \in Rechallenging
         /\ state.step = "mint" => state \in Minting
         /\ state.step = "seed" => state \in Seeding
<1>1. /\ \A x \in Creating : x.step = "insert authentication"
      /\ \A x \in Created : x.step = "insert challenge"
      /\ \A x \in Renewing : x.step = "renew"
      /\ \A x \in Registering : x.step = "register"
      /\ \A x \in Proving : x.step = "prove"
      /\ \A x \in Rechallenging : x.step = "rechallenge"
      /\ \A x \in Minting : x.step = "mint"
      /\ \A x \in Seeding : x.step = "seed"
      /\ Idle.step = "idle"
  BY DEF Creating, Created, Renewing, Registering, Proving, Rechallenging,
         Minting, Seeding, Idle
<1> QED BY <1>1 DEF RequestState

LEMMA RequestFields ==
  ASSUME TypeOK, NEW r \in Request
  PROVE  /\ request[r].step = "insert authentication" => request[r] \in Creating
         /\ request[r].step = "insert challenge" => request[r] \in Created
         /\ request[r].step = "renew" => request[r] \in Renewing
         /\ request[r].step = "register" => request[r] \in Registering
         /\ request[r].step = "prove" => request[r] \in Proving
         /\ request[r].step = "rechallenge" => request[r] \in Rechallenging
         /\ request[r].step = "mint" => request[r] \in Minting
         /\ request[r].step = "seed" => request[r] \in Seeding
BY StateFields DEF TypeOK

\* The holder of an account row, as RowAssumption gives it.
LEMMA AccountRowFields ==
  ASSUME NEW row \in AccountRow
  PROVE  row.locked \in BOOLEAN /\ row.roles \in SUBSET Role /\ row.tenant \in Tenant
BY RowAssumption

\* A stored authentication is a row, and reading it gives a snapshot.
LEMMA ReadIsSnapshot ==
  ASSUME TypeOK, NEW a \in Auth, authentication[a] # Absent
  PROVE  /\ authentication[a] \in AuthenticationRow
         /\ SelectRefreshAuthentication(a) \in Snapshot
<1>1. authentication[a] \in AuthenticationRow
  BY DEF TypeOK
<1>2. account[authentication[a].account] \in AccountRow
  BY <1>1 DEF TypeOK, AuthenticationRow
<1> QED BY <1>1, <1>2 DEF SelectRefreshAuthentication, AuthenticationRow, Snapshot

\* Each kind of new token is a token.
LEMMA NewTokenIsToken ==
  ASSUME TypeOK, DurationAssumption, NEW a \in Auth, NEW x \in Account, NEW h \in AccountRow,
         NEW method \in Method, NEW d \in Nat, NEW limit \in Nat
  PROVE  NewToken(a, x, h, method, d, limit) \in Token
<1>1. now + d \in Nat
  BY DEF TypeOK
<1>2. Earlier(now + d, limit) \in Nat
  BY <1>1, EarlierIsMin
<1> QED BY <1>2, AccountRowFields DEF NewToken, Token, TypeOK

LEMMA RefreshedTokenIsToken ==
  ASSUME TypeOK, NEW token \in Token, NEW row \in Snapshot
  PROVE  RefreshedToken(token, row) \in Token
<1>1. /\ row.expiresAt \in Nat /\ row.holder \in AccountRow
  BY DEF Snapshot
<1>2. Earlier(row.expiresAt, now + SessionDuration) \in Nat
  BY <1>1, EarlierIsMin, DurationAssumption DEF TypeOK
<1>3. row.holder.roles \in SUBSET Role
  BY <1>1, AccountRowFields
<1> QED BY <1>2, <1>3 DEF RefreshedToken, Token, Method, Refresh, TypeOK

\* A handler's move to a state of its type keeps request well typed.
LEMMA ProceedTyped ==
  ASSUME TypeOK, NEW r \in Request, NEW state \in RequestState, Proceed(r, state)
  PROVE  request' \in [Request -> RequestState]
BY DEF TypeOK, Proceed

LEMMA AnswerTyped ==
  ASSUME TypeOK, NEW r \in Request, Answer(r)
  PROVE  request' \in [Request -> RequestState]
BY ProceedTyped DEF Answer, RequestState

\* The challenge table stays well typed under its two operations.
LEMMA InsertChallengeTyped ==
  ASSUME TypeOK, NEW c \in Challenge, NEW a \in Auth, InsertDbscChallenge(c, a)
  PROVE  challenge' \in [Challenge -> ChallengeRow \union {Absent}]
<1>1. now + ChallengeDuration \in Nat
  BY DurationAssumption DEF TypeOK
<1>2. [auth |-> a, expiresAt |-> now + ChallengeDuration, stored |-> TRUE] \in ChallengeRow
  BY <1>1 DEF ChallengeRow
<1> QED BY <1>2 DEF InsertDbscChallenge, TypeOK

LEMMA PopChallengeTyped ==
  ASSUME TypeOK, NEW c \in Challenge, challenge[c] # Absent, PopDbscChallenge(c)
  PROVE  challenge' \in [Challenge -> ChallengeRow \union {Absent}]
<1>1. challenge[c] \in ChallengeRow
  BY DEF TypeOK
<1>2. [challenge[c] EXCEPT !.stored = FALSE] \in ChallengeRow
  BY <1>1 DEF ChallengeRow
<1>3. challenge' = [challenge EXCEPT ![c] = [challenge[c] EXCEPT !.stored = FALSE]]
  BY DEF PopDbscChallenge
<1> QED BY <1>2, <1>3 DEF TypeOK

LEMMA CountTyped ==
  ASSUME TypeOK, NEW c \in Challenge, CountRedemption(c)
  PROVE  redeemed' \in [Challenge -> Nat]
BY DEF TypeOK, CountRedemption

\* Presented tokens are tokens.
LEMMA PresentedAreTokens ==
  ASSUME TypeOK
  PROVE  Presented \subseteq Token /\ Authorized \subseteq Token /\ AuthorizedSkippingExp \subseteq Token
<1>1. \A cookie \in cookies : cookie.token \in Token
  BY DEF TypeOK, Cookie
<1> QED BY <1>1 DEF Presented, Authorized, AuthorizedSkippingExp

-----------------------------------------------------------------------------
\* Every variable keeps its type, in particular every handler in flight holds
\* the fields its next call reads, whatever was interleaved with it.
THEOREM TypeCorrect == Spec => []TypeOK
<1>1. Init => TypeOK
  <2> SUFFICES ASSUME Init PROVE TypeOK
    OBVIOUS
  <2>1. Idle \in RequestState
    BY DEF RequestState
  <2> QED BY <2>1 DEF Init, TypeOK
<1>2. TypeOK /\ [Next]_vars => TypeOK'
  <2> SUFFICES ASSUME TypeOK, [Next]_vars PROVE TypeOK'
    OBVIOUS
  <2> USE DurationAssumption, RowAssumption
  <2>1. ASSUME NEW r \in Request, NEW x \in Account, NEW method \in SignInMethod,
               NEW t \in IdToken, SelectEmailAddressAccount(r, x, method, t)
        PROVE  TypeOK'
    <3>1. account[x] \in AccountRow
      BY DEF TypeOK
    <3>2. [step |-> "insert authentication", account |-> x, holder |-> account[x],
           method |-> method, idToken |-> t] \in RequestState
      BY <3>1 DEF RequestState, Creating
    <3>3. request' \in [Request -> RequestState]
      BY <2>1, <3>2, ProceedTyped DEF SelectEmailAddressAccount
    <3> QED BY <2>1, <3>3 DEF SelectEmailAddressAccount, tables, TypeOK
  <2>2. ASSUME NEW r \in Request, NEW a \in Auth, InsertAuthentication(r, a)
        PROVE  TypeOK'
    <3>1. request[r] \in Creating
      BY <2>2, RequestFields DEF InsertAuthentication
    <3>2. now + AuthenticationDuration \in Nat
      BY DEF TypeOK
    <3>3. [account |-> request[r].account, createdAt |-> now,
           expiresAt |-> now + AuthenticationDuration, idToken |-> request[r].idToken,
           ended |-> FALSE, key |-> NoKey, stored |-> TRUE] \in AuthenticationRow
      BY <3>1, <3>2 DEF Creating, AuthenticationRow, TypeOK
    <3>4. [step |-> "insert challenge", auth |-> a, account |-> request[r].account,
           holder |-> request[r].holder, method |-> request[r].method,
           expiresAt |-> now + AuthenticationDuration] \in RequestState
      BY <3>1, <3>2 DEF Creating, Created, RequestState
    <3>5. request' \in [Request -> RequestState]
      BY <2>2, <3>4, ProceedTyped, AnswerTyped DEF InsertAuthentication
    <3>6. authentication' \in [Auth -> AuthenticationRow \union {Absent}]
      BY <2>2, <3>3 DEF InsertAuthentication, TypeOK
    <3> QED BY <2>2, <3>5, <3>6 DEF InsertAuthentication, TypeOK
  <2>3. ASSUME NEW r \in Request, NEW c \in Challenge, AnswerSignIn(r, c)
        PROVE  TypeOK'
    <3>1. request[r] \in Created
      BY <2>3, RequestFields DEF AnswerSignIn
    <3>2. CreatedCookie(request[r]) \in Cookie
      <4>1. /\ request[r].auth \in Auth /\ request[r].account \in Account
            /\ request[r].holder \in AccountRow /\ request[r].method \in Method
            /\ request[r].expiresAt \in Nat
        BY <3>1 DEF Created, Method
      <4> QED BY <4>1, NewTokenIsToken DEF CreatedCookie, Cookie
    <3>3. challenge' \in [Challenge -> ChallengeRow \union {Absent}]
      BY <2>3, <3>1, InsertChallengeTyped DEF AnswerSignIn, Created
    <3>4. request' \in [Request -> RequestState]
      BY <2>3, AnswerTyped DEF AnswerSignIn
    <3> QED BY <2>3, <3>2, <3>3, <3>4 DEF AnswerSignIn, TypeOK
  <2>4. ASSUME NEW r \in Request, NEW token \in AuthorizedSkippingExp,
               RefreshEndpointRead(r, token) \/ NavigationRefreshRead(r, token)
        PROVE  TypeOK'
    <3>1. token \in Token
      BY PresentedAreTokens
    <3>2. SelectRefreshAuthentication(token.auth) \in Snapshot
      BY <2>4, <3>1, ReadIsSnapshot
         DEF RefreshEndpointRead, NavigationRefreshRead, Stored, Token
    <3>3. [step |-> "renew", token |-> token,
           row |-> SelectRefreshAuthentication(token.auth)] \in RequestState
      BY <3>1, <3>2 DEF Renewing, RequestState
    <3>4. request' \in [Request -> RequestState]
      BY <2>4, <3>3, ProceedTyped DEF RefreshEndpointRead, NavigationRefreshRead
    <3> QED BY <2>4, <3>4 DEF RefreshEndpointRead, NavigationRefreshRead, tables, TypeOK
  <2>5. ASSUME NEW r \in Request, RefreshSession(r)
        PROVE  TypeOK'
    <3>1. request[r] \in Renewing
      BY <2>5, RequestFields DEF RefreshSession
    <3>2. [token |-> RefreshedToken(request[r].token, request[r].row),
           expiresAt |-> request[r].row.expiresAt] \in Cookie
      BY <3>1, RefreshedTokenIsToken DEF Renewing, Snapshot, Cookie
    <3>3. request' \in [Request -> RequestState]
      BY <2>5, AnswerTyped DEF RefreshSession
    <3>4. cookies' \in SUBSET Cookie
      BY <2>5, <3>2 DEF RefreshSession, TypeOK
    <3> QED BY <2>5, <3>3, <3>4 DEF RefreshSession, tables, TypeOK
  <2>6. ASSUME NEW token \in Authorized, EndSession(token)
        PROVE  TypeOK'
    <3>1. token.auth \in Auth
      BY PresentedAreTokens DEF Token
    <3>2. authentication[token.auth] \in AuthenticationRow
      BY <2>6, <3>1, ReadIsSnapshot DEF EndSession, Stored
    <3>3. [authentication[token.auth] EXCEPT !.ended = TRUE] \in AuthenticationRow
      BY <3>2 DEF AuthenticationRow
    <3> QED BY <2>6, <3>1, <3>3 DEF EndSession, TypeOK
  <2>7. ASSUME NEW r \in Request, NEW token \in Authorized, NEW key \in Key,
               NEW c \in Challenge, RegisterProof(r, token, key, c)
        PROVE  TypeOK'
    <3>1. [step |-> "register", token |-> token, key |-> key, challenge |-> c] \in RequestState
      BY PresentedAreTokens DEF RequestState, Registering
    <3>2. request' \in [Request -> RequestState]
      BY <2>7, <3>1, ProceedTyped DEF RegisterProof, TypeOK
    <3>3. challenge' \in [Challenge -> ChallengeRow \union {Absent}]
      BY <2>7, PopChallengeTyped DEF RegisterProof, Poppable
    <3>4. redeemed' \in [Challenge -> Nat]
      BY <2>7, CountTyped DEF RegisterProof, TypeOK
    <3> QED BY <2>7, <3>2, <3>3, <3>4 DEF RegisterProof, TypeOK
  <2>8. ASSUME NEW r \in Request, UpdateAuthenticationWithDbscPublicKey(r)
        PROVE  TypeOK'
    <3> DEFINE token == request[r].token
    <3>1. request[r] \in Registering
      BY <2>8, RequestFields DEF UpdateAuthenticationWithDbscPublicKey
    <3>2. token \in Token /\ token.auth \in Auth /\ request[r].key \in Key
      BY <3>1 DEF Registering, Token
    <3>3. [token |-> token, expiresAt |-> token.expiresAt] \in Cookie
      BY <3>2 DEF Token, Cookie
    <3>4. ASSUME Stored(token.auth)
          PROVE  [authentication[token.auth] EXCEPT !.key = request[r].key] \in AuthenticationRow
      BY <3>2, <3>4, ReadIsSnapshot DEF Stored, AuthenticationRow
    <3>5. request' \in [Request -> RequestState]
      BY <2>8, AnswerTyped DEF UpdateAuthenticationWithDbscPublicKey
    <3>6. authentication' \in [Auth -> AuthenticationRow \union {Absent}]
      BY <2>8, <3>2, <3>4 DEF UpdateAuthenticationWithDbscPublicKey, TypeOK
    <3>7. cookies' \in SUBSET Cookie
      BY <2>8, <3>3 DEF UpdateAuthenticationWithDbscPublicKey, TypeOK
    <3> QED BY <2>8, <3>5, <3>6, <3>7 DEF UpdateAuthenticationWithDbscPublicKey, TypeOK
  <2>9. ASSUME NEW a \in Auth, NEW c \in Challenge, DemandProof(a, c)
        PROVE  TypeOK'
    BY <2>9, InsertChallengeTyped DEF DemandProof, TypeOK
  <2>10. ASSUME NEW r \in Request, NEW a \in Auth, NEW key \in Key, NEW c \in Challenge,
                DbscRefreshRead(r, a, key, c)
         PROVE  TypeOK'
    <3>1. SelectRefreshAuthentication(a) \in Snapshot
      BY <2>10, ReadIsSnapshot DEF DbscRefreshRead, Stored
    <3>2. [step |-> "prove", auth |-> a, row |-> SelectRefreshAuthentication(a),
           key |-> key, challenge |-> c] \in RequestState
      BY <3>1 DEF RequestState, Proving
    <3>3. request' \in [Request -> RequestState]
      BY <2>10, <3>2, ProceedTyped DEF DbscRefreshRead
    <3> QED BY <2>10, <3>3 DEF DbscRefreshRead, tables, TypeOK
  <2>11. ASSUME NEW r \in Request, ProcessProof(r)
         PROVE  TypeOK'
    <3> DEFINE a == request[r].auth
               c == request[r].challenge
    <3>1. request[r] \in Proving
      BY <2>11, RequestFields DEF ProcessProof
    <3>2. a \in Auth /\ c \in Challenge /\ request[r].row \in Snapshot
      BY <3>1 DEF Proving
    <3>3. /\ [step |-> "mint", auth |-> a, row |-> request[r].row, challenge |-> c] \in RequestState
          /\ [step |-> "rechallenge", auth |-> a] \in RequestState
      BY <3>2 DEF RequestState, Minting, Rechallenging
    <3>4. request' \in [Request -> RequestState]
      BY <2>11, <3>3, ProceedTyped, AnswerTyped DEF ProcessProof
    <3>5. challenge' \in [Challenge -> ChallengeRow \union {Absent}]
      BY <2>11, <3>2, PopChallengeTyped DEF ProcessProof, Poppable, TypeOK
    <3>6. redeemed' \in [Challenge -> Nat]
      BY <2>11, <3>2, CountTyped DEF ProcessProof, TypeOK
    <3> QED BY <2>11, <3>4, <3>5, <3>6 DEF ProcessProof, TypeOK
  <2>12. ASSUME NEW r \in Request, NEW c \in Challenge, Rechallenge(r, c)
         PROVE  TypeOK'
    <3>1. request[r].auth \in Auth
      BY <2>12, RequestFields DEF Rechallenge, Rechallenging
    <3>2. challenge' \in [Challenge -> ChallengeRow \union {Absent}]
      BY <2>12, <3>1, InsertChallengeTyped DEF Rechallenge
    <3>3. request' \in [Request -> RequestState]
      BY <2>12, AnswerTyped DEF Rechallenge
    <3> QED BY <2>12, <3>2, <3>3 DEF Rechallenge, TypeOK
  <2>13. ASSUME NEW r \in Request, MintSession(r)
         PROVE  TypeOK'
    <3> DEFINE a == request[r].auth
               row == request[r].row
    <3>1. request[r] \in Minting
      BY <2>13, RequestFields DEF MintSession
    <3>2. a \in Auth /\ row \in Snapshot
      BY <3>1 DEF Minting
    <3>3. MintedCookie(a, row) \in Cookie
      <4>1. NewToken(a, row.account, row.holder, Dbsc, SessionDuration, row.expiresAt) \in Token
        BY <3>2, NewTokenIsToken DEF Snapshot, Method
      <4> QED BY <4>1 DEF MintedCookie, Cookie, Token
    <3>4. [step |-> "seed", auth |-> a, row |-> row, cookie |-> MintedCookie(a, row)]
            \in RequestState
      BY <3>2, <3>3 DEF RequestState, Seeding
    <3>5. request' \in [Request -> RequestState]
      BY <2>13, <3>4, ProceedTyped, AnswerTyped DEF MintSession
    <3> QED BY <2>13, <3>5 DEF MintSession, tables, TypeOK
  <2>14. ASSUME NEW r \in Request, NEW c \in Challenge, AnswerProof(r, c)
         PROVE  TypeOK'
    <3>1. request[r].auth \in Auth /\ request[r].cookie \in Cookie
      BY <2>14, RequestFields DEF AnswerProof, Seeding
    <3>2. challenge' \in [Challenge -> ChallengeRow \union {Absent}]
      BY <2>14, <3>1, InsertChallengeTyped DEF AnswerProof, TypeOK
    <3>3. request' \in [Request -> RequestState]
      BY <2>14, AnswerTyped DEF AnswerProof
    <3> QED BY <2>14, <3>1, <3>2, <3>3 DEF AnswerProof, TypeOK
  <2>15. ASSUME NEW r \in Request, Abort(r)
         PROVE  TypeOK'
    BY <2>15, AnswerTyped DEF Abort, tables, TypeOK
  <2>16. ASSUME NEW x \in Account, NEW row \in AccountRow, UpdateAccount(x, row)
         PROVE  TypeOK'
    BY <2>16 DEF UpdateAccount, TypeOK
  <2>17. ASSUME NEW x \in Account, DeleteAccount(x)
         PROVE  TypeOK'
    <3>1. authentication' \in [Auth -> AuthenticationRow \union {Absent}]
      <4>1. \A row \in AuthenticationRow : [row EXCEPT !.stored = FALSE] \in AuthenticationRow
        BY DEF AuthenticationRow
      <4> QED BY <2>17, <4>1 DEF DeleteAccount, TypeOK
    <3>2. challenge' \in [Challenge -> ChallengeRow \union {Absent}]
      <4>1. \A row \in ChallengeRow : [row EXCEPT !.stored = FALSE] \in ChallengeRow
        BY DEF ChallengeRow
      <4> QED BY <2>17, <4>1 DEF DeleteAccount, TypeOK
    <3>3. removed' \in SUBSET Account
      BY <2>17 DEF DeleteAccount, TypeOK
    <3> QED BY <2>17, <3>1, <3>2, <3>3 DEF DeleteAccount, TypeOK
  <2>18. ASSUME Tick
         PROVE  TypeOK'
    BY <2>18 DEF Tick, tables, TypeOK
  <2>19. ASSUME UNCHANGED vars
         PROVE  TypeOK'
    BY <2>19 DEF vars, TypeOK
  <2> QED BY <2>1, <2>2, <2>3, <2>4, <2>5, <2>6, <2>7, <2>8, <2>9, <2>10, <2>11,
             <2>12, <2>13, <2>14, <2>15, <2>16, <2>17, <2>18, <2>19 DEF Next
<1> QED BY <1>1, <1>2, PTL DEF Spec

-----------------------------------------------------------------------------
(* What a handler read agrees with the tables for as long as it holds it:   *)
(* the owner, the creation and the expiry of an authentication never        *)
(* change.  This is the invariant the theorems below rest on.               *)

Agrees(a, x, limit) ==
  /\ authentication[a] # Absent
  /\ authentication[a].account = x
  /\ authentication[a].expiresAt = limit

Sound(state) ==
  /\ state.step = "insert challenge" => Agrees(state.auth, state.account, state.expiresAt)
  /\ state.step = "renew" =>
       /\ state.token \in Presented
       /\ Agrees(state.token.auth, state.row.account, state.row.expiresAt)
  /\ state.step = "register" => state.token \in Presented
  /\ state.step \in {"prove", "mint"} => Agrees(state.auth, state.row.account, state.row.expiresAt)
  /\ state.step = "seed" =>
       /\ Within(state.cookie)
       /\ state.cookie.token.auth = state.auth
       /\ ~state.row.ended

CreatedInThePast ==
  \A a \in Auth : authentication[a] # Absent => authentication[a].createdAt <= now

Accord ==
  /\ CreatedInThePast
  /\ TokensWithinAuthentication
  /\ \A r \in Request : Sound(request[r])

\* No step removes an authentication for good, or changes whose it is and how
\* long it lasts; no step takes a cookie back, or sets the clock back.
LEMMA RowsKept ==
  ASSUME TypeOK, [Next]_vars
  PROVE  /\ \A a \in Auth : authentication[a] # Absent =>
              /\ authentication'[a] # Absent
              /\ authentication'[a].account = authentication[a].account
              /\ authentication'[a].createdAt = authentication[a].createdAt
              /\ authentication'[a].expiresAt = authentication[a].expiresAt
         /\ cookies \subseteq cookies'
         /\ now <= now' /\ now' \in Nat
<1> DEFINE Same(a) == /\ authentication'[a] # Absent
                      /\ authentication'[a].account = authentication[a].account
                      /\ authentication'[a].createdAt = authentication[a].createdAt
                      /\ authentication'[a].expiresAt = authentication[a].expiresAt
<1>1. ASSUME NEW r \in Request, NEW b \in Auth, InsertAuthentication(r, b)
      PROVE  \A a \in Auth : authentication[a] # Absent => Same(a)
  BY <1>1 DEF InsertAuthentication, TypeOK
<1>2. ASSUME NEW a \in Auth, authentication[a] # Absent,
             \/ authentication'[a] = authentication[a]
             \/ authentication'[a] = [authentication[a] EXCEPT !.ended = TRUE]
             \/ authentication'[a] = [authentication[a] EXCEPT !.stored = FALSE]
             \/ \E key \in Key : authentication'[a] = [authentication[a] EXCEPT !.key = key]
      PROVE  Same(a)
  <2>1. authentication[a] \in AuthenticationRow
    BY <1>2, ReadIsSnapshot
  <2>2. authentication'[a] \in AuthenticationRow
    BY <1>2, <2>1 DEF AuthenticationRow
  <2> QED BY <1>2, <2>1, <2>2, AbsentAssumption DEF AuthenticationRow
<1>3. ASSUME NEW token \in Authorized, EndSession(token)
      PROVE  \A a \in Auth : authentication[a] # Absent => Same(a)
  BY <1>2, <1>3 DEF EndSession, TypeOK
<1>4. ASSUME NEW r \in Request, UpdateAuthenticationWithDbscPublicKey(r)
      PROVE  \A a \in Auth : authentication[a] # Absent => Same(a)
  <2>1. request[r].key \in Key
    BY <1>4, RequestFields DEF UpdateAuthenticationWithDbscPublicKey, Registering
  <2>2. \A a \in Auth : \/ authentication'[a] = authentication[a]
                       \/ \E key \in Key :
                            authentication'[a] = [authentication[a] EXCEPT !.key = key]
    BY <1>4, <2>1 DEF UpdateAuthenticationWithDbscPublicKey, TypeOK
  <2> QED BY <1>2, <2>2
<1>5. ASSUME NEW x \in Account, DeleteAccount(x)
      PROVE  \A a \in Auth : authentication[a] # Absent => Same(a)
  BY <1>2, <1>5 DEF DeleteAccount
<1>6. authentication' = authentication => \A a \in Auth : authentication[a] # Absent => Same(a)
  OBVIOUS
<1>7. cookies \subseteq cookies'
  BY DEF Next, vars, tables, SelectEmailAddressAccount, InsertAuthentication, AnswerSignIn,
         RefreshEndpointRead, NavigationRefreshRead, RefreshSession, EndSession, RegisterProof,
         UpdateAuthenticationWithDbscPublicKey, DemandProof, DbscRefreshRead, ProcessProof,
         Rechallenge, MintSession, AnswerProof, UpdateAccount, DeleteAccount, Abort, Tick
<1>8. now <= now' /\ now' \in Nat
  <2>1. now \in Nat
    BY DEF TypeOK
  <2>2. now' = now \/ now' = now + 1
    BY DEF Next, vars, tables, SelectEmailAddressAccount, InsertAuthentication, AnswerSignIn,
           RefreshEndpointRead, NavigationRefreshRead, RefreshSession, EndSession, RegisterProof,
           UpdateAuthenticationWithDbscPublicKey, DemandProof, DbscRefreshRead, ProcessProof,
           Rechallenge, MintSession, AnswerProof, UpdateAccount, DeleteAccount, Abort, Tick
  <2> QED BY <2>1, <2>2
<1>9. \A a \in Auth : authentication[a] # Absent => Same(a)
  BY <1>1, <1>3, <1>4, <1>5, <1>6
     DEF Next, vars, tables, SelectEmailAddressAccount, AnswerSignIn, RefreshEndpointRead,
         NavigationRefreshRead, RefreshSession, RegisterProof, DemandProof, DbscRefreshRead,
         ProcessProof, Rechallenge, MintSession, AnswerProof, Abort, UpdateAccount, Tick
<1> QED BY <1>7, <1>8, <1>9

\* So a cookie that lives within its authentication goes on doing so, and what
\* a handler holds stays sound while others take steps.
LEMMA WithinKept ==
  ASSUME TypeOK, [Next]_vars, NEW cookie \in Cookie, Within(cookie)
  PROVE  Within(cookie)'
BY RowsKept DEF Within, Cookie, Token

LEMMA SoundKept ==
  ASSUME TypeOK, [Next]_vars, NEW state \in RequestState, Sound(state)
  PROVE  Sound(state)'
<1>1. Presented \subseteq Presented'
  BY RowsKept DEF Presented
<1>2. ASSUME NEW a \in Auth, NEW x, NEW limit, Agrees(a, x, limit)
      PROVE  Agrees(a, x, limit)'
  BY <1>2, RowsKept DEF Agrees
<1>3. CASE state.step = "insert challenge"
  <2>1. state \in Created
    BY <1>3, StateFields
  <2>2. Agrees(state.auth, state.account, state.expiresAt)'
    BY <1>2, <1>3, <2>1 DEF Sound, Created
  <2> QED BY <1>3, <2>2 DEF Sound
<1>4. CASE state.step = "renew"
  <2>1. state \in Renewing
    BY <1>4, StateFields
  <2>2. state.token.auth \in Auth
    BY <2>1 DEF Renewing, Token
  <2>3. Agrees(state.token.auth, state.row.account, state.row.expiresAt)'
    BY <1>2, <1>4, <2>2 DEF Sound
  <2> QED BY <1>1, <1>4, <2>3 DEF Sound
<1>5. CASE state.step = "register"
  BY <1>1, <1>5 DEF Sound
<1>6. CASE state.step \in {"prove", "mint"}
  <2>1. state.auth \in Auth
    BY <1>6, StateFields DEF Proving, Minting
  <2>2. Agrees(state.auth, state.row.account, state.row.expiresAt)'
    BY <1>2, <1>6, <2>1 DEF Sound
  <2> QED BY <1>6, <2>2 DEF Sound
<1>7. CASE state.step = "seed"
  <2>1. state \in Seeding
    BY <1>7, StateFields
  <2>2. Within(state.cookie)'
    BY <1>7, <2>1, WithinKept DEF Sound, Seeding
  <2> QED BY <1>7, <2>2 DEF Sound
<1> QED BY <1>3, <1>4, <1>5, <1>6, <1>7 DEF Sound

\* Reading an authentication gives a row that agrees with it.
LEMMA ReadAgrees ==
  ASSUME NEW a \in Auth, authentication[a] # Absent
  PROVE  LET row == SelectRefreshAuthentication(a) IN Agrees(a, row.account, row.expiresAt)
BY DEF SelectRefreshAuthentication, Agrees

\* A token issued now by an authentication that was read lives within it.
LEMMA IssuedWithin ==
  ASSUME TypeOK, CreatedInThePast, NEW a \in Auth, NEW x \in Account,
         NEW limit \in Nat, Agrees(a, x, limit), NEW cookie \in Cookie,
         cookie.token.auth = a, cookie.token.account = x, cookie.token.notBefore = now,
         cookie.token.expiresAt <= limit, cookie.expiresAt <= limit
  PROVE  Within(cookie)
BY DEF Agrees, Within, CreatedInThePast

\* A handler that moves to a sound state leaves every handler sound.
LEMMA ProceedSound ==
  ASSUME TypeOK, [Next]_vars, \A q \in Request : Sound(request[q]),
         NEW r \in Request, NEW state, Sound(state)', Proceed(r, state)
  PROVE  (\A q \in Request : Sound(request[q]))'
<1> SUFFICES ASSUME NEW q \in Request PROVE Sound(request[q])'
  OBVIOUS
<1>1. CASE q = r
  BY <1>1 DEF Proceed, TypeOK, Sound, Agrees, Within
<1>2. CASE q # r
  <2>1. request'[q] = request[q] /\ request[q] \in RequestState
    BY <1>2 DEF Proceed, TypeOK
  <2>2. Sound(request[q])
    OBVIOUS
  <2> DEFINE state0 == request[q]
  <2> QED BY <2>1, <2>2, SoundKept
<1> QED BY <1>1, <1>2

\* An authentication that was not there is created now.
LEMMA CreatedStaysInThePast ==
  ASSUME TypeOK, [Next]_vars, CreatedInThePast
  PROVE  CreatedInThePast'
<1> DEFINE New(a) == authentication[a] # Absent \/ authentication'[a].createdAt = now
<1> SUFFICES ASSUME NEW a \in Auth, authentication'[a] # Absent
             PROVE  authentication'[a].createdAt <= now'
  BY DEF CreatedInThePast
<1>1. ASSUME NEW r \in Request, NEW b \in Auth, InsertAuthentication(r, b)
      PROVE  New(a)
  <2>1. CASE authentication' = authentication
    BY <2>1
  <2>2. CASE authentication' # authentication
    <3>1. \E row : row.createdAt = now /\ authentication' = [authentication EXCEPT ![b] = row]
      <4> DEFINE row == [account |-> request[r].account, createdAt |-> now,
                         expiresAt |-> now + AuthenticationDuration,
                         idToken |-> request[r].idToken, ended |-> FALSE,
                         key |-> NoKey, stored |-> TRUE]
      <4>1. authentication' = [authentication EXCEPT ![b] = row]
        BY <1>1, <2>2 DEF InsertAuthentication
      <4>2. row.createdAt = now
        OBVIOUS
      <4> HIDE DEF row
      <4> QED BY <4>1, <4>2
    <3> QED BY <3>1 DEF TypeOK
  <2> QED BY <2>1, <2>2
<1>2. ASSUME NEW token \in Authorized, EndSession(token)
      PROVE  New(a)
  BY <1>2 DEF EndSession, Stored, TypeOK
<1>3. ASSUME NEW r \in Request, UpdateAuthenticationWithDbscPublicKey(r)
      PROVE  New(a)
  BY <1>3 DEF UpdateAuthenticationWithDbscPublicKey, Stored, TypeOK
<1>4. ASSUME NEW x \in Account, DeleteAccount(x)
      PROVE  New(a)
  BY <1>4 DEF DeleteAccount
<1>5. New(a)
  BY <1>1, <1>2, <1>3, <1>4
     DEF Next, vars, tables, SelectEmailAddressAccount, AnswerSignIn, RefreshEndpointRead,
         NavigationRefreshRead, RefreshSession, RegisterProof, DemandProof, DbscRefreshRead,
         ProcessProof, Rechallenge, MintSession, AnswerProof, Abort, UpdateAccount, Tick
<1>6. now <= now' /\ now \in Nat /\ now' \in Nat
  BY RowsKept DEF TypeOK
<1>7. CASE authentication[a] # Absent
  <2>1. authentication[a] \in AuthenticationRow
    BY <1>7, ReadIsSnapshot
  <2>2. authentication[a].createdAt <= now /\ authentication[a].createdAt \in Nat
    BY <1>7, <2>1 DEF CreatedInThePast, AuthenticationRow
  <2>3. authentication'[a].createdAt = authentication[a].createdAt
    BY <1>7, RowsKept
  <2> QED BY <1>6, <2>2, <2>3
<1> QED BY <1>5, <1>6, <1>7

\* Adding a cookie that lives within its authentication keeps all of them so.
LEMMA CookieAdded ==
  ASSUME TypeOK, [Next]_vars, TokensWithinAuthentication,
         NEW cookie \in Cookie, Within(cookie), cookies' = cookies \union {cookie}
  PROVE  TokensWithinAuthentication'
<1>1. cookies \subseteq Cookie
  BY DEF TypeOK
<1>2. \A k \in cookies : Within(k)
  BY DEF TokensWithinAuthentication
<1>3. \A k \in cookies' : Within(k)'
  BY <1>1, <1>2, WithinKept
<1> QED BY <1>3 DEF TokensWithinAuthentication

LEMMA CookiesUnchanged ==
  ASSUME TypeOK, [Next]_vars, TokensWithinAuthentication, cookies' = cookies
  PROVE  TokensWithinAuthentication'
<1>1. cookies \subseteq Cookie
  BY DEF TypeOK
<1>2. \A k \in cookies : Within(k)
  BY DEF TokensWithinAuthentication
<1>3. \A k \in cookies' : Within(k)'
  BY <1>1, <1>2, WithinKept
<1> QED BY <1>3 DEF TokensWithinAuthentication

LEMMA AnswerSound ==
  ASSUME TypeOK, [Next]_vars, \A q \in Request : Sound(request[q]), NEW r \in Request, Answer(r)
  PROVE  (\A q \in Request : Sound(request[q]))'
<1>1. Sound(Idle)'
  BY DEF Sound, Idle
<1> QED BY <1>1, ProceedSound DEF Answer

LEMMA RequestsUnchanged ==
  ASSUME TypeOK, [Next]_vars, \A q \in Request : Sound(request[q]), request' = request
  PROVE  (\A q \in Request : Sound(request[q]))'
<1> SUFFICES ASSUME NEW q \in Request PROVE Sound(request[q])'
  OBVIOUS
<1>1. request[q] \in RequestState
  BY DEF TypeOK
<1> QED BY <1>1, SoundKept

\* The tokens the rows, the handlers in flight and the cookies speak of agree.
THEOREM InAccord == Spec => []Accord
<1>1. Init => Accord
  <2> SUFFICES ASSUME Init PROVE Accord
    OBVIOUS
  <2>1. \A r \in Request : Sound(request[r])
    BY DEF Init, Sound, Idle
  <2> QED BY <2>1 DEF Init, Accord, CreatedInThePast, TokensWithinAuthentication
<1>2. TypeOK /\ Accord /\ [Next]_vars => Accord'
  <2> SUFFICES ASSUME TypeOK, Accord, [Next]_vars PROVE Accord'
    OBVIOUS
  <2> USE DurationAssumption
  <2>a. /\ CreatedInThePast /\ TokensWithinAuthentication
        /\ \A q \in Request : Sound(request[q])
    BY DEF Accord
  <2>b. CreatedInThePast'
    BY <2>a, CreatedStaysInThePast
  <2> DEFINE Handlers == (\A q \in Request : Sound(request[q]))'
  <2>1. ASSUME NEW r \in Request, NEW x \in Account, NEW method \in SignInMethod,
               NEW t \in IdToken, SelectEmailAddressAccount(r, x, method, t)
        PROVE  Accord'
    <3> DEFINE state == [step |-> "insert authentication", account |-> x,
                         holder |-> account[x], method |-> method, idToken |-> t]
    <3>1. state.step = "insert authentication"
      OBVIOUS
    <3>2. Proceed(r, state) /\ cookies' = cookies
      BY <2>1 DEF SelectEmailAddressAccount
    <3>3. \A s : s.step = "insert authentication" => Sound(s)'
      BY DEF Sound
    <3> HIDE DEF state
    <3>4. Handlers
      BY <2>a, <3>1, <3>2, <3>3, ProceedSound
    <3> QED BY <2>a, <2>b, <3>2, <3>4, CookiesUnchanged DEF Accord
  <2>2. ASSUME NEW r \in Request, NEW a \in Auth, InsertAuthentication(r, a)
        PROVE  Accord'
    <3> DEFINE state == [step |-> "insert challenge", auth |-> a,
                         account |-> request[r].account, holder |-> request[r].holder,
                         method |-> request[r].method,
                         expiresAt |-> now + AuthenticationDuration]
    <3>1. cookies' = cookies
      BY <2>2 DEF InsertAuthentication
    <3>2. CASE Answer(r)
      BY <2>a, <2>b, <3>1, <3>2, AnswerSound, CookiesUnchanged DEF Accord
    <3>3. CASE ~Answer(r)
      <4> DEFINE row == [account |-> request[r].account, createdAt |-> now,
                         expiresAt |-> now + AuthenticationDuration,
                         idToken |-> request[r].idToken, ended |-> FALSE,
                         key |-> NoKey, stored |-> TRUE]
      <4>1. authentication' = [authentication EXCEPT ![a] = row] /\ Proceed(r, state)
        BY <2>2, <3>3 DEF InsertAuthentication
      <4>2. request[r] \in Creating
        BY <2>2, RequestFields DEF InsertAuthentication
      <4>3. row \in AuthenticationRow
        <5>1. now + AuthenticationDuration \in Nat
          BY DEF TypeOK
        <5> QED BY <4>2, <5>1 DEF Creating, AuthenticationRow, TypeOK
      <4>4. row # Absent
        BY <4>3, AbsentAssumption DEF AuthenticationRow
      <4>5. authentication'[a] = row
        BY <4>1 DEF TypeOK
      <4>6. state.step = "insert challenge" /\ state.auth = a
            /\ state.account = row.account /\ state.expiresAt = row.expiresAt
        OBVIOUS
      <4>7. \A s : /\ s.step = "insert challenge" /\ s.auth = a
                   /\ authentication'[a] # Absent
                   /\ authentication'[a].account = s.account
                   /\ authentication'[a].expiresAt = s.expiresAt
                   => Sound(s)'
        BY DEF Sound, Agrees
      <4> HIDE DEF state, row
      <4>8. Handlers
        BY <2>a, <4>1, <4>4, <4>5, <4>6, <4>7, ProceedSound
      <4> QED BY <2>a, <2>b, <3>1, <4>8, CookiesUnchanged DEF Accord
    <3> QED BY <3>2, <3>3
  <2>3. ASSUME NEW r \in Request, NEW c \in Challenge, AnswerSignIn(r, c)
        PROVE  Accord'
    <3> DEFINE cookie == CreatedCookie(request[r])
               req == request[r]
    <3>1. request[r] \in Created
      BY <2>3, RequestFields DEF AnswerSignIn
    <3>2. /\ req.auth \in Auth /\ req.account \in Account
          /\ req.holder \in AccountRow /\ req.method \in Method
          /\ req.expiresAt \in Nat /\ req.step = "insert challenge"
      BY <3>1 DEF Created, Method
    <3>3. Agrees(req.auth, req.account, req.expiresAt)
      BY <2>a, <3>2 DEF Sound
    <3>4. cookie \in Cookie
      BY <3>2, NewTokenIsToken DEF CreatedCookie, Cookie
    <3>5. now + InitialSessionDuration \in Nat
      BY DEF TypeOK
    <3>6. /\ cookie.token.auth = req.auth /\ cookie.token.account = req.account
          /\ cookie.token.notBefore = now
          /\ cookie.token.expiresAt <= req.expiresAt /\ cookie.expiresAt <= req.expiresAt
      <4>1. /\ cookie.token.auth = req.auth /\ cookie.token.account = req.account
            /\ cookie.token.notBefore = now /\ cookie.expiresAt = req.expiresAt
            /\ cookie.token.expiresAt = Earlier(now + InitialSessionDuration, req.expiresAt)
        BY DEF CreatedCookie, NewToken
      <4>2. req.expiresAt \in Nat
        BY <3>2
      <4>3. req.expiresAt <= req.expiresAt
        BY <4>2
      <4>4. Earlier(now + InitialSessionDuration, req.expiresAt) <= req.expiresAt
        BY <3>5, <4>2, EarlierIsMin
      <4> HIDE DEF cookie, req
      <4> QED BY <4>1, <4>3, <4>4
    <3>7. Within(cookie)
      <4> HIDE DEF cookie, req
      <4> QED BY <2>a, <3>2, <3>3, <3>4, <3>6, IssuedWithin
    <3>8. cookies' = cookies \union {cookie} /\ Answer(r)
      BY <2>3 DEF AnswerSignIn
    <3> HIDE DEF cookie
    <3> QED BY <2>a, <2>b, <3>4, <3>7, <3>8, CookieAdded, AnswerSound DEF Accord
  <2>4. ASSUME NEW r \in Request, NEW token \in AuthorizedSkippingExp,
               RefreshEndpointRead(r, token) \/ NavigationRefreshRead(r, token)
        PROVE  Accord'
    <3> DEFINE read == SelectRefreshAuthentication(token.auth)
               state == [step |-> "renew", token |-> token, row |-> read]
    <3>1. token \in Presented /\ token.auth \in Auth /\ authentication[token.auth] # Absent
      BY <2>4, PresentedAreTokens
         DEF AuthorizedSkippingExp, RefreshEndpointRead, NavigationRefreshRead, Stored, Token
    <3>2. Proceed(r, state) /\ cookies' = cookies
      BY <2>4 DEF RefreshEndpointRead, NavigationRefreshRead
    <3>3. state \in RequestState
      BY <3>1, PresentedAreTokens, ReadIsSnapshot DEF Renewing, RequestState
    <3>4. state.step = "renew" /\ state.token = token /\ state.row = read
      OBVIOUS
    <3>5. Agrees(token.auth, read.account, read.expiresAt)
      BY <3>1, ReadAgrees
    <3>6. Sound(state)
      <4> HIDE DEF state, read
      <4> QED BY <3>1, <3>4, <3>5 DEF Sound
    <3> HIDE DEF state
    <3>7. Handlers
      BY <2>a, <3>2, <3>3, <3>6, SoundKept, ProceedSound
    <3> QED BY <2>a, <2>b, <3>2, <3>7, CookiesUnchanged DEF Accord
  <2>5. ASSUME NEW r \in Request, RefreshSession(r)
        PROVE  Accord'
    <3> DEFINE row == request[r].row
               old == request[r].token
               token == RefreshedToken(old, row)
               cookie == [token |-> token, expiresAt |-> row.expiresAt]
    <3>1. request[r] \in Renewing /\ request[r].step = "renew"
      BY <2>5, RequestFields DEF RefreshSession
    <3>2. old \in Token /\ old.auth \in Auth /\ row \in Snapshot
          /\ row.account \in Account /\ row.expiresAt \in Nat
      BY <3>1 DEF Renewing, Token, Snapshot
    <3>3. old \in Presented /\ Agrees(old.auth, row.account, row.expiresAt)
      BY <2>a, <3>1 DEF Sound
    <3>4. PICK k \in cookies : k.token = old
      BY <3>3 DEF Presented
    <3>5. old.account = row.account
      BY <2>a, <3>3, <3>4 DEF TokensWithinAuthentication, Within, Agrees
    <3>6. token \in Token
      BY <3>2, RefreshedTokenIsToken
    <3>7. cookie \in Cookie
      BY <3>2, <3>6 DEF Cookie
    <3>8. token.auth = old.auth /\ token.account = old.account /\ token.notBefore = now
          /\ token.expiresAt = Earlier(row.expiresAt, now + SessionDuration)
      BY <3>2 DEF RefreshedToken, Token
    <3>9. now + SessionDuration \in Nat
      BY DEF TypeOK
    <3>10. token.expiresAt <= row.expiresAt
      BY <3>2, <3>8, <3>9, EarlierIsMin
    <3>11. cookie.token = token /\ cookie.expiresAt <= row.expiresAt
      BY <3>2
    <3>12. Within(cookie)
      <4> HIDE DEF cookie, token, old, row
      <4> QED BY <2>a, <3>2, <3>3, <3>5, <3>7, <3>8, <3>10, <3>11, IssuedWithin
    <3>13. Answer(r) /\ (cookies' = cookies \/ cookies' = cookies \union {cookie})
      BY <2>5 DEF RefreshSession
    <3> HIDE DEF cookie
    <3> QED BY <2>a, <2>b, <3>7, <3>12, <3>13, CookieAdded, CookiesUnchanged, AnswerSound
            DEF Accord
  <2>6. ASSUME NEW token \in Authorized, EndSession(token)
        PROVE  Accord'
    BY <2>a, <2>b, <2>6, CookiesUnchanged, RequestsUnchanged DEF Accord, EndSession
  <2>7. ASSUME NEW r \in Request, NEW token \in Authorized, NEW key \in Key,
               NEW c \in Challenge, RegisterProof(r, token, key, c)
        PROVE  Accord'
    <3> DEFINE state == [step |-> "register", token |-> token, key |-> key, challenge |-> c]
    <3>1. cookies' = cookies /\ (Proceed(r, state) \/ request' = request)
      BY <2>7 DEF RegisterProof
    <3>2. state.step = "register" /\ state.token \in Presented
      BY DEF Authorized
    <3>3. state \in RequestState
      BY PresentedAreTokens DEF RequestState, Registering
    <3> HIDE DEF state
    <3>4. Sound(state)
      BY <3>2 DEF Sound
    <3>5. Handlers
      BY <2>a, <3>1, <3>3, <3>4, SoundKept, ProceedSound, RequestsUnchanged
    <3> QED BY <2>a, <2>b, <3>1, <3>5, CookiesUnchanged DEF Accord
  <2>8. ASSUME NEW r \in Request, UpdateAuthenticationWithDbscPublicKey(r)
        PROVE  Accord'
    <3> DEFINE token == request[r].token
               cookie == [token |-> token, expiresAt |-> token.expiresAt]
    <3>1. request[r] \in Registering /\ request[r].step = "register"
      BY <2>8, RequestFields DEF UpdateAuthenticationWithDbscPublicKey
    <3>2. token \in Presented /\ token \in Token
      BY <2>a, <3>1 DEF Sound, Registering
    <3>3. PICK k \in cookies : k.token = token
      BY <3>2 DEF Presented
    <3>4. Within(k)
      BY <2>a DEF TokensWithinAuthentication
    <3>5. cookie \in Cookie
      BY <3>2 DEF Cookie, Token
    <3>6. cookie.token = token /\ cookie.expiresAt = token.expiresAt
      OBVIOUS
    <3>7. Within(cookie)
      <4> HIDE DEF cookie, token
      <4> QED BY <3>3, <3>4, <3>6 DEF Within
    <3>8. Answer(r) /\ (cookies' = cookies \/ cookies' = cookies \union {cookie})
      BY <2>8 DEF UpdateAuthenticationWithDbscPublicKey
    <3> HIDE DEF cookie
    <3> QED BY <2>a, <2>b, <3>5, <3>7, <3>8, CookieAdded, CookiesUnchanged, AnswerSound
            DEF Accord
  <2>9. ASSUME NEW a \in Auth, NEW c \in Challenge, DemandProof(a, c)
        PROVE  Accord'
    BY <2>a, <2>b, <2>9, CookiesUnchanged, RequestsUnchanged DEF Accord, DemandProof
  <2>10. ASSUME NEW r \in Request, NEW a \in Auth, NEW key \in Key, NEW c \in Challenge,
                DbscRefreshRead(r, a, key, c)
         PROVE  Accord'
    <3> DEFINE read == SelectRefreshAuthentication(a)
               state == [step |-> "prove", auth |-> a, row |-> read, key |-> key, challenge |-> c]
    <3>1. Proceed(r, state) /\ cookies' = cookies /\ authentication[a] # Absent
      BY <2>10 DEF DbscRefreshRead, Stored
    <3>2. state \in RequestState
      BY <3>1, ReadIsSnapshot DEF RequestState, Proving
    <3>3. state.step = "prove" /\ state.auth = a /\ state.row = read
      OBVIOUS
    <3>4. Agrees(a, read.account, read.expiresAt)
      BY <3>1, ReadAgrees
    <3> HIDE DEF state, read
    <3>5. Sound(state)
      BY <3>3, <3>4 DEF Sound
    <3>6. Handlers
      BY <2>a, <3>1, <3>2, <3>5, SoundKept, ProceedSound
    <3> QED BY <2>a, <2>b, <3>1, <3>6, CookiesUnchanged DEF Accord
  <2>11. ASSUME NEW r \in Request, ProcessProof(r)
         PROVE  Accord'
    <3> DEFINE a == request[r].auth
               row == request[r].row
               minting == [step |-> "mint", auth |-> a, row |-> row,
                           challenge |-> request[r].challenge]
               again == [step |-> "rechallenge", auth |-> a]
    <3>1. request[r] \in Proving /\ request[r].step = "prove"
      BY <2>11, RequestFields DEF ProcessProof
    <3>2. Agrees(a, row.account, row.expiresAt)
      BY <2>a, <3>1 DEF Sound
    <3>3. /\ cookies' = cookies
          /\ Proceed(r, minting) \/ Proceed(r, again) \/ Answer(r)
      BY <2>11 DEF ProcessProof
    <3>4. minting \in RequestState /\ again \in RequestState
      BY <3>1 DEF RequestState, Proving, Minting, Rechallenging
    <3>5. /\ minting.step = "mint" /\ minting.auth = a /\ minting.row = row
          /\ again.step = "rechallenge"
      OBVIOUS
    <3> HIDE DEF minting, again, a, row
    <3>6. Sound(minting) /\ Sound(again)
      BY <3>2, <3>5 DEF Sound
    <3>7. Handlers
      BY <2>a, <3>3, <3>4, <3>6, SoundKept, ProceedSound, AnswerSound
    <3> QED BY <2>a, <2>b, <3>3, <3>7, CookiesUnchanged DEF Accord
  <2>12. ASSUME NEW r \in Request, NEW c \in Challenge, Rechallenge(r, c)
         PROVE  Accord'
    BY <2>a, <2>b, <2>12, CookiesUnchanged, AnswerSound DEF Accord, Rechallenge
  <2>13. ASSUME NEW r \in Request, MintSession(r)
         PROVE  Accord'
    <3> DEFINE a == request[r].auth
               row == request[r].row
               cookie == MintedCookie(a, row)
               state == [step |-> "seed", auth |-> a, row |-> row, cookie |-> cookie]
    <3>1. request[r] \in Minting /\ request[r].step = "mint"
      BY <2>13, RequestFields DEF MintSession
    <3>2. a \in Auth /\ row \in Snapshot
          /\ row.account \in Account /\ row.holder \in AccountRow /\ row.expiresAt \in Nat
      BY <3>1 DEF Minting, Snapshot
    <3>3. Agrees(a, row.account, row.expiresAt)
      BY <2>a, <3>1 DEF Sound
    <3>4. CASE Answer(r) /\ cookies' = cookies
      BY <2>a, <2>b, <3>4, CookiesUnchanged, AnswerSound DEF Accord
    <3>5. CASE VerifyAuthentication(row) /\ Proceed(r, state) /\ cookies' = cookies
      <4> DEFINE token == NewToken(a, row.account, row.holder, Dbsc, SessionDuration, row.expiresAt)
      <4>1. token \in Token
        BY <3>2, NewTokenIsToken DEF Method
      <4>2. cookie = [token |-> token, expiresAt |-> token.expiresAt]
        BY DEF MintedCookie
      <4>3. now + SessionDuration \in Nat
        BY DEF TypeOK
      <4>4. token.auth = a /\ token.account = row.account /\ token.notBefore = now
            /\ token.expiresAt = Earlier(now + SessionDuration, row.expiresAt)
        BY DEF NewToken
      <4>5. token.expiresAt <= row.expiresAt
        BY <3>2, <4>3, <4>4, EarlierIsMin
      <4>6. cookie \in Cookie
        BY <4>1, <4>2 DEF Cookie, Token
      <4>7. cookie.token = token /\ cookie.expiresAt = token.expiresAt
        BY <4>2
      <4>8. Within(cookie)
        <5> HIDE DEF cookie, token, a, row
        <5> QED BY <2>a, <3>2, <3>3, <4>4, <4>5, <4>6, <4>7, IssuedWithin
      <4>9. state \in RequestState
        BY <3>2, <4>6 DEF RequestState, Seeding
      <4>10. state.step = "seed" /\ state.auth = a /\ state.row = row /\ state.cookie = cookie
        OBVIOUS
      <4>11. ~row.ended /\ cookie.token.auth = a
        BY <3>5, <4>4, <4>7 DEF VerifyAuthentication
      <4> HIDE DEF state, cookie, a, row
      <4>12. Sound(state)
        BY <4>8, <4>10, <4>11 DEF Sound
      <4>13. Handlers
        BY <2>a, <3>5, <4>9, <4>12, SoundKept, ProceedSound
      <4> QED BY <2>a, <2>b, <3>5, <4>13, CookiesUnchanged DEF Accord
    <3> QED BY <2>13, <3>4, <3>5 DEF MintSession
  <2>14. ASSUME NEW r \in Request, NEW c \in Challenge, AnswerProof(r, c)
         PROVE  Accord'
    <3> DEFINE cookie == request[r].cookie
    <3>1. request[r] \in Seeding /\ request[r].step = "seed"
      BY <2>14, RequestFields DEF AnswerProof
    <3>2. cookie \in Cookie /\ Within(cookie)
      BY <2>a, <3>1 DEF Sound, Seeding
    <3>3. Answer(r) /\ cookies' = cookies \union {cookie}
      BY <2>14 DEF AnswerProof
    <3> HIDE DEF cookie
    <3> QED BY <2>a, <2>b, <3>2, <3>3, CookieAdded, AnswerSound DEF Accord
  <2>15. ASSUME NEW r \in Request, Abort(r)
         PROVE  Accord'
    BY <2>a, <2>b, <2>15, CookiesUnchanged, AnswerSound DEF Accord, Abort
  <2>16. ASSUME NEW x \in Account, NEW row \in AccountRow, UpdateAccount(x, row)
         PROVE  Accord'
    BY <2>a, <2>b, <2>16, CookiesUnchanged, RequestsUnchanged DEF Accord, UpdateAccount
  <2>17. ASSUME NEW x \in Account, DeleteAccount(x)
         PROVE  Accord'
    BY <2>a, <2>b, <2>17, CookiesUnchanged, RequestsUnchanged DEF Accord, DeleteAccount
  <2>18. ASSUME Tick \/ UNCHANGED vars
         PROVE  Accord'
    BY <2>a, <2>b, <2>18, CookiesUnchanged, RequestsUnchanged DEF Accord, Tick, vars
  <2> QED BY <2>1, <2>2, <2>3, <2>4, <2>5, <2>6, <2>7, <2>8, <2>9, <2>10, <2>11,
             <2>12, <2>13, <2>14, <2>15, <2>16, <2>17, <2>18 DEF Next
<1> QED BY <1>1, <1>2, TypeCorrect, PTL DEF Spec

\* However a session is renewed, its tokens and cookies live within its
\* authentication and name the account it belongs to.
THEOREM TokensWithin == Spec => []TokensWithinAuthentication
<1>1. Accord => TokensWithinAuthentication
  BY DEF Accord
<1> QED BY <1>1, InAccord, PTL

-----------------------------------------------------------------------------
(* Revocation: an argument about one step.  A sealed authentication is      *)
(* served only by handlers that read it ended; those issue nothing, and     *)
(* hand the row they read on from step to step.                             *)

\* A handler moving to a state that holds nothing live leaves nothing live.
LEMMA ProceedLeavesNothingLive ==
  ASSUME TypeOK, NEW a \in Auth, \A q \in Request : ~HoldsLive(request[q], a),
         NEW r \in Request, NEW state, ~HoldsLive(state, a), Proceed(r, state)
  PROVE  \A q \in Request : ~HoldsLive(request'[q], a)
BY DEF Proceed, TypeOK

LEMMA AnswerLeavesNothingLive ==
  ASSUME TypeOK, NEW a \in Auth, \A q \in Request : ~HoldsLive(request[q], a),
         NEW r \in Request, Answer(r)
  PROVE  \A q \in Request : ~HoldsLive(request'[q], a)
<1>1. ~HoldsLive(Idle, a)
  BY DEF HoldsLive, Serves, Idle
<1> QED BY <1>1, ProceedLeavesNothingLive DEF Answer

\* Adding a cookie of another authentication adds no token of this one.
LEMMA CookieOfAnother ==
  ASSUME NEW a, NEW cookie, cookie.token.auth # a, cookies' = cookies \union {cookie}
  PROVE  TokensOf(a)' \subseteq TokensOf(a)
BY DEF TokensOf, Presented

\* Sealed, taken apart.
LEMMA SealedParts ==
  ASSUME NEW a \in Auth, Revoked(a)', \A q \in Request : ~HoldsLive(request'[q], a)
  PROVE  Sealed(a)'
BY DEF Sealed

\* Ending or deleting an authentication cannot be undone.
LEMMA RevokedStays ==
  ASSUME TypeOK, [Next]_vars, NEW a \in Auth, Revoked(a)
  PROVE  Revoked(a)'
<1>1. authentication[a] \in AuthenticationRow
  BY ReadIsSnapshot DEF Revoked
<1>2. CASE authentication' = authentication
  BY <1>2 DEF Revoked
<1>3. ASSUME NEW r \in Request, NEW b \in Auth, InsertAuthentication(r, b)
      PROVE  Revoked(a)'
  BY <1>1, <1>3 DEF InsertAuthentication, Revoked, TypeOK
<1>4. ASSUME NEW token \in Authorized, EndSession(token)
      PROVE  Revoked(a)'
  <2>1. authentication'[a] = authentication[a] 
        \/ authentication'[a] = [authentication[a] EXCEPT !.ended = TRUE]
    BY <1>4 DEF EndSession, TypeOK
  <2>2. authentication'[a] \in AuthenticationRow
    BY <1>1, <2>1 DEF AuthenticationRow
  <2> QED BY <1>1, <2>1, <2>2, AbsentAssumption DEF Revoked, AuthenticationRow
<1>5. ASSUME NEW r \in Request, UpdateAuthenticationWithDbscPublicKey(r)
      PROVE  Revoked(a)'
  <2>1. request[r].key \in Key
    BY <1>5, RequestFields DEF UpdateAuthenticationWithDbscPublicKey, Registering
  <2>2. authentication'[a] = authentication[a] 
        \/ authentication'[a] = [authentication[a] EXCEPT !.key = request[r].key]
    BY <1>5 DEF UpdateAuthenticationWithDbscPublicKey, TypeOK
  <2>3. authentication'[a] \in AuthenticationRow
    BY <1>1, <2>1, <2>2 DEF AuthenticationRow
  <2> QED BY <1>1, <2>2, <2>3, AbsentAssumption DEF Revoked, AuthenticationRow
<1>6. ASSUME NEW x \in Account, DeleteAccount(x)
      PROVE  Revoked(a)'
  <2>1. authentication'[a] = authentication[a] 
        \/ authentication'[a] = [authentication[a] EXCEPT !.stored = FALSE]
    BY <1>6 DEF DeleteAccount
  <2>2. authentication'[a] \in AuthenticationRow
    BY <1>1, <2>1 DEF AuthenticationRow
  <2> QED BY <1>1, <2>1, <2>2, AbsentAssumption DEF Revoked, AuthenticationRow
<1> QED
  BY <1>2, <1>3, <1>4, <1>5, <1>6
  DEF Next, vars, tables, SelectEmailAddressAccount, AnswerSignIn, RefreshEndpointRead,
      NavigationRefreshRead, RefreshSession, RegisterProof, DemandProof, DbscRefreshRead,
      ProcessProof, Rechallenge, MintSession, AnswerProof, Abort, UpdateAccount, Tick

\* Cookies that stay as they are, or gain a token already presented, add none.
LEMMA TokensUnchanged ==
  ASSUME NEW a, cookies' = cookies
  PROVE  TokensOf(a)' \subseteq TokensOf(a)
BY DEF TokensOf, Presented

\* Nothing holds the authentication and no handler moved: it stays sealed.
LEMMA SealedUnchanged ==
  ASSUME TypeOK, [Next]_vars, NEW a \in Auth, Sealed(a), request' = request, cookies' = cookies
  PROVE  Sealed(a)' /\ TokensOf(a)' \subseteq TokensOf(a)
BY RevokedStays, TokensUnchanged, SealedParts DEF Sealed

\* A handler answers, or moves on to a state that holds nothing live, and no
\* token is issued.
LEMMA SealedProceed ==
  ASSUME TypeOK, [Next]_vars, NEW a \in Auth, Sealed(a), NEW r \in Request, NEW state,
         ~HoldsLive(state, a), Proceed(r, state), cookies' = cookies
  PROVE  Sealed(a)' /\ TokensOf(a)' \subseteq TokensOf(a)
<1>1. \A q \in Request : ~HoldsLive(request'[q], a)
  BY ProceedLeavesNothingLive DEF Sealed
<1>2. Revoked(a)'
  BY RevokedStays DEF Sealed
<1> QED BY <1>1, <1>2, SealedParts, TokensUnchanged

LEMMA SealedAnswer ==
  ASSUME TypeOK, [Next]_vars, NEW a \in Auth, Sealed(a), NEW r \in Request,
         Answer(r), TokensOf(a)' \subseteq TokensOf(a)
  PROVE  Sealed(a)' /\ TokensOf(a)' \subseteq TokensOf(a)
<1>1. \A q \in Request : ~HoldsLive(request'[q], a)
  BY AnswerLeavesNothingLive DEF Sealed
<1>2. Revoked(a)'
  BY RevokedStays DEF Sealed
<1> QED BY <1>1, <1>2, SealedParts

\* Signing out, or deleting the account, is final: once the handlers that had
\* read the authentication before are done, no path issues another token of it.
THEOREM RevocationFinal == Spec => RevocationIsFinal
<1> DEFINE Final(a) == Sealed(a)' /\ TokensOf(a)' \subseteq TokensOf(a)
<1>1. ASSUME TypeOK, Accord, [Next]_vars, NEW a \in Auth, Sealed(a)
      PROVE  Final(a)
  <2>a. /\ Revoked(a) /\ authentication[a] # Absent
        /\ \A q \in Request : ~HoldsLive(request[q], a)
        /\ \A q \in Request : Sound(request[q])
    BY <1>1 DEF Sealed, Revoked, Accord
  <2> USE <1>1
  <2>1. ASSUME NEW r \in Request, NEW x \in Account, NEW method \in SignInMethod,
               NEW t \in IdToken, SelectEmailAddressAccount(r, x, method, t)
        PROVE  Final(a)
    <3> DEFINE state == [step |-> "insert authentication", account |-> x,
                         holder |-> account[x], method |-> method, idToken |-> t]
    <3>1. ~HoldsLive(state, a)
      BY DEF HoldsLive, Serves
    <3>2. Proceed(r, state) /\ cookies' = cookies
      BY <2>1 DEF SelectEmailAddressAccount
    <3> HIDE DEF state
    <3> QED BY <3>1, <3>2, SealedProceed
  <2>2. ASSUME NEW r \in Request, NEW b \in Auth, InsertAuthentication(r, b)
        PROVE  Final(a)
    <3> DEFINE state == [step |-> "insert challenge", auth |-> b,
                         account |-> request[r].account, holder |-> request[r].holder,
                         method |-> request[r].method,
                         expiresAt |-> now + AuthenticationDuration]
    <3>1. cookies' = cookies
      BY <2>2 DEF InsertAuthentication
    <3>2. Answer(r) \/ (Proceed(r, state) /\ b # a)
      BY <2>2, <2>a DEF InsertAuthentication
    <3>3. b # a => ~HoldsLive(state, a)
      BY DEF HoldsLive, Serves
    <3> HIDE DEF state
    <3> QED BY <3>1, <3>2, <3>3, SealedProceed, SealedAnswer, TokensUnchanged
  <2>3. ASSUME NEW r \in Request, NEW c \in Challenge, AnswerSignIn(r, c)
        PROVE  Final(a)
    <3> DEFINE cookie == CreatedCookie(request[r])
    <3>1. request[r].auth # a
      BY <2>3, <2>a DEF AnswerSignIn, HoldsLive, Serves, RowSteps
    <3>2. cookie.token.auth # a
      BY <3>1 DEF CreatedCookie, NewToken
    <3>3. Answer(r) /\ cookies' = cookies \union {cookie}
      BY <2>3 DEF AnswerSignIn
    <3> HIDE DEF cookie
    <3> QED BY <3>2, <3>3, CookieOfAnother, SealedAnswer
  <2>4. ASSUME NEW r \in Request, NEW token \in AuthorizedSkippingExp,
               RefreshEndpointRead(r, token) \/ NavigationRefreshRead(r, token)
        PROVE  Final(a)
    <3> DEFINE read == SelectRefreshAuthentication(token.auth)
               state == [step |-> "renew", token |-> token, row |-> read]
    <3>1. Proceed(r, state) /\ cookies' = cookies /\ Stored(token.auth)
      BY <2>4 DEF RefreshEndpointRead, NavigationRefreshRead
    <3>2. token.auth = a => read.ended
      BY <3>1, <2>a DEF Revoked, Stored, SelectRefreshAuthentication
    <3>3. state.step = "renew" /\ state.token = token /\ state.row = read
      OBVIOUS
    <3> HIDE DEF state, read
    <3>4. ~HoldsLive(state, a)
      BY <3>2, <3>3 DEF HoldsLive, Serves, RowSteps
    <3> QED BY <3>1, <3>4, SealedProceed
  <2>5. ASSUME NEW r \in Request, RefreshSession(r)
        PROVE  Final(a)
    <3> DEFINE old == request[r].token
               row == request[r].row
               cookie == [token |-> RefreshedToken(old, row), expiresAt |-> row.expiresAt]
    <3>1. /\ request[r] \in Renewing /\ request[r].step = "renew" /\ Answer(r)
          /\ cookies' = cookies \/ (VerifyAuthentication(row) /\ cookies' = cookies \union {cookie})
      BY <2>5, RequestFields DEF RefreshSession
    <3>2. old \in Token
      BY <3>1 DEF Renewing
    <3>3. cookie.token.auth = old.auth
      BY <3>2 DEF RefreshedToken, Token
    <3>4. VerifyAuthentication(row) => old.auth # a
      BY <3>1, <2>a DEF HoldsLive, Serves, RowSteps, VerifyAuthentication
    <3> HIDE DEF cookie, row, old
    <3> QED BY <3>1, <3>3, <3>4, CookieOfAnother, TokensUnchanged, SealedAnswer
  <2>6. ASSUME NEW token \in Authorized, EndSession(token)
        PROVE  Final(a)
    BY <2>6, SealedUnchanged DEF EndSession
  <2>7. ASSUME NEW r \in Request, NEW token \in Authorized, NEW key \in Key,
               NEW c \in Challenge, RegisterProof(r, token, key, c)
        PROVE  Final(a)
    <3> DEFINE state == [step |-> "register", token |-> token, key |-> key, challenge |-> c]
    <3>1. cookies' = cookies /\ (Proceed(r, state) \/ request' = request)
      BY <2>7 DEF RegisterProof
    <3>2. ~HoldsLive(state, a)
      BY DEF HoldsLive, Serves
    <3> HIDE DEF state
    <3> QED BY <3>1, <3>2, SealedProceed, SealedUnchanged
  <2>8. ASSUME NEW r \in Request, UpdateAuthenticationWithDbscPublicKey(r)
        PROVE  Final(a)
    <3> DEFINE token == request[r].token
               cookie == [token |-> token, expiresAt |-> token.expiresAt]
    <3>1. token \in Presented
      BY <2>8, <2>a DEF UpdateAuthenticationWithDbscPublicKey, Sound
    <3>2. Answer(r) /\ (cookies' = cookies \/ cookies' = cookies \union {cookie})
      BY <2>8 DEF UpdateAuthenticationWithDbscPublicKey
    <3>3. cookie.token = token
      OBVIOUS
    <3> HIDE DEF cookie, token
    <3>4. TokensOf(a)' \subseteq TokensOf(a)
      BY <3>1, <3>2, <3>3 DEF TokensOf, Presented
    <3> QED BY <3>2, <3>4, SealedAnswer
  <2>9. ASSUME NEW b \in Auth, NEW c \in Challenge, DemandProof(b, c)
        PROVE  Final(a)
    BY <2>9, SealedUnchanged DEF DemandProof
  <2>10. ASSUME NEW r \in Request, NEW b \in Auth, NEW key \in Key, NEW c \in Challenge,
                DbscRefreshRead(r, b, key, c)
         PROVE  Final(a)
    <3> DEFINE state == [step |-> "prove", auth |-> b, row |-> SelectRefreshAuthentication(b),
                         key |-> key, challenge |-> c]
    <3>1. Proceed(r, state) /\ cookies' = cookies /\ b # a
      BY <2>10, <2>a DEF DbscRefreshRead, Revoked, Stored
    <3>2. ~HoldsLive(state, a)
      BY <3>1 DEF HoldsLive, Serves
    <3> HIDE DEF state
    <3> QED BY <3>1, <3>2, SealedProceed
  <2>11. ASSUME NEW r \in Request, ProcessProof(r)
         PROVE  Final(a)
    <3> DEFINE b == request[r].auth
               row == request[r].row
               minting == [step |-> "mint", auth |-> b, row |-> row,
                           challenge |-> request[r].challenge]
               again == [step |-> "rechallenge", auth |-> b]
    <3>1. /\ cookies' = cookies /\ request[r].step = "prove"
          /\ Proceed(r, minting) \/ Proceed(r, again) \/ Answer(r)
      BY <2>11 DEF ProcessProof
    <3>2. b = a => row.ended
      BY <3>1, <2>a DEF HoldsLive, Serves, RowSteps
    <3>3. ~HoldsLive(again, a)
      BY DEF HoldsLive, Serves
    <3>4. minting.step = "mint" /\ minting.auth = b /\ minting.row = row
      OBVIOUS
    <3> HIDE DEF minting, again, b, row
    <3>5. ~HoldsLive(minting, a)
      BY <3>2, <3>4 DEF HoldsLive, Serves, RowSteps
    <3> QED BY <3>1, <3>3, <3>5, SealedProceed, SealedAnswer, TokensUnchanged
  <2>12. ASSUME NEW r \in Request, NEW c \in Challenge, Rechallenge(r, c)
         PROVE  Final(a)
    BY <2>12, TokensUnchanged, SealedAnswer DEF Rechallenge
  <2>13. ASSUME NEW r \in Request, MintSession(r)
         PROVE  Final(a)
    <3> DEFINE b == request[r].auth
               row == request[r].row
               state == [step |-> "seed", auth |-> b, row |-> row, cookie |-> MintedCookie(b, row)]
    <3>1. cookies' = cookies /\ request[r].step = "mint" /\ (Proceed(r, state) \/ Answer(r))
      BY <2>13 DEF MintSession
    <3>2. b = a => row.ended
      BY <3>1, <2>a DEF HoldsLive, Serves, RowSteps
    <3>3. state.step = "seed" /\ state.auth = b /\ state.row = row
      OBVIOUS
    <3> HIDE DEF state, b, row
    <3>4. ~HoldsLive(state, a)
      BY <3>2, <3>3 DEF HoldsLive, Serves, RowSteps
    <3> QED BY <3>1, <3>4, SealedProceed, SealedAnswer, TokensUnchanged
  <2>14. ASSUME NEW r \in Request, NEW c \in Challenge, AnswerProof(r, c)
         PROVE  Final(a)
    <3> DEFINE cookie == request[r].cookie
    <3>1. /\ request[r].step = "seed" /\ Answer(r) /\ cookies' = cookies \union {cookie}
      BY <2>14 DEF AnswerProof
    <3>2. cookie.token.auth # a
      BY <3>1, <2>a DEF Sound, HoldsLive, Serves, RowSteps
    <3> HIDE DEF cookie
    <3> QED BY <3>1, <3>2, CookieOfAnother, SealedAnswer
  <2>15. ASSUME NEW r \in Request, Abort(r)
         PROVE  Final(a)
    BY <2>15, TokensUnchanged, SealedAnswer DEF Abort
  <2>16. ASSUME NEW x \in Account, NEW row \in AccountRow, UpdateAccount(x, row)
         PROVE  Final(a)
    BY <2>16, SealedUnchanged DEF UpdateAccount
  <2>17. ASSUME NEW x \in Account, DeleteAccount(x)
         PROVE  Final(a)
    BY <2>17, SealedUnchanged DEF DeleteAccount
  <2>18. ASSUME Tick \/ UNCHANGED vars
         PROVE  Final(a)
    BY <2>18, SealedUnchanged DEF Tick, vars
  <2> QED BY <2>1, <2>2, <2>3, <2>4, <2>5, <2>6, <2>7, <2>8, <2>9, <2>10, <2>11,
             <2>12, <2>13, <2>14, <2>15, <2>16, <2>17, <2>18 DEF Next
<1>2. TypeOK /\ Accord /\ [Next]_vars
      => [\A a \in Auth : Sealed(a) => Sealed(a)' /\ TokensOf(a)' \subseteq TokensOf(a)]_vars
  BY <1>1
<1> QED BY <1>2, TypeCorrect, InAccord, PTL DEF Spec, RevocationIsFinal

-----------------------------------------------------------------------------
(* Challenges: a challenge that has been accepted is spent and stays so, and *)
(* a handler past its pop holds one that is.                                 *)

\* The challenge was accepted at most once, and is spent if it was.
Settled(c) ==
  \/ redeemed[c] = 0
  \/ redeemed[c] = 1 /\ challenge[c] # Absent /\ ~challenge[c].stored

\* The challenge of session a was accepted.
Taken(c, a) ==
  /\ challenge[c] # Absent
  /\ challenge[c].auth = a
  /\ ~challenge[c].stored
  /\ redeemed[c] = 1

Spent(state) ==
  /\ state.step = "register" => Taken(state.challenge, state.token.auth)
  /\ state.step = "mint" => Taken(state.challenge, state.auth)

Once ==
  /\ \A c \in Challenge : Settled(c)
  /\ \A r \in Request : Spent(request[r])

\* What a step may do to a challenge: nothing, store it for the first time,
\* take it away, or take it away and accept it, the last only if it was there.
LEMMA ChallengeSteps ==
  ASSUME TypeOK, [Next]_vars, NEW c \in Challenge
  PROVE  \/ challenge'[c] = challenge[c] /\ redeemed'[c] = redeemed[c]
         \/ challenge[c] = Absent /\ redeemed'[c] = redeemed[c]
         \/ /\ challenge[c] # Absent
            /\ challenge'[c] = [challenge[c] EXCEPT !.stored = FALSE]
            /\ \/ redeemed'[c] = redeemed[c]
               \/ challenge[c].stored /\ redeemed'[c] = redeemed[c] + 1
<1> DEFINE Gone == challenge[c] # Absent /\ challenge'[c] = [challenge[c] EXCEPT !.stored = FALSE]
           Same == challenge'[c] = challenge[c]
           Quiet == redeemed'[c] = redeemed[c]
           Counted == challenge[c].stored /\ redeemed'[c] = redeemed[c] + 1
           Goal == (Same /\ Quiet) \/ (challenge[c] = Absent /\ Quiet)
                   \/ (Gone /\ (Quiet \/ Counted))
<1>1. ASSUME NEW b \in Challenge, NEW a, InsertDbscChallenge(b, a), redeemed' = redeemed
      PROVE  Goal
  BY <1>1 DEF InsertDbscChallenge, TypeOK
<1>2. ASSUME NEW b \in Challenge, NEW a, Poppable(b, a), PopDbscChallenge(b),
             redeemed' = redeemed \/ CountRedemption(b)
      PROVE  Goal
  <2>1. (b = c /\ Gone /\ challenge[c].stored) \/ (b # c /\ Same)
    BY <1>2 DEF Poppable, PopDbscChallenge, TypeOK
  <2>2. Quiet \/ (b = c /\ redeemed'[c] = redeemed[c] + 1)
    BY <1>2 DEF CountRedemption, TypeOK
  <2> QED BY <2>1, <2>2
<1>3. ASSUME NEW r \in Request, NEW token, NEW key, NEW b \in Challenge,
             RegisterProof(r, token, key, b)
      PROVE  Goal
  BY <1>2, <1>3 DEF RegisterProof
<1>4. ASSUME NEW r \in Request, ProcessProof(r)
      PROVE  Goal
  <2>1. request[r].challenge \in Challenge
    BY <1>4, RequestFields DEF ProcessProof, Proving
  <2> QED BY <1>2, <1>4, <2>1 DEF ProcessProof
<1>5. ASSUME NEW x \in Account, DeleteAccount(x)
      PROVE  Goal
  BY <1>5 DEF DeleteAccount
<1>6. (challenge' = challenge /\ redeemed' = redeemed) => Goal
  OBVIOUS
<1>7. Goal
  <2> HIDE DEF Goal
  <2> QED BY <1>1, <1>3, <1>4, <1>5, <1>6
     DEF Next, vars, tables, SelectEmailAddressAccount, InsertAuthentication, AnswerSignIn,
         RefreshEndpointRead, NavigationRefreshRead, RefreshSession, EndSession,
         UpdateAuthenticationWithDbscPublicKey, DemandProof, DbscRefreshRead,
         Rechallenge, MintSession, AnswerProof, Abort, UpdateAccount, Tick
<1> QED BY <1>7

\* So a challenge accepted once is not accepted again,
LEMMA SettledKept ==
  ASSUME TypeOK, [Next]_vars, NEW c \in Challenge, Settled(c)
  PROVE  Settled(c)'
<1>1. redeemed[c] \in Nat /\ (challenge[c] # Absent => challenge[c] \in ChallengeRow)
  BY DEF TypeOK
<1>2. ASSUME challenge[c] # Absent, challenge'[c] = [challenge[c] EXCEPT !.stored = FALSE]
      PROVE  challenge'[c] # Absent /\ ~challenge'[c].stored
  BY <1>1, <1>2, AbsentAssumption DEF ChallengeRow
<1> QED BY <1>1, <1>2, ChallengeSteps DEF Settled

\* one that was taken stays taken,
LEMMA TakenKept ==
  ASSUME TypeOK, [Next]_vars, NEW c \in Challenge, NEW a, Taken(c, a)
  PROVE  Taken(c, a)'
<1>1. challenge[c] \in ChallengeRow /\ redeemed[c] = 1
  BY DEF TypeOK, Taken
<1>2. ASSUME challenge'[c] = [challenge[c] EXCEPT !.stored = FALSE]
      PROVE  challenge'[c] # Absent /\ ~challenge'[c].stored /\ challenge'[c].auth = challenge[c].auth
  BY <1>1, <1>2, AbsentAssumption DEF ChallengeRow
<1> QED BY <1>1, <1>2, ChallengeSteps DEF Taken

\* and a handler that holds it goes on holding it while others take steps.
LEMMA SpentKept ==
  ASSUME TypeOK, [Next]_vars, NEW state \in RequestState, Spent(state)
  PROVE  Spent(state)'
<1>1. CASE state.step = "register"
  BY <1>1, StateFields, TakenKept DEF Spent, Registering
<1>2. CASE state.step = "mint"
  BY <1>2, StateFields, TakenKept DEF Spent, Minting
<1> QED BY <1>1, <1>2 DEF Spent

\* One that is popped in time is taken: it was there, so it had not been accepted.
LEMMA PopTakes ==
  ASSUME TypeOK, NEW c \in Challenge, Settled(c), NEW a, Poppable(c, a),
         PopDbscChallenge(c), CountRedemption(c)
  PROVE  Taken(c, a)'
<1>1. challenge[c] \in ChallengeRow /\ redeemed[c] = 0
  BY DEF Poppable, Settled, TypeOK
<1>2. challenge'[c] = [challenge[c] EXCEPT !.stored = FALSE]
  BY DEF PopDbscChallenge, TypeOK
<1>3. challenge'[c] # Absent /\ ~challenge'[c].stored /\ challenge'[c].auth = challenge[c].auth
  BY <1>1, <1>2, AbsentAssumption DEF ChallengeRow
<1>4. redeemed'[c] = 1
  BY <1>1 DEF CountRedemption, TypeOK
<1> QED BY <1>3, <1>4 DEF Taken, Poppable

\* A handler that moves to a state with nothing taken, or with what it took,
\* leaves every handler with what it holds.
LEMMA ProceedSpent ==
  ASSUME TypeOK, [Next]_vars, Once, NEW r \in Request, NEW state, Spent(state)',
         Proceed(r, state)
  PROVE  Once'
<1>1. \A c \in Challenge : Settled(c)'
  BY SettledKept DEF Once
<1>2. ASSUME NEW q \in Request PROVE Spent(request[q])'
  <2>1. CASE q = r
    BY <2>1 DEF Proceed, TypeOK, Spent, Taken
  <2>2. CASE q # r
    <3>1. request'[q] = request[q] /\ request[q] \in RequestState /\ Spent(request[q])
      BY <2>2 DEF Proceed, TypeOK, Once
    <3> QED BY <3>1, SpentKept
  <2> QED BY <2>1, <2>2
<1> QED BY <1>1, <1>2 DEF Once

\* No handler moves.
LEMMA OnceUnchanged ==
  ASSUME TypeOK, [Next]_vars, Once, request' = request
  PROVE  Once'
<1>1. \A c \in Challenge : Settled(c)'
  BY SettledKept DEF Once
<1>2. ASSUME NEW q \in Request PROVE Spent(request[q])'
  <2>1. request[q] \in RequestState /\ Spent(request[q])
    BY DEF TypeOK, Once
  <2> QED BY <2>1, SpentKept
<1> QED BY <1>1, <1>2 DEF Once

\* A handler moves to a step that holds no accepted challenge, or answers.
LEMMA ProceedElsewhere ==
  ASSUME TypeOK, [Next]_vars, Once, NEW r \in Request, NEW state,
         state.step \notin {"register", "mint"}, Proceed(r, state)
  PROVE  Once'
<1>1. Spent(state)'
  BY DEF Spent
<1> QED BY <1>1, ProceedSpent

\* The same for a handler that answers.
LEMMA AnswerOnce ==
  ASSUME TypeOK, [Next]_vars, Once, NEW r \in Request, Answer(r)
  PROVE  Once'
<1>1. Idle.step \notin {"register", "mint"}
  BY DEF Idle
<1> QED BY <1>1, ProceedElsewhere DEF Answer

\* A handler that pops a challenge in time moves on with it in hand.
LEMMA PopOnce ==
  ASSUME TypeOK, [Next]_vars, Once, NEW r \in Request, NEW state, NEW c \in Challenge, NEW a,
         \/ state.step = "register" /\ state.token.auth = a
         \/ state.step = "mint" /\ state.auth = a,
         state.challenge = c, Poppable(c, a), PopDbscChallenge(c), CountRedemption(c),
         Proceed(r, state)
  PROVE  Once'
<1>1. Taken(c, a)'
  BY PopTakes DEF Once
<1>2. Spent(state)'
  BY <1>1 DEF Spent, Taken
<1> QED BY <1>2, ProceedSpent

\* Accepted challenges are spent, and the handlers that took them hold them.
THEOREM SpentStaysSpent == Spec => []Once
<1>1. Init => Once
  BY DEF Init, Once, Settled, Spent, Idle
<1>2. TypeOK /\ Once /\ [Next]_vars => Once'
  <2> SUFFICES ASSUME TypeOK, Once, [Next]_vars PROVE Once'
    OBVIOUS
  <2>1. ASSUME NEW r \in Request, NEW x \in Account, NEW method \in SignInMethod,
               NEW t \in IdToken, SelectEmailAddressAccount(r, x, method, t)
        PROVE  Once'
    <3> DEFINE state == [step |-> "insert authentication", account |-> x,
                         holder |-> account[x], method |-> method, idToken |-> t]
    <3>1. state.step \notin {"register", "mint"} /\ Proceed(r, state)
      BY <2>1 DEF SelectEmailAddressAccount
    <3> HIDE DEF state
    <3> QED BY <3>1, ProceedElsewhere
  <2>2. ASSUME NEW r \in Request, NEW a \in Auth, InsertAuthentication(r, a)
        PROVE  Once'
    <3> DEFINE state == [step |-> "insert challenge", auth |-> a,
                         account |-> request[r].account, holder |-> request[r].holder,
                         method |-> request[r].method,
                         expiresAt |-> now + AuthenticationDuration]
    <3>1. state.step \notin {"register", "mint"} /\ (Proceed(r, state) \/ Answer(r))
      BY <2>2 DEF InsertAuthentication
    <3> HIDE DEF state
    <3> QED BY <3>1, ProceedElsewhere, AnswerOnce
  <2>3. ASSUME NEW r \in Request,
               \/ \E c \in Challenge : AnswerSignIn(r, c) \/ Rechallenge(r, c) \/ AnswerProof(r, c)
               \/ RefreshSession(r) \/ UpdateAuthenticationWithDbscPublicKey(r) \/ Abort(r)
        PROVE  Once'
    BY <2>3, AnswerOnce
       DEF AnswerSignIn, Rechallenge, AnswerProof, RefreshSession,
           UpdateAuthenticationWithDbscPublicKey, Abort
  <2>4. ASSUME NEW r \in Request, NEW token \in AuthorizedSkippingExp,
               RefreshEndpointRead(r, token) \/ NavigationRefreshRead(r, token)
        PROVE  Once'
    <3> DEFINE state == [step |-> "renew", token |-> token,
                         row |-> SelectRefreshAuthentication(token.auth)]
    <3>1. state.step \notin {"register", "mint"} /\ Proceed(r, state)
      BY <2>4 DEF RefreshEndpointRead, NavigationRefreshRead
    <3> HIDE DEF state
    <3> QED BY <3>1, ProceedElsewhere
  <2>5. ASSUME NEW r \in Request, NEW token \in Authorized, NEW key \in Key,
               NEW c \in Challenge, RegisterProof(r, token, key, c)
        PROVE  Once'
    <3> DEFINE state == [step |-> "register", token |-> token, key |-> key, challenge |-> c]
    <3>1. CASE request' = request
      BY <3>1, OnceUnchanged
    <3>2. CASE request' # request
      <4>1. Proceed(r, state) /\ Poppable(c, token.auth) /\ PopDbscChallenge(c) /\ CountRedemption(c)
        BY <2>5, <3>2 DEF RegisterProof
      <4>2. state.step = "register" /\ state.challenge = c /\ state.token = token
        OBVIOUS
      <4> HIDE DEF state
      <4> QED BY <4>1, <4>2, PopOnce
    <3> QED BY <3>1, <3>2
  <2>6. ASSUME NEW r \in Request, NEW a \in Auth, NEW key \in Key, NEW c \in Challenge,
               DbscRefreshRead(r, a, key, c)
        PROVE  Once'
    <3> DEFINE state == [step |-> "prove", auth |-> a, row |-> SelectRefreshAuthentication(a),
                         key |-> key, challenge |-> c]
    <3>1. state.step \notin {"register", "mint"} /\ Proceed(r, state)
      BY <2>6 DEF DbscRefreshRead
    <3> HIDE DEF state
    <3> QED BY <3>1, ProceedElsewhere
  <2>7. ASSUME NEW r \in Request, ProcessProof(r)
        PROVE  Once'
    <3> DEFINE a == request[r].auth
               c == request[r].challenge
               minting == [step |-> "mint", auth |-> a, row |-> request[r].row, challenge |-> c]
               again == [step |-> "rechallenge", auth |-> a]
    <3>1. c \in Challenge
      BY <2>7, RequestFields DEF ProcessProof, Proving
    <3>2. \/ Answer(r) \/ Proceed(r, again)
          \/ /\ Proceed(r, minting) /\ Poppable(c, a)
             /\ PopDbscChallenge(c) /\ CountRedemption(c)
      BY <2>7 DEF ProcessProof
    <3>3. /\ again.step \notin {"register", "mint"}
          /\ minting.step = "mint" /\ minting.challenge = c /\ minting.auth = a
      OBVIOUS
    <3> HIDE DEF minting, again, a, c
    <3> QED BY <3>1, <3>2, <3>3, PopOnce, ProceedElsewhere, AnswerOnce
  <2>8. ASSUME NEW r \in Request, MintSession(r)
        PROVE  Once'
    <3> DEFINE a == request[r].auth
               row == request[r].row
               state == [step |-> "seed", auth |-> a, row |-> row, cookie |-> MintedCookie(a, row)]
    <3>1. state.step \notin {"register", "mint"} /\ (Proceed(r, state) \/ Answer(r))
      BY <2>8 DEF MintSession
    <3> HIDE DEF state
    <3> QED BY <3>1, ProceedElsewhere, AnswerOnce
  <2>9. request' = request => Once'
    BY OnceUnchanged
  <2> QED BY <2>1, <2>2, <2>3, <2>4, <2>5, <2>6, <2>7, <2>8, <2>9
          DEF Next, vars, EndSession, DemandProof, UpdateAccount, DeleteAccount, Tick
<1> QED BY <1>1, <1>2, TypeCorrect, PTL DEF Spec

\* A challenge is accepted at most once, by one proof for the session it was
\* issued to, however many handlers are presented with it at the same time.
THEOREM SpentOnce == Spec => []ChallengeSpentOnce
<1>1. Once => ChallengeSpentOnce
  BY DEF Once, Settled, Spent, Taken, ChallengeSpentOnce
<1> QED BY <1>1, SpentStaysSpent, PTL

-----------------------------------------------------------------------------
(* Device keys: one that was registered may be replaced but is never taken   *)
(* away, so what a handler read of it before it took the proof still holds   *)
(* when its token is issued.                                                 *)

HasKey(a) == authentication[a] # Absent /\ authentication[a].key # NoKey

\* The handlers of the device endpoint, and what the last of them will issue.
Keyed(state) ==
  /\ state.step \in {"prove", "mint", "seed"} => HasKey(state.auth)
  /\ state.step = "seed" => state.cookie.token.auth = state.auth

KeyedTokens == \A token \in Presented : token.method = Dbsc => HasKey(token.auth)

Registered ==
  /\ KeyedTokens
  /\ \A r \in Request : Keyed(request[r])

\* A registered key is replaced or kept; deleting the row keeps its last value.
LEMMA KeyKept ==
  ASSUME TypeOK, [Next]_vars, NEW a \in Auth, HasKey(a)
  PROVE  HasKey(a)'
<1>1. authentication[a] \in AuthenticationRow
  BY ReadIsSnapshot DEF HasKey
<1>2. ASSUME NEW r \in Request, NEW b \in Auth, InsertAuthentication(r, b)
      PROVE  HasKey(a)'
  BY <1>2 DEF InsertAuthentication, HasKey, TypeOK
<1>3. ASSUME \/ authentication'[a] = authentication[a]
             \/ authentication'[a] = [authentication[a] EXCEPT !.ended = TRUE]
             \/ authentication'[a] = [authentication[a] EXCEPT !.stored = FALSE]
             \/ \E key \in Key : authentication'[a] = [authentication[a] EXCEPT !.key = key]
      PROVE  HasKey(a)'
  <2>1. authentication'[a] \in AuthenticationRow
    BY <1>1, <1>3 DEF AuthenticationRow
  <2>2. authentication'[a].key # NoKey
    BY <1>1, <1>3, RowAssumption DEF AuthenticationRow, HasKey
  <2> QED BY <2>1, <2>2, AbsentAssumption DEF AuthenticationRow, HasKey
<1>4. ASSUME NEW token \in Authorized, EndSession(token)
      PROVE  HasKey(a)'
  BY <1>3, <1>4 DEF EndSession, TypeOK
<1>5. ASSUME NEW r \in Request, UpdateAuthenticationWithDbscPublicKey(r)
      PROVE  HasKey(a)'
  <2>1. request[r].key \in Key
    BY <1>5, RequestFields DEF UpdateAuthenticationWithDbscPublicKey, Registering
  <2>2. \/ authentication'[a] = authentication[a]
        \/ authentication'[a] = [authentication[a] EXCEPT !.key = request[r].key]
    BY <1>5 DEF UpdateAuthenticationWithDbscPublicKey, TypeOK
  <2> QED BY <1>3, <2>1, <2>2
<1>6. ASSUME NEW x \in Account, DeleteAccount(x)
      PROVE  HasKey(a)'
  BY <1>3, <1>6 DEF DeleteAccount
<1>7. authentication' = authentication => HasKey(a)'
  BY DEF HasKey
<1> QED
  BY <1>2, <1>4, <1>5, <1>6, <1>7
  DEF Next, vars, tables, SelectEmailAddressAccount, AnswerSignIn, RefreshEndpointRead,
      NavigationRefreshRead, RefreshSession, RegisterProof, DemandProof, DbscRefreshRead,
      ProcessProof, Rechallenge, MintSession, AnswerProof, Abort, UpdateAccount, Tick

\* So what a handler holds stays keyed while others take steps.
LEMMA KeyedKept ==
  ASSUME TypeOK, [Next]_vars, NEW state \in RequestState, Keyed(state)
  PROVE  Keyed(state)'
<1>1. CASE state.step \in {"prove", "mint", "seed"}
  <2>1. state.auth \in Auth
    BY <1>1, StateFields DEF Proving, Minting, Seeding
  <2>2. HasKey(state.auth)'
    BY <1>1, <2>1, KeyKept DEF Keyed
  <2> QED BY <2>2 DEF Keyed
<1> QED BY <1>1 DEF Keyed

\* The tokens already issued keep theirs, whatever is issued beside them.
LEMMA KeyedTokensKept ==
  ASSUME TypeOK, [Next]_vars, KeyedTokens,
         \A token \in Presented' \ Presented : token.method = Dbsc => HasKey(token.auth)'
  PROVE  KeyedTokens'
<1>1. ASSUME NEW token \in Presented, token.method = Dbsc PROVE HasKey(token.auth)'
  BY <1>1, PresentedAreTokens, KeyKept DEF KeyedTokens, Token
<1> QED BY <1>1 DEF KeyedTokens

\* One cookie is added, of another method or of a session with a key.
LEMMA KeyedCookie ==
  ASSUME TypeOK, [Next]_vars, KeyedTokens, NEW cookie, cookies' = cookies \union {cookie},
         cookie.token.method = Dbsc => HasKey(cookie.token.auth)'
  PROVE  KeyedTokens'
<1>1. \A token \in Presented' \ Presented : token = cookie.token
  BY DEF Presented
<1> QED BY <1>1, KeyedTokensKept

\* No cookie is added.
LEMMA SameCookies ==
  ASSUME TypeOK, [Next]_vars, KeyedTokens, cookies' = cookies
  PROVE  KeyedTokens'
BY KeyedTokensKept DEF Presented

\* A handler that moves to a state it has the key for leaves all of them so.
LEMMA ProceedKeyed ==
  ASSUME TypeOK, [Next]_vars, Registered, KeyedTokens', NEW r \in Request, NEW state,
         Keyed(state)', Proceed(r, state)
  PROVE  Registered'
<1>1. ASSUME NEW q \in Request PROVE Keyed(request[q])'
  <2>1. CASE q = r
    BY <2>1 DEF Proceed, TypeOK, Keyed, HasKey
  <2>2. CASE q # r
    <3>1. request'[q] = request[q] /\ request[q] \in RequestState /\ Keyed(request[q])
      BY <2>2 DEF Proceed, TypeOK, Registered
    <3> QED BY <3>1, KeyedKept
  <2> QED BY <2>1, <2>2
<1> QED BY <1>1 DEF Registered

\* A handler of another endpoint.
LEMMA ProceedUnkeyed ==
  ASSUME TypeOK, [Next]_vars, Registered, KeyedTokens', NEW r \in Request, NEW state,
         state.step \notin {"prove", "mint", "seed"}, Proceed(r, state)
  PROVE  Registered'
<1>1. Keyed(state)'
  BY DEF Keyed
<1> QED BY <1>1, ProceedKeyed

\* A handler that hands on the session it has the key of.
LEMMA ProceedHandsOn ==
  ASSUME TypeOK, [Next]_vars, Registered, KeyedTokens', NEW r \in Request, NEW state,
         NEW a \in Auth, state.auth = a, HasKey(a), state.step \in {"prove", "mint", "seed"},
         state.step = "seed" => state.cookie.token.auth = a, Proceed(r, state)
  PROVE  Registered'
<1>1. HasKey(a)'
  BY KeyKept
<1>2. Keyed(state)'
  BY <1>1 DEF Keyed, HasKey
<1> QED BY <1>2, ProceedKeyed

\* A handler that answers.
LEMMA AnswerKeyed ==
  ASSUME TypeOK, [Next]_vars, Registered, KeyedTokens', NEW r \in Request, Answer(r)
  PROVE  Registered'
<1>1. Idle.step \notin {"prove", "mint", "seed"}
  BY DEF Idle
<1> QED BY <1>1, ProceedUnkeyed DEF Answer

\* No handler moves and no cookie is added.
LEMMA RegisteredUnchanged ==
  ASSUME TypeOK, [Next]_vars, Registered, cookies' = cookies, request' = request
  PROVE  Registered'
<1>1. ASSUME NEW q \in Request PROVE Keyed(request[q])'
  <2>1. request[q] \in RequestState /\ Keyed(request[q])
    BY DEF TypeOK, Registered
  <2> QED BY <2>1, KeyedKept
<1> QED BY <1>1, SameCookies DEF Registered

\* Every device token, and every handler on its way to one, is of a session with
\* a registered key.
THEOREM KeysStayRegistered == Spec => []Registered
<1>1. Init => Registered
  BY DEF Init, Registered, KeyedTokens, Presented, Keyed, Idle
<1>2. TypeOK /\ Accord /\ Registered /\ [Next]_vars => Registered'
  <2> SUFFICES ASSUME TypeOK, Accord, Registered, [Next]_vars PROVE Registered'
    OBVIOUS
  <2>a. KeyedTokens /\ (\A q \in Request : Keyed(request[q]) /\ Sound(request[q]))
    BY DEF Registered, Accord
  <2>b. cookies' = cookies => KeyedTokens'
    BY <2>a, SameCookies
  <2>1. ASSUME NEW r \in Request, NEW x \in Account, NEW method \in SignInMethod,
               NEW t \in IdToken, SelectEmailAddressAccount(r, x, method, t)
        PROVE  Registered'
    <3> DEFINE state == [step |-> "insert authentication", account |-> x,
                         holder |-> account[x], method |-> method, idToken |-> t]
    <3>1. /\ state.step \notin {"prove", "mint", "seed"}
          /\ Proceed(r, state) /\ cookies' = cookies
      BY <2>1 DEF SelectEmailAddressAccount
    <3> HIDE DEF state
    <3> QED BY <2>b, <3>1, ProceedUnkeyed
  <2>2. ASSUME NEW r \in Request, NEW a \in Auth, InsertAuthentication(r, a)
        PROVE  Registered'
    <3> DEFINE state == [step |-> "insert challenge", auth |-> a,
                         account |-> request[r].account, holder |-> request[r].holder,
                         method |-> request[r].method,
                         expiresAt |-> now + AuthenticationDuration]
    <3>1. /\ state.step \notin {"prove", "mint", "seed"} /\ cookies' = cookies
          /\ Proceed(r, state) \/ Answer(r)
      BY <2>2 DEF InsertAuthentication
    <3> HIDE DEF state
    <3> QED BY <2>b, <3>1, ProceedUnkeyed, AnswerKeyed
  <2>3. ASSUME NEW r \in Request, NEW c \in Challenge, AnswerSignIn(r, c)
        PROVE  Registered'
    <3> DEFINE cookie == CreatedCookie(request[r])
    <3>1. request[r].method \in SignInMethod
      BY <2>3, RequestFields DEF AnswerSignIn, Created
    <3>2. cookie.token.method # Dbsc
      BY <3>1 DEF CreatedCookie, NewToken, SignInMethod, Sso, MagicLink, Dbsc
    <3>3. Answer(r) /\ cookies' = cookies \union {cookie}
      BY <2>3 DEF AnswerSignIn
    <3> HIDE DEF cookie
    <3> QED BY <2>a, <3>2, <3>3, KeyedCookie, AnswerKeyed
  <2>4. ASSUME NEW r \in Request, NEW token \in AuthorizedSkippingExp,
               RefreshEndpointRead(r, token) \/ NavigationRefreshRead(r, token)
        PROVE  Registered'
    <3> DEFINE state == [step |-> "renew", token |-> token,
                         row |-> SelectRefreshAuthentication(token.auth)]
    <3>1. /\ state.step \notin {"prove", "mint", "seed"}
          /\ Proceed(r, state) /\ cookies' = cookies
      BY <2>4 DEF RefreshEndpointRead, NavigationRefreshRead
    <3> HIDE DEF state
    <3> QED BY <2>b, <3>1, ProceedUnkeyed
  <2>5. ASSUME NEW r \in Request, RefreshSession(r)
        PROVE  Registered'
    <3> DEFINE old == request[r].token
               row == request[r].row
               cookie == [token |-> RefreshedToken(old, row), expiresAt |-> row.expiresAt]
    <3>1. Answer(r) /\ (cookies' = cookies \/ cookies' = cookies \union {cookie})
      BY <2>5 DEF RefreshSession
    <3>2. old \in Token
      BY <2>5, RequestFields DEF RefreshSession, Renewing
    <3>3. cookie.token.method # Dbsc
      BY <3>2 DEF RefreshedToken, Token, Refresh, Dbsc
    <3> HIDE DEF cookie
    <3> QED BY <2>a, <2>b, <3>1, <3>3, KeyedCookie, AnswerKeyed
  <2>6. ASSUME NEW r \in Request, NEW token \in Authorized, NEW key \in Key,
               NEW c \in Challenge, RegisterProof(r, token, key, c)
        PROVE  Registered'
    <3> DEFINE state == [step |-> "register", token |-> token, key |-> key, challenge |-> c]
    <3>1. /\ state.step \notin {"prove", "mint", "seed"} /\ cookies' = cookies
          /\ Proceed(r, state) \/ request' = request
      BY <2>6 DEF RegisterProof
    <3> HIDE DEF state
    <3> QED BY <2>b, <3>1, ProceedUnkeyed, RegisteredUnchanged
  <2>7. ASSUME NEW r \in Request, UpdateAuthenticationWithDbscPublicKey(r)
        PROVE  Registered'
    <3> DEFINE token == request[r].token
               cookie == [token |-> token, expiresAt |-> token.expiresAt]
    <3>1. token \in Presented
      BY <2>7, <2>a DEF UpdateAuthenticationWithDbscPublicKey, Sound
    <3>2. /\ Answer(r) /\ cookie.token = token
          /\ cookies' = cookies \/ cookies' = cookies \union {cookie}
      BY <2>7 DEF UpdateAuthenticationWithDbscPublicKey
    <3> HIDE DEF cookie, token
    <3>3. Presented' \subseteq Presented
      BY <3>1, <3>2 DEF Presented
    <3>4. KeyedTokens'
      BY <2>a, <3>3, KeyedTokensKept
    <3> QED BY <3>2, <3>4, AnswerKeyed
  <2>8. ASSUME NEW r \in Request, NEW a \in Auth, NEW key \in Key, NEW c \in Challenge,
               DbscRefreshRead(r, a, key, c)
        PROVE  Registered'
    <3> DEFINE state == [step |-> "prove", auth |-> a, row |-> SelectRefreshAuthentication(a),
                         key |-> key, challenge |-> c]
    <3>1. /\ state.step = "prove" /\ state.auth = a /\ HasKey(a)
          /\ Proceed(r, state) /\ cookies' = cookies
      BY <2>8 DEF DbscRefreshRead, Stored, HasKey
    <3> HIDE DEF state
    <3> QED BY <2>b, <3>1, ProceedHandsOn
  <2>9. ASSUME NEW r \in Request, ProcessProof(r)
        PROVE  Registered'
    <3> DEFINE a == request[r].auth
               minting == [step |-> "mint", auth |-> a, row |-> request[r].row,
                           challenge |-> request[r].challenge]
               again == [step |-> "rechallenge", auth |-> a]
    <3>1. /\ request[r].step = "prove" /\ cookies' = cookies
          /\ Answer(r) \/ Proceed(r, again) \/ Proceed(r, minting)
      BY <2>9 DEF ProcessProof
    <3>2. a \in Auth /\ HasKey(a)
      BY <2>a, <3>1, RequestFields DEF Proving, Keyed
    <3>3. /\ again.step \notin {"prove", "mint", "seed"}
          /\ minting.step = "mint" /\ minting.auth = a
      OBVIOUS
    <3> HIDE DEF minting, again, a
    <3> QED BY <2>b, <3>1, <3>2, <3>3, AnswerKeyed, ProceedUnkeyed, ProceedHandsOn
  <2>10. ASSUME NEW r \in Request, NEW c \in Challenge, Rechallenge(r, c)
         PROVE  Registered'
    BY <2>b, <2>10, AnswerKeyed DEF Rechallenge
  <2>11. ASSUME NEW r \in Request, MintSession(r)
         PROVE  Registered'
    <3> DEFINE a == request[r].auth
               row == request[r].row
               state == [step |-> "seed", auth |-> a, row |-> row, cookie |-> MintedCookie(a, row)]
    <3>1. /\ request[r].step = "mint" /\ cookies' = cookies
          /\ Proceed(r, state) \/ Answer(r)
      BY <2>11 DEF MintSession
    <3>2. a \in Auth /\ HasKey(a)
      BY <2>a, <3>1, RequestFields DEF Minting, Keyed
    <3>3. state.step = "seed" /\ state.auth = a /\ state.cookie.token.auth = a
      BY DEF MintedCookie, NewToken
    <3> HIDE DEF state, a
    <3> QED BY <2>b, <3>1, <3>2, <3>3, ProceedHandsOn, AnswerKeyed
  <2>12. ASSUME NEW r \in Request, NEW c \in Challenge, AnswerProof(r, c)
         PROVE  Registered'
    <3> DEFINE cookie == request[r].cookie
    <3>1. request[r].step = "seed" /\ Answer(r) /\ cookies' = cookies \union {cookie}
      BY <2>12 DEF AnswerProof
    <3>2. request[r].auth \in Auth /\ HasKey(request[r].auth) /\ cookie.token.auth = request[r].auth
      BY <2>a, <3>1, RequestFields DEF Seeding, Keyed
    <3>3. \A b : b = request[r].auth => HasKey(b)'
      BY <3>2, KeyKept
    <3> HIDE DEF cookie
    <3>4. ASSUME NEW k, cookies' = cookies \union {k}, k.token.auth = request[r].auth
          PROVE  KeyedTokens'
      BY <2>a, <3>3, <3>4, KeyedCookie
    <3> QED BY <3>1, <3>2, <3>4, AnswerKeyed
  <2>13. ASSUME NEW r \in Request, Abort(r)
         PROVE  Registered'
    BY <2>b, <2>13, AnswerKeyed DEF Abort
  <2>14. (cookies' = cookies /\ request' = request) => Registered'
    BY RegisteredUnchanged
  <2> QED BY <2>1, <2>2, <2>3, <2>4, <2>5, <2>6, <2>7, <2>8, <2>9, <2>10, <2>11, <2>12,
             <2>13, <2>14
          DEF Next, vars, EndSession, DemandProof, UpdateAccount, DeleteAccount, Tick
<1> QED BY <1>1, <1>2, TypeCorrect, InAccord, PTL DEF Spec

\* A token that says its holder proved a device key belongs to a session for
\* which one was registered: no proof is taken at the word of its own key.
THEOREM DeviceTokenRegistered == Spec => []DeviceTokenHasRegisteredKey
<1>1. Registered => DeviceTokenHasRegisteredKey
  BY DEF Registered, KeyedTokens, HasKey, DeviceTokenHasRegisteredKey
<1> QED BY <1>1, KeysStayRegistered, PTL

-----------------------------------------------------------------------------
(* Who vouches for a token: each one issued says what some handler read of   *)
(* its account, and that handler found the account unlocked.                 *)

\* What a handler has established of the row it holds.
Vouched(state) ==
  /\ state.step \in {"insert authentication", "insert challenge"} => ~state.holder.locked
  /\ state.step = "seed" =>
       /\ ~state.row.holder.locked
       /\ state.cookie.token.account = state.row.account
       /\ state.cookie.token.roles = state.row.holder.roles
       /\ state.cookie.token.method = Dbsc

AllVouched == \A r \in Request : Vouched(request[r])

\* A handler that moves to a state it vouches for,
LEMMA ProceedVouched ==
  ASSUME TypeOK, AllVouched, NEW r \in Request, NEW state, Vouched(state), Proceed(r, state)
  PROVE  AllVouched'
<1>1. ASSUME NEW q \in Request PROVE Vouched(request'[q])
  BY DEF AllVouched, Proceed, TypeOK
<1> QED BY <1>1 DEF AllVouched, Vouched

\* one that moves to a step that says nothing of a row,
LEMMA ProceedUnvouched ==
  ASSUME TypeOK, AllVouched, NEW r \in Request, NEW state,
         state.step \notin {"insert authentication", "insert challenge", "seed"},
         Proceed(r, state)
  PROVE  AllVouched'
<1>1. Vouched(state)
  BY DEF Vouched
<1> QED BY <1>1, ProceedVouched

\* and one that answers.
LEMMA AnswerVouched ==
  ASSUME TypeOK, AllVouched, NEW r \in Request, Answer(r)
  PROVE  AllVouched'
<1>1. Idle.step \notin {"insert authentication", "insert challenge", "seed"}
  BY DEF Idle
<1> QED BY <1>1, ProceedUnvouched DEF Answer

\* Every handler that is about to issue a token found the account unlocked, and
\* the token it has made says what it read.
THEOREM HandlersVouch == Spec => []AllVouched
<1>1. Init => AllVouched
  <2>1. Idle.step = "idle"
    BY DEF Idle
  <2> QED BY <2>1 DEF Init, AllVouched, Vouched
<1>2. TypeOK /\ AllVouched /\ [Next]_vars => AllVouched'
  <2> SUFFICES ASSUME TypeOK, AllVouched, [Next]_vars PROVE AllVouched'
    OBVIOUS
  <2>1. ASSUME NEW r \in Request, NEW x \in Account, NEW method \in SignInMethod,
               NEW t \in IdToken, SelectEmailAddressAccount(r, x, method, t)
        PROVE  AllVouched'
    <3> DEFINE state == [step |-> "insert authentication", account |-> x,
                         holder |-> account[x], method |-> method, idToken |-> t]
    <3>1. ~account[x].locked /\ Proceed(r, state)
      BY <2>1 DEF SelectEmailAddressAccount
    <3>2. Vouched(state)
      BY <3>1 DEF Vouched
    <3> HIDE DEF state
    <3> QED BY <3>1, <3>2, ProceedVouched
  <2>2. ASSUME NEW r \in Request, NEW a \in Auth, InsertAuthentication(r, a)
        PROVE  AllVouched'
    <3> DEFINE state == [step |-> "insert challenge", auth |-> a,
                         account |-> request[r].account, holder |-> request[r].holder,
                         method |-> request[r].method,
                         expiresAt |-> now + AuthenticationDuration]
    <3>1. Proceed(r, state) \/ Answer(r)
      BY <2>2 DEF InsertAuthentication
    <3>2. ~request[r].holder.locked
      BY <2>2 DEF InsertAuthentication, AllVouched, Vouched
    <3>3. Vouched(state)
      BY <3>2 DEF Vouched
    <3> HIDE DEF state
    <3> QED BY <3>1, <3>3, ProceedVouched, AnswerVouched
  <2>3. ASSUME NEW r \in Request,
               \/ \E c \in Challenge : AnswerSignIn(r, c) \/ Rechallenge(r, c) \/ AnswerProof(r, c)
               \/ RefreshSession(r) \/ UpdateAuthenticationWithDbscPublicKey(r) \/ Abort(r)
        PROVE  AllVouched'
    BY <2>3, AnswerVouched
       DEF AnswerSignIn, Rechallenge, AnswerProof, RefreshSession,
           UpdateAuthenticationWithDbscPublicKey, Abort
  <2>4. ASSUME NEW r \in Request, NEW token \in AuthorizedSkippingExp,
               RefreshEndpointRead(r, token) \/ NavigationRefreshRead(r, token)
        PROVE  AllVouched'
    <3> DEFINE state == [step |-> "renew", token |-> token,
                         row |-> SelectRefreshAuthentication(token.auth)]
    <3>1. state.step = "renew" /\ Proceed(r, state)
      BY <2>4 DEF RefreshEndpointRead, NavigationRefreshRead
    <3> HIDE DEF state
    <3> QED BY <3>1, ProceedUnvouched
  <2>5. ASSUME NEW r \in Request, NEW token \in Authorized, NEW key \in Key,
               NEW c \in Challenge, RegisterProof(r, token, key, c)
        PROVE  AllVouched'
    <3> DEFINE state == [step |-> "register", token |-> token, key |-> key, challenge |-> c]
    <3>1. state.step = "register" /\ (Proceed(r, state) \/ request' = request)
      BY <2>5 DEF RegisterProof
    <3> HIDE DEF state
    <3> QED BY <3>1, ProceedUnvouched DEF AllVouched, Vouched
  <2>6. ASSUME NEW r \in Request, NEW a \in Auth, NEW key \in Key, NEW c \in Challenge,
               DbscRefreshRead(r, a, key, c)
        PROVE  AllVouched'
    <3> DEFINE state == [step |-> "prove", auth |-> a, row |-> SelectRefreshAuthentication(a),
                         key |-> key, challenge |-> c]
    <3>1. state.step = "prove" /\ Proceed(r, state)
      BY <2>6 DEF DbscRefreshRead
    <3> HIDE DEF state
    <3> QED BY <3>1, ProceedUnvouched
  <2>7. ASSUME NEW r \in Request, ProcessProof(r)
        PROVE  AllVouched'
    <3> DEFINE a == request[r].auth
               minting == [step |-> "mint", auth |-> a, row |-> request[r].row,
                           challenge |-> request[r].challenge]
               again == [step |-> "rechallenge", auth |-> a]
    <3>1. Answer(r) \/ Proceed(r, again) \/ Proceed(r, minting)
      BY <2>7 DEF ProcessProof
    <3>2. again.step = "rechallenge" /\ minting.step = "mint"
      OBVIOUS
    <3> HIDE DEF minting, again
    <3> QED BY <3>1, <3>2, ProceedUnvouched, AnswerVouched
  <2>8. ASSUME NEW r \in Request, MintSession(r)
        PROVE  AllVouched'
    <3> DEFINE a == request[r].auth
               row == request[r].row
               state == [step |-> "seed", auth |-> a, row |-> row, cookie |-> MintedCookie(a, row)]
    <3>1. Answer(r) \/ (VerifyAuthentication(row) /\ Proceed(r, state))
      BY <2>8 DEF MintSession
    <3>2. VerifyAuthentication(row) => Vouched(state)
      BY DEF Vouched, VerifyAuthentication, MintedCookie, NewToken
    <3> HIDE DEF state
    <3> QED BY <3>1, <3>2, ProceedVouched, AnswerVouched
  <2>9. request' = request => AllVouched'
    BY DEF AllVouched, Vouched
  <2> QED BY <2>1, <2>2, <2>3, <2>4, <2>5, <2>6, <2>7, <2>8, <2>9
          DEF Next, vars, EndSession, DemandProof, UpdateAccount, DeleteAccount, Tick
<1> QED BY <1>1, <1>2, TypeCorrect, PTL DEF Spec

\* The steps that issue a token, and which.
LEMMA Issues ==
  ASSUME TypeOK, Accord, [Next]_vars, NEW token \in Presented' \ Presented
  PROVE  \E r \in Request :
           \/ /\ request[r].step = "insert challenge"
              /\ token = CreatedCookie(request[r]).token
           \/ /\ request[r].step = "renew"
              /\ VerifyAuthentication(request[r].row) /\ ~IdleTooLong(request[r].token)
              /\ token = RefreshedToken(request[r].token, request[r].row)
           \/ /\ request[r].step = "seed"
              /\ token = request[r].cookie.token
<1> DEFINE Issued(r) ==
      \/ request[r].step = "insert challenge" /\ token = CreatedCookie(request[r]).token
      \/ /\ request[r].step = "renew"
         /\ VerifyAuthentication(request[r].row) /\ ~IdleTooLong(request[r].token)
         /\ token = RefreshedToken(request[r].token, request[r].row)
      \/ request[r].step = "seed" /\ token = request[r].cookie.token
<1>1. cookies' # cookies
  BY DEF Presented
<1>2. ASSUME NEW cookie, cookies' = cookies \union {cookie}
      PROVE  token = cookie.token
  BY <1>2 DEF Presented
<1>3. ASSUME NEW r \in Request, NEW c \in Challenge, AnswerSignIn(r, c)
      PROVE  Issued(r)
  BY <1>2, <1>3 DEF AnswerSignIn
<1>4. ASSUME NEW r \in Request, RefreshSession(r)
      PROVE  Issued(r)
  <2> DEFINE fresh == RefreshedToken(request[r].token, request[r].row)
             cookie == [token |-> fresh, expiresAt |-> request[r].row.expiresAt]
  <2>1. /\ request[r].step = "renew" /\ cookies' = cookies \union {cookie}
        /\ VerifyAuthentication(request[r].row) /\ ~IdleTooLong(request[r].token)
    BY <1>1, <1>4 DEF RefreshSession
  <2>2. cookie.token = fresh
    OBVIOUS
  <2> HIDE DEF cookie
  <2> QED BY <1>2, <2>1, <2>2
<1>5. ASSUME NEW r \in Request, NEW c \in Challenge, AnswerProof(r, c)
      PROVE  Issued(r)
  BY <1>2, <1>5 DEF AnswerProof
<1>6. ASSUME NEW r \in Request, UpdateAuthenticationWithDbscPublicKey(r)
      PROVE  FALSE
  <2> DEFINE old == request[r].token
             cookie == [token |-> old, expiresAt |-> old.expiresAt]
  <2>1. old \in Presented /\ cookie.token = old /\ cookies' = cookies \union {cookie}
    BY <1>1, <1>6 DEF UpdateAuthenticationWithDbscPublicKey, Accord, Sound
  <2> HIDE DEF cookie, old
  <2> QED BY <1>2, <2>1
<1>7. \E r \in Request : Issued(r)
  <2> HIDE DEF Issued
  <2> QED BY <1>1, <1>3, <1>4, <1>5, <1>6
     DEF Next, vars, tables, SelectEmailAddressAccount, InsertAuthentication,
         RefreshEndpointRead, NavigationRefreshRead, EndSession, RegisterProof, DemandProof,
         DbscRefreshRead, ProcessProof, Rechallenge, MintSession, Abort, UpdateAccount,
         DeleteAccount, Tick
<1> QED BY <1>7

\* A handler that held the token's account unlocked, and with the token's roles.
LEMMA IssuedFromHeld ==
  ASSUME TypeOK, Accord, AllVouched, [Next]_vars, NEW x \in Account, NEW token \in NewTokens(x)
  PROVE  \E h \in Held(x) : ~h.locked /\ h.roles = token.roles
<1>1. token \in Presented' \ Presented /\ token.account = x
  BY DEF NewTokens
<1>2. ASSUME NEW r \in Request, NEW h \in HeldRows(request[r], x)
      PROVE  h \in Held(x)
  BY <1>2 DEF Held
<1>3. ASSUME NEW r \in Request, request[r].step = "insert challenge",
             token = CreatedCookie(request[r]).token
      PROVE  \E h \in Held(x) : ~h.locked /\ h.roles = token.roles
  <2>1. token.account = request[r].account /\ token.roles = request[r].holder.roles
    BY <1>3 DEF CreatedCookie, NewToken
  <2>2. request[r].holder \in HeldRows(request[r], x)
    BY <1>1, <1>3, <2>1 DEF HeldRows
  <2>3. ~request[r].holder.locked
    BY <1>3 DEF AllVouched, Vouched
  <2> QED BY <1>2, <2>1, <2>2, <2>3
<1>4. ASSUME NEW r \in Request, request[r].step = "renew", VerifyAuthentication(request[r].row),
             token = RefreshedToken(request[r].token, request[r].row)
      PROVE  \E h \in Held(x) : ~h.locked /\ h.roles = token.roles
  <2> DEFINE old == request[r].token
             row == request[r].row
  <2>1. old \in Token
    BY <1>4, RequestFields DEF Renewing
  <2>2. token.account = old.account /\ token.roles = row.holder.roles
    BY <1>4, <2>1 DEF RefreshedToken, Token
  <2>3. old \in Presented /\ Agrees(old.auth, row.account, row.expiresAt)
    BY <1>4 DEF Accord, Sound
  <2>4. old.account = row.account
    BY <2>3 DEF Presented, Accord, TokensWithinAuthentication, Within, Agrees
  <2>5. row.holder \in HeldRows(request[r], x)
    BY <1>1, <1>4, <2>2, <2>4 DEF HeldRows, RowSteps
  <2>6. ~row.holder.locked
    BY <1>4 DEF VerifyAuthentication
  <2> QED BY <1>2, <2>2, <2>5, <2>6
<1>5. ASSUME NEW r \in Request, request[r].step = "seed", token = request[r].cookie.token
      PROVE  \E h \in Held(x) : ~h.locked /\ h.roles = token.roles
  <2> DEFINE row == request[r].row
  <2>1. ~row.holder.locked /\ token.account = row.account /\ token.roles = row.holder.roles
    BY <1>5 DEF AllVouched, Vouched
  <2>2. row.holder \in HeldRows(request[r], x)
    BY <1>1, <1>5, <2>1 DEF HeldRows, RowSteps
  <2> QED BY <1>2, <2>1, <2>2
<1> QED BY <1>1, <1>3, <1>4, <1>5, Issues

\* Locking an account stops every way of issuing its tokens, but for handlers
\* that read the account before.
THEOREM LockEndsIssue == Spec => LockStopsIssue
<1>1. TypeOK /\ Accord /\ AllVouched /\ [Next]_vars
      => [\A x \in Account :
            account[x].locked /\ (\A h \in Held(x) : h.locked) => NewTokens(x) = {}]_vars
  BY IssuedFromHeld
<1> QED BY <1>1, TypeCorrect, InAccord, HandlersVouch, PTL DEF Spec, LockStopsIssue

\* A token issued says the roles of the account row as some handler in flight
\* read it, never those of the token it renews.
THEOREM RolesFollow == Spec => RolesFollowAccount
<1>1. TypeOK /\ Accord /\ AllVouched /\ [Next]_vars
      => [\A x \in Account : \A token \in NewTokens(x) :
            \/ token.roles = account[x].roles
            \/ \E h \in Held(x) : h.roles = token.roles]_vars
  BY IssuedFromHeld
<1> QED BY <1>1, TypeCorrect, InAccord, HandlersVouch, PTL DEF Spec, RolesFollowAccount

-----------------------------------------------------------------------------
(* Sessions bound to a device, and sessions left idle: arguments about one   *)
(* step, like the one about revocation.                                      *)

\* Where the tokens of an authentication come from: a sign-in, a renewal of one
\* of its own tokens, or a proof.
LEMMA IssuedFor ==
  ASSUME TypeOK, Accord, AllVouched, [Next]_vars, NEW a \in Auth,
         NEW token \in TokensOf(a)', token \notin TokensOf(a)
  PROVE  \/ \E r \in Request : request[r].step = "insert challenge" /\ request[r].auth = a
         \/ \E r \in Request : /\ request[r].step = "renew"
                               /\ request[r].token \in TokensOf(a)
                               /\ ~IdleTooLong(request[r].token)
         \/ \E r \in Request : /\ request[r].step = "seed" /\ request[r].auth = a
                               /\ token.method = Dbsc
<1>1. token \in Presented' \ Presented /\ token.auth = a
  BY DEF TokensOf
<1>2. ASSUME NEW r \in Request, request[r].step = "insert challenge",
             token = CreatedCookie(request[r]).token
      PROVE  request[r].auth = a
  BY <1>1, <1>2 DEF CreatedCookie, NewToken
<1>3. ASSUME NEW r \in Request, request[r].step = "renew",
             token = RefreshedToken(request[r].token, request[r].row)
      PROVE  request[r].token \in TokensOf(a)
  <2> DEFINE old == request[r].token
  <2>1. old \in Token /\ old \in Presented
    BY <1>3, RequestFields DEF Renewing, Accord, Sound
  <2>2. token.auth = old.auth
    BY <1>3, <2>1 DEF RefreshedToken, Token
  <2> QED BY <1>1, <2>1, <2>2 DEF TokensOf
<1>4. ASSUME NEW r \in Request, request[r].step = "seed", token = request[r].cookie.token
      PROVE  request[r].auth = a /\ token.method = Dbsc
  BY <1>1, <1>4 DEF Accord, Sound, AllVouched, Vouched
<1> QED BY <1>1, <1>2, <1>3, <1>4, Issues

\* The steps that begin to serve an authentication or to register a key for it,
\* and what each of them has seen.
Arrives(state, a) ==
  \/ state.step \in {"insert challenge", "prove", "mint", "seed"} /\ state.auth = a
  \/ state.step \in {"renew", "register"} /\ state.token.auth = a

\* A handler that comes to serve an authentication had reason to: it creates it, it
\* was shown one of its tokens, it found a key, or it served it before.
LEMMA Arrivals ==
  ASSUME TypeOK, Accord, [Next]_vars, NEW a \in Auth, NEW q \in Request,
         Arrives(request'[q], a), request'[q] # request[q]
  PROVE  \/ request'[q].step = "insert challenge" /\ authentication[a] = Absent
         \/ /\ request'[q].step = "renew"
            /\ \E token \in TokensOf(a) :
                 /\ token.method # Dbsc
                 /\ token.method = Sso => authentication[a].key = NoKey
         \/ /\ request'[q].step = "register"
            /\ \E token \in TokensOf(a) : now <= token.expiresAt
         \/ request'[q].step = "prove" /\ HasKey(a)
         \/ /\ request'[q].step \in {"mint", "seed"}
            /\ request[q].step \in {"prove", "mint"} /\ request[q].auth = a
<1> DEFINE Goal ==
      \/ request'[q].step = "insert challenge" /\ authentication[a] = Absent
      \/ /\ request'[q].step = "renew"
         /\ \E token \in TokensOf(a) :
              token.method # Dbsc /\ (token.method = Sso => authentication[a].key = NoKey)
      \/ /\ request'[q].step = "register"
         /\ \E token \in TokensOf(a) : now <= token.expiresAt
      \/ request'[q].step = "prove" /\ HasKey(a)
      \/ /\ request'[q].step \in {"mint", "seed"}
         /\ request[q].step \in {"prove", "mint"} /\ request[q].auth = a
<1>1. ASSUME NEW r \in Request, NEW state, Proceed(r, state)
      PROVE  q = r /\ request'[q] = state
  BY <1>1 DEF Proceed, TypeOK
<1>2. ASSUME NEW r \in Request, NEW state, Proceed(r, state), ~Arrives(state, a)
      PROVE  Goal
  BY <1>1, <1>2
<1>3. ASSUME NEW r \in Request, Answer(r)
      PROVE  Goal
  <2>1. ~Arrives(Idle, a)
    BY DEF Arrives, Idle
  <2> QED BY <1>2, <1>3, <2>1 DEF Answer
<1>4. ASSUME NEW r \in Request, NEW x \in Account, NEW method \in SignInMethod,
             NEW t \in IdToken, SelectEmailAddressAccount(r, x, method, t)
      PROVE  Goal
  <2> DEFINE state == [step |-> "insert authentication", account |-> x,
                       holder |-> account[x], method |-> method, idToken |-> t]
  <2>1. Proceed(r, state) /\ state.step = "insert authentication"
    BY <1>4 DEF SelectEmailAddressAccount
  <2> HIDE DEF state
  <2>2. ~Arrives(state, a)
    BY <2>1 DEF Arrives
  <2> QED BY <1>2, <2>1, <2>2
<1>5. ASSUME NEW r \in Request, NEW b \in Auth, InsertAuthentication(r, b)
      PROVE  Goal
  <2> DEFINE state == [step |-> "insert challenge", auth |-> b,
                       account |-> request[r].account, holder |-> request[r].holder,
                       method |-> request[r].method,
                       expiresAt |-> now + AuthenticationDuration]
  <2>1. Answer(r) \/ (Proceed(r, state) /\ authentication[b] = Absent)
    BY <1>5 DEF InsertAuthentication
  <2>2. state.step = "insert challenge" /\ state.auth = b
    OBVIOUS
  <2> HIDE DEF state
  <2>3. CASE Proceed(r, state) /\ authentication[b] = Absent
    BY <1>1, <2>2, <2>3 DEF Arrives
  <2> HIDE DEF Goal
  <2> QED BY <1>3, <2>1, <2>3
<1>6. ASSUME NEW r \in Request, NEW token \in AuthorizedSkippingExp,
             RefreshEndpointRead(r, token) \/ NavigationRefreshRead(r, token)
      PROVE  Goal
  <2> DEFINE state == [step |-> "renew", token |-> token,
                       row |-> SelectRefreshAuthentication(token.auth)]
  <2>1. /\ Proceed(r, state) /\ token.method # Dbsc
        /\ token.method = Sso => authentication[token.auth].key = NoKey
    BY <1>6 DEF RefreshEndpointRead, NavigationRefreshRead
  <2>2. state.step = "renew" /\ state.token = token
    OBVIOUS
  <2>3. token \in Presented
    BY DEF AuthorizedSkippingExp
  <2> HIDE DEF state
  <2>4. token.auth = a
    BY <1>1, <2>1, <2>2 DEF Arrives
  <2> QED BY <1>1, <2>1, <2>2, <2>3, <2>4 DEF TokensOf
<1>7. ASSUME NEW r \in Request, NEW token \in Authorized, NEW key \in Key,
             NEW c \in Challenge, RegisterProof(r, token, key, c)
      PROVE  Goal
  <2> DEFINE state == [step |-> "register", token |-> token, key |-> key, challenge |-> c]
  <2>1. Proceed(r, state)
    BY <1>7 DEF RegisterProof
  <2>2. state.step = "register" /\ state.token = token
    OBVIOUS
  <2>3. token \in Presented /\ now <= token.expiresAt
    BY DEF Authorized
  <2> HIDE DEF state
  <2>4. token.auth = a
    BY <1>1, <2>1, <2>2 DEF Arrives
  <2> QED BY <1>1, <2>1, <2>2, <2>3, <2>4 DEF TokensOf
<1>8. ASSUME NEW r \in Request, NEW b \in Auth, NEW key \in Key, NEW c \in Challenge,
             DbscRefreshRead(r, b, key, c)
      PROVE  Goal
  <2> DEFINE state == [step |-> "prove", auth |-> b, row |-> SelectRefreshAuthentication(b),
                       key |-> key, challenge |-> c]
  <2>1. Proceed(r, state) /\ HasKey(b)
    BY <1>8 DEF DbscRefreshRead, Stored, HasKey
  <2>2. state.step = "prove" /\ state.auth = b
    OBVIOUS
  <2> HIDE DEF state
  <2> QED BY <1>1, <2>1, <2>2 DEF Arrives
<1>9. ASSUME NEW r \in Request, ProcessProof(r)
      PROVE  Goal
  <2> DEFINE b == request[r].auth
             minting == [step |-> "mint", auth |-> b, row |-> request[r].row,
                         challenge |-> request[r].challenge]
             again == [step |-> "rechallenge", auth |-> b]
  <2>1. /\ request[r].step = "prove"
        /\ Answer(r) \/ Proceed(r, again) \/ Proceed(r, minting)
    BY <1>9 DEF ProcessProof
  <2>2. again.step = "rechallenge" /\ minting.step = "mint" /\ minting.auth = b
    OBVIOUS
  <2>3. CASE Answer(r)
    BY <1>3, <2>3
  <2> HIDE DEF minting, again
  <2>4. CASE Proceed(r, again)
    BY <1>2, <2>2, <2>4 DEF Arrives
  <2>5. CASE Proceed(r, minting)
    BY <1>1, <2>1, <2>2, <2>5 DEF Arrives
  <2> QED BY <2>1, <2>3, <2>4, <2>5
<1>10. ASSUME NEW r \in Request, MintSession(r)
       PROVE  Goal
  <2> DEFINE b == request[r].auth
             row == request[r].row
             state == [step |-> "seed", auth |-> b, row |-> row, cookie |-> MintedCookie(b, row)]
  <2>1. request[r].step = "mint" /\ (Answer(r) \/ Proceed(r, state))
    BY <1>10 DEF MintSession
  <2>2. state.step = "seed" /\ state.auth = b
    OBVIOUS
  <2>3. CASE Answer(r)
    BY <1>3, <2>3
  <2> HIDE DEF state
  <2>4. CASE Proceed(r, state)
    BY <1>1, <2>1, <2>2, <2>4 DEF Arrives
  <2> QED BY <2>1, <2>3, <2>4
<1>11. Goal
  <2> HIDE DEF Goal
  <2> QED BY <1>3, <1>4, <1>5, <1>6, <1>7, <1>8, <1>9, <1>10
     DEF Next, vars, tables, AnswerSignIn, RefreshSession, EndSession, Rechallenge, AnswerProof,
         UpdateAuthenticationWithDbscPublicKey, DemandProof, Abort, UpdateAccount,
         DeleteAccount, Tick
<1> QED BY <1>11

\* A session signed in by SSO and bound to a device before its first renewal
\* is from then on renewed by proofs of the device key alone.
THEOREM StaysDeviceBound == Spec => SsoSessionStaysDeviceBound
<1>1. ASSUME TypeOK, Accord, AllVouched, [Next]_vars, NEW a \in Auth, DeviceBound(a)
      PROVE  DeviceBound(a)'
  <2>1. /\ HasKey(a)
        /\ \A token \in TokensOf(a) : token.method \in {Sso, Dbsc}
        /\ \A r \in Request : request[r].step # "renew" \/ request[r].token.auth # a
        /\ \A r \in Request : request[r].step # "insert challenge" \/ request[r].auth # a
    BY <1>1 DEF DeviceBound, HasKey
  <2>2. HasKey(a)'
    BY <1>1, <2>1, KeyKept
  <2>3. \A token \in TokensOf(a)' : token.method \in {Sso, Dbsc}
    <3>1. \A t \in TokensOf(a) : t.auth = a
      BY DEF TokensOf
    <3>2. \A r \in Request : /\ ~(request[r].step = "insert challenge" /\ request[r].auth = a)
                            /\ ~(request[r].step = "renew" /\ request[r].token \in TokensOf(a))
      BY <2>1, <3>1
    <3>3. \A token \in TokensOf(a)' : token \notin TokensOf(a) => token.method = Dbsc
      <4> SUFFICES ASSUME NEW token \in TokensOf(a)', token \notin TokensOf(a)
                   PROVE  token.method = Dbsc
        OBVIOUS
      <4>1. \/ \E r \in Request : request[r].step = "insert challenge" /\ request[r].auth = a
            \/ \E r \in Request : request[r].step = "renew" /\ request[r].token \in TokensOf(a)
            \/ token.method = Dbsc
        BY <1>1, IssuedFor
      <4> QED BY <3>2, <4>1
    <3> QED BY <2>1, <3>3
  <2>4. ASSUME NEW q \in Request
        PROVE  /\ request'[q].step # "renew" \/ request'[q].token.auth # a
               /\ request'[q].step # "insert challenge" \/ request'[q].auth # a
    <3>1. CASE request'[q] = request[q]
      BY <2>1, <3>1
    <3>2. CASE request'[q] # request[q]
      BY <1>1, <2>1, <3>2, Arrivals DEF Arrives, HasKey
    <3> QED BY <3>1, <3>2
  <2> QED BY <2>2, <2>3, <2>4 DEF DeviceBound, HasKey
<1>2. TypeOK /\ Accord /\ AllVouched /\ [Next]_vars
      => [\A a \in Auth : DeviceBound(a) => DeviceBound(a)']_vars
  BY <1>1
<1> QED BY <1>2, TypeCorrect, InAccord, HandlersVouch, PTL DEF Spec, SsoSessionStaysDeviceBound

\* Where an idle bound is set, a session without a device key whose every token
\* has been expired for longer is over.
THEOREM IdleIsOver == Spec => IdleSessionIsOver
<1>1. ASSUME TypeOK, Accord, AllVouched, [Next]_vars, NEW a \in Auth, IdleOver(a)
      PROVE  IdleOver(a)'
  <2> USE <1>1, DurationAssumption
  <2>1. /\ IdleDuration > 0 /\ authentication[a] # Absent /\ authentication[a].key = NoKey
        /\ \A token \in TokensOf(a) : now > token.expiresAt + IdleDuration
        /\ \A r \in Request : Serves(request[r], a) => request[r].step = "renew"
        /\ \A r \in Request : request[r].step = "register" => request[r].token.auth # a
    BY DEF IdleOver
  <2>2. now \in Nat /\ now' \in Nat /\ now <= now' /\ authentication'[a] # Absent
    BY <2>1, RowsKept DEF TypeOK
  <2>3. authentication'[a].key = NoKey
    <3>1. authentication[a] \in AuthenticationRow
      BY <2>1, ReadIsSnapshot
    <3>2. ASSUME NEW r \in Request, NEW b \in Auth, InsertAuthentication(r, b)
          PROVE  authentication'[a].key = NoKey
      BY <2>1, <3>2 DEF InsertAuthentication, TypeOK
    <3>3. ASSUME NEW r \in Request, UpdateAuthenticationWithDbscPublicKey(r)
          PROVE  authentication'[a].key = NoKey
      BY <2>1, <3>3 DEF UpdateAuthenticationWithDbscPublicKey, TypeOK
    <3>4. ASSUME NEW token \in Authorized, EndSession(token)
          PROVE  authentication'[a].key = NoKey
      BY <2>1, <3>1, <3>4 DEF EndSession, AuthenticationRow, TypeOK
    <3>5. ASSUME NEW x \in Account, DeleteAccount(x)
          PROVE  authentication'[a].key = NoKey
      BY <2>1, <3>1, <3>5 DEF DeleteAccount, AuthenticationRow
    <3>6. authentication' = authentication => authentication'[a].key = NoKey
      BY <2>1
    <3> QED BY <3>2, <3>3, <3>4, <3>5, <3>6
       DEF Next, vars, tables, SelectEmailAddressAccount, AnswerSignIn, RefreshEndpointRead,
           NavigationRefreshRead, RefreshSession, RegisterProof, DemandProof, DbscRefreshRead,
           ProcessProof, Rechallenge, MintSession, AnswerProof, Abort, UpdateAccount, Tick
  <2>4. \A token \in TokensOf(a) : token.expiresAt \in Nat
    BY PresentedAreTokens DEF TokensOf, Token
  <2>5. \A token \in TokensOf(a) : IdleTooLong(token)
    BY <2>1, <2>2, <2>4 DEF IdleTooLong
  <2>6. TokensOf(a)' \subseteq TokensOf(a)
    <3>1. ASSUME NEW r \in Request
          PROVE  /\ ~(request[r].step = "insert challenge" /\ request[r].auth = a)
                 /\ ~(request[r].step = "seed" /\ request[r].auth = a)
      BY <2>1 DEF Serves
    <3> QED BY <2>5, <3>1, IssuedFor
  <2>7. \A token \in TokensOf(a)' : now' > token.expiresAt + IdleDuration
    BY <2>1, <2>2, <2>4, <2>6
  <2>8. ASSUME NEW q \in Request
        PROVE  /\ Serves(request'[q], a) => request'[q].step = "renew"
               /\ request'[q].step = "register" => request'[q].token.auth # a
    <3>1. CASE request'[q] = request[q]
      BY <2>1, <3>1
    <3>2. CASE request'[q] # request[q]
      <4>1. \A token \in TokensOf(a) : ~(now <= token.expiresAt)
        BY <2>1, <2>2, <2>4
      <4>2. ~(request[q].step \in {"prove", "mint"} /\ request[q].auth = a)
        BY <2>1 DEF Serves
      <4> QED BY <2>1, <3>2, <4>1, <4>2, Arrivals DEF Arrives, Serves, HasKey
    <3> QED BY <3>1, <3>2
  <2> QED BY <2>1, <2>2, <2>3, <2>7, <2>8 DEF IdleOver, Serves
<1>2. TypeOK /\ Accord /\ AllVouched /\ [Next]_vars
      => [\A a \in Auth : IdleOver(a) => IdleOver(a)']_vars
  BY <1>1
<1> QED BY <1>2, TypeCorrect, InAccord, HandlersVouch, PTL DEF Spec, IdleSessionIsOver

=============================================================================
