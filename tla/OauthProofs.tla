---------------------------- MODULE OauthProofs ----------------------------
(***************************************************************************)
(* Theorems about the authorization server, for every value of the         *)
(* constants: of its grants and refresh tokens, of the consents these rest *)
(* on (both of Oauth), and of where its clients may be sent (Clients).     *)
(***************************************************************************)
EXTENDS Oauth, Clients, TLAPS

-----------------------------------------------------------------------------
\* Handlers.

\* The step a handler is at says which fields it has.
LEMMA StateFields ==
  ASSUME TypeOK, NEW r \in Request
  PROVE  /\ request[r] \in RequestState
         /\ request[r].step = "insert code" => request[r] \in Deciding
         /\ request[r].step \in {"check grant", "insert grant"} => request[r] \in Redeeming
         /\ request[r].step \in {"select", "ask", "spend"} => request[r] \in Refreshing
         /\ request[r].step = "revoke" => request[r] \in Revoking
<1>1. /\ \A x \in Deciding : x.step = "insert code"
      /\ \A x \in Redeeming : x.step \in {"check grant", "insert grant"}
      /\ \A x \in Refreshing : x.step \in {"select", "ask", "spend"}
      /\ \A x \in Revoking : x.step = "revoke"
      /\ Idle.step = "idle"
  BY DEF Deciding, Redeeming, Refreshing, Revoking, Idle
<1>2. request[r] \in RequestState
  BY DEF TypeOK
<1> QED
  BY <1>1, <1>2 DEF RequestState

LEMMA ProceedTo ==
  ASSUME TypeOK, NEW r \in Request, NEW state \in RequestState, Proceed(r, state)
  PROVE  /\ request' \in [Request -> RequestState]
         /\ request'[r] = state
         /\ \A s \in Request : s # r => request'[s] = request[s]
BY DEF TypeOK, Proceed

LEMMA AnswerTo ==
  ASSUME TypeOK, NEW r \in Request, Answer(r)
  PROVE  /\ request' \in [Request -> RequestState]
         /\ request'[r] = Idle /\ request'[r].step = "idle"
         /\ \A s \in Request : s # r => request'[s] = request[s]
<1>1. Idle \in RequestState /\ Idle.step = "idle"
  BY DEF RequestState, Idle
<1> QED
  BY <1>1, ProceedTo DEF Answer

\* Moving to the next step keeps what the handler holds.
LEMMA NextStep ==
  ASSUME NEW state \in Redeeming \union Refreshing, NEW step,
         state \in Redeeming => step \in {"check grant", "insert grant"},
         state \in Refreshing => step \in {"select", "ask", "spend"}
  PROVE  /\ [state EXCEPT !.step = step] \in RequestState
         /\ [state EXCEPT !.step = step].step = step
         /\ state \in Redeeming =>
              /\ [state EXCEPT !.step = step] \in Redeeming
              /\ [state EXCEPT !.step = step].code = state.code
              /\ [state EXCEPT !.step = step].createdAt = state.createdAt
         /\ state \in Refreshing =>
              /\ [state EXCEPT !.step = step] \in Refreshing
              /\ [state EXCEPT !.step = step].token = state.token
              /\ [state EXCEPT !.step = step].client = state.client
              /\ [state EXCEPT !.step = step].scope = state.scope
              /\ [state EXCEPT !.step = step].start = state.start
<1>1. CASE state \in Redeeming
  <2>1. state \notin Refreshing
    BY <1>1 DEF Redeeming, Refreshing
  <2> QED
    BY <1>1, <2>1 DEF Redeeming, RequestState
<1>2. CASE state \in Refreshing
  <2>1. state \notin Redeeming
    BY <1>2 DEF Redeeming, Refreshing
  <2> QED
    BY <1>2, <2>1 DEF Refreshing, RequestState
<1> QED
  BY <1>1, <1>2

-----------------------------------------------------------------------------
\* Tables.  What each write does to the rows, field by field.

LEMMA RowsAreNotAbsent ==
  /\ \A row \in AuthorizationRequestRow : row # Absent
  /\ \A row \in CodeRow : row # Absent
  /\ \A row \in GrantRow : row # Absent
  /\ \A row \in RefreshTokenRow : row # Absent
BY AbsentRowAssumption

LEMMA RowTypes ==
  ASSUME TypeOK
  PROVE  /\ \A q \in AuthorizationRequest :
              authorizationRequest[q] # Absent => authorizationRequest[q] \in AuthorizationRequestRow
         /\ \A c \in Code : code[c] # Absent => code[c] \in CodeRow
         /\ \A g \in Grant : grant[g] # Absent => grant[g] \in GrantRow
         /\ \A t \in RefreshToken :
              refreshToken[t] # Absent => refreshToken[t] \in RefreshTokenRow
BY DEF TypeOK

LEMMA RevokedRow ==
  ASSUME NEW row \in GrantRow
  PROVE  /\ [row EXCEPT !.revoked = TRUE] \in GrantRow
         /\ [row EXCEPT !.revoked = TRUE].revoked
         /\ [row EXCEPT !.revoked = TRUE].account = row.account
         /\ [row EXCEPT !.revoked = TRUE].client = row.client
         /\ [row EXCEPT !.revoked = TRUE].resource = row.resource
         /\ [row EXCEPT !.revoked = TRUE].scope = row.scope
         /\ [row EXCEPT !.revoked = TRUE].createdAt = row.createdAt
         /\ [row EXCEPT !.revoked = TRUE].code = row.code
BY DEF GrantRow

LEMMA SpentRow ==
  ASSUME NEW row \in RefreshTokenRow
  PROVE  /\ [row EXCEPT !.spent = TRUE] \in RefreshTokenRow
         /\ [row EXCEPT !.spent = TRUE].spent
         /\ [row EXCEPT !.spent = TRUE].grant = row.grant
         /\ [row EXCEPT !.spent = TRUE].expiresAt = row.expiresAt
BY DEF RefreshTokenRow

LEMMA RemovedRequest ==
  ASSUME NEW row \in AuthorizationRequestRow
  PROVE  /\ [row EXCEPT !.stored = FALSE] \in AuthorizationRequestRow
         /\ ~[row EXCEPT !.stored = FALSE].stored
         /\ [row EXCEPT !.stored = FALSE].account = row.account
         /\ [row EXCEPT !.stored = FALSE].client = row.client
         /\ [row EXCEPT !.stored = FALSE].resource = row.resource
         /\ [row EXCEPT !.stored = FALSE].scope = row.scope
         /\ [row EXCEPT !.stored = FALSE].allowedBy = row.allowedBy
BY DEF AuthorizationRequestRow

LEMMA RemovedCode ==
  ASSUME NEW row \in CodeRow
  PROVE  /\ [row EXCEPT !.stored = FALSE] \in CodeRow
         /\ ~[row EXCEPT !.stored = FALSE].stored
         /\ [row EXCEPT !.stored = FALSE].account = row.account
         /\ [row EXCEPT !.stored = FALSE].client = row.client
         /\ [row EXCEPT !.stored = FALSE].resource = row.resource
         /\ [row EXCEPT !.stored = FALSE].scope = row.scope
         /\ [row EXCEPT !.stored = FALSE].request = row.request
BY DEF CodeRow

\* A request or a code is kept: the same but that it may have been removed.
SameRequest(row, old) ==
  /\ row \in AuthorizationRequestRow
  /\ row.account = old.account /\ row.client = old.client
  /\ row.resource = old.resource /\ row.scope = old.scope
  /\ row.allowedBy = old.allowedBy
  /\ row.stored => old.stored
SameCode(row, old) ==
  /\ row \in CodeRow
  /\ row.account = old.account /\ row.client = old.client
  /\ row.resource = old.resource /\ row.scope = old.scope
  /\ row.request = old.request
  /\ row.stored => old.stored

LEMMA UnexpiredRequests ==
  ASSUME TypeOK, NEW q \in AuthorizationRequest
  PROVE  LET row == Unexpired(authorizationRequest, AuthorizationRequest)[q] IN
         /\ authorizationRequest[q] = Absent => row = Absent
         /\ authorizationRequest[q] # Absent => SameRequest(row, authorizationRequest[q])
<1> DEFINE row == Unexpired(authorizationRequest, AuthorizationRequest)[q]
           old == authorizationRequest[q]
<1>1. row = IF old # Absent /\ old.expiresAt < now
            THEN [old EXCEPT !.stored = FALSE] ELSE old
  BY DEF Unexpired
<1>2. old # Absent => old \in AuthorizationRequestRow
  BY RowTypes
<1> HIDE DEF row, old
<1>3. old # Absent => SameRequest(row, old)
  <2>1. CASE old # Absent /\ old.expiresAt < now
    BY <1>1, <1>2, <2>1, RemovedRequest DEF SameRequest
  <2>2. CASE ~(old # Absent /\ old.expiresAt < now)
    BY <1>1, <1>2, <2>2 DEF SameRequest
  <2> QED
    BY <2>1, <2>2
<1> QED
  BY <1>1, <1>3 DEF row, old

LEMMA UnexpiredCodes ==
  ASSUME TypeOK, NEW c \in Code
  PROVE  LET row == Unexpired(code, Code)[c] IN
         /\ code[c] = Absent => row = Absent
         /\ code[c] # Absent => SameCode(row, code[c])
<1> DEFINE row == Unexpired(code, Code)[c]
           old == code[c]
<1>1. row = IF old # Absent /\ old.expiresAt < now
            THEN [old EXCEPT !.stored = FALSE] ELSE old
  BY DEF Unexpired
<1>2. old # Absent => old \in CodeRow
  BY RowTypes
<1> HIDE DEF row, old
<1>3. old # Absent => SameCode(row, old)
  <2>1. CASE old # Absent /\ old.expiresAt < now
    BY <1>1, <1>2, <2>1, RemovedCode DEF SameCode
  <2>2. CASE ~(old # Absent /\ old.expiresAt < now)
    BY <1>1, <1>2, <2>2 DEF SameCode
  <2> QED
    BY <2>1, <2>2
<1> QED
  BY <1>1, <1>3 DEF row, old

-----------------------------------------------------------------------------
\* What each call that writes leaves in the tables.

LEMMA AuthorizeEffect ==
  ASSUME TypeOK, NEW q \in AuthorizationRequest, NEW subject \in Account,
         NEW client \in Client, NEW name \in Resource \union {Unnamed},
         NEW scope \in SUBSET Scope, Authorize(q, subject, client, name, scope)
  PROVE  /\ authorizationRequest' \in
              [AuthorizationRequest -> AuthorizationRequestRow \union {Absent}]
         /\ authorizationRequest[q] = Absent /\ authorizationRequest'[q] # Absent
         /\ \A p \in AuthorizationRequest : p # q =>
              /\ authorizationRequest[p] = Absent => authorizationRequest'[p] = Absent
              /\ authorizationRequest[p] # Absent =>
                   SameRequest(authorizationRequest'[p], authorizationRequest[p])
<1> DEFINE kept == Unexpired(authorizationRequest, AuthorizationRequest)
<1>1. PICK resource \in NamedResource(name) :
        /\ ScopeOf(resource, scope) \subseteq Scopes[resource]
        /\ authorizationRequest' = [kept EXCEPT
             ![q] = [account |-> subject, client |-> client, resource |-> resource,
                     scope |-> ScopeOf(resource, scope),
                     expiresAt |-> now + RequestLifetime, stored |-> TRUE,
                     allowedBy |-> NoOne]]
  BY DEF Authorize
<1> DEFINE row == [account |-> subject, client |-> client, resource |-> resource,
                   scope |-> ScopeOf(resource, scope),
                   expiresAt |-> now + RequestLifetime, stored |-> TRUE,
                   allowedBy |-> NoOne]
<1>2. authorizationRequest' = [kept EXCEPT ![q] = row]
  BY <1>1
<1>3. row \in AuthorizationRequestRow
  <2>1. resource \in Resource
    BY <1>1 DEF NamedResource, TypeOK
  <2>2. ScopeOf(resource, scope) \in SUBSET Scope
    BY <2>1, ResourceAssumption DEF ScopeOf
  <2>3. now + RequestLifetime \in Nat
    BY LifetimeAssumption DEF TypeOK
  <2> QED
    BY <2>1, <2>2, <2>3 DEF AuthorizationRequestRow
<1>4. \A p \in AuthorizationRequest :
        /\ authorizationRequest[p] = Absent => kept[p] = Absent
        /\ authorizationRequest[p] # Absent => SameRequest(kept[p], authorizationRequest[p])
  BY UnexpiredRequests
<1>5. DOMAIN kept = AuthorizationRequest /\ kept = [p \in AuthorizationRequest |-> kept[p]]
  BY DEF Unexpired
<1> HIDE DEF kept, row
<1>6. /\ authorizationRequest'[q] = row
      /\ \A p \in AuthorizationRequest : p # q => authorizationRequest'[p] = kept[p]
  BY <1>2, <1>5
<1>7. row # Absent
  BY <1>3, RowsAreNotAbsent
<1>8. \A p \in AuthorizationRequest : kept[p] \in AuthorizationRequestRow \union {Absent}
  BY <1>4 DEF SameRequest
<1>9. authorizationRequest' \in
        [AuthorizationRequest -> AuthorizationRequestRow \union {Absent}]
  BY <1>2, <1>3, <1>5, <1>8
<1> QED
  BY <1>4, <1>6, <1>7, <1>9 DEF Authorize

LEMMA DecideEffect ==
  ASSUME TypeOK, NEW r \in Request, NEW q \in AuthorizationRequest,
         NEW subject \in Account, NEW allow \in BOOLEAN, Decide(r, q, subject, allow)
  PROVE  /\ authorizationRequest' \in
              [AuthorizationRequest -> AuthorizationRequestRow \union {Absent}]
         /\ authorizationRequest[q] # Absent /\ authorizationRequest[q].stored
         /\ authorizationRequest'[q] # Absent /\ ~authorizationRequest'[q].stored
         /\ authorizationRequest'[q].account = authorizationRequest[q].account
         /\ \A p \in AuthorizationRequest :
              p # q => authorizationRequest'[p] = authorizationRequest[p]
         /\ \/ /\ authorizationRequest'[q].allowedBy = authorizationRequest[q].account
               /\ Proceed(r, [step |-> "insert code", request |-> q])
            \/ UNCHANGED request
<1> DEFINE allowed == allow /\ Answerable(q, subject)
           old == authorizationRequest[q]
           row == [[old EXCEPT !.stored = FALSE] EXCEPT
                     !.allowedBy = IF allowed THEN subject ELSE @]
<1>1. old # Absent /\ old.stored
  BY DEF Decide, RequestStored
<1>2. old \in AuthorizationRequestRow
  BY <1>1, RowTypes
<1>3. authorizationRequest' = [authorizationRequest EXCEPT ![q] = row]
  BY DEF Decide
<1>4. /\ row \in AuthorizationRequestRow /\ ~row.stored
      /\ row.account = old.account
      /\ row.allowedBy = IF allowed THEN subject ELSE old.allowedBy
  <2> HIDE DEF allowed, old
  <2> QED
    BY <1>2 DEF AuthorizationRequestRow
<1>5. \/ allowed /\ Proceed(r, [step |-> "insert code", request |-> q])
      \/ UNCHANGED request
  BY DEF Decide
<1>6. allowed => subject = old.account
  BY DEF Answerable
<1>7. row # Absent
  BY <1>4, RowsAreNotAbsent
<1> HIDE DEF row, allowed
<1>8. /\ authorizationRequest'[q] = row
      /\ \A p \in AuthorizationRequest :
           p # q => authorizationRequest'[p] = authorizationRequest[p]
      /\ authorizationRequest' \in
           [AuthorizationRequest -> AuthorizationRequestRow \union {Absent}]
  BY <1>3, <1>4 DEF TypeOK
<1> QED
  BY <1>1, <1>4, <1>5, <1>6, <1>7, <1>8

LEMMA InsertCodeEffect ==
  ASSUME TypeOK, NEW r \in Request, NEW c \in Code, InsertAuthorizationCode(r, c),
         authorizationRequest[request[r].request] # Absent
  PROVE  LET q == request[r].request
             old == authorizationRequest[q]
         IN
         /\ code' \in [Code -> CodeRow \union {Absent}]
         /\ q \in AuthorizationRequest /\ code[c] = Absent
         /\ \A d \in Code : d # c =>
              /\ code[d] = Absent => code'[d] = Absent
              /\ code[d] # Absent => SameCode(code'[d], code[d])
         /\ \/ code'[c] = Absent
            \/ /\ code'[c] \in CodeRow
               /\ code'[c].request = q
               /\ code'[c].account = old.account /\ code'[c].client = old.client
               /\ code'[c].resource = old.resource /\ code'[c].scope = old.scope
<1> DEFINE kept == Unexpired(code, Code)
           q == request[r].request
           old == authorizationRequest[q]
           row == [account |-> old.account, client |-> old.client,
                   resource |-> old.resource, scope |-> old.scope,
                   expiresAt |-> now + CodeLifetime, stored |-> TRUE, request |-> q]
<1>1. q \in AuthorizationRequest
  BY StateFields DEF InsertAuthorizationCode, Deciding
<1>2. old \in AuthorizationRequestRow
  BY <1>1, RowTypes
<1>3. row \in CodeRow
  <2>1. now + CodeLifetime \in Nat
    BY LifetimeAssumption DEF TypeOK
  <2> HIDE DEF old, q
  <2> QED
    BY <1>1, <1>2, <2>1 DEF AuthorizationRequestRow, CodeRow
<1>4. code' = [kept EXCEPT ![c] = row] \/ code' = kept
  BY DEF InsertAuthorizationCode
<1>5. code[c] = Absent
  BY DEF InsertAuthorizationCode
<1>6. \A d \in Code :
        /\ code[d] = Absent => kept[d] = Absent
        /\ code[d] # Absent => SameCode(kept[d], code[d])
  BY UnexpiredCodes
<1>7. DOMAIN kept = Code /\ kept = [d \in Code |-> kept[d]]
  BY DEF Unexpired
<1>8. row.request = q /\ row.account = old.account /\ row.client = old.client
      /\ row.resource = old.resource /\ row.scope = old.scope
  OBVIOUS
<1> HIDE DEF kept, row, old, q
<1>9. /\ \A d \in Code : d # c => code'[d] = kept[d]
      /\ code'[c] = row \/ code'[c] = Absent
      /\ code' = [d \in Code |-> code'[d]]
  BY <1>4, <1>5, <1>6, <1>7
<1>10. \A d \in Code : code'[d] \in CodeRow \union {Absent}
  BY <1>3, <1>6, <1>9 DEF SameCode
<1>11. code' \in [Code -> CodeRow \union {Absent}]
  BY <1>9, <1>10
<1> QED
  BY <1>1, <1>3, <1>5, <1>6, <1>8, <1>9, <1>11 DEF q, old

LEMMA RedeemEffect ==
  ASSUME TypeOK, NEW r \in Request, NEW c \in Code, NEW client \in Client,
         NEW matching \in BOOLEAN, Redeem(r, c, client, matching)
  PROVE  /\ code' \in [Code -> CodeRow \union {Absent}]
         /\ code[c] # Absent /\ code[c].stored /\ code'[c] # Absent /\ ~code'[c].stored
         /\ SameCode(code'[c], code[c])
         /\ \A d \in Code : d # c => code'[d] = code[d]
         /\ \/ /\ now \in Nat
               /\ Proceed(r, [step |-> "check grant", code |-> c, createdAt |-> now])
            \/ UNCHANGED request
<1> DEFINE old == code[c]
           row == [old EXCEPT !.stored = FALSE]
<1>1. old # Absent /\ old.stored
  BY DEF Redeem, CodeStored
<1>2. old \in CodeRow
  BY <1>1, RowTypes
<1>3. code' = [code EXCEPT ![c] = row]
  BY DEF Redeem
<1>4. row \in CodeRow /\ ~row.stored /\ SameCode(row, old)
  BY <1>1, <1>2, RemovedCode DEF SameCode
<1>5. row # Absent
  BY <1>4, RowsAreNotAbsent
<1> HIDE DEF row
<1>6. code'[c] = row /\ (\A d \in Code : d # c => code'[d] = code[d])
      /\ code' \in [Code -> CodeRow \union {Absent}]
  BY <1>3, <1>4 DEF TypeOK
<1> QED
  BY <1>1, <1>4, <1>5, <1>6 DEF Redeem, TypeOK

LEMMA InsertGrantEffect ==
  ASSUME TypeOK, NEW r \in Request, NEW g \in Grant, NEW t \in RefreshToken,
         InsertGrant(r, g, t), code[request[r].code] # Absent
  PROVE  LET c == request[r].code IN
         /\ c \in Code /\ code[c] \in CodeRow
         /\ grant[g] = Absent /\ refreshToken[t] = Absent
         /\ \/ UNCHANGED <<grant, refreshToken, accessTokens>>
            \/ /\ grant' \in [Grant -> GrantRow \union {Absent}]
               /\ refreshToken' \in [RefreshToken -> RefreshTokenRow \union {Absent}]
               /\ accessTokens' \in SUBSET AccessToken
               /\ grant'[g] \in GrantRow /\ ~grant'[g].revoked
               /\ grant'[g].code = c
               /\ grant'[g].account = code[c].account /\ grant'[g].client = code[c].client
               /\ grant'[g].resource = code[c].resource /\ grant'[g].scope = code[c].scope
               /\ refreshToken'[t] \in RefreshTokenRow
               /\ refreshToken'[t].grant = g /\ ~refreshToken'[t].spent
               /\ \A h \in Grant : h # g => grant'[h] = grant[h]
               /\ \A u \in RefreshToken : u # t => refreshToken'[u] = refreshToken[u]
               /\ accessTokens' = accessTokens \union
                    {[grant |-> g, scope |-> code[c].scope, beside |-> t]}
<1> DEFINE c == request[r].code
           row == code[c]
           at == request[r].createdAt
           new == [account |-> row.account, client |-> row.client,
                   resource |-> row.resource, scope |-> row.scope,
                   createdAt |-> at, revoked |-> FALSE, code |-> c]
           token == [grant |-> g, expiresAt |-> RefreshTokenExpiry(at), spent |-> FALSE]
           fresh == [grant |-> g, scope |-> row.scope, beside |-> t]
<1>1. c \in Code /\ at \in Nat
  BY StateFields DEF InsertGrant, Redeeming
<1>2. row \in CodeRow
  BY <1>1, RowTypes
<1>3. RefreshTokenExpiry(at) \in Nat
  BY <1>1, LifetimeAssumption DEF RefreshTokenExpiry
<1>4. grant[g] = Absent /\ refreshToken[t] = Absent
  BY DEF InsertGrant
<1>5. \/ UNCHANGED <<grant, refreshToken, accessTokens>>
      \/ /\ grant' = [grant EXCEPT ![g] = new]
         /\ refreshToken' = [refreshToken EXCEPT ![t] = token]
         /\ accessTokens' = accessTokens \union {fresh}
  BY DEF InsertGrant
<1> HIDE DEF c, row, at
<1>6. new \in GrantRow /\ ~new.revoked /\ new.code = c
      /\ new.account = row.account /\ new.client = row.client
      /\ new.resource = row.resource /\ new.scope = row.scope
  BY <1>1, <1>2 DEF CodeRow, GrantRow
<1>7. token \in RefreshTokenRow /\ token.grant = g /\ ~token.spent
  BY <1>3 DEF RefreshTokenRow
<1>8. fresh \in AccessToken
  BY <1>2 DEF CodeRow, AccessToken
<1>9. fresh = [grant |-> g, scope |-> row.scope, beside |-> t]
  OBVIOUS
<1> HIDE DEF new, token, fresh
<1>10. CASE UNCHANGED <<grant, refreshToken, accessTokens>>
  BY <1>1, <1>2, <1>4, <1>10 DEF c, row
<1>11. CASE /\ grant' = [grant EXCEPT ![g] = new]
            /\ refreshToken' = [refreshToken EXCEPT ![t] = token]
            /\ accessTokens' = accessTokens \union {fresh}
  <2>1. grant' \in [Grant -> GrantRow \union {Absent}] /\ grant'[g] = new
        /\ \A h \in Grant : h # g => grant'[h] = grant[h]
    BY <1>6, <1>11 DEF TypeOK
  <2>2. refreshToken' \in [RefreshToken -> RefreshTokenRow \union {Absent}]
        /\ refreshToken'[t] = token
        /\ \A u \in RefreshToken : u # t => refreshToken'[u] = refreshToken[u]
    BY <1>7, <1>11 DEF TypeOK
  <2>3. accessTokens' \in SUBSET AccessToken
    BY <1>8, <1>11 DEF TypeOK
  <2> QED
    BY <1>1, <1>2, <1>4, <1>6, <1>7, <1>9, <1>11, <2>1, <2>2, <2>3 DEF c, row
<1> QED
  BY <1>5, <1>10, <1>11

LEMMA RevokeEffect ==
  ASSUME TypeOK, NEW g \in Grant, grant[g] # Absent, RevokeGrant(g)
  PROVE  /\ grant' \in [Grant -> GrantRow \union {Absent}]
         /\ grant'[g] \in GrantRow /\ grant'[g].revoked
         /\ grant'[g].account = grant[g].account /\ grant'[g].client = grant[g].client
         /\ grant'[g].resource = grant[g].resource /\ grant'[g].scope = grant[g].scope
         /\ grant'[g].createdAt = grant[g].createdAt /\ grant'[g].code = grant[g].code
         /\ \A h \in Grant : h # g => grant'[h] = grant[h]
<1> DEFINE row == [grant[g] EXCEPT !.revoked = TRUE]
<1>1. grant' = [grant EXCEPT ![g] = row]
  BY DEF RevokeGrant
<1>2. /\ row \in GrantRow /\ row.revoked
      /\ row.account = grant[g].account /\ row.client = grant[g].client
      /\ row.resource = grant[g].resource /\ row.scope = grant[g].scope
      /\ row.createdAt = grant[g].createdAt /\ row.code = grant[g].code
  BY RowTypes, RevokedRow
<1> HIDE DEF row
<1> QED
  BY <1>1, <1>2 DEF TypeOK

LEMMA SpendEffect ==
  ASSUME TypeOK, NEW r \in Request, NEW u \in RefreshToken, Spend(r, u),
         refreshToken[request[r].token] # Absent, grant[GrantOf(request[r].token)] # Absent
  PROVE  LET t == request[r].token
             g == GrantOf(t)
             fresh == [grant |-> g, scope |-> MintedScope(request[r]), beside |-> u]
         IN
         /\ t \in RefreshToken /\ g \in Grant /\ refreshToken[u] = Absent /\ t # u
         /\ refreshToken' \in [RefreshToken -> RefreshTokenRow \union {Absent}]
         /\ refreshToken'[t] \in RefreshTokenRow /\ refreshToken'[u] \in RefreshTokenRow
         /\ refreshToken'[t].grant = g /\ refreshToken'[t].spent
         /\ refreshToken'[u].grant = g /\ ~refreshToken'[u].spent
         /\ \A w \in RefreshToken : w # t /\ w # u => refreshToken'[w] = refreshToken[w]
         /\ accessTokens' = accessTokens \union {fresh}
         /\ accessTokens' \in SUBSET AccessToken
<1> DEFINE t == request[r].token
           g == GrantOf(t)
           spent == [refreshToken[t] EXCEPT !.spent = TRUE]
           new == [grant |-> g, expiresAt |-> RefreshTokenExpiry(request[r].start),
                   spent |-> FALSE]
           fresh == [grant |-> g, scope |-> MintedScope(request[r]), beside |-> u]
<1>1. t \in RefreshToken /\ request[r].start \in Nat /\ request[r].scope \in SUBSET Scope
  BY StateFields DEF Spend, Refreshing
<1>2. refreshToken[t] \in RefreshTokenRow
  BY <1>1, RowTypes
<1>3. g \in Grant
  BY <1>2 DEF RefreshTokenRow, GrantOf
<1>4. grant[g] \in GrantRow
  BY <1>3, RowTypes
<1>5. RefreshTokenExpiry(request[r].start) \in Nat
  BY <1>1, LifetimeAssumption DEF RefreshTokenExpiry
<1>6. MintedScope(request[r]) \in SUBSET Scope
  BY <1>1, <1>4 DEF MintedScope, GrantRow, GrantOf
<1>7. refreshToken[u] = Absent /\ t # u
  BY DEF Spend
<1>8. /\ refreshToken' = [refreshToken EXCEPT ![t] = spent, ![u] = new]
      /\ accessTokens' = accessTokens \union {fresh}
  BY DEF Spend, GrantOf
<1>9. spent \in RefreshTokenRow /\ spent.grant = g /\ spent.spent
  BY <1>2, SpentRow DEF GrantOf
<1>10. new \in RefreshTokenRow /\ new.grant = g /\ ~new.spent
  BY <1>3, <1>5 DEF RefreshTokenRow
<1>11. fresh \in AccessToken
  BY <1>3, <1>6 DEF AccessToken
<1> HIDE DEF t, g, spent, new, fresh
<1>12. /\ refreshToken' \in [RefreshToken -> RefreshTokenRow \union {Absent}]
       /\ refreshToken'[t] = spent /\ refreshToken'[u] = new
       /\ \A w \in RefreshToken : w # t /\ w # u => refreshToken'[w] = refreshToken[w]
  BY <1>1, <1>7, <1>8, <1>9, <1>10 DEF TypeOK
<1>13. accessTokens' \in SUBSET AccessToken
  BY <1>8, <1>11 DEF TypeOK
<1> QED
  BY <1>1, <1>3, <1>7, <1>8, <1>9, <1>10, <1>12, <1>13 DEF t, g, fresh

-----------------------------------------------------------------------------
\* The invariant.  A handler in flight refers to rows that are there; a refresh
\* that holds its rows locked finds its token as it read it, whatever happened
\* since, and is the only one to hold them.

TokensHaveGrants ==
  \A t \in RefreshToken : refreshToken[t] # Absent => Issued(GrantOf(t))

HandlerSound(r) ==
  /\ request[r].step = "insert code" => authorizationRequest[request[r].request] # Absent
  /\ request[r].step \in {"check grant", "insert grant"} => code[request[r].code] # Absent
  /\ request[r].step \in {"ask", "spend"} =>
       /\ refreshToken[request[r].token] # Absent
       /\ ~refreshToken[request[r].token].spent
       /\ ~grant[GrantOf(request[r].token)].revoked

LockedOnce ==
  \A r, s \in Holders : GrantOf(request[r].token) = GrantOf(request[s].token) => r = s

Kept ==
  /\ TypeOK
  /\ TokensHaveGrants
  /\ \A r \in Request : HandlerSound(r)
  /\ LockedOnce

\* A token that was issued, and its grant.
LEMMA TokenRow ==
  ASSUME Kept, NEW t \in RefreshToken, refreshToken[t] # Absent
  PROVE  /\ refreshToken[t] \in RefreshTokenRow
         /\ GrantOf(t) \in Grant
         /\ grant[GrantOf(t)] \in GrantRow
         /\ grant[GrantOf(t)] # Absent
         /\ Issued(GrantOf(t))
<1>1. refreshToken[t] \in RefreshTokenRow
  BY RowTypes DEF Kept
<1>2. GrantOf(t) \in Grant
  BY <1>1 DEF GrantOf, RefreshTokenRow
<1> QED
  BY <1>1, <1>2, RowTypes DEF Kept, TokensHaveGrants, Issued

\* What a refresh that holds its rows knows of them.
LEMMA HolderRows ==
  ASSUME Kept, NEW r \in Request, request[r].step \in {"ask", "spend"}
  PROVE  /\ request[r] \in Refreshing
         /\ request[r].token \in RefreshToken
         /\ refreshToken[request[r].token] # Absent
         /\ ~refreshToken[request[r].token].spent
         /\ GrantOf(request[r].token) \in Grant
         /\ grant[GrantOf(request[r].token)] # Absent
         /\ ~grant[GrantOf(request[r].token)].revoked
<1>1. request[r] \in Refreshing /\ request[r].token \in RefreshToken
  BY StateFields DEF Kept, Refreshing
<1> QED
  BY <1>1, TokenRow DEF Kept, HandlerSound

LEMMA InitTyped == Init => TypeOK
<1> SUFFICES ASSUME Init PROVE TypeOK
  OBVIOUS
<1>1. Idle \in RequestState
  BY DEF RequestState
<1> QED
  BY <1>1 DEF Init, TypeOK

LEMMA StepTyped ==
  ASSUME Kept, [Next]_vars
  PROVE  TypeOK'
<1> USE DEF grants, consents
<1>1. TypeOK
  BY DEF Kept
<1>2. ASSUME NEW q \in AuthorizationRequest, NEW subject \in Account, NEW client \in Client,
             NEW name \in Resource \union {Unnamed}, NEW scope \in SUBSET Scope,
             Authorize(q, subject, client, name, scope)
      PROVE  TypeOK'
  <2>1. authorizationRequest' \in
          [AuthorizationRequest -> AuthorizationRequestRow \union {Absent}]
    BY <1>1, <1>2, AuthorizeEffect
  <2> QED
    BY <1>1, <1>2, <2>1 DEF Authorize, TypeOK
<1>3. ASSUME NEW r \in Request, NEW q \in AuthorizationRequest, NEW subject \in Account,
             NEW allow \in BOOLEAN, Decide(r, q, subject, allow)
      PROVE  TypeOK'
  <2>1. [step |-> "insert code", request |-> q] \in RequestState
    BY DEF RequestState, Deciding
  <2>2. /\ authorizationRequest' \in
             [AuthorizationRequest -> AuthorizationRequestRow \union {Absent}]
        /\ \/ Proceed(r, [step |-> "insert code", request |-> q])
           \/ UNCHANGED request
    BY <1>1, <1>3, DecideEffect
  <2>3. request' \in [Request -> RequestState]
    BY <1>1, <2>1, <2>2, ProceedTo DEF TypeOK
  <2> QED
    BY <1>1, <1>3, <2>2, <2>3 DEF Decide, TypeOK
<1>4. ASSUME NEW r \in Request, NEW c \in Code, InsertAuthorizationCode(r, c)
      PROVE  TypeOK'
  <2>1. authorizationRequest[request[r].request] # Absent
    BY <1>4 DEF InsertAuthorizationCode, Kept, HandlerSound
  <2>2. code' \in [Code -> CodeRow \union {Absent}]
    BY <1>1, <1>4, <2>1, InsertCodeEffect
  <2>3. request' \in [Request -> RequestState]
    BY <1>1, <1>4, AnswerTo DEF InsertAuthorizationCode
  <2> QED
    BY <1>1, <1>4, <2>2, <2>3 DEF InsertAuthorizationCode, TypeOK
<1>5. ASSUME NEW r \in Request, NEW c \in Code, NEW client \in Client,
             NEW matching \in BOOLEAN, Redeem(r, c, client, matching)
      PROVE  TypeOK'
  <2>1. /\ code' \in [Code -> CodeRow \union {Absent}]
        /\ \/ now \in Nat /\ Proceed(r, [step |-> "check grant", code |-> c, createdAt |-> now])
           \/ UNCHANGED request
    BY <1>1, <1>5, RedeemEffect
  <2>2. now \in Nat => [step |-> "check grant", code |-> c, createdAt |-> now] \in RequestState
    BY DEF RequestState, Redeeming
  <2>3. request' \in [Request -> RequestState]
    BY <1>1, <2>1, <2>2, ProceedTo DEF TypeOK
  <2> QED
    BY <1>1, <1>5, <2>1, <2>3 DEF Redeem, TypeOK
<1>6. ASSUME NEW r \in Request, CheckGrant(r)
      PROVE  TypeOK'
  <2>1. request[r] \in Redeeming
    BY <1>1, <1>6, StateFields DEF CheckGrant
  <2>2. request[r] \notin Refreshing
    BY <2>1 DEF Redeeming, Refreshing
  <2>3. [request[r] EXCEPT !.step = "insert grant"] \in RequestState
    BY <2>1, <2>2, NextStep
  <2>4. request' \in [Request -> RequestState]
    BY <1>1, <1>6, <2>3, ProceedTo, AnswerTo DEF CheckGrant
  <2> QED
    BY <1>1, <1>6, <2>4 DEF CheckGrant, TypeOK
<1>7. ASSUME NEW r \in Request, NEW g \in Grant, NEW t \in RefreshToken, InsertGrant(r, g, t)
      PROVE  TypeOK'
  <2>1. code[request[r].code] # Absent
    BY <1>7 DEF InsertGrant, Kept, HandlerSound
  <2>2. /\ grant' \in [Grant -> GrantRow \union {Absent}]
        /\ refreshToken' \in [RefreshToken -> RefreshTokenRow \union {Absent}]
        /\ accessTokens' \in SUBSET AccessToken
    BY <1>1, <1>7, <2>1, InsertGrantEffect DEF TypeOK
  <2>3. request' \in [Request -> RequestState]
    BY <1>1, <1>7, AnswerTo DEF InsertGrant
  <2> QED
    BY <1>1, <1>7, <2>2, <2>3 DEF InsertGrant, TypeOK
<1>8. ASSUME NEW r \in Request, NEW t \in RefreshToken, NEW client \in Client,
             NEW scope \in SUBSET Scope, Refresh(r, t, client, scope)
      PROVE  TypeOK'
  <2>1. [step |-> "select", token |-> t, client |-> client, scope |-> scope,
         start |-> now] \in RequestState
    BY <1>1 DEF RequestState, Refreshing, TypeOK
  <2>2. request' \in [Request -> RequestState]
    BY <1>1, <1>8, <2>1, ProceedTo DEF Refresh
  <2> QED
    BY <1>1, <1>8, <2>2 DEF Refresh, TypeOK
<1>9. ASSUME NEW r \in Request, SelectUnknown(r)
      PROVE  TypeOK'
  <2>1. request' \in [Request -> RequestState]
    BY <1>1, <1>9, AnswerTo DEF SelectUnknown
  <2> QED
    BY <1>1, <1>9, <2>1 DEF SelectUnknown, TypeOK
<1>10. ASSUME NEW r \in Request, SelectSpent(r)
       PROVE  TypeOK'
  <2>1. request[r].token \in RefreshToken /\ refreshToken[request[r].token] # Absent
    BY <1>1, <1>10, StateFields DEF SelectSpent, Known, Refreshing
  <2>2. grant' \in [Grant -> GrantRow \union {Absent}]
    BY <1>1, <1>10, <2>1, TokenRow, RevokeEffect DEF SelectSpent, GrantOf
  <2>3. request' \in [Request -> RequestState]
    BY <1>1, <1>10, AnswerTo DEF SelectSpent
  <2> QED
    BY <1>1, <1>10, <2>1, <2>2, <2>3 DEF SelectSpent, TypeOK
<1>11. ASSUME NEW r \in Request, SelectUnspent(r)
       PROVE  TypeOK'
  <2>1. request[r] \in Refreshing
    BY <1>1, <1>11, StateFields DEF SelectUnspent
  <2>2. request[r] \notin Redeeming
    BY <2>1 DEF Redeeming, Refreshing
  <2>3. [request[r] EXCEPT !.step = "ask"] \in RequestState
    BY <2>1, <2>2, NextStep
  <2>4. request' \in [Request -> RequestState]
    BY <1>1, <1>11, <2>3, ProceedTo, AnswerTo DEF SelectUnspent
  <2> QED
    BY <1>1, <1>11, <2>4 DEF SelectUnspent, TypeOK
<1>12. ASSUME NEW r \in Request, Ask(r)
       PROVE  TypeOK'
  <2>1. request[r] \in Refreshing
    BY <1>1, <1>12, StateFields DEF Ask
  <2>2. request[r] \notin Redeeming
    BY <2>1 DEF Redeeming, Refreshing
  <2>3. [request[r] EXCEPT !.step = "spend"] \in RequestState
    BY <2>1, <2>2, NextStep
  <2>4. request' \in [Request -> RequestState]
    BY <1>1, <1>12, <2>3, ProceedTo, AnswerTo DEF Ask
  <2> QED
    BY <1>1, <1>12, <2>4 DEF Ask, TypeOK
<1>13. ASSUME NEW r \in Request, NEW u \in RefreshToken, Spend(r, u)
       PROVE  TypeOK'
  <2>1. refreshToken[request[r].token] # Absent /\ grant[GrantOf(request[r].token)] # Absent
    BY <1>13, HolderRows DEF Spend
  <2>2. /\ refreshToken' \in [RefreshToken -> RefreshTokenRow \union {Absent}]
        /\ accessTokens' \in SUBSET AccessToken
    BY <1>1, <1>13, <2>1, SpendEffect
  <2>3. request' \in [Request -> RequestState]
    BY <1>1, <1>13, AnswerTo DEF Spend
  <2> QED
    BY <1>1, <1>13, <2>2, <2>3 DEF Spend, TypeOK
<1>14. ASSUME NEW r \in Request, NEW t \in RefreshToken, RequestRevocation(r, t)
       PROVE  TypeOK'
  <2>1. [step |-> "revoke", token |-> t] \in RequestState
    BY DEF RequestState, Revoking
  <2>2. request' \in [Request -> RequestState]
    BY <1>1, <1>14, <2>1, ProceedTo DEF RequestRevocation
  <2> QED
    BY <1>1, <1>14, <2>2 DEF RequestRevocation, TypeOK
<1>15. ASSUME NEW r \in Request, RevokeRefreshToken(r)
       PROVE  TypeOK'
  <2>1. request[r].token \in RefreshToken
    BY <1>1, <1>15, StateFields DEF RevokeRefreshToken, Revoking
  <2>2. grant' \in [Grant -> GrantRow \union {Absent}]
    <3>1. CASE Known(request[r].token)
      <4>1. RevokeGrant(GrantOf(request[r].token))
        BY <1>15, <3>1 DEF RevokeRefreshToken, GrantOf
      <4> QED
        BY <1>1, <2>1, <3>1, <4>1, TokenRow, RevokeEffect DEF Known
    <3>2. CASE ~Known(request[r].token)
      BY <1>1, <1>15, <3>2 DEF RevokeRefreshToken, TypeOK
    <3> QED
      BY <3>1, <3>2
  <2>3. request' \in [Request -> RequestState]
    BY <1>1, <1>15, AnswerTo DEF RevokeRefreshToken
  <2> QED
    BY <1>1, <1>15, <2>2, <2>3 DEF RevokeRefreshToken, TypeOK
<1>16. ASSUME NEW r \in Request, Abort(r)
       PROVE  TypeOK'
  <2>1. request' \in [Request -> RequestState]
    BY <1>1, <1>16, AnswerTo DEF Abort
  <2> QED
    BY <1>1, <1>16, <2>1 DEF Abort, TypeOK
<1>17. ASSUME NEW x \in Account, UpdateAccount(x) \/ DeleteAccount(x)
       PROVE  TypeOK'
  BY <1>1, <1>17 DEF UpdateAccount, DeleteAccount, TypeOK
<1>18. CASE Restart
  <2>1. Idle \in RequestState
    BY DEF RequestState
  <2> QED
    BY <1>1, <1>18, <2>1 DEF Restart, TypeOK
<1>19. CASE Tick
  BY <1>1, <1>19 DEF Tick, TypeOK
<1>20. CASE UNCHANGED vars
  BY <1>1, <1>20 DEF vars, TypeOK
<1> QED
  BY <1>2, <1>3, <1>4, <1>5, <1>6, <1>7, <1>8, <1>9, <1>10, <1>11, <1>12, <1>13, <1>14,
     <1>15, <1>16, <1>17, <1>18, <1>19, <1>20 DEF Next, Endpoint, Continue

\* Rows of requests and codes are never forgotten.
RowsStay ==
  /\ \A q \in AuthorizationRequest :
       authorizationRequest[q] # Absent => authorizationRequest'[q] # Absent
  /\ \A c \in Code : code[c] # Absent => code'[c] # Absent

\* A step of r that writes neither grants nor refresh tokens keeps the
\* invariant if r is sound after it and took no lock of another's.
LEMMA KeptWhenGrantsStay ==
  ASSUME Kept, TypeOK', RowsStay, UNCHANGED <<grant, refreshToken>>, NEW r \in Request,
         \A s \in Request : s # r => request'[s] = request[s],
         HandlerSound(r)',
         request'[r].step \in {"ask", "spend"} =>
           \A s \in Holders : s # r => GrantOf(request[s].token) # GrantOf(request'[r].token)
  PROVE  Kept'
<1>1. TokensHaveGrants'
  BY DEF Kept, TokensHaveGrants, Issued, GrantOf
<1>2. ASSUME NEW s \in Request PROVE HandlerSound(s)'
  <2>1. CASE s = r
    BY <2>1
  <2>2. CASE s # r
    <3>1. request'[s] = request[s]
      BY <2>2
    <3>2. request[s].step = "insert code" => request[s].request \in AuthorizationRequest
      BY StateFields DEF Kept, Deciding
    <3>3. request[s].step \in {"check grant", "insert grant"} => request[s].code \in Code
      BY StateFields DEF Kept, Redeeming
    <3> QED
      BY <3>1, <3>2, <3>3 DEF Kept, HandlerSound, RowsStay, GrantOf
  <2> QED
    BY <2>1, <2>2
<1>3. LockedOnce'
  <2> SUFFICES ASSUME NEW s \in Holders', NEW w \in Holders',
                      GrantOf(request[s].token)' = GrantOf(request[w].token)'
               PROVE  s = w
    BY DEF LockedOnce
  <2>1. /\ s \in Request /\ w \in Request
        /\ request'[s].step \in {"ask", "spend"} /\ request'[w].step \in {"ask", "spend"}
        /\ s # r => s \in Holders /\ request'[s] = request[s]
        /\ w # r => w \in Holders /\ request'[w] = request[w]
    BY DEF Holders
  <2>2. GrantOf(request'[s].token) = GrantOf(request'[w].token)
    BY DEF GrantOf
  <2> QED
    BY <2>1, <2>2 DEF Kept, LockedOnce
<1> QED
  BY <1>1, <1>2, <1>3 DEF Kept

LEMMA KeptWhenAnswered ==
  ASSUME Kept, TypeOK', RowsStay, UNCHANGED <<grant, refreshToken>>, NEW r \in Request, Answer(r)
  PROVE  Kept'
<1>1. request'[r].step = "idle" /\ \A s \in Request : s # r => request'[s] = request[s]
  BY AnswerTo DEF Kept
<1>2. HandlerSound(r)'
  BY <1>1 DEF HandlerSound
<1> QED
  BY <1>1, <1>2, KeptWhenGrantsStay

\* A step that leaves the handlers alone too.
LEMMA KeptWhenAllStay ==
  ASSUME Kept, TypeOK', RowsStay, UNCHANGED <<grant, refreshToken, request>>
  PROVE  Kept'
<1>1. ASSUME NEW s \in Request PROVE HandlerSound(s)'
  <2>1. request[s].step = "insert code" => request[s].request \in AuthorizationRequest
    BY StateFields DEF Kept, Deciding
  <2>2. request[s].step \in {"check grant", "insert grant"} => request[s].code \in Code
    BY StateFields DEF Kept, Redeeming
  <2> QED
    BY <2>1, <2>2 DEF Kept, HandlerSound, RowsStay, GrantOf
<1> QED
  BY <1>1 DEF Kept, TokensHaveGrants, Issued, GrantOf, LockedOnce, Holders

\* Revoking a grant that no refresh holds, and answering.
LEMMA KeptWhenRevoked ==
  ASSUME Kept, TypeOK', RowsStay, UNCHANGED refreshToken, NEW r \in Request, Answer(r),
         NEW g \in Grant, grant[g] # Absent, ~Locked(g), RevokeGrant(g)
  PROVE  Kept'
<1>1. /\ request'[r].step = "idle" /\ \A s \in Request : s # r => request'[s] = request[s]
      /\ grant'[g] # Absent /\ \A h \in Grant : h # g => grant'[h] = grant[h]
  BY AnswerTo, RevokeEffect, RowsAreNotAbsent DEF Kept
<1>2. TokensHaveGrants'
  <2> SUFFICES ASSUME NEW t \in RefreshToken, refreshToken[t] # Absent
               PROVE  grant'[GrantOf(t)] # Absent
    BY DEF TokensHaveGrants, Issued, GrantOf
  <2> QED
    BY <1>1, TokenRow
<1>3. ASSUME NEW s \in Request PROVE HandlerSound(s)'
  <2>1. CASE s = r
    BY <1>1, <2>1 DEF HandlerSound
  <2>2. CASE s # r
    <3>1. request'[s] = request[s]
      BY <1>1, <2>2
    <3>2. request[s].step = "insert code" => request[s].request \in AuthorizationRequest
      BY StateFields DEF Kept, Deciding
    <3>3. request[s].step \in {"check grant", "insert grant"} => request[s].code \in Code
      BY StateFields DEF Kept, Redeeming
    <3>4. ASSUME request[s].step \in {"ask", "spend"}
          PROVE  /\ GrantOf(request[s].token) \in Grant
                 /\ grant'[GrantOf(request[s].token)] = grant[GrantOf(request[s].token)]
      BY <3>4, <1>1, HolderRows DEF Locked, Holders, GrantOf
    <3> QED
      BY <3>1, <3>2, <3>3, <3>4 DEF Kept, HandlerSound, RowsStay, GrantOf
  <2> QED
    BY <2>1, <2>2
<1>4. LockedOnce'
  <2>1. \A s \in Holders' : s \in Holders /\ request'[s] = request[s]
    BY <1>1 DEF Holders
  <2> QED
    BY <2>1 DEF Kept, LockedOnce, GrantOf
<1> QED
  BY <1>2, <1>3, <1>4 DEF Kept

LEMMA StepRowsStay ==
  ASSUME Kept, [Next]_vars
  PROVE  RowsStay
<1> USE DEF grants, consents
<1>1. TypeOK
  BY DEF Kept
<1>2. CASE UNCHANGED consents
  BY <1>2 DEF RowsStay
<1>3. ASSUME NEW q \in AuthorizationRequest, NEW subject \in Account, NEW client \in Client,
             NEW name \in Resource \union {Unnamed}, NEW scope \in SUBSET Scope,
             Authorize(q, subject, client, name, scope)
      PROVE  RowsStay
  BY <1>1, <1>3, AuthorizeEffect, RowsAreNotAbsent DEF Authorize, RowsStay, SameRequest
<1>4. ASSUME NEW r \in Request, NEW q \in AuthorizationRequest, NEW subject \in Account,
             NEW allow \in BOOLEAN, Decide(r, q, subject, allow)
      PROVE  RowsStay
  BY <1>1, <1>4, DecideEffect DEF Decide, RowsStay
<1>5. ASSUME NEW r \in Request, NEW c \in Code, InsertAuthorizationCode(r, c)
      PROVE  RowsStay
  <2>1. authorizationRequest[request[r].request] # Absent
    BY <1>5 DEF InsertAuthorizationCode, Kept, HandlerSound
  <2> QED
    BY <1>1, <1>5, <2>1, InsertCodeEffect, RowsAreNotAbsent
       DEF InsertAuthorizationCode, RowsStay, SameCode
<1>6. ASSUME NEW r \in Request, NEW c \in Code, NEW client \in Client,
             NEW matching \in BOOLEAN, Redeem(r, c, client, matching)
      PROVE  RowsStay
  BY <1>1, <1>6, RedeemEffect DEF Redeem, RowsStay
<1>7. ASSUME NEW r \in Request,
             \/ CheckGrant(r) \/ SelectUnknown(r) \/ SelectSpent(r) \/ SelectUnspent(r)
             \/ Ask(r) \/ RevokeRefreshToken(r) \/ Abort(r)
             \/ \E g \in Grant, t \in RefreshToken : InsertGrant(r, g, t)
             \/ \E t \in RefreshToken, client \in Client, scope \in SUBSET Scope :
                  Refresh(r, t, client, scope)
             \/ \E u \in RefreshToken : Spend(r, u)
             \/ \E t \in RefreshToken : RequestRevocation(r, t)
      PROVE  UNCHANGED consents
  BY <1>7 DEF CheckGrant, SelectUnknown, SelectSpent, SelectUnspent, Ask, RevokeRefreshToken,
              Abort, InsertGrant, Refresh, Spend, RequestRevocation
<1>8. ASSUME \/ \E x \in Account : UpdateAccount(x) \/ DeleteAccount(x)
             \/ Restart \/ Tick \/ UNCHANGED vars
      PROVE  UNCHANGED consents
  BY <1>8 DEF UpdateAccount, DeleteAccount, Restart, Tick, vars
<1> HIDE DEF grants, consents
<1> QED
  BY <1>2, <1>3, <1>4, <1>5, <1>6, <1>7, <1>8 DEF Next, Endpoint, Continue

LEMMA KeptByInsertGrant ==
  ASSUME Kept, TypeOK', RowsStay, NEW r \in Request, NEW g \in Grant, NEW t \in RefreshToken,
         InsertGrant(r, g, t)
  PROVE  Kept'
<1>1. code[request[r].code] # Absent
  BY DEF InsertGrant, Kept, HandlerSound
<1>2. Answer(r)
  BY DEF InsertGrant
<1>3. /\ request'[r].step = "idle" /\ \A s \in Request : s # r => request'[s] = request[s]
  BY <1>2, AnswerTo DEF Kept
<1>4. CASE UNCHANGED <<grant, refreshToken>>
  BY <1>2, <1>4, KeptWhenAnswered
<1>5. CASE ~UNCHANGED <<grant, refreshToken>>
  <2>1. /\ grant[g] = Absent /\ refreshToken[t] = Absent
        /\ grant'[g] \in GrantRow
        /\ refreshToken'[t] \in RefreshTokenRow /\ refreshToken'[t].grant = g
        /\ \A h \in Grant : h # g => grant'[h] = grant[h]
        /\ \A u \in RefreshToken : u # t => refreshToken'[u] = refreshToken[u]
    BY <1>1, <1>5, InsertGrantEffect DEF Kept
  <2>2. TokensHaveGrants'
    <3> SUFFICES ASSUME NEW u \in RefreshToken, refreshToken'[u] # Absent
                 PROVE  grant'[refreshToken'[u].grant] # Absent
      BY DEF TokensHaveGrants, Issued, GrantOf
    <3>1. CASE u = t
      BY <2>1, <3>1, RowsAreNotAbsent
    <3>2. CASE u # t
      BY <2>1, <3>2, TokenRow DEF GrantOf
    <3> QED
      BY <3>1, <3>2
  <2>3. ASSUME NEW s \in Request, s # r, request[s].step \in {"ask", "spend"}
        PROVE  /\ request[s].token \in RefreshToken
               /\ refreshToken'[request[s].token] = refreshToken[request[s].token]
               /\ grant'[GrantOf(request[s].token)] = grant[GrantOf(request[s].token)]
    BY <2>1, <2>3, HolderRows
  <2>4. ASSUME NEW s \in Request PROVE HandlerSound(s)'
    <3>1. CASE s = r
      BY <1>3, <3>1 DEF HandlerSound
    <3>2. CASE s # r
      <4>1. request'[s] = request[s]
        BY <1>3, <3>2
      <4>2. request[s].step = "insert code" => request[s].request \in AuthorizationRequest
        BY StateFields DEF Kept, Deciding
      <4>3. request[s].step \in {"check grant", "insert grant"} => request[s].code \in Code
        BY StateFields DEF Kept, Redeeming
      <4> QED
        BY <2>3, <3>2, <4>1, <4>2, <4>3 DEF Kept, HandlerSound, RowsStay, GrantOf
    <3> QED
      BY <3>1, <3>2
  <2>5. LockedOnce'
    <3>1. \A s \in Holders' : s \in Holders /\ request'[s] = request[s] /\ s # r
      BY <1>3 DEF Holders
    <3> QED
      BY <2>3, <3>1 DEF Kept, LockedOnce, GrantOf, Holders
  <2> QED
    BY <2>2, <2>4, <2>5 DEF Kept
<1> QED
  BY <1>4, <1>5

LEMMA KeptBySpend ==
  ASSUME Kept, TypeOK', RowsStay, NEW r \in Request, NEW u \in RefreshToken, Spend(r, u)
  PROVE  Kept'
<1> DEFINE t == request[r].token
           g == GrantOf(t)
<1>1. /\ request[r].step = "spend" /\ grant' = grant /\ Answer(r)
  BY DEF Spend
<1>2. r \in Holders /\ refreshToken[t] # Absent /\ grant[g] # Absent
  BY <1>1, HolderRows DEF Holders
<1>3. /\ t \in RefreshToken /\ g \in Grant /\ refreshToken[u] = Absent
      /\ refreshToken'[t].grant = g /\ refreshToken'[u].grant = g
      /\ \A w \in RefreshToken : w # t /\ w # u => refreshToken'[w] = refreshToken[w]
  BY <1>2, SpendEffect DEF Kept
<1>4. /\ request'[r].step = "idle" /\ \A s \in Request : s # r => request'[s] = request[s]
  BY <1>1, AnswerTo DEF Kept
<1>5. TokensHaveGrants'
  <2> SUFFICES ASSUME NEW w \in RefreshToken, refreshToken'[w] # Absent
               PROVE  grant[refreshToken'[w].grant] # Absent
    BY <1>1 DEF TokensHaveGrants, Issued, GrantOf
  <2>1. CASE w = t \/ w = u
    BY <1>2, <1>3, <2>1
  <2>2. CASE ~(w = t \/ w = u)
    BY <1>3, <2>2, TokenRow DEF GrantOf
  <2> QED
    BY <2>1, <2>2
<1>6. ASSUME NEW s \in Request, s # r, request[s].step \in {"ask", "spend"}
      PROVE  /\ refreshToken'[request[s].token] = refreshToken[request[s].token]
             /\ request[s].token \in RefreshToken
  <2>1. GrantOf(request[s].token) # g /\ refreshToken[request[s].token] # Absent
        /\ request[s].token \in RefreshToken
    BY <1>2, <1>6, HolderRows DEF Kept, LockedOnce, Holders
  <2>2. request[s].token # t /\ request[s].token # u
    BY <1>3, <2>1
  <2> QED
    BY <1>3, <2>1, <2>2
<1>7. ASSUME NEW s \in Request PROVE HandlerSound(s)'
  <2>1. CASE s = r
    BY <1>4, <2>1 DEF HandlerSound
  <2>2. CASE s # r
    <3>1. request'[s] = request[s]
      BY <1>4, <2>2
    <3>2. request[s].step = "insert code" => request[s].request \in AuthorizationRequest
      BY StateFields DEF Kept, Deciding
    <3>3. request[s].step \in {"check grant", "insert grant"} => request[s].code \in Code
      BY StateFields DEF Kept, Redeeming
    <3> QED
      BY <1>1, <1>6, <2>2, <3>1, <3>2, <3>3 DEF Kept, HandlerSound, RowsStay, GrantOf
  <2> QED
    BY <2>1, <2>2
<1>8. LockedOnce'
  <2>1. \A s \in Holders' : s \in Holders /\ request'[s] = request[s] /\ s # r
    BY <1>4 DEF Holders
  <2> QED
    BY <1>6, <2>1 DEF Kept, LockedOnce, GrantOf, Holders
<1> QED
  BY <1>5, <1>7, <1>8 DEF Kept

\* Taking the lock: the rows are read as they are, and nobody else holds them.
LEMMA KeptBySelectUnspent ==
  ASSUME Kept, TypeOK', RowsStay, NEW r \in Request, SelectUnspent(r)
  PROVE  Kept'
<1> DEFINE t == request[r].token
           next == [request[r] EXCEPT !.step = "ask"]
<1>1. /\ request[r].step = "select" /\ Known(t) /\ ~Locked(GrantOf(t)) /\ ~refreshToken[t].spent
      /\ UNCHANGED <<grant, refreshToken>>
      /\ \/ Usable(t, request[r].start) /\ Proceed(r, next)
         \/ Answer(r)
  BY DEF SelectUnspent, GrantOf, grants
<1>2. CASE Answer(r)
  BY <1>1, <1>2, KeptWhenAnswered
<1>3. CASE Usable(t, request[r].start) /\ Proceed(r, next)
  <2>1. request[r] \in Refreshing /\ request[r] \notin Redeeming /\ t \in RefreshToken
    BY <1>1, StateFields DEF Kept, Refreshing, Redeeming
  <2>2. next \in RequestState /\ next.step = "ask" /\ next.token = t
    BY <2>1, NextStep
  <2> HIDE DEF next
  <2>3. request'[r] = next /\ \A s \in Request : s # r => request'[s] = request[s]
    BY <1>3, <2>2, ProceedTo DEF Kept
  <2>4. HandlerSound(r)'
    BY <1>1, <1>3, <2>2, <2>3 DEF HandlerSound, Known, Usable, GrantOf
  <2>5. \A s \in Holders : GrantOf(request[s].token) # GrantOf(t)
    BY <1>1 DEF Locked, GrantOf
  <2> QED
    BY <1>1, <2>2, <2>3, <2>4, <2>5, KeptWhenGrantsStay
<1> QED
  BY <1>1, <1>2, <1>3

\* Going on holding it.
LEMMA KeptByAsk ==
  ASSUME Kept, TypeOK', RowsStay, NEW r \in Request, Ask(r)
  PROVE  Kept'
<1> DEFINE t == request[r].token
           next == [request[r] EXCEPT !.step = "spend"]
<1>1. /\ request[r].step = "ask" /\ UNCHANGED <<grant, refreshToken>>
      /\ Proceed(r, next) \/ Answer(r)
  BY DEF Ask, grants
<1>2. CASE Answer(r)
  BY <1>1, <1>2, KeptWhenAnswered
<1>3. CASE Proceed(r, next)
  <2>1. request[r] \in Refreshing /\ request[r] \notin Redeeming /\ r \in Holders
    BY <1>1, StateFields DEF Kept, Refreshing, Redeeming, Holders
  <2>2. next \in RequestState /\ next.step = "spend" /\ next.token = t
    BY <2>1, NextStep
  <2> HIDE DEF next
  <2>3. request'[r] = next /\ \A s \in Request : s # r => request'[s] = request[s]
    BY <1>3, <2>2, ProceedTo DEF Kept
  <2>4. HandlerSound(r)'
    BY <1>1, <2>2, <2>3, HolderRows DEF HandlerSound, GrantOf
  <2>5. \A s \in Holders : s # r => GrantOf(request[s].token) # GrantOf(t)
    BY <2>1 DEF Kept, LockedOnce
  <2> QED
    BY <1>1, <2>2, <2>3, <2>4, <2>5, KeptWhenGrantsStay
<1> QED
  BY <1>1, <1>2, <1>3

\* Moving a handler to a step that needs nothing of the refresh tokens.
LEMMA KeptWhenBegun ==
  ASSUME Kept, TypeOK', RowsStay, UNCHANGED <<grant, refreshToken>>, NEW r \in Request,
         NEW state \in RequestState, Proceed(r, state), state.step \notin {"ask", "spend"},
         state.step = "insert code" => authorizationRequest'[state.request] # Absent,
         state.step \in {"check grant", "insert grant"} => code'[state.code] # Absent
  PROVE  Kept'
<1>1. request'[r] = state /\ \A s \in Request : s # r => request'[s] = request[s]
  BY ProceedTo DEF Kept
<1>2. HandlerSound(r)'
  BY <1>1 DEF HandlerSound
<1> QED
  BY <1>1, <1>2, KeptWhenGrantsStay

LEMMA StepKept ==
  ASSUME Kept, [Next]_vars
  PROVE  Kept'
<1> USE DEF grants, consents
<1>1. TypeOK /\ TypeOK' /\ RowsStay
  BY StepTyped, StepRowsStay DEF Kept
<1>2. ASSUME NEW q \in AuthorizationRequest, NEW subject \in Account, NEW client \in Client,
             NEW name \in Resource \union {Unnamed}, NEW scope \in SUBSET Scope,
             Authorize(q, subject, client, name, scope)
      PROVE  Kept'
  BY <1>1, <1>2, KeptWhenAllStay DEF Authorize
<1>3. ASSUME NEW r \in Request, NEW q \in AuthorizationRequest, NEW subject \in Account,
             NEW allow \in BOOLEAN, Decide(r, q, subject, allow)
      PROVE  Kept'
  <2> DEFINE state == [step |-> "insert code", request |-> q]
  <2>1. state \in RequestState /\ state.step = "insert code" /\ state.request = q
    BY DEF RequestState, Deciding
  <2>2. authorizationRequest'[q] # Absent /\ (Proceed(r, state) \/ UNCHANGED request)
    BY <1>1, <1>3, DecideEffect
  <2>3. UNCHANGED <<grant, refreshToken>>
    BY <1>3 DEF Decide
  <2> HIDE DEF state
  <2> QED
    BY <1>1, <2>1, <2>2, <2>3, KeptWhenBegun, KeptWhenAllStay
<1>4. ASSUME NEW r \in Request, NEW c \in Code, InsertAuthorizationCode(r, c)
      PROVE  Kept'
  BY <1>1, <1>4, KeptWhenAnswered DEF InsertAuthorizationCode
<1>5. ASSUME NEW r \in Request, NEW c \in Code, NEW client \in Client,
             NEW matching \in BOOLEAN, Redeem(r, c, client, matching)
      PROVE  Kept'
  <2> DEFINE state == [step |-> "check grant", code |-> c, createdAt |-> now]
  <2>1. state \in RequestState /\ state.step = "check grant" /\ state.code = c
    BY <1>1 DEF RequestState, Redeeming, TypeOK
  <2>2. code'[c] # Absent /\ (Proceed(r, state) \/ UNCHANGED request)
    BY <1>1, <1>5, RedeemEffect
  <2>3. UNCHANGED <<grant, refreshToken>>
    BY <1>5 DEF Redeem
  <2> HIDE DEF state
  <2> QED
    BY <1>1, <2>1, <2>2, <2>3, KeptWhenBegun, KeptWhenAllStay
<1>6. ASSUME NEW r \in Request, CheckGrant(r)
      PROVE  Kept'
  <2> DEFINE state == [request[r] EXCEPT !.step = "insert grant"]
  <2>1. request[r].step = "check grant" /\ request[r] \in Redeeming /\ request[r] \notin Refreshing
    BY <1>1, <1>6, StateFields DEF CheckGrant, Redeeming, Refreshing
  <2>2. state \in RequestState /\ state.step = "insert grant" /\ state.code = request[r].code
    BY <2>1, NextStep
  <2>3. UNCHANGED <<grant, refreshToken, code>> /\ (Proceed(r, state) \/ Answer(r))
    BY <1>6 DEF CheckGrant
  <2>4. code[request[r].code] # Absent
    BY <2>1 DEF Kept, HandlerSound
  <2> HIDE DEF state
  <2> QED
    BY <1>1, <2>2, <2>3, <2>4, KeptWhenBegun, KeptWhenAnswered
<1>7. ASSUME NEW r \in Request, NEW g \in Grant, NEW t \in RefreshToken, InsertGrant(r, g, t)
      PROVE  Kept'
  BY <1>1, <1>7, KeptByInsertGrant
<1>8. ASSUME NEW r \in Request, NEW t \in RefreshToken, NEW client \in Client,
             NEW scope \in SUBSET Scope, Refresh(r, t, client, scope)
      PROVE  Kept'
  <2> DEFINE state == [step |-> "select", token |-> t, client |-> client, scope |-> scope,
                       start |-> now]
  <2>1. state \in RequestState /\ state.step = "select"
    BY <1>1 DEF RequestState, Refreshing, TypeOK
  <2>2. UNCHANGED <<grant, refreshToken>> /\ Proceed(r, state)
    BY <1>8 DEF Refresh
  <2> HIDE DEF state
  <2> QED
    BY <1>1, <2>1, <2>2, KeptWhenBegun
<1>9. ASSUME NEW r \in Request, SelectUnknown(r)
      PROVE  Kept'
  BY <1>1, <1>9, KeptWhenAnswered DEF SelectUnknown
<1>10. ASSUME NEW r \in Request, SelectSpent(r)
       PROVE  Kept'
  <2>1. request[r].token \in RefreshToken /\ refreshToken[request[r].token] # Absent
    BY <1>1, <1>10, StateFields DEF SelectSpent, Known, Refreshing
  <2>2. /\ ~Locked(GrantOf(request[r].token)) /\ RevokeGrant(GrantOf(request[r].token))
        /\ Answer(r) /\ UNCHANGED refreshToken
    BY <1>10 DEF SelectSpent, GrantOf
  <2> QED
    BY <1>1, <2>1, <2>2, TokenRow, KeptWhenRevoked
<1>11. ASSUME NEW r \in Request, SelectUnspent(r)
       PROVE  Kept'
  BY <1>1, <1>11, KeptBySelectUnspent
<1>12. ASSUME NEW r \in Request, Ask(r)
       PROVE  Kept'
  BY <1>1, <1>12, KeptByAsk
<1>13. ASSUME NEW r \in Request, NEW u \in RefreshToken, Spend(r, u)
       PROVE  Kept'
  BY <1>1, <1>13, KeptBySpend
<1>14. ASSUME NEW r \in Request, NEW t \in RefreshToken, RequestRevocation(r, t)
       PROVE  Kept'
  <2> DEFINE state == [step |-> "revoke", token |-> t]
  <2>1. state \in RequestState /\ state.step = "revoke"
    BY DEF RequestState, Revoking
  <2>2. UNCHANGED <<grant, refreshToken>> /\ Proceed(r, state)
    BY <1>14 DEF RequestRevocation
  <2> HIDE DEF state
  <2> QED
    BY <1>1, <2>1, <2>2, KeptWhenBegun
<1>15. ASSUME NEW r \in Request, RevokeRefreshToken(r)
       PROVE  Kept'
  <2>1. request[r].token \in RefreshToken /\ Answer(r) /\ UNCHANGED refreshToken
    BY <1>1, <1>15, StateFields DEF RevokeRefreshToken, Revoking
  <2>2. CASE Known(request[r].token)
    <3>1. /\ ~Locked(GrantOf(request[r].token)) /\ RevokeGrant(GrantOf(request[r].token))
          /\ refreshToken[request[r].token] # Absent
      BY <1>15, <2>2 DEF RevokeRefreshToken, Known, GrantOf
    <3> QED
      BY <1>1, <2>1, <3>1, TokenRow, KeptWhenRevoked
  <2>3. CASE ~Known(request[r].token)
    BY <1>1, <1>15, <2>1, <2>3, KeptWhenAnswered DEF RevokeRefreshToken
  <2> QED
    BY <2>2, <2>3
<1>16. ASSUME NEW r \in Request, Abort(r)
       PROVE  Kept'
  BY <1>1, <1>16, KeptWhenAnswered DEF Abort
<1>17. ASSUME NEW x \in Account, UpdateAccount(x) \/ DeleteAccount(x)
       PROVE  Kept'
  BY <1>1, <1>17, KeptWhenAllStay DEF UpdateAccount, DeleteAccount
<1>18. CASE Restart
  <2>1. \A r \in Request : request'[r].step = "idle"
    BY <1>18 DEF Restart, Idle
  <2>2. Holders' = {} /\ \A r \in Request : HandlerSound(r)'
    BY <2>1 DEF Holders, HandlerSound
  <2> QED
    BY <1>1, <1>18, <2>2
       DEF Restart, Kept, TokensHaveGrants, Issued, GrantOf, LockedOnce
<1>19. CASE Tick
  BY <1>1, <1>19, KeptWhenAllStay DEF Tick
<1>20. CASE UNCHANGED vars
  BY <1>1, <1>20, KeptWhenAllStay DEF vars
<1> HIDE DEF grants, consents
<1> QED
  BY <1>2, <1>3, <1>4, <1>5, <1>6, <1>7, <1>8, <1>9, <1>10, <1>11, <1>12, <1>13, <1>14,
     <1>15, <1>16, <1>17, <1>18, <1>19, <1>20 DEF Next, Endpoint, Continue

LEMMA InitKept == Init => Kept
<1> SUFFICES ASSUME Init PROVE Kept
  OBVIOUS
<1>1. \A r \in Request : request[r].step = "idle"
  BY DEF Init, Idle
<1>2. Holders = {} /\ \A r \in Request : HandlerSound(r)
  BY <1>1 DEF Holders, HandlerSound
<1>3. TokensHaveGrants
  BY DEF Init, TokensHaveGrants
<1> QED
  BY <1>2, <1>3, InitTyped DEF Kept, LockedOnce

\* However handlers, locks and rollbacks interleave: a handler in flight refers
\* to rows that are there, and a refresh that holds its rows is alone with an
\* unspent token of a grant that is not revoked.
THEOREM GrantsKept == Spec => []Kept
BY InitKept, StepKept, PTL DEF Spec

\* Every variable keeps its type, what the handlers hold included.
THEOREM TypeCorrect == Spec => []TypeOK
<1>1. Kept => TypeOK
  BY DEF Kept
<1> QED
  BY <1>1, GrantsKept, PTL

-----------------------------------------------------------------------------
\* What a step does to grants and their tokens.  There are four kinds.

\* InsertGrant: a grant opened for the code of r, with its first tokens.
Opened(r, g, t) ==
  LET c == request[r].code IN
  /\ request[r].step = "insert grant" /\ request'[r].step = "idle"
  /\ c \in Code /\ code[c] \in CodeRow
  /\ grant[g] = Absent /\ refreshToken[t] = Absent
  /\ grant'[g] \in GrantRow /\ ~grant'[g].revoked
  /\ grant'[g].code = c
  /\ grant'[g].account = code[c].account /\ grant'[g].client = code[c].client
  /\ grant'[g].resource = code[c].resource /\ grant'[g].scope = code[c].scope
  /\ refreshToken'[t] \in RefreshTokenRow
  /\ refreshToken'[t].grant = g /\ ~refreshToken'[t].spent
  /\ \A h \in Grant : h # g => grant'[h] = grant[h]
  /\ \A u \in RefreshToken : u # t => refreshToken'[u] = refreshToken[u]
  /\ accessTokens' = accessTokens \union {[grant |-> g, scope |-> code[c].scope, beside |-> t]}
  /\ reused' = reused

\* Spend: the token t of r spent for u.
Renewed(r, t, u) ==
  LET g == GrantOf(t) IN
  /\ request[r].step = "spend" /\ t = request[r].token
  /\ g \in Grant /\ grant[g] # Absent /\ ~grant[g].revoked
  /\ refreshToken[t] # Absent /\ ~refreshToken[t].spent /\ refreshToken[u] = Absent
  /\ refreshToken'[t] \in RefreshTokenRow /\ refreshToken'[u] \in RefreshTokenRow
  /\ refreshToken'[t].grant = g /\ refreshToken'[t].spent
  /\ refreshToken'[u].grant = g /\ ~refreshToken'[u].spent
  /\ \A w \in RefreshToken : w # t /\ w # u => refreshToken'[w] = refreshToken[w]
  /\ accessTokens' = accessTokens \union
       {[grant |-> g, scope |-> MintedScope(request[r]), beside |-> u]}
  /\ UNCHANGED <<grant, reused>>

\* SelectSpent and RevokeRefreshToken: the grant of t revoked.
Ended(t) ==
  LET g == GrantOf(t) IN
  /\ refreshToken[t] # Absent /\ g \in Grant /\ grant[g] # Absent
  /\ grant'[g] \in GrantRow /\ grant'[g].revoked
  /\ grant'[g].account = grant[g].account /\ grant'[g].client = grant[g].client
  /\ grant'[g].resource = grant[g].resource /\ grant'[g].scope = grant[g].scope
  /\ grant'[g].createdAt = grant[g].createdAt /\ grant'[g].code = grant[g].code
  /\ \A h \in Grant : h # g => grant'[h] = grant[h]
  /\ reused' \in {reused, reused \union {t}}
  /\ UNCHANGED <<refreshToken, accessTokens>>

LEMMA RevokedByStep ==
  ASSUME Kept, NEW t \in RefreshToken, refreshToken[t] # Absent,
         RevokeGrant(GrantOf(t)), reused' \in {reused, reused \union {t}},
         UNCHANGED <<refreshToken, accessTokens>>
  PROVE  Ended(t)
<1>1. GrantOf(t) \in Grant /\ grant[GrantOf(t)] # Absent
  BY TokenRow
<1>2. TypeOK
  BY DEF Kept
<1> QED
  BY <1>1, <1>2, RevokeEffect DEF Ended

LEMMA KindsOfStep ==
  ASSUME Kept, [Next]_vars
  PROVE  \/ UNCHANGED grants
         \/ \E r \in Request, g \in Grant, t \in RefreshToken : Opened(r, g, t)
         \/ \E r \in Request, t, u \in RefreshToken : Renewed(r, t, u)
         \/ \E t \in RefreshToken : Ended(t)
<1>1. TypeOK
  BY DEF Kept
<1>2. ASSUME NEW r \in Request, NEW g \in Grant, NEW t \in RefreshToken, InsertGrant(r, g, t)
      PROVE  UNCHANGED grants \/ Opened(r, g, t)
  <2>1. code[request[r].code] # Absent
    BY <1>2 DEF InsertGrant, Kept, HandlerSound
  <2>2. request[r].step = "insert grant" /\ request'[r].step = "idle" /\ reused' = reused
    BY <1>1, <1>2, AnswerTo DEF InsertGrant
  <2>3. CASE UNCHANGED <<grant, refreshToken, accessTokens>>
    BY <2>2, <2>3 DEF grants
  <2>4. CASE ~UNCHANGED <<grant, refreshToken, accessTokens>>
    <3> DEFINE c == request[r].code
    <3>1. /\ c \in Code /\ code[c] \in CodeRow
          /\ grant[g] = Absent /\ refreshToken[t] = Absent
          /\ grant'[g] \in GrantRow /\ ~grant'[g].revoked
          /\ grant'[g].code = c
          /\ grant'[g].account = code[c].account /\ grant'[g].client = code[c].client
          /\ grant'[g].resource = code[c].resource /\ grant'[g].scope = code[c].scope
      BY <1>1, <1>2, <2>1, <2>4, InsertGrantEffect
    <3>2. /\ refreshToken'[t] \in RefreshTokenRow
          /\ refreshToken'[t].grant = g /\ ~refreshToken'[t].spent
          /\ \A h \in Grant : h # g => grant'[h] = grant[h]
          /\ \A u \in RefreshToken : u # t => refreshToken'[u] = refreshToken[u]
      BY <1>1, <1>2, <2>1, <2>4, InsertGrantEffect
    <3>3. accessTokens' = accessTokens \union {[grant |-> g, scope |-> code[c].scope, beside |-> t]}
      BY <1>1, <1>2, <2>1, <2>4, InsertGrantEffect
    <3> QED
      BY <2>2, <3>1, <3>2, <3>3 DEF Opened
  <2> QED
    BY <2>3, <2>4
<1>3. ASSUME NEW r \in Request, NEW u \in RefreshToken, Spend(r, u)
      PROVE  request[r].token \in RefreshToken /\ Renewed(r, request[r].token, u)
  <2>1. request[r].step = "spend" /\ UNCHANGED <<grant, reused>>
    BY <1>3 DEF Spend
  <2>2. /\ request[r].token \in RefreshToken
        /\ refreshToken[request[r].token] # Absent
        /\ ~refreshToken[request[r].token].spent
        /\ grant[GrantOf(request[r].token)] # Absent
        /\ ~grant[GrantOf(request[r].token)].revoked
    BY <2>1, HolderRows
  <2> QED
    BY <1>1, <1>3, <2>1, <2>2, SpendEffect DEF Renewed
<1>4. ASSUME NEW r \in Request, SelectSpent(r)
      PROVE  \E t \in RefreshToken : Ended(t)
  <2>1. request[r].token \in RefreshToken
    BY <1>1, <1>4, StateFields DEF SelectSpent, Refreshing
  <2>2. /\ refreshToken[request[r].token] # Absent
        /\ RevokeGrant(GrantOf(request[r].token))
        /\ reused' = reused \union {request[r].token}
        /\ UNCHANGED <<refreshToken, accessTokens>>
    BY <1>4 DEF SelectSpent, Known, GrantOf
  <2> QED
    BY <2>1, <2>2, RevokedByStep
<1>5. ASSUME NEW r \in Request, RevokeRefreshToken(r)
      PROVE  UNCHANGED grants \/ \E t \in RefreshToken : Ended(t)
  <2>1. request[r].token \in RefreshToken /\ UNCHANGED <<refreshToken, accessTokens, reused>>
    BY <1>1, <1>5, StateFields DEF RevokeRefreshToken, Revoking
  <2>2. CASE Known(request[r].token)
    <3>1. refreshToken[request[r].token] # Absent /\ RevokeGrant(GrantOf(request[r].token))
      BY <1>5, <2>2 DEF RevokeRefreshToken, Known, GrantOf
    <3> QED
      BY <2>1, <3>1, RevokedByStep
  <2>3. CASE ~Known(request[r].token)
    BY <1>5, <2>1, <2>3 DEF RevokeRefreshToken, grants
  <2> QED
    BY <2>2, <2>3
<1>6. ASSUME NEW r \in Request,
             \/ CheckGrant(r) \/ SelectUnknown(r) \/ SelectUnspent(r) \/ Ask(r) \/ Abort(r)
             \/ \E q \in AuthorizationRequest, subject \in Account, allow \in BOOLEAN :
                  Decide(r, q, subject, allow)
             \/ \E c \in Code : InsertAuthorizationCode(r, c)
             \/ \E c \in Code, client \in Client, matching \in BOOLEAN :
                  Redeem(r, c, client, matching)
             \/ \E t \in RefreshToken, client \in Client, scope \in SUBSET Scope :
                  Refresh(r, t, client, scope)
             \/ \E t \in RefreshToken : RequestRevocation(r, t)
      PROVE  UNCHANGED grants
  BY <1>6 DEF CheckGrant, SelectUnknown, SelectUnspent, Ask, Abort, Decide,
              InsertAuthorizationCode, Redeem, Refresh, RequestRevocation
<1>7. ASSUME \/ \E q \in AuthorizationRequest, subject \in Account, client \in Client,
                   name \in Resource \union {Unnamed}, scope \in SUBSET Scope :
                  Authorize(q, subject, client, name, scope)
             \/ \E x \in Account : UpdateAccount(x) \/ DeleteAccount(x)
             \/ Restart \/ Tick
      PROVE  UNCHANGED grants
  BY <1>7 DEF Authorize, UpdateAccount, DeleteAccount, Restart, Tick
<1>8. CASE UNCHANGED vars
  BY <1>8 DEF vars, grants
<1> QED
  BY <1>2, <1>3, <1>4, <1>5, <1>6, <1>7, <1>8 DEF Next, Endpoint, Continue

-----------------------------------------------------------------------------
\* Revocation.

\* Every token that came back spent is one that was issued, of a grant that is
\* revoked.
ReusedRevoked == \A t \in reused : refreshToken[t] # Absent /\ grant[GrantOf(t)].revoked

LEMMA StepReusedRevoked ==
  ASSUME Kept, ReusedRevoked, [Next]_vars
  PROVE  ReusedRevoked'
<1> SUFFICES ASSUME NEW w \in reused'
             PROVE  refreshToken'[w] # Absent /\ grant'[refreshToken'[w].grant].revoked
  BY DEF ReusedRevoked, GrantOf
<1>1. ASSUME w \in reused
      PROVE  /\ w \in RefreshToken /\ refreshToken[w] # Absent
             /\ GrantOf(w) \in Grant /\ grant[GrantOf(w)] # Absent /\ grant[GrantOf(w)].revoked
  BY <1>1, TokenRow DEF ReusedRevoked, Kept, TypeOK
<1>2. CASE UNCHANGED grants
  BY <1>1, <1>2 DEF grants, GrantOf
<1>3. ASSUME NEW r \in Request, NEW g \in Grant, NEW t \in RefreshToken, Opened(r, g, t)
      PROVE  refreshToken'[w] # Absent /\ grant'[refreshToken'[w].grant].revoked
  BY <1>1, <1>3 DEF Opened, GrantOf
<1>4. ASSUME NEW r \in Request, NEW t \in RefreshToken, NEW u \in RefreshToken, Renewed(r, t, u)
      PROVE  refreshToken'[w] # Absent /\ grant'[refreshToken'[w].grant].revoked
  <2>1. w \in reused /\ w # t /\ w # u
    BY <1>1, <1>4 DEF Renewed
  <2> QED
    BY <1>1, <1>4, <2>1 DEF Renewed, GrantOf
<1>5. ASSUME NEW t \in RefreshToken, Ended(t)
      PROVE  refreshToken'[w] # Absent /\ grant'[refreshToken'[w].grant].revoked
  <2>1. CASE w \in reused
    BY <1>1, <1>5, <2>1 DEF Ended, GrantOf
  <2>2. CASE w \notin reused
    BY <1>5, <2>2 DEF Ended, GrantOf
  <2> QED
    BY <2>1, <2>2
<1> QED
  BY <1>2, <1>3, <1>4, <1>5, KindsOfStep

\* Once a second holder of a refresh token was told that it had been spent, no
\* crash and no other handler leaves its grant unrevoked.
THEOREM ReuseFinal == Spec => []ReuseEndsGrant
<1>1. Init => ReusedRevoked
  BY DEF Init, ReusedRevoked
<1>2. Kept /\ ReusedRevoked /\ [Next]_vars => ReusedRevoked'
  BY StepReusedRevoked
<1>3. ReusedRevoked => ReuseEndsGrant
  BY DEF ReusedRevoked, ReuseEndsGrant
<1> QED
  BY <1>1, <1>2, <1>3, GrantsKept, PTL DEF Spec

\* A revoked grant stays revoked and gives no token any more, whatever the
\* handlers in flight had read of it.
THEOREM RevokedGrantsDead == Spec => RevokedGrantIsDead
<1> DEFINE Dead ==
      \A g \in Grant : Issued(g) /\ grant[g].revoked => grant'[g].revoked /\ NewTokens(g) = {}
<1>1. Kept /\ [Next]_vars => [Dead]_vars
  <2> SUFFICES ASSUME Kept, [Next]_vars, NEW g \in Grant, grant[g] # Absent, grant[g].revoked
               PROVE  grant'[g].revoked /\ \A a \in accessTokens' \ accessTokens : a.grant # g
    BY DEF Issued, NewTokens
  <2>1. CASE UNCHANGED grants
    BY <2>1 DEF grants
  <2>2. ASSUME NEW r \in Request, NEW h \in Grant, NEW t \in RefreshToken, Opened(r, h, t)
        PROVE  grant'[g].revoked /\ \A a \in accessTokens' \ accessTokens : a.grant # g
    <3>1. g # h /\ grant'[g] = grant[g]
      BY <2>2 DEF Opened
    <3>2. \A a \in accessTokens' \ accessTokens : a.grant = h
      <4> DEFINE fresh == [grant |-> h, scope |-> code[request[r].code].scope, beside |-> t]
      <4>1. accessTokens' = accessTokens \union {fresh} /\ fresh.grant = h
        BY <2>2 DEF Opened
      <4> HIDE DEF fresh
      <4> QED
        BY <4>1
    <3> QED
      BY <3>1, <3>2
  <2>3. ASSUME NEW r \in Request, NEW t \in RefreshToken, NEW u \in RefreshToken,
               Renewed(r, t, u)
        PROVE  grant'[g].revoked /\ \A a \in accessTokens' \ accessTokens : a.grant # g
    <3>1. g # GrantOf(t) /\ grant' = grant
      BY <2>3 DEF Renewed
    <3>2. \A a \in accessTokens' \ accessTokens : a.grant = GrantOf(t)
      BY <2>3 DEF Renewed
    <3> QED
      BY <3>1, <3>2
  <2>4. ASSUME NEW t \in RefreshToken, Ended(t)
        PROVE  grant'[g].revoked /\ \A a \in accessTokens' \ accessTokens : a.grant # g
    BY <2>4 DEF Ended
  <2> QED
    BY <2>1, <2>2, <2>3, <2>4, KindsOfStep
<1>2. RevokedGrantIsDead <=> [][Dead]_vars
  BY DEF RevokedGrantIsDead
<1> QED
  BY <1>1, <1>2, GrantsKept, PTL DEF Spec

-----------------------------------------------------------------------------
\* The tables implement the promise.

LEMMA Standings ==
  ASSUME NEW g \in Grant
  PROVE  /\ grant[g] = Absent => StandingOf(g) = "none"
         /\ grant[g] # Absent /\ grant[g].revoked => StandingOf(g) = "revoked"
         /\ grant[g] # Absent /\ ~grant[g].revoked => StandingOf(g) = "live"
BY DEF StandingOf

LEMMA StandingsAfter ==
  ASSUME NEW g \in Grant
  PROVE  /\ grant'[g] = Absent => StandingOf(g)' = "none"
         /\ grant'[g] # Absent /\ grant'[g].revoked => StandingOf(g)' = "revoked"
         /\ grant'[g] # Absent /\ ~grant'[g].revoked => StandingOf(g)' = "live"
BY DEF StandingOf

\* The promised token of a row, and that it is no token exactly if the row is
\* none.
LEMMA TokensMapped ==
  ASSUME NEW row \in RefreshTokenRow
  PROVE  /\ [grant |-> row.grant, spent |-> row.spent] \in Promise!Token
         /\ [grant |-> row.grant, spent |-> row.spent] # Absent
<1>1. [grant |-> row.grant, spent |-> row.spent] \in Promise!Token
  BY DEF RefreshTokenRow, Promise!Token
<1> QED
  BY <1>1, AbsentTokenAssumption DEF Promise!AbsentIsNoToken

LEMMA SpentToken ==
  ASSUME NEW token \in Promise!Token
  PROVE  [token EXCEPT !.spent = TRUE] = [grant |-> token.grant, spent |-> TRUE]
<1> DEFINE spent == [token EXCEPT !.spent = TRUE]
<1>1. spent \in Promise!Token /\ spent.grant = token.grant /\ spent.spent = TRUE
  BY DEF Promise!Token
<1>2. ASSUME NEW x \in Promise!Token PROVE x = [grant |-> x.grant, spent |-> x.spent]
  BY DEF Promise!Token
<1> HIDE DEF spent
<1>3. spent = [grant |-> spent.grant, spent |-> spent.spent]
  BY <1>1, <1>2
<1> QED
  BY <1>1, <1>3 DEF spent

LEMMA SameStandings ==
  ASSUME UNCHANGED <<grant, refreshToken>>
  PROVE  UNCHANGED Promise!vars
BY DEF Promise!vars, standing, tokens, StandingOf, TokenOf

LEMMA OpenedPromised ==
  ASSUME Kept, NEW r \in Request, NEW g \in Grant, NEW t \in RefreshToken, Opened(r, g, t)
  PROVE  Promise!Open(g, t)
<1> USE DEF standing, tokens
<1>1. /\ grant[g] = Absent /\ refreshToken[t] = Absent
      /\ grant'[g] # Absent /\ ~grant'[g].revoked
      /\ refreshToken'[t] # Absent
      /\ refreshToken'[t].grant = g /\ refreshToken'[t].spent = FALSE
      /\ \A h \in Grant : h # g => grant'[h] = grant[h]
      /\ \A u \in RefreshToken : u # t => refreshToken'[u] = refreshToken[u]
  BY RowsAreNotAbsent DEF Opened, RefreshTokenRow
<1>2. standing[g] = "none"
  BY <1>1, Standings
<1>3. tokens[t] = Absent
  BY <1>1 DEF TokenOf
<1>4. StandingOf(g)' = "live" /\ \A h \in Grant : h # g => StandingOf(h)' = StandingOf(h)
  BY <1>1, StandingsAfter DEF StandingOf
<1>5. standing' = [standing EXCEPT ![g] = "live"]
  BY <1>4
<1>6. /\ TokenOf(t)' = [grant |-> g, spent |-> FALSE]
      /\ \A u \in RefreshToken : u # t => TokenOf(u)' = TokenOf(u)
  BY <1>1 DEF TokenOf
<1>7. tokens' = [tokens EXCEPT ![t] = [grant |-> g, spent |-> FALSE]]
  BY <1>6
<1> QED
  BY <1>2, <1>3, <1>5, <1>7 DEF Promise!Open, Promise!Issued

LEMMA RenewedPromised ==
  ASSUME Kept, NEW r \in Request, NEW t \in RefreshToken, NEW u \in RefreshToken,
         Renewed(r, t, u)
  PROVE  Promise!Rotate(t, u)
<1> DEFINE g == GrantOf(t)
           successor == [grant |-> g, spent |-> FALSE]
<1> USE DEF standing, tokens
<1>1. refreshToken[t] \in RefreshTokenRow /\ refreshToken[t].spent = FALSE
  BY TokenRow DEF Renewed, RefreshTokenRow
<1>2. tokens[t] = [grant |-> g, spent |-> FALSE] /\ tokens[t] # Absent
  <2>1. tokens[t] = [grant |-> refreshToken[t].grant, spent |-> refreshToken[t].spent]
    BY <1>1, RowsAreNotAbsent DEF TokenOf
  <2> QED
    BY <1>1, <2>1, TokensMapped DEF GrantOf
<1>3. standing[g] = "live"
  BY Standings DEF Renewed
<1>4. tokens[u] = Absent /\ t # u
  BY DEF Renewed, TokenOf
<1>5. standing' = standing
  BY DEF Renewed, StandingOf
<1>6. /\ TokenOf(t)' = [grant |-> g, spent |-> TRUE] /\ TokenOf(u)' = successor
      /\ \A w \in RefreshToken : w # t /\ w # u => TokenOf(w)' = TokenOf(w)
  <2>1. refreshToken'[t].spent = TRUE /\ refreshToken'[u].spent = FALSE
    BY DEF Renewed, RefreshTokenRow
  <2>2. refreshToken'[t] # Absent /\ refreshToken'[u] # Absent
    BY RowsAreNotAbsent DEF Renewed
  <2> QED
    BY <2>1, <2>2 DEF Renewed, TokenOf
<1>7. [tokens[t] EXCEPT !.spent = TRUE] = [grant |-> g, spent |-> TRUE]
  <2>1. tokens[t] \in Promise!Token
    BY <1>1, RowsAreNotAbsent, TokensMapped DEF TokenOf
  <2> HIDE DEF tokens
  <2> QED
    BY <1>2, <2>1, SpentToken
<1>8. tokens' = [tokens EXCEPT ![t].spent = TRUE, ![u] = successor]
  <2>1. tokens' = [tokens EXCEPT ![t] = [grant |-> g, spent |-> TRUE], ![u] = successor]
    BY <1>4, <1>6
  <2> QED
    BY <1>7, <2>1
<1>9. tokens[t].grant = g /\ ~tokens[t].spent
  BY <1>2
<1> QED
  BY <1>2, <1>3, <1>4, <1>5, <1>8, <1>9
     DEF Promise!Rotate, Promise!Unspent, Promise!Issued

LEMMA EndedPromised ==
  ASSUME Kept, NEW t \in RefreshToken, Ended(t)
  PROVE  Promise!Revoke(t)
<1> SUFFICES ASSUME NEW g \in Grant, g = GrantOf(t)
             PROVE  Promise!Revoke(t)
  BY DEF Ended
<1> USE DEF standing, tokens
<1>1. refreshToken[t] \in RefreshTokenRow /\ refreshToken[t] # Absent
  BY TokenRow DEF Ended
<1>2. tokens[t] # Absent /\ tokens[t].grant = g
  BY <1>1, TokensMapped DEF TokenOf, GrantOf
<1>3. grant'[g] # Absent /\ grant'[g].revoked /\ \A h \in Grant : h # g => grant'[h] = grant[h]
  BY RowsAreNotAbsent DEF Ended
<1>4. StandingOf(g)' = "revoked" /\ \A h \in Grant : h # g => StandingOf(h)' = StandingOf(h)
  BY <1>3, StandingsAfter DEF StandingOf
<1>5. standing' = [standing EXCEPT ![g] = "revoked"]
  BY <1>4
<1>6. tokens' = tokens
  BY DEF Ended, TokenOf
<1> QED
  BY <1>2, <1>5, <1>6 DEF Promise!Revoke, Promise!Issued

\* Every step of the server, its crashes and rollbacks included, is to the
\* grants and refresh tokens a step that the Store interface promises, or none.
THEOREM Implements == Spec => KeepsPromise
<1>1. Init => Promise!Init
  BY DEF Init, Promise!Init, standing, tokens, StandingOf, TokenOf
<1>2. Kept /\ [Next]_vars => [Promise!Next]_(Promise!vars)
  <2> SUFFICES ASSUME Kept, [Next]_vars PROVE [Promise!Next]_(Promise!vars)
    OBVIOUS
  <2>1. CASE UNCHANGED grants
    BY <2>1, SameStandings DEF grants
  <2>2. ASSUME NEW r \in Request, NEW g \in Grant, NEW t \in RefreshToken, Opened(r, g, t)
        PROVE  Promise!Next
    BY <2>2, OpenedPromised DEF Promise!Next
  <2>3. ASSUME NEW r \in Request, NEW t \in RefreshToken, NEW u \in RefreshToken,
               Renewed(r, t, u)
        PROVE  Promise!Next
    BY <2>3, RenewedPromised DEF Promise!Next
  <2>4. ASSUME NEW t \in RefreshToken, Ended(t)
        PROVE  Promise!Next
    BY <2>4, EndedPromised DEF Promise!Next
  <2> QED
    BY <2>1, <2>2, <2>3, <2>4, KindsOfStep
<1> QED
  BY <1>1, <1>2, GrantsKept, PTL DEF Spec, KeepsPromise, Promise!Spec

-----------------------------------------------------------------------------
\* What follows from the promise alone, whatever keeps it.

\* Every token renews a grant that was opened.
PromisedGrants == \A t \in RefreshToken : Promise!Issued(t) => standing[tokens[t].grant] # "none"

PromiseKept == Promise!TypeOK /\ PromisedGrants /\ Promise!GrantHasOneToken

\* A token that was issued is a record of its grant.
LEMMA PromisedRecord ==
  ASSUME Promise!TypeOK, NEW t \in RefreshToken, Promise!Issued(t)
  PROVE  /\ tokens[t] \in Promise!Token
         /\ tokens[t].grant \in Grant
         /\ tokens[t].spent \in BOOLEAN
  BY DEF Promise!TypeOK, Promise!Issued, Promise!Token

\* What spending a token makes of its record.
LEMMA SpentRecord ==
  ASSUME NEW row \in Promise!Token
  PROVE  /\ [row EXCEPT !.spent = TRUE] \in Promise!Token
         /\ [row EXCEPT !.spent = TRUE].grant = row.grant
         /\ [row EXCEPT !.spent = TRUE].spent
  BY DEF Promise!Token

\* What opening a grant writes.
LEMMA OpenKeeps ==
  ASSUME PromiseKept, NEW g \in Grant, NEW t \in RefreshToken, Promise!Open(g, t)
  PROVE  PromiseKept'
<1>1. /\ standing' = [standing EXCEPT ![g] = "live"]
      /\ tokens' = [tokens EXCEPT ![t] = [grant |-> g, spent |-> FALSE]]
      /\ standing[g] = "none" /\ ~Promise!Issued(t)
  BY DEF Promise!Open
<1>2. Promise!TypeOK'
  BY <1>1 DEF PromiseKept, Promise!TypeOK, Promise!Token, Promise!Standing
<1>3. [grant |-> g, spent |-> FALSE] # Absent
  <2>1. [grant |-> g, spent |-> FALSE] \in Promise!Token
    BY DEF Promise!Token
  <2> QED
    BY <2>1, AbsentTokenAssumption DEF Promise!AbsentIsNoToken
<1>4. tokens'[t] = [grant |-> g, spent |-> FALSE] /\ standing'[g] = "live"
  BY <1>1 DEF PromiseKept, Promise!TypeOK
<1>5. \A u \in RefreshToken : u # t => tokens'[u] = tokens[u]
  BY <1>1 DEF PromiseKept, Promise!TypeOK
<1>6. \A h \in Grant : h # g => standing'[h] = standing[h]
  BY <1>1 DEF PromiseKept, Promise!TypeOK
<1>7. \A u \in RefreshToken : Promise!Issued(u) => tokens[u].grant # g
  BY <1>1 DEF PromiseKept, PromisedGrants
<1>8. PromisedGrants'
  BY <1>3, <1>4, <1>5, <1>6, <1>7, PromisedRecord DEF PromiseKept, PromisedGrants, Promise!Issued
<1>9. Promise!GrantHasOneToken'
  <2> SUFFICES ASSUME NEW h \in Grant, standing'[h] # "none"
               PROVE  \E u \in RefreshToken :
                        /\ Promise!Unspent(u)'
                        /\ tokens'[u].grant = h
                        /\ \A w \in RefreshToken :
                             Promise!Unspent(w)' /\ tokens'[w].grant = h => w = u
    BY DEF Promise!GrantHasOneToken
  <2>1. CASE h = g
    BY <2>1, <1>3, <1>4, <1>5, <1>7 DEF Promise!Unspent, Promise!Issued
  <2>2. CASE h # g
    <3>1. PICK u \in RefreshToken :
            /\ Promise!Unspent(u)
            /\ tokens[u].grant = h
            /\ \A w \in RefreshToken : Promise!Unspent(w) /\ tokens[w].grant = h => w = u
      BY <2>2, <1>6 DEF PromiseKept, Promise!GrantHasOneToken
    <3>2. u # t
      BY <3>1, <1>1 DEF Promise!Unspent
    <3> QED
      BY <2>2, <3>1, <3>2, <1>4, <1>5 DEF Promise!Unspent, Promise!Issued
  <2> QED
    BY <2>1, <2>2
<1> QED
  BY <1>2, <1>8, <1>9 DEF PromiseKept

\* Renewing hands the place of the one token to its successor.
LEMMA RotateKeeps ==
  ASSUME PromiseKept, NEW t \in RefreshToken, NEW u \in RefreshToken, Promise!Rotate(t, u)
  PROVE  PromiseKept'
<1> DEFINE g == tokens[t].grant
<1>1. /\ Promise!Unspent(t) /\ ~Promise!Issued(u) /\ t # u
      /\ standing' = standing
      /\ tokens' = [tokens EXCEPT
           ![t].spent = TRUE, ![u] = [grant |-> g, spent |-> FALSE]]
  BY DEF Promise!Rotate, Promise!Unspent
<1>2. tokens[t] \in Promise!Token /\ g \in Grant
  BY <1>1, PromisedRecord DEF PromiseKept, Promise!Unspent
<1>3. /\ tokens'[t] \in Promise!Token /\ tokens'[t].grant = g /\ tokens'[t].spent
      /\ tokens'[u] = [grant |-> g, spent |-> FALSE]
      /\ \A w \in RefreshToken : w # t /\ w # u => tokens'[w] = tokens[w]
  <2> DEFINE spent == [tokens[t] EXCEPT !.spent = TRUE]
  <2>1. spent \in Promise!Token /\ spent.grant = g /\ spent.spent
    BY <1>2, SpentRecord
  <2>2. \E row : /\ row \in Promise!Token /\ row.grant = g /\ row.spent
                 /\ tokens' = [tokens EXCEPT
                      ![t] = row, ![u] = [grant |-> g, spent |-> FALSE]]
    <3>1. tokens' = [tokens EXCEPT
            ![t] = spent, ![u] = [grant |-> g, spent |-> FALSE]]
      BY <1>1
    <3> HIDE DEF spent
    <3> QED
      BY <2>1, <3>1
  <2> QED
    BY <1>1, <2>2 DEF PromiseKept, Promise!TypeOK
<1>4. /\ tokens'[t] \in Promise!Token /\ tokens'[t].grant = g /\ tokens'[t].spent
      /\ tokens'[u] \in Promise!Token /\ tokens'[u].grant = g /\ ~tokens'[u].spent
  BY <1>2, <1>3 DEF Promise!Token
<1>5. tokens'[t] # Absent /\ tokens'[u] # Absent
  BY <1>4, AbsentTokenAssumption DEF Promise!AbsentIsNoToken
<1>6. Promise!TypeOK'
  <2>1. \A w \in RefreshToken : tokens'[w] \in Promise!Token \union {Absent}
    BY <1>3, <1>4 DEF PromiseKept, Promise!TypeOK
  <2>2. tokens' \in [RefreshToken -> Promise!Token \union {Absent}]
    BY <1>1, <2>1 DEF PromiseKept, Promise!TypeOK
  <2> QED
    BY <2>2, <1>1 DEF PromiseKept, Promise!TypeOK
<1>7. standing[g] # "none"
  BY <1>1 DEF PromiseKept, PromisedGrants, Promise!Unspent
<1> HIDE DEF g
<1>8. PromisedGrants'
  BY <1>1, <1>3, <1>4, <1>7 DEF PromiseKept, PromisedGrants, Promise!Issued
<1>9. Promise!GrantHasOneToken'
  <2> SUFFICES ASSUME NEW h \in Grant, standing[h] # "none"
               PROVE  \E v \in RefreshToken :
                        /\ Promise!Unspent(v)'
                        /\ tokens'[v].grant = h
                        /\ \A w \in RefreshToken :
                             Promise!Unspent(w)' /\ tokens'[w].grant = h => w = v
    BY <1>1 DEF Promise!GrantHasOneToken
  <2>1. PICK v \in RefreshToken :
          /\ Promise!Unspent(v)
          /\ tokens[v].grant = h
          /\ \A w \in RefreshToken : Promise!Unspent(w) /\ tokens[w].grant = h => w = v
    BY DEF PromiseKept, Promise!GrantHasOneToken
  <2>2. CASE h = g
    <3>1. v = t
      BY <2>1, <2>2, <1>1 DEF g
    <3>2. Promise!Unspent(u)' /\ tokens'[u].grant = h
      BY <2>2, <1>4, <1>5 DEF Promise!Unspent, Promise!Issued
    <3>3. ASSUME NEW w \in RefreshToken, Promise!Unspent(w)', tokens'[w].grant = h
          PROVE  w = u
      <4>1. w # t
        BY <3>3, <1>4 DEF Promise!Unspent
      <4> QED
        BY <3>1, <3>3, <4>1, <2>1, <1>3 DEF Promise!Unspent, Promise!Issued
    <3> QED
      BY <3>2, <3>3
  <2>3. CASE h # g
    <3>1. v # t /\ v # u
      BY <2>1, <2>3, <1>1 DEF g, Promise!Unspent
    <3>2. Promise!Unspent(v)' /\ tokens'[v].grant = h
      BY <2>1, <3>1, <1>3 DEF Promise!Unspent, Promise!Issued
    <3>3. ASSUME NEW w \in RefreshToken, Promise!Unspent(w)', tokens'[w].grant = h
          PROVE  w = v
      <4>1. w # t /\ w # u
        BY <3>3, <2>3, <1>4
      <4> QED
        BY <3>3, <4>1, <2>1, <1>3 DEF Promise!Unspent, Promise!Issued
    <3> QED
      BY <3>2, <3>3
  <2> QED
    BY <2>2, <2>3
<1> QED
  BY <1>6, <1>8, <1>9 DEF PromiseKept

LEMMA RevokeKeeps ==
  ASSUME PromiseKept, NEW t \in RefreshToken, Promise!Revoke(t)
  PROVE  PromiseKept'
<1>1. /\ tokens' = tokens
      /\ standing' = [standing EXCEPT ![tokens[t].grant] = "revoked"]
      /\ Promise!Issued(t)
  BY DEF Promise!Revoke
<1>2. tokens[t].grant \in Grant /\ standing[tokens[t].grant] # "none"
  BY <1>1, PromisedRecord DEF PromiseKept, PromisedGrants
<1>3. Promise!TypeOK'
  BY <1>1 DEF PromiseKept, Promise!TypeOK, Promise!Standing
<1>4. \A g \in Grant : standing'[g] = "none" <=> standing[g] = "none"
  BY <1>1, <1>2 DEF PromiseKept, Promise!TypeOK
<1>5. PromisedGrants'
  BY <1>1, <1>4, PromisedRecord DEF PromiseKept, PromisedGrants, Promise!Issued
<1>6. Promise!GrantHasOneToken'
  BY <1>1, <1>4 DEF PromiseKept, Promise!GrantHasOneToken, Promise!Unspent, Promise!Issued
<1> QED
  BY <1>3, <1>5, <1>6 DEF PromiseKept

LEMMA PromiseHolds == KeepsPromise => []PromiseKept
<1>1. Promise!Init => PromiseKept
  BY DEF Promise!Init, PromiseKept, Promise!TypeOK, PromisedGrants, Promise!GrantHasOneToken,
         Promise!Issued, Promise!Standing
<1>2. PromiseKept /\ [Promise!Next]_(Promise!vars) => PromiseKept'
  <2> SUFFICES ASSUME PromiseKept, [Promise!Next]_(Promise!vars) PROVE PromiseKept'
    OBVIOUS
  <2>1. CASE Promise!Next
    BY <2>1, OpenKeeps, RotateKeeps, RevokeKeeps DEF Promise!Next
  <2>2. CASE UNCHANGED Promise!vars
    BY <2>2 DEF PromiseKept, Promise!TypeOK, PromisedGrants, Promise!GrantHasOneToken,
                Promise!Unspent, Promise!Issued, Promise!vars
  <2> QED
    BY <2>1, <2>2
<1> QED
  BY <1>1, <1>2, PTL DEF KeepsPromise, Promise!Spec

\* Just one token of a grant can be renewed, for any number of handlers that
\* present its tokens at once.
THEOREM OneToken == Spec => []GrantHasOneToken
<1>1. PromiseKept => GrantHasOneToken
  BY DEF PromiseKept, GrantHasOneToken
<1> QED
  BY <1>1, Implements, PromiseHolds, PTL

\* And a revoked grant is never renewed again: no handler in flight adds a
\* token to it.
THEOREM RevocationFinal == Spec => Promise!RevocationEndsRenewal
<1> DEFINE Dead ==
      \A g \in Grant :
        standing[g] = "revoked" =>
          /\ standing'[g] = "revoked"
          /\ \A t \in RefreshToken :
               ~Promise!Issued(t) => (~Promise!Issued(t)' \/ tokens'[t].grant # g)
<1>1. PromiseKept /\ [Promise!Next]_(Promise!vars) => [Dead]_(Promise!vars)
  <2> SUFFICES ASSUME PromiseKept, Promise!Next PROVE Dead
    OBVIOUS
  <2> SUFFICES ASSUME NEW g \in Grant, standing[g] = "revoked"
               PROVE  /\ standing'[g] = "revoked"
                      /\ \A t \in RefreshToken :
                           ~Promise!Issued(t) => (~Promise!Issued(t)' \/ tokens'[t].grant # g)
    OBVIOUS
  <2>1. ASSUME NEW h \in Grant, NEW t \in RefreshToken, Promise!Open(h, t)
        PROVE  /\ standing'[g] = "revoked"
               /\ \A u \in RefreshToken :
                    ~Promise!Issued(u) => (~Promise!Issued(u)' \/ tokens'[u].grant # g)
    BY <2>1 DEF Promise!Open, PromiseKept, Promise!TypeOK, Promise!Issued
  <2>2. ASSUME NEW t \in RefreshToken, NEW u \in RefreshToken, Promise!Rotate(t, u)
        PROVE  /\ standing'[g] = "revoked"
               /\ \A w \in RefreshToken :
                    ~Promise!Issued(w) => (~Promise!Issued(w)' \/ tokens'[w].grant # g)
    BY <2>2 DEF Promise!Rotate, Promise!Unspent, PromiseKept, Promise!TypeOK, Promise!Issued
  <2>3. ASSUME NEW t \in RefreshToken, Promise!Revoke(t)
        PROVE  /\ standing'[g] = "revoked"
               /\ \A u \in RefreshToken :
                    ~Promise!Issued(u) => (~Promise!Issued(u)' \/ tokens'[u].grant # g)
    BY <2>3 DEF Promise!Revoke, PromiseKept, Promise!TypeOK, Promise!Issued
  <2> QED
    BY <2>1, <2>2, <2>3 DEF Promise!Next
<1>2. Promise!RevocationEndsRenewal <=> [][Dead]_(Promise!vars)
  BY DEF Promise!RevocationEndsRenewal
<1> QED
  BY <1>1, <1>2, Implements, PromiseHolds, PTL DEF KeepsPromise, Promise!Spec

-----------------------------------------------------------------------------
\* Steps that begin something, by what they begin.

SomeoneDecides ==
  \E r \in Request, q \in AuthorizationRequest, subject \in Account, allow \in BOOLEAN :
    Decide(r, q, subject, allow)
SomeCodeInserted == \E r \in Request, c \in Code : InsertAuthorizationCode(r, c)
SomeoneRedeems ==
  \E r \in Request, c \in Code, client \in Client, matching \in BOOLEAN :
    Redeem(r, c, client, matching)
SomeGrantOpened == \E r \in Request, g \in Grant, t \in RefreshToken : Opened(r, g, t)

\* What the others leave of requests, codes, grants and refresh tokens.

RequestsStay ==
  \A q \in AuthorizationRequest : authorizationRequest[q] # Absent =>
    /\ authorizationRequest'[q] # Absent
    /\ SameRequest(authorizationRequest'[q], authorizationRequest[q])
CodesStay ==
  \A c \in Code : code[c] # Absent => code'[c] # Absent /\ SameCode(code'[c], code[c])
NoNewCode == \A c \in Code : code[c] = Absent => code'[c] = Absent
GrantsStay ==
  \A g \in Grant : grant[g] # Absent =>
    /\ grant'[g] # Absent
    /\ grant'[g].account = grant[g].account /\ grant'[g].client = grant[g].client
    /\ grant'[g].resource = grant[g].resource /\ grant'[g].scope = grant[g].scope
    /\ grant'[g].createdAt = grant[g].createdAt /\ grant'[g].code = grant[g].code
NoNewGrant == \A g \in Grant : grant[g] = Absent => grant'[g] = Absent
TokensStay ==
  \A t \in RefreshToken : refreshToken[t] # Absent => GrantOf(t)' = GrantOf(t)

\* And of the handlers.
Redemption == {"check grant", "insert grant"}

DeciderStays(s) == request'[s].step = "insert code" => request'[s] = request[s]
RedeemerStays(s) ==
  request'[s].step \in Redemption =>
    request[s].step \in Redemption /\ request'[s].code = request[s].code
SpenderStays(s) ==
  request'[s].step = "spend" =>
    \/ request'[s] = request[s]
    \/ /\ request[s].step = "ask" /\ Renewable(request[s])
       /\ request'[s].token = request[s].token /\ request'[s].scope = request[s].scope
       /\ request'[s].start = request[s].start
CheckerStays(s) ==
  request'[s].step = "insert grant" =>
    \/ request'[s] = request[s]
    \/ /\ request[s].step = "check grant" /\ Grantable(code[request[s].code])
       /\ request'[s].code = request[s].code

LEMMA RequestsKept ==
  ASSUME TypeOK, UNCHANGED authorizationRequest
  PROVE  RequestsStay
BY RowTypes DEF RequestsStay, SameRequest

LEMMA CodesKept ==
  ASSUME TypeOK, UNCHANGED code
  PROVE  CodesStay /\ NoNewCode
BY RowTypes DEF CodesStay, NoNewCode, SameCode

LEMMA RequestsOfStep ==
  ASSUME Kept, [Next]_vars
  PROVE  SomeoneDecides \/ RequestsStay
<1>1. TypeOK
  BY DEF Kept
<1>2. ASSUME NEW q \in AuthorizationRequest, NEW subject \in Account, NEW client \in Client,
             NEW name \in Resource \union {Unnamed}, NEW scope \in SUBSET Scope,
             Authorize(q, subject, client, name, scope)
      PROVE  RequestsStay
  BY <1>1, <1>2, AuthorizeEffect, RowsAreNotAbsent DEF RequestsStay, SameRequest
<1>3. ASSUME NEW r \in Request, Endpoint(r) \/ Continue(r) \/ Abort(r)
      PROVE  SomeoneDecides \/ UNCHANGED authorizationRequest
  BY <1>3 DEF Endpoint, Continue, SomeoneDecides, InsertAuthorizationCode, Redeem, CheckGrant,
              InsertGrant, Refresh, SelectUnknown, SelectSpent, SelectUnspent, Ask, Spend,
              RequestRevocation, RevokeRefreshToken, Abort, consents
<1>4. ASSUME \/ \E x \in Account : UpdateAccount(x) \/ DeleteAccount(x)
             \/ Restart \/ Tick \/ UNCHANGED vars
      PROVE  UNCHANGED authorizationRequest
  BY <1>4 DEF UpdateAccount, DeleteAccount, Restart, Tick, vars, consents
<1> QED
  BY <1>1, <1>2, <1>3, <1>4, RequestsKept DEF Next

LEMMA CodesOfStep ==
  ASSUME Kept, [Next]_vars
  PROVE  /\ CodesStay
         /\ SomeCodeInserted \/ NoNewCode
<1>1. TypeOK
  BY DEF Kept
<1>2. ASSUME NEW r \in Request, NEW c \in Code, InsertAuthorizationCode(r, c)
      PROVE  CodesStay /\ SomeCodeInserted
  <2>1. authorizationRequest[request[r].request] # Absent
    BY <1>2 DEF InsertAuthorizationCode, Kept, HandlerSound
  <2>2. code[c] = Absent /\ \A d \in Code : d # c /\ code[d] # Absent => SameCode(code'[d], code[d])
    BY <1>1, <1>2, <2>1, InsertCodeEffect
  <2>3. CodesStay
    BY <2>2, RowsAreNotAbsent DEF CodesStay, SameCode
  <2> QED
    BY <1>2, <2>3 DEF SomeCodeInserted
<1>3. ASSUME NEW r \in Request, NEW c \in Code, NEW client \in Client,
             NEW matching \in BOOLEAN, Redeem(r, c, client, matching)
      PROVE  CodesStay /\ NoNewCode
  <2>1. /\ code[c] # Absent /\ code'[c] # Absent /\ SameCode(code'[c], code[c])
        /\ \A d \in Code : d # c => code'[d] = code[d]
    BY <1>1, <1>3, RedeemEffect
  <2>2. NoNewCode
    BY <2>1 DEF NoNewCode
  <2>3. \A d \in Code : d # c /\ code[d] # Absent => SameCode(code'[d], code[d])
    BY <1>1, <2>1, RowTypes DEF SameCode
  <2> QED
    BY <2>1, <2>2, <2>3 DEF CodesStay
<1>4. ASSUME NEW r \in Request, Endpoint(r) \/ Continue(r) \/ Abort(r)
      PROVE  SomeoneRedeems \/ SomeCodeInserted \/ UNCHANGED code
  BY <1>4 DEF Endpoint, Continue, SomeoneRedeems, SomeCodeInserted, Decide, CheckGrant,
              InsertGrant, Refresh, SelectUnknown, SelectSpent, SelectUnspent, Ask, Spend,
              RequestRevocation, RevokeRefreshToken, Abort, consents
<1>5. ASSUME \/ \E q \in AuthorizationRequest, subject \in Account, client \in Client,
                   name \in Resource \union {Unnamed}, scope \in SUBSET Scope :
                  Authorize(q, subject, client, name, scope)
             \/ \E x \in Account : UpdateAccount(x) \/ DeleteAccount(x)
             \/ Restart \/ Tick \/ UNCHANGED vars
      PROVE  UNCHANGED code
  BY <1>5 DEF Authorize, UpdateAccount, DeleteAccount, Restart, Tick, vars, consents
<1>6. CASE SomeoneRedeems
  BY <1>3, <1>6 DEF SomeoneRedeems
<1>7. CASE SomeCodeInserted
  BY <1>2, <1>7 DEF SomeCodeInserted
<1> QED
  BY <1>1, <1>4, <1>5, <1>6, <1>7, CodesKept DEF Next

LEMMA GrantsOfStep ==
  ASSUME Kept, [Next]_vars
  PROVE  /\ GrantsStay /\ TokensStay
         /\ SomeGrantOpened \/ NoNewGrant
<1>1. CASE UNCHANGED grants
  BY <1>1 DEF grants, GrantsStay, TokensStay, NoNewGrant, GrantOf
<1>2. ASSUME NEW r \in Request, NEW g \in Grant, NEW t \in RefreshToken, Opened(r, g, t)
      PROVE  GrantsStay /\ TokensStay /\ SomeGrantOpened
  BY <1>2 DEF Opened, GrantsStay, TokensStay, GrantOf, SomeGrantOpened
<1>3. ASSUME NEW r \in Request, NEW t \in RefreshToken, NEW u \in RefreshToken, Renewed(r, t, u)
      PROVE  GrantsStay /\ TokensStay /\ NoNewGrant
  BY <1>3 DEF Renewed, GrantsStay, TokensStay, NoNewGrant, GrantOf
<1>4. ASSUME NEW t \in RefreshToken, Ended(t)
      PROVE  GrantsStay /\ TokensStay /\ NoNewGrant
  <2>1. TokensStay
    BY <1>4 DEF Ended, TokensStay, GrantOf
  <2>2. grant[GrantOf(t)] # Absent /\ grant'[GrantOf(t)] # Absent
    BY <1>4, RowsAreNotAbsent DEF Ended
  <2>3. GrantsStay /\ NoNewGrant
    BY <1>4, <2>2 DEF Ended, GrantsStay, NoNewGrant
  <2> QED
    BY <2>1, <2>3
<1> QED
  BY <1>1, <1>2, <1>3, <1>4, KindsOfStep

\* A handler r that does not decide, redeem or ask, and the others, which the
\* step leaves alone.
LEMMA OthersStay ==
  ASSUME Kept, NEW r \in Request, NEW state, request'[r] = state,
         state.step \notin {"insert code", "check grant", "insert grant", "spend"},
         \A s \in Request : s # r => request'[s] = request[s]
  PROVE  \A s \in Request : DeciderStays(s) /\ RedeemerStays(s) /\ SpenderStays(s) /\ CheckerStays(s)
BY DEF DeciderStays, RedeemerStays, SpenderStays, CheckerStays, Redemption

LEMMA AllAnswered ==
  ASSUME Kept, NEW r \in Request, Answer(r)
  PROVE  \A s \in Request : DeciderStays(s) /\ RedeemerStays(s) /\ SpenderStays(s) /\ CheckerStays(s)
<1>1. request'[r].step = "idle" /\ \A s \in Request : s # r => request'[s] = request[s]
  BY AnswerTo DEF Kept
<1> QED
  BY <1>1, OthersStay

LEMMA NothingBegun ==
  ASSUME UNCHANGED request
  PROVE  \A s \in Request : DeciderStays(s) /\ RedeemerStays(s) /\ SpenderStays(s) /\ CheckerStays(s)
BY DEF DeciderStays, RedeemerStays, SpenderStays, CheckerStays, Redemption

LEMMA BegunOther ==
  ASSUME Kept, NEW r \in Request, NEW state \in RequestState, Proceed(r, state),
         state.step \in {"select", "ask", "revoke"}
  PROVE  \A s \in Request : DeciderStays(s) /\ RedeemerStays(s) /\ SpenderStays(s) /\ CheckerStays(s)
<1>1. request'[r] = state /\ \A s \in Request : s # r => request'[s] = request[s]
  BY ProceedTo DEF Kept
<1> QED
  BY <1>1, OthersStay

LEMMA HandlersOfStep ==
  ASSUME Kept, [Next]_vars
  PROVE  /\ SomeoneDecides \/ \A s \in Request : DeciderStays(s)
         /\ SomeoneRedeems \/ \A s \in Request : RedeemerStays(s)
         /\ \A s \in Request : SpenderStays(s) /\ CheckerStays(s)
<1>1. TypeOK
  BY DEF Kept
<1> DEFINE AllStay ==
      \A s \in Request :
        DeciderStays(s) /\ RedeemerStays(s) /\ SpenderStays(s) /\ CheckerStays(s)
<1>2. ASSUME NEW r \in Request, NEW q \in AuthorizationRequest, NEW subject \in Account,
             NEW allow \in BOOLEAN, Decide(r, q, subject, allow)
      PROVE  SomeoneDecides /\ \A s \in Request : RedeemerStays(s) /\ SpenderStays(s) /\ CheckerStays(s)
  <2> DEFINE state == [step |-> "insert code", request |-> q]
  <2>1. state \in RequestState /\ state.step = "insert code"
    BY DEF RequestState, Deciding
  <2>2. Proceed(r, state) \/ UNCHANGED request
    BY <1>1, <1>2, DecideEffect
  <2>3. CASE Proceed(r, state)
    <3> HIDE DEF state
    <3>1. request'[r].step = "insert code" /\ \A s \in Request : s # r => request'[s] = request[s]
      BY <1>1, <2>1, <2>3, ProceedTo
    <3>2. \A s \in Request : RedeemerStays(s) /\ SpenderStays(s) /\ CheckerStays(s)
      BY <3>1 DEF RedeemerStays, SpenderStays, CheckerStays, Redemption
    <3> QED
      BY <1>2, <3>2 DEF SomeoneDecides
  <2>4. CASE UNCHANGED request
    BY <1>2, <2>4, NothingBegun DEF SomeoneDecides
  <2> QED
    BY <2>2, <2>3, <2>4
<1>3. ASSUME NEW r \in Request, NEW c \in Code, NEW client \in Client,
             NEW matching \in BOOLEAN, Redeem(r, c, client, matching)
      PROVE  SomeoneRedeems /\ \A s \in Request : DeciderStays(s) /\ SpenderStays(s) /\ CheckerStays(s)
  <2> DEFINE state == [step |-> "check grant", code |-> c, createdAt |-> now]
  <2>1. state \in RequestState /\ state.step = "check grant"
    BY <1>1 DEF RequestState, Redeeming, TypeOK
  <2>2. Proceed(r, state) \/ UNCHANGED request
    BY <1>1, <1>3, RedeemEffect
  <2>3. CASE Proceed(r, state)
    <3> HIDE DEF state
    <3>1. request'[r].step = "check grant" /\ \A s \in Request : s # r => request'[s] = request[s]
      BY <1>1, <2>1, <2>3, ProceedTo
    <3>2. \A s \in Request : DeciderStays(s) /\ SpenderStays(s) /\ CheckerStays(s)
      BY <3>1 DEF DeciderStays, SpenderStays, CheckerStays
    <3> QED
      BY <1>3, <3>2 DEF SomeoneRedeems
  <2>4. CASE UNCHANGED request
    BY <1>3, <2>4, NothingBegun DEF SomeoneRedeems
  <2> QED
    BY <2>2, <2>3, <2>4
<1>4. ASSUME NEW r \in Request, CheckGrant(r)
      PROVE  AllStay
  <2> DEFINE state == [request[r] EXCEPT !.step = "insert grant"]
  <2>1. request[r].step = "check grant" /\ request[r] \in Redeeming /\ request[r] \notin Refreshing
    BY <1>1, <1>4, StateFields DEF CheckGrant, Redeeming, Refreshing
  <2>2. state \in RequestState /\ state.step = "insert grant" /\ state.code = request[r].code
    BY <2>1, NextStep
  <2>3. CASE Grantable(code[request[r].code]) /\ Proceed(r, state)
    <3> HIDE DEF state
    <3>1. request'[r] = state /\ \A s \in Request : s # r => request'[s] = request[s]
      BY <1>1, <2>2, <2>3, ProceedTo
    <3> QED
      BY <2>1, <2>2, <2>3, <3>1 DEF DeciderStays, RedeemerStays, SpenderStays, CheckerStays, Redemption
  <2>4. CASE Answer(r)
    BY <2>4, AllAnswered
  <2> QED
    BY <1>4, <2>3, <2>4 DEF CheckGrant
<1>5. ASSUME NEW r \in Request, Ask(r)
      PROVE  AllStay
  <2> DEFINE state == [request[r] EXCEPT !.step = "spend"]
  <2>1. request[r].step = "ask" /\ request[r] \in Refreshing /\ request[r] \notin Redeeming
    BY <1>1, <1>5, StateFields DEF Ask, Redeeming, Refreshing
  <2>2. /\ state \in RequestState /\ state.step = "spend"
        /\ state.token = request[r].token /\ state.scope = request[r].scope
        /\ state.start = request[r].start
    BY <2>1, NextStep
  <2>3. CASE Renewable(request[r]) /\ Proceed(r, state)
    <3> HIDE DEF state
    <3>1. request'[r] = state /\ \A s \in Request : s # r => request'[s] = request[s]
      BY <1>1, <2>2, <2>3, ProceedTo
    <3> QED
      BY <2>1, <2>2, <2>3, <3>1 DEF DeciderStays, RedeemerStays, SpenderStays, CheckerStays, Redemption
  <2>4. CASE Answer(r)
    BY <2>4, AllAnswered
  <2> QED
    BY <1>5, <2>3, <2>4 DEF Ask
<1>6. ASSUME NEW r \in Request, NEW t \in RefreshToken, NEW client \in Client,
             NEW scope \in SUBSET Scope, Refresh(r, t, client, scope)
      PROVE  AllStay
  <2> DEFINE state == [step |-> "select", token |-> t, client |-> client, scope |-> scope,
                       start |-> now]
  <2>1. state \in RequestState /\ state.step = "select"
    BY <1>1 DEF RequestState, Refreshing, TypeOK
  <2>2. Proceed(r, state)
    BY <1>6 DEF Refresh
  <2> HIDE DEF state
  <2> QED
    BY <2>1, <2>2, BegunOther
<1>7. ASSUME NEW r \in Request, SelectUnspent(r)
      PROVE  AllStay
  <2> DEFINE state == [request[r] EXCEPT !.step = "ask"]
  <2>1. request[r] \in Refreshing /\ request[r] \notin Redeeming
    BY <1>1, <1>7, StateFields DEF SelectUnspent, Redeeming, Refreshing
  <2>2. state \in RequestState /\ state.step = "ask"
    BY <2>1, NextStep
  <2>3. Proceed(r, state) \/ Answer(r)
    BY <1>7 DEF SelectUnspent
  <2> HIDE DEF state
  <2> QED
    BY <2>2, <2>3, BegunOther, AllAnswered
<1>8. ASSUME NEW r \in Request, NEW t \in RefreshToken, RequestRevocation(r, t)
      PROVE  AllStay
  <2> DEFINE state == [step |-> "revoke", token |-> t]
  <2>1. state \in RequestState /\ state.step = "revoke"
    BY DEF RequestState, Revoking
  <2>2. Proceed(r, state)
    BY <1>8 DEF RequestRevocation
  <2> HIDE DEF state
  <2> QED
    BY <2>1, <2>2, BegunOther
<1>9. ASSUME NEW r \in Request,
             \/ SelectUnknown(r) \/ SelectSpent(r) \/ RevokeRefreshToken(r) \/ Abort(r)
             \/ \E c \in Code : InsertAuthorizationCode(r, c)
             \/ \E g \in Grant, t \in RefreshToken : InsertGrant(r, g, t)
             \/ \E u \in RefreshToken : Spend(r, u)
      PROVE  AllStay
  <2>1. Answer(r)
    BY <1>9 DEF SelectUnknown, SelectSpent, RevokeRefreshToken, Abort, InsertAuthorizationCode,
                InsertGrant, Spend
  <2> QED
    BY <2>1, AllAnswered
<1>10. ASSUME \/ \E q \in AuthorizationRequest, subject \in Account, client \in Client,
                    name \in Resource \union {Unnamed}, scope \in SUBSET Scope :
                   Authorize(q, subject, client, name, scope)
              \/ \E x \in Account : UpdateAccount(x) \/ DeleteAccount(x)
              \/ Tick \/ UNCHANGED vars
       PROVE  AllStay
  <2>1. UNCHANGED request
    BY <1>10 DEF Authorize, UpdateAccount, DeleteAccount, Tick, vars
  <2> QED
    BY <2>1, NothingBegun
<1>11. CASE Restart
  <2>1. \A s \in Request : request'[s].step = "idle"
    BY <1>11 DEF Restart, Idle
  <2> QED
    BY <2>1 DEF DeciderStays, RedeemerStays, SpenderStays, CheckerStays, Redemption
<1> QED
  BY <1>2, <1>3, <1>4, <1>5, <1>6, <1>7, <1>8, <1>9, <1>10, <1>11 DEF Next, Endpoint, Continue

-----------------------------------------------------------------------------
\* From the request to the code.

AtDecision(r) == request[r].step = "insert code"

\* A handler that goes on to store a code has popped a request its own user
\* allowed, and no code stands for it yet.
AllowedBeforeCode ==
  \A r \in Request : AtDecision(r) =>
    LET q == request[r].request IN
    /\ ~authorizationRequest[q].stored
    /\ authorizationRequest[q].allowedBy = authorizationRequest[q].account
    /\ \A c \in Code : code[c] # Absent => code[c].request # q

SoleDecider ==
  \A r, s \in Request :
    AtDecision(r) /\ AtDecision(s) /\ request[r].request = request[s].request => r = s

\* A code says what its request said.
CodeDescends(c) ==
  LET row == code[c]
      q == authorizationRequest[row.request] IN
  /\ q # Absent /\ ~q.stored
  /\ q.allowedBy = row.account
  /\ row.account = q.account /\ row.client = q.client
  /\ row.resource = q.resource /\ row.scope = q.scope
CodesDescend == \A c \in Code : code[c] # Absent => CodeDescends(c)

OneCodePerRequest ==
  \A c, d \in Code :
    code[c] # Absent /\ code[d] # Absent /\ code[c].request = code[d].request => c = d

RequestsTraced == AllowedBeforeCode /\ SoleDecider /\ CodesDescend /\ OneCodePerRequest

\* What a handler at that step, and a code, refer to.
LEMMA DecidedRequest ==
  ASSUME Kept, NEW r \in Request, AtDecision(r)
  PROVE  /\ request[r].request \in AuthorizationRequest
         /\ authorizationRequest[request[r].request] # Absent
BY StateFields DEF Kept, HandlerSound, AtDecision, Deciding

LEMMA CodesRequest ==
  ASSUME Kept, NEW c \in Code, code[c] # Absent
  PROVE  code[c].request \in AuthorizationRequest
BY RowTypes DEF Kept, CodeRow

LEMMA RequestsTracedWhenKept ==
  ASSUME Kept, RequestsTraced, RequestsStay, CodesStay, NoNewCode,
         \A s \in Request : DeciderStays(s)
  PROVE  RequestsTraced'
<1>1. ASSUME NEW c \in Code, code'[c] # Absent
      PROVE  code[c] # Absent /\ SameCode(code'[c], code[c])
             /\ code[c].request \in AuthorizationRequest
  BY <1>1, CodesRequest DEF CodesStay, NoNewCode
<1>2. ASSUME NEW r \in Request, request'[r].step = "insert code"
      PROVE  /\ AtDecision(r) /\ request'[r] = request[r]
             /\ request[r].request \in AuthorizationRequest
             /\ authorizationRequest[request[r].request] # Absent
  BY <1>2, DecidedRequest DEF DeciderStays, AtDecision
<1>3. AllowedBeforeCode'
  <2> SUFFICES ASSUME NEW r \in Request, request'[r].step = "insert code"
               PROVE  LET q == request'[r].request IN
                      /\ ~authorizationRequest'[q].stored
                      /\ authorizationRequest'[q].allowedBy = authorizationRequest'[q].account
                      /\ \A c \in Code : code'[c] # Absent => code'[c].request # q
    BY DEF AllowedBeforeCode, AtDecision
  <2>1. SameRequest(authorizationRequest'[request[r].request], authorizationRequest[request[r].request])
    BY <1>2 DEF RequestsStay
  <2>2. \A c \in Code : code'[c] # Absent => code'[c].request = code[c].request
    BY <1>1 DEF SameCode
  <2>3. /\ ~authorizationRequest[request[r].request].stored
        /\ authorizationRequest[request[r].request].allowedBy
             = authorizationRequest[request[r].request].account
        /\ \A c \in Code : code[c] # Absent => code[c].request # request[r].request
    BY <1>2 DEF RequestsTraced, AllowedBeforeCode
  <2>4. /\ ~authorizationRequest'[request[r].request].stored
        /\ authorizationRequest'[request[r].request].allowedBy
             = authorizationRequest'[request[r].request].account
    BY <2>1, <2>3 DEF SameRequest
  <2>5. \A c \in Code : code'[c] # Absent => code'[c].request # request[r].request
    BY <1>1, <2>2, <2>3
  <2> QED
    BY <1>2, <2>4, <2>5
<1>4. SoleDecider'
  BY <1>2 DEF RequestsTraced, SoleDecider, AtDecision
<1>5. CodesDescend'
  <2> SUFFICES ASSUME NEW c \in Code, code'[c] # Absent
               PROVE  CodeDescends(c)'
    BY DEF CodesDescend
  <2>1. code[c] # Absent /\ SameCode(code'[c], code[c]) /\ CodeDescends(c)
    BY <1>1 DEF RequestsTraced, CodesDescend
  <2>2. /\ authorizationRequest'[code[c].request] # Absent
        /\ SameRequest(authorizationRequest'[code[c].request], authorizationRequest[code[c].request])
    BY <1>1, <2>1 DEF CodeDescends, RequestsStay
  <2> QED
    BY <2>1, <2>2 DEF CodeDescends, SameCode, SameRequest
<1>6. OneCodePerRequest'
  BY <1>1 DEF RequestsTraced, OneCodePerRequest, SameCode
<1> QED
  BY <1>3, <1>4, <1>5, <1>6 DEF RequestsTraced

\* Popping a request: no code stands for it and nobody else decides on it, for
\* it was stored till now.
LEMMA RequestsTracedWhenDecided ==
  ASSUME Kept, RequestsTraced, NEW r \in Request, NEW q \in AuthorizationRequest,
         NEW subject \in Account, NEW allow \in BOOLEAN, Decide(r, q, subject, allow)
  PROVE  RequestsTraced'
<1> DEFINE state == [step |-> "insert code", request |-> q]
<1>1. /\ authorizationRequest[q] # Absent /\ authorizationRequest[q].stored
      /\ authorizationRequest'[q] # Absent /\ ~authorizationRequest'[q].stored
      /\ authorizationRequest'[q].account = authorizationRequest[q].account
      /\ \A p \in AuthorizationRequest :
           p # q => authorizationRequest'[p] = authorizationRequest[p]
      /\ \/ /\ authorizationRequest'[q].allowedBy = authorizationRequest[q].account
            /\ Proceed(r, state)
         \/ UNCHANGED request
  BY DecideEffect DEF Kept
<1>2. code' = code
  BY DEF Decide, grants
<1>3. \A c \in Code : code[c] # Absent => code[c].request # q
  BY <1>1 DEF RequestsTraced, CodesDescend, CodeDescends
<1>4. \A s \in Request : AtDecision(s) => request[s].request # q
  BY <1>1 DEF RequestsTraced, AllowedBeforeCode
<1>5. ASSUME NEW s \in Request, request'[s].step = "insert code"
      PROVE  \/ AtDecision(s) /\ request'[s] = request[s]
             \/ /\ s = r /\ request'[s].request = q
                /\ authorizationRequest'[q].allowedBy = authorizationRequest[q].account
  <2>1. CASE Proceed(r, state) /\ authorizationRequest'[q].allowedBy = authorizationRequest[q].account
    <3>1. state \in RequestState /\ state.request = q
      BY DEF RequestState, Deciding
    <3> HIDE DEF state
    <3>2. request'[r] = state /\ \A w \in Request : w # r => request'[w] = request[w]
      BY <2>1, <3>1, ProceedTo DEF Kept
    <3> QED
      BY <1>5, <2>1, <3>1, <3>2 DEF AtDecision
  <2>2. CASE UNCHANGED request
    BY <1>5, <2>2 DEF AtDecision
  <2> QED
    BY <1>1, <2>1, <2>2
<1>6. AllowedBeforeCode'
  <2> SUFFICES ASSUME NEW s \in Request, request'[s].step = "insert code"
               PROVE  LET p == request'[s].request IN
                      /\ ~authorizationRequest'[p].stored
                      /\ authorizationRequest'[p].allowedBy = authorizationRequest'[p].account
                      /\ \A c \in Code : code[c] # Absent => code[c].request # p
    BY <1>2 DEF AllowedBeforeCode, AtDecision
  <2>1. CASE AtDecision(s) /\ request'[s] = request[s]
    <3> DEFINE p == request[s].request
    <3>1. p \in AuthorizationRequest /\ p # q /\ request'[s].request = p
      BY <1>4, <2>1, DecidedRequest
    <3>2. /\ ~authorizationRequest[p].stored
          /\ authorizationRequest[p].allowedBy = authorizationRequest[p].account
          /\ \A c \in Code : code[c] # Absent => code[c].request # p
      BY <2>1 DEF RequestsTraced, AllowedBeforeCode
    <3>3. authorizationRequest'[p] = authorizationRequest[p]
      BY <1>1, <3>1
    <3> HIDE DEF p
    <3> QED
      BY <3>1, <3>2, <3>3
  <2>2. CASE s = r /\ request'[s].request = q
             /\ authorizationRequest'[q].allowedBy = authorizationRequest[q].account
    BY <1>1, <1>3, <2>2
  <2> QED
    BY <1>5, <2>1, <2>2
<1>7. SoleDecider'
  <2> SUFFICES ASSUME NEW s \in Request, NEW w \in Request,
                      request'[s].step = "insert code", request'[w].step = "insert code",
                      request'[s].request = request'[w].request
               PROVE  s = w
    BY DEF SoleDecider, AtDecision
  <2> QED
    BY <1>4, <1>5 DEF RequestsTraced, SoleDecider
<1>8. CodesDescend'
  <2> SUFFICES ASSUME NEW c \in Code, code[c] # Absent
               PROVE  CodeDescends(c)'
    BY <1>2 DEF CodesDescend
  <2>1. CodeDescends(c) /\ code[c].request \in AuthorizationRequest /\ code[c].request # q
    BY <1>3, CodesRequest DEF RequestsTraced, CodesDescend
  <2> QED
    BY <1>1, <1>2, <2>1 DEF CodeDescends
<1>9. OneCodePerRequest'
  BY <1>2 DEF RequestsTraced, OneCodePerRequest
<1> QED
  BY <1>6, <1>7, <1>8, <1>9 DEF RequestsTraced

\* Storing the code, the only one for its request.
LEMMA RequestsTracedWhenCoded ==
  ASSUME Kept, RequestsTraced, NEW r \in Request, NEW c \in Code, InsertAuthorizationCode(r, c)
  PROVE  RequestsTraced'
<1> DEFINE q == request[r].request
<1>1. AtDecision(r) /\ q \in AuthorizationRequest /\ authorizationRequest[q] # Absent
  BY DecidedRequest DEF InsertAuthorizationCode, AtDecision
<1>2. /\ code[c] = Absent
      /\ \A d \in Code : d # c =>
           /\ code[d] = Absent => code'[d] = Absent
           /\ code[d] # Absent => SameCode(code'[d], code[d])
  BY <1>1, InsertCodeEffect DEF Kept
<1>3. \/ code'[c] = Absent
      \/ /\ code'[c].request = q
         /\ code'[c].account = authorizationRequest[q].account
         /\ code'[c].client = authorizationRequest[q].client
         /\ code'[c].resource = authorizationRequest[q].resource
         /\ code'[c].scope = authorizationRequest[q].scope
  BY <1>1, InsertCodeEffect DEF Kept
<1>4. authorizationRequest' = authorizationRequest /\ Answer(r)
  BY DEF InsertAuthorizationCode
<1>5. request'[r].step = "idle" /\ \A s \in Request : s # r => request'[s] = request[s]
  BY <1>4, AnswerTo DEF Kept
<1>6. /\ ~authorizationRequest[q].stored
      /\ authorizationRequest[q].allowedBy = authorizationRequest[q].account
      /\ \A d \in Code : code[d] # Absent => code[d].request # q
  BY <1>1 DEF RequestsTraced, AllowedBeforeCode
<1>7. \A s \in Request : s # r /\ AtDecision(s) => request[s].request # q
  BY <1>1 DEF RequestsTraced, SoleDecider
<1> HIDE DEF q
<1>8. ASSUME NEW d \in Code, code'[d] # Absent
      PROVE  \/ d # c /\ code[d] # Absent /\ SameCode(code'[d], code[d])
             \/ d = c /\ code'[d].request = q
  BY <1>2, <1>3, <1>8
<1>9. AllowedBeforeCode'
  <2> SUFFICES ASSUME NEW s \in Request, request'[s].step = "insert code"
               PROVE  LET p == request'[s].request IN
                      /\ ~authorizationRequest[p].stored
                      /\ authorizationRequest[p].allowedBy = authorizationRequest[p].account
                      /\ \A d \in Code : code'[d] # Absent => code'[d].request # p
    BY <1>4 DEF AllowedBeforeCode, AtDecision
  <2>1. s # r /\ request'[s] = request[s] /\ AtDecision(s)
    BY <1>5 DEF AtDecision
  <2>2. \A d \in Code : code'[d] # Absent => code'[d].request # request[s].request
    BY <1>7, <1>8, <2>1 DEF RequestsTraced, AllowedBeforeCode, SameCode
  <2> QED
    BY <2>1, <2>2 DEF RequestsTraced, AllowedBeforeCode
<1>10. SoleDecider'
  BY <1>5 DEF RequestsTraced, SoleDecider, AtDecision
<1>11. CodesDescend'
  <2> SUFFICES ASSUME NEW d \in Code, code'[d] # Absent
               PROVE  CodeDescends(d)'
    BY DEF CodesDescend
  <2>1. CASE d # c /\ code[d] # Absent /\ SameCode(code'[d], code[d])
    BY <1>4, <2>1 DEF RequestsTraced, CodesDescend, CodeDescends, SameCode
  <2>2. CASE d = c
    BY <1>1, <1>3, <1>4, <1>6, <2>2 DEF CodeDescends
  <2> QED
    BY <1>8, <2>1, <2>2
<1>12. OneCodePerRequest'
  <2> SUFFICES ASSUME NEW d \in Code, NEW e \in Code, code'[d] # Absent, code'[e] # Absent,
                      code'[d].request = code'[e].request
               PROVE  d = e
    BY DEF OneCodePerRequest
  <2> QED
    BY <1>6, <1>8 DEF RequestsTraced, OneCodePerRequest, SameCode
<1> QED
  BY <1>9, <1>10, <1>11, <1>12 DEF RequestsTraced

LEMMA StepRequestsTraced ==
  ASSUME Kept, RequestsTraced, [Next]_vars
  PROVE  RequestsTraced'
<1>1. CASE SomeoneDecides
  BY <1>1, RequestsTracedWhenDecided DEF SomeoneDecides
<1>2. CASE SomeCodeInserted
  BY <1>2, RequestsTracedWhenCoded DEF SomeCodeInserted
<1>3. CASE ~SomeoneDecides /\ ~SomeCodeInserted
  BY <1>3, RequestsOfStep, CodesOfStep, HandlersOfStep, RequestsTracedWhenKept
<1> QED
  BY <1>1, <1>2, <1>3

-----------------------------------------------------------------------------
\* From the code to the grant.

AtRedemption(r) == request[r].step \in Redemption

\* A handler that goes on to open a grant has popped its code, and no grant was
\* opened for it yet.
RedeemedBeforeGrant ==
  \A r \in Request : AtRedemption(r) =>
    LET c == request[r].code IN
    /\ ~code[c].stored
    /\ \A g \in Grant : grant[g] # Absent => grant[g].code # c

SoleRedeemer ==
  \A r, s \in Request :
    AtRedemption(r) /\ AtRedemption(s) /\ request[r].code = request[s].code => r = s

\* A grant says what its code said.
GrantDescends(g) ==
  LET row == code[grant[g].code] IN
  /\ row # Absent /\ ~row.stored
  /\ row.account = grant[g].account /\ row.client = grant[g].client
  /\ row.resource = grant[g].resource /\ row.scope = grant[g].scope
GrantsDescend == \A g \in Grant : grant[g] # Absent => GrantDescends(g)

OneGrantPerCode ==
  \A g, h \in Grant :
    grant[g] # Absent /\ grant[h] # Absent /\ grant[g].code = grant[h].code => g = h

CodesTraced == RedeemedBeforeGrant /\ SoleRedeemer /\ GrantsDescend /\ OneGrantPerCode

LEMMA RedeemedCode ==
  ASSUME Kept, NEW r \in Request, AtRedemption(r)
  PROVE  request[r].code \in Code /\ code[request[r].code] # Absent
BY StateFields DEF Kept, HandlerSound, AtRedemption, Redemption, Redeeming

LEMMA GrantsCode ==
  ASSUME Kept, NEW g \in Grant, grant[g] # Absent
  PROVE  grant[g].code \in Code
BY RowTypes DEF Kept, GrantRow

LEMMA CodesTracedWhenKept ==
  ASSUME Kept, CodesTraced, CodesStay, GrantsStay, NoNewGrant,
         \A s \in Request : RedeemerStays(s)
  PROVE  CodesTraced'
<1>1. ASSUME NEW g \in Grant, grant'[g] # Absent
      PROVE  /\ grant[g] # Absent /\ grant[g].code \in Code
             /\ grant'[g].account = grant[g].account /\ grant'[g].client = grant[g].client
             /\ grant'[g].resource = grant[g].resource /\ grant'[g].scope = grant[g].scope
             /\ grant'[g].code = grant[g].code
  BY <1>1, GrantsCode DEF GrantsStay, NoNewGrant
<1>2. ASSUME NEW r \in Request, request'[r].step \in Redemption
      PROVE  /\ AtRedemption(r) /\ request'[r].code = request[r].code
             /\ request[r].code \in Code /\ code[request[r].code] # Absent
  BY <1>2, RedeemedCode DEF RedeemerStays, AtRedemption
<1>3. RedeemedBeforeGrant'
  <2> SUFFICES ASSUME NEW r \in Request, request'[r].step \in Redemption
               PROVE  LET c == request'[r].code IN
                      /\ ~code'[c].stored
                      /\ \A g \in Grant : grant'[g] # Absent => grant'[g].code # c
    BY DEF RedeemedBeforeGrant, AtRedemption
  <2>1. SameCode(code'[request[r].code], code[request[r].code])
    BY <1>2 DEF CodesStay
  <2>2. /\ ~code[request[r].code].stored
        /\ \A g \in Grant : grant[g] # Absent => grant[g].code # request[r].code
    BY <1>2 DEF CodesTraced, RedeemedBeforeGrant
  <2>3. ~code'[request[r].code].stored
    BY <2>1, <2>2 DEF SameCode
  <2>4. \A g \in Grant : grant'[g] # Absent => grant'[g].code # request[r].code
    BY <1>1, <2>2
  <2> QED
    BY <1>2, <2>3, <2>4
<1>4. SoleRedeemer'
  BY <1>2 DEF CodesTraced, SoleRedeemer, AtRedemption
<1>5. GrantsDescend'
  <2> SUFFICES ASSUME NEW g \in Grant, grant'[g] # Absent
               PROVE  GrantDescends(g)'
    BY DEF GrantsDescend
  <2>1. GrantDescends(g)
    BY <1>1 DEF CodesTraced, GrantsDescend
  <2>2. code'[grant[g].code] # Absent /\ SameCode(code'[grant[g].code], code[grant[g].code])
    BY <1>1, <2>1 DEF GrantDescends, CodesStay
  <2> QED
    BY <1>1, <2>1, <2>2 DEF GrantDescends, SameCode
<1>6. OneGrantPerCode'
  BY <1>1 DEF CodesTraced, OneGrantPerCode
<1> QED
  BY <1>3, <1>4, <1>5, <1>6 DEF CodesTraced

\* Popping a code: no grant was opened for it and nobody else redeems it, for
\* it was stored till now.
LEMMA CodesTracedWhenRedeemed ==
  ASSUME Kept, CodesTraced, NEW r \in Request, NEW c \in Code, NEW client \in Client,
         NEW matching \in BOOLEAN, Redeem(r, c, client, matching)
  PROVE  CodesTraced'
<1> DEFINE state == [step |-> "check grant", code |-> c, createdAt |-> now]
<1>1. /\ code[c] # Absent /\ code[c].stored /\ code'[c] # Absent /\ ~code'[c].stored
      /\ \A d \in Code : d # c => code'[d] = code[d]
      /\ Proceed(r, state) \/ UNCHANGED request
  BY RedeemEffect DEF Kept
<1>2. grant' = grant
  BY DEF Redeem, grants
<1>3. \A g \in Grant : grant[g] # Absent => grant[g].code # c
  BY <1>1 DEF CodesTraced, GrantsDescend, GrantDescends
<1>4. \A s \in Request : AtRedemption(s) => request[s].code # c
  BY <1>1 DEF CodesTraced, RedeemedBeforeGrant
<1>5. ASSUME NEW s \in Request, request'[s].step \in Redemption
      PROVE  \/ AtRedemption(s) /\ request'[s] = request[s]
             \/ s = r /\ request'[s].code = c
  <2>1. CASE Proceed(r, state)
    <3>1. state \in RequestState /\ state.code = c
      BY DEF RequestState, Redeeming, Kept, TypeOK
    <3> HIDE DEF state
    <3>2. request'[r] = state /\ \A w \in Request : w # r => request'[w] = request[w]
      BY <2>1, <3>1, ProceedTo DEF Kept
    <3> QED
      BY <1>5, <3>1, <3>2 DEF AtRedemption
  <2>2. CASE UNCHANGED request
    BY <1>5, <2>2 DEF AtRedemption
  <2> QED
    BY <1>1, <2>1, <2>2
<1>6. RedeemedBeforeGrant'
  <2> SUFFICES ASSUME NEW s \in Request, request'[s].step \in Redemption
               PROVE  LET d == request'[s].code IN
                      /\ ~code'[d].stored
                      /\ \A g \in Grant : grant[g] # Absent => grant[g].code # d
    BY <1>2 DEF RedeemedBeforeGrant, AtRedemption
  <2>1. CASE AtRedemption(s) /\ request'[s] = request[s]
    <3>1. request[s].code \in Code /\ request[s].code # c
      BY <1>4, <2>1, RedeemedCode
    <3> QED
      BY <1>1, <2>1, <3>1 DEF CodesTraced, RedeemedBeforeGrant
  <2>2. CASE s = r /\ request'[s].code = c
    BY <1>1, <1>3, <2>2
  <2> QED
    BY <1>5, <2>1, <2>2
<1>7. SoleRedeemer'
  <2> SUFFICES ASSUME NEW s \in Request, NEW w \in Request,
                      request'[s].step \in Redemption, request'[w].step \in Redemption,
                      request'[s].code = request'[w].code
               PROVE  s = w
    BY DEF SoleRedeemer, AtRedemption
  <2> QED
    BY <1>4, <1>5 DEF CodesTraced, SoleRedeemer
<1>8. GrantsDescend'
  <2> SUFFICES ASSUME NEW g \in Grant, grant[g] # Absent
               PROVE  GrantDescends(g)'
    BY <1>2 DEF GrantsDescend
  <2>1. GrantDescends(g) /\ grant[g].code \in Code /\ grant[g].code # c
    BY <1>3, GrantsCode DEF CodesTraced, GrantsDescend
  <2> QED
    BY <1>1, <1>2, <2>1 DEF GrantDescends
<1>9. OneGrantPerCode'
  BY <1>2 DEF CodesTraced, OneGrantPerCode
<1> QED
  BY <1>6, <1>7, <1>8, <1>9 DEF CodesTraced

\* Opening the grant, the only one for its code.
LEMMA CodesTracedWhenOpened ==
  ASSUME Kept, CodesTraced, CodesStay, GrantsStay, \A s \in Request : RedeemerStays(s),
         NEW r \in Request, NEW g \in Grant, NEW t \in RefreshToken, Opened(r, g, t)
  PROVE  CodesTraced'
<1> DEFINE c == request[r].code
<1>1. /\ AtRedemption(r) /\ c \in Code /\ code[c] # Absent
      /\ grant[g] = Absent /\ grant'[g].code = c
      /\ grant'[g].account = code[c].account /\ grant'[g].client = code[c].client
      /\ grant'[g].resource = code[c].resource /\ grant'[g].scope = code[c].scope
      /\ \A h \in Grant : h # g => grant'[h] = grant[h]
      /\ request'[r].step \notin Redemption
  BY RowsAreNotAbsent DEF Opened, AtRedemption, Redemption
<1>2. ~code[c].stored /\ \A h \in Grant : grant[h] # Absent => grant[h].code # c
  BY <1>1 DEF CodesTraced, RedeemedBeforeGrant
<1>3. code'[c] # Absent /\ SameCode(code'[c], code[c])
  BY <1>1 DEF CodesStay
<1>4. \A s \in Request : s # r /\ AtRedemption(s) => request[s].code # c
  BY <1>1 DEF CodesTraced, SoleRedeemer
<1> HIDE DEF c
<1>5. ASSUME NEW s \in Request, request'[s].step \in Redemption
      PROVE  /\ s # r /\ AtRedemption(s) /\ request'[s].code = request[s].code
             /\ request[s].code \in Code /\ code[request[s].code] # Absent
  BY <1>1, <1>5, RedeemedCode DEF RedeemerStays, AtRedemption
<1>6. RedeemedBeforeGrant'
  <2> SUFFICES ASSUME NEW s \in Request, request'[s].step \in Redemption
               PROVE  LET d == request'[s].code IN
                      /\ ~code'[d].stored
                      /\ \A h \in Grant : grant'[h] # Absent => grant'[h].code # d
    BY DEF RedeemedBeforeGrant, AtRedemption
  <2>1. SameCode(code'[request[s].code], code[request[s].code])
    BY <1>5 DEF CodesStay
  <2>2. /\ ~code[request[s].code].stored
        /\ \A h \in Grant : grant[h] # Absent => grant[h].code # request[s].code
    BY <1>5 DEF CodesTraced, RedeemedBeforeGrant
  <2>3. ~code'[request[s].code].stored
    BY <2>1, <2>2 DEF SameCode
  <2>4. \A h \in Grant : grant'[h] # Absent => grant'[h].code # request[s].code
    BY <1>1, <1>4, <1>5, <2>2
  <2> QED
    BY <1>5, <2>3, <2>4
<1>7. SoleRedeemer'
  BY <1>5 DEF CodesTraced, SoleRedeemer, AtRedemption
<1>8. GrantsDescend'
  <2> SUFFICES ASSUME NEW h \in Grant, grant'[h] # Absent
               PROVE  GrantDescends(h)'
    BY DEF GrantsDescend
  <2>1. CASE h = g
    BY <1>1, <1>2, <1>3, <2>1 DEF GrantDescends, SameCode
  <2>2. CASE h # g
    <3>1. GrantDescends(h) /\ grant'[h] = grant[h] /\ grant[h].code \in Code
      BY <1>1, <2>2, GrantsCode DEF CodesTraced, GrantsDescend
    <3>2. code'[grant[h].code] # Absent /\ SameCode(code'[grant[h].code], code[grant[h].code])
      BY <3>1 DEF GrantDescends, CodesStay
    <3> QED
      BY <3>1, <3>2 DEF GrantDescends, SameCode
  <2> QED
    BY <2>1, <2>2
<1>9. OneGrantPerCode'
  <2> SUFFICES ASSUME NEW h \in Grant, NEW k \in Grant, grant'[h] # Absent, grant'[k] # Absent,
                      grant'[h].code = grant'[k].code
               PROVE  h = k
    BY DEF OneGrantPerCode
  <2> QED
    BY <1>1, <1>2 DEF CodesTraced, OneGrantPerCode
<1> QED
  BY <1>6, <1>7, <1>8, <1>9 DEF CodesTraced

LEMMA StepCodesTraced ==
  ASSUME Kept, CodesTraced, [Next]_vars
  PROVE  CodesTraced'
<1>1. CASE SomeoneRedeems
  BY <1>1, CodesTracedWhenRedeemed DEF SomeoneRedeems
<1>2. CASE ~SomeoneRedeems /\ SomeGrantOpened
  <2>1. CodesStay /\ GrantsStay /\ \A s \in Request : RedeemerStays(s)
    BY <1>2, CodesOfStep, GrantsOfStep, HandlersOfStep
  <2> QED
    BY <1>2, <2>1, CodesTracedWhenOpened DEF SomeGrantOpened
<1>3. CASE ~SomeoneRedeems /\ ~SomeGrantOpened
  BY <1>3, CodesOfStep, GrantsOfStep, HandlersOfStep, CodesTracedWhenKept
<1> QED
  BY <1>1, <1>2, <1>3

-----------------------------------------------------------------------------
\* From the grant to the access tokens.

ScopesWithin ==
  /\ \A a \in accessTokens :
       grant[a.grant] # Absent /\ a.scope \subseteq grant[a.grant].scope
  /\ \A r \in Request : request[r].step = "spend" =>
       request[r].scope \subseteq grant[GrantOf(request[r].token)].scope

LEMMA StepScopesWithin ==
  ASSUME Kept, ScopesWithin, [Next]_vars
  PROVE  ScopesWithin'
<1>1. GrantsStay /\ TokensStay /\ \A s \in Request : SpenderStays(s)
  BY GrantsOfStep, HandlersOfStep
<1>2. \A a \in accessTokens : a.grant \in Grant
  BY DEF Kept, TypeOK, AccessToken
<1>3. ASSUME NEW a \in accessTokens
      PROVE  grant'[a.grant] # Absent /\ a.scope \subseteq grant'[a.grant].scope
  BY <1>1, <1>2 DEF ScopesWithin, GrantsStay
<1>4. ASSUME NEW a \in accessTokens' \ accessTokens
      PROVE  grant'[a.grant] # Absent /\ a.scope \subseteq grant'[a.grant].scope
  <2>1. CASE UNCHANGED grants
    BY <1>4, <2>1 DEF grants
  <2>2. ASSUME NEW r \in Request, NEW g \in Grant, NEW t \in RefreshToken, Opened(r, g, t)
        PROVE  grant'[a.grant] # Absent /\ a.scope \subseteq grant'[a.grant].scope
    <3> DEFINE fresh == [grant |-> g, scope |-> code[request[r].code].scope, beside |-> t]
    <3>1. /\ accessTokens' = accessTokens \union {fresh}
          /\ fresh.grant = g /\ fresh.scope = grant'[g].scope
          /\ grant'[g] # Absent
      BY <2>2, RowsAreNotAbsent DEF Opened
    <3> HIDE DEF fresh
    <3> QED
      BY <1>4, <3>1
  <2>3. ASSUME NEW r \in Request, NEW t \in RefreshToken, NEW u \in RefreshToken,
               Renewed(r, t, u)
        PROVE  grant'[a.grant] # Absent /\ a.scope \subseteq grant'[a.grant].scope
    <3> DEFINE fresh == [grant |-> GrantOf(t), scope |-> MintedScope(request[r]), beside |-> u]
    <3>1. /\ accessTokens' = accessTokens \union {fresh}
          /\ fresh.grant = GrantOf(t) /\ fresh.scope = MintedScope(request[r])
          /\ grant' = grant /\ grant[GrantOf(t)] # Absent
          /\ request[r].step = "spend" /\ t = request[r].token
      BY <2>3 DEF Renewed
    <3>2. MintedScope(request[r]) \subseteq grant[GrantOf(t)].scope
      BY <3>1 DEF ScopesWithin, MintedScope, GrantOf
    <3> HIDE DEF fresh
    <3> QED
      BY <1>4, <3>1, <3>2
  <2>4. ASSUME NEW t \in RefreshToken, Ended(t)
        PROVE  grant'[a.grant] # Absent /\ a.scope \subseteq grant'[a.grant].scope
    BY <1>4, <2>4 DEF Ended
  <2> QED
    BY <2>1, <2>2, <2>3, <2>4, KindsOfStep
<1>5. ASSUME NEW r \in Request, request'[r].step = "spend"
      PROVE  request'[r].scope \subseteq grant'[refreshToken'[request'[r].token].grant].scope
  <2>1. /\ request'[r].token = request[r].token /\ request'[r].scope = request[r].scope
        /\ request[r].step \in {"ask", "spend"}
        /\ request[r].scope \subseteq grant[GrantOf(request[r].token)].scope
    BY <1>1, <1>5 DEF SpenderStays, ScopesWithin, Renewable, GrantOf
  <2>2. /\ request[r].token \in RefreshToken /\ refreshToken[request[r].token] # Absent
        /\ GrantOf(request[r].token) \in Grant /\ grant[GrantOf(request[r].token)] # Absent
    BY <2>1, HolderRows
  <2> QED
    BY <1>1, <2>1, <2>2 DEF GrantsStay, TokensStay, GrantOf
<1> QED
  BY <1>3, <1>4, <1>5 DEF ScopesWithin, GrantOf

-----------------------------------------------------------------------------
Traced == RequestsTraced /\ CodesTraced /\ ScopesWithin

LEMMA InitTraced == Init => Traced
<1> SUFFICES ASSUME Init PROVE Traced
  OBVIOUS
<1>1. \A r \in Request : request[r].step = "idle"
  BY DEF Init, Idle
<1> QED
  BY <1>1 DEF Init, Traced, RequestsTraced, AllowedBeforeCode, SoleDecider, CodesDescend,
              OneCodePerRequest, AtDecision, CodesTraced, RedeemedBeforeGrant, SoleRedeemer,
              GrantsDescend, OneGrantPerCode, AtRedemption, Redemption, ScopesWithin

LEMMA AlwaysTraced == Spec => [](Kept /\ Traced)
<1>1. Init => Kept /\ Traced
  BY InitKept, InitTraced
<1>2. Kept /\ Traced /\ [Next]_vars => (Kept /\ Traced)'
  BY StepKept, StepRequestsTraced, StepCodesTraced, StepScopesWithin DEF Traced
<1> QED
  BY <1>1, <1>2, PTL DEF Spec

\* However long a grant was renewed, its access tokens are for the client, the
\* resource and the scope of a request its own user allowed.
THEOREM TokensConsented == Spec => []TokensRestOnConsent
<1>1. Kept /\ Traced => TokensRestOnConsent
  <2> SUFFICES ASSUME Kept, Traced, NEW a \in accessTokens PROVE Consented(a)
    BY DEF TokensRestOnConsent
  <2> DEFINE g == a.grant
             c == grant[g].code
  <2>1. g \in Grant /\ grant[g] # Absent /\ a.scope \subseteq grant[g].scope
    BY DEF Kept, TypeOK, AccessToken, Traced, ScopesWithin
  <2>2. c \in Code /\ code[c] # Absent /\ GrantDescends(g)
    BY <2>1, GrantsCode DEF Traced, CodesTraced, GrantsDescend, GrantDescends
  <2>3. CodeDescends(c)
    BY <2>2 DEF Traced, RequestsTraced, CodesDescend
  <2> QED
    BY <2>1, <2>2, <2>3 DEF Consented, GrantDescends, CodeDescends
<1> QED
  BY <1>1, AlwaysTraced, PTL

\* And a consent opens one grant, whoever answers it twice or redeems its code
\* twice, and at whatever moment.
THEOREM OneGrantEach == Spec => []OneGrantPerConsent
<1>1. Kept /\ Traced => OneGrantPerConsent
  <2> SUFFICES ASSUME Kept, Traced, NEW g \in Grant, NEW h \in Grant,
                      grant[g] # Absent, grant[h] # Absent,
                      code[grant[g].code].request = code[grant[h].code].request
               PROVE  g = h
    BY DEF OneGrantPerConsent, Issued
  <2>1. /\ grant[g].code \in Code /\ code[grant[g].code] # Absent
        /\ grant[h].code \in Code /\ code[grant[h].code] # Absent
    BY GrantsCode DEF Traced, CodesTraced, GrantsDescend, GrantDescends
  <2>2. grant[g].code = grant[h].code
    BY <2>1 DEF Traced, RequestsTraced, OneCodePerRequest
  <2> QED
    BY <2>2 DEF Traced, CodesTraced, OneGrantPerCode
<1> QED
  BY <1>1, AlwaysTraced, PTL

-----------------------------------------------------------------------------
\* Whom a token is issued for, and until when: a refresh that was let past its
\* check had begun while its grant lasted, and found its account active.

SpendInTime ==
  \A r \in Request : request[r].step = "spend" =>
    request[r].start < grant[GrantOf(request[r].token)].createdAt + GrantLifetime

LEMMA StepSpendInTime ==
  ASSUME Kept, SpendInTime, [Next]_vars
  PROVE  SpendInTime'
<1> SUFFICES ASSUME NEW r \in Request, request'[r].step = "spend"
             PROVE  request'[r].start
                      < grant'[refreshToken'[request'[r].token].grant].createdAt + GrantLifetime
  BY DEF SpendInTime, GrantOf
<1>1. GrantsStay /\ TokensStay /\ SpenderStays(r)
  BY GrantsOfStep, HandlersOfStep
<1>2. /\ request'[r].token = request[r].token /\ request'[r].start = request[r].start
      /\ request[r].step \in {"ask", "spend"}
      /\ request[r].start < grant[GrantOf(request[r].token)].createdAt + GrantLifetime
  BY <1>1 DEF SpenderStays, SpendInTime, Renewable, GrantOf
<1>3. /\ request[r].token \in RefreshToken /\ refreshToken[request[r].token] # Absent
      /\ GrantOf(request[r].token) \in Grant /\ grant[GrantOf(request[r].token)] # Absent
  BY <1>2, HolderRows
<1> QED
  BY <1>1, <1>2, <1>3 DEF GrantsStay, TokensStay, GrantOf

\* An access token comes with a grant that is opened, or of a refresh past its check.
LEMMA NewTokenFrom ==
  ASSUME Kept, [Next]_vars, NEW a \in accessTokens' \ accessTokens
  PROVE  \/ grant[a.grant] = Absent
         \/ \E r \in Request : request[r].step = "spend" /\ GrantOf(request[r].token) = a.grant
<1>1. CASE UNCHANGED grants
  BY <1>1 DEF grants
<1>2. ASSUME NEW r \in Request, NEW g \in Grant, NEW t \in RefreshToken, Opened(r, g, t)
      PROVE  grant[a.grant] = Absent
  <2> DEFINE fresh == [grant |-> g, scope |-> code[request[r].code].scope, beside |-> t]
  <2>1. accessTokens' = accessTokens \union {fresh} /\ fresh.grant = g /\ grant[g] = Absent
    BY <1>2 DEF Opened
  <2> HIDE DEF fresh
  <2> QED
    BY <2>1
<1>3. ASSUME NEW r \in Request, NEW t \in RefreshToken, NEW u \in RefreshToken, Renewed(r, t, u)
      PROVE  request[r].step = "spend" /\ GrantOf(request[r].token) = a.grant
  <2> DEFINE fresh == [grant |-> GrantOf(t), scope |-> MintedScope(request[r]), beside |-> u]
  <2>1. /\ accessTokens' = accessTokens \union {fresh} /\ fresh.grant = GrantOf(t)
        /\ request[r].step = "spend" /\ t = request[r].token
    BY <1>3 DEF Renewed
  <2> HIDE DEF fresh
  <2> QED
    BY <2>1
<1>4. ASSUME NEW t \in RefreshToken, Ended(t)
      PROVE  FALSE
  BY <1>4 DEF Ended
<1> QED
  BY <1>1, <1>2, <1>3, <1>4, KindsOfStep

\* A grant ends GrantLifetime after its code was redeemed, however often it was
\* renewed, but for a refresh that arrived in time.
THEOREM GrantEnds == Spec => GrantIsOver
<1> DEFINE Finished ==
      \A g \in Grant :
        Issued(g) /\ Over(g) /\ ~(\E r \in Request : InTime(r, g)) => NewTokens(g) = {}
<1>1. Init => SpendInTime
  BY DEF Init, SpendInTime, Idle
<1>2. Kept /\ SpendInTime /\ [Next]_vars => SpendInTime'
  BY StepSpendInTime
<1>3. Kept /\ SpendInTime /\ [Next]_vars => [Finished]_vars
  <2> SUFFICES ASSUME Kept, SpendInTime, [Next]_vars, NEW g \in Grant, Issued(g),
                      ~(\E r \in Request : InTime(r, g)),
                      NEW a \in accessTokens' \ accessTokens, a.grant = g
               PROVE  FALSE
    BY DEF NewTokens
  <2>1. PICK r \in Request : request[r].step = "spend" /\ GrantOf(request[r].token) = g
    BY NewTokenFrom DEF Issued
  <2> QED
    BY <2>1 DEF SpendInTime, InTime
<1>4. GrantIsOver <=> [][Finished]_vars
  BY DEF GrantIsOver
<1> QED
  BY <1>1, <1>2, <1>3, <1>4, GrantsKept, PTL DEF Spec

\* A handler is past its check on behalf of an account only if it was before, or
\* has just found the account active.
LEMMA CheckedBefore ==
  ASSUME Kept, [Next]_vars, NEW x \in Account, ~AccountActive(x),
         NEW r \in Request, r \in Checked(x)'
  PROVE  r \in Checked(x)
<1>1. GrantsStay /\ TokensStay /\ CodesStay /\ SpenderStays(r) /\ CheckerStays(r)
  BY GrantsOfStep, CodesOfStep, HandlersOfStep
<1>2. CASE request'[r].step = "insert grant" /\ code'[request'[r].code].account = x
  <2>1. /\ request[r].step \in Redemption /\ request'[r].code = request[r].code
        /\ request[r].step = "insert grant" \/ Grantable(code[request[r].code])
    BY <1>1, <1>2 DEF CheckerStays, Redemption
  <2>2. request[r].code \in Code /\ code[request[r].code] # Absent
    BY <2>1, StateFields DEF Kept, HandlerSound, Redemption, Redeeming
  <2>3. code[request[r].code].account = x
    BY <1>1, <1>2, <2>1, <2>2 DEF CodesStay, SameCode
  <2> QED
    BY <2>1, <2>3 DEF Grantable, Checked, CheckedCode
<1>3. CASE request'[r].step = "spend" /\ grant'[refreshToken'[request'[r].token].grant].account = x
  <2>1. /\ request[r].step \in {"ask", "spend"} /\ request'[r].token = request[r].token
        /\ request[r].step = "spend" \/ Grantable(grant[GrantOf(request[r].token)])
    BY <1>1, <1>3 DEF SpenderStays, Renewable, GrantOf
  <2>2. /\ request[r].token \in RefreshToken /\ refreshToken[request[r].token] # Absent
        /\ GrantOf(request[r].token) \in Grant /\ grant[GrantOf(request[r].token)] # Absent
    BY <2>1, HolderRows
  <2>3. grant[GrantOf(request[r].token)].account = x
    BY <1>1, <1>3, <2>1, <2>2 DEF GrantsStay, TokensStay, GrantOf
  <2> QED
    BY <2>1, <2>3 DEF Grantable, Checked, CheckedToken
<1> QED
  BY <1>2, <1>3 DEF Checked, CheckedCode, CheckedToken, GrantOf

\* Locking or deleting an account ends its tokens with the handlers that asked
\* about it before.
THEOREM InactiveGetsNone == Spec => InactiveAccountGetsNone
<1> DEFINE Refused ==
      \A x \in Account :
        ~AccountActive(x) /\ Checked(x) = {} =>
          /\ Checked(x)' = {}
          /\ \A g \in Grant : Issued(g) /\ grant[g].account = x => NewTokens(g) = {}
<1>1. Kept /\ [Next]_vars => [Refused]_vars
  <2> SUFFICES ASSUME Kept, [Next]_vars, NEW x \in Account, ~AccountActive(x), Checked(x) = {}
               PROVE  /\ Checked(x)' = {}
                      /\ \A g \in Grant : Issued(g) /\ grant[g].account = x => NewTokens(g) = {}
    OBVIOUS
  <2>1. Checked(x)' = {}
    <3>1. Checked(x)' \subseteq Request
      BY DEF Checked
    <3> QED
      BY <3>1, CheckedBefore
  <2>2. ASSUME NEW g \in Grant, Issued(g), grant[g].account = x,
               NEW a \in accessTokens' \ accessTokens, a.grant = g
        PROVE  FALSE
    <3>1. PICK r \in Request : request[r].step = "spend" /\ GrantOf(request[r].token) = g
      BY <2>2, NewTokenFrom DEF Issued
    <3> QED
      BY <2>2, <3>1 DEF Checked, CheckedToken
  <2> QED
    BY <2>1, <2>2 DEF NewTokens
<1>2. InactiveAccountGetsNone <=> [][Refused]_vars
  BY DEF InactiveAccountGetsNone
<1> QED
  BY <1>1, <1>2, GrantsKept, PTL DEF Spec

-----------------------------------------------------------------------------
\* Clients.

\* A document was the published one when the answer that holds it was asked for or
\* later, whoever still holds it: a request, or the cache with what is left of MaxTtl.
\* A request that waits for its answer was registered with what the service ran with less
\* than ConsentLifetime before its expiry.
WasWithin(s) ==
  \E conf \in Configuration :
    LastRunning(conf) >= s.expiresAt - ConsentLifetime /\ WasRegistered(conf, s.uri)

SoundCall(s) ==
  /\ s # IdleCall => s.at <= clock
  /\ s.step = "store" => LastPublished(s.uris) >= s.at
  /\ s.step \in {"consent", "sent"} /\ s.kind = "document" =>
       \E d \in Document :
         AllowsRedirectUri(d, s.uri) /\ LastPublished(d) > s.at - MaxTtl
  /\ s.step = "consent" /\ s.kind = "registered" => WasWithin(s)

CallsSound == \A c \in Call : SoundCall(call[c])
WithdrawnPast == \A d \in Document : last[d] <= clock
RunPast == \A conf \in Configuration : lastRun[conf] <= clock
CachedRecently == cache # None => LastPublished(cache.uris) >= cache.expiresAt - MaxTtl

ClientsKept == ClientsTypeOK /\ CallsSound /\ WithdrawnPast /\ RunPast /\ CachedRecently

\* A document published is as recent as can be, and none is so after now.
LEMMA LastPublishedFacts ==
  ASSUME ClientsTypeOK, NEW d \in Document
  PROVE  /\ LastPublished(d) \in Int
         /\ WithdrawnPast => LastPublished(d) <= clock
BY DEF ClientsTypeOK, WithdrawnPast, LastPublished

\* So it is with the configurations the service ran with.
LEMMA LastRunningFacts ==
  ASSUME ClientsTypeOK, NEW conf \in Configuration
  PROVE  LastRunning(conf) \in Int
BY DEF ClientsTypeOK, LastRunning

LEMMA CallStates ==
  ASSUME NEW s \in CallState
  PROVE  /\ s # IdleCall => s.at \in Nat
         /\ s.step = "fetch" => s \in Fetching
         /\ s.step = "store" => s \in Fetched
         /\ s.step = "consent" => s \in Consenting
         /\ s.step = "sent" => s \in Sent
BY DEF CallState, IdleCall, Fetching, Fetched, Consenting, Sent

\* What Cache-Control may give is at most MaxTtl, though it may be below zero.
LEMMA CacheTtlFacts ==
  \A ttl \in CacheTtl : ttl \in Int /\ ttl <= MaxTtl
<1>1. ASSUME NEW d \in Int PROVE Capped(d) \in Int /\ Capped(d) <= MaxTtl
  BY ClientsAssumption DEF Capped, Smaller
<1>2. ASSUME NEW seconds \in MaxAge PROVE Wrapped(seconds * Second) \in Int
  <2>1. seconds * Second \in Nat /\ Half \in Nat \ {0}
    BY ClientsAssumption
  <2>2. seconds * Second + Half \in Int /\ 2 * Half \in Nat \ {0}
    BY <2>1
  <2>3. (seconds * Second + Half) % (2 * Half) \in Int
    BY <2>2
  <2> QED BY <2>1, <2>3 DEF Wrapped
<1> QED BY <1>1, <1>2, ClientsAssumption DEF CacheTtl

\* What the registrar admits of an id is admitted and named by it.
LEMMA Admitted ==
  ASSUME NEW id \in issued, id.key = key, NEW u,
         AllowsRedirectUri(id.uris \intersect rules, u)
  PROVE  WasRegistered(running, u)
BY DEF WasRegistered, AllowsRedirectUri, key, rules

\* Time, a document published and an id registered take nothing from a request, nor does
\* another configuration from one that is stored.
LEMMA LaterSoundCall ==
  ASSUME ClientsTypeOK, ClientsTypeOK', NEW s \in CallState, SoundCall(s),
         clock' >= clock, issued \subseteq issued',
         \A d \in Document : LastPublished(d)' >= LastPublished(d),
         \A conf \in Configuration : LastRunning(conf)' >= LastRunning(conf)
  PROVE  SoundCall(s)'
<1>1. \A d \in Document : LastPublished(d) \in Int /\ LastPublished(d)' \in Int
  BY LastPublishedFacts DEF ClientsTypeOK, LastPublished
<1>2. clock \in Nat /\ clock' \in Nat /\ MaxTtl \in Nat /\ ConsentLifetime \in Nat
  BY ClientsAssumption DEF ClientsTypeOK
<1>3. s # IdleCall => s.at <= clock'
  BY <1>2, CallStates DEF SoundCall
<1>4. ASSUME s.step = "store" PROVE LastPublished(s.uris)' >= s.at
  <2>1. s.uris \in Document /\ s.at \in Nat
    BY <1>4, CallStates DEF Fetched
  <2>2. LastPublished(s.uris) >= s.at
    BY <1>4 DEF SoundCall
  <2> QED BY <1>1, <2>1, <2>2
<1>5. ASSUME s.step \in {"consent", "sent"}, s.kind = "document"
      PROVE \E d \in Document : /\ AllowsRedirectUri(d, s.uri)
                                /\ LastPublished(d)' > s.at - MaxTtl
  <2>1. s.at \in Nat
    BY <1>5, CallStates DEF Consenting, Sent
  <2>2. PICK d \in Document :
          AllowsRedirectUri(d, s.uri) /\ LastPublished(d) > s.at - MaxTtl
    BY <1>5 DEF SoundCall
  <2>3. LastPublished(d)' > s.at - MaxTtl
    BY <1>1, <1>2, <2>1, <2>2
  <2> QED BY <2>2, <2>3
<1>6. ASSUME s.step = "consent", s.kind = "registered" PROVE WasWithin(s)'
  <2>1. s.expiresAt \in Nat
    BY <1>6, CallStates DEF Consenting
  <2>2. PICK conf \in Configuration :
          LastRunning(conf) >= s.expiresAt - ConsentLifetime /\ WasRegistered(conf, s.uri)
    BY <1>6 DEF SoundCall, WasWithin
  <2>3. LastRunning(conf) \in Int /\ LastRunning(conf)' \in Int
    BY LastRunningFacts DEF ClientsTypeOK, LastRunning
  <2>4. LastRunning(conf)' >= LastRunning(conf)
    OBVIOUS
  <2>5. LastRunning(conf)' >= s.expiresAt - ConsentLifetime
    BY <1>2, <2>1, <2>2, <2>3, <2>4
  <2>6. WasRegistered(conf, s.uri)'
    BY <2>2 DEF WasRegistered, AllowsRedirectUri
  <2> QED BY <2>5, <2>6 DEF WasWithin, WasRegistered, AllowsRedirectUri
<1> QED BY <1>3, <1>4, <1>5, <1>6 DEF SoundCall, AllowsRedirectUri

LEMMA LaterSound ==
  ASSUME ClientsTypeOK, ClientsTypeOK', CallsSound,
         \A c \in Call : call'[c] = call[c] \/ call'[c] = IdleCall,
         clock' >= clock, issued \subseteq issued',
         \A d \in Document : LastPublished(d)' >= LastPublished(d),
         \A conf \in Configuration : LastRunning(conf)' >= LastRunning(conf)
  PROVE  CallsSound'
<1> SUFFICES ASSUME NEW c \in Call PROVE SoundCall(call[c])'
  BY DEF CallsSound
<1>1. CASE call'[c] = IdleCall
  BY <1>1 DEF SoundCall, IdleCall
<1>2. CASE call'[c] = call[c]
  <2>1. PICK s \in CallState : s = call[c] /\ s = call'[c]
    BY <1>2 DEF ClientsTypeOK
  <2>2. SoundCall(s)
    BY <2>1 DEF CallsSound
  <2>3. SoundCall(s)'
    BY <2>2, LaterSoundCall
  <2> QED BY <2>1, <2>3 DEF SoundCall, WasWithin, WasRegistered, AllowsRedirectUri
<1> QED BY <1>1, <1>2

LEMMA LaterRecent ==
  ASSUME ClientsTypeOK, ClientsTypeOK', CachedRecently, UNCHANGED cache,
         \A d \in Document : LastPublished(d)' >= LastPublished(d)
  PROVE  CachedRecently'
<1> SUFFICES ASSUME cache # None PROVE LastPublished(cache.uris)' >= cache.expiresAt - MaxTtl
  BY DEF CachedRecently
<1>1. cache.expiresAt \in Int /\ MaxTtl \in Nat
  BY ClientsAssumption DEF ClientsTypeOK, Entry
<1>2. PICK d \in Document : d = cache.uris /\ d = cache'.uris
  BY DEF ClientsTypeOK, Entry
<1>3. LastPublished(d) \in Int /\ LastPublished(d)' \in Int
  BY LastPublishedFacts DEF ClientsTypeOK, LastPublished
<1>4. LastPublished(d)' >= cache.expiresAt - MaxTtl
  BY <1>1, <1>2, <1>3 DEF CachedRecently
<1> QED BY <1>2, <1>4 DEF LastPublished

\* A request goes on, and the cache holds what it did or what may be cached.
LEMMA GoesOn ==
  ASSUME ClientsKept, NEW c \in Call, NEW s \in CallState, SoundCall(s), Goto(c, s),
         UNCHANGED <<clock, running, lastRun, issued, published, last>>,
         cache' \in Entry \union {None}, CachedRecently'
  PROVE  ClientsKept'
<1>1. /\ call' \in [Call -> CallState] /\ call'[c] = s
      /\ \A d \in Call : d # c => call'[d] = call[d]
  BY DEF ClientsKept, ClientsTypeOK, Goto
<1>2. ClientsTypeOK'
  BY <1>1 DEF ClientsKept, ClientsTypeOK
<1>3. CallsSound'
  BY <1>1 DEF ClientsKept, CallsSound, SoundCall, LastPublished, WasWithin, WasRegistered,
              LastRunning
<1>4. WithdrawnPast' /\ RunPast'
  BY DEF ClientsKept, WithdrawnPast, RunPast
<1> QED BY <1>2, <1>3, <1>4 DEF ClientsKept

\* What the endpoint asks of a client's URIs is all that a request has to have that waits
\* for consent or was sent back.
LEMMA Authorized ==
  ASSUME ClientsKept, NEW c \in Call, NEW uris, NEW at \in Nat, at <= clock,
         NEW kind \in Kind,
         kind = "document" => uris \in Document /\ LastPublished(uris) > at - MaxTtl,
         kind = "registered" => \E id \in issued : id.key = key /\ uris = id.uris \intersect rules,
         AuthorizeClient(c, kind, uris, at)
  PROVE  \E s \in CallState : SoundCall(s) /\ Goto(c, s)
<1> PICK u \in Uri :
      IF AllowsRedirectUri(uris, u)
      THEN \/ Goto(c, [step |-> "consent", at |-> at, uri |-> u, kind |-> kind,
                       expiresAt |-> clock + ConsentLifetime])
           \/ Goto(c, [step |-> "sent", at |-> at, uri |-> u, kind |-> kind])
      ELSE Goto(c, IdleCall)
  BY DEF AuthorizeClient
<1>1. CASE ~AllowsRedirectUri(uris, u)
  <2>1. IdleCall \in CallState /\ SoundCall(IdleCall)
    BY DEF CallState, SoundCall, IdleCall
  <2> QED BY <1>1, <2>1
<1>2. CASE AllowsRedirectUri(uris, u)
  <2> DEFINE s == [step |-> "consent", at |-> at, uri |-> u, kind |-> kind,
                   expiresAt |-> clock + ConsentLifetime]
             t == [step |-> "sent", at |-> at, uri |-> u, kind |-> kind]
  <2>1. clock \in Nat /\ ConsentLifetime \in Nat /\ running \in Configuration
    BY ClientsAssumption DEF ClientsKept, ClientsTypeOK
  <2>2. clock + ConsentLifetime \in Nat
        /\ clock >= clock + ConsentLifetime - ConsentLifetime
    BY <2>1
  <2>3. s \in CallState /\ t \in CallState
    BY <2>2 DEF CallState, Consenting, Sent
  <2>4. kind = "registered" => WasRegistered(running, u)
    BY <1>2, Admitted
  <2>5. /\ s.step = "consent" /\ s.at = at /\ s.uri = u /\ s.kind = kind
        /\ s.expiresAt = clock + ConsentLifetime
        /\ t.step = "sent" /\ t.at = at /\ t.uri = u /\ t.kind = kind
    OBVIOUS
  <2>6. Goto(c, s) \/ Goto(c, t)
    BY <1>2
  <2> HIDE DEF s, t
  <2>7. kind = "registered" => WasWithin(s)
    BY <2>1, <2>2, <2>4, <2>5 DEF WasWithin, LastRunning
  <2>8. SoundCall(s)
    BY <1>2, <2>5, <2>7 DEF SoundCall
  <2>9. SoundCall(t)
    BY <1>2, <2>5 DEF SoundCall
  <2> QED BY <2>3, <2>6, <2>8, <2>9
<1> QED BY <1>1, <1>2

LEMMA ClientsInitKept == ClientsInit => ClientsKept
<1> SUFFICES ASSUME ClientsInit PROVE ClientsKept
  OBVIOUS
<1>1. ClientsTypeOK
  BY DEF ClientsInit, ClientsTypeOK, CallState
<1>2. SoundCall(IdleCall)
  BY DEF SoundCall, IdleCall
<1> QED BY <1>1, <1>2 DEF ClientsInit, ClientsKept, CallsSound, WithdrawnPast, RunPast,
                          CachedRecently

LEMMA RegisterKept ==
  ASSUME ClientsKept, NEW uris \in SUBSET Uri, Register(uris)
  PROVE  ClientsKept'
<1>1. ClientsTypeOK'
  <2>1. key \in Key
    BY ClientsAssumption DEF ClientsKept, ClientsTypeOK, key
  <2> QED BY <2>1 DEF ClientsKept, ClientsTypeOK, Register, Registrable, Id
<1>2. \A d \in Document : LastPublished(d)' >= LastPublished(d)
  BY LastPublishedFacts DEF ClientsKept, Register, LastPublished
<1>3. /\ clock' >= clock /\ UNCHANGED call /\ issued \subseteq issued'
      /\ \A conf \in Configuration : LastRunning(conf)' >= LastRunning(conf)
  BY LastRunningFacts DEF ClientsKept, ClientsTypeOK, Register, LastRunning
<1>4. CallsSound'
  BY <1>1, <1>2, <1>3, LaterSound DEF ClientsKept
<1> QED BY <1>1, <1>4 DEF ClientsKept, Register, WithdrawnPast, RunPast, CachedRecently,
                          LastPublished

LEMMA ResolveRegisteredKept ==
  ASSUME ClientsKept, NEW c \in Call, NEW id \in issued, ResolveRegistered(c, id)
  PROVE  ClientsKept'
<1>1. id.key = key /\ Resolved(id) = id.uris \intersect rules
  BY DEF ResolveRegistered, Resolved
<1>2. clock \in Nat
  BY DEF ClientsKept, ClientsTypeOK
<1>3. PICK s \in CallState : SoundCall(s) /\ Goto(c, s)
  BY <1>1, <1>2, Authorized DEF ResolveRegistered, Kind
<1>4. cache' \in Entry \union {None} /\ CachedRecently'
  BY DEF ResolveRegistered, ClientsKept, ClientsTypeOK, CachedRecently, LastPublished
<1> QED BY <1>3, <1>4, GoesOn DEF ResolveRegistered

LEMMA FetchDocumentKept ==
  ASSUME ClientsKept, NEW c \in Call, FetchDocument(c)
  PROVE  ClientsKept'
<1>1. clock \in Nat
  BY DEF ClientsKept, ClientsTypeOK
<1>2. \E s \in CallState : SoundCall(s) /\ Goto(c, s)
  <2>1. CASE Fresh(clock)
    <3>1. cache \in Entry /\ clock < cache.expiresAt
      BY <2>1 DEF Fresh, ClientsKept, ClientsTypeOK
    <3>2. cache.uris \in Document /\ cache.expiresAt \in Int /\ MaxTtl \in Nat
      BY <3>1, ClientsAssumption DEF Entry
    <3>3. LastPublished(cache.uris) \in Int
      BY <3>2, LastPublishedFacts DEF ClientsKept
    <3>4. LastPublished(cache.uris) >= cache.expiresAt - MaxTtl
      BY <2>1 DEF Fresh, ClientsKept, CachedRecently
    <3>5. LastPublished(cache.uris) > clock - MaxTtl
      BY <1>1, <3>1, <3>2, <3>3, <3>4
    <3>6. AuthorizeClient(c, "document", cache.uris, clock)
      BY <2>1 DEF FetchDocument
    <3> QED BY <1>1, <3>2, <3>5, <3>6, Authorized DEF Kind
  <2>2. CASE ~Fresh(clock)
    <3> DEFINE s == [step |-> "fetch", at |-> clock]
    <3>1. s \in CallState
      BY <1>1 DEF CallState, Fetching
    <3>2. SoundCall(s)
      BY <1>1 DEF SoundCall
    <3> QED BY <2>2, <3>1, <3>2 DEF FetchDocument
  <2> QED BY <2>1, <2>2
<1>3. cache' \in Entry \union {None} /\ CachedRecently'
  BY DEF FetchDocument, ClientsKept, ClientsTypeOK, CachedRecently, LastPublished
<1> QED BY <1>2, <1>3, GoesOn DEF FetchDocument

\* The answer is what is published now, and the request was begun before.
LEMMA RespondKept ==
  ASSUME ClientsKept, NEW c \in Call, Respond(c)
  PROVE  ClientsKept'
<1> DEFINE s == [step |-> "store", at |-> call[c].at, uris |-> published]
<1>1. call[c] \in CallState /\ call[c].step = "fetch" /\ SoundCall(call[c])
  BY DEF Respond, ClientsKept, ClientsTypeOK, CallsSound
<1>2. call[c].at \in Nat /\ call[c] # IdleCall
  BY <1>1, CallStates DEF Fetching, IdleCall
<1>3. call[c].at <= clock /\ published \in Document
  BY <1>1, <1>2 DEF SoundCall, Respond, ClientsKept, ClientsTypeOK
<1>4. s \in CallState
  BY <1>2, <1>3 DEF CallState, Fetched
<1>5. SoundCall(s)
  BY <1>3 DEF SoundCall, LastPublished
<1>6. cache' \in Entry \union {None} /\ CachedRecently'
  BY DEF Respond, ClientsKept, ClientsTypeOK, CachedRecently, LastPublished
<1> QED BY <1>4, <1>5, <1>6, GoesOn DEF Respond

\* An answer may be older than its cache entry will be, by no more than its lifetime.
LEMMA StoreDocumentKept ==
  ASSUME ClientsKept, NEW c \in Call, NEW ttl \in CacheTtl, StoreDocument(c, ttl)
  PROVE  ClientsKept'
<1>1. call[c] \in CallState /\ call[c].step = "store" /\ SoundCall(call[c])
  BY DEF StoreDocument, ClientsKept, ClientsTypeOK, CallsSound
<1>2. call[c].at \in Nat /\ call[c].uris \in Document /\ call[c] # IdleCall
  BY <1>1, CallStates DEF Fetched, IdleCall
<1>3. call[c].at <= clock /\ LastPublished(call[c].uris) >= call[c].at
  BY <1>1, <1>2 DEF SoundCall
<1>4. LastPublished(call[c].uris) \in Int
  BY <1>2, LastPublishedFacts DEF ClientsKept
<1>5. ttl \in Int /\ ttl <= MaxTtl /\ MaxTtl \in Nat \ {0}
  BY CacheTtlFacts, ClientsAssumption
<1>6. LastPublished(call[c].uris) > call[c].at - MaxTtl
  BY <1>2, <1>3, <1>4, <1>5
<1>7. PICK s \in CallState : SoundCall(s) /\ Goto(c, s)
  BY <1>2, <1>3, <1>6, Authorized DEF StoreDocument, Kind
<1>8. cache' \in Entry \union {None} /\ CachedRecently'
  <2>1. CASE ttl > 0
    <3>1. cache' = [uris |-> call[c].uris, expiresAt |-> call[c].at + ttl]
      BY <2>1 DEF StoreDocument, FromRequest
    <3>2. cache' \in Entry /\ cache'.uris = call[c].uris /\ cache'.expiresAt = call[c].at + ttl
      BY <1>2, <1>5, <3>1 DEF Entry
    <3>3. LastPublished(call[c].uris) >= cache'.expiresAt - MaxTtl
      BY <1>2, <1>3, <1>4, <1>5, <3>2
    <3> QED BY <3>2, <3>3 DEF CachedRecently, LastPublished, StoreDocument
  <2>2. CASE ~(ttl > 0)
    BY <2>2 DEF StoreDocument, ClientsKept, ClientsTypeOK, CachedRecently, LastPublished
  <2> QED BY <2>1, <2>2
<1> QED BY <1>7, <1>8, GoesOn DEF StoreDocument

LEMMA DecideClientKept ==
  ASSUME ClientsKept, NEW c \in Call, DecideClient(c)
  PROVE  ClientsKept'
<1>1. call[c] \in CallState /\ call[c].step = "consent" /\ SoundCall(call[c])
  BY DEF DecideClient, ClientsKept, ClientsTypeOK, CallsSound
<1>2. call[c] \in Consenting /\ call[c] # IdleCall
  BY <1>1, CallStates DEF IdleCall
<1> DEFINE s == [step |-> "sent", at |-> call[c].at, uri |-> call[c].uri, kind |-> call[c].kind]
<1>3. s \in CallState /\ IdleCall \in CallState
  BY <1>2 DEF CallState, Consenting, Sent
<1>4. SoundCall(s)
  <2>1. /\ s.step = "sent" /\ s.at = call[c].at /\ s.uri = call[c].uri
        /\ s.kind = call[c].kind
    OBVIOUS
  <2> HIDE DEF s
  <2> QED BY <1>1, <1>2, <2>1 DEF SoundCall
<1>5. SoundCall(IdleCall)
  BY DEF SoundCall, IdleCall
<1>6. cache' \in Entry \union {None} /\ CachedRecently'
  BY DEF DecideClient, ClientsKept, ClientsTypeOK, CachedRecently, LastPublished
<1>7. Goto(c, s) \/ Goto(c, IdleCall)
  BY DEF DecideClient
<1> QED BY <1>3, <1>4, <1>5, <1>6, <1>7, GoesOn DEF DecideClient

LEMMA LeaveKept ==
  ASSUME ClientsKept, NEW c \in Call, Leave(c)
  PROVE  ClientsKept'
<1>1. IdleCall \in CallState /\ SoundCall(IdleCall)
  BY DEF CallState, SoundCall, IdleCall
<1>2. cache' \in Entry \union {None} /\ CachedRecently'
  BY DEF Leave, ClientsKept, ClientsTypeOK, CachedRecently, LastPublished
<1> QED BY <1>1, <1>2, GoesOn DEF Leave

\* A document that its owner takes back was the published one until now.
LEMMA PublishKept ==
  ASSUME ClientsKept, NEW d \in Document \union {None}, Publish(d)
  PROVE  ClientsKept'
<1>1. ClientsTypeOK'
  BY DEF ClientsKept, ClientsTypeOK, Publish
<1>2. WithdrawnPast'
  BY DEF ClientsKept, ClientsTypeOK, WithdrawnPast, Publish
<1>3. \A x \in Document : LastPublished(x)' >= LastPublished(x)
  BY NoneAssumption DEF ClientsKept, ClientsTypeOK, WithdrawnPast, Publish, LastPublished
<1>4. /\ clock' >= clock /\ UNCHANGED <<call, cache>> /\ issued \subseteq issued'
      /\ \A conf \in Configuration : LastRunning(conf)' >= LastRunning(conf)
  BY LastRunningFacts DEF ClientsKept, ClientsTypeOK, Publish, LastRunning
<1>5. CallsSound' /\ CachedRecently'
  BY <1>1, <1>3, <1>4, LaterSound, LaterRecent DEF ClientsKept
<1> QED BY <1>1, <1>2, <1>5 DEF ClientsKept, Publish, RunPast

\* What the service ran with until now is as recent as can be.
LEMMA RestartServiceKept ==
  ASSUME ClientsKept, NEW s \in Configuration, RestartService(s)
  PROVE  ClientsKept'
<1>1. ClientsTypeOK'
  BY DEF ClientsKept, ClientsTypeOK, RestartService, CallState
<1>2. RunPast'
  BY DEF ClientsKept, ClientsTypeOK, RunPast, RestartService
<1>3. \A conf \in Configuration : LastRunning(conf)' >= LastRunning(conf)
  BY DEF ClientsKept, ClientsTypeOK, RunPast, RestartService, LastRunning
<1>4. /\ \A d \in Document : LastPublished(d)' >= LastPublished(d)
      /\ clock' >= clock /\ issued \subseteq issued'
  BY LastPublishedFacts DEF ClientsKept, ClientsTypeOK, RestartService, LastPublished
<1>5. \A c \in Call : call'[c] = call[c] \/ call'[c] = IdleCall
  BY DEF RestartService
<1>6. CallsSound'
  BY <1>1, <1>3, <1>4, <1>5, LaterSound DEF ClientsKept
<1> QED BY <1>1, <1>2, <1>6 DEF ClientsKept, RestartService, WithdrawnPast, CachedRecently

LEMMA TickClockKept ==
  ASSUME ClientsKept, TickClock
  PROVE  ClientsKept'
<1>1. ClientsTypeOK'
  BY DEF ClientsKept, ClientsTypeOK, TickClock
<1>2. \A d \in Document : LastPublished(d)' >= LastPublished(d)
  BY DEF ClientsKept, ClientsTypeOK, TickClock, LastPublished
<1>3. /\ clock' >= clock /\ UNCHANGED <<call, cache>> /\ issued \subseteq issued'
      /\ \A conf \in Configuration : LastRunning(conf)' >= LastRunning(conf)
  BY LastRunningFacts DEF ClientsKept, ClientsTypeOK, TickClock, LastRunning
<1>4. CallsSound' /\ CachedRecently'
  BY <1>1, <1>2, <1>3, LaterSound, LaterRecent DEF ClientsKept
<1>5. WithdrawnPast' /\ RunPast'
  BY DEF ClientsKept, ClientsTypeOK, WithdrawnPast, RunPast, TickClock
<1> QED BY <1>1, <1>2, <1>4, <1>5 DEF ClientsKept

LEMMA ClientsStepKept == ClientsKept /\ [ClientsNext]_clientsVars => ClientsKept'
<1> SUFFICES ASSUME ClientsKept, [ClientsNext]_clientsVars PROVE ClientsKept'
  OBVIOUS
<1>1. ASSUME NEW c \in Call, NEW id \in issued, ResolveRegistered(c, id) PROVE ClientsKept'
  BY <1>1, ResolveRegisteredKept
<1>2. ASSUME NEW c \in Call, FetchDocument(c) PROVE ClientsKept'
  BY <1>2, FetchDocumentKept
<1>3. ASSUME NEW c \in Call, Respond(c) PROVE ClientsKept'
  BY <1>3, RespondKept
<1>4. ASSUME NEW c \in Call, NEW ttl \in CacheTtl, StoreDocument(c, ttl) PROVE ClientsKept'
  BY <1>4, StoreDocumentKept
<1>5. ASSUME NEW c \in Call, Leave(c) PROVE ClientsKept'
  BY <1>5, LeaveKept
<1>6. ASSUME NEW uris \in SUBSET Uri, Register(uris) PROVE ClientsKept'
  BY <1>6, RegisterKept
<1>7. ASSUME NEW d \in Document \union {None}, Publish(d) PROVE ClientsKept'
  BY <1>7, PublishKept
<1>8. ASSUME NEW s \in Configuration, RestartService(s) PROVE ClientsKept'
  BY <1>8, RestartServiceKept
<1>9. CASE TickClock
  BY <1>9, TickClockKept
<1>10. ASSUME NEW c \in Call, DecideClient(c) PROVE ClientsKept'
  BY <1>10, DecideClientKept
<1>11. CASE UNCHANGED clientsVars
  BY <1>11 DEF clientsVars, ClientsKept, ClientsTypeOK, CallsSound, SoundCall, WithdrawnPast,
               RunPast, CachedRecently, LastPublished, LastRunning, WasWithin, WasRegistered
<1> QED BY <1>1, <1>2, <1>3, <1>4, <1>5, <1>6, <1>7, <1>8, <1>9, <1>10, <1>11 DEF ClientsNext

THEOREM ClientsSafe == ClientsSpec => []ClientsKept
BY ClientsInitKept, ClientsStepKept, PTL DEF ClientsSpec

\* A client's own document. A URI that its owner takes out is sent nobody by a request
\* begun MaxTtl or more afterwards (document.go, Fetch; metadata_document_client.go).
THEOREM WithdrawnInTime == ClientsSpec => []WithdrawnWithinMaxTtl
<1>1. ClientsKept => WithdrawnWithinMaxTtl
  BY DEF ClientsKept, CallsSound, SoundCall, WithdrawnWithinMaxTtl
<1> QED BY <1>1, ClientsSafe, PTL

\* A request that goes to the client at once goes where the configuration now admits.
LEMMA SentAtOnce ==
  ASSUME ClientsKept, NEW c \in Call, NEW id \in issued, ResolveRegistered(c, id)
  PROVE  SentAsRegistered(c)
<1>1. call \in [Call -> CallState] /\ running \in Configuration
  BY DEF ClientsKept, ClientsTypeOK
<1>2. id.key = key /\ Resolved(id) = id.uris \intersect rules
  BY DEF ResolveRegistered, Resolved
<1>3. PICK u \in Uri :
        IF AllowsRedirectUri(Resolved(id), u)
        THEN \/ Goto(c, [step |-> "consent", at |-> clock, uri |-> u, kind |-> "registered",
                         expiresAt |-> clock + ConsentLifetime])
             \/ Goto(c, [step |-> "sent", at |-> clock, uri |-> u, kind |-> "registered"])
        ELSE Goto(c, IdleCall)
  BY DEF ResolveRegistered, AuthorizeClient
<1> SUFFICES ASSUME call'[c].step = "sent"
    PROVE  \E s \in Configuration :
             LastRunning(s) > clock - ConsentLifetime /\ WasRegistered(s, call'[c].uri)
  BY DEF SentAsRegistered
<1>4. AllowsRedirectUri(Resolved(id), u) /\ call'[c].uri = u
  BY <1>1, <1>3 DEF Goto, IdleCall
<1>5. WasRegistered(running, u)
  BY <1>2, <1>4, Admitted
<1>6. LastRunning(running) > clock - ConsentLifetime
  BY ClientsAssumption DEF ClientsKept, ClientsTypeOK, LastRunning
<1> QED BY <1>1, <1>4, <1>5, <1>6

\* One that was stored is answered within its lifetime.
LEMMA SentOnAnswer ==
  ASSUME ClientsKept, NEW c \in Call, DecideClient(c)
  PROVE  SentAsRegistered(c)
<1>1. /\ call \in [Call -> CallState] /\ call[c] \in Consenting /\ SoundCall(call[c])
      /\ call[c].step = "consent"
  BY CallStates DEF DecideClient, ClientsKept, ClientsTypeOK, CallsSound
<1> SUFFICES ASSUME call'[c].step = "sent", call'[c].kind = "registered"
    PROVE  \E s \in Configuration :
             LastRunning(s) > clock - ConsentLifetime /\ WasRegistered(s, call'[c].uri)
  BY DEF SentAsRegistered
<1>2. /\ StillAsked(call[c]) /\ call'[c].uri = call[c].uri /\ call[c].kind = "registered"
  BY <1>1 DEF DecideClient, Goto, IdleCall
<1>3. PICK s \in Configuration :
        /\ LastRunning(s) >= call[c].expiresAt - ConsentLifetime
        /\ WasRegistered(s, call[c].uri)
  BY <1>1, <1>2 DEF SoundCall, WasWithin
<1>4. clock \in Nat /\ call[c].expiresAt \in Nat /\ ConsentLifetime \in Nat
  BY <1>1, ClientsAssumption DEF ClientsKept, ClientsTypeOK, Consenting
<1>5. LastRunning(s) \in Int
  BY LastRunningFacts DEF ClientsKept
<1>6. LastRunning(s) > clock - ConsentLifetime
  BY <1>2, <1>3, <1>4, <1>5 DEF StillAsked
<1> QED BY <1>2, <1>3, <1>6

\* Any other step sends a client with a document, or nobody.
LEMMA SentOtherwise ==
  ASSUME ClientsKept, NEW c \in Call, NEW kind, kind # "registered", NEW uris, NEW at,
         AuthorizeClient(c, kind, uris, at)
  PROVE  SentAsRegistered(c)
BY DEF ClientsKept, ClientsTypeOK, AuthorizeClient, Goto, IdleCall, SentAsRegistered

LEMMA ClientsStepSends ==
  ClientsKept /\ [ClientsNext]_clientsVars => \A c \in Call : SentAsRegistered(c)
<1> SUFFICES ASSUME ClientsKept, [ClientsNext]_clientsVars, NEW c \in Call
    PROVE  SentAsRegistered(c)
  OBVIOUS
<1> USE DEF SentAsRegistered
<1>1. call \in [Call -> CallState]
  BY DEF ClientsKept, ClientsTypeOK
<1>2. ASSUME NEW d \in Call, d # c, NEW s, Goto(d, s) PROVE SentAsRegistered(c)
  BY <1>1, <1>2 DEF Goto
<1>3. ASSUME UNCHANGED call PROVE SentAsRegistered(c)
  BY <1>3
<1>4. ASSUME NEW d \in Call, NEW id \in issued, ResolveRegistered(d, id)
      PROVE SentAsRegistered(c)
  BY <1>2, <1>4, SentAtOnce DEF ResolveRegistered, AuthorizeClient
<1>5. ASSUME NEW d \in Call, FetchDocument(d) PROVE SentAsRegistered(c)
  <2>1. CASE Fresh(clock)
    BY <1>2, <1>5, <2>1, SentOtherwise DEF FetchDocument, AuthorizeClient
  <2>2. CASE ~Fresh(clock)
    BY <1>1, <1>5, <2>2 DEF FetchDocument, Goto
  <2> QED BY <2>1, <2>2
<1>6. ASSUME NEW d \in Call, Respond(d) PROVE SentAsRegistered(c)
  BY <1>1, <1>6 DEF Respond, Goto
<1>7. ASSUME NEW d \in Call, NEW ttl \in CacheTtl, StoreDocument(d, ttl)
      PROVE SentAsRegistered(c)
  BY <1>2, <1>7, SentOtherwise DEF StoreDocument, AuthorizeClient
<1>8. ASSUME NEW d \in Call, DecideClient(d) PROVE SentAsRegistered(c)
  BY <1>2, <1>8, SentOnAnswer DEF DecideClient
<1>9. ASSUME NEW d \in Call, Leave(d) PROVE SentAsRegistered(c)
  BY <1>1, <1>9 DEF Leave, Goto, IdleCall
<1>10. ASSUME NEW s \in Configuration, RestartService(s) PROVE SentAsRegistered(c)
  BY <1>10 DEF RestartService, IdleCall
<1>11. ASSUME NEW uris \in SUBSET Uri, Register(uris) PROVE SentAsRegistered(c)
  BY <1>3, <1>11 DEF Register
<1>12. ASSUME NEW d \in Document \union {None}, Publish(d) PROVE SentAsRegistered(c)
  BY <1>3, <1>12 DEF Publish
<1>13. CASE TickClock
  BY <1>3, <1>13 DEF TickClock
<1>14. CASE UNCHANGED clientsVars
  BY <1>3, <1>14 DEF clientsVars
<1> QED BY <1>4, <1>5, <1>6, <1>7, <1>8, <1>9, <1>10, <1>11, <1>12, <1>13, <1>14
       DEF ClientsNext

\* A client that registered itself has the user sent nowhere that the rules of now, or
\* of less than ConsentLifetime ago, do not admit, nor where an id signed with the key of
\* that time does not name: a request stored through a restart is answered under the
\* rules it was asked under, and no later than it expires (decision_endpoint.go).
THEOREM RegisteredInRules == ClientsSpec => RegisteredWithinRules
<1>1. ClientsSpec => []ClientsKept
  BY ClientsSafe
<1>2. ClientsKept /\ [ClientsNext]_clientsVars => [\A c \in Call : SentAsRegistered(c)]_clientsVars
  BY ClientsStepSends
<1> QED BY <1>1, <1>2, PTL DEF ClientsSpec, RegisteredWithinRules
=============================================================================
