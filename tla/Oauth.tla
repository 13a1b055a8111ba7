------------------------------- MODULE Oauth -------------------------------
(***************************************************************************)
(* The OAuth authorization server of pkg/oauth over the tables of          *)
(* postgres_store.                                                         *)
(*                                                                         *)
(* A client has the user's consent asked (authorize endpoint); the user's  *)
(* answer (decision endpoint) becomes a code, the code a grant with its    *)
(* first refresh token, and each refresh token the next one (token         *)
(* endpoint), every redemption answering with an access token.  The grant  *)
(* is revoked on request, or when a spent refresh token comes back.        *)
(*                                                                         *)
(* request[r] is what handler r has read and the call it makes next.  A    *)
(* refresh runs in one transaction: from "ask" on it holds the lock of its *)
(* token's and its grant's rows, and everything else that writes the grant *)
(* waits for it.  The check it makes meanwhile takes a second connection   *)
(* of the pool.  Abort is a failed call, a cancelled context or a crash;   *)
(* the transaction is rolled back.                                         *)
(***************************************************************************)
EXTENDS Integers, FiniteSets

CONSTANTS
  Account, Client, Resource, Scope,
  Scopes,                 \* the scopes each resource has
  Unnamed,                \* the client names no resource
  AuthorizationRequest, Code, Grant, RefreshToken,      \* ids and hashes
  Absent,                 \* no row was ever stored under the id
  NoOne,                  \* no user allowed it
  Request,                \* handlers running at once
  Connections,            \* size of the connection pool
  RequestLifetime, CodeLifetime, RefreshTokenLifetime, GrantLifetime,
  MaxTime                 \* bound of the clock

ASSUME LifetimeAssumption ==
  /\ RequestLifetime \in Nat /\ CodeLifetime \in Nat
  /\ RefreshTokenLifetime \in Nat /\ GrantLifetime \in Nat
  /\ MaxTime \in Nat /\ Connections \in Nat

ASSUME ResourceAssumption ==
  /\ Scopes \in [Resource -> SUBSET Scope]
  /\ Unnamed \notin Resource /\ NoOne \notin Account

VARIABLES
  now,                    \* the clock the server and the database share
  account,                \* standing of each account
  served,                 \* the resources this process was configured with
  authorizationRequest,   \* table oauth_authorization_request
  code,                   \* table oauth_authorization_code
  grant,                  \* table oauth_grant
  refreshToken,           \* table oauth_refresh_token
  accessTokens,           \* every access token a client was answered with
  reused,                 \* tokens a client was told had been spent (history)
  request                 \* the handlers in flight

consents == <<authorizationRequest, code>>
grants == <<grant, refreshToken, accessTokens, reused>>
vars == <<now, account, served, authorizationRequest, code, grant,
          refreshToken, accessTokens, reused, request>>

-----------------------------------------------------------------------------
\* A removed row keeps its last value with stored = FALSE, so that what came
\* of it can still be traced to it.  allowedBy (the user who allowed the
\* request), request (the one the code stands for), code (the one the
\* grant was given for) and beside (the refresh token of the same answer) are
\* such traces; no step reads them.
AuthorizationRequestRow ==
  [account: Account, client: Client, resource: Resource, scope: SUBSET Scope,
   expiresAt: Nat, stored: BOOLEAN, allowedBy: Account \union {NoOne}]
CodeRow ==
  [account: Account, client: Client, resource: Resource, scope: SUBSET Scope,
   expiresAt: Nat, stored: BOOLEAN, request: AuthorizationRequest]
GrantRow ==
  [account: Account, client: Client, resource: Resource, scope: SUBSET Scope,
   createdAt: Nat, revoked: BOOLEAN, code: Code]
RefreshTokenRow == [grant: Grant, expiresAt: Nat, spent: BOOLEAN]
AccessToken == [grant: Grant, scope: SUBSET Scope, beside: RefreshToken]

ASSUME AbsentRowAssumption ==
  Absent \notin AuthorizationRequestRow \union CodeRow \union GrantRow
                \union RefreshTokenRow

Idle == [step |-> "idle"]

\* What a handler holds at each of its steps.
Deciding == [step: {"insert code"}, request: AuthorizationRequest]
Redeeming == [step: {"check grant", "insert grant"}, code: Code, createdAt: Nat]
Refreshing == [step: {"select", "ask", "spend"}, token: RefreshToken, client: Client,
               scope: SUBSET Scope, start: Nat]
Revoking == [step: {"revoke"}, token: RefreshToken]

RequestState == {Idle} \union Deciding \union Redeeming \union Refreshing \union Revoking

TypeOK ==
  /\ now \in Nat
  /\ account \in [Account -> {"active", "locked", "deleted"}]
  /\ served \in SUBSET Resource
  /\ authorizationRequest \in
       [AuthorizationRequest -> AuthorizationRequestRow \union {Absent}]
  /\ code \in [Code -> CodeRow \union {Absent}]
  /\ grant \in [Grant -> GrantRow \union {Absent}]
  /\ refreshToken \in [RefreshToken -> RefreshTokenRow \union {Absent}]
  /\ accessTokens \in SUBSET AccessToken
  /\ reused \in SUBSET RefreshToken
  /\ request \in [Request -> RequestState]

Init ==
  /\ now = 0
  /\ account = [x \in Account |-> "active"]
  /\ served = Resource
  /\ authorizationRequest = [q \in AuthorizationRequest |-> Absent]
  /\ code = [c \in Code |-> Absent]
  /\ grant = [g \in Grant |-> Absent]
  /\ refreshToken = [t \in RefreshToken |-> Absent]
  /\ accessTokens = {}
  /\ reused = {}
  /\ request = [r \in Request |-> Idle]

-----------------------------------------------------------------------------
Proceed(r, state) == request' = [request EXCEPT ![r] = state]

Answer(r) == Proceed(r, Idle)

\* Every row of an account goes with the account (ON DELETE CASCADE).
Exists(x) == account[x] # "deleted"

AccountActive(x) == account[x] = "active"

RequestStored(q) ==
  /\ authorizationRequest[q] # Absent
  /\ authorizationRequest[q].stored
  /\ Exists(authorizationRequest[q].account)

\* Mutant: a code is read without being removed.
CodeInserted(c) == code[c] # Absent /\ Exists(code[c].account)

CodeStored(c) == code[c] # Absent /\ code[c].stored /\ Exists(code[c].account)

Known(t) == refreshToken[t] # Absent /\ Exists(grant[refreshToken[t].grant].account)

\* The handlers whose transaction has the rows of their token and its grant
\* locked, and those that hold a connection while they wait for one.
Holders == {r \in Request : request[r].step \in {"ask", "spend"}}
Waiters == {r \in Request : request[r].step \in {"select", "revoke"}}

\* Mutant: the rows are selected without FOR UPDATE.
NeverLocked(g) == FALSE

Locked(g) == \E r \in Holders : refreshToken[request[r].token].grant = g

ConnectionFree == Cardinality(Holders \union Waiters) < Connections

-----------------------------------------------------------------------------
\* The authorize endpoint, for the user of the session it is opened with.

NamedResource(name) ==
  IF name = Unnamed THEN {s \in served : served = {s}} ELSE {name} \intersect served

ScopeOf(resource, scope) == IF scope = {} THEN Scopes[resource] ELSE scope

\* Rows past their lifetime are deleted whenever one is inserted.
Unexpired(rows, Id) ==
  [i \in Id |-> IF rows[i] # Absent /\ rows[i].expiresAt < now
                THEN [rows[i] EXCEPT !.stored = FALSE] ELSE rows[i]]

Authorize(q, subject, client, name, scope) ==
  /\ ConnectionFree
  /\ authorizationRequest[q] = Absent
  /\ Exists(subject)
  /\ \E resource \in NamedResource(name) :
       /\ ScopeOf(resource, scope) \subseteq Scopes[resource]
       /\ authorizationRequest' =
            [Unexpired(authorizationRequest, AuthorizationRequest) EXCEPT
               ![q] = [account |-> subject, client |-> client, resource |-> resource,
                       scope |-> ScopeOf(resource, scope),
                       expiresAt |-> now + RequestLifetime, stored |-> TRUE,
                       allowedBy |-> NoOne]]
  /\ UNCHANGED <<now, account, served, code, grants, request>>

-----------------------------------------------------------------------------
\* The decision endpoint: the request is popped whatever becomes of it.

\* Mutant: whoever has the request's id may answer it.
AnswerableByAnyone(q, subject) == now < authorizationRequest[q].expiresAt

Answerable(q, subject) ==
  /\ authorizationRequest[q].account = subject
  /\ now < authorizationRequest[q].expiresAt

Decide(r, q, subject, allow) ==
  /\ ConnectionFree
  /\ request[r] = Idle
  /\ RequestStored(q)
  /\ LET allowed == allow /\ Answerable(q, subject) IN
     /\ authorizationRequest' = [authorizationRequest EXCEPT
          ![q].stored = FALSE,
          ![q].allowedBy = IF allowed THEN subject ELSE @]
     /\ IF allowed
        THEN Proceed(r, [step |-> "insert code", request |-> q])
        ELSE UNCHANGED request
  /\ UNCHANGED <<now, account, served, code, grants>>

InsertAuthorizationCode(r, c) ==
  /\ ConnectionFree
  /\ request[r].step = "insert code"
  /\ code[c] = Absent
  /\ LET q == request[r].request
         row == authorizationRequest[q] IN
     code' = IF Exists(row.account)
             THEN [Unexpired(code, Code) EXCEPT
                     ![c] = [account |-> row.account, client |-> row.client,
                             resource |-> row.resource, scope |-> row.scope,
                             expiresAt |-> now + CodeLifetime, stored |-> TRUE,
                             request |-> q]]
             ELSE Unexpired(code, Code)
  /\ Answer(r)
  /\ UNCHANGED <<now, account, served, authorizationRequest, grants>>

-----------------------------------------------------------------------------
\* The token endpoint, redeeming a code.  matching says whether the verifier,
\* and the redirect URI and the resource where they are sent, are the code's.

Redeemable(c, client, matching) ==
  /\ now < code[c].expiresAt
  /\ code[c].client = client
  /\ matching

Redeem(r, c, client, matching) ==
  /\ ConnectionFree
  /\ request[r] = Idle
  /\ CodeStored(c)
  /\ code' = [code EXCEPT ![c].stored = FALSE]
  /\ IF Redeemable(c, client, matching)
     THEN Proceed(r, [step |-> "check grant", code |-> c, createdAt |-> now])
     ELSE UNCHANGED request
  /\ UNCHANGED <<now, account, served, authorizationRequest, grants>>

\* Mutant: the account is not asked about.
GrantableToAnyAccount(g) == g.resource \in served

\* The resource is still served, the account still active.
Grantable(g) == g.resource \in served /\ AccountActive(g.account)

RefreshTokenExpiry(start) == start + RefreshTokenLifetime

CheckGrant(r) ==
  /\ ConnectionFree
  /\ request[r].step = "check grant"
  /\ IF Grantable(code[request[r].code])
     THEN Proceed(r, [request[r] EXCEPT !.step = "insert grant"])
     ELSE Answer(r)
  /\ UNCHANGED <<now, account, served, consents, grants>>

InsertGrant(r, g, t) ==
  /\ ConnectionFree
  /\ request[r].step = "insert grant"
  /\ grant[g] = Absent /\ refreshToken[t] = Absent
  /\ LET c == request[r].code
         row == code[c]
         at == request[r].createdAt IN
     IF Exists(row.account)
     THEN /\ grant' = [grant EXCEPT
               ![g] = [account |-> row.account, client |-> row.client,
                       resource |-> row.resource, scope |-> row.scope,
                       createdAt |-> at, revoked |-> FALSE, code |-> c]]
          /\ refreshToken' = [refreshToken EXCEPT
               ![t] = [grant |-> g, expiresAt |-> RefreshTokenExpiry(at), spent |-> FALSE]]
          /\ accessTokens' = accessTokens \union {[grant |-> g, scope |-> row.scope, beside |-> t]}
     ELSE UNCHANGED <<grant, refreshToken, accessTokens>>
  /\ Answer(r)
  /\ UNCHANGED <<now, account, served, consents, reused>>

-----------------------------------------------------------------------------
\* The token endpoint, refreshing: RotateRefreshToken of postgres_store, with
\* the check the endpoint has it make.  start is read before the transaction.

Refresh(r, t, client, scope) ==
  /\ ConnectionFree
  /\ request[r] = Idle
  /\ Proceed(r, [step |-> "select", token |-> t, client |-> client,
                 scope |-> scope, start |-> now])
  /\ UNCHANGED <<now, account, served, consents, grants>>

\* SELECT ... FOR UPDATE finds nothing, or waits for the rows and reads them
\* as they then are.
SelectUnknown(r) ==
  /\ request[r].step = "select"
  /\ ~Known(request[r].token)
  /\ Answer(r)
  /\ UNCHANGED <<now, account, served, consents, grants>>

RevokeGrant(g) == grant' = [grant EXCEPT ![g].revoked = TRUE]

\* Mutant: the revocation is rolled back with the refusal.
SelectSpentUncommitted(r) ==
  /\ request[r].step = "select"
  /\ LET t == request[r].token IN
     /\ Known(t)
     /\ ~Locked(refreshToken[t].grant)
     /\ refreshToken[t].spent
     /\ reused' = reused \union {t}
  /\ Answer(r)
  /\ UNCHANGED <<now, account, served, consents, grant, refreshToken, accessTokens>>

SelectSpent(r) ==
  /\ request[r].step = "select"
  /\ LET t == request[r].token IN
     /\ Known(t)
     /\ ~Locked(refreshToken[t].grant)
     /\ refreshToken[t].spent
     /\ RevokeGrant(refreshToken[t].grant)
     /\ reused' = reused \union {t}
  /\ Answer(r)
  /\ UNCHANGED <<now, account, served, consents, refreshToken, accessTokens>>

\* Mutant: the grant's revocation is not looked at.
UsableThoughRevoked(t, start) == start < refreshToken[t].expiresAt

Usable(t, start) ==
  /\ ~grant[refreshToken[t].grant].revoked
  /\ start < refreshToken[t].expiresAt

SelectUnspent(r) ==
  /\ request[r].step = "select"
  /\ LET t == request[r].token IN
     /\ Known(t)
     /\ ~Locked(refreshToken[t].grant)
     /\ ~refreshToken[t].spent
     /\ IF Usable(t, request[r].start)
        THEN Proceed(r, [request[r] EXCEPT !.step = "ask"])
        ELSE Answer(r)
  /\ UNCHANGED <<now, account, served, consents, grants>>

\* Mutant: the grant's own lifetime is not looked at.
RenewableForever(state) ==
  LET g == grant[refreshToken[state.token].grant] IN
  g.client = state.client /\ state.scope \subseteq g.scope /\ Grantable(g)

\* What the check holds against the grant, before it asks about the account.
Renewable(state) ==
  LET g == grant[refreshToken[state.token].grant] IN
  /\ g.client = state.client
  /\ state.start < g.createdAt + GrantLifetime
  /\ state.scope \subseteq g.scope
  /\ Grantable(g)

\* Mutant: the question about the account waits for the rows held meanwhile.
AskUnderLock(r) ==
  /\ ConnectionFree
  /\ request[r].step = "ask"
  /\ ~Locked(refreshToken[request[r].token].grant)
  /\ IF Renewable(request[r])
     THEN Proceed(r, [request[r] EXCEPT !.step = "spend"])
     ELSE Answer(r)
  /\ UNCHANGED <<now, account, served, consents, grants>>

Ask(r) ==
  /\ ConnectionFree
  /\ request[r].step = "ask"
  /\ IF Renewable(request[r])
     THEN Proceed(r, [request[r] EXCEPT !.step = "spend"])
     ELSE Answer(r)
  /\ UNCHANGED <<now, account, served, consents, grants>>

MintedScope(state) ==
  IF state.scope = {} THEN grant[refreshToken[state.token].grant].scope ELSE state.scope

Spend(r, u) ==
  /\ request[r].step = "spend"
  /\ refreshToken[u] = Absent
  /\ LET t == request[r].token
         g == refreshToken[t].grant IN
     /\ refreshToken' = [refreshToken EXCEPT
          ![t].spent = TRUE,
          ![u] = [grant |-> g, expiresAt |-> RefreshTokenExpiry(request[r].start),
                  spent |-> FALSE]]
     /\ accessTokens' = accessTokens \union
          {[grant |-> g, scope |-> MintedScope(request[r]), beside |-> u]}
  /\ Answer(r)
  /\ UNCHANGED <<now, account, served, consents, grant, reused>>

-----------------------------------------------------------------------------
\* The revocation endpoint: one UPDATE, which waits for the grant's lock.

RequestRevocation(r, t) ==
  /\ ConnectionFree
  /\ request[r] = Idle
  /\ Proceed(r, [step |-> "revoke", token |-> t])
  /\ UNCHANGED <<now, account, served, consents, grants>>

RevokeRefreshToken(r) ==
  /\ request[r].step = "revoke"
  /\ LET t == request[r].token IN
     IF Known(t)
     THEN /\ ~Locked(refreshToken[t].grant)
          /\ RevokeGrant(refreshToken[t].grant)
     ELSE UNCHANGED grant
  /\ Answer(r)
  /\ UNCHANGED <<now, account, served, consents, refreshToken, accessTokens, reused>>

-----------------------------------------------------------------------------
\* What happens around the endpoints.

UpdateAccount(x) ==
  /\ Exists(x)
  /\ \E standing \in {"active", "locked"} : account' = [account EXCEPT ![x] = standing]
  /\ UNCHANGED <<now, served, consents, grants, request>>

\* The cascade waits for the rows it deletes.
DeleteAccount(x) ==
  /\ Exists(x)
  /\ \A r \in Holders : grant[refreshToken[request[r].token].grant].account # x
  /\ account' = [account EXCEPT ![x] = "deleted"]
  /\ UNCHANGED <<now, served, consents, grants, request>>

\* The process is started again, with the resources it is now configured with.
Restart ==
  /\ served' \in (SUBSET Resource) \ {{}}
  /\ request' = [r \in Request |-> Idle]
  /\ UNCHANGED <<now, account, consents, grants>>

Abort(r) ==
  /\ request[r] # Idle
  /\ Answer(r)
  /\ UNCHANGED <<now, account, served, consents, grants>>

Tick ==
  /\ now < MaxTime
  /\ now' = now + 1
  /\ UNCHANGED <<account, served, consents, grants, request>>

-----------------------------------------------------------------------------
\* Bounds: a handler begins only while there are ids for all those in flight.
Spare(rows) ==
  Cardinality({i \in DOMAIN rows : rows[i] = Absent})
    > Cardinality({r \in Request : request[r] # Idle})

Endpoint(r) ==
  \/ /\ Spare(code)
     /\ \E q \in AuthorizationRequest, subject \in Account, allow \in BOOLEAN :
          Decide(r, q, subject, allow)
  \/ /\ Spare(grant) /\ Spare(refreshToken)
     /\ \E c \in Code, client \in Client, matching \in BOOLEAN :
          Redeem(r, c, client, matching)
  \/ /\ Spare(refreshToken)
     /\ \E t \in RefreshToken, client \in Client, scope \in SUBSET Scope :
          Refresh(r, t, client, scope)
  \/ \E t \in RefreshToken : RequestRevocation(r, t)

\* The next call of a handler under way.
Continue(r) ==
  \/ \E c \in Code : InsertAuthorizationCode(r, c)
  \/ CheckGrant(r)
  \/ \E g \in Grant, t \in RefreshToken : InsertGrant(r, g, t)
  \/ SelectUnknown(r) \/ SelectSpent(r) \/ SelectUnspent(r)
  \/ Ask(r)
  \/ \E u \in RefreshToken : Spend(r, u)
  \/ RevokeRefreshToken(r)

Next ==
  \/ \E q \in AuthorizationRequest, subject \in Account, client \in Client,
        name \in Resource \union {Unnamed}, scope \in SUBSET Scope :
       Authorize(q, subject, client, name, scope)
  \/ \E r \in Request : Endpoint(r) \/ Continue(r) \/ Abort(r)
  \/ \E x \in Account : UpdateAccount(x) \/ DeleteAccount(x)
  \/ Restart
  \/ Tick

Spec == Init /\ [][Next]_vars

\* A row's lock and a pool's connection go to whoever waits for them in turn,
\* so a handler that can run again and again runs.
FairSpec == Spec /\ \A r \in Request : SF_vars(Continue(r))

-----------------------------------------------------------------------------
Issued(g) == grant[g] # Absent

GrantOf(t) == refreshToken[t].grant

NewTokens(g) == {a \in accessTokens' \ accessTokens : a.grant = g}

\* However it was renewed, an access token is for the client, the resource and
\* at most the scope of a request that the account it names was shown and
\* allowed itself.
Consented(a) ==
  LET g == grant[a.grant]
      q == authorizationRequest[code[g.code].request]
  IN /\ q.allowedBy = g.account
     /\ <<g.account, g.client, g.resource>> = <<q.account, q.client, q.resource>>
     /\ a.scope \subseteq q.scope
TokensRestOnConsent == \A a \in accessTokens : Consented(a)

\* Whoever answers it twice, and whoever redeems its code twice, at once or
\* later: a consent opens one grant.
OneGrantPerConsent ==
  \A g, h \in Grant :
    Issued(g) /\ Issued(h) /\ code[grant[g].code].request = code[grant[h].code].request
      => g = h

\* Two clients present one refresh token: once the second is told that it was
\* spent, the grant is revoked for both, the revocation committed.
ReuseEndsGrant ==
  \A t \in reused : grant[GrantOf(t)].revoked

\* Revoking a grant is final for every handler, those included that have read
\* it already: none answers with a token of it any more.
RevokedGrantIsDead ==
  [][\A g \in Grant :
       Issued(g) /\ grant[g].revoked => grant'[g].revoked /\ NewTokens(g) = {}]_vars

\* The handlers on behalf of x that have had their check answered.
CheckedCode(r, x) == request[r].step = "insert grant" /\ code[request[r].code].account = x
CheckedToken(r, x) ==
  request[r].step = "spend" /\ grant[GrantOf(request[r].token)].account = x
Checked(x) == {r \in Request : CheckedCode(r, x) \/ CheckedToken(r, x)}

\* Locking or deleting an account ends its tokens with the handlers that asked
\* about it before: no handler that waited for a lock meanwhile gets past it.
InactiveAccountGetsNone ==
  [][\A x \in Account :
       ~AccountActive(x) /\ Checked(x) = {} =>
         /\ Checked(x)' = {}
         /\ \A g \in Grant : Issued(g) /\ grant[g].account = x => NewTokens(g) = {}]_vars

\* A grant ends GrantLifetime after the code was redeemed however often it was
\* renewed; only a refresh that arrived in time, and waited, is answered later.
Over(g) == now >= grant[g].createdAt + GrantLifetime
InTime(r, g) ==
  /\ request[r].step \in {"select", "ask", "spend"}
  /\ request[r].start < grant[g].createdAt + GrantLifetime
GrantIsOver ==
  [][\A g \in Grant :
       Issued(g) /\ Over(g) /\ ~(\E r \in Request : InTime(r, g)) => NewTokens(g) = {}]_vars

\* Handlers wait for the locks and the connections of others, and a refresh
\* for a second connection while it keeps others waiting for its lock.
EveryRequestIsAnswered == \A r \in Request : request[r] # Idle ~> request[r] = Idle

-----------------------------------------------------------------------------
\* What the tables keep, as the Store interface promises it.
StandingOf(g) ==
  CASE grant[g] = Absent -> "none"
    [] grant[g] # Absent /\ grant[g].revoked -> "revoked"
    [] OTHER -> "live"
TokenOf(t) ==
  IF refreshToken[t] = Absent THEN Absent
  ELSE [grant |-> refreshToken[t].grant, spent |-> refreshToken[t].spent]

standing == [g \in Grant |-> StandingOf(g)]
tokens == [t \in RefreshToken |-> TokenOf(t)]

Promise == INSTANCE RefreshTokens WITH grant <- standing, refreshToken <- tokens

ASSUME AbsentTokenAssumption == Promise!AbsentIsNoToken

\* Every transaction of the tables, and every one rolled back, is a step the
\* interface promises or none.
KeepsPromise == Promise!Spec

\* However a grant was renewed, and by whom at once, just one token renews it
\* again: never two that two parties go on with, and never none.
GrantHasOneToken == Promise!GrantHasOneToken
=============================================================================
