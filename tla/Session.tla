------------------------------ MODULE Session ------------------------------
(***************************************************************************)
(* Browser sessions of pkg/session over the tables of pkg/database.        *)
(*                                                                         *)
(* A sign-in stores an authentication (CreateSession) and answers with a   *)
(* short-lived signed token in a cookie.  The token is renewed from the    *)
(* cookie (refresh endpoint, navigation handler) or, once the browser has  *)
(* registered a device key, by proving possession of that key (the DBSC    *)
(* refresh endpoint).  Signing out, locking the account and deleting it    *)
(* act on the rows only: issued tokens are never recalled.                 *)
(*                                                                         *)
(* A handler makes several database calls with nothing held between them.  *)
(* request[r] is what handler r has read so far and the call it makes      *)
(* next, so everything else may happen between two of its calls.  Abort    *)
(* is a failed call, a cancelled context or a crash of the process.        *)
(***************************************************************************)
EXTENDS Integers, FiniteSets

CONSTANTS
  Account,                \* account ids
  AccountRow,             \* the account rows an administrator may write
  Role, Tenant,           \* members of "roles", customer ids
  Auth,                   \* authentication ids
  IdToken,                \* hashes of id tokens and magic link nonces
  Challenge,              \* DBSC challenges
  Key, NoKey,             \* device keys; the null dbsc_public_key
  Request,                \* handlers running at once
  Absent,                 \* no row was ever stored under the id
  InitialSessionDuration, SessionDuration, AuthenticationDuration,
  IdleDuration,           \* zero turns the bound off
  ChallengeDuration,
  SuperAdminRoles, AllowedRoles,    \* of the endpoints' authorizer
  AllowedTenants,         \* {} admits any tenant, otherwise one tenant
  MaxTime                 \* bound of the clock

ASSUME DurationAssumption ==
  /\ InitialSessionDuration \in Nat /\ SessionDuration \in Nat
  /\ AuthenticationDuration \in Nat /\ IdleDuration \in Nat
  /\ ChallengeDuration \in Nat /\ MaxTime \in Nat

ASSUME RowAssumption ==
  /\ AccountRow \subseteq [locked: BOOLEAN, roles: SUBSET Role, tenant: Tenant]
  /\ NoKey \notin Key

ASSUME AbsentAssumption ==
  /\ Absent \notin [auth: Auth, expiresAt: Nat, stored: BOOLEAN]
  /\ Absent \notin [account: Account, createdAt: Nat, expiresAt: Nat,
                    idToken: IdToken, ended: BOOLEAN,
                    key: Key \union {NoKey}, stored: BOOLEAN]

VARIABLES
  now,             \* the clock every server and the database share
  account,         \* table account
  removed,         \* accounts that have been deleted
  authentication,  \* table authentication
  challenge,       \* table dbsc_challenge
  cookies,         \* every cookie a browser was ever answered with
  redeemed,        \* how often each challenge was accepted (history)
  request          \* the handlers in flight

tables == <<account, removed, authentication, challenge>>
vars == <<now, account, removed, authentication, challenge, cookies, redeemed, request>>

-----------------------------------------------------------------------------
\* The "amr" of a token: how its holder last came by it.
Sso == "ext"
MagicLink == "otp"
Refresh == "rtoken"
Dbsc == "hwk"
SignInMethod == {Sso, MagicLink}
Method == SignInMethod \union {Refresh, Dbsc}

\* A deleted row keeps its last value with stored = FALSE, so that what is
\* said of the past can still name it.
AuthenticationRow ==
  [account: Account, createdAt: Nat, expiresAt: Nat, idToken: IdToken,
   ended: BOOLEAN, key: Key \union {NoKey}, stored: BOOLEAN]
ChallengeRow == [auth: Auth, expiresAt: Nat, stored: BOOLEAN]

Token ==
  [auth: Auth, account: Account, method: Method, notBefore: Nat,
   expiresAt: Nat, roles: SUBSET Role, tenant: Tenant]
Cookie == [token: Token, expiresAt: Nat]

\* What SelectRefreshAuthentication returns: the row joined with its account.
Snapshot ==
  [account: Account, holder: AccountRow, expiresAt: Nat, ended: BOOLEAN,
   key: Key \union {NoKey}]

Idle == [step |-> "idle"]

\* What a handler holds at each of its steps.
Creating == [step: {"insert authentication"}, account: Account, holder: AccountRow,
             method: SignInMethod, idToken: IdToken]
Created == [step: {"insert challenge"}, auth: Auth, account: Account,
            holder: AccountRow, method: SignInMethod, expiresAt: Nat]
Renewing == [step: {"renew"}, token: Token, row: Snapshot]
Registering == [step: {"register"}, token: Token, key: Key, challenge: Challenge]
Proving == [step: {"prove"}, auth: Auth, row: Snapshot, key: Key, challenge: Challenge]
Rechallenging == [step: {"rechallenge"}, auth: Auth]
Minting == [step: {"mint"}, auth: Auth, row: Snapshot, challenge: Challenge]
Seeding == [step: {"seed"}, auth: Auth, row: Snapshot, cookie: Cookie]

RequestState ==
  {Idle} \union Creating \union Created \union Renewing \union Registering
  \union Proving \union Rechallenging \union Minting \union Seeding

TypeOK ==
  /\ now \in Nat
  /\ account \in [Account -> AccountRow]
  /\ removed \in SUBSET Account
  /\ authentication \in [Auth -> AuthenticationRow \union {Absent}]
  /\ challenge \in [Challenge -> ChallengeRow \union {Absent}]
  /\ cookies \in SUBSET Cookie
  /\ redeemed \in [Challenge -> Nat]
  /\ request \in [Request -> RequestState]

Init ==
  /\ now = 0
  /\ account \in [Account -> {row \in AccountRow : ~row.locked}]
  /\ removed = {}
  /\ authentication = [a \in Auth |-> Absent]
  /\ challenge = [c \in Challenge |-> Absent]
  /\ cookies = {}
  /\ redeemed = [c \in Challenge |-> 0]
  /\ request = [r \in Request |-> Idle]

-----------------------------------------------------------------------------
Earlier(s, t) == IF s <= t THEN s ELSE t

Stored(a) == authentication[a] # Absent /\ authentication[a].stored

SelectRefreshAuthentication(a) ==
  LET row == authentication[a] IN
  [account |-> row.account, holder |-> account[row.account],
   expiresAt |-> row.expiresAt, ended |-> row.ended, key |-> row.key]

\* A handler begins its next call, or answers.
Proceed(r, state) == request' = [request EXCEPT ![r] = state]

Answer(r) == Proceed(r, Idle)

\* InsertDbscChallenge: the row refers to an authentication, so there must be one.
InsertDbscChallenge(c, a) ==
  /\ Stored(a)
  /\ challenge[c] = Absent
  /\ challenge' = [challenge EXCEPT
       ![c] = [auth |-> a, expiresAt |-> now + ChallengeDuration, stored |-> TRUE]]

\* PopDbscChallenge finds the row: it is there, and it is this authentication's.
Poppable(c, a) ==
  challenge[c] # Absent /\ challenge[c].stored /\ challenge[c].auth = a

\* Mutant: a SELECT in place of DELETE ... RETURNING.
PeekDbscChallenge(c) == UNCHANGED challenge

PopDbscChallenge(c) == challenge' = [challenge EXCEPT ![c].stored = FALSE]

\* consumeChallenge accepts a popped row that has not expired.
InTime(c) == ~(now > challenge[c].expiresAt)

CountRedemption(c) == redeemed' = [redeemed EXCEPT ![c] = @ + 1]

\* Mutant: the ended flag is not looked at.
VerifyIgnoringEnded(row) == ~(now > row.expiresAt) /\ ~row.holder.locked

VerifyAuthentication(row) ==
  ~row.ended /\ ~(now > row.expiresAt) /\ ~row.holder.locked

Admits(token) ==
  \/ token.roles \intersect SuperAdminRoles # {}
  \/ /\ AllowedTenants = {} \/ token.tenant \in AllowedTenants
     /\ AllowedRoles = {} \/ token.roles \intersect AllowedRoles # {}

Presented == {cookie.token : cookie \in cookies}

\* The tokens an authorizer lets through.  The one of the refresh endpoint and
\* of the navigation handler skips "exp", the expired token being its subject.
Authorized == {token \in Presented : Admits(token) /\ now <= token.expiresAt}
AuthorizedSkippingExp == {token \in Presented : Admits(token)}

\* Mutant: no bound by the authentication.
UnboundedToken(a, owner, holder, method, duration, limit) ==
  [auth |-> a, account |-> owner, method |-> method, notBefore |-> now,
   expiresAt |-> now + duration, roles |-> holder.roles, tenant |-> holder.tenant]

NewToken(a, owner, holder, method, duration, limit) ==
  [auth |-> a, account |-> owner, method |-> method, notBefore |-> now,
   expiresAt |-> Earlier(now + duration, limit),
   roles |-> holder.roles, tenant |-> holder.tenant]

-----------------------------------------------------------------------------
(* CreateSession: three database calls. *)

\* Mutant: the lock is not looked at.
SelectAnyAccount(r, x, method, t) ==
  /\ request[r] = Idle
  /\ x \notin removed
  /\ Proceed(r, [step |-> "insert authentication", account |-> x,
                 holder |-> account[x], method |-> method, idToken |-> t])
  /\ UNCHANGED <<now, tables, cookies, redeemed>>

SelectEmailAddressAccount(r, x, method, t) ==
  /\ request[r] = Idle
  /\ x \notin removed
  /\ ~account[x].locked
  /\ Proceed(r, [step |-> "insert authentication", account |-> x,
               holder |-> account[x], method |-> method, idToken |-> t])
  /\ UNCHANGED <<now, tables, cookies, redeemed>>

\* The unique index on id_token_hash.
IdTokenHashUsed(t) == \E a \in Auth : Stored(a) /\ authentication[a].idToken = t

InsertAuthentication(r, a) ==
  /\ request[r].step = "insert authentication"
  /\ \/ /\ ~IdTokenHashUsed(request[r].idToken)
        /\ request[r].account \notin removed
        /\ authentication[a] = Absent
        /\ authentication' = [authentication EXCEPT
             ![a] = [account |-> request[r].account, createdAt |-> now,
                     expiresAt |-> now + AuthenticationDuration,
                     idToken |-> request[r].idToken, ended |-> FALSE,
                     key |-> NoKey, stored |-> TRUE]]
        /\ Proceed(r, [step |-> "insert challenge", auth |-> a,
                     account |-> request[r].account, holder |-> request[r].holder,
                     method |-> request[r].method,
                     expiresAt |-> now + AuthenticationDuration])
     \/ /\ IdTokenHashUsed(request[r].idToken) \/ request[r].account \in removed
        /\ Answer(r)
        /\ UNCHANGED authentication
  /\ UNCHANGED <<now, account, removed, challenge, cookies, redeemed>>

\* The cookie outlives its token: it expires with the authentication.
CreatedCookie(req) ==
  [token |-> NewToken(req.auth, req.account, req.holder, req.method,
                      InitialSessionDuration, req.expiresAt),
   expiresAt |-> req.expiresAt]

AnswerSignIn(r, c) ==
  /\ request[r].step = "insert challenge"
  /\ InsertDbscChallenge(c, request[r].auth)
  /\ cookies' = cookies \union {CreatedCookie(request[r])}
  /\ Answer(r)
  /\ UNCHANGED <<now, account, removed, authentication, redeemed>>

-----------------------------------------------------------------------------
(* Renewal from the cookie: the refresh endpoint and the navigation handler. *)

\* One third or less of the token's duration remains.
DueForRefresh(token) ==
  ~(3 * (token.expiresAt - now) > token.expiresAt - token.notBefore)

\* Mutant: a key added since the sign-in is not looked at.
RefreshWhateverKey(r, token) ==
  /\ request[r] = Idle
  /\ token.method # Dbsc
  /\ DueForRefresh(token)
  /\ Stored(token.auth)
  /\ Proceed(r, [step |-> "renew", token |-> token,
                 row |-> SelectRefreshAuthentication(token.auth)])
  /\ UNCHANGED <<now, tables, cookies, redeemed>>

RefreshEndpointRead(r, token) ==
  /\ request[r] = Idle
  /\ token.method # Dbsc
  /\ DueForRefresh(token)
  /\ Stored(token.auth)
  /\ ~(token.method = Sso /\ authentication[token.auth].key # NoKey)
  /\ Proceed(r, [step |-> "renew", token |-> token,
               row |-> SelectRefreshAuthentication(token.auth)])
  /\ UNCHANGED <<now, tables, cookies, redeemed>>

NavigationRefreshRead(r, token) ==
  /\ request[r] = Idle
  /\ ~(now < token.expiresAt)
  /\ token.method # Dbsc
  /\ Stored(token.auth)
  /\ authentication[token.auth].key = NoKey
  /\ Proceed(r, [step |-> "renew", token |-> token,
               row |-> SelectRefreshAuthentication(token.auth)])
  /\ UNCHANGED <<now, tables, cookies, redeemed>>

\* Mutant: the bound is never enforced.
NeverIdleTooLong(token) == FALSE

IdleTooLong(token) == IdleDuration > 0 /\ now - token.expiresAt > IdleDuration

\* Mutant: the roles too come from the old token.
TokenKeepingRoles(token, row) ==
  [token EXCEPT !.method = Refresh,
                !.expiresAt = Earlier(row.expiresAt, now + SessionDuration),
                !.notBefore = now]

\* Token.Refresh: roles from the account row, the rest from the old token.
RefreshedToken(token, row) ==
  [token EXCEPT !.method = Refresh,
                !.expiresAt = Earlier(row.expiresAt, now + SessionDuration),
                !.notBefore = now,
                !.roles = row.holder.roles]

RefreshSession(r) ==
  /\ request[r].step = "renew"
  /\ LET token == request[r].token
         row == request[r].row
     IN \/ /\ ~IdleTooLong(token)
           /\ VerifyAuthentication(row)
           /\ cookies' = cookies \union
                {[token |-> RefreshedToken(token, row), expiresAt |-> row.expiresAt]}
        \/ /\ IdleTooLong(token) \/ ~VerifyAuthentication(row)
           /\ UNCHANGED cookies
  /\ Answer(r)
  /\ UNCHANGED <<now, tables, redeemed>>

-----------------------------------------------------------------------------
(* The end endpoint: one call. *)

EndSession(token) ==
  /\ Stored(token.auth)
  /\ authentication' = [authentication EXCEPT ![token.auth].ended = TRUE]
  /\ UNCHANGED <<now, account, removed, challenge, cookies, redeemed, request>>

-----------------------------------------------------------------------------
(* Registration of a device key: the challenge is popped, then the key is   *)
(* stored and the cookie reissued to expire with the token it carries.      *)

RegisterProof(r, token, key, c) ==
  /\ request[r] = Idle
  /\ Poppable(c, token.auth)
  /\ PopDbscChallenge(c)
  /\ \/ /\ InTime(c)
        /\ CountRedemption(c)
        /\ Proceed(r, [step |-> "register", token |-> token, key |-> key, challenge |-> c])
     \/ ~InTime(c) /\ UNCHANGED <<redeemed, request>>
  /\ UNCHANGED <<now, account, removed, authentication, cookies>>

UpdateAuthenticationWithDbscPublicKey(r) ==
  /\ request[r].step = "register"
  /\ LET token == request[r].token
     IN \/ /\ Stored(token.auth)
           /\ authentication' = [authentication EXCEPT ![token.auth].key = request[r].key]
           /\ cookies' = cookies \union {[token |-> token, expiresAt |-> token.expiresAt]}
        \/ ~Stored(token.auth) /\ UNCHANGED <<authentication, cookies>>
  /\ Answer(r)
  /\ UNCHANGED <<now, account, removed, challenge, redeemed>>

-----------------------------------------------------------------------------
(* The DBSC refresh endpoint.  It takes no session token: the caller names  *)
(* the authentication, and proves possession of the registered key.         *)

\* No proof in the request: a challenge to sign, whatever the id names.
DemandProof(a, c) ==
  /\ InsertDbscChallenge(c, a)
  /\ UNCHANGED <<now, account, removed, authentication, cookies, redeemed, request>>

\* Mutant: a session with no registered key goes on to the proof.
DbscRefreshReadUnkeyed(r, a, key, c) ==
  /\ request[r] = Idle
  /\ Stored(a)
  /\ ~authentication[a].ended
  /\ ~(now > authentication[a].expiresAt)
  /\ challenge[c] # Absent
  /\ Proceed(r, [step |-> "prove", auth |-> a, row |-> SelectRefreshAuthentication(a),
                 key |-> key, challenge |-> c])
  /\ UNCHANGED <<now, tables, cookies, redeemed>>

DbscRefreshRead(r, a, key, c) ==
  /\ request[r] = Idle
  /\ Stored(a)
  /\ ~authentication[a].ended
  /\ ~(now > authentication[a].expiresAt)
  /\ authentication[a].key # NoKey
  /\ challenge[c] # Absent
  /\ Proceed(r, [step |-> "prove", auth |-> a, row |-> SelectRefreshAuthentication(a),
               key |-> key, challenge |-> c])
  /\ UNCHANGED <<now, tables, cookies, redeemed>>

\* Process verifies a proof against the registered key; handed none, it takes
\* the key from the proof itself, as registration needs.
SignatureVerifies(registered, key) == registered = NoKey \/ registered = key

ProcessProof(r) ==
  /\ request[r].step = "prove"
  /\ LET a == request[r].auth
         c == request[r].challenge
         verified == SignatureVerifies(request[r].row.key, request[r].key)
     IN \/ ~verified /\ Answer(r) /\ UNCHANGED <<challenge, redeemed>>
        \/ /\ verified
           /\ Poppable(c, a)
           /\ InTime(c)
           /\ PopDbscChallenge(c)
           /\ CountRedemption(c)
           /\ Proceed(r, [step |-> "mint", auth |-> a, row |-> request[r].row, challenge |-> c])
        \/ /\ verified
           /\ Poppable(c, a)
           /\ ~InTime(c)
           /\ PopDbscChallenge(c)
           /\ Proceed(r, [step |-> "rechallenge", auth |-> a])
           /\ UNCHANGED redeemed
        \/ /\ verified
           /\ ~Poppable(c, a)
           /\ Proceed(r, [step |-> "rechallenge", auth |-> a])
           /\ UNCHANGED <<challenge, redeemed>>
  /\ UNCHANGED <<now, account, removed, authentication, cookies>>

Rechallenge(r, c) ==
  /\ request[r].step = "rechallenge"
  /\ InsertDbscChallenge(c, request[r].auth)
  /\ Answer(r)
  /\ UNCHANGED <<now, account, removed, authentication, cookies, redeemed>>

\* The bound cookie expires with its token, which is what has the browser refresh.
MintedCookie(a, row) ==
  LET token == NewToken(a, row.account, row.holder, Dbsc, SessionDuration, row.expiresAt)
  IN [token |-> token, expiresAt |-> token.expiresAt]

MintSession(r) ==
  /\ request[r].step = "mint"
  /\ LET a == request[r].auth
         row == request[r].row
     IN \/ /\ VerifyAuthentication(row)
           /\ Proceed(r, [step |-> "seed", auth |-> a, row |-> row,
                        cookie |-> MintedCookie(a, row)])
        \/ ~VerifyAuthentication(row) /\ Answer(r)
  /\ UNCHANGED <<now, tables, cookies, redeemed>>

\* The refresh has succeeded: failing to store the next challenge does not undo it.
AnswerProof(r, c) ==
  /\ request[r].step = "seed"
  /\ InsertDbscChallenge(c, request[r].auth) \/ UNCHANGED challenge
  /\ cookies' = cookies \union {request[r].cookie}
  /\ Answer(r)
  /\ UNCHANGED <<now, account, removed, authentication, redeemed>>

-----------------------------------------------------------------------------
(* The environment: administrators, failures, time. *)

\* Locking, unlocking, changing roles or moving the account to another tenant.
UpdateAccount(x, row) ==
  /\ x \notin removed
  /\ account[x] # row
  /\ account' = [account EXCEPT ![x] = row]
  /\ UNCHANGED <<now, removed, authentication, challenge, cookies, redeemed, request>>

\* The foreign keys cascade to the account's authentications and their challenges.
DeleteAccount(x) ==
  /\ x \notin removed
  /\ removed' = removed \union {x}
  /\ authentication' = [a \in Auth |->
       IF authentication[a] # Absent /\ authentication[a].account = x
       THEN [authentication[a] EXCEPT !.stored = FALSE] ELSE authentication[a]]
  /\ challenge' = [c \in Challenge |->
       IF challenge[c] # Absent /\ authentication[challenge[c].auth].account = x
       THEN [challenge[c] EXCEPT !.stored = FALSE] ELSE challenge[c]]
  /\ UNCHANGED <<now, account, cookies, redeemed, request>>

Abort(r) ==
  /\ request[r] # Idle
  /\ Answer(r)
  /\ UNCHANGED <<now, tables, cookies, redeemed>>

Tick ==
  /\ now < MaxTime
  /\ now' = now + 1
  /\ UNCHANGED <<tables, cookies, redeemed, request>>

Next ==
  \/ \E r \in Request :
       \/ \E x \in Account, method \in SignInMethod, t \in IdToken :
            SelectEmailAddressAccount(r, x, method, t)
       \/ \E a \in Auth : InsertAuthentication(r, a)
       \/ \E c \in Challenge : AnswerSignIn(r, c)
       \/ \E token \in AuthorizedSkippingExp : RefreshEndpointRead(r, token)
       \/ \E token \in AuthorizedSkippingExp : NavigationRefreshRead(r, token)
       \/ RefreshSession(r)
       \/ \E token \in Authorized, key \in Key, c \in Challenge : RegisterProof(r, token, key, c)
       \/ UpdateAuthenticationWithDbscPublicKey(r)
       \/ \E a \in Auth, key \in Key, c \in Challenge : DbscRefreshRead(r, a, key, c)
       \/ ProcessProof(r)
       \/ \E c \in Challenge : Rechallenge(r, c)
       \/ MintSession(r)
       \/ \E c \in Challenge : AnswerProof(r, c)
       \/ Abort(r)
  \/ \E token \in Authorized : EndSession(token)
  \/ \E a \in Auth, c \in Challenge : DemandProof(a, c)
  \/ \E x \in Account, row \in AccountRow : UpdateAccount(x, row)
  \/ \E x \in Account : DeleteAccount(x)
  \/ Tick

Spec == Init /\ [][Next]_vars

-----------------------------------------------------------------------------
(* Properties. *)

\* A handler in this state answers for authentication a.
RowSteps == {"renew", "prove", "mint", "seed"}
Serves(state, a) ==
  \/ state.step \in {"insert challenge", "prove", "mint", "seed"} /\ state.auth = a
  \/ state.step = "renew" /\ state.token.auth = a

\* It read a before a was ended, and may yet issue a token.
HoldsLive(state, a) ==
  /\ Serves(state, a)
  /\ state.step \in RowSteps => ~state.row.ended

TokensOf(a) == {token \in Presented : token.auth = a}

Revoked(a) == authentication[a] # Absent
              /\ (authentication[a].ended \/ ~authentication[a].stored)
Sealed(a) == Revoked(a) /\ \A r \in Request : ~HoldsLive(request[r], a)

\* Signing out, or deleting the account, is final: once the handlers that had
\* read the authentication before are done, no path issues another token of it
\* and none makes it renewable again.
RevocationIsFinal ==
  [][\A a \in Auth : Sealed(a) => Sealed(a)' /\ TokensOf(a)' \subseteq TokensOf(a)]_vars

\* The rows of account x that handlers in flight have read.
HeldRows(state, x) ==
  IF state.step \in {"insert authentication", "insert challenge"}
  THEN {h \in {state.holder} : state.account = x}
  ELSE IF state.step \in RowSteps THEN {h \in {state.row.holder} : state.row.account = x}
  ELSE {}
Held(x) == UNION {HeldRows(request[r], x) : r \in Request}

NewTokens(x) == {token \in Presented' \ Presented : token.account = x}

\* Locking an account stops every way of issuing its tokens, sign-in and both
\* kinds of renewal, but for handlers that read the account before.
LockStopsIssue ==
  [][\A x \in Account :
       account[x].locked /\ (\A h \in Held(x) : h.locked) => NewTokens(x) = {}]_vars

\* A token issued says the roles of the account row as it is, or as a handler
\* still in flight read it: never those of the token it renews.
RolesFollowAccount ==
  [][\A x \in Account : \A token \in NewTokens(x) :
       \/ token.roles = account[x].roles
       \/ \E h \in Held(x) : h.roles = token.roles]_vars

\* However often and by whatever path a session is renewed, its tokens and
\* cookies live within its authentication and name the account it belongs to
\* (active_session_processor answers a mismatch as a fault of the server).
Within(cookie) ==
  LET token == cookie.token
      row == authentication[token.auth]
  IN /\ row # Absent
     /\ row.account = token.account
     /\ row.createdAt <= token.notBefore
     /\ token.expiresAt <= row.expiresAt
     /\ cookie.expiresAt <= row.expiresAt
TokensWithinAuthentication == \A cookie \in cookies : Within(cookie)

\* A challenge is accepted at most once, by one proof for the session it was
\* issued to, however many handlers are presented with it at the same time.
ChallengeSpentOnce ==
  /\ \A c \in Challenge : redeemed[c] <= 1
  /\ \A r \in Request : request[r].step \in {"register", "mint"} =>
       LET c == request[r].challenge
           a == IF request[r].step = "mint" THEN request[r].auth ELSE request[r].token.auth
       IN redeemed[c] = 1 /\ challenge[c].auth = a /\ ~challenge[c].stored

\* A token that says its holder proved a device key belongs to a session for
\* which one was registered: no proof is taken at the word of its own key.
DeviceTokenHasRegisteredKey ==
  \A token \in Presented :
    token.method = Dbsc => authentication[token.auth].key # NoKey

\* Where an idle bound is set, a session without a device key whose every token
\* has been expired for longer is over: no cookie, however old or new, and no
\* registration revives it.
IdleOver(a) ==
  /\ IdleDuration > 0
  /\ authentication[a] # Absent
  /\ authentication[a].key = NoKey
  /\ \A token \in TokensOf(a) : now > token.expiresAt + IdleDuration
  /\ \A r \in Request :
       /\ Serves(request[r], a) => request[r].step = "renew"
       /\ request[r].step = "register" => request[r].token.auth # a
IdleSessionIsOver == [][\A a \in Auth : IdleOver(a) => IdleOver(a)']_vars

\* A session signed in by SSO and bound to a device before its first renewal
\* is from then on renewed by proofs of the device key alone.
DeviceBound(a) ==
  /\ authentication[a] # Absent
  /\ authentication[a].key # NoKey
  /\ \A token \in TokensOf(a) : token.method \in {Sso, Dbsc}
  /\ \A r \in Request : request[r].step # "renew" \/ request[r].token.auth # a
  /\ \A r \in Request : request[r].step # "insert challenge" \/ request[r].auth # a
SsoSessionStaysDeviceBound ==
  [][\A a \in Auth : DeviceBound(a) => DeviceBound(a)']_vars

=============================================================================
