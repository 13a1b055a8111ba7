# TLA+ models of authentication_go

`authentication_go` is a Go library that a sign-in service is assembled from:
browser sessions (SSO, e-mail links, device bound session credentials), an
OAuth 2.1 authorization server, API keys that are exchanged for tokens, DPoP
proofs, and passkeys.  It has no process of its own.  Its packages are HTTP
handlers over a PostgreSQL database, and almost everything that can go wrong in
them goes wrong *between* two database calls: handlers run concurrently on any
number of servers, hold no lock from one call to the next, read a row and act on
it later, and may stop anywhere.  The modules here model the handlers at that
grain, one action per database call.

## The system

| part | state it keeps | operations | what is hard |
|---|---|---|---|
| `session_manager`, `database/authentication.go` | tables `authentication`, `dbsc_challenge`, `account` (read) | `CreateSession`, `RefreshSession`, `MintToken`, `MintSession`; insert, select, end, register a key, insert and pop a challenge | stale rows, several calls per handler, tokens that cannot be recalled |
| session endpoints: `refresh`, `end`, `dbsc_register`, `dbsc_refresh`; `navigation_refresh_handler` | none of their own | one handler each | two ways of renewing one session; order of registration, renewal and sign-out |
| `dbsc_session_response_processor` | none | verify a proof, spend its challenge | single use under concurrency; whose key verifies the proof |
| `authorizer_request_parser`, `active_session_processor` | none | decide whether a token admits a request | roles, tenants, super administrators, proof-of-possession bindings |
| `sso`: `login`, `callback`, `id_token`, `client_id`, problem detail endpoints | table `oauth_flow`, a browser cookie | start a sign-in, finish it, sign in with a provider's token | a flow that is popped once, expiry, replay of an id token |
| `magic_link`: `generate`, `landing`, `validate` | none (a signed token; its hash is spent in `authentication`) | send, show and redeem a link | a link redeemed twice, link scanners, open redirects |
| `oauth`: `authorize`, `decision`, `token`, `revocation`, `registration` endpoints; `postgres_store`, `memory_store` | tables `oauth_authorization_request`, `oauth_authorization_code`, `oauth_grant`, `oauth_refresh_token` | consent, redeem, rotate, revoke | rotation and reuse detection under concurrency, row locks, a check made while they are held |
| `oauth`: `client_registrar`, `client_resolver`, `cimd_fetcher` | a signing key; a cache | register a client without storing it, resolve a client id | overlapping fetches of a document that changes, how long one is kept, rules that change after a registration |
| `api_key`: `create`, `revoke`, `read_own`, `mint_token` endpoints, `api_key_cruder`, `assertion` | tables `api_key`, `api_key_assertion`, `api_key_authentication` | register and revoke keys, exchange a signed assertion for a token | an assertion used twice, revocation racing a mint |
| `dpop`: `proof_verifier`, `memory_replay_detector` | the proofs seen, in memory | verify a proof, remember it | a proof accepted twice at the edge of its age, a bounded memory |
| `passkey` | the application's stores: challenges, users, credentials | register, sign in | one challenge presented by two requests, calls that fail half-way, a challenge that expires |
| `pkce`, `log_masking`, `log_options`, `page`, metadata endpoints, testing helpers | none | pure functions, wording, wiring | nothing that interleaves |

The parts meet in the database (`account` is read by all of them), in
`session_manager` (every sign-in path ends in `CreateSession`; the API key
endpoint ends in `MintToken`) and in the session token, which the OAuth
endpoints take as the user's identity.  The authorization endpoint asks
`client_resolver` who a client is before it stores anything.

## How the modules read the code

Every module uses the same conventions.

* **A row** that was never stored is `Absent`; an id is never used twice.  Rows
  the code deletes are kept with `stored` FALSE (Session, Oauth, SignInTokens), because the
  properties speak of what was there; where nothing does, they become `Absent`
  again (`SignIn.oauthFlow`, `ApiKeys.apiKeyAssertion`).
* **A handler** is an element of `Request` or `Call`.  Its state is a record with
  the `step` it takes next and what it has read so far, so a value that was read
  before another handler's write stays what it was.  `Idle` is no handler.
* **One action is one database statement or transaction**, together with what
  the handler does in memory up to the next one.  Where rows stay locked between
  two steps of a transaction (a refresh in `Oauth`, a mint or a revocation in
  `ApiKeys`), the lock is state and the others wait for it.
* **Failure**: `Abort` (Session, Oauth), `Fail`, `Leave` and `Abandon` (elsewhere) end a
  handler before any of its steps.  They stand for a failed call, a cancelled
  context and a crash alike; what was committed stays, what was not is undone.
  A lost answer is the same for the tables, and is explicit where the browser
  keeps a cookie (`SignIn`).
* **Time** is a natural number that `Tick` moves on, one clock for servers and
  database.  The code's comparisons keep their direction, so `Before`,
  `After` and SQL's `<=` and `>` differ here at the instants where they differ there.
* **Credentials** that are random (codes, tokens, challenges, states) are ids
  that cannot be guessed: a handler is only presented with one that was issued.
  Signed tokens are the records of what they say, and whoever held one may
  present it again at any time.
* A definition named after a function of the code is that function.  A comment
  that says `Mutant:` marks a broken variant of the definition below it, which
  no specification uses; `PROJECT.json` names the property that it would violate.

## The modules

### Session

`authentication` and `challenge` are the tables `authentication` and
`dbsc_challenge`, `account` the columns of an account that a session is about,
and `cookies` every session cookie ever issued, with the token in it.

| code | actions |
|---|---|
| `session_manager.CreateSession`, called by the magic link and id token endpoints | `SelectEmailAddressAccount`, `InsertAuthentication`, `AnswerSignIn` |
| `refresh_endpoint`, `navigation_refresh_handler`, `RefreshSession` | `RefreshEndpointRead`, `NavigationRefreshRead`, `RefreshSession` |
| `end_endpoint` | `EndSession` |
| `dbsc_register_endpoint` | `RegisterProof`, `UpdateAuthenticationWithDbscPublicKey` |
| `dbsc_refresh_endpoint`, `dbsc_session_response_processor`, `MintSession` | `DemandProof`, `DbscRefreshRead`, `ProcessProof`, `Rechallenge`, `MintSession`, `AnswerProof` |
| administration outside the package | `UpdateAccount`, `DeleteAccount` |

What makes it correct: a session that was ended or whose account was locked or
deleted issues nothing once the handlers that had read it are done
(`RevocationIsFinal`, `LockStopsIssue`); a token never outlives its
authentication (`TokensWithinAuthentication`) and says the account's present
roles (`RolesFollowAccount`); a challenge is redeemed once (`ChallengeSpentOnce`),
a device token needs a registered key (`DeviceTokenHasRegisteredKey`), a session
left idle stays over (`IdleSessionIsOver`), and a session that came from SSO stays
bound to its device (`SsoSessionStaysDeviceBound`).

### DeviceRefresh

The same device-bound refresh, seen from the browser that repeats it: whether it
has a bound cookie (`bound`), the challenge it was last given (`cached`), and its
requests.  `Send` is the browser; `SelectRefreshAuthentication`, `RedeemChallenge`,
`MissChallenge`, `ChallengeResponse`, `MintSession`, `RefuseMint` and `Seed` are
`dbsc_refresh_endpoint` with `consumeChallenge` and `MintToken`; `ReceiveRenewal`,
`ReceiveChallenge` and `ReceiveEnd` are the browser again, and `Fail` loses a request,
an answer or a step.  `LockAccount`, `EndSession` and `ExpireAuthentication` change what
the handler reads once, at its start (`session`); `redeemable` is the table of challenges
without the rows that have expired, which are answered as the absent ones are.  The
browser cannot know that the challenge it signs is spent or has lapsed.  What makes it
correct is that it is not left repeating it: a browser without a cookie comes to hold
one, or is told that the session is over, unless its account is locked
(`RefreshEnds`; the exception is the code's, see the disagreements below).
`Session` has who may be issued what by these steps, `DeviceRefresh` that they end.

### RefreshTokens, Oauth, MemoryStore

`RefreshTokens` is the abstract specification: what an `oauth.Store` promises of
grants and refresh tokens, in three atomic actions, `Open`, `Rotate` and `Revoke`.
Both stores are shown to implement it (`KeepsPromise`).

`Oauth` is the authorization server over `postgres_store`: `Authorize`; `Decide`
and `InsertAuthorizationCode`; `Redeem`, `CheckGrant` and `InsertGrant`;
`Refresh`, `SelectUnknown`/`SelectSpent`/`SelectUnspent`, `Ask` and `Spend`;
`RequestRevocation` and `RevokeRefreshToken`.  From `Ask` on a refresh holds the
row locks of its token and grant and one connection of the pool, and the
question whether the account is active takes another.  `Restart` is the server
started again with other resources.

`MemoryStore` is `memory_store` under its mutex, which `RotateRefreshToken` lets
go of to ask about the account: `RotateRefreshToken`, `CheckGrant`, `AskAccount`,
`Spend`.  Everything may have changed by `Spend`, which looks again.

What makes them correct: an access token goes no further than what its own
account was shown and allowed (`TokensRestOnConsent`), one consent opens one
grant (`OneGrantPerConsent`), one token of a grant can be renewed and only one
(`GrantHasOneToken`, proved, and part of the promise), a spent token that comes back ends the grant for both who
have it (`ReuseEndsGrant`), a revoked grant is dead for handlers in flight too
(`RevokedGrantIsDead`), a locked account and a grant past its lifetime get nothing
(`InactiveAccountGetsNone`, `GrantIsOver`, `LockedAccountIsNotRenewed`), and every handler is answered
(`EveryRequestIsAnswered`).

### DpopReplay

`proof_verifier` reads a clock and checks a proof's window (`Verify`), then calls
`memory_replay_detector`, which under its mutex sweeps what is over if that is
due and remembers the proof (`Observe`: `ObserveSeen`, `ObserveFull`,
`ObserveNew`).  The reading is taken before the mutex, so calls may reach the
detector in another order than their clocks say.  `latest` is the latest reading
the detector was given, and the promise is stated in its terms: a proof is
accepted again only when some call has asked at a time when it is over
(`ReplayIsLate`).  The detector is bounded (`HoldsAtMostMaxEntries`), is never
full of proofs that are over (`FullOfLiveProofs`), and calls no first use a replay
(`FirstUseIsNoReplay`, proved).

### ApiKeys

`api_key_cruder` and the mint and revoke endpoints: `Create`; `SelectForMint`,
`Verify`, `Begin`, `LockKey`, `RefuseUsed`, `Record` (the transaction) and
`MintToken`; `RevokeForAccount` and `EndSignIns` (the other transaction);
`EndAuthentication` and `LockAccount` from outside.  `start` in a mint is the
transaction's `now()`, which Postgres fixes when the transaction begins, before
it waits for the key's row.

What makes it correct: a revoked key keeps no sign-in, however mints and the
revocation interleave (`RevokedKeyHasNoSignIn`); an assertion mints again only
once it could no longer be presented (`AssertionReplayIsLate`); a key has one
sign-in at a time, unless an old one is revived (`OneSignInPerKey`, and see below); a
locked account mints nothing (`LockedAccountMintsNothing`); a key's row is held by one
request at a time, which has it yet to write, and is given back however that request
ends (`RowHeldByWriter`).

The key's row is the only one the model locks.  In the code its holder may wait for
others: the sign-ins' rows in the two updates of `authentication`
(`api_key_cruder.go:305`, `:463`), which a sign-out may hold, and the account's row
through the foreign key of the insert (`:546`).  Nothing here says that those waits end.

### SignIn

The authorization code flow at an identity provider.  `oauthFlow` is the table
`oauth_flow`, `cookie` each browser's callback cookie, `code` the provider's
answers, each of which is a link that any browser may open at any time
(`Callback`).  `Login` begins a flow.  A callback pops the flow of its cookie
(`PopOauthFlow`) and looks at its expiry and state (`Check`), has the code
exchanged (`Exchange`), opens a session (`CreateSession`) and answers
(`Receive`).  Without a flow for its cookie it pops an expired one by the state of
the link (`RefuseOrRestart`).  Where the flow had expired on the way the browser
is sent back to the login endpoint (`Follow`).

What makes it correct: a session is opened in the browser that began the flow
(`SessionInBrowserThatBegan`), and for whom the provider's answer to that flow named, by
no other answer (`SessionByOwnAnswer`); a flow opens one session or is restarted once
(`FlowEndsOnce`), a link alone never removes a live flow (`LiveFlowKept`), and a
browser is not sent round in circles (`RestartsTakeTime`).  A restart is not held to the
flow's own answer: a flow that has run out is begun again by whichever link is opened
with its cookie, since the code looks at the expiry (`callback_endpoint.go:321`) before
it compares the state (line 334), and `Check` does so too.

### SignInTokens

Signing in with a signed token that is good once: an e-mail link and a provider's
id token.  Issuing one stores nothing; the `authentication` row it opens carries
its hash, and the unique index on that spends it.

| code | actions |
|---|---|
| `generate_endpoint` | `AccountChecker`, `SendMessage` |
| `landing_endpoint` | `Land`, `SpentChecker` |
| `validate_endpoint` | `ValidateLink` |
| `id_token_endpoint` | `AuthenticateIdToken` |
| `session_manager.CreateSession`, called by both | `SelectEmailAddressAccount`, `InsertAuthentication` |
| the provider; administration | `IssueIdToken`; `AddAccount`, `UpdateAccount`, `DeleteAccount` |

Landing is a look: it says a link is unusable, or offers the form.  `gone`
remembers which links it called unusable.  What makes it correct: a token opens one
session however many requests submit it, and a second only when the account of the
first, and with it the hash, is deleted (`SecondSessionOnlyAfterDeletion`); and a
link that is called unusable is (`GoneIsGone`).  Two things follow from the code and
are as it has them: if the row is stored and a later call of the sign-in fails, the
token is spent and nobody has a session; and a link whose account was deleted signs
in again to the account that has its address then, as long as it is in time.

### Passkey

`PatchMux`'s two ceremonies over the stores of `UserHandler` and `SessionHandler`.

| code | actions |
|---|---|
| `GET` options of a login, of a registration | `LoginOptions`, `RegisterOptions` |
| `POST /api/login/passkey` | `GetPublicKeyCredential`, `DeletePublicKeyAuthenticationRequest`, `UpdatePublicKeyCredential`, `HandleSuccessfulAuthentication` |
| `POST /api/register/passkey` | `DeleteRegistrationIssuance`, `AddUser`, `AddPublicKeyCredential` |
| the stores' time; a user's device | `Expire`; `MakeCredential`, `Sign` |

The stores are the application's and are taken to do what their interfaces and
errors say: deleting a challenge is one step, finds it once, and tells an expired one
from none.  What a device made or signed may be presented any number of times.  What
makes it correct: a challenge signs someone in once and registers one credential
(`ChallengeOpensOneSession`, `ChallengeRegistersOneCredential`), one that expires
does neither but for the request that had deleted it (`ExpiredChallengeIsOver`), and a
session is of a user who was added and owns the credential, whatever failed half-way
(`SessionOfRegisteredUser`).

Three things a reader of the code should know.  A session's user is the user handle
that the authenticator sends (`passkey.go:324`); the signature does not cover it, so
`SessionOfRegisteredUser` rests on authenticators returning the handle that they were
given.  `UpdatePublicKeyCredential` stores the row that was read, so the count that
later assertions are compared with stays that of the registration.  And a
registration that is given up between its two calls leaves a user without a
credential.

### Clients

Who a client is and where a user may be sent back to, as `authorize_endpoint` asks and
`decision_endpoint` goes on to do.  A registered client is its id, `[key, uris]` under a
signature (`Register`), which `Resolve` holds to the key and the rules in force
(`ResolveRegistered`).  The rules take every port of the user's machine or none, except
URIs longer than the registrar admits (`Long`, `client_registrar.go:118`), as a longer port may make one.  What is admitted (`AuthorizeClient`) is sent back at once with an
error, or stored for `ConsentLifetime` until the user answers (`DecideClient`, which
looks at its expiry and does not resolve the client again).  A client with
a metadata document is fetched: `FetchDocument` reads the cache, `Respond` is what
whoever serves the document answers, `StoreDocument` keeps it for as long as its
headers say and goes on.  Requests do not wait for one another, so fetches of one
document overlap and an older answer may be stored over a newer.  `Publish` changes
the document.  `RestartService` changes the `Configuration`, a key and the URIs the rules
admit, or nothing but the memory; requests that are stored outlive it (in Postgres: a
memory store forgets them, as `Leave` does).  One process serves at a time.  A duration is
an integer that wraps around (`Wrapped`).  Where its names are longer than the other
modules' (`ClientsSpec`, `clock`), they are so because `OauthProofs` extends it beside
`Oauth`.

What makes it correct: a URI taken out of a document is sent nobody by a request begun
`MaxTtl` later (`WithdrawnWithinMaxTtl`), which is why an entry's expiry counts from
before the fetch; and for a registered client nobody is sent anywhere but where rules in
force at some time within the last `ConsentLifetime` admit and an id under the key of
that time names, whatever it registered under and whenever the service was restarted
(`RegisteredWithinRules`, a property of the steps that send).

### How they compose

`Oauth` and `MemoryStore` instantiate `RefreshTokens` with a refinement mapping
from their rows and entries.  The sign-in paths meet `Session` at its
`CreateSession`: `SignIn` ends in one step of that name, because everything that
happens to the session afterwards happens in `Session` whatever opened it;
`SignInTokens` has the first two of its calls, which spend the token; and
`ApiKeys` likewise models the `authentication` rows of keys alone: the method of their
tokens is not one a session endpoint's authorizer accepts by default.  `Session` takes a
credential for a sign-in at any time; which credential may be one is the question of
`SignIn`, `SignInTokens` and `Passkey`.  `Oauth.Authorize` begins with a client and a
redirect URI that `Clients` lets through.

## What the runs show

| run | question | state |
|---|---|---|
| `SessionDevice` | Two handlers sign in, register keys and renew both ways while the session is ended and the account locked or deleted: is anything issued, redeemed or opened that must not be? | two handlers, authentications, keys; three challenges |
| `SessionRenewal` | Over five instants of renewals, with an idle bound and an authorizer that looks at roles and tenant: do tokens stay within their authentication and say present roles? | one handler, one session, changing accounts |
| `OauthConsent` | Two users answer and two handlers redeem at once, waiting for rows and connections: does anything go beyond a consent, and does every handler finish? | two accounts, grants; one request and code; three tokens and connections |
| `OauthRotation` | Two handlers renew, reuse and revoke one grant and wait for each other while accounts and resources go: is the promise of `RefreshTokens` kept? | one grant, four tokens, two resources |
| `MemoryStore` | Does the store that lets go of its mutex in mid-rotation keep the same promise? | two grants, three tokens, two calls |
| `DpopReplay` | Does a detector of two entries refuse what is live and forget only what is over? | three keys, two calls |
| `ApiKeys` | Mints, revocations, sign-outs and locks at once, given up anywhere: is a revoked key without sign-ins, an assertion used once, a key signed in once? | one key, three assertions, three sign-ins, two calls |
| `SignIn` | Links opened in any of two browsers, by two requests at once, while flows expire: who ends up with a session, and by which answer? | two flows, two codes, two calls |
| `SignInTokens` | A link and an id token, looked at and submitted by two requests at once while accounts come, go and change addresses: does one sign in twice, or after it was called gone? | two tokens, accounts, addresses, two calls |
| `Passkey` | Two requests present what devices made and signed, again and again, while challenges expire and calls fail: who is signed in, and how often? | two users, credentials; three challenges; two calls |
| `Clients` | A document that changes under overlapping fetches, a max-age that overflows, ids under other keys and rules, requests stored through a restart: where is a browser sent? | three URIs, two keys, three configurations, one id, two calls, two instants |
| `DeviceRefresh` | Spent and lapsed challenges, lost requests and answers, failing steps, a session that ends and an account that is locked: does the browser get its cookie? | three challenges, two requests |

Each of the properties is also checked to fail when one definition of the model is
replaced by the mutant that `PROJECT.json` names for it, under the same
configuration: a property that survives its bug would say nothing.

### Bounds

`MaxTime` bounds the clock, the sets of ids bound how often something can be
created, and a guard `Spare` (Oauth, ApiKeys) lets a handler begin only while
there are ids for all handlers that may need one, so that no handler is stuck for
want of an id.  Nothing else is cut off.

* **Two handlers.**  Every race the code is exposed to is between a handler and
  one that writes what it has read; locks, challenges and codes are exclusive
  pairwise.  The theorems below hold for any number.
* **Lifetimes of one or two** make every "still valid", "expires now" and "just
  over" happen within `MaxTime`.  Where the relation of two lifetimes matters a
  run has it both ways: `RefreshTokenLifetime` exceeds `GrantLifetime` in
  `OauthRotation`, so that the grant runs out first; an authentication outlives a
  session in `SessionRenewal` and bounds its last one.  In `ApiKeys`
  a sign-in runs out after one instant, while a mint waits for the key; one assertion is for
  the sign-in, one for the mint that replaces it and one for the mint that waited.
* **One scope and one resource** in the OAuth runs, and no passing of time in
  `OauthConsent`, keep the instance small enough for the liveness property; narrower
  scopes, and any number of resources and instants, are the theorems' part.
  `OauthRotation` is where time passes and where the resource is withdrawn.
* **Three connections** in `OauthConsent` are one more than the handlers, the least
  with which the check made under a row lock always finds one.  With as many
  connections as handlers TLC finds them waiting for each other, each with one
  connection in hand; a deployment has to size its pool above its concurrent
  refreshes or the request timeouts have to undo the wait.  `Connections = 6` in
  `OauthRotation` keeps the pool out of the way.
* **Two flows** in `SignIn` allow one restart; the theorem `RestartsSlow` covers
  chains of any length.
* **Three keys for two entries** in `DpopReplay` fill the detector while a proof
  waits to get in.
* **Two accounts and addresses** in `SignInTokens`: an address passes from one to the
  other, and an account to another address, while a token for it is under way.
* **Three challenges** in `Passkey` are two of one ceremony and one of the other, either
  way; `MaxCount` of two lets a counter advance past the one that was stored.
* **A Duration of eight values** in `Clients`, from -4 to 3, with `Second` two and a
  `max-age` of 1, 2 or 4: one that fits, one that comes out negative, one that comes out
  nothing.
* **Two instants** in `Clients`, where `MaxTtl` and `ConsentLifetime` are one: what is
  kept, withdrawn or stored at the first is over at the second.  Its three configurations
  take back a rule, the key, and either of them and then return.  One URI is `Long`: over
  the registrar's length limit, reached as another port of one that is not.
* **Three challenges** in `DeviceRefresh` are one for each request and one for the browser;
  one that nobody names any more is drawn again, which is what makes the model finite.

`CHECK_DEADLOCK FALSE` is said where the system really comes to a stop: in the Session
configurations and `SignInTokens`, where ids and clock run out, and in `DeviceRefresh`,
where the session is over.  Elsewhere TLC does check that something can always happen.

Symmetry is used over ids that no definition orders or names, never in the run of
a liveness property.

### Fairness

Two runs state liveness.

`Oauth.FairSpec` asks strong fairness of each handler's next step, and of nothing
else: neither that requests come, nor that accounts change, nor that a handler is
given up.  Strong, because a handler that waits for a row or a connection can go on
and then cannot, over and over, as others take it; what entitles it to its turn is
that Postgres queues waiters of a row lock in order and `database/sql` hands
connections to waiters in order.  The handler itself is a goroutine that runs when
its call returns.

`DeviceRefresh.Fairness` asks that a browser whose cookie has run out keeps sending
(weak: it is a timer of its own), and strong fairness of each kind of step, for some
request and not for each one: databases and networks fail now and then, a request
may be lost at every step it takes (`Fail`), and only a step that fails each time that
any request comes to it is excluded.  A refusal to mint is no failure, it is a step that
the code takes each time (`RefuseMint`, weak: nothing but `Fail`, which leaves the
browser in the same place, comes before it).  A challenge lapses while the browser holds it
from one refresh to the next (`Lapse` needs a bound cookie), not within the retries
of one refresh, which are seconds against its lifetime of minutes.  The row of the session
stays: for one that is deleted storing a challenge fails, and a browser without one
hears errors.

## Where the code and its comments disagree

Found while the modules were written, with TLC's counterexamples; the properties that
are stated are those that hold.

* **Device-bound refresh.**  A comment at `dbsc_register_endpoint.go:357` says that the
  browser's device-bound refresh is, once a key is registered, the only thing that
  refreshes the session.  The refresh endpoint (`refresh_endpoint.go:147`) refuses a
  keyed session only when the token presented came from SSO.  A session begun by a
  link, or renewed once before the registration, goes on being renewed from its
  cookie.  `SsoSessionStaysDeviceBound` is what does hold.
* **A locked account's refresh.**  `dbsc_refresh_endpoint.go:174` says that a browser is
  refused with a new challenge to sign, rather than with an error that leaves it nothing to
  do.  For a locked account the challenge is redeemed and `MintToken` then answers a plain
  403 (`session_manager.go:649`), with neither a challenge nor the instruction that ends
  the session.  The browser's next proof is of the challenge just spent: it gets a new one,
  signs it, and is refused again, for as long as the account is locked and the
  authentication goes on.  `RefreshEnds` excepts that browser, and no other.
* **DPoP replay.**  `proof_verifier_config.go:1` says a proof is remembered so that none
  is accepted twice, and line 40 that one clock measures the window and the
  remembering.  A request reads that clock before it waits for the detector
  (`proof_verifier.go:383`); if one with a later reading gets there first and sweeps
  (`memory_replay_detector.go:87`), a proof still live by the first one's reading is
  accepted again.  `ReplayIsLate` is what holds.  There is a second, deterministic edge:
  the verifier accepts a proof up to and including `iat + MaxAge + ClockSkew`, and the
  detector remembers it strictly before that instant, so at the instant itself a
  replay is accepted.
* **One sign-in for a key.**  `api_key_cruder.go:375` promises one entry in the account's
  activity for one key however often it mints.  `now()` (line 464) is fixed when the
  transaction begins, and the key's row is waited for afterwards: a mint that began
  before the sign-in ran out and gets the row after one that began when it had
  run out revives the old one beside the new.  `revived` remembers the keys to which this
  was done, by a mint that kept a sign-in which had run out when an earlier recorded mint
  began; `OneSignInPerKey` is about all other keys, and holds.
* **Rules in force.**  `client_registrar.go:213` says of a client's redirect URIs that the
  rules are what is in force, not what they were when it registered.  It is so when the
  client is resolved.  A request admitted then is stored for five minutes
  (`authorize_endpoint.go:180`), and `decision_endpoint.go:87` redirects to the URI it
  names without resolving again: after a restart that takes back a rule or the key, a
  user who is looking at a consent page is still sent there, with a code or a denial, for
  the rest of the five minutes.  `RegisteredWithinRules` is what holds.
* **A very long max-age.**  `cimd_fetcher.go:217` says a document is kept for its max-age
  up to `MaxTtl`.  From about 9.2e9 seconds on, the multiplication at line 228
  overflows: depending on the value the document is not kept at all, or for less than
  `MaxTtl`.  It is never kept longer (`WithdrawnWithinMaxTtl`).

In `SignIn`, a flow presented with its cookie is over strictly after `expires_at`,
and a flow popped by its state alone already at that instant.  No property breaks:
`LiveFlowKept` speaks of flows before it.

## What is proved

TLAPS checks the following for every value of the constants: any number of
handlers, accounts, grants and tokens, any lifetimes, any clock.  The assumptions
are the `ASSUME`s of the modules, which say that durations are natural numbers and
that the null values are not rows; TLC evaluates them on each run.

| module | theorem | by |
|---|---|---|
| `SessionProofs` | `TypeCorrect`, `InAccord`, `TokensWithin`, `RevocationFinal`, `SpentStaysSpent`, `SpentOnce`, `KeysStayRegistered`, `DeviceTokenRegistered`, `HandlersVouch`, `LockEndsIssue`, `RolesFollow`, `StaysDeviceBound`, `IdleIsOver` | `Accord`: what cookies say of an authentication, and what handlers in flight have read of it, agrees with its row in owner and expiry. `TokensWithinAuthentication` alone is not inductive, for a renewal bounds its token by the expiry it read, which has to be the row's. `Once`: a handler past the pop is alone with its challenge, which is spent and stays so. `Registered`: a device token's session, and that of a handler on its way to one, has a key. `AllVouched`: a handler about to issue a token found the account unlocked and made the token of what it read; with it and `Accord` the last four are arguments about one step. |
| `OauthProofs` | `TypeCorrect`, `GrantsKept`, `ReuseFinal`, `RevokedGrantsDead`, `Implements`, `OneToken`, `RevocationFinal`, `TokensConsented`, `OneGrantEach`, `GrantEnds`, `InactiveGetsNone` | `Kept`: a handler between its lock and its commit has an unspent token of a live grant in hand and is the only one that has (`LockedOnce`). `Implements` shows each step to be a step of `RefreshTokens` or a stutter. `OneToken` and `RevocationFinal` are consequences of the promise, carried over by the refinement: every step of `RefreshTokens`, and so of the tables, keeps `PromiseKept` (a token renews a grant that was opened, and an opened grant has just one unspent token). For `TokensConsented` and `OneGrantEach`, `Traced`: requests lead to codes, codes to grants and grants to tokens, each at most once and each within the scope of the one before, with the handlers that hold a link of the chain in their hands counted in. The last two follow from `Kept` and from what a step does to a handler: a handler spending had begun in time, a handler that has asked about an account got there by asking. |
| `OauthProofs`, of `Clients` | `ClientsSafe`, `WithdrawnInTime`, `RegisteredInRules` | `ClientsKept`: a document that a request is about to store was the published one when the request was begun or later, and the one in the cache at most `MaxTtl` before the entry's expiry (`CachedRecently`). This needs that no document was last published after now, and that no lifetime exceeds `MaxTtl`, those that wrapped around included (`CacheTtlFacts`). Either bound only gets better as time passes, and a restart forgets both. A request waiting for its answer was admitted by a configuration that ran no earlier than `ConsentLifetime` before its expiry (`WasWithin`), which a restart keeps, since the configuration it leaves ran until now; the look at the expiry does the rest (`SentOnAnswer`). |
| `MemoryStoreProofs` | `StoreKept`, `ReuseFinal`, `LockedIsNotRenewed`, `Implements` | every token and every call in flight has its grant; `Spend` looks again, so nothing is asked of what `CheckGrant` saw. |
| `DpopReplayProofs` | `ReplayLate`, `FirstUse`, `Bounded`, `FullOfLive` | `Covered`: an accepted proof is remembered or some call has asked with a clock past it; `Explained`: what is remembered was accepted. |
| `ApiKeysProofs` | `TypeCorrect`, `RevocationEnds`, `ReplayLate`, `RowHeld`, `LockedMintsNothing`, `OneSignIn` | a mint that records and a revocation hold the key's row, and the key of the former is not revoked (`RowsHeld`); an assertion that was recorded is remembered, or a mint has begun too late for it (`Remembered`), given that a mint in flight began in time for its own (`InTime`). For `OneSignIn`: no mint began after now (`BeginsByNow`), and of a key that was not revived at most one sign-in goes on at `latest`, the latest start of a mint recorded (`OneAtLatest`). The statement about now alone is not inductive, since a mint looks for sign-ins at its own start, which is earlier. A mint that began after `latest` finds no more than that one, and one that began before it finds nothing that had run out at `latest`, or it revives. |
| `SignInProofs` | `TypeCorrect`, `FlowsKept`, `BrowserThatBegan`, `EndsOnce`, `OwnAnswer`, `RestartsSlow`, `LiveKept` | a flow that was popped is held by one request, is stored nowhere, and has not ended; a cookie names a flow its browser began; a request past `Check` holds the flow its code answers. |
| `SignInTokensProofs` | `TokensKept`, `SignsInOnce`, `GoneForGood` | the index on the hash (`HashIsUnique`); a row goes with its account and in no other way (`GoneWithAccount`); a request that goes on had submitted its token in time (`CallsInTime`); and what is called unusable has run out or is spent (`GoneWithReason`). |
| `PasskeyProofs` | `TypeCorrect`, `OneSession`, `OneCredential`, `RegisteredUser`, `ExpiryFinal` | a request past a deletion holds a challenge that is spent, and is the only one that does; what is stored of a credential, and what a request that stores one holds, agrees with what was issued with its challenge, and its user was added before it. |

In each proof module the initial states and every action are shown to keep the
invariant, one lemma or step per action, and the last step of each theorem is the
temporal one.

**Model-checked only**: `EveryRequestIsAnswered` and `RefreshEnds`, liveness properties
under fairness, which are out of this prover's reach as is everything about `ENABLED`.
Every other property that a run checks is also a theorem.  Induction over data and
`RECURSIVE` operators are not within the prover's reach either; no module needs them.

## What is not modelled

* **Signatures, PKCE, client authentication, redirect URIs, DPoP headers, JSON and
  cookie syntax**: decided from one request alone.  A handler of the model begins with
  a request that passes them; one that does not changes no state.
* **What makes a redirect URI or a document well formed**, and clients registered
  beforehand, a constant map.  `Clients` begins with the URIs that are named.
* **The resource server's side** (`authorizer_request_parser`,
  `active_session_processor`, `access_token_parser`): reads only.  What the session
  endpoints' authorizer decides is the guard `Session.Admits`.
* **The WebAuthn library, the WebAuthn data formats and the application's passkey stores**:
  external; `Passkey` says what is assumed of them.
* **Logging, metadata, wording, test support**: no state.
* **Waits for rows other than a key's** in `ApiKeys`, and for any row in the modules
  where each transaction is one step.
* **The database** is taken at its word: statements are atomic, row locks exclude,
  `now()` is the start of the transaction, uniqueness is enforced.

## Order of the work

The order was that of what a mistake would cost: sessions and their revocation; grants,
rotation and consent with the abstract store; the store in memory; proofs presented
twice; keys and assertions; signing in at a provider; then passkeys, links and id
tokens, clients, and the browser's side of the device-bound refresh.  What would come
next:

1. **The request authorizer and the resource server**: `authorizer_request_parser` with
   its bindings (`cnf`, audience, roles, tenant) and `access_token_parser`, as an
   operator over tokens and configurations: which requests are let in.
2. **Theorems** about those, once they are modelled.
