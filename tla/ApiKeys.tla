------------------------------- MODULE ApiKeys -------------------------------
(***************************************************************************)
(* Keys an account registers, and the tokens minted with them: the mint    *)
(* endpoint, api_key_cruder.RecordMint and RevokeForAccount.               *)
(*                                                                         *)
(* A mint reads the key, verifies the assertion, and records it in a       *)
(* transaction that holds the key's row from its lock to its commit.       *)
(* "start" is the transaction's now(): Postgres reads it before the lock   *)
(* is waited for. lock[k] is who holds the row of k; waits for the rows of *)
(* sign-ins and accounts are left out.                                     *)
(***************************************************************************)
EXTENDS Integers, FiniteSets

CONSTANTS
  Account, Key, Jti, Authentication,
  AssertionExp,           \* "exp" of the assertions made
  KeyExpiry,              \* dates keys are registered with
  Absent,                 \* no row
  Never,
  Call,                   \* requests at once
  Lifetime, Leeway,       \* of an assertion
  AuthenticationLifetime, TokenLifetime,
  MaxTime                 \* bound of the clock

ASSUME KeysAssumption ==
  /\ AssertionExp \subseteq Nat /\ KeyExpiry \subseteq Nat
  /\ Absent \notin Nat /\ Never \notin Nat
  /\ Lifetime \in Nat /\ Leeway \in Nat
  /\ AuthenticationLifetime \in Nat /\ TokenLifetime \in Nat

VARIABLES
  now,
  locked,                 \* accounts an administrator locked
  apiKey, lock,
  apiKeyAssertion,        \* when what a key minted with may be forgotten
  authentication,         \* sign-ins, each with the key it is linked to
  call,
  token,                  \* session tokens minted
  recorded,               \* assertions recorded (history)
  replayed,               \* assertions recorded again (history)
  latest,                 \* the latest start of a mint recorded, by key (history)
  revived                 \* keys with a sign-in kept after it had run out (history)

history == <<recorded, replayed, latest, revived>>
vars == <<now, locked, apiKey, lock, apiKeyAssertion, authentication, call, token, history>>

Assertion == [key: Key, jti: Jti, exp: AssertionExp]
KeyRow == [account: Account, expiresAt: KeyExpiry \union {Never}, revoked: BOOLEAN]
AuthenticationRow == [key: Key, expiresAt: Nat, ended: BOOLEAN]
Token == [key: Key, authentication: Authentication, expiresAt: Nat]

ASSUME AbsentRowAssumption == Absent \notin KeyRow \union AuthenticationRow

Idle == [step |-> "idle"]
Selected == [step: {"verify"}, assertion: Assertion,
             expiresAt: KeyExpiry \union {Never}, revoked: BOOLEAN]
Verified == [step: {"begin"}, assertion: Assertion]
InTransaction == [step: {"lock", "record"}, assertion: Assertion, start: Nat]
Recorded == [step: {"mint"}, key: Key, authentication: Authentication,
             expiresAt: Nat, locked: BOOLEAN]
Revoking == [step: {"end"}, key: Key]
CallState == {Idle} \union Selected \union Verified \union InTransaction
               \union Recorded \union Revoking

TypeOK ==
  /\ now \in Nat
  /\ locked \in SUBSET Account
  /\ apiKey \in [Key -> KeyRow \union {Absent}]
  /\ lock \in [Key -> SUBSET Call]
  /\ apiKeyAssertion \in [Key \X Jti -> Nat \union {Absent}]
  /\ authentication \in [Authentication -> AuthenticationRow \union {Absent}]
  /\ call \in [Call -> CallState]
  /\ token \in SUBSET Token
  /\ recorded \in SUBSET Assertion /\ replayed \in SUBSET Assertion
  /\ latest \in [Key -> Nat] /\ revived \in SUBSET Key

Init ==
  /\ now = 0 /\ locked = {}
  /\ apiKey = [k \in Key |-> Absent]
  /\ lock = [k \in Key |-> {}]
  /\ apiKeyAssertion = [e \in Key \X Jti |-> Absent]
  /\ authentication = [a \in Authentication |-> Absent]
  /\ call = [c \in Call |-> Idle]
  /\ token = {}
  /\ recorded = {} /\ replayed = {} /\ latest = [k \in Key |-> 0] /\ revived = {}

-----------------------------------------------------------------------------
\* The key's thumbprint is the row's key: a key is registered once.
Create(k, x, expiry) ==
  /\ apiKey[k] = Absent
  /\ apiKey' = [apiKey EXCEPT ![k] = [account |-> x, expiresAt |-> expiry, revoked |-> FALSE]]
  /\ UNCHANGED <<now, locked, lock, apiKeyAssertion, authentication, call, token, history>>

LockAccount(x) ==
  /\ locked' = IF x \in locked THEN locked \ {x} ELSE locked \union {x}
  /\ UNCHANGED <<now, apiKey, lock, apiKeyAssertion, authentication, call, token, history>>

\* The sign-in ended from elsewhere: a sign-out, the account's activity.
EndAuthentication(a) ==
  /\ authentication[a] # Absent
  /\ authentication' = [authentication EXCEPT ![a].ended = TRUE]
  /\ UNCHANGED <<now, locked, apiKey, lock, apiKeyAssertion, call, token, history>>

Goto(c, state) == call' = [call EXCEPT ![c] = state]

\* Bound: a mint is begun while every call has a sign-in left to make.
Spare == Cardinality({a \in Authentication : authentication[a] = Absent}) >= Cardinality(Call)

SelectForMint(c, p) ==
  /\ call[c] = Idle
  /\ Spare
  /\ apiKey[p.key] # Absent
  /\ Goto(c, [step |-> "verify", assertion |-> p,
              expiresAt |-> apiKey[p.key].expiresAt, revoked |-> apiKey[p.key].revoked])
  /\ UNCHANGED <<now, locked, apiKey, lock, apiKeyAssertion, authentication, token, history>>

\* "iat" and "nbf", optional, only refuse more of what is signed.
Acceptable(p) == p.exp > now - Leeway /\ p.exp <= now + Lifetime + Leeway

\* The assertion, and the key as it was read.
Verify(c) ==
  /\ call[c].step = "verify"
  /\ LET usable == /\ Acceptable(call[c].assertion)
                   /\ ~call[c].revoked
                   /\ call[c].expiresAt = Never \/ now < call[c].expiresAt
     IN Goto(c, IF usable THEN [step |-> "begin", assertion |-> call[c].assertion] ELSE Idle)
  /\ UNCHANGED <<now, locked, apiKey, lock, apiKeyAssertion, authentication, token, history>>

Begin(c) ==
  /\ call[c].step = "begin"
  /\ Goto(c, [step |-> "lock", assertion |-> call[c].assertion, start |-> now])
  /\ UNCHANGED <<now, locked, apiKey, lock, apiKeyAssertion, authentication, token, history>>

\* Mutant: the key's revocation is read, and its row left to others.
ReadKey(c) ==
  /\ call[c].step = "lock"
  /\ Goto(c, IF apiKey[call[c].assertion.key].revoked THEN Idle
             ELSE [call[c] EXCEPT !.step = "record"])
  /\ UNCHANGED <<now, locked, apiKey, lock, apiKeyAssertion, authentication, token, history>>

\* Mutant: FOR SHARE, which mints hold together and a revocation waits for.
LockKeyShared(c) ==
  /\ call[c].step = "lock"
  /\ LET k == call[c].assertion.key IN
     /\ \A d \in lock[k] : call[d].step # "end"
     /\ IF apiKey[k].revoked
        THEN Goto(c, Idle) /\ UNCHANGED lock
        ELSE Goto(c, [call[c] EXCEPT !.step = "record"])
             /\ lock' = [lock EXCEPT ![k] = @ \union {c}]
  /\ UNCHANGED <<now, locked, apiKey, apiKeyAssertion, authentication, token, history>>

\* SELECT revoked_at ... FOR UPDATE.
LockKey(c) ==
  /\ call[c].step = "lock"
  /\ LET k == call[c].assertion.key IN
     /\ lock[k] = {}
     /\ IF apiKey[k].revoked
        THEN Goto(c, Idle) /\ UNCHANGED lock
        ELSE Goto(c, [call[c] EXCEPT !.step = "record"]) /\ lock' = [lock EXCEPT ![k] = {c}]
  /\ UNCHANGED <<now, locked, apiKey, apiKeyAssertion, authentication, token, history>>

\* The columns that are unique together.
EntryOf(p) == <<p.key, p.jti>>

Unlock(c) == lock' = [k \in Key |-> lock[k] \ {c}]

\* The identifier is kept already: ErrAssertionAlreadyUsed, rolled back.
RefuseUsed(c) ==
  /\ call[c].step = "record"
  /\ apiKeyAssertion[EntryOf(call[c].assertion)] # Absent
  /\ Goto(c, Idle)
  /\ Unlock(c)
  /\ UNCHANGED <<now, locked, apiKey, apiKeyAssertion, authentication, token, history>>

\* Mutant: an assertion is kept for as long as one made now may last.
AssertionRetentionShort == Lifetime + Leeway

AssertionRetention == Lifetime + 2 * Leeway

\* The INSERT, and the DELETE of what this key left behind, both at start.
Remember(p, start) ==
  apiKeyAssertion' = [e \in Key \X Jti |->
    LET kept == IF e = EntryOf(p) THEN start + AssertionRetention ELSE apiKeyAssertion[e]
    IN IF e[1] = p.key /\ kept # Absent /\ kept <= start THEN Absent ELSE kept]

SignIns(k) == {a \in Authentication : authentication[a] # Absent /\ authentication[a].key = k}

\* Those the UPDATE finds.
Extended(k, start) ==
  {a \in SignIns(k) : ~authentication[a].ended /\ authentication[a].expiresAt > start}

\* Mutant: a sign-in is made at every mint.
KeepSignInNew(k, start, expiresAt, a) ==
  /\ authentication[a] = Absent
  /\ authentication' = [authentication EXCEPT
       ![a] = [key |-> k, expiresAt |-> expiresAt, ended |-> FALSE]]

\* a is the sign-in the mint is recorded under: one of those found, which are
\* all extended, or else one that is made.
KeepSignIn(k, start, expiresAt, a) ==
  \/ /\ a \in Extended(k, start)
     /\ authentication' = [b \in Authentication |->
          IF b \in Extended(k, start) THEN [authentication[b] EXCEPT !.expiresAt = expiresAt]
          ELSE authentication[b]]
  \/ /\ Extended(k, start) = {}
     /\ authentication[a] = Absent
     /\ authentication' = [authentication EXCEPT
          ![a] = [key |-> k, expiresAt |-> expiresAt, ended |-> FALSE]]

\* One of them had run out when a mint began that was recorded before this one.
Revives(k, start) == \E a \in Extended(k, start) : authentication[a].expiresAt <= latest[k]

\* The row is updated too, which nobody else may hold.
Record(c, a) ==
  /\ call[c].step = "record"
  /\ lock[call[c].assertion.key] \subseteq {c}
  /\ LET p == call[c].assertion
         k == p.key
         start == call[c].start
         expiresAt == now + AuthenticationLifetime
     IN
     /\ apiKeyAssertion[EntryOf(p)] = Absent
     /\ Remember(p, start)
     /\ KeepSignIn(k, start, expiresAt, a)
     /\ Goto(c, [step |-> "mint", key |-> k, authentication |-> a,
                 expiresAt |-> expiresAt, locked |-> apiKey[k].account \in locked])
     /\ recorded' = recorded \union {p}
     /\ replayed' = IF p \in recorded THEN replayed \union {p} ELSE replayed
     /\ latest' = [latest EXCEPT ![k] = IF start > @ THEN start ELSE @]
     /\ revived' = IF Revives(k, start) THEN revived \union {k} ELSE revived
  /\ Unlock(c)
  /\ UNCHANGED <<now, locked, apiKey, token>>

Least(a, b) == IF a <= b THEN a ELSE b

TokenExpiry(expiresAt) == Least(now + TokenLifetime, expiresAt)

\* Mutant: the account is not asked about.
MintableUnlessOver(state) == now <= state.expiresAt

Mintable(state) == now <= state.expiresAt /\ ~state.locked

MintToken(c) ==
  /\ call[c].step = "mint"
  /\ token' = IF Mintable(call[c])
              THEN token \union {[key |-> call[c].key,
                                  authentication |-> call[c].authentication,
                                  expiresAt |-> TokenExpiry(call[c].expiresAt)]}
              ELSE token
  /\ Goto(c, Idle)
  /\ UNCHANGED <<now, locked, apiKey, lock, apiKeyAssertion, authentication, history>>

\* UPDATE api_key SET revoked_at: the row, once whoever holds it lets go.
RevokeForAccount(c, x, k) ==
  /\ call[c] = Idle
  /\ lock[k] = {}
  /\ apiKey[k] # Absent /\ apiKey[k].account = x /\ ~apiKey[k].revoked
  /\ lock' = [lock EXCEPT ![k] = {c}]
  /\ Goto(c, [step |-> "end", key |-> k])
  /\ UNCHANGED <<now, locked, apiKey, apiKeyAssertion, authentication, token, history>>

\* The sign-ins ended, and both committed.
EndSignIns(c) ==
  /\ call[c].step = "end"
  /\ LET k == call[c].key IN
     /\ apiKey' = [apiKey EXCEPT ![k].revoked = TRUE]
     /\ authentication' = [a \in Authentication |->
          IF a \in SignIns(k) THEN [authentication[a] EXCEPT !.ended = TRUE]
          ELSE authentication[a]]
  /\ Goto(c, Idle)
  /\ Unlock(c)
  /\ UNCHANGED <<now, locked, apiKeyAssertion, token, history>>

\* The request is cancelled, times out or fails: what it began is rolled back.
Abandon(c) ==
  /\ call[c] # Idle
  /\ Goto(c, Idle)
  /\ Unlock(c)
  /\ UNCHANGED <<now, locked, apiKey, apiKeyAssertion, authentication, token, history>>

Tick ==
  /\ now < MaxTime
  /\ now' = now + 1
  /\ UNCHANGED <<locked, apiKey, lock, apiKeyAssertion, authentication, call, token, history>>

\* The steps a request takes once it is begun.
Continue(c) ==
  \/ Verify(c) \/ Begin(c) \/ LockKey(c) \/ RefuseUsed(c)
  \/ \E a \in Authentication : Record(c, a)
  \/ MintToken(c) \/ EndSignIns(c)

Next ==
  \/ \E k \in Key, x \in Account, expiry \in KeyExpiry \union {Never} : Create(k, x, expiry)
  \/ \E x \in Account : LockAccount(x)
  \/ \E a \in Authentication : EndAuthentication(a)
  \/ \E c \in Call :
       \/ \E p \in Assertion : SelectForMint(c, p)
       \/ \E x \in Account, k \in Key : RevokeForAccount(c, x, k)
       \/ Continue(c) \/ Abandon(c)
  \/ Tick

Spec == Init /\ [][Next]_vars

-----------------------------------------------------------------------------
\* "Revocation is where API access ends": a key that is revoked has no sign-in
\* that tokens could be renewed from, whatever mints were under way.
RevokedKeyHasNoSignIn ==
  \A k \in Key : apiKey[k] # Absent /\ apiKey[k].revoked =>
    \A a \in SignIns(k) : authentication[a].ended

\* An assertion is recorded again only once a mint of its key has begun at a
\* time when it could no longer be presented: by a request that had verified it
\* before, and was overtaken.
AssertionReplayIsLate == \A p \in replayed : latest[p.key] >= p.exp + Leeway

\* "one key to one entry in the account's activity however often it mints": of
\* all mints at once, only one that was overtaken, while it waited, by a mint to
\* which the sign-in had run out, brings a key to a second one.
OneSignInPerKey ==
  \A k \in Key \ revived : Cardinality(Extended(k, now)) <= 1

\* The mints on behalf of x that read it as unlocked, under way.
Unlocked(x) == {c \in Call : /\ call[c].step = "mint"
                             /\ apiKey[call[c].key].account = x
                             /\ ~call[c].locked}

\* Once an account is locked, only mints recorded before get a token.
LockedAccountMintsNothing ==
  [][\A x \in locked : Unlocked(x) = {} =>
       \A t \in token' \ token : apiKey[t.key].account # x]_vars

\* A key's row is held by one request at a time, which has it yet to write, and is given
\* back however that request ends: the update of the row waits for nobody, as it would
\* where two mints each held a share of it.  Of the other rows a holder may wait for, the
\* sign-ins' and the account's, this says nothing.
RowHeldByWriter ==
  \A k \in Key, c \in Call : c \in lock[k] =>
    /\ lock[k] = {c}
    /\ \/ call[c].step = "record" /\ call[c].assertion.key = k
       \/ call[c].step = "end" /\ call[c].key = k
=============================================================================
