----------------------------- MODULE MemoryStore -----------------------------
(***************************************************************************)
(* The oauth.Store of memory_store: maps behind a mutex.                   *)
(*                                                                         *)
(* Every method holds the mutex from end to end but RotateRefreshToken,    *)
(* which lets go of it for the check, and looks at the token again after.  *)
(* call[c] is where rotation c is; each step is one hold of the mutex.     *)
(***************************************************************************)
EXTENDS Integers

CONSTANTS
  Account, Grant, RefreshToken,
  Absent,                 \* no entry
  Call,                   \* rotations at once
  RefreshTokenLifetime,
  MaxTime                 \* bound of the clock

ASSUME LifetimeAssumption == RefreshTokenLifetime \in Nat /\ MaxTime \in Nat

VARIABLES
  now,
  lockedAccounts,
  grants,                 \* by id
  refreshTokens,          \* by hash
  reused,                 \* tokens a caller was told had been spent (history)
  call

vars == <<now, lockedAccounts, grants, refreshTokens, reused, call>>

GrantEntry == [account: Account, revoked: BOOLEAN]
RefreshTokenEntry == [grant: Grant, expiresAt: Nat, used: BOOLEAN]

ASSUME AbsentEntryAssumption == Absent \notin GrantEntry \union RefreshTokenEntry

Idle == [step |-> "idle"]
Rotating == [step: {"check", "ask", "spend"}, token: RefreshToken, start: Nat]

TypeOK ==
  /\ now \in Nat
  /\ lockedAccounts \in SUBSET Account
  /\ grants \in [Grant -> GrantEntry \union {Absent}]
  /\ refreshTokens \in [RefreshToken -> RefreshTokenEntry \union {Absent}]
  /\ reused \in SUBSET RefreshToken
  /\ call \in [Call -> {Idle} \union Rotating]

Init ==
  /\ now = 0
  /\ lockedAccounts = {}
  /\ grants = [g \in Grant |-> Absent]
  /\ refreshTokens = [t \in RefreshToken |-> Absent]
  /\ reused = {}
  /\ call = [c \in Call |-> Idle]

-----------------------------------------------------------------------------
LockAccount(x) ==
  /\ lockedAccounts' = lockedAccounts \union {x}
  /\ UNCHANGED <<now, grants, refreshTokens, reused, call>>

UnlockAccount(x) ==
  /\ lockedAccounts' = lockedAccounts \ {x}
  /\ UNCHANGED <<now, grants, refreshTokens, reused, call>>

AccountActive(x) == x \notin lockedAccounts

InsertGrant(g, t, x) ==
  /\ grants[g] = Absent /\ refreshTokens[t] = Absent
  /\ grants' = [grants EXCEPT ![g] = [account |-> x, revoked |-> FALSE]]
  /\ refreshTokens' = [refreshTokens EXCEPT
       ![t] = [grant |-> g, expiresAt |-> now + RefreshTokenLifetime, used |-> FALSE]]
  /\ UNCHANGED <<now, lockedAccounts, reused, call>>

GrantOf(t) == refreshTokens[t].grant

Revoke(g) == grants' = [grants EXCEPT ![g].revoked = TRUE]

\* find, by what it comes to: no such token, or one that can no longer be
\* spent; one spent before, whose grant is revoked; or one that can be spent.
Missing(t, start) ==
  \/ refreshTokens[t] = Absent
  \/ /\ refreshTokens[t] # Absent
     /\ ~refreshTokens[t].used
     /\ grants[GrantOf(t)].revoked \/ start >= refreshTokens[t].expiresAt
SpentBefore(t) == refreshTokens[t] # Absent /\ refreshTokens[t].used
Spendable(t, start) == ~Missing(t, start) /\ ~SpentBefore(t)

\* Mutant: it is told that the token was spent, and its grant left as it is.
RefuseReusedOnly(t) ==
  /\ SpentBefore(t)
  /\ reused' = reused \union {t}
  /\ UNCHANGED grants

RefuseReused(t) ==
  /\ SpentBefore(t)
  /\ Revoke(GrantOf(t))
  /\ reused' = reused \union {t}

Refuse(t, start) ==
  \/ Missing(t, start) /\ UNCHANGED <<grants, reused>>
  \/ RefuseReused(t)

\* renewable, before the check.
RotateRefreshToken(c, t) ==
  /\ call[c] = Idle
  /\ \/ /\ Spendable(t, now)
        /\ call' = [call EXCEPT ![c] = [step |-> "check", token |-> t, start |-> now]]
        /\ UNCHANGED <<grants, reused>>
     \/ Refuse(t, now) /\ UNCHANGED call
  /\ UNCHANGED <<now, lockedAccounts, refreshTokens>>

\* The check compares the copied grant with the request, of which the store
\* knows nothing, and asks the store about the account in a call of its own.
CheckGrant(c) ==
  /\ call[c].step = "check"
  /\ \E allowed \in BOOLEAN :
       call' = [call EXCEPT ![c] = IF allowed THEN [@ EXCEPT !.step = "ask"] ELSE Idle]
  /\ UNCHANGED <<now, lockedAccounts, grants, refreshTokens, reused>>

\* Mutant: the account is not asked about.
AskNothing(c) ==
  /\ call[c].step = "ask"
  /\ call' = [call EXCEPT ![c].step = "spend"]
  /\ UNCHANGED <<now, lockedAccounts, grants, refreshTokens, reused>>

AskAccount(c) ==
  /\ call[c].step = "ask"
  /\ call' = [call EXCEPT ![c] =
       IF AccountActive(grants[GrantOf(@.token)].account)
       THEN [@ EXCEPT !.step = "spend"] ELSE Idle]
  /\ UNCHANGED <<now, lockedAccounts, grants, refreshTokens, reused>>

Renew(t, u, start) ==
  refreshTokens' = [refreshTokens EXCEPT
    ![t].used = TRUE,
    ![u] = [grant |-> GrantOf(t), expiresAt |-> start + RefreshTokenLifetime, used |-> FALSE]]

\* Mutant: the token is not looked at again.
SpendUnseen(c, u) ==
  /\ call[c].step = "spend"
  /\ refreshTokens[u] = Absent
  /\ Renew(call[c].token, u, call[c].start)
  /\ call' = [call EXCEPT ![c] = Idle]
  /\ UNCHANGED <<now, lockedAccounts, grants, reused>>

\* The token looked at again, and spent.
Spend(c, u) ==
  /\ call[c].step = "spend"
  /\ refreshTokens[u] = Absent
  /\ LET t == call[c].token IN
     \/ /\ Spendable(t, call[c].start)
        /\ Renew(t, u, call[c].start)
        /\ UNCHANGED <<grants, reused>>
     \/ Refuse(t, call[c].start) /\ UNCHANGED refreshTokens
  /\ call' = [call EXCEPT ![c] = Idle]
  /\ UNCHANGED <<now, lockedAccounts>>

RevokeRefreshToken(t) ==
  /\ IF refreshTokens[t] # Absent THEN Revoke(GrantOf(t)) ELSE UNCHANGED grants
  /\ UNCHANGED <<now, lockedAccounts, refreshTokens, reused, call>>

Tick ==
  /\ now < MaxTime
  /\ now' = now + 1
  /\ UNCHANGED <<lockedAccounts, grants, refreshTokens, reused, call>>

Next ==
  \/ \E x \in Account : LockAccount(x) \/ UnlockAccount(x)
  \/ \E g \in Grant, t \in RefreshToken, x \in Account : InsertGrant(g, t, x)
  \/ \E c \in Call :
       \/ \E t \in RefreshToken : RotateRefreshToken(c, t)
       \/ CheckGrant(c) \/ AskAccount(c)
       \/ \E u \in RefreshToken : Spend(c, u)
  \/ \E t \in RefreshToken : RevokeRefreshToken(t)
  \/ Tick

Spec == Init /\ [][Next]_vars

-----------------------------------------------------------------------------
\* Two callers present one token, both get past the check: the one that comes
\* second ends the grant, for the first as well.
ReuseEndsGrant == \A t \in reused : grants[GrantOf(t)].revoked

\* The calls on behalf of x that were told it is active.
Asked(x) == {c \in Call : call[c].step = "spend" /\ grants[GrantOf(call[c].token)].account = x}

\* An account that is locked is renewed only by calls that asked before.
LockedAccountIsNotRenewed ==
  [][\A x \in lockedAccounts :
       Asked(x) = {} =>
         /\ Asked(x)' = {}
         /\ \A t \in RefreshToken :
              refreshTokens[t] = Absent /\ refreshTokens'[t] # Absent
                /\ grants[refreshTokens'[t].grant] # Absent
              => grants[refreshTokens'[t].grant].account # x]_vars

-----------------------------------------------------------------------------
\* What the maps keep, as the Store interface promises it.
StandingOf(g) ==
  CASE grants[g] = Absent -> "none"
    [] grants[g] # Absent /\ grants[g].revoked -> "revoked"
    [] OTHER -> "live"
TokenOf(t) ==
  IF refreshTokens[t] = Absent THEN Absent
  ELSE [grant |-> refreshTokens[t].grant, spent |-> refreshTokens[t].used]

Promise == INSTANCE RefreshTokens WITH
  grant <- [g \in Grant |-> StandingOf(g)],
  refreshToken <- [t \in RefreshToken |-> TokenOf(t)]

ASSUME AbsentTokenAssumption == Promise!AbsentIsNoToken

\* Letting go of the mutex for the check is not seen: each hold of it is one
\* step the interface promises, or none.
KeepsPromise == Promise!Spec
=============================================================================
