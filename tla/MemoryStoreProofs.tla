-------------------------- MODULE MemoryStoreProofs --------------------------
(* That MemoryStore keeps the promise of RefreshTokens, and whom it renews   *)
(* after an account is locked, for every value of its constants.             *)
EXTENDS MemoryStore, TLAPS

\* Every token has its grant, and every rotation in flight its token.
TokensHaveGrants ==
  \A t \in RefreshToken : refreshTokens[t] # Absent => grants[GrantOf(t)] # Absent
CallsHaveTokens ==
  \A c \in Call : call[c] # Idle => refreshTokens[call[c].token] # Absent

\* Every token that came back spent is one that was kept, of a revoked grant.
ReusedRevoked == \A t \in reused : refreshTokens[t] # Absent /\ grants[GrantOf(t)].revoked

Kept == TypeOK /\ TokensHaveGrants /\ CallsHaveTokens /\ ReusedRevoked

LEMMA Entries ==
  /\ \A g \in GrantEntry : g # Absent
  /\ \A t \in RefreshTokenEntry : t # Absent
BY AbsentEntryAssumption

LEMMA TokenEntry ==
  ASSUME Kept, NEW t \in RefreshToken, refreshTokens[t] # Absent
  PROVE  /\ refreshTokens[t] \in RefreshTokenEntry
         /\ GrantOf(t) \in Grant
         /\ grants[GrantOf(t)] # Absent
         /\ grants[GrantOf(t)] \in GrantEntry
BY DEF Kept, TypeOK, TokensHaveGrants, GrantOf, RefreshTokenEntry

LEMMA Calls ==
  ASSUME Kept, NEW c \in Call, call[c] # Idle
  PROVE  /\ call[c] \in Rotating
         /\ call[c].token \in RefreshToken /\ call[c].start \in Nat
         /\ refreshTokens[call[c].token] # Absent
<1>1. call[c] \in Rotating
  BY DEF Kept, TypeOK
<1> QED
  BY <1>1 DEF Kept, CallsHaveTokens, Rotating

LEMMA IdleStep == Idle.step = "idle"
BY DEF Idle

LEMMA RevokedEntry ==
  ASSUME NEW row \in GrantEntry
  PROVE  /\ [row EXCEPT !.revoked = TRUE] \in GrantEntry
         /\ [row EXCEPT !.revoked = TRUE].revoked
         /\ [row EXCEPT !.revoked = TRUE].account = row.account
BY DEF GrantEntry

LEMMA UsedEntry ==
  ASSUME NEW row \in RefreshTokenEntry
  PROVE  /\ [row EXCEPT !.used = TRUE] \in RefreshTokenEntry
         /\ [row EXCEPT !.used = TRUE].grant = row.grant
         /\ [row EXCEPT !.used = TRUE].used
BY DEF RefreshTokenEntry

LEMMA NextStep ==
  ASSUME NEW state \in Rotating, NEW step \in {"check", "ask", "spend"}
  PROVE  /\ [state EXCEPT !.step = step] \in Rotating
         /\ [state EXCEPT !.step = step].token = state.token
BY DEF Rotating

-----------------------------------------------------------------------------
\* What a step does to grants and tokens.  There are four kinds.

Opened(g, t) ==
  /\ grants[g] = Absent /\ refreshTokens[t] = Absent
  /\ grants' \in [Grant -> GrantEntry \union {Absent}]
  /\ refreshTokens' \in [RefreshToken -> RefreshTokenEntry \union {Absent}]
  /\ grants'[g] \in GrantEntry /\ ~grants'[g].revoked
  /\ refreshTokens'[t] \in RefreshTokenEntry
  /\ refreshTokens'[t].grant = g /\ ~refreshTokens'[t].used
  /\ \A h \in Grant : h # g => grants'[h] = grants[h]
  /\ \A u \in RefreshToken : u # t => refreshTokens'[u] = refreshTokens[u]
  /\ reused' = reused

Renewed(t, u) ==
  /\ refreshTokens[t] # Absent /\ ~refreshTokens[t].used /\ refreshTokens[u] = Absent
  /\ ~grants[GrantOf(t)].revoked
  /\ refreshTokens' \in [RefreshToken -> RefreshTokenEntry \union {Absent}]
  /\ refreshTokens'[t] \in RefreshTokenEntry /\ refreshTokens'[u] \in RefreshTokenEntry
  /\ refreshTokens'[t].grant = GrantOf(t) /\ refreshTokens'[t].used
  /\ refreshTokens'[u].grant = GrantOf(t) /\ ~refreshTokens'[u].used
  /\ \A w \in RefreshToken : w # t /\ w # u => refreshTokens'[w] = refreshTokens[w]
  /\ UNCHANGED <<grants, reused>>

Ended(t) ==
  /\ refreshTokens[t] # Absent
  /\ grants' \in [Grant -> GrantEntry \union {Absent}]
  /\ grants'[GrantOf(t)] \in GrantEntry /\ grants'[GrantOf(t)].revoked
  /\ grants'[GrantOf(t)].account = grants[GrantOf(t)].account
  /\ \A h \in Grant : h # GrantOf(t) => grants'[h] = grants[h]
  /\ reused' \in {reused, reused \union {t}}
  /\ UNCHANGED refreshTokens

LEMMA EndedByRevoke ==
  ASSUME Kept, NEW t \in RefreshToken, refreshTokens[t] # Absent, Revoke(GrantOf(t)),
         reused' \in {reused, reused \union {t}}, UNCHANGED refreshTokens
  PROVE  Ended(t)
<1> DEFINE row == [grants[GrantOf(t)] EXCEPT !.revoked = TRUE]
<1>1. row \in GrantEntry /\ row.revoked /\ row.account = grants[GrantOf(t)].account
  BY TokenEntry, RevokedEntry
<1>2. grants' = [grants EXCEPT ![GrantOf(t)] = row]
  BY DEF Revoke
<1> HIDE DEF row
<1> QED
  BY <1>1, <1>2, TokenEntry DEF Kept, TypeOK, Ended

LEMMA EndedByRefuse ==
  ASSUME Kept, NEW t \in RefreshToken, NEW start, Refuse(t, start), UNCHANGED refreshTokens
  PROVE  UNCHANGED <<grants, refreshTokens, reused>> \/ Ended(t)
<1>1. CASE RefuseReused(t)
  BY <1>1, EndedByRevoke DEF RefuseReused, SpentBefore
<1>2. CASE ~RefuseReused(t)
  BY <1>2 DEF Refuse
<1> QED
  BY <1>1, <1>2

LEMMA RenewedBySpend ==
  ASSUME Kept, NEW t \in RefreshToken, NEW u \in RefreshToken, NEW start \in Nat,
         Spendable(t, start), refreshTokens[u] = Absent, Renew(t, u, start),
         UNCHANGED <<grants, reused>>
  PROVE  Renewed(t, u)
<1> DEFINE used == [refreshTokens[t] EXCEPT !.used = TRUE]
           new == [grant |-> GrantOf(t), expiresAt |-> start + RefreshTokenLifetime,
                   used |-> FALSE]
<1>1. refreshTokens[t] # Absent /\ ~refreshTokens[t].used /\ ~grants[GrantOf(t)].revoked
  BY DEF Spendable, Missing, SpentBefore
<1>2. refreshTokens[t] \in RefreshTokenEntry /\ GrantOf(t) \in Grant
  BY <1>1, TokenEntry
<1>3. used \in RefreshTokenEntry /\ used.grant = GrantOf(t) /\ used.used
  BY <1>2, UsedEntry DEF GrantOf
<1>4. new \in RefreshTokenEntry /\ new.grant = GrantOf(t) /\ ~new.used
  <2>1. start + RefreshTokenLifetime \in Nat
    BY LifetimeAssumption
  <2> QED
    BY <1>2, <2>1 DEF RefreshTokenEntry
<1>5. refreshTokens' = [refreshTokens EXCEPT ![t] = used, ![u] = new] /\ t # u
  BY <1>1 DEF Renew
<1> HIDE DEF used, new
<1>6. /\ refreshTokens' \in [RefreshToken -> RefreshTokenEntry \union {Absent}]
      /\ refreshTokens'[t] = used /\ refreshTokens'[u] = new
      /\ \A w \in RefreshToken : w # t /\ w # u => refreshTokens'[w] = refreshTokens[w]
  BY <1>3, <1>4, <1>5 DEF Kept, TypeOK
<1> QED
  BY <1>1, <1>3, <1>4, <1>6 DEF Renewed

LEMMA OpenedByInsert ==
  ASSUME Kept, NEW g \in Grant, NEW t \in RefreshToken, NEW x \in Account, InsertGrant(g, t, x)
  PROVE  Opened(g, t)
<1> DEFINE row == [account |-> x, revoked |-> FALSE]
           new == [grant |-> g, expiresAt |-> now + RefreshTokenLifetime, used |-> FALSE]
<1>1. row \in GrantEntry /\ ~row.revoked
  BY DEF GrantEntry
<1>2. new \in RefreshTokenEntry /\ new.grant = g /\ ~new.used
  <2>1. now + RefreshTokenLifetime \in Nat
    BY LifetimeAssumption DEF Kept, TypeOK
  <2> QED
    BY <2>1 DEF RefreshTokenEntry
<1>3. /\ grants[g] = Absent /\ refreshTokens[t] = Absent /\ reused' = reused
      /\ grants' = [grants EXCEPT ![g] = row]
      /\ refreshTokens' = [refreshTokens EXCEPT ![t] = new]
  BY DEF InsertGrant
<1> HIDE DEF row, new
<1>4. /\ grants' \in [Grant -> GrantEntry \union {Absent}] /\ grants'[g] = row
      /\ \A h \in Grant : h # g => grants'[h] = grants[h]
  BY <1>1, <1>3 DEF Kept, TypeOK
<1>5. /\ refreshTokens' \in [RefreshToken -> RefreshTokenEntry \union {Absent}]
      /\ refreshTokens'[t] = new
      /\ \A u \in RefreshToken : u # t => refreshTokens'[u] = refreshTokens[u]
  BY <1>2, <1>3 DEF Kept, TypeOK
<1> QED
  BY <1>1, <1>2, <1>3, <1>4, <1>5 DEF Opened

LEMMA KindsOfStep ==
  ASSUME Kept, [Next]_vars
  PROVE  \/ UNCHANGED <<grants, refreshTokens, reused>>
         \/ \E g \in Grant, t \in RefreshToken : Opened(g, t)
         \/ \E t, u \in RefreshToken : Renewed(t, u)
         \/ \E t \in RefreshToken : Ended(t)
<1>1. ASSUME NEW g \in Grant, NEW t \in RefreshToken, NEW x \in Account, InsertGrant(g, t, x)
      PROVE  Opened(g, t)
  BY <1>1, OpenedByInsert
<1>2. ASSUME NEW c \in Call, NEW t \in RefreshToken, RotateRefreshToken(c, t)
      PROVE  UNCHANGED <<grants, refreshTokens, reused>> \/ Ended(t)
  BY <1>2, EndedByRefuse DEF RotateRefreshToken
<1>3. ASSUME NEW c \in Call, NEW u \in RefreshToken, Spend(c, u)
      PROVE  \/ UNCHANGED <<grants, refreshTokens, reused>>
             \/ \E t \in RefreshToken : Ended(t) \/ Renewed(t, u)
  <2>1. call[c] # Idle
    BY <1>3, IdleStep DEF Spend
  <2>2. call[c].token \in RefreshToken /\ call[c].start \in Nat
    BY <2>1, Calls
  <2> QED
    BY <1>3, <2>2, EndedByRefuse, RenewedBySpend DEF Spend
<1>4. ASSUME NEW t \in RefreshToken, RevokeRefreshToken(t)
      PROVE  UNCHANGED <<grants, refreshTokens, reused>> \/ Ended(t)
  BY <1>4, EndedByRevoke DEF RevokeRefreshToken
<1>5. ASSUME \/ \E x \in Account : LockAccount(x) \/ UnlockAccount(x)
             \/ \E c \in Call : CheckGrant(c) \/ AskAccount(c)
             \/ Tick \/ UNCHANGED vars
      PROVE  UNCHANGED <<grants, refreshTokens, reused>>
  BY <1>5 DEF LockAccount, UnlockAccount, CheckGrant, AskAccount, Tick, vars
<1> QED
  BY <1>1, <1>2, <1>3, <1>4, <1>5 DEF Next

-----------------------------------------------------------------------------
\* The invariant is kept.

TablesTyped ==
  /\ grants \in [Grant -> GrantEntry \union {Absent}]
  /\ refreshTokens \in [RefreshToken -> RefreshTokenEntry \union {Absent}]
  /\ reused \in SUBSET RefreshToken

LEMMA TablesKept ==
  ASSUME Kept, [Next]_vars
  PROVE  /\ TablesTyped' /\ TokensHaveGrants' /\ ReusedRevoked'
         /\ \A t \in RefreshToken : refreshTokens[t] # Absent => refreshTokens'[t] # Absent
<1> DEFINE Goal ==
      /\ TablesTyped' /\ TokensHaveGrants' /\ ReusedRevoked'
      /\ \A t \in RefreshToken : refreshTokens[t] # Absent => refreshTokens'[t] # Absent
<1>1. /\ TablesTyped
      /\ \A t \in reused : /\ t \in RefreshToken /\ refreshTokens[t] # Absent
                           /\ GrantOf(t) \in Grant /\ grants[GrantOf(t)].revoked
      /\ \A t \in RefreshToken : refreshTokens[t] # Absent =>
           GrantOf(t) \in Grant /\ grants[GrantOf(t)] # Absent
  BY TokenEntry DEF Kept, TypeOK, TablesTyped, ReusedRevoked
<1>2. CASE UNCHANGED <<grants, refreshTokens, reused>>
  BY <1>1, <1>2 DEF TablesTyped, TokensHaveGrants, ReusedRevoked, GrantOf
<1>3. ASSUME NEW g \in Grant, NEW t \in RefreshToken, Opened(g, t)
      PROVE  Goal
  <2>1. /\ grants[g] = Absent /\ refreshTokens[t] = Absent
        /\ grants'[g] # Absent /\ refreshTokens'[t] # Absent /\ refreshTokens'[t].grant = g
        /\ \A h \in Grant : h # g => grants'[h] = grants[h]
        /\ \A u \in RefreshToken : u # t => refreshTokens'[u] = refreshTokens[u]
        /\ reused' = reused
    BY <1>3, Entries DEF Opened
  <2>2. TablesTyped'
    BY <1>1, <1>3 DEF Opened, TablesTyped
  <2>3. TokensHaveGrants'
    BY <1>1, <2>1 DEF TokensHaveGrants, GrantOf
  <2>4. ReusedRevoked'
    BY <1>1, <2>1 DEF ReusedRevoked, GrantOf
  <2> QED
    BY <2>1, <2>2, <2>3, <2>4
<1>4. ASSUME NEW t \in RefreshToken, NEW u \in RefreshToken, Renewed(t, u)
      PROVE  Goal
  <2>1. /\ refreshTokens[t] # Absent /\ refreshTokens[u] = Absent
        /\ refreshTokens'[t] # Absent /\ refreshTokens'[u] # Absent
        /\ refreshTokens'[t].grant = GrantOf(t) /\ refreshTokens'[u].grant = GrantOf(t)
        /\ \A w \in RefreshToken : w # t /\ w # u => refreshTokens'[w] = refreshTokens[w]
        /\ grants' = grants /\ reused' = reused
    BY <1>4, Entries DEF Renewed
  <2>2. TablesTyped'
    BY <1>1, <1>4 DEF Renewed, TablesTyped
  <2>3. TokensHaveGrants'
    BY <1>1, <2>1 DEF TokensHaveGrants, GrantOf
  <2>4. ReusedRevoked'
    BY <1>1, <2>1 DEF ReusedRevoked, GrantOf
  <2> QED
    BY <2>1, <2>2, <2>3, <2>4
<1>5. ASSUME NEW t \in RefreshToken, Ended(t)
      PROVE  Goal
  <2>1. /\ refreshTokens[t] # Absent /\ refreshTokens' = refreshTokens
        /\ grants'[GrantOf(t)] # Absent /\ grants'[GrantOf(t)].revoked
        /\ \A h \in Grant : h # GrantOf(t) => grants'[h] = grants[h]
        /\ reused' \in {reused, reused \union {t}}
    BY <1>5, Entries DEF Ended
  <2>2. TablesTyped'
    BY <1>1, <1>5 DEF Ended, TablesTyped
  <2>3. TokensHaveGrants'
    BY <1>1, <2>1 DEF TokensHaveGrants, GrantOf
  <2>4. ReusedRevoked'
    BY <1>1, <2>1 DEF ReusedRevoked, GrantOf
  <2> QED
    BY <2>1, <2>2, <2>3, <2>4
<1> QED
  BY <1>2, <1>3, <1>4, <1>5, KindsOfStep

\* A rotation in flight refers to a token that is there.
CallSound(state) ==
  \/ state = Idle
  \/ state \in Rotating /\ refreshTokens[state.token] # Absent

LEMMA CallsKept ==
  ASSUME Kept, [Next]_vars
  PROVE  call' = [d \in Call |-> call'[d]] /\ \A c \in Call : CallSound(call'[c])
<1>1. \A c \in Call : CallSound(call[c])
  BY Calls DEF CallSound
<1>2. call = [d \in Call |-> call[d]]
  BY DEF Kept, TypeOK
<1>3. ASSUME NEW c \in Call, NEW state, CallSound(state), call' = [call EXCEPT ![c] = state]
      PROVE  call' = [e \in Call |-> call'[e]] /\ \A d \in Call : CallSound(call'[d])
  BY <1>1, <1>2, <1>3
<1>4. CallSound(Idle)
  BY DEF CallSound
<1>5. ASSUME NEW c \in Call, call[c] # Idle, NEW step \in {"check", "ask", "spend"}
      PROVE  CallSound([call[c] EXCEPT !.step = step])
  <2>1. call[c] \in Rotating /\ refreshTokens[call[c].token] # Absent
    BY <1>5, Calls
  <2> QED
    BY <2>1, NextStep DEF CallSound
<1>6. ASSUME NEW c \in Call, NEW t \in RefreshToken, RotateRefreshToken(c, t)
      PROVE  call' = [e \in Call |-> call'[e]] /\ \A d \in Call : CallSound(call'[d])
  <2>1. CASE UNCHANGED call
    BY <1>1, <1>2, <2>1
  <2>2. CASE ~UNCHANGED call
    <3> DEFINE state == [step |-> "check", token |-> t, start |-> now]
    <3>1. Spendable(t, now) /\ call' = [call EXCEPT ![c] = state]
      BY <1>6, <2>2 DEF RotateRefreshToken
    <3>2. refreshTokens[t] # Absent
      BY <3>1 DEF Spendable, Missing
    <3>3. state \in Rotating /\ state.token = t
      BY DEF Rotating, Kept, TypeOK
    <3>4. CallSound(state)
      BY <3>2, <3>3 DEF CallSound
    <3> QED
      BY <1>3, <3>1, <3>4
  <2> QED
    BY <2>1, <2>2
<1>7. ASSUME NEW c \in Call, CheckGrant(c)
      PROVE  call' = [e \in Call |-> call'[e]] /\ \A d \in Call : CallSound(call'[d])
  <2>1. call[c] # Idle
    BY <1>7, IdleStep DEF CheckGrant
  <2>2. CallSound([call[c] EXCEPT !.step = "ask"])
    BY <1>5, <2>1
  <2>3. \/ call' = [call EXCEPT ![c] = [call[c] EXCEPT !.step = "ask"]]
        \/ call' = [call EXCEPT ![c] = Idle]
    BY <1>7 DEF CheckGrant
  <2> QED
    BY <1>3, <1>4, <2>2, <2>3
<1>8. ASSUME NEW c \in Call, AskAccount(c)
      PROVE  call' = [e \in Call |-> call'[e]] /\ \A d \in Call : CallSound(call'[d])
  <2>1. call[c] # Idle
    BY <1>8, IdleStep DEF AskAccount
  <2>2. CallSound([call[c] EXCEPT !.step = "spend"])
    BY <1>5, <2>1
  <2>3. \/ call' = [call EXCEPT ![c] = [call[c] EXCEPT !.step = "spend"]]
        \/ call' = [call EXCEPT ![c] = Idle]
    BY <1>8 DEF AskAccount
  <2> QED
    BY <1>3, <1>4, <2>2, <2>3
<1>9. ASSUME NEW c \in Call, NEW u \in RefreshToken, Spend(c, u)
      PROVE  call' = [e \in Call |-> call'[e]] /\ \A d \in Call : CallSound(call'[d])
  BY <1>3, <1>4, <1>9 DEF Spend
<1>10. ASSUME \/ \E x \in Account : LockAccount(x) \/ UnlockAccount(x)
              \/ \E g \in Grant, t \in RefreshToken, x \in Account : InsertGrant(g, t, x)
              \/ \E t \in RefreshToken : RevokeRefreshToken(t)
              \/ Tick \/ UNCHANGED vars
       PROVE  UNCHANGED call
  BY <1>10 DEF LockAccount, UnlockAccount, InsertGrant, RevokeRefreshToken, Tick, vars
<1> QED
  BY <1>1, <1>2, <1>6, <1>7, <1>8, <1>9, <1>10 DEF Next

LEMMA StepKept ==
  ASSUME Kept, [Next]_vars
  PROVE  Kept'
<1>1. /\ TablesTyped' /\ TokensHaveGrants' /\ ReusedRevoked'
      /\ \A t \in RefreshToken : refreshTokens[t] # Absent => refreshTokens'[t] # Absent
  BY TablesKept
<1>2. call' = [d \in Call |-> call'[d]] /\ \A c \in Call : CallSound(call'[c])
  BY CallsKept
<1>3. call' \in [Call -> {Idle} \union Rotating]
  <2>1. \A c \in Call : call'[c] \in {Idle} \union Rotating
    BY <1>2 DEF CallSound
  <2> QED
    BY <1>2, <2>1
<1>4. CallsHaveTokens'
  <2> SUFFICES ASSUME NEW c \in Call, call'[c] # Idle
               PROVE  refreshTokens'[call'[c].token] # Absent
    BY DEF CallsHaveTokens, Idle
  <2>1. call'[c] \in Rotating /\ refreshTokens[call'[c].token] # Absent
    BY <1>2 DEF CallSound
  <2> QED
    BY <1>1, <2>1 DEF Rotating
<1>5. now' \in Nat /\ lockedAccounts' \in SUBSET Account
  BY DEF Kept, TypeOK, Next, vars, LockAccount, UnlockAccount, InsertGrant, RotateRefreshToken,
         CheckGrant, AskAccount, Spend, RevokeRefreshToken, Tick
<1> QED
  BY <1>1, <1>3, <1>4, <1>5 DEF Kept, TypeOK, TablesTyped

LEMMA InitKept == Init => Kept
BY DEF Init, Kept, TypeOK, TokensHaveGrants, CallsHaveTokens, ReusedRevoked

\* What every hold of the mutex leaves: maps of their types, a grant for every
\* token and a token for every rotation in flight.
THEOREM StoreKept == Spec => []Kept
BY InitKept, StepKept, PTL DEF Spec

\* Whoever is told that a token was spent leaves its grant revoked.
THEOREM ReuseFinal == Spec => []ReuseEndsGrant
<1>1. Kept => ReuseEndsGrant
  BY DEF Kept, ReusedRevoked, ReuseEndsGrant
<1> QED
  BY <1>1, StoreKept, PTL

-----------------------------------------------------------------------------
\* Who is renewed after an account is locked.

\* A token that is kept stays with its grant, and the grant with its account.
LEMMA AccountStays ==
  ASSUME Kept, [Next]_vars, NEW t \in RefreshToken, refreshTokens[t] # Absent
  PROVE  /\ refreshTokens'[t].grant = GrantOf(t)
         /\ grants'[GrantOf(t)].account = grants[GrantOf(t)].account
<1>1. GrantOf(t) \in Grant /\ grants[GrantOf(t)] # Absent
  BY TokenEntry
<1>2. CASE UNCHANGED <<grants, refreshTokens, reused>>
  BY <1>2 DEF GrantOf
<1>3. ASSUME NEW g \in Grant, NEW u \in RefreshToken, Opened(g, u)
      PROVE  /\ refreshTokens'[t].grant = GrantOf(t)
             /\ grants'[GrantOf(t)].account = grants[GrantOf(t)].account
  BY <1>1, <1>3 DEF Opened, GrantOf
<1>4. ASSUME NEW u \in RefreshToken, NEW w \in RefreshToken, Renewed(u, w)
      PROVE  /\ refreshTokens'[t].grant = GrantOf(t)
             /\ grants'[GrantOf(t)].account = grants[GrantOf(t)].account
  BY <1>4 DEF Renewed, GrantOf
<1>5. ASSUME NEW u \in RefreshToken, Ended(u)
      PROVE  /\ refreshTokens'[t].grant = GrantOf(t)
             /\ grants'[GrantOf(t)].account = grants[GrantOf(t)].account
  BY <1>1, <1>5 DEF Ended, GrantOf
<1> QED
  BY <1>2, <1>3, <1>4, <1>5, KindsOfStep

\* A rotation about to spend was so already, or is told now that the account
\* of its grant is active.
ToldActive(c) ==
  call'[c].step = "spend" =>
    /\ call[c] # Idle /\ call'[c].token = call[c].token
    /\ \/ call[c].step = "spend"
       \/ AccountActive(grants[GrantOf(call[c].token)].account)

LEMMA SpendersAsked ==
  ASSUME Kept, [Next]_vars, NEW c \in Call
  PROVE  ToldActive(c)
<1>1. call = [d \in Call |-> call[d]]
  BY DEF Kept, TypeOK
<1>2. CASE call'[c] = call[c]
  BY <1>2, IdleStep DEF ToldActive
<1>3. CASE call'[c] = Idle
  BY <1>3, IdleStep DEF ToldActive
<1>4. ASSUME NEW d \in Call, NEW t \in RefreshToken, RotateRefreshToken(d, t)
      PROVE  ToldActive(c)
  <2> DEFINE state == [step |-> "check", token |-> t, start |-> now]
  <2>1. UNCHANGED call \/ call' = [call EXCEPT ![d] = state]
    BY <1>4 DEF RotateRefreshToken
  <2>2. call'[c] = call[c] \/ call'[c].step = "check"
    BY <1>1, <2>1
  <2> QED
    BY <1>2, <2>2 DEF ToldActive
<1>5. ASSUME NEW d \in Call, CheckGrant(d)
      PROVE  ToldActive(c)
  <2> DEFINE state == [call[d] EXCEPT !.step = "ask"]
  <2>1. call[d] # Idle
    BY <1>5, IdleStep DEF CheckGrant
  <2>2. state.step = "ask"
    BY <2>1, Calls DEF Rotating
  <2>3. call' = [call EXCEPT ![d] = state] \/ call' = [call EXCEPT ![d] = Idle]
    BY <1>5 DEF CheckGrant
  <2> HIDE DEF state
  <2>4. call'[c] \in {call[c], state, Idle}
    BY <1>1, <2>3
  <2> QED
    BY <1>2, <1>3, <2>2, <2>4 DEF ToldActive
<1>6. ASSUME NEW d \in Call, AskAccount(d)
      PROVE  ToldActive(c)
  <2> DEFINE state == [call[d] EXCEPT !.step = "spend"]
  <2>1. call[d] # Idle
    BY <1>6, IdleStep DEF AskAccount
  <2>2. state.token = call[d].token
    BY <2>1, Calls, NextStep
  <2>3. \/ /\ AccountActive(grants[GrantOf(call[d].token)].account)
           /\ call' = [call EXCEPT ![d] = state]
        \/ call' = [call EXCEPT ![d] = Idle]
    BY <1>6 DEF AskAccount
  <2> HIDE DEF state
  <2>4. \/ call'[c] \in {call[c], Idle}
        \/ /\ c = d /\ call'[c] = state
           /\ AccountActive(grants[GrantOf(call[c].token)].account)
    BY <1>1, <2>3
  <2> QED
    BY <1>2, <1>3, <2>1, <2>2, <2>4 DEF ToldActive
<1>7. ASSUME NEW d \in Call, NEW u \in RefreshToken, Spend(d, u)
      PROVE  ToldActive(c)
  <2>1. call' = [call EXCEPT ![d] = Idle]
    BY <1>7 DEF Spend
  <2>2. call'[c] \in {call[c], Idle}
    BY <1>1, <2>1
  <2> QED
    BY <1>2, <1>3, <2>2
<1>8. ASSUME \/ \E x \in Account : LockAccount(x) \/ UnlockAccount(x)
             \/ \E g \in Grant, t \in RefreshToken, x \in Account : InsertGrant(g, t, x)
             \/ \E t \in RefreshToken : RevokeRefreshToken(t)
             \/ Tick \/ UNCHANGED vars
      PROVE  call'[c] = call[c]
  BY <1>8 DEF LockAccount, UnlockAccount, InsertGrant, RevokeRefreshToken, Tick, vars
<1> QED
  BY <1>2, <1>4, <1>5, <1>6, <1>7, <1>8 DEF Next

\* A token of a grant that was there is made by a rotation about to spend.
LEMMA RenewedBySpender ==
  ASSUME Kept, [Next]_vars, NEW t \in RefreshToken,
         refreshTokens[t] = Absent, refreshTokens'[t] # Absent,
         grants[refreshTokens'[t].grant] # Absent
  PROVE  \E c \in Call : call[c].step = "spend" /\ GrantOf(call[c].token) = refreshTokens'[t].grant
<1>1. ASSUME NEW g \in Grant, NEW u \in RefreshToken, NEW x \in Account, InsertGrant(g, u, x)
      PROVE  FALSE
  BY <1>1, OpenedByInsert DEF Opened
<1>2. ASSUME NEW c \in Call, NEW u \in RefreshToken, Spend(c, u)
      PROVE  call[c].step = "spend" /\ GrantOf(call[c].token) = refreshTokens'[t].grant
  <2>1. call[c].step = "spend" /\ refreshTokens[u] = Absent /\ refreshTokens' # refreshTokens
    BY <1>2 DEF Spend
  <2>2. call[c].token \in RefreshToken /\ call[c].start \in Nat
    BY <2>1, IdleStep, Calls
  <2>3. Renewed(call[c].token, u)
    BY <1>2, <2>1, <2>2, RenewedBySpend DEF Spend
  <2> QED
    BY <2>1, <2>3 DEF Renewed
<1>3. ASSUME \/ \E x \in Account : LockAccount(x) \/ UnlockAccount(x)
             \/ \E c \in Call :
                  \/ \E u \in RefreshToken : RotateRefreshToken(c, u)
                  \/ CheckGrant(c) \/ AskAccount(c)
             \/ \E u \in RefreshToken : RevokeRefreshToken(u)
             \/ Tick \/ UNCHANGED vars
      PROVE  FALSE
  BY <1>3 DEF LockAccount, UnlockAccount, RotateRefreshToken, CheckGrant, AskAccount,
              RevokeRefreshToken, Tick, vars
<1> QED
  BY <1>1, <1>2, <1>3 DEF Next

\* Once an account is locked, only a rotation that had asked about it before
\* gets it a new token (the check of RotateRefreshToken, outside the mutex).
THEOREM LockedIsNotRenewed == Spec => LockedAccountIsNotRenewed
<1> DEFINE Step ==
      \A x \in lockedAccounts :
        Asked(x) = {} =>
          /\ Asked(x)' = {}
          /\ \A t \in RefreshToken :
               refreshTokens[t] = Absent /\ refreshTokens'[t] # Absent
                 /\ grants[refreshTokens'[t].grant] # Absent
               => grants[refreshTokens'[t].grant].account # x
<1>1. ASSUME Kept, [Next]_vars, NEW x \in lockedAccounts, Asked(x) = {}
      PROVE  Asked(x)' = {}
  <2> SUFFICES ASSUME NEW c \in Call, call'[c].step = "spend",
                      grants'[refreshTokens'[call'[c].token].grant].account = x
               PROVE  FALSE
    BY DEF Asked, GrantOf
  <2>1. /\ call[c] # Idle /\ call'[c].token = call[c].token
        /\ \/ call[c].step = "spend"
           \/ AccountActive(grants[GrantOf(call[c].token)].account)
    BY <1>1, SpendersAsked DEF ToldActive
  <2>2. call[c].token \in RefreshToken /\ refreshTokens[call[c].token] # Absent
    BY <1>1, <2>1, Calls
  <2>3. grants[GrantOf(call[c].token)].account = x
    BY <1>1, <2>1, <2>2, AccountStays
  <2> QED
    BY <1>1, <2>1, <2>3 DEF Asked, AccountActive
<1>2. ASSUME Kept, [Next]_vars, NEW x \in lockedAccounts, Asked(x) = {},
             NEW t \in RefreshToken,
             refreshTokens[t] = Absent, refreshTokens'[t] # Absent,
             grants[refreshTokens'[t].grant] # Absent
      PROVE  grants[refreshTokens'[t].grant].account # x
  BY <1>2, RenewedBySpender DEF Asked
<1>3. Kept /\ [Next]_vars => [Step]_vars
  BY <1>1, <1>2
<1> QED
  BY <1>3, StoreKept, PTL DEF Spec, LockedAccountIsNotRenewed

-----------------------------------------------------------------------------
\* The maps implement the promise.

LEMMA StandingsAfter ==
  ASSUME NEW g \in Grant
  PROVE  /\ grants'[g] = Absent => StandingOf(g)' = "none"
         /\ grants'[g] # Absent /\ grants'[g].revoked => StandingOf(g)' = "revoked"
         /\ grants'[g] # Absent /\ ~grants'[g].revoked => StandingOf(g)' = "live"
BY DEF StandingOf

LEMMA PromisedToken ==
  ASSUME NEW row \in RefreshTokenEntry
  PROVE  /\ [grant |-> row.grant, spent |-> row.used] \in Promise!Token
         /\ [grant |-> row.grant, spent |-> row.used] # Absent
<1>1. [grant |-> row.grant, spent |-> row.used] \in Promise!Token
  BY DEF RefreshTokenEntry, Promise!Token
<1> QED
  BY <1>1, AbsentTokenAssumption DEF Promise!AbsentIsNoToken

LEMMA SpentToken ==
  ASSUME NEW token \in Promise!Token
  PROVE  [token EXCEPT !.spent = TRUE] = [grant |-> token.grant, spent |-> TRUE]
<1> DEFINE spent == [token EXCEPT !.spent = TRUE]
<1>1. spent \in Promise!Token /\ spent.grant = token.grant /\ spent.spent = TRUE
  BY DEF Promise!Token
<1>2. ASSUME NEW x \in Promise!Token PROVE x = [grant |-> x.grant, spent |-> x.spent]
  BY DEF Promise!Token
<1> HIDE DEF spent
<1>3. spent = [grant |-> spent.grant, spent |-> spent.spent]
  BY <1>1, <1>2
<1> QED
  BY <1>1, <1>3 DEF spent

LEMMA OpenedPromised ==
  ASSUME Kept, NEW g \in Grant, NEW t \in RefreshToken, Opened(g, t)
  PROVE  Promise!Open(g, t)
<1> DEFINE standing == [h \in Grant |-> StandingOf(h)]
           token == [u \in RefreshToken |-> TokenOf(u)]
<1>1. /\ grants[g] = Absent /\ refreshTokens[t] = Absent
      /\ grants'[g] # Absent /\ ~grants'[g].revoked
      /\ refreshTokens'[t] # Absent
      /\ refreshTokens'[t].grant = g /\ refreshTokens'[t].used = FALSE
      /\ \A h \in Grant : h # g => grants'[h] = grants[h]
      /\ \A u \in RefreshToken : u # t => refreshTokens'[u] = refreshTokens[u]
  BY Entries DEF Opened, RefreshTokenEntry
<1>2. standing[g] = "none" /\ token[t] = Absent
  BY <1>1 DEF StandingOf, TokenOf
<1>3. StandingOf(g)' = "live" /\ \A h \in Grant : h # g => StandingOf(h)' = StandingOf(h)
  BY <1>1, StandingsAfter DEF StandingOf
<1>4. standing' = [standing EXCEPT ![g] = "live"]
  BY <1>3
<1>5. /\ TokenOf(t)' = [grant |-> g, spent |-> FALSE]
      /\ \A u \in RefreshToken : u # t => TokenOf(u)' = TokenOf(u)
  BY <1>1 DEF TokenOf
<1>6. token' = [token EXCEPT ![t] = [grant |-> g, spent |-> FALSE]]
  BY <1>5
<1> QED
  BY <1>2, <1>4, <1>6 DEF Promise!Open, Promise!Issued

LEMMA RenewedPromised ==
  ASSUME Kept, NEW t \in RefreshToken, NEW u \in RefreshToken, Renewed(t, u)
  PROVE  Promise!Rotate(t, u)
<1> DEFINE g == GrantOf(t)
           standing == [h \in Grant |-> StandingOf(h)]
           token == [w \in RefreshToken |-> TokenOf(w)]
           successor == [grant |-> g, spent |-> FALSE]
<1>1. /\ refreshTokens[t] \in RefreshTokenEntry /\ refreshTokens[t].used = FALSE
      /\ g \in Grant /\ grants[g] # Absent
  BY TokenEntry DEF Renewed, RefreshTokenEntry
<1>2. token[t] = successor /\ token[t] # Absent /\ token[t] \in Promise!Token
  <2>1. token[t] = [grant |-> refreshTokens[t].grant, spent |-> refreshTokens[t].used]
    BY <1>1, Entries DEF TokenOf
  <2> QED
    BY <1>1, <2>1, PromisedToken DEF GrantOf
<1>3. standing[g] = "live"
  BY <1>1 DEF Renewed, StandingOf
<1>4. token[u] = Absent /\ t # u
  BY DEF Renewed, TokenOf
<1>5. standing' = standing
  BY DEF Renewed, StandingOf
<1>6. /\ TokenOf(t)' = [grant |-> g, spent |-> TRUE] /\ TokenOf(u)' = successor
      /\ \A w \in RefreshToken : w # t /\ w # u => TokenOf(w)' = TokenOf(w)
  <2>1. refreshTokens'[t].used = TRUE /\ refreshTokens'[u].used = FALSE
    BY DEF Renewed, RefreshTokenEntry
  <2>2. refreshTokens'[t] # Absent /\ refreshTokens'[u] # Absent
    BY Entries DEF Renewed
  <2> QED
    BY <2>1, <2>2 DEF Renewed, TokenOf
<1>7. token[t].grant = g /\ ~token[t].spent
  BY <1>2
<1>8. [token[t] EXCEPT !.spent = TRUE] = [grant |-> g, spent |-> TRUE]
  <2> HIDE DEF token
  <2> QED
    BY <1>2, <1>7, SpentToken
<1>9. token' = [token EXCEPT ![t].spent = TRUE, ![u] = successor]
  <2>1. token' = [token EXCEPT ![t] = [grant |-> g, spent |-> TRUE], ![u] = successor]
    BY <1>4, <1>6
  <2> QED
    BY <1>8, <2>1
<1> QED
  BY <1>2, <1>3, <1>4, <1>5, <1>7, <1>9
     DEF Promise!Rotate, Promise!Unspent, Promise!Issued

LEMMA EndedPromised ==
  ASSUME Kept, NEW t \in RefreshToken, Ended(t)
  PROVE  Promise!Revoke(t)
<1>1. refreshTokens[t] \in RefreshTokenEntry /\ refreshTokens[t] # Absent /\ GrantOf(t) \in Grant
  BY TokenEntry DEF Ended
<1> SUFFICES ASSUME NEW g \in Grant, g = GrantOf(t)
             PROVE  Promise!Revoke(t)
  BY <1>1
<1> DEFINE standing == [h \in Grant |-> StandingOf(h)]
           token == [w \in RefreshToken |-> TokenOf(w)]
<1>2. token[t] # Absent /\ token[t].grant = g
  BY <1>1, PromisedToken DEF TokenOf, GrantOf
<1>3. /\ grants'[g] # Absent /\ grants'[g].revoked
      /\ \A h \in Grant : h # g => grants'[h] = grants[h]
  BY Entries DEF Ended
<1>4. StandingOf(g)' = "revoked" /\ \A h \in Grant : h # g => StandingOf(h)' = StandingOf(h)
  BY <1>3, StandingsAfter DEF StandingOf
<1>5. standing' = [standing EXCEPT ![g] = "revoked"]
  BY <1>4
<1>6. token' = token
  BY DEF Ended, TokenOf
<1> QED
  BY <1>2, <1>5, <1>6 DEF Promise!Revoke, Promise!Issued

\* Although a rotation lets go of the mutex for its check, nothing it or the
\* others do is other than what the Store interface promises.
THEOREM Implements == Spec => KeepsPromise
<1>1. Init => Promise!Init
  BY DEF Init, Promise!Init, StandingOf, TokenOf
<1>2. Kept /\ [Next]_vars => [Promise!Next]_(Promise!vars)
  <2> SUFFICES ASSUME Kept, [Next]_vars PROVE [Promise!Next]_(Promise!vars)
    OBVIOUS
  <2>1. CASE UNCHANGED <<grants, refreshTokens, reused>>
    BY <2>1 DEF Promise!vars, StandingOf, TokenOf
  <2>2. ASSUME NEW g \in Grant, NEW t \in RefreshToken, Opened(g, t)
        PROVE  Promise!Next
    BY <2>2, OpenedPromised DEF Promise!Next
  <2>3. ASSUME NEW t \in RefreshToken, NEW u \in RefreshToken, Renewed(t, u)
        PROVE  Promise!Next
    BY <2>3, RenewedPromised DEF Promise!Next
  <2>4. ASSUME NEW t \in RefreshToken, Ended(t)
        PROVE  Promise!Next
    BY <2>4, EndedPromised DEF Promise!Next
  <2> QED
    BY <2>1, <2>2, <2>3, <2>4, KindsOfStep
<1> QED
  BY <1>1, <1>2, StoreKept, PTL DEF Spec, KeepsPromise, Promise!Spec
=============================================================================
