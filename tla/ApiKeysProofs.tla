---------------------------- MODULE ApiKeysProofs ----------------------------
(***************************************************************************)
(* Proofs about ApiKeys: that a revoked key has no sign-in left, how long  *)
(* an assertion is remembered, and how many sign-ins a key has, for every  *)
(* value of the constants.                                                 *)
(***************************************************************************)
EXTENDS ApiKeys, FiniteSetTheorems, TLAPS

\* Every request under way is about a key that is registered.
KeysKnown ==
  \A c \in Call :
    /\ call[c].step \in {"verify", "begin", "lock", "record"} =>
         apiKey[call[c].assertion.key] # Absent
    /\ call[c].step = "end" => apiKey[call[c].key] # Absent

\* A mint that records, and a revocation, hold the key's row; and the key of a
\* mint that records is not revoked.
RowsHeld ==
  \A c \in Call :
    /\ call[c].step = "record" =>
         /\ lock[call[c].assertion.key] = {c}
         /\ ~apiKey[call[c].assertion.key].revoked
    /\ call[c].step = "end" => lock[call[c].key] = {c}

Kept == TypeOK /\ KeysKnown /\ RowsHeld /\ RevokedKeyHasNoSignIn

-----------------------------------------------------------------------------
LEMMA CallFacts ==
  ASSUME TypeOK, NEW c \in Call
  PROVE  /\ call[c].step = "verify" => call[c] \in Selected
         /\ call[c].step = "begin" => call[c] \in Verified
         /\ call[c].step \in {"lock", "record"} => call[c] \in InTransaction
         /\ call[c].step = "mint" => call[c] \in Recorded
         /\ call[c].step = "end" => call[c] \in Revoking
<1>1. call[c] \in CallState
  BY DEF TypeOK
<1>2. /\ Idle.step = "idle"
      /\ \A s \in Selected : s.step = "verify"
      /\ \A s \in Verified : s.step = "begin"
      /\ \A s \in InTransaction : s.step \in {"lock", "record"}
      /\ \A s \in Recorded : s.step = "mint"
      /\ \A s \in Revoking : s.step = "end"
  BY DEF Idle, Selected, Verified, InTransaction, Recorded, Revoking
<1> QED BY <1>1, <1>2 DEF CallState

LEMMA GotoFacts ==
  ASSUME TypeOK, NEW c \in Call, NEW state \in CallState, Goto(c, state)
  PROVE  /\ call' \in [Call -> CallState]
         /\ call'[c] = state
         /\ \A d \in Call : d # c => call'[d] = call[d]
BY DEF TypeOK, Goto

LEMMA UnlockFacts ==
  ASSUME TypeOK, NEW c \in Call, Unlock(c)
  PROVE  /\ lock' \in [Key -> SUBSET Call]
         /\ \A k \in Key, d \in Call : d # c /\ lock[k] = {d} => lock'[k] = {d}
BY DEF TypeOK, Unlock

LEMMA Rows ==
  /\ \A r \in KeyRow : r # Absent
  /\ \A r \in AuthenticationRow : r # Absent
BY AbsentRowAssumption

LEMMA SignInRow ==
  ASSUME NEW r \in AuthenticationRow
  PROVE  /\ [r EXCEPT !.ended = TRUE] \in AuthenticationRow
         /\ [r EXCEPT !.ended = TRUE].ended
         /\ [r EXCEPT !.ended = TRUE].key = r.key
         /\ \A t \in Nat : /\ [r EXCEPT !.expiresAt = t] \in AuthenticationRow
                           /\ [r EXCEPT !.expiresAt = t].ended = r.ended
                           /\ [r EXCEPT !.expiresAt = t].key = r.key
BY DEF AuthenticationRow

LEMMA RevokedRow ==
  ASSUME NEW r \in KeyRow
  PROVE  /\ [r EXCEPT !.revoked = TRUE] \in KeyRow
         /\ [r EXCEPT !.revoked = TRUE].revoked
BY DEF KeyRow

LEMMA InitKept == Init => Kept
<1> SUFFICES ASSUME Init PROVE Kept
  OBVIOUS
<1>1. TypeOK
  BY DEF Init, TypeOK, CallState
<1>2. \A c \in Call : call[c].step = "idle"
  BY DEF Init, Idle
<1> QED BY <1>1, <1>2 DEF Init, Kept, KeysKnown, RowsHeld, RevokedKeyHasNoSignIn

\* What a request does that is not about rows: it goes on, and lets go of rows
\* or none.
LEMMA StepWithoutRows ==
  ASSUME Kept, NEW c \in Call, NEW state \in CallState, Goto(c, state),
         state.step \notin {"record", "end"},
         state.step \in {"verify", "begin", "lock"} => apiKey[state.assertion.key] # Absent,
         UNCHANGED lock \/ Unlock(c),
         UNCHANGED <<now, locked, apiKey, authentication>>,
         (token \in SUBSET Token)', UNCHANGED <<apiKeyAssertion, history>>
  PROVE  Kept'
<1>1. TypeOK
  BY DEF Kept
<1>2. /\ call' \in [Call -> CallState] /\ call'[c] = state
      /\ \A d \in Call : d # c => call'[d] = call[d]
  BY <1>1, GotoFacts
<1>3. /\ lock' \in [Key -> SUBSET Call]
      /\ \A k \in Key, d \in Call : d # c /\ lock[k] = {d} => lock'[k] = {d}
  BY <1>1, UnlockFacts DEF TypeOK
<1>4. TypeOK'
  BY <1>1, <1>2, <1>3 DEF TypeOK, history
<1>5. KeysKnown'
  BY <1>2 DEF Kept, KeysKnown
<1>6. RowsHeld'
  <2> SUFFICES ASSUME NEW d \in Call
      PROVE /\ call'[d].step = "record" =>
                 /\ lock'[call'[d].assertion.key] = {d}
                 /\ ~apiKey'[call'[d].assertion.key].revoked
            /\ call'[d].step = "end" => lock'[call'[d].key] = {d}
    BY DEF RowsHeld
  <2>1. CASE d = c
    BY <2>1, <1>2
  <2>2. CASE d # c
    <3>1. call'[d] = call[d]
      BY <1>2, <2>2
    <3>2. call[d].step = "record" => call[d].assertion.key \in Key
      BY <1>1, CallFacts DEF InTransaction, Assertion
    <3>3. call[d].step = "end" => call[d].key \in Key
      BY <1>1, CallFacts DEF Revoking
    <3> QED BY <2>2, <3>1, <3>2, <3>3, <1>3 DEF Kept, RowsHeld
  <2> QED BY <2>1, <2>2
<1>7. RevokedKeyHasNoSignIn'
  BY DEF Kept, RevokedKeyHasNoSignIn, SignIns
<1> QED BY <1>4, <1>5, <1>6, <1>7 DEF Kept

LEMMA IdleFacts == Idle \in CallState /\ Idle.step = "idle"
BY DEF Idle, CallState

LEMMA SelectKeeps ==
  ASSUME Kept, NEW c \in Call, NEW p \in Assertion, SelectForMint(c, p)
  PROVE  Kept'
<1> DEFINE state == [step |-> "verify", assertion |-> p,
              expiresAt |-> apiKey[p.key].expiresAt, revoked |-> apiKey[p.key].revoked]
<1>1. apiKey[p.key] \in KeyRow
  BY DEF Kept, TypeOK, SelectForMint, Assertion
<1>2. state \in Selected
  BY <1>1 DEF Selected, KeyRow
<1>3. state \in CallState /\ state.step = "verify" /\ state.assertion = p
  BY <1>2 DEF CallState
<1>4. Goto(c, state) /\ apiKey[p.key] # Absent
  BY DEF SelectForMint
<1> HIDE DEF state
<1> QED BY <1>3, <1>4, StepWithoutRows DEF SelectForMint, Kept, TypeOK

LEMMA VerifyKeeps ==
  ASSUME Kept, NEW c \in Call, Verify(c)
  PROVE  Kept'
<1>1. call[c] \in Selected
  BY CallFacts DEF Verify, Kept
<1>2. call[c].assertion \in Assertion
  BY <1>1 DEF Selected
<1> DEFINE state == [step |-> "begin", assertion |-> call[c].assertion]
<1>3. state \in CallState /\ state.step = "begin" /\ state.assertion = call[c].assertion
  BY <1>2 DEF Verified, CallState
<1>4. apiKey[call[c].assertion.key] # Absent
  BY DEF Kept, KeysKnown, Verify
<1>5. Goto(c, state) \/ Goto(c, Idle)
  BY DEF Verify
<1> HIDE DEF state
<1> QED BY <1>3, <1>4, <1>5, IdleFacts, StepWithoutRows DEF Verify, Kept, TypeOK

LEMMA BeginKeeps ==
  ASSUME Kept, NEW c \in Call, Begin(c)
  PROVE  Kept'
<1>1. call[c] \in Verified /\ now \in Nat
  BY CallFacts DEF Begin, Kept, TypeOK
<1>2. call[c].assertion \in Assertion
  BY <1>1 DEF Verified
<1> DEFINE state == [step |-> "lock", assertion |-> call[c].assertion, start |-> now]
<1>3. state \in CallState /\ state.step = "lock" /\ state.assertion = call[c].assertion
  BY <1>1, <1>2 DEF InTransaction, CallState
<1>4. apiKey[call[c].assertion.key] # Absent
  BY DEF Kept, KeysKnown, Begin
<1>5. Goto(c, state)
  BY DEF Begin
<1> HIDE DEF state
<1> QED BY <1>3, <1>4, <1>5, StepWithoutRows DEF Begin, Kept, TypeOK

\* The row taken: by c, of the key that is not revoked.
LEMMA LockKeeps ==
  ASSUME Kept, NEW c \in Call, LockKey(c)
  PROVE  Kept'
<1>1. TypeOK /\ call[c] \in InTransaction /\ call[c].step = "lock"
  BY CallFacts DEF LockKey, Kept
<1> DEFINE p == call[c].assertion
           state == [call[c] EXCEPT !.step = "record"]
<1>2. p \in Assertion /\ p.key \in Key
  BY <1>1 DEF InTransaction, Assertion
<1>3. state \in InTransaction /\ state.step = "record" /\ state.assertion = p
  BY <1>1 DEF InTransaction
<1>4. state \in CallState
  BY <1>3 DEF CallState
<1>5. apiKey[p.key] # Absent
  BY <1>1 DEF Kept, KeysKnown
<1>6. CASE Goto(c, Idle) /\ UNCHANGED lock
  BY <1>6, IdleFacts, StepWithoutRows DEF LockKey, Kept, TypeOK
<1>7. CASE /\ lock[p.key] = {} /\ ~apiKey[p.key].revoked
           /\ Goto(c, state) /\ lock' = [lock EXCEPT ![p.key] = {c}]
  <2>1. /\ call' \in [Call -> CallState] /\ call'[c] = state
        /\ \A d \in Call : d # c => call'[d] = call[d]
    <3> HIDE DEF state
    <3> QED BY <1>1, <1>4, <1>7, GotoFacts
  <2>2. /\ lock' \in [Key -> SUBSET Call] /\ lock'[p.key] = {c}
        /\ \A k \in Key : lock[k] # {} => lock'[k] = lock[k]
    BY <1>2, <1>7, <1>1 DEF TypeOK
  <2>3. TypeOK'
    BY <2>1, <2>2, <1>1 DEF LockKey, TypeOK, history
  <2>4. KeysKnown'
    <3> HIDE DEF state, p
    <3> QED BY <2>1, <1>3, <1>5 DEF Kept, KeysKnown, LockKey
  <2>5. RowsHeld'
    <3> SUFFICES ASSUME NEW d \in Call
        PROVE /\ call'[d].step = "record" =>
                   /\ lock'[call'[d].assertion.key] = {d}
                   /\ ~apiKey'[call'[d].assertion.key].revoked
              /\ call'[d].step = "end" => lock'[call'[d].key] = {d}
      BY DEF RowsHeld
    <3>1. CASE d = c
      <4> HIDE DEF state, p
      <4> QED BY <3>1, <2>1, <2>2, <1>3, <1>7 DEF LockKey
    <3>2. CASE d # c
      <4>1. call'[d] = call[d]
        BY <2>1, <3>2
      <4>2. call[d].step = "record" => call[d].assertion.key \in Key
        BY <1>1, CallFacts DEF InTransaction, Assertion
      <4>3. call[d].step = "end" => call[d].key \in Key
        BY <1>1, CallFacts DEF Revoking
      <4>4. {d} # {}
        BY KeysAssumption
      <4> QED BY <4>1, <4>2, <4>3, <4>4, <2>2 DEF Kept, RowsHeld, LockKey
    <3> QED BY <3>1, <3>2
  <2>6. RevokedKeyHasNoSignIn'
    BY DEF Kept, RevokedKeyHasNoSignIn, SignIns, LockKey
  <2> QED BY <2>3, <2>4, <2>5, <2>6 DEF Kept
<1> QED BY <1>6, <1>7 DEF LockKey

LEMMA RefuseKeeps ==
  ASSUME Kept, NEW c \in Call, RefuseUsed(c)
  PROVE  Kept'
BY IdleFacts, StepWithoutRows DEF RefuseUsed, Kept, TypeOK

LEMMA AbandonKeeps ==
  ASSUME Kept, NEW c \in Call, Abandon(c)
  PROVE  Kept'
BY IdleFacts, StepWithoutRows DEF Abandon, Kept, TypeOK

LEMMA MintKeeps ==
  ASSUME Kept, NEW c \in Call, MintToken(c)
  PROVE  Kept'
<1>1. TypeOK /\ call[c] \in Recorded
  BY CallFacts DEF MintToken, Kept
<1>2. /\ call[c].key \in Key /\ call[c].authentication \in Authentication
      /\ call[c].expiresAt \in Nat
  BY <1>1 DEF Recorded
<1>3. TokenExpiry(call[c].expiresAt) \in Nat
  BY <1>1, <1>2, KeysAssumption DEF TokenExpiry, Least, TypeOK
<1>4. (token \in SUBSET Token)'
  BY <1>1, <1>2, <1>3 DEF MintToken, Token, TypeOK
<1> QED BY <1>4, IdleFacts, StepWithoutRows DEF MintToken

\* A sign-in kept or made is one of the key of the mint; the others are left.
LEMMA SignInKept ==
  ASSUME TypeOK, NEW k \in Key, NEW start \in Nat, NEW expiresAt \in Nat,
         NEW a \in Authentication, KeepSignIn(k, start, expiresAt, a)
  PROVE  /\ authentication' \in [Authentication -> AuthenticationRow \union {Absent}]
         /\ \A b \in Authentication :
              authentication'[b] # Absent =>
                \/ authentication'[b].key = k
                \/ authentication[b] # Absent /\ authentication'[b] = authentication[b]
<1>1. CASE authentication' = [b \in Authentication |->
          IF b \in Extended(k, start) THEN [authentication[b] EXCEPT !.expiresAt = expiresAt]
          ELSE authentication[b]]
  <2>1. ASSUME NEW b \in Authentication
        PROVE  /\ authentication'[b] \in AuthenticationRow \union {Absent}
               /\ authentication'[b] # Absent =>
                    \/ authentication'[b].key = k
                    \/ authentication[b] # Absent /\ authentication'[b] = authentication[b]
    <3>1. CASE b \in Extended(k, start)
      <4>1. authentication[b] # Absent /\ authentication[b].key = k
        BY <3>1 DEF Extended, SignIns
      <4>2. authentication[b] \in AuthenticationRow
        BY <4>1 DEF TypeOK
      <4>3. authentication'[b] = [authentication[b] EXCEPT !.expiresAt = expiresAt]
        BY <1>1, <3>1
      <4> QED BY <4>1, <4>2, <4>3, SignInRow
    <3>2. CASE b \notin Extended(k, start)
      <4>1. authentication'[b] = authentication[b]
        BY <1>1, <3>2
      <4> QED BY <4>1 DEF TypeOK
    <3> QED BY <3>1, <3>2
  <2> QED BY <1>1, <2>1
<1>2. CASE authentication' = [authentication EXCEPT
             ![a] = [key |-> k, expiresAt |-> expiresAt, ended |-> FALSE]]
  <2>1. [key |-> k, expiresAt |-> expiresAt, ended |-> FALSE] \in AuthenticationRow
    BY DEF AuthenticationRow
  <2> QED BY <1>2, <2>1 DEF TypeOK
<1> QED BY <1>1, <1>2 DEF KeepSignIn

\* The rows a request other than c holds are left it by c.
LEMMA OthersHold ==
  ASSUME Kept, NEW c \in Call, NEW state \in CallState, Goto(c, state),
         state.step \notin {"record", "end"}, Unlock(c), UNCHANGED apiKey
  PROVE  RowsHeld'
<1>1. TypeOK
  BY DEF Kept
<1>2. /\ call'[c] = state
      /\ \A d \in Call : d # c => call'[d] = call[d]
  BY <1>1, GotoFacts
<1>3. \A k \in Key, d \in Call : d # c /\ lock[k] = {d} => lock'[k] = {d}
  BY <1>1, UnlockFacts
<1> SUFFICES ASSUME NEW d \in Call
    PROVE /\ call'[d].step = "record" =>
               /\ lock'[call'[d].assertion.key] = {d}
               /\ ~apiKey'[call'[d].assertion.key].revoked
          /\ call'[d].step = "end" => lock'[call'[d].key] = {d}
  BY DEF RowsHeld
<1>4. CASE d = c
  BY <1>4, <1>2
<1>5. CASE d # c
  <2>1. call[d].step = "record" => call[d].assertion.key \in Key
    BY <1>1, CallFacts DEF InTransaction, Assertion
  <2>2. call[d].step = "end" => call[d].key \in Key
    BY <1>1, CallFacts DEF Revoking
  <2> QED BY <1>5, <1>2, <1>3, <2>1, <2>2 DEF Kept, RowsHeld
<1> QED BY <1>4, <1>5

\* The sign-in is made for a key that is not revoked, while its row is held.
LEMMA RecordKeeps ==
  ASSUME Kept, NEW c \in Call, NEW a \in Authentication, Record(c, a)
  PROVE  Kept'
<1>1. TypeOK /\ call[c] \in InTransaction /\ call[c].step = "record"
  BY CallFacts DEF Record, Kept
<1> DEFINE p == call[c].assertion
           expiresAt == now + AuthenticationLifetime
           state == [step |-> "mint", key |-> p.key, authentication |-> a,
                     expiresAt |-> expiresAt, locked |-> apiKey[p.key].account \in locked]
<1>2. /\ p \in Assertion /\ p.key \in Key /\ p.jti \in Jti
      /\ call[c].start \in Nat /\ expiresAt \in Nat
  BY <1>1, KeysAssumption DEF InTransaction, Assertion, TypeOK
<1>3. /\ Goto(c, state) /\ Unlock(c) /\ KeepSignIn(p.key, call[c].start, expiresAt, a)
      /\ Remember(p, call[c].start)
      /\ recorded' = recorded \union {p}
      /\ replayed' = IF p \in recorded THEN replayed \union {p} ELSE replayed
      /\ latest' = [latest EXCEPT ![p.key] = IF call[c].start > @ THEN call[c].start ELSE @]
      /\ revived' = IF Revives(p.key, call[c].start) THEN revived \union {p.key} ELSE revived
      /\ UNCHANGED <<now, locked, apiKey, token>>
  BY DEF Record
<1>4. state \in CallState /\ state.step = "mint"
  BY <1>2 DEF Recorded, CallState
<1> HIDE DEF expiresAt
<1>5. apiKey[p.key] # Absent /\ ~apiKey[p.key].revoked
  BY <1>1 DEF Kept, KeysKnown, RowsHeld
<1>6. /\ authentication' \in [Authentication -> AuthenticationRow \union {Absent}]
      /\ \A b \in Authentication :
           authentication'[b] # Absent =>
             \/ authentication'[b].key = p.key
             \/ authentication[b] # Absent /\ authentication'[b] = authentication[b]
  <2> HIDE DEF p
  <2> QED BY <1>1, <1>2, <1>3, SignInKept
<1>7. /\ call' \in [Call -> CallState] /\ call'[c] = state
      /\ \A d \in Call : d # c => call'[d] = call[d]
  <2> HIDE DEF state
  <2> QED BY <1>1, <1>3, <1>4, GotoFacts
<1>8. TypeOK'
  <2>1. apiKeyAssertion' \in [Key \X Jti -> Nat \union {Absent}]
    <3>1. call[c].start + AssertionRetention \in Nat
      BY <1>2, KeysAssumption DEF AssertionRetention
    <3> HIDE DEF p
    <3>2. \A e \in Key \X Jti : apiKeyAssertion[e] \in Nat \union {Absent}
      BY <1>1 DEF TypeOK
    <3> QED BY <1>3, <3>1, <3>2 DEF Remember
  <2>2. recorded' \in SUBSET Assertion /\ replayed' \in SUBSET Assertion
    BY <1>1, <1>2, <1>3 DEF TypeOK
  <2>3. latest' \in [Key -> Nat]
    BY <1>1, <1>2, <1>3 DEF TypeOK
  <2>4. lock' \in [Key -> SUBSET Call]
    BY <1>1, <1>3, UnlockFacts
  <2> HIDE DEF p, state
  <2>5. revived' \in SUBSET Key
    BY <1>1, <1>2, <1>3 DEF TypeOK
  <2> QED BY <2>1, <2>2, <2>3, <2>4, <2>5, <1>1, <1>3, <1>6, <1>7 DEF TypeOK
<1>9. KeysKnown'
  <2> HIDE DEF state, p
  <2> QED BY <1>3, <1>4, <1>7 DEF Kept, KeysKnown
<1>10. RowsHeld'
  <2> HIDE DEF state, p
  <2> QED BY <1>3, <1>4, OthersHold
<1>11. RevokedKeyHasNoSignIn'
  <2> SUFFICES ASSUME NEW k \in Key, apiKey[k] # Absent, apiKey[k].revoked,
                      NEW b \in Authentication, authentication'[b] # Absent,
                      authentication'[b].key = k
      PROVE authentication'[b].ended
    BY <1>3 DEF RevokedKeyHasNoSignIn, SignIns
  <2>1. k # p.key
    BY <1>5
  <2>2. authentication[b] # Absent /\ authentication'[b] = authentication[b]
    BY <1>6, <2>1
  <2> QED BY <2>2 DEF Kept, RevokedKeyHasNoSignIn, SignIns
<1> QED BY <1>8, <1>9, <1>10, <1>11 DEF Kept

\* The row taken by a revocation.
LEMMA RevokeKeeps ==
  ASSUME Kept, NEW c \in Call, NEW x \in Account, NEW k \in Key, RevokeForAccount(c, x, k)
  PROVE  Kept'
<1> DEFINE state == [step |-> "end", key |-> k]
<1>1. TypeOK
  BY DEF Kept
<1>2. state \in CallState /\ state.step = "end" /\ state.key = k
  BY DEF Revoking, CallState
<1>3. /\ Goto(c, state) /\ lock[k] = {} /\ lock' = [lock EXCEPT ![k] = {c}]
      /\ apiKey[k] # Absent
      /\ UNCHANGED <<now, locked, apiKey, apiKeyAssertion, authentication, token, history>>
  BY DEF RevokeForAccount
<1> HIDE DEF state
<1>4. /\ call' \in [Call -> CallState] /\ call'[c] = state
      /\ \A d \in Call : d # c => call'[d] = call[d]
  BY <1>1, <1>2, <1>3, GotoFacts
<1>5. /\ lock' \in [Key -> SUBSET Call] /\ lock'[k] = {c}
      /\ \A l \in Key : lock[l] # {} => lock'[l] = lock[l]
  BY <1>1, <1>3 DEF TypeOK
<1>6. TypeOK'
  BY <1>1, <1>3, <1>4, <1>5 DEF TypeOK, history
<1>7. KeysKnown'
  BY <1>2, <1>3, <1>4 DEF Kept, KeysKnown
<1>8. RowsHeld'
  <2> SUFFICES ASSUME NEW d \in Call
      PROVE /\ call'[d].step = "record" =>
                 /\ lock'[call'[d].assertion.key] = {d}
                 /\ ~apiKey'[call'[d].assertion.key].revoked
            /\ call'[d].step = "end" => lock'[call'[d].key] = {d}
    BY DEF RowsHeld
  <2>1. CASE d = c
    BY <2>1, <1>2, <1>4, <1>5
  <2>2. CASE d # c
    <3>1. call[d].step = "record" => call[d].assertion.key \in Key
      BY <1>1, CallFacts DEF InTransaction, Assertion
    <3>2. call[d].step = "end" => call[d].key \in Key
      BY <1>1, CallFacts DEF Revoking
    <3>3. {d} # {}
      BY KeysAssumption
    <3> QED BY <2>2, <3>1, <3>2, <3>3, <1>3, <1>4, <1>5 DEF Kept, RowsHeld
  <2> QED BY <2>1, <2>2
<1>9. RevokedKeyHasNoSignIn'
  BY <1>3 DEF Kept, RevokedKeyHasNoSignIn, SignIns
<1> QED BY <1>6, <1>7, <1>8, <1>9 DEF Kept

\* The revocation commits: no mint of the key is recording, since c holds it.
LEMMA EndKeeps ==
  ASSUME Kept, NEW c \in Call, EndSignIns(c)
  PROVE  Kept'
<1> DEFINE k == call[c].key
<1>1. TypeOK /\ call[c].step = "end" /\ k \in Key /\ lock[k] = {c} /\ apiKey[k] \in KeyRow
  <2>1. TypeOK /\ call[c] \in Revoking /\ call[c].step = "end"
    BY CallFacts DEF EndSignIns, Kept
  <2>2. k \in Key
    BY <2>1 DEF Revoking
  <2>3. lock[k] = {c} /\ apiKey[k] # Absent
    BY <2>1 DEF Kept, RowsHeld, KeysKnown
  <2> QED BY <2>1, <2>2, <2>3 DEF TypeOK
<1>2. /\ apiKey' = [apiKey EXCEPT ![k].revoked = TRUE]
      /\ authentication' = [a \in Authentication |->
           IF a \in SignIns(k) THEN [authentication[a] EXCEPT !.ended = TRUE]
           ELSE authentication[a]]
      /\ Goto(c, Idle) /\ Unlock(c)
      /\ UNCHANGED <<now, locked, apiKeyAssertion, token, history>>
  BY DEF EndSignIns
<1> HIDE DEF k
<1>3. /\ call' \in [Call -> CallState] /\ call'[c] = Idle
      /\ \A d \in Call : d # c => call'[d] = call[d]
  BY <1>1, <1>2, IdleFacts, GotoFacts
<1>4. /\ lock' \in [Key -> SUBSET Call]
      /\ \A l \in Key, d \in Call : d # c /\ lock[l] = {d} => lock'[l] = {d}
  BY <1>1, <1>2, UnlockFacts
<1>5. /\ apiKey' \in [Key -> KeyRow \union {Absent}]
      /\ apiKey'[k] # Absent
      /\ \A l \in Key : l # k => apiKey'[l] = apiKey[l]
  <2>1. [apiKey[k] EXCEPT !.revoked = TRUE] \in KeyRow
    BY <1>1, RevokedRow
  <2> QED BY <2>1, <1>1, <1>2, Rows DEF TypeOK
<1>6. ASSUME NEW a \in Authentication
      PROVE  /\ authentication'[a] \in AuthenticationRow \union {Absent}
             /\ authentication'[a] # Absent =>
                  /\ authentication[a] # Absent
                  /\ authentication'[a].key = authentication[a].key
                  /\ authentication'[a].key = k \/ authentication[a].ended
                       => authentication'[a].ended
  <2>1. CASE a \in SignIns(k)
    <3>1. authentication[a] \in AuthenticationRow /\ authentication[a] # Absent
      BY <2>1, <1>1 DEF SignIns, TypeOK
    <3>2. authentication'[a] = [authentication[a] EXCEPT !.ended = TRUE]
      BY <2>1, <1>2
    <3> QED BY <3>1, <3>2, SignInRow
  <2>2. CASE a \notin SignIns(k)
    <3>1. authentication'[a] = authentication[a]
      BY <2>2, <1>2
    <3> QED BY <3>1, <2>2, <1>1 DEF SignIns, TypeOK
  <2> QED BY <2>1, <2>2
<1>7. authentication' \in [Authentication -> AuthenticationRow \union {Absent}]
  <2>1. authentication' = [a \in Authentication |-> authentication'[a]]
    BY <1>2
  <2> QED BY <2>1, <1>6
<1>8. TypeOK'
  BY <1>1, <1>2, <1>3, <1>4, <1>5, <1>7 DEF TypeOK, history
<1>9. KeysKnown'
  <2> SUFFICES ASSUME NEW d \in Call
      PROVE /\ call'[d].step \in {"verify", "begin", "lock", "record"} =>
                 apiKey'[call'[d].assertion.key] # Absent
            /\ call'[d].step = "end" => apiKey'[call'[d].key] # Absent
    BY DEF KeysKnown
  <2>1. CASE d = c
    BY <2>1, <1>3, IdleFacts
  <2>2. CASE d # c
    <3>1. call[d].step \in {"verify", "begin", "lock", "record"} =>
            call[d].assertion.key \in Key
      BY <1>1, CallFacts DEF Selected, Verified, InTransaction, Assertion
    <3>2. call[d].step = "end" => call[d].key \in Key
      BY <1>1, CallFacts DEF Revoking
    <3> QED BY <2>2, <3>1, <3>2, <1>3, <1>5 DEF Kept, KeysKnown
  <2> QED BY <2>1, <2>2
<1>10. RowsHeld'
  <2> SUFFICES ASSUME NEW d \in Call
      PROVE /\ call'[d].step = "record" =>
                 /\ lock'[call'[d].assertion.key] = {d}
                 /\ ~apiKey'[call'[d].assertion.key].revoked
            /\ call'[d].step = "end" => lock'[call'[d].key] = {d}
    BY DEF RowsHeld
  <2>1. CASE d = c
    BY <2>1, <1>3, IdleFacts
  <2>2. CASE d # c
    <3>1. call[d].step = "record" =>
            /\ call[d].assertion.key \in Key
            /\ lock[call[d].assertion.key] = {d}
            /\ ~apiKey[call[d].assertion.key].revoked
      BY <1>1, CallFacts DEF InTransaction, Assertion, Kept, RowsHeld
    <3>2. call[d].step = "record" => call[d].assertion.key # k
      BY <3>1, <2>2, <1>1
    <3>3. call[d].step = "end" => call[d].key \in Key /\ lock[call[d].key] = {d}
      BY <1>1, CallFacts DEF Revoking, Kept, RowsHeld
    <3> QED BY <2>2, <3>1, <3>2, <3>3, <1>3, <1>4, <1>5
  <2> QED BY <2>1, <2>2
<1>11. RevokedKeyHasNoSignIn'
  <2> SUFFICES ASSUME NEW l \in Key, apiKey'[l] # Absent, apiKey'[l].revoked,
                      NEW a \in Authentication, authentication'[a] # Absent,
                      authentication'[a].key = l
      PROVE authentication'[a].ended
    BY DEF RevokedKeyHasNoSignIn, SignIns
  <2>1. CASE l = k
    BY <2>1, <1>6
  <2>2. CASE l # k
    <3>1. apiKey[l] # Absent /\ apiKey[l].revoked
      BY <2>2, <1>5
    <3>2. authentication[a] # Absent /\ authentication[a].key = l
      BY <1>6
    <3> QED BY <3>1, <3>2, <1>6 DEF Kept, RevokedKeyHasNoSignIn, SignIns
  <2> QED BY <2>1, <2>2
<1> QED BY <1>8, <1>9, <1>10, <1>11 DEF Kept

\* A key is registered only where there was none, so none that requests are
\* about and none that has sign-ins left.
LEMMA CreateKeeps ==
  ASSUME Kept, NEW k \in Key, NEW x \in Account, NEW expiry \in KeyExpiry \union {Never},
         Create(k, x, expiry)
  PROVE  Kept'
<1> DEFINE row == [account |-> x, expiresAt |-> expiry, revoked |-> FALSE]
<1>1. TypeOK
  BY DEF Kept
<1>2. row \in KeyRow /\ row # Absent /\ ~row.revoked
  <2>1. row \in KeyRow /\ ~row.revoked
    BY DEF KeyRow
  <2> QED BY <2>1, Rows
<1>3. apiKey[k] = Absent /\ apiKey' = [apiKey EXCEPT ![k] = row]
  BY DEF Create
<1> HIDE DEF row
<1>4. /\ apiKey' \in [Key -> KeyRow \union {Absent}] /\ apiKey'[k] = row
      /\ \A l \in Key : l # k => apiKey'[l] = apiKey[l]
  BY <1>1, <1>2, <1>3 DEF TypeOK
<1>5. TypeOK'
  BY <1>1, <1>4 DEF TypeOK, Create, history
<1>6. \A d \in Call :
        /\ call[d].step \in {"verify", "begin", "lock", "record"} => call[d].assertion.key \in Key
        /\ call[d].step = "end" => call[d].key \in Key
  BY <1>1, CallFacts DEF Selected, Verified, InTransaction, Revoking, Assertion
<1>7. KeysKnown'
  BY <1>2, <1>4, <1>6 DEF Kept, KeysKnown, Create
<1>8. RowsHeld'
  BY <1>2, <1>4, <1>6 DEF Kept, RowsHeld, Create
<1>9. RevokedKeyHasNoSignIn'
  BY <1>2, <1>4 DEF Kept, RevokedKeyHasNoSignIn, SignIns, Create
<1> QED BY <1>5, <1>7, <1>8, <1>9 DEF Kept

LEMMA EndAuthenticationKeeps ==
  ASSUME Kept, NEW a \in Authentication, EndAuthentication(a)
  PROVE  Kept'
<1>1. TypeOK /\ authentication[a] \in AuthenticationRow
  BY DEF Kept, TypeOK, EndAuthentication
<1>2. authentication' = [authentication EXCEPT ![a] = [authentication[a] EXCEPT !.ended = TRUE]]
  BY DEF EndAuthentication
<1>3. /\ authentication' \in [Authentication -> AuthenticationRow \union {Absent}]
      /\ \A b \in Authentication :
           IF b = a THEN authentication'[b].ended ELSE authentication'[b] = authentication[b]
  BY <1>1, <1>2, SignInRow DEF TypeOK
<1>4. TypeOK'
  BY <1>1, <1>3 DEF TypeOK, EndAuthentication, history
<1>5. KeysKnown' /\ RowsHeld'
  BY DEF Kept, KeysKnown, RowsHeld, EndAuthentication
<1>6. RevokedKeyHasNoSignIn'
  BY <1>3 DEF Kept, RevokedKeyHasNoSignIn, SignIns, EndAuthentication
<1> QED BY <1>4, <1>5, <1>6 DEF Kept

LEMMA OthersKeep ==
  ASSUME Kept, TypeOK', UNCHANGED <<apiKey, lock, authentication, call>>
  PROVE  Kept'
BY DEF Kept, KeysKnown, RowsHeld, RevokedKeyHasNoSignIn, SignIns

LEMMA StepKept == Kept /\ [Next]_vars => Kept'
<1> SUFFICES ASSUME Kept, [Next]_vars PROVE Kept'
  OBVIOUS
<1>1. TypeOK
  BY DEF Kept
<1>2. ASSUME NEW k \in Key, NEW x \in Account, NEW expiry \in KeyExpiry \union {Never},
             Create(k, x, expiry)
      PROVE Kept'
  BY <1>2, CreateKeeps
<1>3. ASSUME NEW x \in Account, LockAccount(x) PROVE Kept'
  <2>1. TypeOK'
    BY <1>1, <1>3 DEF TypeOK, LockAccount, history
  <2> QED BY <1>3, <2>1, OthersKeep DEF LockAccount
<1>4. ASSUME NEW a \in Authentication, EndAuthentication(a) PROVE Kept'
  BY <1>4, EndAuthenticationKeeps
<1>5. ASSUME NEW c \in Call, NEW p \in Assertion, SelectForMint(c, p) PROVE Kept'
  BY <1>5, SelectKeeps
<1>6. ASSUME NEW c \in Call, NEW x \in Account, NEW k \in Key, RevokeForAccount(c, x, k)
      PROVE Kept'
  BY <1>6, RevokeKeeps
<1>7. ASSUME NEW c \in Call, Continue(c) PROVE Kept'
  BY <1>7, VerifyKeeps, BeginKeeps, LockKeeps, RefuseKeeps, RecordKeeps, MintKeeps, EndKeeps
  DEF Continue
<1>8. ASSUME NEW c \in Call, Abandon(c) PROVE Kept'
  BY <1>8, AbandonKeeps
<1>9. CASE Tick
  <2>1. TypeOK'
    BY <1>1, <1>9 DEF TypeOK, Tick, history
  <2> QED BY <1>9, <2>1, OthersKeep DEF Tick
<1>10. CASE UNCHANGED vars
  <2>1. TypeOK'
    BY <1>1, <1>10 DEF TypeOK, vars, history
  <2> QED BY <1>10, <2>1, OthersKeep DEF vars
<1> QED BY <1>2, <1>3, <1>4, <1>5, <1>6, <1>7, <1>8, <1>9, <1>10 DEF Next

\* The invariant the theorems below rest on.
THEOREM KeysKept == Spec => []Kept
BY InitKept, StepKept, PTL DEF Spec

\* Every row, lock and request keeps its shape.
THEOREM TypeCorrect == Spec => []TypeOK
<1>1. Kept => TypeOK
  BY DEF Kept
<1> QED BY <1>1, KeysKept, PTL

\* However mints, revocations and sign-outs interleave, a revoked key has no
\* sign-in that goes on (RevokeForAccount against RecordMint).
THEOREM RevocationEnds == Spec => []RevokedKeyHasNoSignIn
<1>1. Kept => RevokedKeyHasNoSignIn
  BY DEF Kept
<1> QED BY <1>1, KeysKept, PTL

-----------------------------------------------------------------------------
\* An assertion that was verified may be presented until Lifetime and Leeway
\* after its transaction began, and Leeway more.
InTime ==
  \A c \in Call :
    /\ call[c].step = "begin" => call[c].assertion.exp <= now + Lifetime + Leeway
    /\ call[c].step \in {"lock", "record"} =>
         call[c].assertion.exp <= call[c].start + Lifetime + Leeway

\* An assertion recorded is kept until it may no longer be presented, or a mint
\* of its key began when it might not.
Remembered ==
  \A p \in recorded :
    \/ /\ apiKeyAssertion[EntryOf(p)] # Absent
       /\ apiKeyAssertion[EntryOf(p)] >= p.exp + Leeway
    \/ latest[p.key] >= p.exp + Leeway

KeptInTime == InTime /\ Remembered /\ AssertionReplayIsLate

LEMMA AssertionFacts ==
  ASSUME NEW p \in Assertion
  PROVE  /\ p.key \in Key /\ p.jti \in Jti /\ p.exp \in Nat
         /\ p.exp + Leeway \in Nat
         /\ EntryOf(p) \in Key \X Jti /\ EntryOf(p)[1] = p.key
<1>1. p.key \in Key /\ p.jti \in Jti /\ p.exp \in AssertionExp
  BY DEF Assertion
<1>2. p.exp \in Nat /\ Leeway \in Nat
  BY <1>1, KeysAssumption
<1>3. p.exp + Leeway \in Nat
  BY <1>2
<1> QED BY <1>1, <1>2, <1>3 DEF EntryOf

LEMMA ClockGoesOn ==
  ASSUME TypeOK, Next
  PROVE  now \in Nat /\ now' \in Nat /\ now' >= now
<1>1. now' = now \/ now' = now + 1
  BY DEF Next, Create, LockAccount, EndAuthentication, SelectForMint, RevokeForAccount,
         Continue, Verify, Begin, LockKey, RefuseUsed, Record, MintToken, EndSignIns, Abandon,
         Tick
<1>2. now \in Nat
  BY DEF TypeOK
<1> QED BY <1>1, <1>2

\* A mint that goes on was as it is, or is verified, begun or locked now.
LEMMA MintGoesOn ==
  ASSUME TypeOK, Next, NEW d \in Call
  PROVE  \/ call'[d] = call[d]
         \/ call'[d].step \notin {"begin", "lock", "record"}
         \/ Verify(d) \/ Begin(d) \/ LockKey(d)
<1>1. ASSUME NEW c \in Call, NEW state, Goto(c, state), state.step \notin {"begin", "lock", "record"}
      PROVE  call'[d] = call[d] \/ call'[d].step \notin {"begin", "lock", "record"}
  BY <1>1 DEF Goto, TypeOK
<1>2. ASSUME NEW c \in Call, NEW state, Goto(c, state), c # d
      PROVE  call'[d] = call[d]
  BY <1>2 DEF Goto, TypeOK
<1>3. Idle.step \notin {"begin", "lock", "record"}
  BY DEF Idle
<1>4. ASSUME NEW c \in Call, Continue(c)
      PROVE  \/ call'[d] = call[d]
             \/ call'[d].step \notin {"begin", "lock", "record"}
             \/ Verify(d) \/ Begin(d) \/ LockKey(d)
  <2>1. CASE Verify(c) \/ Begin(c) \/ LockKey(c)
    BY <2>1, <1>2 DEF Verify, Begin, LockKey
  <2>2. CASE RefuseUsed(c) \/ MintToken(c) \/ EndSignIns(c)
    BY <2>2, <1>1, <1>3 DEF RefuseUsed, MintToken, EndSignIns
  <2>3. CASE \E a \in Authentication : Record(c, a)
    BY <2>3, <1>1 DEF Record
  <2> QED BY <1>4, <2>1, <2>2, <2>3 DEF Continue
<1>5. ASSUME NEW c \in Call, Abandon(c) PROVE call'[d] = call[d] \/ call'[d].step = "idle"
  BY <1>5 DEF Abandon, Goto, Idle, TypeOK
<1>6. ASSUME NEW c \in Call, NEW p \in Assertion, SelectForMint(c, p)
      PROVE  call'[d] = call[d] \/ call'[d].step \notin {"begin", "lock", "record"}
  BY <1>6, <1>1 DEF SelectForMint
<1>7. ASSUME NEW c \in Call, NEW x \in Account, NEW k \in Key, RevokeForAccount(c, x, k)
      PROVE  call'[d] = call[d] \/ call'[d].step \notin {"begin", "lock", "record"}
  BY <1>7, <1>1 DEF RevokeForAccount
<1>8. CASE Tick \/ (\E x \in Account : LockAccount(x))
           \/ (\E a \in Authentication : EndAuthentication(a))
           \/ \E k \in Key, x \in Account, expiry \in KeyExpiry \union {Never} :
                Create(k, x, expiry)
  BY <1>8 DEF Tick, LockAccount, EndAuthentication, Create
<1> QED BY <1>4, <1>5, <1>6, <1>7, <1>8 DEF Next

\* What happens to the calls, as far as their times go.
LEMMA InTimeKept ==
  ASSUME TypeOK, TypeOK', InTime, Next
  PROVE  InTime'
<1> SUFFICES ASSUME NEW d \in Call
    PROVE /\ call'[d].step = "begin" => call'[d].assertion.exp <= now' + Lifetime + Leeway
          /\ call'[d].step \in {"lock", "record"} =>
               call'[d].assertion.exp <= call'[d].start + Lifetime + Leeway
  BY DEF InTime
<1>1. now \in Nat /\ now' \in Nat /\ now' >= now
  BY ClockGoesOn
<1>2. CASE call'[d] = call[d]
  <2>1. call[d].step = "begin" =>
          call[d].assertion.exp <= now + Lifetime + Leeway /\ call[d].assertion.exp \in Nat
    BY CallFacts, AssertionFacts DEF InTime, Verified
  <2>2. call[d].step = "begin" => call[d].assertion.exp <= now' + Lifetime + Leeway
    BY <2>1, <1>1, KeysAssumption
  <2> QED BY <1>2, <2>2 DEF InTime
<1>3. CASE call'[d].step \notin {"begin", "lock", "record"}
  BY <1>3
<1>4. CASE Verify(d)
  BY <1>4 DEF Verify, Goto, Acceptable, TypeOK, Idle
<1>5. CASE Begin(d)
  BY <1>5 DEF Begin, Goto, TypeOK, InTime
<1>6. CASE LockKey(d)
  <2>1. call[d] \in InTransaction /\ call[d].step = "lock"
    BY <1>6, CallFacts DEF LockKey
  <2>2. call'[d] = Idle \/ call'[d] = [call[d] EXCEPT !.step = "record"]
    BY <1>6 DEF LockKey, Goto, TypeOK
  <2>3. /\ [call[d] EXCEPT !.step = "record"].assertion = call[d].assertion
        /\ [call[d] EXCEPT !.step = "record"].start = call[d].start
        /\ [call[d] EXCEPT !.step = "record"].step = "record"
    BY <2>1 DEF InTransaction
  <2>4. CASE call'[d] = Idle
    BY <2>4, <1>3 DEF Idle
  <2>5. CASE call'[d] = [call[d] EXCEPT !.step = "record"]
    <3>1. call[d].assertion.exp <= call[d].start + Lifetime + Leeway
      BY <2>1 DEF InTime
    <3> QED BY <2>3, <2>5, <3>1
  <2> QED BY <2>2, <2>4, <2>5
<1>7. \/ call'[d] = call[d]
      \/ call'[d].step \notin {"begin", "lock", "record"}
      \/ Verify(d) \/ Begin(d) \/ LockKey(d)
  BY MintGoesOn
<1> QED BY <1>2, <1>3, <1>4, <1>5, <1>6, <1>7

\* What a mint records is kept for as long as the assertion may be presented,
\* and what it sweeps may not be presented when it began.
LEMMA RememberedKept ==
  ASSUME TypeOK, KeptInTime, NEW c \in Call, NEW a \in Authentication, Record(c, a)
  PROVE  Remembered' /\ AssertionReplayIsLate'
<1> DEFINE p == call[c].assertion
           start == call[c].start
<1>1. /\ call[c] \in InTransaction /\ call[c].step = "record"
      /\ p.exp <= start + Lifetime + Leeway
  BY CallFacts DEF Record, KeptInTime, InTime
<1>2. p \in Assertion /\ start \in Nat
  BY <1>1 DEF InTransaction
<1>3. /\ p.key \in Key /\ p.exp \in Nat
      /\ EntryOf(p) \in Key \X Jti /\ EntryOf(p)[1] = p.key
  BY <1>2, AssertionFacts
<1>4. /\ apiKeyAssertion[EntryOf(p)] = Absent
      /\ Remember(p, start)
      /\ recorded' = recorded \union {p}
      /\ replayed' = IF p \in recorded THEN replayed \union {p} ELSE replayed
      /\ latest' = [latest EXCEPT ![p.key] = IF start > @ THEN start ELSE @]
  BY DEF Record
<1> HIDE DEF p, start
<1>5. /\ latest' \in [Key -> Nat]
      /\ \A k \in Key : latest'[k] >= latest[k]
      /\ latest'[p.key] >= start
  <2>1. latest \in [Key -> Nat]
    BY DEF TypeOK
  <2>2. \A k \in Key : latest'[k] =
          IF k = p.key THEN IF start > latest[k] THEN start ELSE latest[k] ELSE latest[k]
    BY <2>1, <1>3, <1>4
  <2>3. latest' \in [Key -> Nat]
    BY <2>1, <1>2, <1>3, <1>4
  <2>4. \A k \in Key : latest[k] \in Nat
    BY <2>1
  <2> QED BY <2>2, <2>3, <2>4, <1>2, <1>3
<1>6. \A e \in Key \X Jti :
        apiKeyAssertion'[e] =
          LET kept == IF e = EntryOf(p) THEN start + AssertionRetention ELSE apiKeyAssertion[e]
          IN IF e[1] = p.key /\ kept # Absent /\ kept <= start THEN Absent ELSE kept
  BY <1>4 DEF Remember
<1>7. /\ apiKeyAssertion'[EntryOf(p)] = start + AssertionRetention \/ latest'[p.key] >= p.exp + Leeway
      /\ start + AssertionRetention >= p.exp + Leeway
      /\ start + AssertionRetention \in Nat
  <2>1. /\ start + AssertionRetention >= p.exp + Leeway
        /\ start + AssertionRetention \in Nat
    BY <1>1, <1>2, <1>3, KeysAssumption DEF AssertionRetention, p, start
  <2>2. apiKeyAssertion'[EntryOf(p)] =
          IF start + AssertionRetention # Absent /\ start + AssertionRetention <= start
          THEN Absent ELSE start + AssertionRetention
    BY <1>3, <1>6
  <2>3. start + AssertionRetention <= start => latest'[p.key] >= p.exp + Leeway
    BY <2>1, <1>2, <1>3, <1>5, KeysAssumption
  <2> QED BY <2>1, <2>2, <2>3
<1>8. Remembered'
  <2> SUFFICES ASSUME NEW q \in recorded'
      PROVE \/ /\ apiKeyAssertion'[EntryOf(q)] # Absent
               /\ apiKeyAssertion'[EntryOf(q)] >= q.exp + Leeway
            \/ latest'[q.key] >= q.exp + Leeway
    BY DEF Remembered
  <2>1. q \in Assertion
    BY <1>2, <1>4 DEF TypeOK
  <2>2. /\ q.key \in Key /\ q.exp \in Nat /\ Leeway \in Nat
        /\ EntryOf(q) \in Key \X Jti /\ EntryOf(q)[1] = q.key
    BY <2>1, AssertionFacts, KeysAssumption
  <2>3. CASE q = p
    BY <2>3, <1>7, KeysAssumption
  <2>4. CASE q \in recorded /\ latest[q.key] >= q.exp + Leeway
    <3>1. latest[q.key] \in Nat /\ latest'[q.key] \in Nat /\ latest'[q.key] >= latest[q.key]
      BY <2>2, <1>5 DEF TypeOK
    <3> QED BY <3>1, <2>2, <2>4
  <2>5. CASE /\ apiKeyAssertion[EntryOf(q)] # Absent
             /\ apiKeyAssertion[EntryOf(q)] >= q.exp + Leeway
    <3>1. EntryOf(q) # EntryOf(p)
      BY <2>5, <1>4
    <3>2. apiKeyAssertion[EntryOf(q)] \in Nat
      BY <2>2, <2>5 DEF TypeOK
    <3>3. apiKeyAssertion'[EntryOf(q)] =
            IF q.key = p.key /\ apiKeyAssertion[EntryOf(q)] <= start
            THEN Absent ELSE apiKeyAssertion[EntryOf(q)]
      BY <3>1, <2>2, <2>5, <1>6
    <3>4. CASE q.key = p.key /\ apiKeyAssertion[EntryOf(q)] <= start
      <4>1. latest'[q.key] \in Nat /\ latest'[q.key] >= start
        BY <3>4, <1>3, <1>5
      <4>2. latest'[q.key] >= q.exp + Leeway
        BY <4>1, <3>2, <3>4, <2>2, <2>5, <1>2
      <4> QED BY <4>2
    <3>5. CASE ~(q.key = p.key /\ apiKeyAssertion[EntryOf(q)] <= start)
      BY <3>3, <3>5, <2>5
    <3> QED BY <3>4, <3>5
  <2> QED BY <2>3, <2>4, <2>5, <1>4 DEF KeptInTime, Remembered
<1>9. AssertionReplayIsLate'
  <2> SUFFICES ASSUME NEW q \in replayed' PROVE latest'[q.key] >= q.exp + Leeway
    BY DEF AssertionReplayIsLate
  <2>1. CASE q \in replayed
    <3>1. q.key \in Key /\ q.exp + Leeway \in Nat /\ latest[q.key] >= q.exp + Leeway
      BY <2>1, AssertionFacts DEF TypeOK, KeptInTime, AssertionReplayIsLate
    <3> QED BY <3>1, <1>5 DEF TypeOK
  <2>2. CASE p \in recorded /\ q = p
    <3>1. latest[p.key] >= p.exp + Leeway
      BY <2>2, <1>4 DEF KeptInTime, Remembered
    <3>2. p.exp + Leeway \in Nat
      BY <1>2, AssertionFacts
    <3> QED BY <2>2, <3>1, <3>2, <1>3, <1>5 DEF TypeOK
  <2> QED BY <2>1, <2>2, <1>4
<1> QED BY <1>8, <1>9

LEMMA StepKeptInTime == TypeOK /\ TypeOK' /\ KeptInTime /\ [Next]_vars => KeptInTime'
<1> SUFFICES ASSUME TypeOK, TypeOK', KeptInTime, [Next]_vars PROVE KeptInTime'
  OBVIOUS
<1>1. CASE UNCHANGED vars
  BY <1>1 DEF vars, history, KeptInTime, InTime, Remembered, AssertionReplayIsLate
<1>2. CASE Next
  <2>1. InTime'
    BY <1>2, InTimeKept DEF KeptInTime
  <2>2. CASE \E c \in Call, a \in Authentication : Record(c, a)
    BY <2>1, <2>2, RememberedKept DEF KeptInTime
  <2>3. CASE UNCHANGED <<apiKeyAssertion, history>>
    BY <2>1, <2>3 DEF history, KeptInTime, Remembered, AssertionReplayIsLate
  <2> QED
    BY <1>2, <2>2, <2>3
    DEF Next, Create, LockAccount, EndAuthentication, SelectForMint, RevokeForAccount,
        Continue, Verify, Begin, LockKey, RefuseUsed, MintToken, EndSignIns, Abandon, Tick
<1> QED BY <1>1, <1>2

\* "as long as they could still be presented again": an assertion mints again
\* only once a mint of its key began when it could no longer be presented.
THEOREM ReplayLate == Spec => []AssertionReplayIsLate
<1>1. Init => KeptInTime
  <2>1. Init => \A c \in Call : call[c].step = "idle"
    BY DEF Init, Idle
  <2> QED BY <2>1 DEF Init, KeptInTime, InTime, Remembered, AssertionReplayIsLate
<1>2. KeptInTime => AssertionReplayIsLate
  BY DEF KeptInTime
<1> QED BY <1>1, <1>2, StepKeptInTime, TypeCorrect, PTL DEF Spec

-----------------------------------------------------------------------------
\* No mint begins ahead of the clock.
BeginsByNow ==
  /\ \A c \in Call : call[c].step \in {"lock", "record"} => call[c].start <= now
  /\ \A k \in Key : latest[k] <= now

\* Of the sign-ins that a mint begun no earlier than those recorded could find,
\* there is one: what it does not find has run out to every later one too.
OneAtLatest ==
  \A k \in Key \ revived : \A a, b \in Extended(k, latest[k]) : a = b

SignInsKept == BeginsByNow /\ OneAtLatest

LEMMA ExtendedFacts ==
  ASSUME TypeOK, NEW k \in Key, NEW start \in Nat, NEW a \in Extended(k, start)
  PROVE  /\ a \in Authentication /\ authentication[a] \in AuthenticationRow
         /\ authentication[a] # Absent /\ authentication[a].key = k
         /\ ~authentication[a].ended
         /\ authentication[a].expiresAt \in Nat /\ authentication[a].expiresAt > start
<1>1. a \in Authentication /\ authentication[a] # Absent
  BY DEF Extended, SignIns
<1>2. authentication[a] \in AuthenticationRow
  BY <1>1 DEF TypeOK
<1> QED BY <1>1, <1>2 DEF Extended, SignIns, AuthenticationRow

\* The later a mint begins, the fewer it finds.
LEMMA LaterFindsFewer ==
  ASSUME TypeOK, NEW k \in Key, NEW start \in Nat, NEW later \in Nat, start <= later
  PROVE  Extended(k, later) \subseteq Extended(k, start)
<1> SUFFICES ASSUME NEW a \in Extended(k, later) PROVE a \in Extended(k, start)
  OBVIOUS
<1>1. /\ authentication[a].expiresAt \in Nat /\ authentication[a].expiresAt > later
  BY ExtendedFacts
<1> QED BY <1>1 DEF Extended

\* A mint that revives none finds one at most.
LEMMA FindsOne ==
  ASSUME TypeOK, OneAtLatest, NEW k \in Key \ revived, NEW start \in Nat, ~Revives(k, start)
  PROVE  \A a, b \in Extended(k, start) : a = b
<1>1. ASSUME NEW a \in Extended(k, start) PROVE a \in Extended(k, latest[k])
  <2>1. authentication[a].expiresAt \in Nat /\ latest[k] \in Nat
    BY ExtendedFacts DEF TypeOK
  <2>2. ~(authentication[a].expiresAt <= latest[k])
    BY DEF Revives
  <2> QED BY <2>1, <2>2 DEF Extended
<1> QED BY <1>1 DEF OneAtLatest

\* Ending sign-ins leaves fewer.
LEMMA EndingLeavesFewer ==
  ASSUME OneAtLatest, UNCHANGED <<latest, revived>>,
         \A a \in Authentication :
           \/ authentication'[a] = authentication[a]
           \/ authentication'[a].ended
  PROVE  OneAtLatest'
<1>1. ASSUME NEW k \in Key, NEW a \in Extended(k, latest[k])'
      PROVE  a \in Extended(k, latest[k])
  BY <1>1 DEF Extended, SignIns
<1> QED BY <1>1 DEF OneAtLatest

\* A recorded mint extends what it finds, or makes one where it finds none.
LEMMA RecordKeepsOne ==
  ASSUME TypeOK, TypeOK', OneAtLatest, NEW c \in Call, NEW a \in Authentication, Record(c, a)
  PROVE  OneAtLatest'
<1>1. call[c] \in InTransaction
  BY CallFacts DEF Record
<1> SUFFICES ASSUME NEW p \in Assertion, p = call[c].assertion,
                    NEW start \in Nat, start = call[c].start
             PROVE  OneAtLatest'
  BY <1>1 DEF InTransaction
<1>2. p.key \in Key /\ now + AuthenticationLifetime \in Nat
  BY AssertionFacts, KeysAssumption DEF TypeOK
<1>3. /\ KeepSignIn(p.key, start, now + AuthenticationLifetime, a)
      /\ latest' = [latest EXCEPT ![p.key] = IF start > @ THEN start ELSE @]
      /\ revived' = IF Revives(p.key, start) THEN revived \union {p.key} ELSE revived
  BY DEF Record
<1>4. ASSUME NEW k \in Key \ revived', k # p.key, NEW b \in Extended(k, latest[k])'
      PROVE  k \notin revived /\ b \in Extended(k, latest[k])
  <2>1. b \in Authentication /\ authentication'[b] # Absent /\ authentication'[b].key = k
    BY <1>4 DEF Extended, SignIns
  <2>2. authentication[b] # Absent /\ authentication'[b] = authentication[b]
    BY <1>2, <1>3, <1>4, <2>1, SignInKept
  <2>3. latest'[k] = latest[k] /\ k \notin revived
    BY <1>2, <1>3, <1>4 DEF TypeOK
  <2> QED BY <1>4, <2>2, <2>3 DEF Extended, SignIns
<1>5. ASSUME p.key \notin revived'
      PROVE  \A b, d \in Extended(p.key, latest[p.key])' : b = d
  <2>1. p.key \notin revived /\ ~Revives(p.key, start)
    BY <1>3, <1>5
  <2>2. latest'[p.key] \in Nat /\ latest'[p.key] >= start
    BY <1>2, <1>3 DEF TypeOK
  <2>3. ASSUME NEW b \in Extended(p.key, latest[p.key])', authentication'[b] = authentication[b]
        PROVE  b \in Extended(p.key, start)
    <3>1. /\ b \in Authentication /\ authentication[b] # Absent
          /\ authentication[b].key = p.key /\ ~authentication[b].ended
          /\ authentication[b].expiresAt > latest'[p.key]
      BY <2>3 DEF Extended, SignIns
    <3>2. authentication[b].expiresAt \in Nat
      BY <3>1 DEF TypeOK, AuthenticationRow
    <3> QED BY <1>2, <2>2, <3>1, <3>2 DEF Extended, SignIns
  <2>4. \A b \in Extended(p.key, latest[p.key])' : b \in Authentication
    BY DEF Extended, SignIns
  <2>5. CASE authentication' = [b \in Authentication |->
               IF b \in Extended(p.key, start)
               THEN [authentication[b] EXCEPT !.expiresAt = now + AuthenticationLifetime]
               ELSE authentication[b]]
    <3>1. \A b \in Extended(p.key, latest[p.key])' : b \in Extended(p.key, start)
      BY <2>3, <2>4, <2>5
    <3> QED BY <1>2, <2>1, <3>1, FindsOne
  <2>6. CASE /\ Extended(p.key, start) = {}
             /\ authentication' = [authentication EXCEPT
                  ![a] = [key |-> p.key, expiresAt |-> now + AuthenticationLifetime,
                          ended |-> FALSE]]
    <3>1. \A b \in Authentication : b # a => authentication'[b] = authentication[b]
      BY <2>6 DEF TypeOK
    <3>2. \A b \in Extended(p.key, latest[p.key])' : b = a
      BY <2>3, <2>4, <2>6, <3>1
    <3> QED BY <3>2
  <2> QED BY <1>3, <2>5, <2>6 DEF KeepSignIn
<1> SUFFICES ASSUME NEW k \in Key \ revived'
             PROVE  \A b, d \in Extended(k, latest[k])' : b = d
  BY DEF OneAtLatest
<1>6. CASE k = p.key
  BY <1>5, <1>6
<1>7. CASE k # p.key
  BY <1>4, <1>7 DEF OneAtLatest
<1> QED BY <1>6, <1>7

LEMMA BeginsByNowKept ==
  ASSUME TypeOK, TypeOK', BeginsByNow, Next
  PROVE  BeginsByNow'
<1>1. now \in Nat /\ now' \in Nat /\ now' >= now
  BY ClockGoesOn
<1>2. ASSUME NEW d \in Call, call'[d].step \in {"lock", "record"}
      PROVE  call'[d].start <= now'
  <2>1. CASE call'[d] = call[d]
    <3>1. call[d].start \in Nat /\ call[d].start <= now
      BY <1>2, <2>1, CallFacts DEF InTransaction, BeginsByNow
    <3> QED BY <1>1, <2>1, <3>1
  <2>2. CASE Verify(d)
    BY <1>2, <2>2 DEF Verify, Goto, TypeOK, Idle
  <2>3. CASE Begin(d)
    BY <1>1, <2>3 DEF Begin, Goto, TypeOK
  <2>4. CASE LockKey(d)
    <3>1. call[d] \in InTransaction /\ call[d].step = "lock"
      BY <2>4, CallFacts DEF LockKey
    <3>2. call'[d] = Idle \/ call'[d] = [call[d] EXCEPT !.step = "record"]
      BY <2>4 DEF LockKey, Goto, TypeOK
    <3>3. call'[d].start = call[d].start /\ call[d].start \in Nat
      BY <1>2, <3>1, <3>2 DEF InTransaction, Idle
    <3>4. call[d].start <= now
      BY <3>1 DEF BeginsByNow
    <3> QED BY <1>1, <3>3, <3>4
  <2> QED BY <1>2, <2>1, <2>2, <2>3, <2>4, MintGoesOn
<1>3. ASSUME NEW k \in Key PROVE latest'[k] <= now'
  <2>1. latest[k] \in Nat /\ latest[k] <= now
    BY DEF TypeOK, BeginsByNow
  <2>2. ASSUME NEW c \in Call, NEW a \in Authentication, Record(c, a)
        PROVE  latest'[k] <= now
    <3>1. call[c] \in InTransaction /\ call[c].start <= now
      BY <2>2, CallFacts DEF Record, BeginsByNow
    <3>2. latest'[k] \in {call[c].start, latest[k]}
      BY <2>2 DEF Record, TypeOK
    <3> QED BY <2>1, <3>1, <3>2
  <2>3. CASE UNCHANGED latest
    BY <1>1, <2>1, <2>3
  <2>4. latest'[k] \in Nat
    BY DEF TypeOK
  <2>5. CASE \E c \in Call, a \in Authentication : Record(c, a)
    BY <1>1, <2>2, <2>4, <2>5
  <2>6. CASE UNCHANGED history
    BY <2>3, <2>6 DEF history
  <2> QED
    BY <2>5, <2>6
    DEF Next, Create, LockAccount, EndAuthentication, SelectForMint, RevokeForAccount,
        Continue, Verify, Begin, LockKey, RefuseUsed, MintToken, EndSignIns, Abandon, Tick
<1> QED BY <1>2, <1>3 DEF BeginsByNow

LEMMA StepKeepsOne == TypeOK /\ TypeOK' /\ SignInsKept /\ [Next]_vars => SignInsKept'
<1> SUFFICES ASSUME TypeOK, TypeOK', SignInsKept, [Next]_vars PROVE SignInsKept'
  OBVIOUS
<1>1. CASE UNCHANGED vars
  BY <1>1 DEF vars, history, SignInsKept, BeginsByNow, OneAtLatest, Extended, SignIns
<1>2. CASE Next
  <2>1. BeginsByNow'
    BY <1>2, BeginsByNowKept DEF SignInsKept
  <2>2. ASSUME NEW c \in Call, NEW a \in Authentication, Record(c, a) PROVE OneAtLatest'
    BY <2>2, RecordKeepsOne DEF SignInsKept
  <2>3. ASSUME NEW a \in Authentication, EndAuthentication(a) PROVE OneAtLatest'
    <3>1. authentication[a] \in AuthenticationRow
      BY <2>3 DEF EndAuthentication, TypeOK
    <3>2. authentication' = [authentication EXCEPT ![a] = [authentication[a] EXCEPT !.ended = TRUE]]
      BY <2>3 DEF EndAuthentication
    <3>3. \A b \in Authentication :
            authentication'[b] = authentication[b] \/ authentication'[b].ended
      BY <3>1, <3>2, SignInRow DEF TypeOK
    <3> QED BY <2>3, <3>3, EndingLeavesFewer DEF EndAuthentication, history, SignInsKept
  <2>4. ASSUME NEW c \in Call, EndSignIns(c) PROVE OneAtLatest'
    <3>1. ASSUME NEW b \in Authentication
          PROVE  authentication'[b] = authentication[b] \/ authentication'[b].ended
      <4>1. CASE b \in SignIns(call[c].key)
        <5>1. authentication[b] \in AuthenticationRow
          BY <4>1 DEF SignIns, TypeOK
        <5>2. authentication'[b] = [authentication[b] EXCEPT !.ended = TRUE]
          BY <2>4, <4>1 DEF EndSignIns
        <5> QED BY <5>1, <5>2, SignInRow
      <4>2. CASE b \notin SignIns(call[c].key)
        BY <2>4, <4>2 DEF EndSignIns
      <4> QED BY <4>1, <4>2
    <3> QED BY <2>4, <3>1, EndingLeavesFewer DEF EndSignIns, history, SignInsKept
  <2>5. ASSUME UNCHANGED <<authentication, history>> PROVE OneAtLatest'
    BY <2>5, EndingLeavesFewer DEF history, SignInsKept
  <2>6. ASSUME \/ \E a \in Authentication : EndAuthentication(a)
               \/ \E c \in Call : EndSignIns(c) \/ \E a \in Authentication : Record(c, a)
        PROVE  OneAtLatest'
    BY <2>2, <2>3, <2>4, <2>6
  <2>7. OneAtLatest'
    BY <1>2, <2>5, <2>6
    DEF Next, Create, LockAccount, SelectForMint, RevokeForAccount, Continue, Verify, Begin,
        LockKey, RefuseUsed, MintToken, Abandon, Tick
  <2> QED BY <2>1, <2>7 DEF SignInsKept
<1> QED BY <1>1, <1>2

\* However many mints of a key are under way at once, it has one sign-in that
\* goes on, unless one that was overtaken found what had run out to another
\* (RecordMint, whose now() is older than its turn at the key's row).
THEOREM OneSignIn == Spec => []OneSignInPerKey
<1>1. Init => SignInsKept
  <2> SUFFICES ASSUME Init PROVE SignInsKept
    OBVIOUS
  <2>1. \A c \in Call : call[c].step = "idle"
    BY DEF Init, Idle
  <2>2. \A k \in Key : latest[k] <= now
    BY DEF Init
  <2>3. \A k \in Key : Extended(k, latest[k]) = {}
    BY DEF Init, Extended, SignIns
  <2> QED BY <2>1, <2>2, <2>3 DEF SignInsKept, BeginsByNow, OneAtLatest
<1>2. TypeOK /\ SignInsKept => OneSignInPerKey
  <2> SUFFICES ASSUME TypeOK, SignInsKept, NEW k \in Key \ revived
               PROVE  Cardinality(Extended(k, now)) <= 1
    BY DEF OneSignInPerKey
  <2>1. Extended(k, now) \subseteq Extended(k, latest[k])
    BY LaterFindsFewer DEF TypeOK, SignInsKept, BeginsByNow
  <2>2. \A a, b \in Extended(k, now) : a = b
    BY <2>1 DEF SignInsKept, OneAtLatest
  <2>3. CASE Extended(k, now) = {}
    BY <2>3, FS_EmptySet
  <2>4. CASE Extended(k, now) # {}
    <3>1. PICK a \in Extended(k, now) : TRUE
      BY <2>4
    <3>2. Extended(k, now) = {a}
      BY <2>2, <3>1
    <3>3. Cardinality({a}) = 1
      BY FS_Singleton
    <3> QED BY <3>2, <3>3
  <2> QED BY <2>3, <2>4
<1> QED BY <1>1, <1>2, StepKeepsOne, TypeCorrect, PTL DEF Spec

-----------------------------------------------------------------------------
\* A request lets go of what it holds, or holds nothing, and goes on to s.
LEMMA WriterLetsGo ==
  ASSUME TypeOK, RowHeldByWriter, NEW c \in Call, NEW s, Goto(c, s),
         \/ Unlock(c)
         \/ call[c].step \notin {"record", "end"} /\ UNCHANGED lock
  PROVE  RowHeldByWriter'
<1> SUFFICES ASSUME NEW k \in Key, NEW d \in Call, d \in lock'[k]
    PROVE /\ lock'[k] = {d}
          /\ \/ call'[d].step = "record" /\ call'[d].assertion.key = k
             \/ call'[d].step = "end" /\ call'[d].key = k
  BY DEF RowHeldByWriter
<1>1. lock'[k] \subseteq lock[k]
  BY DEF Unlock
<1>2. /\ lock[k] = {d}
      /\ \/ call[d].step = "record" /\ call[d].assertion.key = k
         \/ call[d].step = "end" /\ call[d].key = k
  BY <1>1 DEF RowHeldByWriter
<1>3. lock'[k] = {d}
  BY <1>1, <1>2
<1>4. d # c
  BY <1>2 DEF Unlock
<1>5. call'[d] = call[d]
  BY <1>4 DEF TypeOK, Goto
<1> QED BY <1>2, <1>3, <1>5

\* A request takes the row of k, and is about to write it.
LEMMA WriterTakes ==
  ASSUME TypeOK, RowHeldByWriter, NEW c \in Call, NEW k \in Key, NEW s, Goto(c, s),
         call[c].step \notin {"record", "end"},
         \/ s.step = "record" /\ s.assertion.key = k
         \/ s.step = "end" /\ s.key = k,
         lock' = [lock EXCEPT ![k] = {c}]
  PROVE  RowHeldByWriter'
<1> SUFFICES ASSUME NEW l \in Key, NEW d \in Call, d \in lock'[l]
    PROVE /\ lock'[l] = {d}
          /\ \/ call'[d].step = "record" /\ call'[d].assertion.key = l
             \/ call'[d].step = "end" /\ call'[d].key = l
  BY DEF RowHeldByWriter
<1>1. call'[c] = s
  BY DEF TypeOK, Goto
<1>2. CASE l = k
  <2>1. lock'[l] = {c} /\ d = c
    BY <1>2 DEF TypeOK
  <2> QED BY <1>1, <1>2, <2>1
<1>3. CASE l # k
  <2>1. d \in lock[l] /\ lock'[l] = lock[l]
    BY <1>3 DEF TypeOK
  <2>2. /\ lock[l] = {d}
        /\ \/ call[d].step = "record" /\ call[d].assertion.key = l
           \/ call[d].step = "end" /\ call[d].key = l
    BY <2>1 DEF RowHeldByWriter
  <2>3. call'[d] = call[d]
    BY <2>2 DEF TypeOK, Goto
  <2> QED BY <2>1, <2>2, <2>3
<1> QED BY <1>2, <1>3

LEMMA StepRowHeld == TypeOK /\ RowHeldByWriter /\ [Next]_vars => RowHeldByWriter'
<1> SUFFICES ASSUME TypeOK, RowHeldByWriter, [Next]_vars PROVE RowHeldByWriter'
  OBVIOUS
<1>1. CASE UNCHANGED <<lock, call>>
  BY <1>1 DEF RowHeldByWriter
<1>2. ASSUME NEW c \in Call, LockKey(c) PROVE RowHeldByWriter'
  <2> DEFINE k == call[c].assertion.key
             s == [call[c] EXCEPT !.step = "record"]
  <2>1. /\ call[c].step = "lock" /\ call[c] \in InTransaction
        /\ k \in Key
    BY <1>2, CallFacts DEF LockKey, InTransaction, Assertion
  <2>2. \/ Goto(c, Idle) /\ UNCHANGED lock
        \/ Goto(c, s) /\ lock' = [lock EXCEPT ![k] = {c}]
    BY <1>2 DEF LockKey
  <2>3. s.step = "record" /\ s.assertion.key = k
    BY <2>1 DEF InTransaction
  <2> HIDE DEF k, s
  <2> QED BY <2>1, <2>2, <2>3, WriterLetsGo, WriterTakes
<1>3. ASSUME NEW c \in Call, NEW x \in Account, NEW k \in Key, RevokeForAccount(c, x, k)
      PROVE RowHeldByWriter'
  <2> DEFINE s == [step |-> "end", key |-> k]
  <2>1. call[c].step = "idle" /\ Goto(c, s) /\ lock' = [lock EXCEPT ![k] = {c}]
    BY <1>3 DEF RevokeForAccount, Idle
  <2>2. s.step = "end" /\ s.key = k
    OBVIOUS
  <2> HIDE DEF s
  <2> QED BY <2>1, <2>2, WriterTakes
<1>4. ASSUME NEW c \in Call, NEW p \in Assertion, SelectForMint(c, p) PROVE RowHeldByWriter'
  <2>1. call[c].step = "idle" /\ UNCHANGED lock /\ \E s : Goto(c, s)
    BY <1>4 DEF SelectForMint, Idle
  <2> QED BY <2>1, WriterLetsGo
<1>5. ASSUME NEW c \in Call, Verify(c) \/ Begin(c) \/ MintToken(c) PROVE RowHeldByWriter'
  <2>1. call[c].step \notin {"record", "end"} /\ UNCHANGED lock /\ \E s : Goto(c, s)
    BY <1>5 DEF Verify, Begin, MintToken
  <2> QED BY <2>1, WriterLetsGo
<1>6. ASSUME NEW c \in Call,
             \/ RefuseUsed(c) \/ EndSignIns(c) \/ Abandon(c)
             \/ \E a \in Authentication : Record(c, a)
      PROVE RowHeldByWriter'
  <2>1. Unlock(c) /\ \E s : Goto(c, s)
    BY <1>6 DEF RefuseUsed, EndSignIns, Abandon, Record
  <2> QED BY <2>1, WriterLetsGo
<1> QED
  BY <1>1, <1>2, <1>3, <1>4, <1>5, <1>6
  DEF Next, Continue, Create, LockAccount, EndAuthentication, Tick, vars

\* A key's row is held by one request at a time, which has it yet to write and
\* is past no commit: it is given back however the request ends (RecordMint and
\* RevokeForAccount).
THEOREM RowHeld == Spec => []RowHeldByWriter
<1>1. Init => RowHeldByWriter
  BY DEF Init, RowHeldByWriter
<1> QED BY <1>1, StepRowHeld, TypeCorrect, PTL DEF Spec

\* Only a mint recorded before its account was locked, by a request that read
\* it so, gets a token after (the mint endpoint, between RecordMint and the
\* token).
THEOREM LockedMintsNothing == Spec => LockedAccountMintsNothing
<1> DEFINE Step ==
      \A x \in locked : Unlocked(x) = {} =>
        \A t \in token' \ token : apiKey[t.key].account # x
<1>1. ASSUME [Next]_vars, NEW x \in locked, Unlocked(x) = {}, NEW t \in token' \ token
      PROVE  apiKey[t.key].account # x
  <2>1. PICK c \in Call : MintToken(c)
    BY <1>1 DEF Next, Continue, Create, LockAccount, EndAuthentication, SelectForMint,
                RevokeForAccount, Verify, Begin, LockKey, RefuseUsed, Record, EndSignIns,
                Abandon, Tick, vars
  <2>2. call[c].step = "mint" /\ ~call[c].locked /\ t.key = call[c].key
    BY <1>1, <2>1 DEF MintToken, Mintable
  <2> QED
    BY <1>1, <2>2 DEF Unlocked
<1>2. [Next]_vars => [Step]_vars
  BY <1>1
<1> QED
  BY <1>2, PTL DEF Spec, LockedAccountMintsNothing
=============================================================================
