--------------------------- MODULE PasskeyProofs ---------------------------
(* Theorems about Passkey, for every value of its constants. *)
EXTENDS Passkey, TLAPS

-----------------------------------------------------------------------------
\* Requests.

LoggingInStep == {"delete", "update", "authenticate"}
RegisteringStep == {"add user", "add credential"}

\* The step a request is at says which fields it has.
LEMMA CallFields ==
  ASSUME TypeOK, NEW c \in Call
  PROVE  /\ call[c] \in CallState
         /\ call[c].step \in {"idle"} \union LoggingInStep \union RegisteringStep
         /\ call[c].step = "idle" => call[c] = Idle
         /\ call[c].step \in LoggingInStep => call[c] \in LoggingIn
         /\ call[c].step \in RegisteringStep => call[c] \in Registering
<1> USE DEF Idle, LoggingIn, Registering, LoggingInStep, RegisteringStep
<1>1. call[c] \in CallState
  BY DEF TypeOK
<1>2. CASE call[c] = Idle
  BY <1>1, <1>2
<1>3. CASE call[c] \in LoggingIn
  BY <1>1, <1>3
<1>4. CASE call[c] \in Registering
  BY <1>1, <1>4
<1> QED
  BY <1>1, <1>2, <1>3, <1>4 DEF CallState

\* What a step sets a request to, it is, and the others stay.
LEMMA GotoGets ==
  ASSUME TypeOK, NEW c \in Call, NEW state, Goto(c, state)
  PROVE  /\ call'[c] = state
         /\ \A d \in Call : d # c => call'[d] = call[d]
         /\ state \in CallState => call' \in [Call -> CallState]
BY DEF TypeOK, Goto

\* A request that logs in has found its credential stored, where it stays.
LoginsFound ==
  \A c \in Call : call[c].step \in LoggingInStep =>
    publicKeyCredential[call[c].assertion.credential] # Absent

LEMMA Typing ==
  ASSUME TypeOK, LoginsFound, [Next]_vars
  PROVE  TypeOK'
<1> USE PasskeyAssumption DEF challenges, devices
<1>1. CASE UNCHANGED vars
  BY <1>1 DEF TypeOK, vars
<1>2. ASSUME NEW h \in Challenge, LoginOptions(h)
      PROVE  TypeOK'
  BY <1>2 DEF TypeOK, LoginOptions
<1>3. ASSUME NEW h \in Challenge, Expire(h)
      PROVE  TypeOK'
  BY <1>3 DEF TypeOK, Expire
<1>4. ASSUME NEW h \in Challenge, NEW u \in User, RegisterOptions(h, u)
      PROVE  TypeOK'
  BY <1>4 DEF TypeOK, RegisterOptions
<1>5. ASSUME NEW h \in Challenge, NEW k \in Credential, MakeCredential(k, h)
      PROVE  TypeOK'
  <2>1. registrationIssuance[h] \in User
    BY <1>5 DEF TypeOK, MakeCredential
  <2> QED
    BY <1>5, <2>1 DEF TypeOK, MakeCredential, Made
<1>6. ASSUME NEW h \in Challenge, NEW k \in Credential, Sign(k, h)
      PROVE  TypeOK'
  <2>1. authenticator[k] \in Made
    BY <1>6 DEF TypeOK, Sign
  <2>2. PICK count \in {authenticator[k].signatureCount + 1} \union
                         ({0} \intersect {authenticator[k].signatureCount}) :
          /\ authenticator' = [authenticator EXCEPT ![k].signatureCount = count]
          /\ assertion' = assertion \union
               {[credential |-> k, challenge |-> h,
                 userHandle |-> authenticator[k].userHandle, signatureCount |-> count]}
    BY <1>6, Zenon DEF Sign
  <2> count \in Nat
    BY <2>1 DEF Made
  <2>3. authenticator' \in [Credential -> Made \union {Absent}]
    BY <2>1, <2>2 DEF TypeOK, Made
  <2>4. assertion' \in SUBSET Assertion
    BY <2>1, <2>2 DEF TypeOK, Made, Assertion
  <2> QED
    BY <1>6, <2>3, <2>4 DEF TypeOK, Sign
<1>7. ASSUME NEW c \in Call, NEW a \in assertion, GetPublicKeyCredential(c, a)
      PROVE  TypeOK'
  <2>1. publicKeyCredential[a.credential] \in CredentialRow /\ a \in Assertion
    BY <1>7 DEF TypeOK, GetPublicKeyCredential, Assertion
  <2>2. call' \in [Call -> CallState]
    BY <1>7, <2>1, GotoGets DEF GetPublicKeyCredential, CallState, LoggingIn, CredentialRow
  <2> QED
    BY <1>7, <2>2 DEF TypeOK, GetPublicKeyCredential
<1>8. ASSUME NEW c \in Call, DeletePublicKeyAuthenticationRequest(c)
      PROVE  TypeOK'
  <2>1. call[c] \in LoggingIn
    BY <1>8, CallFields DEF DeletePublicKeyAuthenticationRequest, LoggingInStep
  <2>2. Idle \in CallState /\ [call[c] EXCEPT !.step = "update"] \in CallState
    BY <2>1 DEF CallState, LoggingIn
  <2>3. call' \in [Call -> CallState]
    BY <1>8, <2>2, GotoGets DEF DeletePublicKeyAuthenticationRequest
  <2>4. spent' \in SUBSET Challenge
    BY <1>8, <2>1 DEF TypeOK, DeletePublicKeyAuthenticationRequest, Delete, LoggingIn, Assertion
  <2> QED
    BY <1>8, <2>3, <2>4 DEF TypeOK, DeletePublicKeyAuthenticationRequest
<1>9. ASSUME NEW c \in Call, UpdatePublicKeyCredential(c)
      PROVE  TypeOK'
  <2>1. call[c] \in LoggingIn
    BY <1>9, CallFields DEF UpdatePublicKeyCredential, LoggingInStep
  <2>2. call' \in [Call -> CallState]
    BY <1>9, <2>1, GotoGets DEF UpdatePublicKeyCredential, CallState, LoggingIn
  <2>3. publicKeyCredential[call[c].assertion.credential] \in CredentialRow
    BY <1>9, <2>1
    DEF TypeOK, LoginsFound, UpdatePublicKeyCredential, LoggingInStep, LoggingIn, Assertion
  <2> QED
    BY <1>9, <2>1, <2>2, <2>3
    DEF TypeOK, UpdatePublicKeyCredential, UpdatedCount, LoggingIn, Assertion, CredentialRow
<1>10. ASSUME NEW c \in Call, HandleSuccessfulAuthentication(c)
       PROVE  TypeOK'
  <2>1. call[c] \in LoggingIn
    BY <1>10, CallFields DEF HandleSuccessfulAuthentication, LoggingInStep
  <2>2. call' \in [Call -> CallState]
    BY <1>10, <2>1, GotoGets DEF HandleSuccessfulAuthentication, CallState
  <2> QED
    BY <1>10, <2>1, <2>2 DEF TypeOK, HandleSuccessfulAuthentication, LoggingIn, Assertion
<1>11. ASSUME NEW c \in Call, NEW k \in Credential, DeleteRegistrationIssuance(c, k)
       PROVE  TypeOK'
  <2>1. /\ authenticator[k] \in Made
        /\ registrationIssuance[authenticator[k].challenge] \in User
    BY <1>11 DEF TypeOK, DeleteRegistrationIssuance, Found, Made
  <2>2. call' \in [Call -> CallState]
    BY <1>11, <2>1, GotoGets DEF DeleteRegistrationIssuance, FirstStored, CallState, Registering
  <2> QED
    BY <1>11, <2>1, <2>2 DEF TypeOK, DeleteRegistrationIssuance, Delete, Made
<1>12. ASSUME NEW c \in Call, AddUser(c)
       PROVE  TypeOK'
  <2>1. call[c] \in Registering
    BY <1>12, CallFields DEF AddUser, RegisteringStep
  <2>2. call' \in [Call -> CallState]
    BY <1>12, <2>1, GotoGets DEF AddUser, CallState, Registering
  <2> QED
    BY <1>12, <2>1, <2>2 DEF TypeOK, AddUser, Registering
<1>13. ASSUME NEW c \in Call, AddPublicKeyCredential(c)
       PROVE  TypeOK'
  <2>1. call[c] \in Registering
    BY <1>13, CallFields DEF AddPublicKeyCredential, RegisteringStep
  <2>2. call' \in [Call -> CallState]
    BY <1>13, <2>1, GotoGets DEF AddPublicKeyCredential, CallState
  <2> QED
    BY <1>13, <2>1, <2>2 DEF TypeOK, AddPublicKeyCredential, Registering, CredentialRow
<1>14. ASSUME NEW c \in Call, Abandon(c)
       PROVE  TypeOK'
  <2>1. call' \in [Call -> CallState]
    BY <1>14, GotoGets DEF Abandon, CallState
  <2> QED
    BY <1>14, <2>1 DEF TypeOK, Abandon
<1> QED
  BY <1>1, <1>2, <1>3, <1>4, <1>5, <1>6, <1>7, <1>8, <1>9, <1>10, <1>11, <1>12, <1>13,
     <1>14 DEF Next

\* Credentials stay stored.
LEMMA StoredStays ==
  ASSUME TypeOK, [Next]_vars
  PROVE  \A k \in Credential : publicKeyCredential[k] # Absent => publicKeyCredential'[k] # Absent
<1>1. ASSUME NEW c \in Call, AddPublicKeyCredential(c)
      PROVE  \A k \in Credential :
               publicKeyCredential[k] # Absent => publicKeyCredential'[k] # Absent
  <2>1. call[c] \in Registering
    BY <1>1, CallFields DEF AddPublicKeyCredential, RegisteringStep
  <2>2. [user |-> call[c].user, signatureCount |-> 0] \in CredentialRow
    BY <2>1 DEF Registering, CredentialRow
  <2> QED
    BY <1>1, <2>2, AbsentAssumption DEF AddPublicKeyCredential, TypeOK
<1>2. ASSUME NEW c \in Call, UpdatePublicKeyCredential(c)
      PROVE  \A k \in Credential :
               publicKeyCredential[k] # Absent => publicKeyCredential'[k] # Absent
  <2> SUFFICES ASSUME NEW k \in Credential, publicKeyCredential[k] # Absent
               PROVE  publicKeyCredential'[k] # Absent
    OBVIOUS
  <2>1. call[c] \in LoggingIn /\ publicKeyCredential[k] \in CredentialRow
    BY <1>2, CallFields DEF UpdatePublicKeyCredential, LoggingInStep, TypeOK
  <2>2. [publicKeyCredential[k] EXCEPT !.signatureCount = UpdatedCount(c)] \in CredentialRow
    BY <2>1 DEF UpdatedCount, LoggingIn, CredentialRow
  <2> QED
    BY <1>2, <2>1, <2>2, AbsentAssumption DEF UpdatePublicKeyCredential, TypeOK
<1>3. CASE UNCHANGED publicKeyCredential
  BY <1>3
<1> QED
  BY <1>1, <1>2, <1>3
  DEF Next, vars, challenges, devices, LoginOptions, Expire, RegisterOptions, MakeCredential, Sign,
      GetPublicKeyCredential, DeletePublicKeyAuthenticationRequest,
      HandleSuccessfulAuthentication, DeleteRegistrationIssuance, AddUser, Abandon

\* A request logs in with the assertion it began with.
LoginBegins(c) ==
  \E a \in assertion :
    /\ call'[c].assertion = a
    /\ publicKeyCredential[a.credential] # Absent
    /\ call'[c].step = "delete"
LoginGoesOn(c) ==
  /\ call[c].step \in LoggingInStep
  /\ call'[c].assertion = call[c].assertion

LEMMA Logins ==
  ASSUME TypeOK, [Next]_vars, NEW c \in Call, call'[c].step \in LoggingInStep
  PROVE  LoginBegins(c) \/ LoginGoesOn(c)
<1> USE DEF LoginGoesOn
<1>1. CASE UNCHANGED call
  BY <1>1
<1>2. ASSUME NEW d \in Call, NEW a \in assertion, GetPublicKeyCredential(d, a)
      PROVE  LoginBegins(c) \/ LoginGoesOn(c)
  BY <1>2, GotoGets DEF GetPublicKeyCredential, LoginBegins
<1>3. ASSUME NEW d \in Call, NEW k \in Credential, DeleteRegistrationIssuance(d, k)
      PROVE  LoginBegins(c) \/ LoginGoesOn(c)
  <2> DEFINE begun == [step |-> "add user", credential |-> k,
                       user |-> registrationIssuance[authenticator[k].challenge]]
  <2>1. Goto(d, begun) /\ begun.step = "add user"
    BY <1>3 DEF DeleteRegistrationIssuance, FirstStored
  <2> HIDE DEF begun
  <2>2. call'[d].step = "add user"
    BY <2>1, GotoGets
  <2>3. c # d /\ call'[c] = call[c]
    BY <2>1, <2>2, GotoGets DEF LoggingInStep
  <2> QED
    BY <2>3
<1>4. ASSUME NEW d \in Call,
             \/ DeletePublicKeyAuthenticationRequest(d) \/ UpdatePublicKeyCredential(d)
             \/ HandleSuccessfulAuthentication(d)
      PROVE  LoginBegins(c) \/ LoginGoesOn(c)
  <2>1. call[d] \in LoggingIn
    BY <1>4, CallFields
    DEF DeletePublicKeyAuthenticationRequest, UpdatePublicKeyCredential,
        HandleSuccessfulAuthentication, LoggingInStep
  <2>2. /\ [call[d] EXCEPT !.step = "update"].assertion = call[d].assertion
        /\ [call[d] EXCEPT !.step = "authenticate"].assertion = call[d].assertion
        /\ call[d].step \in LoggingInStep
        /\ Idle.step \notin LoggingInStep
    BY <2>1 DEF LoggingIn, Idle, LoggingInStep
  <2> QED
    BY <1>4, <2>2, GotoGets
    DEF DeletePublicKeyAuthenticationRequest, UpdatePublicKeyCredential,
        HandleSuccessfulAuthentication
<1>5. ASSUME NEW d \in Call, AddUser(d) \/ AddPublicKeyCredential(d) \/ Abandon(d)
      PROVE  LoginBegins(c) \/ LoginGoesOn(c)
  <2>1. PICK state : Goto(d, state) /\ state.step \notin LoggingInStep
    <3>1. CASE AddUser(d)
      <4> DEFINE goesOn == [call[d] EXCEPT !.step = "add credential"]
      <4>1. goesOn.step = "add credential"
        BY <3>1, CallFields DEF AddUser, RegisteringStep, Registering
      <4>2. Goto(d, goesOn)
        BY <3>1 DEF AddUser
      <4> HIDE DEF goesOn
      <4> QED
        BY <4>1, <4>2 DEF LoggingInStep
    <3>2. CASE AddPublicKeyCredential(d) \/ Abandon(d)
      <4>1. Idle.step \notin LoggingInStep
        BY DEF Idle, LoggingInStep
      <4> QED
        BY <3>2, <4>1 DEF AddPublicKeyCredential, Abandon
    <3> QED
      BY <1>5, <3>1, <3>2
  <2>2. c # d /\ call'[c] = call[c]
    BY <2>1, GotoGets
  <2> QED
    BY <2>2
<1> QED
  BY <1>1, <1>2, <1>3, <1>4, <1>5
  DEF Next, vars, LoginOptions, Expire, RegisterOptions, MakeCredential, Sign

LEMMA FindingLogins ==
  ASSUME TypeOK, TypeOK', LoginsFound, [Next]_vars
  PROVE  LoginsFound'
<1> SUFFICES ASSUME NEW c \in Call, call'[c].step \in LoggingInStep
             PROVE  publicKeyCredential'[call'[c].assertion.credential] # Absent
  BY DEF LoginsFound
<1>1. CASE LoginBegins(c)
  BY <1>1, StoredStays DEF LoginBegins, TypeOK, Assertion
<1>2. CASE LoginGoesOn(c)
  <2>1. call[c].assertion.credential \in Credential
    BY <1>2, CallFields DEF LoginGoesOn, LoggingIn, Assertion
  <2> QED
    BY <1>2, <2>1, StoredStays DEF LoginGoesOn, LoginsFound
<1> QED
  BY <1>1, <1>2, Logins

Typed == TypeOK /\ LoginsFound

LEMMA AlwaysTyped == Spec => []Typed
<1>1. Init => Typed
  BY DEF Init, Typed, TypeOK, CallState, LoginsFound, Idle, LoggingInStep
<1>2. Typed /\ [Next]_vars => Typed'
  BY Typing, FindingLogins DEF Typed
<1> QED
  BY <1>1, <1>2, PTL DEF Spec

\* Every store, device and request keeps its type.
THEOREM TypeCorrect == Spec => []TypeOK
BY AlwaysTyped, PTL DEF Typed

-----------------------------------------------------------------------------
\* Challenges that sign someone in.

\* A request comes to redeem a challenge by having it deleted, unexpired.
RedeemBegins(c, h) ==
  /\ h \notin spent /\ h \notin expired
  /\ spent' = spent \union {h}
  /\ opened' = opened
  /\ \A d \in Call : d # c => call'[d] = call[d]

LEMMA Redeemers ==
  ASSUME TypeOK, [Next]_vars, NEW c \in Call, NEW h \in Challenge, Redeems(call'[c], h)
  PROVE  Redeems(call[c], h) \/ RedeemBegins(c, h)
<1> USE DEF Redeems
<1>1. CASE UNCHANGED call
  BY <1>1
<1>2. ASSUME NEW d \in Call, NEW state, Goto(d, state),
             state.step \notin {"update", "authenticate"}
      PROVE  Redeems(call[c], h)
  <2>1. c # d /\ call'[c] = call[c]
    BY <1>2, GotoGets
  <2> QED
    BY <2>1
<1>3. ASSUME NEW d \in Call, NEW a \in assertion, GetPublicKeyCredential(d, a)
      PROVE  Redeems(call[c], h)
  <2> DEFINE begun == [step |-> "delete", assertion |-> a,
                       signatureCount |-> publicKeyCredential[a.credential].signatureCount]
  <2>1. Goto(d, begun) /\ begun.step = "delete"
    BY <1>3 DEF GetPublicKeyCredential
  <2> HIDE DEF begun
  <2> QED
    BY <1>2, <2>1
<1>4. ASSUME NEW d \in Call, NEW k \in Credential, DeleteRegistrationIssuance(d, k)
      PROVE  Redeems(call[c], h)
  <2> DEFINE begun == [step |-> "add user", credential |-> k,
                       user |-> registrationIssuance[authenticator[k].challenge]]
  <2>1. Goto(d, begun) /\ begun.step = "add user"
    BY <1>4 DEF DeleteRegistrationIssuance, FirstStored
  <2> HIDE DEF begun
  <2> QED
    BY <1>2, <2>1
<1>5. ASSUME NEW d \in Call, AddUser(d)
      PROVE  Redeems(call[c], h)
  <2> DEFINE goesOn == [call[d] EXCEPT !.step = "add credential"]
  <2>1. Goto(d, goesOn) /\ goesOn.step = "add credential"
    BY <1>5, CallFields DEF AddUser, RegisteringStep, Registering
  <2> HIDE DEF goesOn
  <2> QED
    BY <1>2, <2>1
<1>6. ASSUME NEW d \in Call,
             HandleSuccessfulAuthentication(d) \/ AddPublicKeyCredential(d) \/ Abandon(d)
      PROVE  Redeems(call[c], h)
  <2>1. Goto(d, Idle) /\ Idle.step \notin {"update", "authenticate"}
    BY <1>6 DEF HandleSuccessfulAuthentication, AddPublicKeyCredential, Abandon, Idle
  <2> QED
    BY <1>2, <2>1
<1>7. ASSUME NEW d \in Call, UpdatePublicKeyCredential(d)
      PROVE  Redeems(call[c], h)
  <2> DEFINE goesOn == [call[d] EXCEPT !.step = "authenticate"]
  <2>1. Goto(d, goesOn) /\ goesOn.assertion = call[d].assertion /\ call[d].step = "update"
    BY <1>7, CallFields DEF UpdatePublicKeyCredential, LoggingInStep, LoggingIn
  <2> HIDE DEF goesOn
  <2>2. CASE c = d
    BY <2>1, <2>2, GotoGets
  <2>3. CASE c # d
    BY <2>1, <2>3, GotoGets
  <2> QED
    BY <2>2, <2>3
<1>8. ASSUME NEW d \in Call, DeletePublicKeyAuthenticationRequest(d)
      PROVE  Redeems(call[c], h) \/ RedeemBegins(c, h)
  <2>1. CASE Goto(d, Idle)
    <3>1. Idle.step \notin {"update", "authenticate"}
      BY DEF Idle
    <3> QED
      BY <1>2, <2>1, <3>1
  <2>2. CASE ~Goto(d, Idle)
    <3> DEFINE goesOn == [call[d] EXCEPT !.step = "update"]
    <3>1. /\ Goto(d, goesOn)
          /\ Found(call[d].assertion.challenge, authenticationRequest)
          /\ Delete(call[d].assertion.challenge)
          /\ opened' = opened
      BY <1>8, <2>2 DEF DeletePublicKeyAuthenticationRequest
    <3>2. goesOn.assertion = call[d].assertion
      BY <1>8, CallFields DEF DeletePublicKeyAuthenticationRequest, LoggingInStep, LoggingIn
    <3> HIDE DEF goesOn
    <3>3. CASE c = d
      <4>1. call[d].assertion.challenge = h
        BY <3>1, <3>2, <3>3, GotoGets
      <4> QED
        BY <3>1, <3>3, <4>1, GotoGets DEF RedeemBegins, Found, Delete
    <3>4. CASE c # d
      BY <3>1, <3>4, GotoGets
    <3> QED
      BY <3>3, <3>4
  <2> QED
    BY <2>1, <2>2
<1> QED
  BY <1>1, <1>3, <1>4, <1>5, <1>6, <1>7, <1>8
  DEF Next, vars, LoginOptions, Expire, RegisterOptions, MakeCredential, Sign

LEMMA SpentStays ==
  ASSUME [Next]_vars
  PROVE  spent \subseteq spent'
BY DEF Next, vars, challenges, LoginOptions, Expire, RegisterOptions, MakeCredential, Sign,
       GetPublicKeyCredential, DeletePublicKeyAuthenticationRequest, Delete,
       UpdatePublicKeyCredential, HandleSuccessfulAuthentication, DeleteRegistrationIssuance,
       AddUser, AddPublicKeyCredential, Abandon

\* Only a request that redeems a challenge opens a session with it, and is over then.
Opens(c, h) ==
  /\ Redeems(call[c], h)
  /\ opened'[h] = opened[h] + 1
  /\ \A g \in Challenge : ~Redeems(call'[c], g)

LEMMA Openers ==
  ASSUME TypeOK, [Next]_vars, NEW h \in Challenge, opened'[h] # opened[h]
  PROVE  \E c \in Call : Opens(c, h)
<1>1. PICK c \in Call : HandleSuccessfulAuthentication(c)
  BY DEF Next, vars, LoginOptions, Expire, RegisterOptions, MakeCredential, Sign,
         GetPublicKeyCredential, DeletePublicKeyAuthenticationRequest,
         UpdatePublicKeyCredential, DeleteRegistrationIssuance, AddUser,
         AddPublicKeyCredential, Abandon
<1>2. call[c].assertion.challenge = h /\ opened'[h] = opened[h] + 1
  BY <1>1 DEF HandleSuccessfulAuthentication, TypeOK
<1>3. call'[c].step \notin {"update", "authenticate"}
  BY <1>1, GotoGets DEF HandleSuccessfulAuthentication, Idle
<1> QED
  BY <1>1, <1>2, <1>3 DEF Opens, Redeems, HandleSuccessfulAuthentication

\* A challenge that someone redeems is spent, and nobody else redeems it or did.
Redeemed ==
  /\ \A c \in Call, h \in Challenge : Redeems(call[c], h) => h \in spent /\ opened[h] = 0
  /\ \A c, d \in Call, h \in Challenge : Redeems(call[c], h) /\ Redeems(call[d], h) => c = d
  /\ \A h \in Challenge : opened[h] <= 1 /\ (opened[h] # 0 => h \in spent)

LEMMA RedeemedStep ==
  ASSUME Typed, Redeemed, [Next]_vars
  PROVE  Redeemed'
<1> TypeOK
  BY DEF Typed
<1>1. ASSUME NEW c \in Call, NEW h \in Challenge, Redeems(call'[c], h)
      PROVE  h \in spent' /\ opened'[h] = 0
  <2>1. CASE Redeems(call[c], h)
    <3>1. opened'[h] = opened[h]
      <4> SUFFICES ASSUME opened'[h] # opened[h] PROVE FALSE
        OBVIOUS
      <4>1. PICK d \in Call : Opens(d, h)
        BY Openers
      <4> QED
        BY <1>1, <2>1, <4>1 DEF Opens, Redeemed
    <3> QED
      BY <2>1, <3>1, SpentStays DEF Redeemed
  <2>2. CASE RedeemBegins(c, h)
    BY <2>2 DEF RedeemBegins, Redeemed
  <2> QED
    BY <1>1, <2>1, <2>2, Redeemers
<1>2. ASSUME NEW c \in Call, NEW d \in Call, NEW h \in Challenge,
             Redeems(call'[c], h), Redeems(call'[d], h)
      PROVE  c = d
  <2>1. CASE Redeems(call[c], h) /\ Redeems(call[d], h)
    BY <2>1 DEF Redeemed
  <2>2. CASE RedeemBegins(c, h)
    BY <1>2, <2>2 DEF RedeemBegins, Redeemed
  <2>3. CASE RedeemBegins(d, h)
    BY <1>2, <2>3 DEF RedeemBegins, Redeemed
  <2> QED
    BY <1>2, <2>1, <2>2, <2>3, Redeemers
<1>3. ASSUME NEW h \in Challenge
      PROVE  opened'[h] <= 1 /\ (opened'[h] # 0 => h \in spent')
  <2>1. CASE opened'[h] = opened[h]
    BY <2>1, SpentStays DEF Redeemed
  <2>2. CASE opened'[h] # opened[h]
    <3>1. PICK c \in Call : Opens(c, h)
      BY <2>2, Openers
    <3> QED
      BY <3>1, SpentStays DEF Opens, Redeemed
  <2> QED
    BY <2>1, <2>2
<1> QED
  BY <1>1, <1>2, <1>3 DEF Redeemed

LEMMA AlwaysRedeemed == Spec => []Redeemed
<1>1. Init => Redeemed
  BY DEF Init, Redeemed, Redeems, Idle
<1>2. Typed /\ Redeemed /\ [Next]_vars => Redeemed'
  BY RedeemedStep
<1> QED
  BY <1>1, <1>2, AlwaysTyped, PTL DEF Spec

\* However many requests present what was signed for it, at once or one after the
\* other, a challenge opens one session.
THEOREM OneSession == Spec => []ChallengeOpensOneSession
<1>1. Redeemed => ChallengeOpensOneSession
  BY DEF Redeemed, ChallengeOpensOneSession
<1> QED
  BY <1>1, AlwaysRedeemed, PTL

\* A challenge that ran out signs nobody in, unless a request had deleted it before.
THEOREM ExpiryFinal == Spec => ExpiredChallengeIsOver
<1> DEFINE Over(h) ==
      (\A c \in Call : ~Redeems(call[c], h)) =>
        opened'[h] = opened[h] /\ \A c \in Call : ~Redeems(call'[c], h)
<1>1. ASSUME TypeOK, [Next]_vars, NEW h \in expired
      PROVE  Over(h)
  <2> SUFFICES ASSUME \A c \in Call : ~Redeems(call[c], h)
               PROVE  opened'[h] = opened[h] /\ \A c \in Call : ~Redeems(call'[c], h)
    OBVIOUS
  <2>1. h \in Challenge
    BY <1>1 DEF TypeOK
  <2>2. opened'[h] = opened[h]
    BY <1>1, <2>1, Openers DEF Opens
  <2>3. \A c \in Call : ~Redeems(call'[c], h)
    BY <1>1, <2>1, Redeemers DEF RedeemBegins
  <2> QED
    BY <2>2, <2>3
<1>2. TypeOK /\ [Next]_vars => [\A h \in expired : Over(h)]_vars
  BY <1>1
<1> QED
  BY <1>2, TypeCorrect, PTL DEF Spec, ExpiredChallengeIsOver

-----------------------------------------------------------------------------
\* What was issued, made, added and signed stays.

LEMMA IssuancesStay ==
  ASSUME TypeOK, [Next]_vars
  PROVE  /\ \A h \in Challenge : registrationIssuance[h] # Absent =>
              registrationIssuance'[h] = registrationIssuance[h]
         /\ user \subseteq user'
<1>1. CASE UNCHANGED registrationIssuance
  BY <1>1
  DEF Next, vars, LoginOptions, Expire, RegisterOptions, MakeCredential, Sign,
      GetPublicKeyCredential, DeletePublicKeyAuthenticationRequest, UpdatePublicKeyCredential,
      HandleSuccessfulAuthentication, DeleteRegistrationIssuance, AddUser,
      AddPublicKeyCredential, Abandon
<1>2. ASSUME NEW h \in Challenge, NEW u \in User, RegisterOptions(h, u)
      PROVE  /\ \A g \in Challenge : registrationIssuance[g] # Absent =>
                  registrationIssuance'[g] = registrationIssuance[g]
             /\ user \subseteq user'
  BY <1>2 DEF RegisterOptions, Unused, TypeOK
<1> QED
  BY <1>1, <1>2
  DEF Next, vars, challenges, LoginOptions, Expire, MakeCredential, Sign,
      GetPublicKeyCredential, DeletePublicKeyAuthenticationRequest, UpdatePublicKeyCredential,
      HandleSuccessfulAuthentication, DeleteRegistrationIssuance, AddUser,
      AddPublicKeyCredential, Abandon

\* A device keeps what it made, or has made it for an issuance.
SameDevice(k) ==
  /\ authenticator[k] # Absent
  /\ authenticator'[k] # Absent
  /\ authenticator'[k].challenge = authenticator[k].challenge
  /\ authenticator'[k].userHandle = authenticator[k].userHandle
MadeNow(k) ==
  /\ authenticator[k] = Absent
  /\ registrationIssuance[authenticator'[k].challenge] = authenticator'[k].userHandle
  /\ registrationIssuance[authenticator'[k].challenge] # Absent

DeviceKeeps(k) ==
  /\ authenticator[k] # Absent => SameDevice(k)
  /\ authenticator'[k] # Absent => SameDevice(k) \/ MadeNow(k)

LEMMA Devices ==
  ASSUME TypeOK, [Next]_vars, NEW k \in Credential
  PROVE  DeviceKeeps(k)
<1> USE DEF DeviceKeeps
<1>1. CASE UNCHANGED authenticator
  BY <1>1 DEF SameDevice
<1>2. ASSUME NEW h \in Challenge, NEW l \in Credential, MakeCredential(l, h)
      PROVE  DeviceKeeps(k)
  <2> DEFINE row == [userHandle |-> registrationIssuance[h], challenge |-> h,
                     signatureCount |-> 0]
  <2>1. authenticator' = [authenticator EXCEPT ![l] = row] /\ authenticator[l] = Absent
    BY <1>2 DEF MakeCredential
  <2>2. row.challenge = h /\ row.userHandle = registrationIssuance[h]
    OBVIOUS
  <2> HIDE DEF row
  <2>3. CASE k = l
    BY <1>2, <2>1, <2>2, <2>3 DEF MakeCredential, MadeNow, TypeOK
  <2>4. CASE k # l
    BY <2>1, <2>4 DEF SameDevice, TypeOK
  <2> QED
    BY <2>3, <2>4
<1>3. ASSUME NEW h \in Challenge, NEW l \in Credential, Sign(l, h)
      PROVE  DeviceKeeps(k)
  <2>1. authenticator[l] \in Made
    BY <1>3 DEF TypeOK, Sign
  <2>2. PICK count \in {authenticator[l].signatureCount + 1} \union
                         ({0} \intersect {authenticator[l].signatureCount}) :
          authenticator' = [authenticator EXCEPT ![l].signatureCount = count]
    BY <1>3, Zenon DEF Sign
  <2>3. count \in Nat
    BY <2>1 DEF Made
  <2> DEFINE row == [authenticator[l] EXCEPT !.signatureCount = count]
  <2>4. authenticator' = [authenticator EXCEPT ![l] = row]
    BY <2>2
  <2>5. /\ row \in Made
        /\ row.challenge = authenticator[l].challenge
        /\ row.userHandle = authenticator[l].userHandle
    BY <2>1, <2>3 DEF Made
  <2> HIDE DEF row
  <2>6. CASE k = l
    BY <2>1, <2>4, <2>5, <2>6, AbsentAssumption DEF SameDevice, TypeOK
  <2>7. CASE k # l
    BY <2>4, <2>7 DEF SameDevice, TypeOK
  <2> QED
    BY <2>6, <2>7
<1>4. \/ UNCHANGED authenticator
      \/ \E h \in Challenge, l \in Credential : MakeCredential(l, h) \/ Sign(l, h)
  BY DEF Next, vars, devices, LoginOptions, Expire, RegisterOptions, GetPublicKeyCredential,
      DeletePublicKeyAuthenticationRequest, UpdatePublicKeyCredential,
      HandleSuccessfulAuthentication, DeleteRegistrationIssuance, AddUser,
      AddPublicKeyCredential, Abandon
<1> HIDE DEF DeviceKeeps
<1> QED
  BY <1>1, <1>2, <1>3, <1>4

\* An assertion names the credential it was signed with and the handle that has.
OfDevice(a) ==
  authenticator[a.credential] # Absent /\ a.userHandle = authenticator[a.credential].userHandle

LEMMA Assertions ==
  ASSUME TypeOK, [Next]_vars
  PROVE  /\ assertion \subseteq assertion'
         /\ \A a \in assertion' : a \in assertion \/ OfDevice(a)
<1>1. CASE UNCHANGED assertion
  BY <1>1
<1>2. ASSUME NEW h \in Challenge, NEW k \in Credential, Sign(k, h)
      PROVE  /\ assertion \subseteq assertion'
             /\ \A a \in assertion' : a \in assertion \/ OfDevice(a)
  <2>1. PICK count :
          assertion' = assertion \union
            {[credential |-> k, challenge |-> h,
              userHandle |-> authenticator[k].userHandle, signatureCount |-> count]}
    BY <1>2, Zenon DEF Sign
  <2>2. authenticator[k] # Absent
    BY <1>2 DEF Sign
  <2> QED
    BY <2>1, <2>2 DEF OfDevice
<1> QED
  BY <1>1, <1>2
  DEF Next, vars, devices, LoginOptions, Expire, RegisterOptions, MakeCredential,
      GetPublicKeyCredential, DeletePublicKeyAuthenticationRequest, UpdatePublicKeyCredential,
      HandleSuccessfulAuthentication, DeleteRegistrationIssuance, AddUser,
      AddPublicKeyCredential, Abandon

\* Who is signed in presented an assertion of a credential that is stored.
LEMMA Sessions ==
  ASSUME TypeOK, [Next]_vars, NEW a \in session', a \notin session
  PROVE  \E c \in Call : call[c].step \in LoggingInStep /\ call[c].assertion = a
<1>1. PICK c \in Call : HandleSuccessfulAuthentication(c)
  BY DEF Next, vars, LoginOptions, Expire, RegisterOptions, MakeCredential, Sign,
         GetPublicKeyCredential, DeletePublicKeyAuthenticationRequest,
         UpdatePublicKeyCredential, DeleteRegistrationIssuance, AddUser,
         AddPublicKeyCredential, Abandon
<1> QED
  BY <1>1 DEF HandleSuccessfulAuthentication, LoggingInStep

\* A request registers a credential from the deletion of its challenge until it is stored.
Registers(state) == state.step \in RegisteringStep
ChallengeOf(k) == authenticator[k].challenge

RegistrationBegins(c) ==
  LET k == call'[c].credential IN
  /\ k \in Credential
  /\ authenticator[k] # Absent
  /\ ChallengeOf(k) \in Challenge \ spent
  /\ spent' = spent \union {ChallengeOf(k)}
  /\ call'[c].step = "add user"
  /\ call'[c].user = registrationIssuance[ChallengeOf(k)]
  /\ \A d \in Call : d # c => call'[d] = call[d]
  /\ UNCHANGED <<authenticator, publicKeyCredential>>
RegistrationGoesOn(c) ==
  /\ Registers(call[c])
  /\ call'[c].credential = call[c].credential
  /\ call'[c].user = call[c].user
  /\ call'[c].step = "add credential" => call[c].step = "add credential" \/ call[c].user \in user'

LEMMA Registrants ==
  ASSUME TypeOK, [Next]_vars, NEW c \in Call, Registers(call'[c])
  PROVE  RegistrationBegins(c) \/ RegistrationGoesOn(c)
<1> USE DEF Registers
<1>1. CASE UNCHANGED call
  BY <1>1 DEF RegistrationGoesOn
<1>2. ASSUME NEW d \in Call, NEW state, Goto(d, state), state.step \notin RegisteringStep
      PROVE  RegistrationGoesOn(c)
  <2>1. c # d /\ call'[c] = call[c]
    BY <1>2, GotoGets
  <2> QED
    BY <2>1 DEF RegistrationGoesOn
<1>3. ASSUME NEW d \in Call, NEW a \in assertion, GetPublicKeyCredential(d, a)
      PROVE  RegistrationGoesOn(c)
  <2> DEFINE begun == [step |-> "delete", assertion |-> a,
                       signatureCount |-> publicKeyCredential[a.credential].signatureCount]
  <2>1. Goto(d, begun) /\ begun.step \notin RegisteringStep
    BY <1>3 DEF GetPublicKeyCredential, RegisteringStep
  <2> HIDE DEF begun
  <2> QED
    BY <1>2, <2>1
<1>4. Idle.step \notin RegisteringStep
  BY DEF Idle, RegisteringStep
<1>5. ASSUME NEW d \in Call,
             \/ DeletePublicKeyAuthenticationRequest(d) \/ UpdatePublicKeyCredential(d)
             \/ HandleSuccessfulAuthentication(d)
      PROVE  RegistrationGoesOn(c)
  <2> DEFINE updates == [call[d] EXCEPT !.step = "update"]
             authenticates == [call[d] EXCEPT !.step = "authenticate"]
  <2>1. Goto(d, updates) \/ Goto(d, authenticates) \/ Goto(d, Idle)
    BY <1>5
    DEF DeletePublicKeyAuthenticationRequest, UpdatePublicKeyCredential,
        HandleSuccessfulAuthentication
  <2>2. call[d] \in LoggingIn
    BY <1>5, CallFields
    DEF DeletePublicKeyAuthenticationRequest, UpdatePublicKeyCredential,
        HandleSuccessfulAuthentication, LoggingInStep
  <2>3. updates.step \notin RegisteringStep /\ authenticates.step \notin RegisteringStep
    BY <2>2 DEF LoggingIn, RegisteringStep
  <2> HIDE DEF updates, authenticates
  <2> QED
    BY <1>2, <1>4, <2>1, <2>3
<1>6. ASSUME NEW d \in Call, AddPublicKeyCredential(d) \/ Abandon(d)
      PROVE  RegistrationGoesOn(c)
  <2>1. Goto(d, Idle)
    BY <1>6 DEF AddPublicKeyCredential, Abandon
  <2> QED
    BY <1>2, <1>4, <2>1
<1>7. ASSUME NEW d \in Call, AddUser(d)
      PROVE  RegistrationGoesOn(c)
  <2> DEFINE goesOn == [call[d] EXCEPT !.step = "add credential"]
  <2>1. /\ Goto(d, goesOn) /\ call[d].step = "add user" /\ user' = user \union {call[d].user}
        /\ goesOn.credential = call[d].credential /\ goesOn.user = call[d].user
    BY <1>7, CallFields DEF AddUser, RegisteringStep, Registering
  <2> HIDE DEF goesOn
  <2>2. CASE c = d
    BY <2>1, <2>2, GotoGets DEF RegistrationGoesOn, RegisteringStep
  <2>3. CASE c # d
    BY <2>1, <2>3, GotoGets DEF RegistrationGoesOn
  <2> QED
    BY <2>2, <2>3
<1>8. ASSUME NEW d \in Call, NEW k \in Credential, DeleteRegistrationIssuance(d, k)
      PROVE  RegistrationBegins(c) \/ RegistrationGoesOn(c)
  <2> DEFINE begun == [step |-> "add user", credential |-> k,
                       user |-> registrationIssuance[ChallengeOf(k)]]
  <2>1. /\ Goto(d, begun) /\ begun.step = "add user" /\ begun.credential = k
        /\ begun.user = registrationIssuance[ChallengeOf(k)]
        /\ spent' = spent \union {ChallengeOf(k)} /\ ChallengeOf(k) \notin spent
        /\ authenticator[k] # Absent
        /\ UNCHANGED <<authenticator, publicKeyCredential>>
    BY <1>8 DEF DeleteRegistrationIssuance, FirstStored, Found, Delete, ChallengeOf, devices
  <2> HIDE DEF begun
  <2>2. ChallengeOf(k) \in Challenge
    BY <2>1 DEF ChallengeOf, TypeOK, Made
  <2>3. CASE c = d
    BY <2>1, <2>2, <2>3, GotoGets DEF RegistrationBegins
  <2>4. CASE c # d
    BY <2>1, <2>4, GotoGets DEF RegistrationGoesOn
  <2> QED
    BY <2>3, <2>4
<1> QED
  BY <1>1, <1>3, <1>5, <1>6, <1>7, <1>8
  DEF Next, vars, LoginOptions, Expire, RegisterOptions, MakeCredential, Sign

\* A credential that is stored was so already, for the same user, or a request stores it.
StoredBefore(k) ==
  publicKeyCredential[k] # Absent /\ publicKeyCredential'[k].user = publicKeyCredential[k].user
StoresNow(c, k) ==
  /\ call[c].step = "add credential"
  /\ call[c].credential = k
  /\ publicKeyCredential'[k].user = call[c].user
  /\ ~Registers(call'[c])
  /\ \A l \in Credential : l # k => publicKeyCredential'[l] = publicKeyCredential[l]

LEMMA Stored ==
  ASSUME TypeOK, LoginsFound, [Next]_vars, NEW k \in Credential,
         publicKeyCredential'[k] # Absent
  PROVE  StoredBefore(k) \/ \E c \in Call : StoresNow(c, k)
<1>1. CASE UNCHANGED publicKeyCredential
  BY <1>1 DEF StoredBefore
<1>2. ASSUME NEW c \in Call, UpdatePublicKeyCredential(c)
      PROVE  StoredBefore(k) \/ \E d \in Call : StoresNow(d, k)
  <2> DEFINE l == call[c].assertion.credential
             row == [publicKeyCredential[l] EXCEPT !.signatureCount = UpdatedCount(c)]
  <2>1. publicKeyCredential' = [publicKeyCredential EXCEPT ![l] = row]
    BY <1>2 DEF UpdatePublicKeyCredential
  <2>2. CASE k # l
    <3> HIDE DEF row
    <3> QED
      BY <2>1, <2>2 DEF StoredBefore, TypeOK
  <2>3. CASE k = l /\ publicKeyCredential[k] \in CredentialRow
    <3>1. row.user = publicKeyCredential[k].user
      BY <2>3 DEF CredentialRow
    <3> HIDE DEF row
    <3> QED
      BY <2>1, <2>3, <3>1, AbsentAssumption DEF StoredBefore, TypeOK
  <2>4. k = l => publicKeyCredential[k] # Absent
    BY <1>2 DEF UpdatePublicKeyCredential, LoginsFound, LoggingInStep
  <2> QED
    BY <2>2, <2>3, <2>4 DEF TypeOK
<1>3. ASSUME NEW c \in Call, AddPublicKeyCredential(c)
      PROVE  StoredBefore(k) \/ \E d \in Call : StoresNow(d, k)
  <2> DEFINE row == [user |-> call[c].user, signatureCount |-> 0]
             l == call[c].credential
  <2>1. /\ publicKeyCredential' = [publicKeyCredential EXCEPT ![l] = row]
        /\ call[c].step = "add credential"
        /\ Goto(c, Idle)
        /\ row.user = call[c].user
    BY <1>3 DEF AddPublicKeyCredential
  <2> HIDE DEF row
  <2>2. ~Registers(call'[c])
    <3>1. ~Registers(Idle)
      BY DEF Registers, RegisteringStep, Idle
    <3>2. call'[c] = Idle
      BY <2>1, GotoGets
    <3> QED
      BY <3>1, <3>2
  <2>3. CASE k = l
    BY <2>1, <2>2, <2>3 DEF StoresNow, TypeOK
  <2>4. CASE k # l
    BY <2>1, <2>4 DEF StoredBefore, TypeOK
  <2> QED
    BY <2>3, <2>4
<1>4. \/ UNCHANGED publicKeyCredential
      \/ \E c \in Call : UpdatePublicKeyCredential(c) \/ AddPublicKeyCredential(c)
  BY DEF Next, vars, devices, LoginOptions, Expire, RegisterOptions, MakeCredential, Sign,
         GetPublicKeyCredential, DeletePublicKeyAuthenticationRequest,
         HandleSuccessfulAuthentication, DeleteRegistrationIssuance, AddUser, Abandon
<1> QED
  BY <1>1, <1>2, <1>3, <1>4

-----------------------------------------------------------------------------
\* Registrations.

DevicesIssued ==
  \A k \in Credential : authenticator[k] # Absent =>
    /\ registrationIssuance[ChallengeOf(k)] = authenticator[k].userHandle
    /\ registrationIssuance[ChallengeOf(k)] # Absent

\* What a request registers was made for a challenge that is spent, for its user.
Descends(k, u) ==
  /\ authenticator[k] # Absent
  /\ ChallengeOf(k) \in spent
  /\ u = authenticator[k].userHandle
RegistrantsDescend ==
  \A c \in Call : Registers(call[c]) =>
    /\ Descends(call[c].credential, call[c].user)
    /\ call[c].step = "add credential" => call[c].user \in user
StoredDescend ==
  \A k \in Credential : publicKeyCredential[k] # Absent =>
    /\ Descends(k, publicKeyCredential[k].user)
    /\ publicKeyCredential[k].user \in user

\* Of one challenge, one request registers a credential or one is stored.
SoleRegistrant ==
  \A c, d \in Call :
    /\ Registers(call[c]) /\ Registers(call[d])
    /\ ChallengeOf(call[c].credential) = ChallengeOf(call[d].credential)
    => c = d
RegistrantOrStored ==
  \A c \in Call, k \in Credential :
    Registers(call[c]) /\ publicKeyCredential[k] # Absent =>
      ChallengeOf(call[c].credential) # ChallengeOf(k)
SoleStored ==
  \A k, l \in Credential :
    /\ publicKeyCredential[k] # Absent /\ publicKeyCredential[l] # Absent
    /\ ChallengeOf(k) = ChallengeOf(l)
    => k = l

Registered ==
  /\ DevicesIssued /\ RegistrantsDescend /\ StoredDescend
  /\ SoleRegistrant /\ RegistrantOrStored /\ SoleStored

LEMMA RegistrantFields ==
  ASSUME TypeOK, NEW c \in Call, Registers(call[c])
  PROVE  call[c].credential \in Credential /\ call[c].user \in User
BY CallFields DEF Registers, Registering

LEMMA RegisteredStep ==
  ASSUME Typed, Registered, [Next]_vars
  PROVE  Registered'
<1> TypeOK /\ LoginsFound
  BY DEF Typed
<1> USE DEF Registered
<1>1. DevicesIssued'
  <2> SUFFICES ASSUME NEW k \in Credential, authenticator'[k] # Absent
               PROVE  /\ registrationIssuance'[authenticator'[k].challenge]
                           = authenticator'[k].userHandle
                      /\ registrationIssuance'[authenticator'[k].challenge] # Absent
    BY DEF DevicesIssued, ChallengeOf
  <2>1. authenticator'[k].challenge \in Challenge
    BY Typing DEF TypeOK, Made
  <2>2. CASE SameDevice(k)
    BY <2>1, <2>2, IssuancesStay DEF SameDevice, DevicesIssued, ChallengeOf
  <2>3. CASE MadeNow(k)
    BY <2>1, <2>3, IssuancesStay DEF MadeNow
  <2> QED
    BY <2>2, <2>3, Devices DEF DeviceKeeps
<1>2. RegistrantsDescend'
  <2> SUFFICES ASSUME NEW c \in Call, Registers(call'[c])
               PROVE  /\ authenticator'[call'[c].credential] # Absent
                      /\ authenticator'[call'[c].credential].challenge \in spent'
                      /\ call'[c].user = authenticator'[call'[c].credential].userHandle
                      /\ call'[c].step = "add credential" => call'[c].user \in user'
    BY DEF RegistrantsDescend, Registers, Descends, ChallengeOf
  <2>1. CASE RegistrationBegins(c)
    BY <2>1 DEF RegistrationBegins, ChallengeOf, DevicesIssued
  <2>2. CASE RegistrationGoesOn(c)
    <3> DEFINE k == call[c].credential
               u == call[c].user
    <3>1. /\ call'[c].credential = k /\ call'[c].user = u
          /\ k \in Credential /\ Descends(k, u)
          /\ call[c].step = "add credential" => u \in user
      BY <2>2, RegistrantFields DEF RegistrationGoesOn, RegistrantsDescend
    <3>2. SameDevice(k)
      BY <3>1, Devices DEF Descends, DeviceKeeps
    <3> QED
      BY <2>2, <3>1, <3>2, SpentStays, IssuancesStay
      DEF RegistrationGoesOn, Descends, ChallengeOf, SameDevice
  <2> QED
    BY <2>1, <2>2, Registrants
<1>3. StoredDescend'
  <2> SUFFICES ASSUME NEW k \in Credential, publicKeyCredential'[k] # Absent
               PROVE  /\ authenticator'[k] # Absent
                      /\ authenticator'[k].challenge \in spent'
                      /\ publicKeyCredential'[k].user = authenticator'[k].userHandle
                      /\ publicKeyCredential'[k].user \in user'
    BY DEF StoredDescend, Descends, ChallengeOf
  <2>1. PICK u : /\ publicKeyCredential'[k].user = u
                 /\ Descends(k, u) /\ u \in user
    <3>1. CASE StoredBefore(k)
      BY <3>1 DEF StoredBefore, StoredDescend
    <3>2. CASE \E c \in Call : StoresNow(c, k)
      BY <3>2 DEF StoresNow, RegistrantsDescend, Registers, RegisteringStep
    <3> QED
      BY <3>1, <3>2, Stored
  <2>2. SameDevice(k)
    BY <2>1, Devices DEF Descends, DeviceKeeps
  <2> QED
    BY <2>1, <2>2, SpentStays, IssuancesStay DEF Descends, ChallengeOf, SameDevice
<1>4. SoleRegistrant'
  <2> SUFFICES ASSUME NEW c \in Call, NEW d \in Call, Registers(call'[c]), Registers(call'[d]),
                      authenticator'[call'[c].credential].challenge
                        = authenticator'[call'[d].credential].challenge
               PROVE  c = d
    BY DEF SoleRegistrant, Registers, ChallengeOf
  <2>1. CASE RegistrationGoesOn(c) /\ RegistrationGoesOn(d)
    <3>1. ASSUME NEW e \in Call, RegistrationGoesOn(e)
          PROVE  authenticator'[call'[e].credential].challenge
                   = ChallengeOf(call[e].credential)
      <4>1. call'[e].credential = call[e].credential /\ call[e].credential \in Credential
        BY <3>1, RegistrantFields DEF RegistrationGoesOn
      <4>2. SameDevice(call[e].credential)
        BY <3>1, <4>1, Devices DEF RegistrationGoesOn, RegistrantsDescend, Descends, DeviceKeeps
      <4> QED
        BY <4>1, <4>2 DEF ChallengeOf, SameDevice
    <3> QED
      BY <2>1, <3>1 DEF SoleRegistrant, RegistrationGoesOn
  <2>2. ASSUME NEW e \in Call, RegistrationBegins(e), NEW f \in Call, f # e,
               Registers(call'[f])
        PROVE  authenticator'[call'[e].credential].challenge
                 # authenticator'[call'[f].credential].challenge
    <3>1. call'[f] = call[f] /\ Registers(call[f])
      BY <2>2 DEF RegistrationBegins
    <3>2. authenticator'[call'[f].credential].challenge \in spent
      BY <2>2, <3>1 DEF RegistrantsDescend, Descends, RegistrationBegins, ChallengeOf
    <3>3. authenticator'[call'[e].credential].challenge \notin spent
      BY <2>2 DEF RegistrationBegins, ChallengeOf
    <3> QED
      BY <3>2, <3>3
  <2> QED
    BY <2>1, <2>2, Registrants
<1>5. RegistrantOrStored'
  <2> SUFFICES ASSUME NEW c \in Call, NEW k \in Credential, Registers(call'[c]),
                      publicKeyCredential'[k] # Absent
               PROVE  authenticator'[call'[c].credential].challenge # authenticator'[k].challenge
    BY DEF RegistrantOrStored, Registers, ChallengeOf
  <2>1. CASE RegistrationBegins(c)
    <3>1. publicKeyCredential[k] # Absent
      BY <2>1 DEF RegistrationBegins
    <3> QED
      BY <2>1, <3>1 DEF RegistrationBegins, StoredDescend, Descends, ChallengeOf
  <2>2. CASE RegistrationGoesOn(c)
    <3> DEFINE l == call[c].credential
    <3>1. call'[c].credential = l /\ l \in Credential /\ Registers(call[c]) /\ SameDevice(l)
      BY <2>2, RegistrantFields, Devices
      DEF RegistrationGoesOn, RegistrantsDescend, Descends, DeviceKeeps
    <3>2. CASE StoredBefore(k)
      <4>1. SameDevice(k)
        BY <3>2, Devices DEF StoredBefore, StoredDescend, Descends, DeviceKeeps
      <4> QED
        BY <3>1, <3>2, <4>1 DEF StoredBefore, RegistrantOrStored, SameDevice, ChallengeOf
    <3>3. CASE \E d \in Call : StoresNow(d, k)
      <4>1. PICK d \in Call : StoresNow(d, k)
        BY <3>3
      <4>2. c # d /\ Registers(call[d]) /\ call[d].credential = k
        BY <4>1 DEF StoresNow, Registers, RegisteringStep
      <4>3. SameDevice(k)
        BY <4>2, Devices DEF RegistrantsDescend, Descends, DeviceKeeps
      <4> QED
        BY <3>1, <4>2, <4>3 DEF SoleRegistrant, SameDevice, ChallengeOf
    <3> QED
      BY <3>2, <3>3, Stored
  <2> QED
    BY <2>1, <2>2, Registrants
<1>6. SoleStored'
  <2> SUFFICES ASSUME NEW k \in Credential, NEW l \in Credential,
                      publicKeyCredential'[k] # Absent, publicKeyCredential'[l] # Absent,
                      authenticator'[k].challenge = authenticator'[l].challenge
               PROVE  k = l
    BY DEF SoleStored, ChallengeOf
  <2>1. ASSUME NEW m \in Credential, publicKeyCredential'[m] # Absent
        PROVE  SameDevice(m) /\ (StoredBefore(m) \/ \E c \in Call : StoresNow(c, m))
    <3>1. CASE StoredBefore(m)
      BY <3>1, Devices DEF StoredBefore, StoredDescend, Descends, DeviceKeeps
    <3>2. CASE \E c \in Call : StoresNow(c, m)
      BY <3>2, Devices
      DEF StoresNow, RegistrantsDescend, Registers, RegisteringStep, Descends, DeviceKeeps
    <3> QED
      BY <2>1, <3>1, <3>2, Stored
  <2>2. ChallengeOf(k) = ChallengeOf(l)
    BY <2>1 DEF SameDevice, ChallengeOf
  <2>3. ASSUME NEW m \in Credential, NEW n \in Credential, StoredBefore(m),
               NEW c \in Call, StoresNow(c, n), ChallengeOf(m) = ChallengeOf(n)
        PROVE  FALSE
    BY <2>3 DEF StoredBefore, StoresNow, RegistrantOrStored, Registers, RegisteringStep
  <2>4. CASE StoredBefore(k) /\ StoredBefore(l)
    BY <2>2, <2>4 DEF StoredBefore, SoleStored
  <2>5. CASE (\E c \in Call : StoresNow(c, k)) /\ (\E c \in Call : StoresNow(c, l))
    BY <2>2, <2>5 DEF StoresNow, SoleRegistrant, Registers, RegisteringStep
  <2> QED
    BY <2>1, <2>2, <2>3, <2>4, <2>5
<1> QED
  BY <1>1, <1>2, <1>3, <1>4, <1>5, <1>6

LEMMA AlwaysRegistered == Spec => []Registered
<1>1. Init => Registered
  <2>1. ~Registers(Idle)
    BY DEF Registers, RegisteringStep, Idle
  <2> QED
    BY <2>1 DEF Init, Registered, DevicesIssued, RegistrantsDescend, StoredDescend,
                SoleRegistrant, RegistrantOrStored, SoleStored
<1>2. Typed /\ Registered /\ [Next]_vars => Registered'
  BY RegisteredStep
<1> QED
  BY <1>1, <1>2, AlwaysTyped, PTL DEF Spec

\* Whatever a device made for it, and however many requests present it, a challenge
\* registers one credential.
THEOREM OneCredential == Spec => []ChallengeRegistersOneCredential
<1>1. Registered => ChallengeRegistersOneCredential
  BY DEF Registered, SoleStored, ChallengeRegistersOneCredential, CredentialOf, ChallengeOf
<1> QED
  BY <1>1, AlwaysRegistered, PTL

\* Who is signed in, or logging in, has an assertion that some device signed.
Signed ==
  /\ \A a \in assertion : OfDevice(a)
  /\ \A c \in Call : call[c].step \in LoggingInStep => call[c].assertion \in assertion
  /\ \A a \in session : a \in assertion /\ publicKeyCredential[a.credential] # Absent

LEMMA SignedStep ==
  ASSUME Typed, Signed, [Next]_vars
  PROVE  Signed'
<1> TypeOK /\ LoginsFound
  BY DEF Typed
<1>1. ASSUME NEW a \in assertion'
      PROVE  OfDevice(a)'
  <2>1. a.credential \in Credential
    BY <1>1, Typing DEF TypeOK, Assertion
  <2>2. OfDevice(a)
    BY <1>1, Assertions DEF Signed
  <2> QED
    BY <2>1, <2>2, Devices DEF OfDevice, DeviceKeeps, SameDevice
<1>2. ASSUME NEW c \in Call, call'[c].step \in LoggingInStep
      PROVE  call'[c].assertion \in assertion'
  BY <1>2, Logins, Assertions DEF LoginBegins, LoginGoesOn, Signed
<1>3. ASSUME NEW a \in session'
      PROVE  a \in assertion' /\ publicKeyCredential'[a.credential] # Absent
  <2>1. a \in assertion /\ publicKeyCredential[a.credential] # Absent
    BY <1>3, Sessions DEF Signed, LoginsFound
  <2>2. a.credential \in Credential
    BY <2>1 DEF TypeOK, Assertion
  <2> QED
    BY <2>1, <2>2, Assertions, StoredStays
<1> QED
  BY <1>1, <1>2, <1>3 DEF Signed

LEMMA AlwaysSigned == Spec => []Signed
<1>1. Init => Signed
  BY DEF Init, Signed, Idle, LoggingInStep
<1>2. Typed /\ Signed /\ [Next]_vars => Signed'
  BY SignedStep
<1> QED
  BY <1>1, <1>2, AlwaysTyped, PTL DEF Spec

\* A session is opened with the handle of a user who was added, and who owns the
\* credential, whatever registrations failed or were given up.
THEOREM RegisteredUser == Spec => []SessionOfRegisteredUser
<1>1. TypeOK /\ Registered /\ Signed => SessionOfRegisteredUser
  BY DEF TypeOK, Assertion, Registered, StoredDescend, Descends, Signed, OfDevice,
         SessionOfRegisteredUser
<1> QED
  BY <1>1, TypeCorrect, AlwaysRegistered, AlwaysSigned, PTL
=============================================================================
