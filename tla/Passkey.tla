------------------------------ MODULE Passkey ------------------------------
(***************************************************************************)
(* Passkeys: the two ceremonies that PatchMux serves, each in two requests *)
(* with a challenge between them, over the stores of UserHandler and       *)
(* SessionHandler.                                                         *)
(*                                                                         *)
(* The stores are the application's.  They are taken to do what their      *)
(* interfaces and errors say: deleting a challenge is one step, finds it   *)
(* once, and says when it is there but expired.  The authenticators are    *)
(* the users': one returns the user handle it was given, and signs for     *)
(* the challenge it is shown.  What was made or signed may be presented    *)
(* again and again, by requests running at once.                           *)
(***************************************************************************)
EXTENDS Integers

CONSTANTS
  User,                   \* ids GenerateUserId can return
  Challenge, Credential,
  Call,                   \* requests running at once
  Absent,
  MaxCount                \* bound of an authenticator's counter

ASSUME PasskeyAssumption == MaxCount \in Nat

VARIABLES
  registrationIssuance,   \* the user id each registration challenge was issued with
  authenticationRequest,  \* the login challenges issued
  spent, expired,         \* challenges deleted, challenges the stores call expired
  user,                   \* users added
  publicKeyCredential,    \* credentials stored
  authenticator,          \* credentials made on devices
  assertion,              \* assertions signed on devices
  call,
  session,                \* assertions that signed someone in (history)
  opened                  \* how often each challenge did (history)

challenges == <<registrationIssuance, authenticationRequest, spent, expired>>
devices == <<authenticator, assertion>>
vars == <<challenges, devices, user, publicKeyCredential, call, session, opened>>

CredentialRow == [user: User, signatureCount: Nat]
Made == [userHandle: User, challenge: Challenge, signatureCount: Nat]
Assertion == [credential: Credential, challenge: Challenge, userHandle: User,
              signatureCount: Nat]

ASSUME AbsentAssumption == Absent \notin User \union CredentialRow \union Made

Idle == [step |-> "idle"]
LoggingIn == [step: {"delete", "update", "authenticate"}, assertion: Assertion,
              signatureCount: Nat]
Registering == [step: {"add user", "add credential"}, credential: Credential, user: User]
CallState == {Idle} \union LoggingIn \union Registering

TypeOK ==
  /\ registrationIssuance \in [Challenge -> User \union {Absent}]
  /\ authenticationRequest \in SUBSET Challenge
  /\ spent \in SUBSET Challenge /\ expired \in SUBSET Challenge
  /\ user \in SUBSET User
  /\ publicKeyCredential \in [Credential -> CredentialRow \union {Absent}]
  /\ authenticator \in [Credential -> Made \union {Absent}]
  /\ assertion \in SUBSET Assertion
  /\ call \in [Call -> CallState]
  /\ session \in SUBSET Assertion
  /\ opened \in [Challenge -> Nat]

Init ==
  /\ registrationIssuance = [h \in Challenge |-> Absent]
  /\ authenticationRequest = {} /\ spent = {} /\ expired = {}
  /\ user = {}
  /\ publicKeyCredential = [k \in Credential |-> Absent]
  /\ authenticator = [k \in Credential |-> Absent]
  /\ assertion = {}
  /\ call = [c \in Call |-> Idle]
  /\ session = {}
  /\ opened = [h \in Challenge |-> 0]

-----------------------------------------------------------------------------
Goto(c, state) == call' = [call EXCEPT ![c] = state]

\* GenerateChallenge draws one never drawn before.
Unused(h) == registrationIssuance[h] = Absent /\ h \notin authenticationRequest

LoginOptions(h) ==
  /\ Unused(h)
  /\ authenticationRequest' = authenticationRequest \union {h}
  /\ UNCHANGED <<registrationIssuance, spent, expired, devices, user, publicKeyCredential,
                 call, session, opened>>

\* GenerateUserId, and the issuance that ties the id to the challenge.
RegisterOptions(h, u) ==
  /\ Unused(h)
  /\ \A g \in Challenge : registrationIssuance[g] # u
  /\ registrationIssuance' = [registrationIssuance EXCEPT ![h] = u]
  /\ UNCHANGED <<authenticationRequest, spent, expired, devices, user, publicKeyCredential,
                 call, session, opened>>

Expire(h) ==
  /\ ~Unused(h)
  /\ expired' = expired \union {h}
  /\ UNCHANGED <<registrationIssuance, authenticationRequest, spent, devices, user,
                 publicKeyCredential, call, session, opened>>

-----------------------------------------------------------------------------
\* On a device: a credential for the options of a registration, and assertions.  A
\* counter counts, or stays at zero.

MakeCredential(k, h) ==
  /\ authenticator[k] = Absent
  /\ registrationIssuance[h] # Absent
  /\ authenticator' = [authenticator EXCEPT
       ![k] = [userHandle |-> registrationIssuance[h], challenge |-> h, signatureCount |-> 0]]
  /\ UNCHANGED <<challenges, assertion, user, publicKeyCredential, call, session, opened>>

Sign(k, h) ==
  /\ authenticator[k] # Absent
  /\ h \in authenticationRequest
  /\ LET made == authenticator[k] IN
     \E count \in {made.signatureCount + 1} \union ({0} \intersect {made.signatureCount}) :
       /\ count <= MaxCount
       /\ authenticator' = [authenticator EXCEPT ![k].signatureCount = count]
       /\ assertion' = assertion \union
            {[credential |-> k, challenge |-> h, userHandle |-> made.userHandle,
              signatureCount |-> count]}
  /\ UNCHANGED <<challenges, user, publicKeyCredential, call, session, opened>>

-----------------------------------------------------------------------------
\* Mutant: the store is asked for what is there, expired or not.
FoundThoughExpired(h, issued) == h \in issued /\ h \notin spent

\* The stores' answer to the deletion of a challenge of the given ones.
Found(h, issued) == h \in issued /\ h \notin spent /\ h \notin expired

\* Mutant: the challenge is looked up, and stays.
Keep(h) == UNCHANGED spent

Delete(h) == spent' = spent \union {h}

\* POST /api/login/passkey: the credential is read first.
GetPublicKeyCredential(c, a) ==
  /\ call[c] = Idle
  /\ publicKeyCredential[a.credential] # Absent
  /\ Goto(c, [step |-> "delete", assertion |-> a,
              signatureCount |-> publicKeyCredential[a.credential].signatureCount])
  /\ UNCHANGED <<challenges, devices, user, publicKeyCredential, session, opened>>

\* ValidateAssertionPublicKeyCredential, given the count that was stored.
CountAdvances(a, signatureCount) ==
  a.signatureCount > signatureCount \/ (a.signatureCount = 0 /\ signatureCount = 0)

DeletePublicKeyAuthenticationRequest(c) ==
  /\ call[c].step = "delete"
  /\ LET a == call[c].assertion
         found == Found(a.challenge, authenticationRequest)
         valid == CountAdvances(a, call[c].signatureCount)
     IN /\ IF found THEN Delete(a.challenge) ELSE UNCHANGED spent
        /\ IF found /\ valid THEN Goto(c, [call[c] EXCEPT !.step = "update"])
                             ELSE Goto(c, Idle)
  /\ UNCHANGED <<registrationIssuance, authenticationRequest, expired, devices, user,
                 publicKeyCredential, session, opened>>

\* The count that was read.
UpdatedCount(c) == call[c].signatureCount

UpdatePublicKeyCredential(c) ==
  /\ call[c].step = "update"
  /\ publicKeyCredential' = [publicKeyCredential EXCEPT
       ![call[c].assertion.credential].signatureCount = UpdatedCount(c)]
  /\ Goto(c, [call[c] EXCEPT !.step = "authenticate"])
  /\ UNCHANGED <<challenges, devices, user, session, opened>>

HandleSuccessfulAuthentication(c) ==
  /\ call[c].step = "authenticate"
  /\ session' = session \union {call[c].assertion}
  /\ opened' = [opened EXCEPT ![call[c].assertion.challenge] = @ + 1]
  /\ Goto(c, Idle)
  /\ UNCHANGED <<challenges, devices, user, publicKeyCredential>>

-----------------------------------------------------------------------------
\* POST /api/register/passkey: the challenge first, then what was made for it.

\* Mutant: the user is not added.
StoreOnlyCredential == "add credential"

FirstStored == "add user"

DeleteRegistrationIssuance(c, k) ==
  LET h == authenticator[k].challenge IN
  /\ call[c] = Idle
  /\ authenticator[k] # Absent
  /\ Found(h, {g \in Challenge : registrationIssuance[g] # Absent})
  /\ Delete(h)
  /\ Goto(c, [step |-> FirstStored, credential |-> k, user |-> registrationIssuance[h]])
  /\ UNCHANGED <<registrationIssuance, authenticationRequest, expired, devices, user,
                 publicKeyCredential, session, opened>>

AddUser(c) ==
  /\ call[c].step = "add user"
  /\ user' = user \union {call[c].user}
  /\ Goto(c, [call[c] EXCEPT !.step = "add credential"])
  /\ UNCHANGED <<challenges, devices, publicKeyCredential, session, opened>>

AddPublicKeyCredential(c) ==
  /\ call[c].step = "add credential"
  /\ publicKeyCredential' = [publicKeyCredential EXCEPT
       ![call[c].credential] = [user |-> call[c].user, signatureCount |-> 0]]
  /\ Goto(c, Idle)
  /\ UNCHANGED <<challenges, devices, user, session, opened>>

-----------------------------------------------------------------------------
\* What was presented is invalid or not acceptable, a store fails, the request is
\* cancelled or the process stops: what was deleted and added stays so.
Abandon(c) ==
  /\ call[c] # Idle
  /\ Goto(c, Idle)
  /\ UNCHANGED <<challenges, devices, user, publicKeyCredential, session, opened>>

Next ==
  \/ \E h \in Challenge :
       \/ LoginOptions(h) \/ Expire(h)
       \/ \E u \in User : RegisterOptions(h, u)
       \/ \E k \in Credential : MakeCredential(k, h) \/ Sign(k, h)
  \/ \E c \in Call :
       \/ \E a \in assertion : GetPublicKeyCredential(c, a)
       \/ DeletePublicKeyAuthenticationRequest(c)
       \/ UpdatePublicKeyCredential(c)
       \/ HandleSuccessfulAuthentication(c)
       \/ \E k \in Credential : DeleteRegistrationIssuance(c, k)
       \/ AddUser(c) \/ AddPublicKeyCredential(c)
       \/ Abandon(c)

Spec == Init /\ [][Next]_vars

-----------------------------------------------------------------------------
\* A challenge signs someone in once at most: two requests that present one
\* assertion, or two assertions for one challenge, are not both answered with a session.
ChallengeOpensOneSession == \A h \in Challenge : opened[h] <= 1

\* A challenge registers one credential at most, though a device made two for it
\* and both are presented at once.
CredentialOf(h) ==
  {k \in Credential : publicKeyCredential[k] # Absent /\ authenticator[k].challenge = h}
ChallengeRegistersOneCredential ==
  \A h \in Challenge : \A k, l \in CredentialOf(h) : k = l

\* The user handle a session is opened with, which the authenticator sends, is that
\* of a user who was added, and who owns the credential that the handler verified:
\* whatever part of whose registration failed or was given up.
SessionOfRegisteredUser ==
  \A a \in session :
    /\ publicKeyCredential[a.credential] # Absent
    /\ publicKeyCredential[a.credential].user = a.userHandle
    /\ a.userHandle \in user

\* A challenge that expires signs nobody in from then on, but for the request that
\* had deleted it before.
Redeems(state, h) == state.step \in {"update", "authenticate"} /\ state.assertion.challenge = h
ExpiredChallengeIsOver ==
  [][\A h \in expired :
       (\A c \in Call : ~Redeems(call[c], h)) =>
         opened'[h] = opened[h] /\ \A c \in Call : ~Redeems(call'[c], h)]_vars
=============================================================================
