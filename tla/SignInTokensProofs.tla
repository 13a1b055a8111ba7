------------------------- MODULE SignInTokensProofs -------------------------
(***************************************************************************)
(* Proofs about SignInTokens: how often a link or an id token signs        *)
(* someone in, and that what is gone is gone, for every value of the       *)
(* constants.                                                              *)
(***************************************************************************)
EXTENDS SignInTokens, TLAPS

\* A request that goes on with a token has one that was issued, and submitted
\* it before it expired.
CallsInTime ==
  \A c \in Call :
    /\ call[c].step \in {"check spent", "select account", "insert"} =>
         token[call[c].token] # Absent
    /\ call[c].step \in {"select account", "insert"} =>
         call[c].at <= token[call[c].token].expiresAt

\* The index on id_token_hash.
HashIsUnique ==
  \A t \in Token, a, b \in Authentication : Spends(a, t) /\ Spends(b, t) => a = b

\* A row goes with its account and in no other way.
GoneWithAccount ==
  \A a \in Authentication : Row(a) # Absent /\ ~Row(a).stored => Row(a).account \in deleted

\* What the landing page calls unusable is so, and stays so until the row that
\* spent it goes.
GoneWithReason ==
  \A t \in gone : token[t] # Absent /\ (Over(t) \/ Spent(t))

Kept == TypeOK /\ CallsInTime /\ HashIsUnique /\ GoneWithAccount /\ GoneWithReason

-----------------------------------------------------------------------------
LEMMA CallFacts ==
  ASSUME TypeOK, NEW c \in Call
  PROVE  /\ call[c].step = "send" => call[c] \in Sending
         /\ call[c].step = "check spent" => call[c] \in Landing
         /\ call[c].step = "select account" => call[c] \in Verified
         /\ call[c].step = "insert" => call[c] \in Selected
<1>1. call[c] \in CallState
  BY DEF TypeOK
<1>2. /\ Idle.step = "idle"
      /\ \A s \in Sending : s.step = "send"
      /\ \A s \in Landing : s.step = "check spent"
      /\ \A s \in Verified : s.step = "select account"
      /\ \A s \in Selected : s.step = "insert"
  BY DEF Idle, Sending, Landing, Verified, Selected
<1> QED BY <1>1, <1>2 DEF CallState

LEMMA IdleFacts == Idle \in CallState /\ Idle.step = "idle"
BY DEF Idle, CallState

LEMMA GotoFacts ==
  ASSUME TypeOK, NEW c \in Call, NEW state \in CallState, Goto(c, state)
  PROVE  /\ call' \in [Call -> CallState]
         /\ call'[c] = state
         /\ \A d \in Call : d # c => call'[d] = call[d]
BY DEF TypeOK, Goto

LEMMA RowsAreNotAbsent ==
  /\ \A r \in AccountRow : r # Absent
  /\ \A r \in TokenRow : r # Absent
  /\ \A r \in AuthenticationRow : r # Absent
BY AbsentAssumption

LEMMA UnstoredRow ==
  ASSUME NEW r \in AuthenticationRow
  PROVE  /\ [r EXCEPT !.stored = FALSE] \in AuthenticationRow
         /\ ~[r EXCEPT !.stored = FALSE].stored
         /\ [r EXCEPT !.stored = FALSE].account = r.account
BY DEF AuthenticationRow

\* What a request in hand holds is right.
InTime(state) ==
  /\ state.step \in {"check spent", "select account", "insert"} => token[state.token] # Absent
  /\ state.step \in {"select account", "insert"} => state.at <= token[state.token].expiresAt

LEMMA CallsKept ==
  ASSUME Kept, NEW c \in Call, NEW state \in CallState, Goto(c, state), InTime(state),
         UNCHANGED token
  PROVE  call' \in [Call -> CallState] /\ CallsInTime'
<1>1. /\ call' \in [Call -> CallState] /\ call'[c] = state
      /\ \A d \in Call : d # c => call'[d] = call[d]
  BY GotoFacts DEF Kept
<1>2. ASSUME NEW d \in Call PROVE InTime(call'[d])
  <2>1. CASE d = c
    BY <1>1, <2>1
  <2>2. CASE d # c
    BY <1>1, <2>2 DEF Kept, CallsInTime, InTime
  <2> QED BY <2>1, <2>2
<1> QED BY <1>1, <1>2 DEF CallsInTime, InTime

\* A request that goes on and has changed none of the tables.
LEMMA GoesOn ==
  ASSUME Kept, NEW c \in Call, NEW state \in CallState, Goto(c, state), InTime(state),
         UNCHANGED <<now, account, deleted, token, authentication, gone>>
  PROVE  Kept'
<1>1. call' \in [Call -> CallState] /\ CallsInTime'
  BY CallsKept
<1>2. TypeOK'
  BY <1>1 DEF Kept, TypeOK
<1>3. HashIsUnique' /\ GoneWithAccount' /\ GoneWithReason'
  BY DEF Kept, HashIsUnique, GoneWithAccount, GoneWithReason, Over, Spent, Spends, Row
<1> QED BY <1>1, <1>2, <1>3 DEF Kept

LEMMA AccountCheckerKeeps ==
  ASSUME Kept, NEW c \in Call, NEW e \in Address, AccountChecker(c, e)
  PROVE  Kept'
<1> DEFINE state == [step |-> "send", address |-> e, expiresAt |-> now + LinkExpiration]
<1>1. now + LinkExpiration \in Nat
  BY TokenAssumption DEF Kept, TypeOK
<1>2. state \in CallState /\ InTime(state)
  BY <1>1 DEF Sending, CallState, InTime
<1>3. Goto(c, state)
  BY DEF AccountChecker
<1> HIDE DEF state
<1> QED BY <1>2, <1>3, GoesOn DEF AccountChecker

\* A token is issued: it is new, and so it is nobody's yet.
LEMMA IssueKeeps ==
  ASSUME Kept, NEW t \in Token, token[t] = Absent, NEW row \in TokenRow,
         token' = [token EXCEPT ![t] = row],
         UNCHANGED call \/ \E c \in Call : Goto(c, Idle),
         UNCHANGED <<now, account, deleted, authentication, gone>>
  PROVE  Kept'
<1>1. /\ token' \in [Token -> TokenRow \union {Absent}]
      /\ \A u \in Token : u # t => token'[u] = token[u]
      /\ token'[t] = row
  BY DEF Kept, TypeOK
<1>2. call' \in [Call -> CallState] /\ \A c \in Call : call'[c] \in {call[c], Idle}
  BY IdleFacts DEF Goto, Kept, TypeOK
<1>3. TypeOK'
  BY <1>1, <1>2 DEF Kept, TypeOK
<1>4. CallsInTime'
  <2> SUFFICES ASSUME NEW c \in Call
      PROVE /\ call'[c].step \in {"check spent", "select account", "insert"} =>
                 token'[call'[c].token] # Absent
            /\ call'[c].step \in {"select account", "insert"} =>
                 call'[c].at <= token'[call'[c].token].expiresAt
    BY DEF CallsInTime
  <2>1. CASE call'[c] = Idle
    BY <2>1, IdleFacts
  <2>2. CASE call'[c] = call[c] /\ call[c].step \in {"check spent", "select account", "insert"}
    <3>1. call[c].token \in Token
      BY <2>2, CallFacts DEF Kept, Landing, Verified, Selected
    <3>2. call[c].token # t
      BY <2>2 DEF Kept, CallsInTime
    <3> QED BY <1>1, <2>2, <3>1, <3>2 DEF Kept, CallsInTime
  <2>3. CASE call'[c] = call[c] /\ call[c].step \notin {"check spent", "select account", "insert"}
    BY <2>3
  <2> QED BY <1>2, <2>1, <2>2, <2>3
<1>5. HashIsUnique' /\ GoneWithAccount'
  BY DEF Kept, HashIsUnique, GoneWithAccount, Spends, Row
<1>6. GoneWithReason'
  <2>1. \A u \in gone : u \in Token /\ u # t
    BY DEF Kept, TypeOK, GoneWithReason
  <2> QED BY <1>1, <2>1 DEF Kept, GoneWithReason, Over, Spent, Spends, Row
<1> QED BY <1>3, <1>4, <1>5, <1>6 DEF Kept

LEMMA SendKeeps ==
  ASSUME Kept, NEW c \in Call, NEW t \in Token, SendMessage(c, t)
  PROVE  Kept'
<1> DEFINE row == [link |-> TRUE, address |-> call[c].address, expiresAt |-> call[c].expiresAt]
<1>1. call[c] \in Sending
  BY CallFacts DEF SendMessage, Kept
<1>2. row \in TokenRow
  BY <1>1 DEF Sending, TokenRow
<1>3. token[t] = Absent /\ token' = [token EXCEPT ![t] = row] /\ Goto(c, Idle)
  BY DEF SendMessage
<1> HIDE DEF row
<1> QED BY <1>2, <1>3, IssueKeeps DEF SendMessage

LEMMA IdTokenKeeps ==
  ASSUME Kept, NEW t \in Token, NEW e \in Address, IssueIdToken(t, e)
  PROVE  Kept'
<1> DEFINE row == [link |-> FALSE, address |-> e, expiresAt |-> now + IdTokenLifetime]
<1>1. now + IdTokenLifetime \in Nat
  BY TokenAssumption DEF Kept, TypeOK
<1>2. row \in TokenRow
  BY <1>1 DEF TokenRow
<1>3. token[t] = Absent /\ token' = [token EXCEPT ![t] = row]
  BY DEF IssueIdToken
<1> HIDE DEF row
<1> QED BY <1>2, <1>3, IssueKeeps DEF IssueIdToken

\* A link is called unusable for a reason.
LEMMA UnusableKeeps ==
  ASSUME Kept, NEW t \in Token, token[t] # Absent, Over(t) \/ Spent(t), Unusable(t),
         UNCHANGED call \/ \E c \in Call : Goto(c, Idle),
         UNCHANGED <<now, account, deleted, token, authentication>>
  PROVE  Kept'
<1>1. call' \in [Call -> CallState] /\ \A c \in Call : call'[c] \in {call[c], Idle}
  BY IdleFacts DEF Goto, Kept, TypeOK
<1>2. TypeOK'
  BY <1>1 DEF Kept, TypeOK, Unusable
<1>3. CallsInTime'
  BY <1>1, IdleFacts DEF Kept, CallsInTime
<1>4. HashIsUnique' /\ GoneWithAccount'
  BY DEF Kept, HashIsUnique, GoneWithAccount, Spends, Row
<1>5. GoneWithReason'
  BY DEF Kept, GoneWithReason, Unusable, Over, Spent, Spends, Row
<1> QED BY <1>2, <1>3, <1>4, <1>5 DEF Kept

LEMMA LandKeeps ==
  ASSUME Kept, NEW c \in Call, NEW t \in Token, Land(c, t)
  PROVE  Kept'
<1>1. CASE Over(t)
  BY <1>1, UnusableKeeps DEF Land
<1>2. CASE ~Over(t)
  <2>1. Goto(c, Looked(t)) /\ token[t] # Absent
    BY <1>2 DEF Land
  <2>2. Looked(t) \in CallState /\ InTime(Looked(t))
    BY <2>1 DEF Looked, Landing, CallState, InTime
  <2> QED BY <1>2, <2>1, <2>2, GoesOn DEF Land
<1> QED BY <1>1, <1>2

LEMMA SpentCheckerKeeps ==
  ASSUME Kept, NEW c \in Call, SpentChecker(c)
  PROVE  Kept'
<1>1. call[c] \in Landing /\ call[c].token \in Token /\ token[call[c].token] # Absent
  BY CallFacts DEF SpentChecker, Kept, CallsInTime, Landing
<1>2. \/ Spent(call[c].token) /\ Unusable(call[c].token)
      \/ UNCHANGED gone
  BY DEF SpentChecker, SpentCheck
<1>3. CASE Spent(call[c].token) /\ Unusable(call[c].token)
  BY <1>1, <1>3, UnusableKeeps DEF SpentChecker
<1>4. CASE UNCHANGED gone
  <2>1. InTime(Idle)
    BY IdleFacts DEF InTime
  <2> QED BY <1>4, <2>1, IdleFacts, GoesOn DEF SpentChecker
<1> QED BY <1>2, <1>3, <1>4

LEMMA SubmitKeeps ==
  ASSUME Kept, NEW c \in Call, NEW t \in Token, Submit(c, t)
  PROVE  Kept'
<1> DEFINE state == [step |-> "select account", token |-> t, at |-> now]
<1>1. token[t] # Absent /\ ~Over(t) /\ now \in Nat /\ token[t] \in TokenRow
  BY DEF Submit, Kept, TypeOK
<1>2. now <= token[t].expiresAt
  BY <1>1 DEF Over, TokenRow
<1>3. state \in CallState /\ InTime(state)
  BY <1>1, <1>2 DEF Verified, CallState, InTime
<1>4. Goto(c, state)
  BY DEF Submit
<1> HIDE DEF state
<1> QED BY <1>3, <1>4, GoesOn DEF Submit

LEMMA SelectKeeps ==
  ASSUME Kept, NEW c \in Call, SelectEmailAddressAccount(c)
  PROVE  Kept'
<1>1. call[c] \in Verified
  BY CallFacts DEF SelectEmailAddressAccount, Kept
<1>2. token[call[c].token] # Absent /\ call[c].at <= token[call[c].token].expiresAt
  BY DEF SelectEmailAddressAccount, Kept, CallsInTime
<1>3. PICK x \in Account :
        Goto(c, [step |-> "insert", token |-> call[c].token, at |-> call[c].at, account |-> x])
  BY DEF SelectEmailAddressAccount
<1> DEFINE state == [step |-> "insert", token |-> call[c].token, at |-> call[c].at,
                     account |-> x]
<1>4. state \in CallState /\ InTime(state)
  BY <1>1, <1>2 DEF Verified, Selected, CallState, InTime
<1> HIDE DEF state
<1> QED BY <1>3, <1>4, GoesOn DEF SelectEmailAddressAccount, state

\* The row that spends a token: there was none.
LEMMA InsertKeeps ==
  ASSUME Kept, NEW c \in Call, NEW a \in Authentication, InsertAuthentication(c, a)
  PROVE  Kept'
<1> DEFINE row == [account |-> call[c].account, idTokenHash |-> call[c].token, stored |-> TRUE]
<1>1. call[c] \in Selected /\ ~Spent(call[c].token) /\ authentication[a] = Absent
  BY CallFacts DEF InsertAuthentication, Kept
<1>2. row \in AuthenticationRow /\ row.stored /\ row.idTokenHash = call[c].token
  BY <1>1 DEF Selected, AuthenticationRow
<1>3. authentication' = [authentication EXCEPT ![a] = row]
  BY DEF InsertAuthentication
<1> HIDE DEF row
<1>4. /\ authentication' \in [Authentication -> AuthenticationRow \union {Absent}]
      /\ authentication'[a] = row
      /\ \A b \in Authentication : b # a => authentication'[b] = authentication[b]
  BY <1>2, <1>3 DEF Kept, TypeOK
<1>5. InTime(Idle)
  BY IdleFacts DEF InTime
<1>6. call' \in [Call -> CallState] /\ CallsInTime'
  BY <1>5, IdleFacts, CallsKept DEF InsertAuthentication
<1>7. TypeOK'
  BY <1>4, <1>6 DEF Kept, TypeOK, InsertAuthentication
<1>8. HashIsUnique'
  BY <1>1, <1>2, <1>4 DEF Kept, HashIsUnique, Spends, Spent, Row
<1>9. GoneWithAccount'
  BY <1>2, <1>4 DEF Kept, GoneWithAccount, Row, InsertAuthentication
<1>10. GoneWithReason'
  <2>1. \A t \in Token : Spent(t) => Spent(t)'
    BY <1>1, <1>4 DEF Spent, Spends, Row
  <2>2. gone \subseteq Token
    BY DEF Kept, TypeOK
  <2> QED BY <2>1, <2>2 DEF Kept, GoneWithReason, Over, InsertAuthentication
<1> QED BY <1>6, <1>7, <1>8, <1>9, <1>10 DEF Kept

\* Accounts added and changed are no matter to the other tables.
LEMMA AccountKeeps ==
  ASSUME Kept, NEW x \in Account, NEW row \in AccountRow,
         account' = [account EXCEPT ![x] = row],
         UNCHANGED <<now, deleted, token, authentication, call, gone>>
  PROVE  Kept'
<1>1. TypeOK'
  BY DEF Kept, TypeOK
<1> QED BY <1>1 DEF Kept, CallsInTime, HashIsUnique, GoneWithAccount, GoneWithReason,
                    Over, Spent, Spends, Row

LEMMA DeleteKeeps ==
  ASSUME Kept, NEW x \in Account, DeleteAccount(x)
  PROVE  Kept'
<1> DEFINE Of(a) == Row(a) # Absent /\ Row(a).account = x
<1>1. ASSUME NEW a \in Authentication
      PROVE  /\ authentication'[a] \in AuthenticationRow \union {Absent}
             /\ ~Of(a) => authentication'[a] = authentication[a]
             /\ Of(a) => /\ authentication'[a] # Absent
                         /\ ~authentication'[a].stored
                         /\ authentication'[a].account = x
  <2>1. authentication'[a] =
          IF Of(a) THEN [Row(a) EXCEPT !.stored = FALSE] ELSE Row(a)
    BY DEF DeleteAccount
  <2>2. CASE Of(a)
    <3>1. Row(a) \in AuthenticationRow
      BY <2>2 DEF Kept, TypeOK, Row
    <3> QED BY <2>1, <2>2, <3>1, UnstoredRow, RowsAreNotAbsent
  <2>3. CASE ~Of(a)
    BY <2>1, <2>3 DEF Kept, TypeOK, Row
  <2> QED BY <2>2, <2>3
<1>2. authentication' \in [Authentication -> AuthenticationRow \union {Absent}]
  <2>1. authentication' = [a \in Authentication |-> authentication'[a]]
    BY DEF DeleteAccount
  <2> QED BY <1>1, <2>1
<1>3. TypeOK'
  BY <1>2 DEF Kept, TypeOK, DeleteAccount
<1>4. CallsInTime'
  BY DEF Kept, CallsInTime, DeleteAccount
<1>5. ASSUME NEW a \in Authentication, NEW t \in Token
      PROVE  Spends(a, t)' <=> Spends(a, t) /\ ~Of(a)
  BY <1>1 DEF Spends, Row
<1>6. HashIsUnique'
  BY <1>5 DEF Kept, HashIsUnique
<1>7. GoneWithAccount'
  BY <1>1 DEF Kept, GoneWithAccount, Row, DeleteAccount
<1>8. GoneWithReason'
  <2> SUFFICES ASSUME NEW t \in gone' PROVE token'[t] # Absent /\ (Over(t)' \/ Spent(t)')
    BY DEF GoneWithReason
  <2>1. t \in gone /\ t \in Token /\ \A a \in Authentication : Spends(a, t) => Row(a).account # x
    BY DEF DeleteAccount, Kept, TypeOK
  <2>2. token'[t] # Absent /\ (Over(t) \/ Spent(t))
    BY <2>1 DEF Kept, GoneWithReason, DeleteAccount
  <2>3. Over(t) => Over(t)'
    BY DEF Over, DeleteAccount
  <2>4. Spent(t) => Spent(t)'
    BY <1>5, <2>1 DEF Spent
  <2> QED BY <2>2, <2>3, <2>4
<1> QED BY <1>3, <1>4, <1>6, <1>7, <1>8 DEF Kept

LEMMA TickKeeps ==
  ASSUME Kept, Tick
  PROVE  Kept'
<1>1. TypeOK'
  BY DEF Kept, TypeOK, Tick
<1>2. \A t \in Token : token[t] # Absent /\ Over(t) => Over(t)'
  <2> SUFFICES ASSUME NEW t \in Token, token[t] # Absent, Over(t) PROVE Over(t)'
    OBVIOUS
  <2>1. token[t] \in TokenRow /\ now \in Nat
    BY DEF Kept, TypeOK
  <2> QED BY <2>1 DEF TokenRow, Over, Tick
<1>3. GoneWithReason'
  <2>1. gone \subseteq Token
    BY DEF Kept, TypeOK
  <2> QED BY <1>2, <2>1 DEF Kept, GoneWithReason, Spent, Spends, Row, Tick
<1> QED BY <1>1, <1>3 DEF Kept, CallsInTime, HashIsUnique, GoneWithAccount, Spends, Row, Tick

LEMMA StepKept ==
  ASSUME Kept, [Next]_vars
  PROVE  Kept'
<1>1. ASSUME NEW c \in Call, NEW t \in Token, ValidateLink(c, t) \/ AuthenticateIdToken(c, t)
      PROVE  Kept'
  BY <1>1, SubmitKeeps DEF ValidateLink, AuthenticateIdToken
<1>2. ASSUME NEW c \in Call, Abandon(c) PROVE Kept'
  <2>1. InTime(Idle)
    BY IdleFacts DEF InTime
  <2> QED BY <1>2, <2>1, IdleFacts, GoesOn DEF Abandon
<1>3. ASSUME NEW x \in Account, NEW e \in Address, AddAccount(x, e) PROVE Kept'
  <2>1. [address |-> e, locked |-> FALSE] \in AccountRow
    BY DEF AccountRow
  <2> QED BY <1>3, <2>1, AccountKeeps DEF AddAccount
<1>4. ASSUME NEW x \in Account, NEW row \in AccountRow, UpdateAccount(x, row) PROVE Kept'
  BY <1>4, AccountKeeps DEF UpdateAccount
<1>5. CASE UNCHANGED vars
  <2> USE <1>5 DEF vars
  <2>1. TypeOK' /\ CallsInTime'
    BY DEF Kept, TypeOK, CallsInTime
  <2>2. HashIsUnique' /\ GoneWithAccount'
    BY DEF Kept, HashIsUnique, GoneWithAccount, Spends, Row
  <2>3. GoneWithReason'
    BY DEF Kept, GoneWithReason, Over, Spent, Spends, Row
  <2> QED BY <2>1, <2>2, <2>3 DEF Kept
<1>6. ASSUME NEW c \in Call, NEW t \in Token, SendMessage(c, t) \/ Land(c, t)
      PROVE  Kept'
  BY <1>6, SendKeeps, LandKeeps
<1>7. ASSUME NEW c \in Call, NEW e \in Address, AccountChecker(c, e) PROVE Kept'
  BY <1>7, AccountCheckerKeeps
<1>8. ASSUME NEW c \in Call, SpentChecker(c) \/ SelectEmailAddressAccount(c) PROVE Kept'
  BY <1>8, SpentCheckerKeeps, SelectKeeps
<1>9. ASSUME NEW c \in Call, NEW a \in Authentication, InsertAuthentication(c, a) PROVE Kept'
  BY <1>9, InsertKeeps
<1>10. ASSUME NEW t \in Token, NEW e \in Address, IssueIdToken(t, e) PROVE Kept'
  BY <1>10, IdTokenKeeps
<1>11. ASSUME NEW x \in Account, DeleteAccount(x) PROVE Kept'
  BY <1>11, DeleteKeeps
<1>12. CASE Tick
  BY <1>12, TickKeeps
<1>13. CASE Next
  BY <1>1, <1>2, <1>3, <1>4, <1>6, <1>7, <1>8, <1>9, <1>10, <1>11, <1>12, <1>13 DEF Next
<1> QED BY <1>5, <1>13

LEMMA InitKept == Init => Kept
<1> SUFFICES ASSUME Init PROVE Kept
  OBVIOUS
<1>1. TypeOK
  BY DEF Init, TypeOK, CallState
<1>2. \A c \in Call : call[c].step = "idle"
  BY DEF Init, Idle
<1> QED BY <1>1, <1>2 DEF Init, Kept, CallsInTime, HashIsUnique, GoneWithAccount,
                          GoneWithReason, Spends, Row

\* Rows and requests in flight keep their types, a hash is stored once, and
\* what was called unusable is so.
THEOREM TokensKept == Spec => []Kept
BY InitKept, StepKept, PTL DEF Spec

\* A link or an id token signs in once, whoever presents it and however often,
\* and a second time only when the account of the first is deleted (the unique
\* index that CreateSession runs into).
THEOREM SignsInOnce == Spec => []SecondSessionOnlyAfterDeletion
<1>1. Kept => SecondSessionOnlyAfterDeletion
  <2> SUFFICES ASSUME Kept, NEW a \in Authentication, NEW b \in Authentication, a # b,
                      Row(a) # Absent, Row(b) # Absent, Row(a).idTokenHash = Row(b).idTokenHash
               PROVE  \/ ~Row(a).stored /\ Row(a).account \in deleted
                      \/ ~Row(b).stored /\ Row(b).account \in deleted
    BY DEF SecondSessionOnlyAfterDeletion
  <2>1. Row(a) \in AuthenticationRow
    BY DEF Kept, TypeOK, Row
  <2>2. Row(a).idTokenHash \in Token
    BY <2>1 DEF AuthenticationRow
  <2>3. ~Row(a).stored \/ ~Row(b).stored
    BY <2>2 DEF Kept, HashIsUnique, Spends
  <2> QED BY <2>3 DEF Kept, GoneWithAccount
<1> QED BY <1>1, TokensKept, PTL

\* A row is only made by the last step of a submission.
LEMMA OpenedByInsert ==
  ASSUME Kept, [Next]_vars, NEW t \in Token, Opens(t)
  PROVE  \E c \in Call : call[c].step = "insert" /\ call[c].token = t /\ ~Spent(t)
<1>1. PICK a \in Authentication :
        Row(a) = Absent /\ authentication'[a] # Absent /\ authentication'[a].idTokenHash = t
  BY DEF Opens
<1>2. ASSUME NEW x \in Account, DeleteAccount(x) PROVE FALSE
  BY <1>1, <1>2 DEF DeleteAccount
<1>3. ASSUME NEW c \in Call, NEW b \in Authentication, InsertAuthentication(c, b)
      PROVE  call[c].step = "insert" /\ call[c].token = t /\ ~Spent(t)
  <2>1. authentication \in [Authentication -> AuthenticationRow \union {Absent}]
    BY DEF Kept, TypeOK
  <2>2. b = a
    BY <1>1, <1>3, <2>1 DEF InsertAuthentication, Row
  <2>3. authentication'[a].idTokenHash = call[c].token
    BY <1>3, <2>1, <2>2 DEF InsertAuthentication
  <2> QED BY <1>1, <1>3, <2>3 DEF InsertAuthentication
<1>4. UNCHANGED authentication => FALSE
  BY <1>1 DEF Row
<1> QED
  BY <1>2, <1>3, <1>4
  DEF Next, vars, AccountChecker, SendMessage, Land, ValidateLink, AuthenticateIdToken, Submit,
      SpentChecker, SelectEmailAddressAccount, Abandon, IssueIdToken, AddAccount,
      UpdateAccount, Tick

\* What has expired, or was called unusable, signs nobody in any more but by a
\* submission that was in time (the validate endpoint between its check of the
\* token and its insert; the landing page's advice).
THEOREM GoneForGood == Spec => GoneIsGone
<1> DEFINE Step ==
      \A t \in Token :
        (t \in gone \/ Expired(t)) /\ Opens(t) =>
          /\ Expired(t)
          /\ \E c \in Call : /\ call[c].step = "insert" /\ call[c].token = t
                            /\ call[c].at <= token[t].expiresAt
<1>1. ASSUME Kept, [Next]_vars, NEW t \in Token, t \in gone \/ Expired(t), Opens(t)
      PROVE  /\ Expired(t)
             /\ \E c \in Call : /\ call[c].step = "insert" /\ call[c].token = t
                               /\ call[c].at <= token[t].expiresAt
  <2>1. PICK c \in Call : call[c].step = "insert" /\ call[c].token = t /\ ~Spent(t)
    BY <1>1, OpenedByInsert
  <2>2. Expired(t)
    BY <1>1, <2>1 DEF Kept, GoneWithReason, Over, Expired
  <2>3. call[c].at <= token[t].expiresAt
    BY <1>1, <2>1 DEF Kept, CallsInTime
  <2> QED BY <2>1, <2>2, <2>3
<1>2. Kept /\ [Next]_vars => [Step]_vars
  BY <1>1
<1> QED BY <1>2, TokensKept, PTL DEF Spec, GoneIsGone
=============================================================================
