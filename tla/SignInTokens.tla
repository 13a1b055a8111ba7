---------------------------- MODULE SignInTokens ----------------------------
(***************************************************************************)
(* Signing in with a signed token that is good once: the link of an e-mail *)
(* (the generate, landing and validate endpoints) and the id token of a    *)
(* provider (the id token endpoint).                                       *)
(*                                                                         *)
(* Nothing is stored when a token is issued.  The authentication that it   *)
(* opens carries its hash, which is unique, and so spends it.  Whoever has *)
(* a token may present it to any of the endpoints that take it, by several *)
(* requests at once: a scanner of mail opens a link before its reader      *)
(* does, a reader submits twice.  Landing is such a look at a link.        *)
(***************************************************************************)
EXTENDS Integers

CONSTANTS
  Account, Address,
  Token,                  \* the nonces of links, and id tokens
  Authentication,
  Call,                   \* requests at once
  Absent,
  LinkExpiration, IdTokenLifetime,
  MaxTime                 \* bound of the clock

ASSUME TokenAssumption == LinkExpiration \in Nat /\ IdTokenLifetime \in Nat

VARIABLES
  now,
  account,                \* table account
  deleted,                \* account ids that are gone
  token,                  \* tokens that someone has
  authentication,         \* the rows of table authentication opened here
  call,
  gone                    \* links that the landing page called unusable (history)

vars == <<now, account, deleted, token, authentication, call, gone>>

AccountRow == [address: Address, locked: BOOLEAN]
TokenRow == [link: BOOLEAN, address: Address, expiresAt: Nat]
AuthenticationRow == [account: Account, idTokenHash: Token, stored: BOOLEAN]

ASSUME AbsentAssumption == Absent \notin AccountRow \union TokenRow \union AuthenticationRow

Idle == [step |-> "idle"]
Sending == [step: {"send"}, address: Address, expiresAt: Nat]
Landing == [step: {"check spent"}, token: Token]
Verified == [step: {"select account"}, token: Token, at: Nat]
Selected == [step: {"insert"}, token: Token, at: Nat, account: Account]
CallState == {Idle} \union Sending \union Landing \union Verified \union Selected

TypeOK ==
  /\ now \in Nat
  /\ account \in [Account -> AccountRow \union {Absent}]
  /\ deleted \in SUBSET Account
  /\ token \in [Token -> TokenRow \union {Absent}]
  /\ authentication \in [Authentication -> AuthenticationRow \union {Absent}]
  /\ call \in [Call -> CallState]
  /\ gone \in SUBSET Token

Init ==
  /\ now = 0
  /\ account = [x \in Account |-> Absent]
  /\ deleted = {}
  /\ token = [t \in Token |-> Absent]
  /\ authentication = [a \in Authentication |-> Absent]
  /\ call = [c \in Call |-> Idle]
  /\ gone = {}

-----------------------------------------------------------------------------
Goto(c, state) == call' = [call EXCEPT ![c] = state]

Exists(x) == account[x] # Absent

\* Mutant: the claim exp is not required of a token.
NeverOver(t) == FALSE

Over(t) == now > token[t].expiresAt

Row(a) == authentication[a]
Spends(a, t) == Row(a) # Absent /\ Row(a).stored /\ Row(a).idTokenHash = t

\* Mutant: the index on id_token_hash is not unique.
NeverSpent(t) == FALSE

\* What SpentChecker looks for, and the unique index on id_token_hash.
Spent(t) == \E a \in Authentication : Spends(a, t)

-----------------------------------------------------------------------------
\* The generate endpoint: it asks whether there is an account, makes the link, and
\* sends it.  An address without one is answered alike.

AccountChecker(c, e) ==
  /\ call[c] = Idle
  /\ \E x \in Account : Exists(x) /\ account[x].address = e
  /\ Goto(c, [step |-> "send", address |-> e, expiresAt |-> now + LinkExpiration])
  /\ UNCHANGED <<now, account, deleted, token, authentication, gone>>

\* The mail arrives, late or at once.
SendMessage(c, t) ==
  /\ call[c].step = "send"
  /\ token[t] = Absent
  /\ token' = [token EXCEPT ![t] = [link |-> TRUE, address |-> call[c].address,
                                    expiresAt |-> call[c].expiresAt]]
  /\ Goto(c, Idle)
  /\ UNCHANGED <<now, account, deleted, authentication, gone>>

\* The provider signs one for whoever has verified the address with it.
IssueIdToken(t, e) ==
  /\ token[t] = Absent
  /\ token' = [token EXCEPT ![t] = [link |-> FALSE, address |-> e,
                                    expiresAt |-> now + IdTokenLifetime]]
  /\ UNCHANGED <<now, account, deleted, authentication, call, gone>>

-----------------------------------------------------------------------------
\* The landing endpoint.  What it says of a link is advice: it changes nothing.

Unusable(t) == gone' = gone \union {t}

Looked(t) == [step |-> "check spent", token |-> t]

Land(c, t) ==
  /\ call[c] = Idle
  /\ token[t] # Absent /\ token[t].link
  /\ IF Over(t)
     THEN Unusable(t) /\ UNCHANGED call
     ELSE Goto(c, Looked(t)) /\ UNCHANGED gone
  /\ UNCHANGED <<now, account, deleted, token, authentication>>

\* Mutant: a check that fails is taken for a link that is spent.
SaidSpent(t) == {TRUE}

\* The check says so, or fails, which offers the form.
SpentCheck(t) == {Spent(t), FALSE}

SpentChecker(c) ==
  /\ call[c].step = "check spent"
  /\ \E spent \in SpentCheck(call[c].token) :
       IF spent THEN Unusable(call[c].token) ELSE UNCHANGED gone
  /\ Goto(c, Idle)
  /\ UNCHANGED <<now, account, deleted, token, authentication>>

-----------------------------------------------------------------------------
\* The validate and id token endpoints: a token that is not over, then the first two
\* calls of CreateSession.

Submit(c, t) ==
  /\ call[c] = Idle
  /\ token[t] # Absent
  /\ ~Over(t)
  /\ Goto(c, [step |-> "select account", token |-> t, at |-> now])
  /\ UNCHANGED <<now, account, deleted, token, authentication, gone>>

ValidateLink(c, t) == Submit(c, t) /\ token[t].link
AuthenticateIdToken(c, t) == Submit(c, t) /\ ~token[t].link

SelectEmailAddressAccount(c) ==
  /\ call[c].step = "select account"
  /\ \E x \in Account :
       /\ Exists(x)
       /\ account[x].address = token[call[c].token].address
       /\ ~account[x].locked
       /\ Goto(c, [step |-> "insert", token |-> call[c].token, at |-> call[c].at, account |-> x])
  /\ UNCHANGED <<now, account, deleted, token, authentication, gone>>

InsertAuthentication(c, a) ==
  /\ call[c].step = "insert"
  /\ ~Spent(call[c].token) /\ Exists(call[c].account)
  /\ authentication[a] = Absent
  /\ authentication' = [authentication EXCEPT
       ![a] = [account |-> call[c].account, idTokenHash |-> call[c].token, stored |-> TRUE]]
  /\ Goto(c, Idle)
  /\ UNCHANGED <<now, account, deleted, token, gone>>

-----------------------------------------------------------------------------
\* The account table: an address has one account at a time, and another later.

AddAccount(x, e) ==
  /\ ~Exists(x) /\ x \notin deleted
  /\ \A y \in Account : Exists(y) => account[y].address # e
  /\ account' = [account EXCEPT ![x] = [address |-> e, locked |-> FALSE]]
  /\ UNCHANGED <<now, deleted, token, authentication, call, gone>>

UpdateAccount(x, row) ==
  /\ Exists(x) /\ account[x] # row
  /\ \A y \in Account \ {x} : Exists(y) => account[y].address # row.address
  /\ account' = [account EXCEPT ![x] = row]
  /\ UNCHANGED <<now, deleted, token, authentication, call, gone>>

\* Its authentications go with it, and what they spent is forgotten.
DeleteAccount(x) ==
  /\ Exists(x)
  /\ account' = [account EXCEPT ![x] = Absent]
  /\ deleted' = deleted \union {x}
  /\ authentication' = [a \in Authentication |->
       IF Row(a) # Absent /\ Row(a).account = x THEN [Row(a) EXCEPT !.stored = FALSE] ELSE Row(a)]
  /\ gone' = {t \in gone : \A a \in Authentication : Spends(a, t) => Row(a).account # x}
  /\ UNCHANGED <<now, token, call>>

\* A refusal, a failure, a request that is cancelled: nothing is undone.
Abandon(c) ==
  /\ call[c] # Idle
  /\ Goto(c, Idle)
  /\ UNCHANGED <<now, account, deleted, token, authentication, gone>>

Tick ==
  /\ now < MaxTime
  /\ now' = now + 1
  /\ UNCHANGED <<account, deleted, token, authentication, call, gone>>

Next ==
  \/ \E c \in Call :
       \/ \E e \in Address : AccountChecker(c, e)
       \/ \E t \in Token :
            \/ SendMessage(c, t) \/ Land(c, t)
            \/ ValidateLink(c, t) \/ AuthenticateIdToken(c, t)
       \/ SpentChecker(c) \/ SelectEmailAddressAccount(c)
       \/ \E a \in Authentication : InsertAuthentication(c, a)
       \/ Abandon(c)
  \/ \E t \in Token, e \in Address : IssueIdToken(t, e)
  \/ \E x \in Account :
       \/ \E e \in Address : AddAccount(x, e)
       \/ \E row \in AccountRow : UpdateAccount(x, row)
       \/ DeleteAccount(x)
  \/ Tick

Spec == Init /\ [][Next]_vars

-----------------------------------------------------------------------------
\* A link that has expired or that the landing page called unusable, and an id token
\* that has expired, opens a session from then on only for a submission that was
\* verified before it expired and is stored after: not for one that waits behind the
\* page, and never for one that names a spent token.
Opens(t) ==
  \E a \in Authentication :
    Row(a) = Absent /\ authentication'[a] # Absent /\ authentication'[a].idTokenHash = t
Expired(t) == token[t] # Absent /\ now > token[t].expiresAt
GoneIsGone ==
  [][\A t \in Token :
       (t \in gone \/ Expired(t)) /\ Opens(t) =>
         /\ Expired(t)
         /\ \E c \in Call : /\ call[c].step = "insert" /\ call[c].token = t
                           /\ call[c].at <= token[t].expiresAt]_vars

\* A token signs in once, by whichever endpoint and however many requests present it;
\* a second time only when the account of the first is deleted, which forgets it.
SecondSessionOnlyAfterDeletion ==
  \A a, b \in Authentication :
    a # b /\ Row(a) # Absent /\ Row(b) # Absent /\ Row(a).idTokenHash = Row(b).idTokenHash =>
      \/ ~Row(a).stored /\ Row(a).account \in deleted
      \/ ~Row(b).stored /\ Row(b).account \in deleted

=============================================================================
