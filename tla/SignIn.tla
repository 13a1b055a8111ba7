------------------------------- MODULE SignIn -------------------------------
(***************************************************************************)
(* Signing in at a provider: the login endpoint, which begins a flow, and  *)
(* the callback endpoint, which completes it, refuses it, or begins it     *)
(* again when it expired on the way.                                       *)
(*                                                                         *)
(* oauthFlow is the table; "flow" is what is true of each flow for good,   *)
(* with how often its sign-in had been restarted. A flow's id is its       *)
(* browser's callback cookie, and stands for its state and its verifier    *)
(* too, which are unique to it. A callback link is the code in it.         *)
(***************************************************************************)
EXTENDS Integers

CONSTANTS
  Browser, Flow, User,
  Admitted,               \* users whose claims the endpoint admits, with an account
  Code,                   \* answers of the provider, an error or a code
  Call,                   \* callback requests at once
  Absent, NoCookie, Declined,
  OauthFlowDuration,
  LoginPath,              \* whether the callback endpoint is told of one
  MaxTime                 \* bound of the clock

ASSUME SignInAssumption ==
  /\ Admitted \subseteq User
  /\ OauthFlowDuration \in Nat /\ LoginPath \in BOOLEAN
  /\ Absent \notin Nat /\ NoCookie \notin Flow /\ Declined \notin User

VARIABLES
  now,
  flow,
  oauthFlow,             \* when each flow that is stored expires
  cookie,                 \* each browser's callback cookie
  code,
  call,
  session,                \* sessions opened (history)
  ends                    \* how often a flow opened a session or was restarted (history)

vars == <<now, flow, oauthFlow, cookie, code, call, session, ends>>

FlowRow == [browser: Browser, at: Nat, restarts: Nat]
CodeRow == [flow: Flow, user: User \union {Declined}, spent: BOOLEAN]
Session == [browser: Browser, flow: Flow, user: User]

ASSUME AbsentRowAssumption == Absent \notin FlowRow \union CodeRow

Idle == [step |-> "idle"]
Presented == [step: {"pop"}, browser: Browser, code: Code, cookie: Flow \union {NoCookie}]
Unmatched == [step: {"refuse"}, browser: Browser, code: Code, at: Nat]
Popped == [step: {"check"}, browser: Browser, code: Code, flow: Flow, expiresAt: Nat]
Checked == [step: {"exchange", "create"}, browser: Browser, code: Code, flow: Flow]
Restarted == [step: {"again"}, browser: Browser, restarts: Nat]
Answered == [step: {"answer"}, browser: Browser]
CallState == {Idle} \union Presented \union Unmatched \union Popped \union Checked
               \union Restarted \union Answered

TypeOK ==
  /\ now \in Nat
  /\ flow \in [Flow -> FlowRow \union {Absent}]
  /\ oauthFlow \in [Flow -> Nat \union {Absent}]
  /\ cookie \in [Browser -> Flow \union {NoCookie}]
  /\ code \in [Code -> CodeRow \union {Absent}]
  /\ call \in [Call -> CallState]
  /\ session \in SUBSET Session
  /\ ends \in [Flow -> Nat]

Init ==
  /\ now = 0
  /\ flow = [f \in Flow |-> Absent]
  /\ oauthFlow = [f \in Flow |-> Absent]
  /\ cookie = [b \in Browser |-> NoCookie]
  /\ code = [k \in Code |-> Absent]
  /\ call = [c \in Call |-> Idle]
  /\ session = {}
  /\ ends = [f \in Flow |-> 0]

-----------------------------------------------------------------------------
Expiry == now + OauthFlowDuration

\* The row and the answer's cookie, which the browser keeps or does not.
InsertOauthFlow(f, b, restarts) ==
  /\ flow[f] = Absent
  /\ flow' = [flow EXCEPT ![f] = [browser |-> b, at |-> now, restarts |-> restarts]]
  /\ oauthFlow' = [oauthFlow EXCEPT ![f] = Expiry]
  /\ cookie' = [cookie EXCEPT ![b] = f] \/ cookie' = [cookie EXCEPT ![b] = NoCookie]

Login(f, b) ==
  /\ InsertOauthFlow(f, b, 0)
  /\ UNCHANGED <<now, code, call, session, ends>>

\* The cookie runs out, or the browser clears it.
DropCookie(b) ==
  /\ cookie[b] # NoCookie
  /\ cookie' = [cookie EXCEPT ![b] = NoCookie]
  /\ UNCHANGED <<now, flow, oauthFlow, code, call, session, ends>>

\* At the provider, with the flow's state and challenge: whoever has the page
\* open signs in or declines, as often as they go back to it.
Authorize(k, f, u) ==
  /\ flow[f] # Absent /\ code[k] = Absent
  /\ code' = [code EXCEPT ![k] = [flow |-> f, user |-> u, spent |-> FALSE]]
  /\ UNCHANGED <<now, flow, oauthFlow, cookie, call, session, ends>>

-----------------------------------------------------------------------------
Goto(c, state) == call' = [call EXCEPT ![c] = state]

\* Mutant: the state in the link stands in for the cookie.
CookieOfState(b, k) == IF cookie[b] = NoCookie THEN code[k].flow ELSE cookie[b]

CallbackCookie(b, k) == cookie[b]

\* A link is opened, once or again, in whichever browser.
Callback(c, b, k) ==
  /\ call[c] = Idle
  /\ code[k] # Absent
  /\ Goto(c, [step |-> "pop", browser |-> b, code |-> k, cookie |-> CallbackCookie(b, k)])
  /\ UNCHANGED <<now, flow, oauthFlow, cookie, code, session, ends>>

\* Mutant: the flow is read, and stays.
Peek(f) == oauthFlow' = oauthFlow

Remove(f) == oauthFlow' = [oauthFlow EXCEPT ![f] = Absent]

PopOauthFlow(c) ==
  /\ call[c].step = "pop"
  /\ LET f == call[c].cookie
         found == f # NoCookie /\ oauthFlow[f] # Absent
     IN
     \/ /\ found
        /\ Goto(c, [step |-> "check", browser |-> call[c].browser, code |-> call[c].code,
                    flow |-> f, expiresAt |-> oauthFlow[f]])
        /\ Remove(f)
     \/ /\ ~found
        /\ Goto(c, [step |-> "refuse", browser |-> call[c].browser, code |-> call[c].code,
                    at |-> now])
        /\ UNCHANGED oauthFlow
  /\ UNCHANGED <<now, flow, cookie, code, session, ends>>

\* A sign-in is begun again where there is a LoginPath, and the provider's answer
\* is no error.
Restartable(c) == LoginPath /\ code[call[c].code].user # Declined

Restart(c, f) ==
  /\ Goto(c, [step |-> "again", browser |-> call[c].browser, restarts |-> flow[f].restarts + 1])
  /\ ends' = [ends EXCEPT ![f] = @ + 1]

\* Mutant: the statement does not look at the expiry.
StoredBy(f, at) == oauthFlow[f] # Absent

ExpiredBy(f, at) == oauthFlow[f] # Absent /\ oauthFlow[f] <= at

\* popExpiredOauthFlowByState, at the time that was read before.
RefuseOrRestart(c) ==
  /\ call[c].step = "refuse"
  /\ LET f == code[call[c].code].flow IN
     \/ Restartable(c) /\ ExpiredBy(f, call[c].at) /\ Restart(c, f) /\ Remove(f)
     \/ /\ ~(Restartable(c) /\ ExpiredBy(f, call[c].at))
        /\ Goto(c, Idle) /\ UNCHANGED <<oauthFlow, ends>>
  /\ UNCHANGED <<now, flow, cookie, code, session>>

\* Mutant: neither the state nor the verifier is compared.
Unmatching(c) == TRUE

Matches(c) == code[call[c].code].flow = call[c].flow

\* Mutant: the comparison is turned around.
NotOver(c) == call[c].expiresAt > now

Over(c) == call[c].expiresAt < now

Check(c) ==
  /\ call[c].step = "check"
  /\ \/ Over(c) /\ Restartable(c) /\ Restart(c, call[c].flow)
     \/ /\ IF Over(c) THEN ~Restartable(c) ELSE ~Matches(c)
        /\ Goto(c, Idle) /\ UNCHANGED ends
     \/ /\ ~Over(c) /\ Matches(c) /\ code[call[c].code].user = Declined
        /\ Goto(c, [step |-> "answer", browser |-> call[c].browser]) /\ UNCHANGED ends
     \/ /\ ~Over(c) /\ Matches(c) /\ code[call[c].code].user # Declined
        /\ Goto(c, [step |-> "exchange", browser |-> call[c].browser,
                    code |-> call[c].code, flow |-> call[c].flow])
        /\ UNCHANGED ends
  /\ UNCHANGED <<now, flow, oauthFlow, cookie, code, session>>

\* The provider takes a code once, with the verifier of its flow.
Exchange(c) ==
  /\ call[c].step = "exchange"
  /\ \/ /\ ~code[call[c].code].spent /\ Matches(c)
        /\ code' = [code EXCEPT ![call[c].code].spent = TRUE]
        /\ Goto(c, [call[c] EXCEPT !.step = "create"])
     \/ /\ code[call[c].code].spent \/ ~Matches(c)
        /\ Goto(c, Idle) /\ UNCHANGED code
  /\ UNCHANGED <<now, flow, oauthFlow, cookie, session, ends>>

\* The session of whom the provider names. An account that is locked is one of
\* the refusals of Abandon.
CreateSession(c) ==
  LET user == code[call[c].code].user IN
  /\ call[c].step = "create"
  /\ \/ /\ user \in Admitted
        /\ session' = session \union {[browser |-> call[c].browser, flow |-> call[c].flow,
                                       user |-> user]}
        /\ ends' = [ends EXCEPT ![call[c].flow] = @ + 1]
        /\ Goto(c, [step |-> "answer", browser |-> call[c].browser])
     \/ user \notin Admitted /\ Goto(c, Idle) /\ UNCHANGED <<session, ends>>
  /\ UNCHANGED <<now, flow, oauthFlow, cookie, code>>

\* The answer reaches the browser and clears its cookie, whichever it is by then.
Receive(c) ==
  /\ call[c].step = "answer"
  /\ cookie' = [cookie EXCEPT ![call[c].browser] = NoCookie]
  /\ Goto(c, Idle)
  /\ UNCHANGED <<now, flow, oauthFlow, code, session, ends>>

\* The browser is sent to the login endpoint, its cookie cleared on the way.
Follow(c, f) ==
  /\ call[c].step = "again"
  /\ InsertOauthFlow(f, call[c].browser, call[c].restarts)
  /\ Goto(c, Idle)
  /\ UNCHANGED <<now, code, session, ends>>

\* The request is refused on other grounds, fails or is cancelled, or its answer
\* is lost: what it popped stays popped.
Abandon(c) ==
  /\ call[c] # Idle
  /\ Goto(c, Idle)
  /\ UNCHANGED <<now, flow, oauthFlow, cookie, code, session, ends>>

Tick ==
  /\ now < MaxTime
  /\ now' = now + 1
  /\ UNCHANGED <<flow, oauthFlow, cookie, code, call, session, ends>>

Next ==
  \/ \E f \in Flow, b \in Browser : Login(f, b)
  \/ \E b \in Browser : DropCookie(b)
  \/ \E k \in Code, f \in Flow, u \in User \union {Declined} : Authorize(k, f, u)
  \/ \E c \in Call :
       \/ \E b \in Browser, k \in Code : Callback(c, b, k)
       \/ PopOauthFlow(c) \/ RefuseOrRestart(c) \/ Check(c) \/ Exchange(c)
       \/ CreateSession(c) \/ Receive(c) \/ Abandon(c)
       \/ \E f \in Flow : Follow(c, f)
  \/ Tick

Spec == Init /\ [][Next]_vars

-----------------------------------------------------------------------------
\* "The cookie is what binds the callback to the browser that began the flow":
\* wherever links are opened, a session is opened in the browser whose flow it is.
SessionInBrowserThatBegan == \A s \in session : flow[s.flow].browser = s.browser

\* However often a flow's links are opened, with its cookie or by their state, it
\* opens a session or is restarted once, and never both.
FlowEndsOnce == \A f \in Flow : ends[f] <= 1

\* With two sign-ins begun in one browser the link of one uses up the flow of the
\* other, and never completes it: a session is of whom an answer to its own flow named,
\* and that answer is spent.  (A flow that has run out is begun again by whichever link
\* is opened with its cookie, its own or not: the state is compared only after that.)
SessionByOwnAnswer ==
  \A s \in session : \E k \in Code :
    code[k] # Absent /\ code[k].flow = s.flow /\ code[k].user = s.user /\ code[k].spent

\* "A live flow is never removed by its state alone": only a request that had its
\* cookie removes one that has not expired.
LiveFlowKept ==
  [][\A f \in Flow :
       oauthFlow[f] # Absent /\ oauthFlow'[f] = Absent /\ now < oauthFlow[f] =>
         \E c \in Call : call[c].step = "pop" /\ call[c].cookie = f]_vars

\* "Refused rather than sent round again": a sign-in comes back to the login
\* endpoint once in the lifetime of a flow at most, whatever cookies are kept.
RestartsTakeTime ==
  \A f \in Flow : flow[f] # Absent => flow[f].restarts * OauthFlowDuration <= flow[f].at
=============================================================================
