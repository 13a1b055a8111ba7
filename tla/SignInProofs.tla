---------------------------- MODULE SignInProofs ----------------------------
(***************************************************************************)
(* Proofs about SignIn: for any number of browsers, flows, links and       *)
(* callbacks at once, and whatever becomes of them.                        *)
(***************************************************************************)
EXTENDS SignIn, TLAPS

\* What is stored, kept by browsers and handed out is of flows that were begun.
FlowsKnown ==
  /\ \A f \in Flow : oauthFlow[f] # Absent =>
       flow[f] # Absent /\ oauthFlow[f] = flow[f].at + OauthFlowDuration
  /\ \A b \in Browser : cookie[b] # NoCookie =>
       flow[cookie[b]] # Absent /\ flow[cookie[b]].browser = b
  /\ \A k \in Code : code[k] # Absent => flow[code[k].flow] # Absent

\* A flow that is still to begin, or to be popped, has not ended.
NotEndedYet == \A f \in Flow : flow[f] = Absent \/ oauthFlow[f] # Absent => ends[f] = 0

\* A request that popped a flow by its cookie.
Holds(c, f) == call[c].step \in {"check", "exchange", "create"} /\ call[c].flow = f

\* What the steps of a request rely on.
CallKnown(c) ==
  /\ call[c].step \in {"pop", "refuse", "check", "exchange", "create"} =>
       code[call[c].code] # Absent
  /\ call[c].step \in {"exchange", "create"} => code[call[c].code].user # Declined
  /\ call[c].step = "pop" /\ call[c].cookie # NoCookie =>
       flow[call[c].cookie] # Absent /\ flow[call[c].cookie].browser = call[c].browser
  /\ call[c].step = "refuse" => call[c].at <= now
  /\ \A f \in Flow : Holds(c, f) =>
       /\ flow[f] # Absent /\ flow[f].browser = call[c].browser
       /\ oauthFlow[f] = Absent /\ ends[f] = 0
       /\ \A d \in Call : Holds(d, f) => d = c
       /\ call[c].step = "check" => call[c].expiresAt = flow[f].at + OauthFlowDuration
  /\ call[c].step = "again" => call[c].restarts * OauthFlowDuration <= now

Kept ==
  /\ TypeOK /\ FlowsKnown /\ NotEndedYet
  /\ \A c \in Call : CallKnown(c)
  /\ SessionInBrowserThatBegan /\ FlowEndsOnce /\ RestartsTakeTime
  /\ \A s \in session : flow[s.flow] # Absent

-----------------------------------------------------------------------------
LEMMA CallFacts ==
  ASSUME TypeOK, NEW c \in Call
  PROVE  /\ call[c].step = "pop" => call[c] \in Presented
         /\ call[c].step = "refuse" => call[c] \in Unmatched
         /\ call[c].step = "check" => call[c] \in Popped
         /\ call[c].step \in {"exchange", "create"} => call[c] \in Checked
         /\ call[c].step = "again" => call[c] \in Restarted
         /\ call[c].step = "answer" => call[c] \in Answered
<1>1. call[c] \in CallState
  BY DEF TypeOK
<1>2. /\ Idle.step = "idle"
      /\ \A s \in Presented : s.step = "pop"
      /\ \A s \in Unmatched : s.step = "refuse"
      /\ \A s \in Popped : s.step = "check"
      /\ \A s \in Checked : s.step \in {"exchange", "create"}
      /\ \A s \in Restarted : s.step = "again"
      /\ \A s \in Answered : s.step = "answer"
  BY DEF Idle, Presented, Unmatched, Popped, Checked, Restarted, Answered
<1> QED BY <1>1, <1>2 DEF CallState

LEMMA GotoFacts ==
  ASSUME TypeOK, NEW c \in Call, NEW state \in CallState, Goto(c, state)
  PROVE  /\ call' \in [Call -> CallState]
         /\ call'[c] = state
         /\ \A d \in Call : d # c => call'[d] = call[d]
BY DEF TypeOK, Goto

LEMMA Rows ==
  /\ \A r \in FlowRow : r # Absent /\ r.browser \in Browser /\ r.at \in Nat /\ r.restarts \in Nat
  /\ \A r \in CodeRow : r # Absent /\ r.flow \in Flow /\ r.user \in User \union {Declined}
BY AbsentRowAssumption DEF FlowRow, CodeRow

LEMMA IdleFacts == Idle \in CallState /\ Idle.step = "idle"
BY DEF Idle, CallState

LEMMA InitKept == Init => Kept
<1> SUFFICES ASSUME Init PROVE Kept
  OBVIOUS
<1>1. TypeOK
  BY IdleFacts, SignInAssumption DEF Init, TypeOK
<1>2. \A c \in Call : call[c].step = "idle"
  BY IdleFacts DEF Init
<1>3. \A c \in Call : CallKnown(c)
  BY <1>2 DEF CallKnown, Holds
<1>4. FlowsKnown /\ NotEndedYet
  BY SignInAssumption DEF Init, FlowsKnown, NotEndedYet
<1>5. SessionInBrowserThatBegan /\ FlowEndsOnce /\ RestartsTakeTime
  BY DEF Init, SessionInBrowserThatBegan, FlowEndsOnce, RestartsTakeTime
<1>6. \A s \in session : flow[s.flow] # Absent
  BY DEF Init
<1> QED BY <1>1, <1>3, <1>4, <1>5, <1>6 DEF Kept

\* What is known of requests that do not step: flows, codes and the clock only
\* grow, and nobody ends or stores again a flow that another request holds.
LEMMA OthersKnown ==
  ASSUME NEW d \in Call, CallKnown(d), TypeOK, TypeOK', call'[d] = call[d],
         \A f \in Flow : flow[f] # Absent => flow'[f] = flow[f],
         \A k \in Code : code[k] # Absent =>
           code'[k] # Absent /\ code'[k].user = code[k].user,
         now <= now',
         \A f \in Flow : Holds(d, f) =>
           /\ oauthFlow'[f] = Absent /\ ends'[f] = ends[f]
           /\ \A e \in Call : Holds(e, f)' => e = d
  PROVE  CallKnown(d)'
<1>1. /\ call[d].step = "pop" => call[d] \in Presented
      /\ call[d].step = "refuse" => call[d] \in Unmatched
      /\ call[d].step = "check" => call[d] \in Popped
      /\ call[d].step \in {"exchange", "create"} => call[d] \in Checked
      /\ call[d].step = "again" => call[d] \in Restarted
  BY CallFacts
<1>2. call[d].step \in {"pop", "refuse", "check", "exchange", "create"} =>
        code'[call[d].code] # Absent
  BY <1>1 DEF CallKnown, Presented, Unmatched, Popped, Checked
<1>7. call[d].step \in {"exchange", "create"} => code'[call[d].code].user # Declined
  BY <1>1 DEF CallKnown, Checked
<1>3. call[d].step = "pop" /\ call[d].cookie # NoCookie =>
        flow'[call[d].cookie] # Absent /\ flow'[call[d].cookie].browser = call[d].browser
  <2> SUFFICES ASSUME call[d].step = "pop", call[d].cookie # NoCookie
      PROVE flow'[call[d].cookie] # Absent /\ flow'[call[d].cookie].browser = call[d].browser
    OBVIOUS
  <2>1. call[d].cookie \in Flow
    BY <1>1 DEF Presented
  <2> QED BY <2>1 DEF CallKnown
<1>4. call[d].step = "refuse" => call[d].at <= now'
  <2> SUFFICES ASSUME call[d].step = "refuse" PROVE call[d].at <= now'
    OBVIOUS
  <2>1. call[d].at \in Nat /\ call[d].at <= now /\ now \in Nat /\ now' \in Nat
    BY <1>1 DEF Unmatched, CallKnown, TypeOK
  <2> QED BY <2>1
<1>5. ASSUME NEW f \in Flow, Holds(d, f)'
      PROVE  /\ flow'[f] # Absent /\ flow'[f].browser = call[d].browser
             /\ oauthFlow'[f] = Absent /\ ends'[f] = 0
             /\ \A e \in Call : Holds(e, f)' => e = d
             /\ call[d].step = "check" => call[d].expiresAt = flow'[f].at + OauthFlowDuration
  <2>1. Holds(d, f)
    BY <1>5 DEF Holds
  <2> QED BY <2>1 DEF CallKnown
<1>6. call[d].step = "again" => call[d].restarts * OauthFlowDuration <= now'
  <2> SUFFICES ASSUME call[d].step = "again"
      PROVE call[d].restarts * OauthFlowDuration <= now'
    OBVIOUS
  <2> DEFINE length == call[d].restarts * OauthFlowDuration
  <2>1. call[d].restarts \in Nat
    BY <1>1 DEF Restarted
  <2>2. length \in Nat
    BY <2>1, SignInAssumption
  <2>3. length <= now
    BY DEF CallKnown
  <2> HIDE DEF length
  <2>4. length <= now'
    BY <2>2, <2>3 DEF TypeOK
  <2> QED BY <2>4 DEF length
<1> QED BY <1>2, <1>3, <1>4, <1>5, <1>6, <1>7 DEF CallKnown


\* Cookies that are kept or cleared are of flows of their browsers.
LEMMA CookiesKnown ==
  ASSUME TypeOK, FlowsKnown, UNCHANGED <<flow, oauthFlow, code>>,
         \A b \in Browser : cookie'[b] = cookie[b] \/ cookie'[b] = NoCookie
  PROVE  FlowsKnown'
BY DEF FlowsKnown

\* A request takes a step that writes nothing but cookies away.
LEMMA QuietKeeps ==
  ASSUME Kept, NEW c \in Call, NEW state \in CallState, Goto(c, state),
         UNCHANGED <<now, flow, oauthFlow, code, session, ends>>,
         cookie' \in [Browser -> Flow \union {NoCookie}],
         \A b \in Browser : cookie'[b] = cookie[b] \/ cookie'[b] = NoCookie,
         \A f \in Flow : Holds(c, f)' => Holds(c, f),
         CallKnown(c)'
  PROVE  Kept'
<1>1. TypeOK
  BY DEF Kept
<1>2. /\ call' \in [Call -> CallState] /\ call'[c] = state
      /\ \A d \in Call : d # c => call'[d] = call[d]
  BY <1>1, GotoFacts
<1>3. TypeOK'
  BY <1>1, <1>2 DEF TypeOK
<1>4. FlowsKnown' /\ NotEndedYet'
  BY <1>1, CookiesKnown DEF Kept, NotEndedYet
<1>5. ASSUME NEW d \in Call PROVE CallKnown(d)'
  <2>1. CASE d = c
    BY <2>1
  <2>2. CASE d # c
    <3>1. call'[d] = call[d] /\ CallKnown(d)
      BY <1>2, <2>2 DEF Kept
    <3>2. ASSUME NEW f \in Flow, Holds(d, f), NEW e \in Call, Holds(e, f)' PROVE e = d
      <4>1. Holds(e, f)
        BY <1>2, <3>2 DEF Holds
      <4> QED BY <4>1, <3>1, <3>2 DEF CallKnown
    <3>3. \A f \in Flow : Holds(d, f) => oauthFlow'[f] = Absent /\ ends'[f] = ends[f]
      BY <3>1 DEF CallKnown
    <3>4. now <= now'
      BY <1>1 DEF TypeOK
    <3> QED BY <1>1, <1>3, <3>1, <3>2, <3>3, <3>4, OthersKnown
  <2> QED BY <2>1, <2>2
<1>6. /\ SessionInBrowserThatBegan' /\ FlowEndsOnce' /\ RestartsTakeTime'
      /\ \A s \in session' : flow'[s.flow] # Absent
  BY DEF Kept, SessionInBrowserThatBegan, FlowEndsOnce, RestartsTakeTime
<1> QED BY <1>3, <1>4, <1>5, <1>6 DEF Kept

\* A request that is answered, or given up, or whose answer has arrived.
LEMMA IdleKeeps ==
  ASSUME Kept, NEW c \in Call, Goto(c, Idle),
         UNCHANGED <<now, flow, oauthFlow, code, session, ends>>,
         cookie' \in [Browser -> Flow \union {NoCookie}],
         \A b \in Browser : cookie'[b] = cookie[b] \/ cookie'[b] = NoCookie
  PROVE  Kept'
<1>1. call'[c].step = "idle"
  BY IdleFacts, GotoFacts DEF Kept
<1>2. CallKnown(c)' /\ \A f \in Flow : ~Holds(c, f)'
  BY <1>1 DEF CallKnown, Holds
<1> QED BY <1>2, IdleFacts, QuietKeeps

LEMMA AbandonKeeps == ASSUME Kept, NEW c \in Call, Abandon(c) PROVE Kept'
BY IdleKeeps DEF Abandon, Kept, TypeOK

LEMMA ReceiveKeeps == ASSUME Kept, NEW c \in Call, Receive(c) PROVE Kept'
<1>1. /\ cookie' \in [Browser -> Flow \union {NoCookie}]
      /\ \A b \in Browser : cookie'[b] = cookie[b] \/ cookie'[b] = NoCookie
  BY CallFacts DEF Receive, Kept, TypeOK
<1> QED BY <1>1, IdleKeeps DEF Receive

LEMMA CallbackKeeps ==
  ASSUME Kept, NEW c \in Call, NEW b \in Browser, NEW k \in Code, Callback(c, b, k)
  PROVE  Kept'
<1> DEFINE state == [step |-> "pop", browser |-> b, code |-> k, cookie |-> cookie[b]]
<1>1. /\ state \in CallState /\ state.step = "pop" /\ state.browser = b
      /\ state.code = k /\ state.cookie = cookie[b]
  BY DEF CallState, Presented, Kept, TypeOK
<1>2. Goto(c, state) /\ code[k] # Absent
      /\ UNCHANGED <<now, flow, oauthFlow, cookie, code, session, ends>>
  BY DEF Callback, CallbackCookie
<1> HIDE DEF state
<1>3. call'[c] = state
  BY <1>1, <1>2, GotoFacts DEF Kept
<1>4. CallKnown(c)' /\ \A f \in Flow : ~Holds(c, f)'
  BY <1>1, <1>2, <1>3 DEF CallKnown, Holds, Kept, FlowsKnown
<1>5. cookie' \in [Browser -> Flow \union {NoCookie}]
  BY <1>2 DEF Kept, TypeOK
<1> QED BY <1>1, <1>2, <1>4, <1>5, QuietKeeps


\* A request takes a step by which flows are popped, or end: a flow it holds from
\* then on was stored, and one that ends is not stored and held by no other.
LEMMA FlowStepKeeps ==
  ASSUME Kept, TypeOK', NEW c \in Call,
         \A d \in Call : d # c => call'[d] = call[d],
         UNCHANGED <<now, flow, cookie>>,
         \A k \in Code : code[k] # Absent =>
           code'[k] # Absent /\ code'[k].user = code[k].user,
         \A k \in Code : code'[k] # Absent => code[k] # Absent /\ code'[k].flow = code[k].flow,
         \A f \in Flow : oauthFlow'[f] = oauthFlow[f] \/ oauthFlow'[f] = Absent,
         CallKnown(c)',
         \A f \in Flow : Holds(c, f)' => Holds(c, f) \/ oauthFlow[f] # Absent,
         \A f \in Flow :
           \/ ends'[f] = ends[f]
           \/ /\ flow[f] # Absent /\ oauthFlow'[f] = Absent
              /\ ends[f] = 0 /\ ends'[f] = 1
              /\ \A d \in Call : d # c => ~Holds(d, f),
         SessionInBrowserThatBegan', \A s \in session' : flow'[s.flow] # Absent
  PROVE  Kept'
<1>1. TypeOK
  BY DEF Kept
<1>2. FlowsKnown'
  BY DEF Kept, FlowsKnown
<1>3. NotEndedYet'
  BY DEF Kept, NotEndedYet
<1>4. ASSUME NEW d \in Call PROVE CallKnown(d)'
  <2>1. CASE d = c
    BY <2>1
  <2>2. CASE d # c
    <3>1. call'[d] = call[d] /\ CallKnown(d)
      BY <2>2 DEF Kept
    <3>2. ASSUME NEW f \in Flow, Holds(d, f), NEW e \in Call, Holds(e, f)' PROVE e = d
      <4>1. CASE e = c
        <5>1. oauthFlow[f] = Absent /\ (Holds(c, f) => c = d)
          BY <3>1, <3>2 DEF CallKnown
        <5> QED BY <4>1, <5>1, <3>2
      <4>2. CASE e # c
        <5>1. Holds(e, f)
          BY <3>2, <4>2 DEF Holds
        <5> QED BY <5>1, <3>1, <3>2 DEF CallKnown
      <4> QED BY <4>1, <4>2
    <3>3. ASSUME NEW f \in Flow, Holds(d, f) PROVE oauthFlow'[f] = Absent /\ ends'[f] = ends[f]
      BY <3>1, <3>3, <2>2 DEF CallKnown
    <3>4. now <= now' /\ \A f \in Flow : flow[f] # Absent => flow'[f] = flow[f]
      BY <1>1 DEF TypeOK
    <3> QED BY <1>1, <3>1, <3>2, <3>3, <3>4, OthersKnown
  <2> QED BY <2>1, <2>2
<1>5. FlowEndsOnce'
  BY DEF Kept, FlowEndsOnce
<1>6. RestartsTakeTime'
  BY DEF Kept, RestartsTakeTime
<1> QED BY <1>2, <1>3, <1>4, <1>5, <1>6 DEF Kept

LEMMA PopKeeps == ASSUME Kept, NEW c \in Call, PopOauthFlow(c) PROVE Kept'
<1>1. TypeOK /\ CallKnown(c) /\ FlowsKnown /\ NotEndedYet
  BY DEF Kept
<1>0. PICK f \in Flow \union {NoCookie} : f = call[c].cookie
  BY <1>1, CallFacts DEF PopOauthFlow, Presented
<1> DEFINE checking == [step |-> "check", browser |-> call[c].browser, code |-> call[c].code,
                        flow |-> f, expiresAt |-> oauthFlow[f]]
           refusing == [step |-> "refuse", browser |-> call[c].browser, code |-> call[c].code,
                        at |-> now]
<1>2. /\ call[c].step = "pop" /\ call[c].browser \in Browser /\ call[c].code \in Code
      /\ f \in Flow \union {NoCookie} /\ code[call[c].code] # Absent
      /\ f # NoCookie => flow[f] # Absent /\ flow[f].browser = call[c].browser
      /\ UNCHANGED <<now, flow, cookie, code, session, ends>>
  BY <1>0, <1>1, CallFacts DEF PopOauthFlow, Presented, CallKnown
<1>3. CASE f # NoCookie /\ oauthFlow[f] # Absent
  <2>1. /\ f \in Flow /\ oauthFlow[f] \in Nat /\ oauthFlow[f] = flow[f].at + OauthFlowDuration
        /\ ends[f] = 0
    BY <1>1, <1>2, <1>3 DEF TypeOK, FlowsKnown, NotEndedYet
  <2>2. /\ checking \in CallState /\ checking.step = "check" /\ checking.flow = f
        /\ checking.browser = call[c].browser /\ checking.code = call[c].code
        /\ checking.expiresAt = oauthFlow[f]
    BY <1>2, <2>1 DEF CallState, Popped
  <2>3. Goto(c, checking) /\ oauthFlow' = [oauthFlow EXCEPT ![f] = Absent]
    BY <1>0, <1>3 DEF PopOauthFlow, Remove
  <2> HIDE DEF checking
  <2>4. /\ call' \in [Call -> CallState] /\ call'[c] = checking
        /\ \A d \in Call : d # c => call'[d] = call[d]
    BY <1>1, <2>2, <2>3, GotoFacts
  <2>5. /\ oauthFlow' \in [Flow -> Nat \union {Absent}] /\ oauthFlow'[f] = Absent
        /\ \A g \in Flow : oauthFlow'[g] = oauthFlow[g] \/ oauthFlow'[g] = Absent
    BY <1>1, <2>3, <2>1 DEF TypeOK
  <2>6. TypeOK'
    BY <1>1, <1>2, <2>4, <2>5 DEF TypeOK
  <2>7. ASSUME NEW g \in Flow, Holds(c, g)' PROVE g = f
    BY <2>7, <2>4, <2>2 DEF Holds
  <2>8. ASSUME NEW d \in Call, Holds(d, f)' PROVE d = c
    <3>1. CASE d # c
      <4>1. Holds(d, f)
        BY <2>8, <3>1, <2>4 DEF Holds
      <4> QED BY <4>1, <2>1, <1>3 DEF Kept, CallKnown
    <3> QED BY <3>1
  <2>9. CallKnown(c)'
    BY <1>2, <1>3, <2>1, <2>2, <2>4, <2>5, <2>7, <2>8 DEF CallKnown
  <2>10. /\ SessionInBrowserThatBegan'
         /\ \A s \in session' : flow'[s.flow] # Absent
    BY <1>2 DEF Kept, SessionInBrowserThatBegan
  <2> QED
    BY <1>2, <1>3, <2>4, <2>5, <2>6, <2>7, <2>9, <2>10, FlowStepKeeps
<1>4. CASE ~(f # NoCookie /\ oauthFlow[f] # Absent)
  <2>1. /\ refusing \in CallState /\ refusing.step = "refuse"
        /\ refusing.code = call[c].code /\ refusing.at = now
    BY <1>1, <1>2 DEF CallState, Unmatched, TypeOK
  <2>2. Goto(c, refusing) /\ UNCHANGED oauthFlow
    BY <1>0, <1>4 DEF PopOauthFlow
  <2> HIDE DEF refusing
  <2>3. call'[c] = refusing
    BY <1>1, <2>1, <2>2, GotoFacts
  <2>4. CallKnown(c)' /\ \A g \in Flow : ~Holds(c, g)'
    BY <1>1, <1>2, <2>1, <2>3 DEF CallKnown, Holds, TypeOK
  <2>5. cookie' \in [Browser -> Flow \union {NoCookie}]
    BY <1>1, <1>2 DEF TypeOK
  <2> QED BY <1>2, <2>1, <2>2, <2>4, <2>5, QuietKeeps
<1> QED BY <1>3, <1>4


\* Once more, a sign-in is as many lifetimes old as it was restarted.
LEMMA OneMore ==
  ASSUME NEW n \in Nat, NEW d \in Nat, NEW at \in Nat, NEW time \in Nat,
         n * d <= at, at + d <= time
  PROVE  (n + 1) * d <= time
<1>1. (n + 1) * d = n * d + d
  OBVIOUS
<1>2. n * d \in Nat
  OBVIOUS
<1> QED BY <1>1, <1>2

\* A flow that has run out is restarted by the request that popped it.
LEMMA RestartKeeps ==
  ASSUME Kept, NEW c \in Call, NEW f \in Flow, Restart(c, f),
         call[c].browser \in Browser,
         flow[f] # Absent, flow[f].at + OauthFlowDuration <= now, ends[f] = 0,
         \A d \in Call : d # c => ~Holds(d, f),
         oauthFlow' \in [Flow -> Nat \union {Absent}], oauthFlow'[f] = Absent,
         \A g \in Flow : oauthFlow'[g] = oauthFlow[g] \/ oauthFlow'[g] = Absent,
         UNCHANGED <<now, flow, cookie, code, session>>
  PROVE  Kept'
<1> DEFINE state == [step |-> "again", browser |-> call[c].browser,
                     restarts |-> flow[f].restarts + 1]
<1>1. TypeOK
  BY DEF Kept
<1>2. flow[f].at \in Nat /\ flow[f].restarts \in Nat /\ now \in Nat
  BY <1>1, Rows DEF TypeOK
<1>3. /\ state \in CallState /\ state.step = "again"
      /\ state.restarts = flow[f].restarts + 1
  BY <1>2 DEF CallState, Restarted
<1>4. Goto(c, state) /\ ends' = [ends EXCEPT ![f] = ends[f] + 1]
  BY DEF Restart
<1>5. (flow[f].restarts + 1) * OauthFlowDuration <= now
  BY <1>2, OneMore, SignInAssumption DEF Kept, RestartsTakeTime
<1> HIDE DEF state
<1>6. /\ call' \in [Call -> CallState] /\ call'[c] = state
      /\ \A d \in Call : d # c => call'[d] = call[d]
  BY <1>1, <1>3, <1>4, GotoFacts
<1>7. /\ ends' \in [Flow -> Nat] /\ ends'[f] = 1
      /\ \A g \in Flow : g # f => ends'[g] = ends[g]
  BY <1>1, <1>4 DEF TypeOK
<1>8. TypeOK'
  BY <1>1, <1>6, <1>7 DEF TypeOK
<1>9. CallKnown(c)' /\ \A g \in Flow : ~Holds(c, g)'
  BY <1>3, <1>5, <1>6 DEF CallKnown, Holds
<1>10. SessionInBrowserThatBegan' /\ \A s \in session' : flow'[s.flow] # Absent
  BY DEF Kept, SessionInBrowserThatBegan
<1> QED BY <1>6, <1>7, <1>8, <1>9, <1>10, FlowStepKeeps

LEMMA RefuseOrRestartKeeps == ASSUME Kept, NEW c \in Call, RefuseOrRestart(c) PROVE Kept'
<1>1. TypeOK /\ CallKnown(c) /\ FlowsKnown /\ NotEndedYet
  BY DEF Kept
<1>2. /\ call[c].step = "refuse" /\ call[c].browser \in Browser /\ call[c].code \in Code
      /\ call[c].at \in Nat /\ call[c].at <= now /\ code[call[c].code] # Absent
      /\ UNCHANGED <<now, flow, cookie, code, session>>
  BY <1>1, CallFacts DEF RefuseOrRestart, Unmatched, CallKnown
<1>3. PICK f \in Flow : f = code[call[c].code].flow
  BY <1>1, <1>2, Rows DEF TypeOK
<1>4. CASE ExpiredBy(f, call[c].at) /\ Restart(c, f) /\ Remove(f)
  <2>1. /\ oauthFlow[f] # Absent /\ oauthFlow[f] <= call[c].at
        /\ oauthFlow' = [oauthFlow EXCEPT ![f] = Absent]
    BY <1>4 DEF ExpiredBy, Remove
  <2>2. /\ flow[f] # Absent /\ oauthFlow[f] = flow[f].at + OauthFlowDuration
        /\ ends[f] = 0 /\ oauthFlow[f] \in Nat
    BY <1>1, <2>1 DEF FlowsKnown, NotEndedYet, TypeOK
  <2>3. flow[f].at + OauthFlowDuration <= now
    BY <1>1, <1>2, <2>1, <2>2 DEF TypeOK
  <2>4. \A d \in Call : d # c => ~Holds(d, f)
    BY <2>1 DEF Kept, CallKnown
  <2>5. /\ oauthFlow' \in [Flow -> Nat \union {Absent}] /\ oauthFlow'[f] = Absent
        /\ \A g \in Flow : oauthFlow'[g] = oauthFlow[g] \/ oauthFlow'[g] = Absent
    BY <1>1, <2>1 DEF TypeOK
  <2> QED BY <1>2, <1>4, <2>2, <2>3, <2>4, <2>5, RestartKeeps
<1>5. CASE Goto(c, Idle) /\ UNCHANGED <<oauthFlow, ends>>
  <2>1. cookie' \in [Browser -> Flow \union {NoCookie}]
    BY <1>1, <1>2 DEF TypeOK
  <2> QED BY <1>2, <1>5, <2>1, IdleKeeps
<1> QED BY <1>3, <1>4, <1>5 DEF RefuseOrRestart


\* What a request that popped a flow knows of it.
LEMMA HolderFacts ==
  ASSUME Kept, NEW c \in Call, call[c].step \in {"check", "exchange", "create"}
  PROVE  /\ call[c].flow \in Flow /\ call[c].browser \in Browser /\ call[c].code \in Code
         /\ code[call[c].code] # Absent /\ code[call[c].code] \in CodeRow
         /\ flow[call[c].flow] # Absent /\ flow[call[c].flow].browser = call[c].browser
         /\ oauthFlow[call[c].flow] = Absent /\ ends[call[c].flow] = 0
         /\ \A d \in Call : d # c => ~Holds(d, call[c].flow)
         /\ call[c].step = "check" =>
              /\ call[c].expiresAt \in Nat
              /\ call[c].expiresAt = flow[call[c].flow].at + OauthFlowDuration
         /\ call[c].step # "check" => code[call[c].code].user # Declined
<1>1. TypeOK /\ CallKnown(c)
  BY DEF Kept
<1>2. /\ call[c].flow \in Flow /\ call[c].browser \in Browser /\ call[c].code \in Code
      /\ call[c].step = "check" => call[c].expiresAt \in Nat
  BY <1>1, CallFacts DEF Popped, Checked
<1>3. code[call[c].code] # Absent /\ code[call[c].code] \in CodeRow
  BY <1>1, <1>2 DEF CallKnown, TypeOK
<1>4. Holds(c, call[c].flow)
  BY DEF Holds
<1> QED BY <1>1, <1>2, <1>3, <1>4 DEF CallKnown

LEMMA CheckKeeps == ASSUME Kept, NEW c \in Call, Check(c) PROVE Kept'
<1> DEFINE exchanging == [step |-> "exchange", browser |-> call[c].browser,
                          code |-> call[c].code, flow |-> call[c].flow]
           answering == [step |-> "answer", browser |-> call[c].browser]
<1>1. TypeOK
  BY DEF Kept
<1>2. call[c].step = "check" /\ UNCHANGED <<now, flow, oauthFlow, cookie, code, session>>
  BY DEF Check
<1>3. cookie' \in [Browser -> Flow \union {NoCookie}]
  BY <1>1, <1>2 DEF TypeOK
<1>4. CASE Over(c) /\ Restart(c, call[c].flow)
  <2> DEFINE f == call[c].flow
  <2>1. f \in Flow /\ flow[f] # Absent /\ oauthFlow[f] = Absent /\ ends[f] = 0
    BY <1>2, HolderFacts
  <2>2. flow[f].at + OauthFlowDuration <= now
    BY <1>1, <1>2, <1>4, HolderFacts DEF Over, TypeOK
  <2>3. /\ oauthFlow' \in [Flow -> Nat \union {Absent}] /\ oauthFlow'[f] = Absent
        /\ \A g \in Flow : oauthFlow'[g] = oauthFlow[g] \/ oauthFlow'[g] = Absent
    BY <1>1, <1>2, <2>1 DEF TypeOK
  <2> QED BY <1>2, <1>4, <2>1, <2>2, <2>3, HolderFacts, RestartKeeps
<1>5. CASE Goto(c, Idle) /\ UNCHANGED ends
  BY <1>2, <1>3, <1>5, IdleKeeps
<1>6. CASE Goto(c, answering) /\ UNCHANGED ends
  <2>1. answering \in CallState /\ answering.step = "answer"
    BY <1>2, HolderFacts DEF CallState, Answered
  <2> HIDE DEF answering
  <2>2. call'[c] = answering
    BY <1>1, <1>6, <2>1, GotoFacts
  <2>3. CallKnown(c)' /\ \A f \in Flow : ~Holds(c, f)'
    BY <2>1, <2>2 DEF CallKnown, Holds
  <2> QED BY <1>2, <1>3, <1>6, <2>1, <2>3, QuietKeeps
<1>7. CASE Goto(c, exchanging) /\ UNCHANGED ends /\ code[call[c].code].user # Declined
  <2>1. /\ exchanging \in CallState /\ exchanging.step = "exchange"
        /\ exchanging.browser = call[c].browser /\ exchanging.code = call[c].code
        /\ exchanging.flow = call[c].flow
    BY <1>2, HolderFacts DEF CallState, Checked
  <2> HIDE DEF exchanging
  <2>2. /\ call'[c] = exchanging /\ \A d \in Call : d # c => call'[d] = call[d]
    BY <1>1, <1>7, <2>1, GotoFacts
  <2>3. ASSUME NEW f \in Flow, Holds(c, f)' PROVE Holds(c, f) /\ f = call[c].flow
    BY <1>2, <2>1, <2>2, <2>3 DEF Holds
  <2>4. ASSUME NEW f \in Flow, Holds(c, f)', NEW d \in Call, Holds(d, f)' PROVE d = c
    <3>1. d # c => Holds(d, f)
      BY <2>2, <2>4 DEF Holds
    <3> QED BY <1>2, <2>3, <2>4, <3>1, HolderFacts
  <2>5. CallKnown(c)'
    BY <1>2, <1>7, <2>1, <2>2, <2>3, <2>4, HolderFacts DEF CallKnown
  <2> QED BY <1>2, <1>3, <1>7, <2>1, <2>3, <2>5, QuietKeeps
<1> QED BY <1>4, <1>5, <1>6, <1>7 DEF Check

LEMMA ExchangeKeeps == ASSUME Kept, NEW c \in Call, Exchange(c) PROVE Kept'
<1> DEFINE creating == [call[c] EXCEPT !.step = "create"]
<1>1. TypeOK
  BY DEF Kept
<1>2. call[c].step = "exchange" /\ UNCHANGED <<now, flow, oauthFlow, cookie, session, ends>>
  BY DEF Exchange
<1>3. CASE /\ code' = [code EXCEPT ![call[c].code].spent = TRUE]
           /\ Goto(c, creating)
  <2>1. call[c] \in Checked
    BY <1>1, <1>2, CallFacts
  <2>2. /\ creating \in CallState /\ creating.step = "create"
        /\ creating.browser = call[c].browser /\ creating.code = call[c].code
        /\ creating.flow = call[c].flow
    BY <2>1 DEF CallState, Checked
  <2> HIDE DEF creating
  <2>3. /\ call' \in [Call -> CallState] /\ call'[c] = creating
        /\ \A d \in Call : d # c => call'[d] = call[d]
    BY <1>1, <1>3, <2>2, GotoFacts
  <2>4. [code[call[c].code] EXCEPT !.spent = TRUE] \in CodeRow
    BY <1>2, HolderFacts DEF CodeRow
  <2>5. /\ [code[call[c].code] EXCEPT !.spent = TRUE].flow = code[call[c].code].flow
        /\ [code[call[c].code] EXCEPT !.spent = TRUE].user = code[call[c].code].user
    BY <1>2, HolderFacts DEF CodeRow
  <2>6. /\ code' \in [Code -> CodeRow \union {Absent}]
        /\ \A k \in Code : code[k] # Absent =>
             code'[k] # Absent /\ code'[k].user = code[k].user
        /\ \A k \in Code : code'[k] # Absent => code[k] # Absent /\ code'[k].flow = code[k].flow
    BY <1>1, <1>2, <1>3, <2>4, <2>5, HolderFacts, Rows DEF TypeOK
  <2>7. TypeOK'
    BY <1>1, <1>2, <2>3, <2>6 DEF TypeOK
  <2>8. ASSUME NEW f \in Flow, Holds(c, f)' PROVE Holds(c, f) /\ f = call[c].flow
    BY <1>2, <2>2, <2>3, <2>8 DEF Holds
  <2>9. ASSUME NEW f \in Flow, Holds(c, f)', NEW d \in Call, Holds(d, f)' PROVE d = c
    <3>1. d # c => Holds(d, f)
      BY <2>3, <2>9 DEF Holds
    <3> QED BY <1>2, <2>8, <2>9, <3>1, HolderFacts
  <2>10. CallKnown(c)'
    BY <1>2, <2>2, <2>3, <2>6, <2>8, <2>9, HolderFacts DEF CallKnown
  <2>11. SessionInBrowserThatBegan' /\ \A s \in session' : flow'[s.flow] # Absent
    BY <1>2 DEF Kept, SessionInBrowserThatBegan
  <2> QED BY <1>2, <2>3, <2>6, <2>7, <2>8, <2>10, <2>11, FlowStepKeeps
<1>4. CASE Goto(c, Idle) /\ UNCHANGED code
  <2>1. cookie' \in [Browser -> Flow \union {NoCookie}]
    BY <1>1, <1>2 DEF TypeOK
  <2> QED BY <1>2, <1>4, <2>1, IdleKeeps
<1> QED BY <1>3, <1>4 DEF Exchange

LEMMA CreateKeeps == ASSUME Kept, NEW c \in Call, CreateSession(c) PROVE Kept'
<1> DEFINE answering == [step |-> "answer", browser |-> call[c].browser]
           new == [browser |-> call[c].browser, flow |-> call[c].flow,
                   user |-> code[call[c].code].user]
<1>1. TypeOK
  BY DEF Kept
<1>0. CASE Goto(c, Idle) /\ UNCHANGED <<now, flow, oauthFlow, cookie, code, session, ends>>
  BY <1>0, <1>1, IdleKeeps DEF TypeOK
<1> SUFFICES ASSUME code[call[c].code].user \in Admitted PROVE Kept'
  BY <1>0 DEF CreateSession
<1>2. PICK f \in Flow : f = call[c].flow
  BY HolderFacts DEF CreateSession
<1>3. /\ call[c].step = "create" /\ UNCHANGED <<now, flow, oauthFlow, cookie, code>>
      /\ session' = session \union {new} /\ ends' = [ends EXCEPT ![f] = ends[f] + 1]
      /\ Goto(c, answering)
  BY <1>2 DEF CreateSession
<1>4. /\ answering \in CallState /\ answering.step = "answer"
      /\ new \in Session /\ new.flow = f /\ flow[f].browser = new.browser
  BY <1>2, <1>3, HolderFacts, Rows DEF CallState, Answered, Session
<1> HIDE DEF answering, new
<1>5. /\ call' \in [Call -> CallState] /\ call'[c] = answering
      /\ \A d \in Call : d # c => call'[d] = call[d]
  BY <1>1, <1>3, <1>4, GotoFacts
<1>6. /\ ends' \in [Flow -> Nat] /\ ends[f] = 0 /\ ends'[f] = 1
      /\ \A g \in Flow : g # f => ends'[g] = ends[g]
  BY <1>1, <1>2, <1>3, HolderFacts DEF TypeOK
<1>7. TypeOK'
  BY <1>1, <1>3, <1>4, <1>5, <1>6 DEF TypeOK
<1>8. CallKnown(c)' /\ \A g \in Flow : ~Holds(c, g)'
  BY <1>4, <1>5 DEF CallKnown, Holds
<1>9. SessionInBrowserThatBegan' /\ \A s \in session' : flow'[s.flow] # Absent
  BY <1>2, <1>3, <1>4, HolderFacts DEF Kept, SessionInBrowserThatBegan
<1>10. /\ flow[f] # Absent /\ oauthFlow'[f] = Absent
       /\ \A d \in Call : d # c => ~Holds(d, f)
  BY <1>2, <1>3, HolderFacts
<1> QED BY <1>3, <1>5, <1>6, <1>7, <1>8, <1>9, <1>10, FlowStepKeeps

\* A flow is begun, by a browser or by one that is sent to begin again.
LEMMA InsertKeeps ==
  ASSUME Kept, NEW f \in Flow, NEW b \in Browser, NEW n \in Nat,
         n * OauthFlowDuration <= now, InsertOauthFlow(f, b, n),
         UNCHANGED <<now, code, session, ends>>,
         \/ UNCHANGED call
         \/ \E c \in Call : Goto(c, Idle)
  PROVE  Kept'
<1> DEFINE row == [browser |-> b, at |-> now, restarts |-> n]
<1>1. TypeOK /\ FlowsKnown /\ NotEndedYet
  BY DEF Kept
<1>2. /\ row \in FlowRow /\ row # Absent /\ row.browser = b /\ row.at = now
      /\ row.restarts = n
  BY <1>1, AbsentRowAssumption DEF TypeOK, FlowRow
<1>3. flow[f] = Absent /\ flow' = [flow EXCEPT ![f] = row]
  BY DEF InsertOauthFlow
<1> HIDE DEF row
<1>4. /\ flow' \in [Flow -> FlowRow \union {Absent}] /\ flow'[f] = row
      /\ \A g \in Flow : g # f => flow'[g] = flow[g]
  BY <1>1, <1>2, <1>3 DEF TypeOK
<1>5. /\ oauthFlow' \in [Flow -> Nat \union {Absent}]
      /\ oauthFlow'[f] = now + OauthFlowDuration
      /\ \A g \in Flow : g # f => oauthFlow'[g] = oauthFlow[g]
  BY <1>1, SignInAssumption DEF TypeOK, InsertOauthFlow, Expiry
<1>6. /\ cookie' \in [Browser -> Flow \union {NoCookie}]
      /\ \A a \in Browser : \/ cookie'[a] = cookie[a] \/ cookie'[a] = NoCookie
                            \/ a = b /\ cookie'[a] = f
  BY <1>1 DEF TypeOK, InsertOauthFlow
<1>7. /\ call' \in [Call -> CallState]
      /\ \A d \in Call : call'[d] = call[d] \/ call'[d].step = "idle"
  BY <1>1, IdleFacts, GotoFacts DEF TypeOK
<1>8. TypeOK'
  BY <1>1, <1>4, <1>5, <1>6, <1>7 DEF TypeOK
<1>9. FlowsKnown'
  <2>1. ASSUME NEW g \in Flow, oauthFlow'[g] # Absent
        PROVE flow'[g] # Absent /\ oauthFlow'[g] = flow'[g].at + OauthFlowDuration
    BY <1>1, <1>2, <1>4, <1>5, <2>1 DEF FlowsKnown
  <2>2. ASSUME NEW a \in Browser, cookie'[a] # NoCookie
        PROVE flow'[cookie'[a]] # Absent /\ flow'[cookie'[a]].browser = a
    <3>1. CASE a = b /\ cookie'[a] = f
      BY <3>1, <1>2, <1>4
    <3>2. CASE cookie'[a] = cookie[a]
      <4>1. cookie[a] \in Flow /\ flow[cookie[a]] # Absent /\ flow[cookie[a]].browser = a
        BY <1>1, <2>2, <3>2 DEF FlowsKnown, TypeOK
      <4> QED BY <4>1, <3>2, <1>3, <1>4
    <3> QED BY <3>1, <3>2, <2>2, <1>6
  <2>3. ASSUME NEW k \in Code, code[k] # Absent PROVE flow'[code[k].flow] # Absent
    <3>1. code[k].flow \in Flow /\ flow[code[k].flow] # Absent
      BY <1>1, <2>3, Rows DEF FlowsKnown, TypeOK
    <3> QED BY <3>1, <1>3, <1>4
  <2> QED BY <2>1, <2>2, <2>3 DEF FlowsKnown
<1>10. NotEndedYet'
  BY <1>1, <1>3, <1>4, <1>5 DEF NotEndedYet
<1>11. ASSUME NEW d \in Call PROVE CallKnown(d)'
  <2>1. CASE call'[d].step = "idle"
    BY <2>1 DEF CallKnown, Holds
  <2>2. CASE call'[d] = call[d]
    <3>1. CallKnown(d) /\ now <= now'
      BY <1>1 DEF Kept, TypeOK
    <3>2. ASSUME NEW g \in Flow, Holds(d, g)
          PROVE /\ oauthFlow'[g] = Absent /\ ends'[g] = ends[g]
                /\ \A e \in Call : Holds(e, g)' => e = d
      <4>1. flow[g] # Absent /\ oauthFlow[g] = Absent /\ \A e \in Call : Holds(e, g) => e = d
        BY <3>1, <3>2 DEF CallKnown
      <4>2. \A e \in Call : Holds(e, g)' => Holds(e, g)
        BY <1>7 DEF Holds
      <4> QED BY <4>1, <4>2, <1>3, <1>5
    <3>3. \A g \in Flow : flow[g] # Absent => flow'[g] = flow[g]
      BY <1>3, <1>4
    <3> QED BY <1>1, <1>8, <2>2, <3>1, <3>2, <3>3, OthersKnown
  <2> QED BY <2>1, <2>2, <1>7
<1>12. SessionInBrowserThatBegan' /\ \A s \in session' : flow'[s.flow] # Absent
  <2> SUFFICES ASSUME NEW s \in session
      PROVE flow'[s.flow] # Absent /\ flow'[s.flow].browser = s.browser
    BY DEF SessionInBrowserThatBegan
  <2>1. s.flow \in Flow /\ flow[s.flow] # Absent /\ flow[s.flow].browser = s.browser
    BY <1>1 DEF Kept, SessionInBrowserThatBegan, TypeOK, Session
  <2> QED BY <2>1, <1>3, <1>4
<1>13. FlowEndsOnce'
  BY DEF Kept, FlowEndsOnce
<1>14. RestartsTakeTime'
  BY <1>2, <1>4 DEF Kept, RestartsTakeTime
<1> QED BY <1>8, <1>9, <1>10, <1>11, <1>12, <1>13, <1>14 DEF Kept


LEMMA LoginKeeps == ASSUME Kept, NEW f \in Flow, NEW b \in Browser, Login(f, b) PROVE Kept'
<1>1. 0 * OauthFlowDuration <= now
  BY SignInAssumption DEF Kept, TypeOK
<1> QED BY <1>1, InsertKeeps DEF Login

LEMMA FollowKeeps == ASSUME Kept, NEW c \in Call, NEW f \in Flow, Follow(c, f) PROVE Kept'
<1>1. call[c].browser \in Browser /\ call[c].restarts \in Nat
  BY CallFacts DEF Follow, Kept, Restarted
<1>2. call[c].restarts * OauthFlowDuration <= now
  BY DEF Follow, Kept, CallKnown
<1> QED BY <1>1, <1>2, InsertKeeps DEF Follow

\* What the rest of the world does: cookies dropped, answers given, time passing.
LEMMA OutsideKeeps ==
  ASSUME Kept, TypeOK', UNCHANGED <<flow, oauthFlow, call, session, ends>>, now <= now',
         \A b \in Browser : cookie'[b] = cookie[b] \/ cookie'[b] = NoCookie,
         \A k \in Code : code[k] # Absent => code'[k] = code[k],
         \A k \in Code : code'[k] # Absent => flow[code'[k].flow] # Absent
  PROVE  Kept'
<1>1. FlowsKnown' /\ NotEndedYet'
  BY DEF Kept, FlowsKnown, NotEndedYet
<1>2. ASSUME NEW d \in Call PROVE CallKnown(d)'
  <2>1. CallKnown(d) /\ TypeOK
    BY DEF Kept
  <2>2. ASSUME NEW f \in Flow, Holds(d, f)
        PROVE /\ oauthFlow'[f] = Absent /\ ends'[f] = ends[f]
              /\ \A e \in Call : Holds(e, f)' => e = d
    BY <2>1, <2>2 DEF CallKnown, Holds
  <2> QED BY <2>1, <2>2, OthersKnown
<1>3. /\ SessionInBrowserThatBegan' /\ FlowEndsOnce' /\ RestartsTakeTime'
      /\ \A s \in session' : flow'[s.flow] # Absent
  BY DEF Kept, SessionInBrowserThatBegan, FlowEndsOnce, RestartsTakeTime
<1> QED BY <1>1, <1>2, <1>3 DEF Kept

LEMMA AuthorizeKeeps ==
  ASSUME Kept, NEW k \in Code, NEW f \in Flow, NEW u \in User \union {Declined},
         Authorize(k, f, u)
  PROVE  Kept'
<1> DEFINE row == [flow |-> f, user |-> u, spent |-> FALSE]
<1>1. TypeOK /\ FlowsKnown
  BY DEF Kept
<1>2. row \in CodeRow /\ row.flow = f
  BY DEF CodeRow
<1>3. /\ flow[f] # Absent /\ code[k] = Absent /\ code' = [code EXCEPT ![k] = row]
      /\ UNCHANGED <<now, flow, oauthFlow, cookie, call, session, ends>>
  BY DEF Authorize
<1> HIDE DEF row
<1>4. /\ code' \in [Code -> CodeRow \union {Absent}] /\ code'[k] = row
      /\ \A l \in Code : l # k => code'[l] = code[l]
  BY <1>1, <1>2, <1>3 DEF TypeOK
<1>5. TypeOK'
  BY <1>1, <1>3, <1>4 DEF TypeOK
<1>6. \A l \in Code : code'[l] # Absent => flow[code'[l].flow] # Absent
  BY <1>1, <1>2, <1>3, <1>4 DEF FlowsKnown
<1>7. now <= now' /\ \A l \in Code : code[l] # Absent => code'[l] = code[l]
  BY <1>1, <1>3, <1>4 DEF TypeOK
<1> QED BY <1>3, <1>5, <1>6, <1>7, OutsideKeeps

LEMMA StepKept == Kept /\ [Next]_vars => Kept'
<1> SUFFICES ASSUME Kept, [Next]_vars PROVE Kept'
  OBVIOUS
<1>1. TypeOK /\ FlowsKnown
  BY DEF Kept
<1>2. ASSUME NEW f \in Flow, NEW b \in Browser, Login(f, b) PROVE Kept'
  BY <1>2, LoginKeeps
<1>3. ASSUME NEW b \in Browser, DropCookie(b) PROVE Kept'
  <2>1. /\ TypeOK' /\ now <= now'
        /\ \A a \in Browser : cookie'[a] = cookie[a] \/ cookie'[a] = NoCookie
    BY <1>1, <1>3 DEF TypeOK, DropCookie
  <2> QED BY <1>1, <1>3, <2>1, OutsideKeeps DEF DropCookie, FlowsKnown
<1>4. ASSUME NEW k \in Code, NEW f \in Flow, NEW u \in User \union {Declined}, Authorize(k, f, u)
      PROVE Kept'
  BY <1>4, AuthorizeKeeps
<1>5. ASSUME NEW c \in Call, NEW b \in Browser, NEW k \in Code, Callback(c, b, k) PROVE Kept'
  BY <1>5, CallbackKeeps
<1>6. ASSUME NEW c \in Call,
             \/ PopOauthFlow(c) \/ RefuseOrRestart(c) \/ Check(c) \/ Exchange(c)
             \/ CreateSession(c) \/ Receive(c) \/ Abandon(c)
      PROVE Kept'
  BY <1>6, PopKeeps, RefuseOrRestartKeeps, CheckKeeps, ExchangeKeeps, CreateKeeps,
     ReceiveKeeps, AbandonKeeps
<1>7. ASSUME NEW c \in Call, NEW f \in Flow, Follow(c, f) PROVE Kept'
  BY <1>7, FollowKeeps
<1>8. CASE Tick
  <2>1. TypeOK' /\ now <= now'
    BY <1>1, <1>8 DEF TypeOK, Tick
  <2> QED BY <1>1, <1>8, <2>1, OutsideKeeps DEF Tick, FlowsKnown
<1>9. CASE UNCHANGED vars
  <2>1. TypeOK' /\ now <= now'
    BY <1>1, <1>9 DEF TypeOK, vars
  <2> QED BY <1>1, <1>9, <2>1, OutsideKeeps DEF vars, FlowsKnown
<1> QED BY <1>2, <1>3, <1>4, <1>5, <1>6, <1>7, <1>8, <1>9 DEF Next

\* The invariant the theorems below rest on.
THEOREM FlowsKept == Spec => []Kept
BY InitKept, StepKept, PTL DEF Spec

\* Every row, cookie and request keeps its shape.
THEOREM TypeCorrect == Spec => []TypeOK
<1>1. Kept => TypeOK
  BY DEF Kept
<1> QED BY <1>1, FlowsKept, PTL

\* A session is opened in the browser that began its flow, wherever its links are
\* opened (the callback cookie).
THEOREM BrowserThatBegan == Spec => []SessionInBrowserThatBegan
<1>1. Kept => SessionInBrowserThatBegan
  BY DEF Kept
<1> QED BY <1>1, FlowsKept, PTL

\* A flow opens one session or is restarted once (PopOauthFlow against
\* PopExpiredOauthFlowByState).
THEOREM EndsOnce == Spec => []FlowEndsOnce
<1>1. Kept => FlowEndsOnce
  BY DEF Kept
<1> QED BY <1>1, FlowsKept, PTL

\* A browser is not sent round: between two restarts of a sign-in a flow has run
\* out (refuseOrRestart).
THEOREM RestartsSlow == Spec => []RestartsTakeTime
<1>1. Kept => RestartsTakeTime
  BY DEF Kept
<1> QED BY <1>1, FlowsKept, PTL

LEMMA StepKeepsLive ==
  ASSUME Kept, [Next]_vars, NEW f \in Flow,
         oauthFlow[f] # Absent, oauthFlow'[f] = Absent, now < oauthFlow[f]
  PROVE  \E c \in Call : call[c].step = "pop" /\ call[c].cookie = f
<1>1. TypeOK
  BY DEF Kept
<1>2. ASSUME NEW g \in Flow, NEW b, NEW n, InsertOauthFlow(g, b, n) PROVE FALSE
  BY <1>1, <1>2, SignInAssumption DEF InsertOauthFlow, Expiry, TypeOK
<1>3. ASSUME NEW c \in Call, RefuseOrRestart(c) PROVE FALSE
  <2>1. call[c].at \in Nat /\ call[c].at <= now
    BY <1>1, <1>3, CallFacts DEF RefuseOrRestart, Unmatched, Kept, CallKnown
  <2>2. PICK g \in Flow : oauthFlow' = [oauthFlow EXCEPT ![g] = Absent]
                          /\ oauthFlow[g] # Absent /\ oauthFlow[g] <= call[c].at
    <3>1. call[c].code \in Code /\ code[call[c].code] # Absent
      BY <1>1, <1>3, CallFacts DEF RefuseOrRestart, Unmatched, Kept, CallKnown
    <3>2. code[call[c].code].flow \in Flow
      BY <1>1, <3>1, Rows DEF TypeOK
    <3> QED BY <1>3, <3>2 DEF RefuseOrRestart, ExpiredBy, Remove
  <2>3. f = g /\ oauthFlow[f] \in Nat /\ now \in Nat
    BY <1>1, <2>2 DEF TypeOK
  <2> QED BY <2>1, <2>2, <2>3
<1>4. ASSUME NEW c \in Call, PopOauthFlow(c) PROVE call[c].step = "pop" /\ call[c].cookie = f
  BY <1>1, <1>4 DEF PopOauthFlow, Remove, TypeOK
<1>5. \/ UNCHANGED oauthFlow
      \/ \E g \in Flow, b \in Browser : InsertOauthFlow(g, b, 0)
      \/ \E c \in Call, g \in Flow : InsertOauthFlow(g, call[c].browser, call[c].restarts)
      \/ \E c \in Call : RefuseOrRestart(c) \/ PopOauthFlow(c)
  BY DEF Next, vars, Login, DropCookie, Authorize, Callback, Check, Exchange, CreateSession,
         Receive, Follow, Abandon, Tick
<1>6. CASE UNCHANGED oauthFlow
  BY <1>6
<1> QED BY <1>2, <1>3, <1>4, <1>5, <1>6

\* "A live flow is never removed by its state alone".
THEOREM LiveKept == Spec => LiveFlowKept
<1>1. Kept /\ [Next]_vars =>
        \A f \in Flow :
          oauthFlow[f] # Absent /\ oauthFlow'[f] = Absent /\ now < oauthFlow[f] =>
            \E c \in Call : call[c].step = "pop" /\ call[c].cookie = f
  BY StepKeepsLive
<1> QED BY <1>1, FlowsKept, PTL DEF Spec, LiveFlowKept


-----------------------------------------------------------------------------
\* What a request past the comparison knows of the code it was given.
OwnAnswers ==
  /\ SessionByOwnAnswer
  /\ \A c \in Call : call[c].step = "exchange" => code[call[c].code].flow = call[c].flow
  /\ \A c \in Call : call[c].step = "create" =>
       code[call[c].code].flow = call[c].flow /\ code[call[c].code].spent

\* A code that was handed out stays what it was, and spent once it is.
LEMMA CodesGrow ==
  ASSUME Kept, [Next]_vars, NEW k \in Code, code[k] # Absent
  PROVE  /\ code'[k] # Absent
         /\ code'[k].flow = code[k].flow /\ code'[k].user = code[k].user
         /\ code[k].spent => code'[k].spent
<1>1. TypeOK /\ code[k] \in CodeRow
  BY DEF Kept, TypeOK
<1>2. ASSUME NEW j \in Code, NEW f \in Flow, NEW u \in User \union {Declined}, Authorize(j, f, u)
      PROVE code'[k] = code[k]
  BY <1>1, <1>2 DEF Authorize, TypeOK
<1>3. ASSUME NEW c \in Call, Exchange(c), code' # code
      PROVE  /\ code'[k] # Absent
             /\ code'[k].flow = code[k].flow /\ code'[k].user = code[k].user
             /\ code[k].spent => code'[k].spent
  <2>1. PICK j : code' = [code EXCEPT ![j].spent = TRUE]
    BY <1>3 DEF Exchange
  <2>2. \/ code'[k] = code[k] \/ code'[k] = [code[k] EXCEPT !.spent = TRUE]
    BY <1>1, <2>1 DEF TypeOK
  <2>3. [code[k] EXCEPT !.spent = TRUE] \in CodeRow
    BY <1>1 DEF CodeRow
  <2> QED BY <1>1, <2>2, <2>3, Rows DEF CodeRow
<1>4. \/ UNCHANGED code
      \/ \E j \in Code, f \in Flow, u \in User \union {Declined} : Authorize(j, f, u)
      \/ \E c \in Call : Exchange(c) /\ code' # code
  BY DEF Next, vars, Login, DropCookie, Callback, PopOauthFlow, RefuseOrRestart, Check, Exchange,
         CreateSession, Receive, Follow, Abandon, Tick
<1> QED BY <1>2, <1>3, <1>4

\* A request comes to the exchange from the comparison, and past it with the code spent.
LEMMA OwnCalls ==
  ASSUME Kept, OwnAnswers, [Next]_vars, NEW c \in Call, call'[c].step \in {"exchange", "create"}
  PROVE  /\ code'[call'[c].code].flow = call'[c].flow
         /\ call'[c].step = "create" => code'[call'[c].code].spent
<1>1. TypeOK
  BY DEF Kept
<1>2. CASE call'[c] = call[c]
  <2>1. call[c].code \in Code /\ code[call[c].code] # Absent
    BY <1>2, HolderFacts
  <2> QED BY <1>2, <2>1, CodesGrow DEF OwnAnswers, SessionByOwnAnswer
<1>3. ASSUME Check(c)
      PROVE  call'[c].step = "exchange" /\ code'[call'[c].code].flow = call'[c].flow
  <2>1. call[c].step = "check" /\ code' = code /\ call[c].code \in Code
    BY <1>3, HolderFacts DEF Check
  <2>2. PICK state : Goto(c, state) /\ (state.step \notin {"exchange", "create"} \/
          (Matches(c) /\ state = [step |-> "exchange", browser |-> call[c].browser,
                                  code |-> call[c].code, flow |-> call[c].flow]))
    BY <1>3, IdleFacts DEF Check, Restart
  <2>3. call'[c] = state
    BY <1>1, <2>2 DEF Goto, TypeOK
  <2> QED BY <2>1, <2>2, <2>3 DEF Matches
<1>4. ASSUME Exchange(c)
      PROVE  call'[c].step = "create" /\ code'[call'[c].code].flow = call'[c].flow
             /\ code'[call'[c].code].spent
  <2>1. /\ call[c].step = "exchange" /\ call[c].code \in Code
        /\ code[call[c].code] \in CodeRow /\ call[c] \in Checked
    BY <1>1, <1>4, HolderFacts, CallFacts DEF Exchange
  <2>2. ~Goto(c, Idle)
    BY <1>1, IdleFacts DEF Goto, TypeOK
  <2>3. /\ Matches(c) /\ code' = [code EXCEPT ![call[c].code].spent = TRUE]
        /\ Goto(c, [call[c] EXCEPT !.step = "create"])
    BY <1>4, <2>2 DEF Exchange
  <2>4. call'[c] = [call[c] EXCEPT !.step = "create"]
    BY <1>1, <2>3 DEF Goto, TypeOK
  <2>5. call'[c].step = "create" /\ call'[c].code = call[c].code /\ call'[c].flow = call[c].flow
    BY <2>1, <2>4 DEF Checked
  <2>6. code'[call[c].code] = [code[call[c].code] EXCEPT !.spent = TRUE]
    BY <1>1, <2>1, <2>3 DEF TypeOK
  <2>7. code'[call[c].code].flow = code[call[c].code].flow /\ code'[call[c].code].spent
    BY <2>1, <2>6 DEF CodeRow
  <2> QED BY <2>3, <2>5, <2>7 DEF Matches
<1>5. \/ call'[c] = call[c] \/ Check(c) \/ Exchange(c)
      \/ call'[c].step \notin {"exchange", "create"}
  <2>1. ASSUME NEW d \in Call, NEW state, Goto(d, state)
        PROVE  call'[c] = call[c] \/ (c = d /\ call'[c] = state)
    BY <1>1, <2>1 DEF Goto, TypeOK
  <2>2. ASSUME NEW d \in Call, NEW b \in Browser, NEW k \in Code, Callback(d, b, k)
        PROVE  call'[c] = call[c] \/ call'[c].step = "pop"
    BY <2>1, <2>2 DEF Callback
  <2>3. ASSUME NEW d \in Call, PopOauthFlow(d)
        PROVE  call'[c] = call[c] \/ call'[c].step \in {"check", "refuse"}
    BY <2>1, <2>3 DEF PopOauthFlow
  <2>4. ASSUME NEW d \in Call, RefuseOrRestart(d)
        PROVE  call'[c] = call[c] \/ call'[c].step \in {"again", "idle"}
    BY <2>1, <2>4, IdleFacts DEF RefuseOrRestart, Restart
  <2>5. ASSUME NEW d \in Call, CreateSession(d) \/ Receive(d) \/ Abandon(d)
        PROVE  call'[c] = call[c] \/ call'[c].step \in {"answer", "idle"}
    BY <2>1, <2>5, IdleFacts DEF CreateSession, Receive, Abandon
  <2>6. ASSUME NEW d \in Call, NEW f \in Flow, Follow(d, f)
        PROVE  call'[c] = call[c] \/ call'[c].step = "idle"
    BY <2>1, <2>6, IdleFacts DEF Follow
  <2>7. ASSUME NEW d \in Call, Check(d) \/ Exchange(d), d # c
        PROVE  call'[c] = call[c]
    <3>1. \E state : Goto(d, state)
      BY <2>7 DEF Check, Exchange, Restart
    <3> QED BY <2>1, <2>7, <3>1
  <2>8. \/ UNCHANGED call
        \/ \E d \in Call :
             \/ \E b \in Browser, k \in Code : Callback(d, b, k)
             \/ PopOauthFlow(d) \/ RefuseOrRestart(d) \/ Check(d) \/ Exchange(d)
             \/ CreateSession(d) \/ Receive(d) \/ Abandon(d)
             \/ \E f \in Flow : Follow(d, f)
    BY DEF Next, vars, Login, DropCookie, Authorize, Tick
  <2> QED BY <2>2, <2>3, <2>4, <2>5, <2>6, <2>7, <2>8
<1> QED BY <1>2, <1>3, <1>4, <1>5

\* A session that is opened is of whom the code named.
LEMMA OwnSessions ==
  ASSUME Kept, OwnAnswers, [Next]_vars, NEW s \in session'
  PROVE  \E k \in Code :
           code'[k] # Absent /\ code'[k].flow = s.flow /\ code'[k].user = s.user /\ code'[k].spent
<1>1. CASE s \in session
  BY <1>1, CodesGrow DEF OwnAnswers, SessionByOwnAnswer
<1>2. CASE s \notin session
  <2>1. PICK c \in Call : CreateSession(c)
    BY <1>2 DEF Next, vars, Login, DropCookie, Authorize, Callback, PopOauthFlow, RefuseOrRestart,
                Check, Exchange, Receive, Follow, Abandon, Tick
  <2>2. /\ call[c].step = "create" /\ code' = code
        /\ s = [browser |-> call[c].browser, flow |-> call[c].flow,
                user |-> code[call[c].code].user]
    BY <1>2, <2>1 DEF CreateSession
  <2>3. call[c].code \in Code /\ code[call[c].code] # Absent
    BY <2>2, HolderFacts
  <2> QED BY <2>2, <2>3 DEF OwnAnswers
<1> QED BY <1>1, <1>2

\* A session is opened for a flow by its own answer alone, whichever cookie comes with a
\* link (the comparison of the states, and the provider's of the verifiers).
THEOREM OwnAnswer == Spec => []SessionByOwnAnswer
<1>1. Init => OwnAnswers
  BY IdleFacts DEF Init, OwnAnswers, SessionByOwnAnswer
<1>2. Kept /\ OwnAnswers /\ [Next]_vars => OwnAnswers'
  BY OwnCalls, OwnSessions DEF OwnAnswers, SessionByOwnAnswer
<1>3. OwnAnswers => SessionByOwnAnswer
  BY DEF OwnAnswers
<1> QED BY <1>1, <1>2, <1>3, FlowsKept, PTL DEF Spec
=============================================================================
