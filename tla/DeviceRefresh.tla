--------------------------- MODULE DeviceRefresh ---------------------------
(***************************************************************************)
(* A browser and the device-bound refresh of its one session, seen from    *)
(* the challenge: whether a browser whose bound cookie has run out always  *)
(* comes to hold one again, or is told that the session is over; a locked  *)
(* account is refused both.                                                *)
(*                                                                         *)
(* The browser signs the challenge it was last given, and cannot know      *)
(* whether that is spent or has lapsed.  Requests and answers are lost, it *)
(* gives one up and sends another, and the handler fails at any step.  A   *)
(* challenge that nobody can name any more may be drawn again; one lapses  *)
(* while it waits for the next refresh, not within the retries of one.     *)
(***************************************************************************)
CONSTANTS
  Challenge,
  Request,                \* requests the browser has sent and not seen answered
  NoChallenge

ASSUME NoChallengeAssumption == NoChallenge \notin Challenge

VARIABLES
  bound,                  \* the browser holds a bound cookie that has not run out
  cached,                 \* the challenge it was last given
  over,                   \* it was told that the session is over
  session,                \* its authentication and account: live, locked, ended or expired
  redeemable,             \* table dbsc_challenge, the rows that have not expired
  request

browser == <<bound, cached, over>>
vars == <<browser, session, redeemable, request>>

Idle == [step |-> "idle"]
Proving == [step: {"select"}, challenge: Challenge]
Popping == [step: {"pop"}, challenge: Challenge, locked: BOOLEAN]
Minting == [step: {"mint"}, locked: BOOLEAN]
Answering == [step: {"rechallenge", "seed"}]
Answered == [step: {"answer"}, renewed: BOOLEAN, challenge: Challenge \union {NoChallenge}]
Ended == [step |-> "instruct"]
Over == {"ended", "expired"}

TypeOK ==
  /\ bound \in BOOLEAN /\ over \in BOOLEAN
  /\ session \in {"live", "locked"} \union Over
  /\ cached \in Challenge \union {NoChallenge}
  /\ redeemable \in SUBSET Challenge
  /\ request \in [Request -> {Idle, Ended} \union Proving \union Popping \union Minting
                             \union Answering \union Answered]

\* The session has just been bound: the browser has been given no challenge for it.
Init ==
  /\ bound = TRUE /\ over = FALSE
  /\ session = "live"
  /\ cached = NoChallenge
  /\ redeemable = {}
  /\ request = [r \in Request |-> Idle]

-----------------------------------------------------------------------------
Goto(r, state) == request' = [request EXCEPT ![r] = state]

Names(state, h) == state.step \in {"select", "pop", "answer"} /\ state.challenge = h
Unused(h) == h # cached /\ \A r \in Request : ~Names(request[r], h)

InsertDbscChallenge(h) ==
  /\ Unused(h)
  /\ redeemable' = redeemable \union {h}

\* The browser sends what it has: a proof of the challenge it was given, or none.
Send(r) ==
  /\ ~bound /\ ~over
  /\ request[r] = Idle
  /\ Goto(r, IF cached = NoChallenge THEN [step |-> "rechallenge"]
             ELSE [step |-> "select", challenge |-> cached])
  /\ UNCHANGED <<browser, session, redeemable>>

\* The one read of the authentication, with its account: the mint looks at what it found.
SelectRefreshAuthentication(r) ==
  /\ request[r].step = "select"
  /\ Goto(r, IF session \in Over THEN Ended
             ELSE [step |-> "pop", challenge |-> request[r].challenge, locked |-> session = "locked"])
  /\ UNCHANGED <<browser, session, redeemable>>

\* Mutant: a proof of a challenge that cannot be redeemed is answered with an error.
Refused == Idle

\* challengeResponse, for a challenge that is spent or has lapsed.
Unredeemable == [step |-> "rechallenge"]

\* consumeChallenge: the row is deleted, and then looked at.
Consume(r) ==
  /\ request[r].step = "pop"
  /\ redeemable' = redeemable \ {request[r].challenge}
  /\ UNCHANGED <<browser, session>>

RedeemChallenge(r) ==
  /\ Consume(r)
  /\ request[r].challenge \in redeemable
  /\ Goto(r, [step |-> "mint", locked |-> request[r].locked])

MissChallenge(r) ==
  /\ Consume(r)
  /\ request[r].challenge \notin redeemable
  /\ Goto(r, Unredeemable)

ChallengeResponse(r, h) ==
  /\ request[r].step = "rechallenge"
  /\ InsertDbscChallenge(h)
  /\ Goto(r, [step |-> "answer", renewed |-> FALSE, challenge |-> h])
  /\ UNCHANGED <<browser, session>>

\* MintToken: a locked account and an authentication expired by now get no session, when
\* the challenge is spent already, nor a challenge, nor the answer that ends the session.
Mintable(state) == ~state.locked /\ session # "expired"

MintSession(r) ==
  /\ request[r].step = "mint"
  /\ Mintable(request[r])
  /\ Goto(r, [step |-> "seed"])
  /\ UNCHANGED <<browser, session, redeemable>>

RefuseMint(r) ==
  /\ request[r].step = "mint"
  /\ ~Mintable(request[r])
  /\ Goto(r, Idle)
  /\ UNCHANGED <<browser, session, redeemable>>

\* The cookie, with the challenge for the next refresh unless storing that failed.
Seed(r) ==
  /\ request[r].step = "seed"
  /\ \E h \in Challenge \union {NoChallenge} :
       /\ \/ h \in Challenge /\ InsertDbscChallenge(h)
          \/ h = NoChallenge /\ UNCHANGED <<redeemable>>
       /\ Goto(r, [step |-> "answer", renewed |-> TRUE, challenge |-> h])
  /\ UNCHANGED <<browser, session>>

Receive(r) ==
  /\ request[r].step = "answer"
  /\ bound' = (bound \/ request[r].renewed)
  /\ cached' = IF request[r].challenge = NoChallenge THEN cached ELSE request[r].challenge
  /\ Goto(r, Idle)
  /\ UNCHANGED <<over, session, redeemable>>

ReceiveRenewal(r) == Receive(r) /\ request[r].renewed
ReceiveChallenge(r) == Receive(r) /\ ~request[r].renewed

\* endedSessionResponse: the browser drops the session.
ReceiveEnd(r) ==
  /\ request[r] = Ended
  /\ over' = TRUE
  /\ Goto(r, Idle)
  /\ UNCHANGED <<bound, cached, session, redeemable>>

\* A call of the handler fails, or the request, its answer or the process is lost.
Fail(r) ==
  /\ request[r] # Idle
  /\ Goto(r, Idle)
  /\ UNCHANGED <<browser, session, redeemable>>

-----------------------------------------------------------------------------
ExpireCookie ==
  /\ bound
  /\ bound' = FALSE
  /\ UNCHANGED <<cached, over, session, redeemable, request>>

\* Time passes between two refreshes.
Lapse(h) ==
  /\ bound
  /\ h \in redeemable
  /\ redeemable' = redeemable \ {h}
  /\ UNCHANGED <<browser, session, request>>

\* Administration locks and unlocks the account, the authentication ends, or its time
\* runs out.  Nothing looks at the account of one that is over, nor at whether one that
\* has expired is ended too.
LockAccount ==
  /\ session \notin Over
  /\ session' = IF session = "live" THEN "locked" ELSE "live"
  /\ UNCHANGED <<browser, redeemable, request>>

EndSession ==
  /\ session \notin Over
  /\ session' = "ended"
  /\ UNCHANGED <<browser, redeemable, request>>

ExpireAuthentication ==
  /\ session # "expired"
  /\ session' = "expired"
  /\ UNCHANGED <<browser, redeemable, request>>

Next ==
  \/ \E r \in Request :
       \/ Send(r) \/ SelectRefreshAuthentication(r)
       \/ RedeemChallenge(r) \/ MissChallenge(r)
       \/ \E h \in Challenge : ChallengeResponse(r, h)
       \/ MintSession(r) \/ RefuseMint(r) \/ Seed(r)
       \/ ReceiveRenewal(r) \/ ReceiveChallenge(r) \/ ReceiveEnd(r)
       \/ Fail(r)
  \/ ExpireCookie
  \/ \E h \in Challenge : Lapse(h)
  \/ LockAccount \/ EndSession \/ ExpireAuthentication

\* A browser whose cookie has run out keeps asking, and no step fails each time that
\* some request comes to it: the database and the network fail now and then, not for good.
\* A renewal and the end of the session are one step here: either ends the asking.
Fairness ==
  /\ WF_vars(\E r \in Request : Send(r))
  /\ SF_vars(\E r \in Request : SelectRefreshAuthentication(r))
  /\ SF_vars(\E r \in Request : RedeemChallenge(r))
  /\ SF_vars(\E r \in Request : MissChallenge(r))
  /\ SF_vars(\E r \in Request, h \in Challenge : ChallengeResponse(r, h))
  /\ SF_vars(\E r \in Request : MintSession(r))
  /\ WF_vars(\E r \in Request : RefuseMint(r))
  /\ SF_vars(\E r \in Request : Seed(r))
  /\ SF_vars(\E r \in Request : ReceiveChallenge(r))
  /\ SF_vars(\E r \in Request : ReceiveRenewal(r) \/ ReceiveEnd(r))

Spec == Init /\ [][Next]_vars /\ Fairness

-----------------------------------------------------------------------------
\* "Every unredeemable challenge has to answer this way; one that does not leaves the
\* browser repeating a proof that can never be accepted": whatever was lost, spent by
\* an earlier request or held too long, a browser without a cookie comes to hold one
\* again, or is told that the session is over.  The code leaves out one browser, that of a
\* locked account whose session goes on: it is refused each time, with neither.
RefreshEnds == ~bound /\ ~over ~> bound \/ over \/ session = "locked"
=============================================================================
