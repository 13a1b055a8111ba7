------------------------------ MODULE Clients ------------------------------
(***************************************************************************)
(* Who an OAuth client is and where it may be sent back to, as the         *)
(* authorization endpoint asks the resolver before it sends anything.      *)
(*                                                                         *)
(* A client that registered itself is nothing but its id, which carries    *)
(* its redirect URIs under a signature: it outlives a restart, and is held *)
(* to the rules in force when it asks.  What it asks is stored until the   *)
(* user answers, outlives a restart too, and is not asked of the rules     *)
(* again.  A client with a metadata document is the URL of *)
(* it, fetched when the client is asked for and kept a while in a cache    *)
(* that requests read and write without waiting for one another.  Its      *)
(* owner may change the document at any time.  (One registered beforehand  *)
(* is a constant of the service.)                                          *)
(***************************************************************************)
EXTENDS Integers, FiniteSets

CONSTANTS
  Uri,                    \* redirect URIs
  Loopback,               \* those on the user's machine, which differ in the port alone
  Long,                   \* those longer than the registrar admits
  Key,                    \* keys that ids are signed with
  Configuration,          \* what the service is started with: a key and the URIs admitted
  Document,               \* what the document may say: sets of URIs
  Call,                   \* authorization requests at once
  None,
  ConsentLifetime,        \* how long the user has to answer
  Second, DefaultTtl, MaxTtl,
  MaxAge,                 \* values of max-age a document may be sent with
  Half,                   \* Duration is an integer from -Half to Half - 1
  MaxIds,                 \* bound of the ids registered
  MaxClock                \* bound of the clock

\* The registrar takes every port of the user's machine or none, where it is not too long.
Rules == {r \in SUBSET (Uri \ Long) :
            Loopback \ Long \subseteq r \/ Loopback \intersect r = {}}

ASSUME ClientsAssumption ==
  /\ Loopback \subseteq Uri
  /\ Configuration \subseteq [key: Key, rules: Rules]
  /\ ConsentLifetime \in Nat \ {0}
  /\ Document \subseteq (SUBSET Uri) \ {{}}
  /\ Second \in Nat /\ DefaultTtl \in Nat /\ MaxTtl \in Nat \ {0}
  /\ MaxAge \subseteq Nat
  /\ Half \in Nat /\ MaxTtl < Half

VARIABLES
  clock,
  running,                \* what the service runs with
  lastRun,                \* when it last ran with each other configuration (history)
  issued,                 \* ids registered
  published,              \* the document, or None where there is no valid one
  last,                   \* when each document was last the published one (history)
  cache,
  call

clientsVars == <<clock, running, lastRun, issued, published, last, cache, call>>

key == running.key
rules == running.rules

Id == [key: Key, uris: (SUBSET Uri) \ {{}}]
Entry == [uris: Document, expiresAt: Int]

ASSUME NoneAssumption == None \notin Document \union Entry

IdleCall == [step |-> "idle"]
Fetching == [step: {"fetch"}, at: Nat]
Fetched == [step: {"store"}, at: Nat, uris: Document]
Kind == {"document", "registered"}
Consenting == [step: {"consent"}, at: Nat, uri: Uri, kind: Kind, expiresAt: Nat]
Sent == [step: {"sent"}, at: Nat, uri: Uri, kind: Kind]
CallState == {IdleCall} \union Fetching \union Fetched \union Consenting \union Sent

ClientsTypeOK ==
  /\ clock \in Nat
  /\ running \in Configuration
  /\ lastRun \in [Configuration -> Nat \union {-1}]
  /\ issued \in SUBSET Id
  /\ published \in Document \union {None}
  /\ last \in [Document -> Nat \union {-1}]
  /\ cache \in Entry \union {None}
  /\ call \in [Call -> CallState]

ClientsInit ==
  /\ clock = 0
  /\ running \in Configuration
  /\ lastRun = [s \in Configuration |-> -1]
  /\ issued = {}
  /\ published \in Document \union {None}
  /\ last = [d \in Document |-> -1]
  /\ cache = None
  /\ call = [c \in Call |-> IdleCall]

-----------------------------------------------------------------------------
Goto(c, state) == call' = [call EXCEPT ![c] = state]

\* One of the URIs, or one like it at another port of the user's machine.
AllowsRedirectUri(uris, u) == u \in uris \/ (u \in Loopback /\ uris \intersect Loopback # {})

\* Where the client resolved may be sent back to the URI that the request names, the
\* authorization endpoint stores the request for the user to answer, or sends the user
\* back at once with what is wrong with it; it refuses others.
AuthorizeClient(c, kind, uris, at) ==
  \E u \in Uri :
    IF AllowsRedirectUri(uris, u)
    THEN \/ Goto(c, [step |-> "consent", at |-> at, uri |-> u, kind |-> kind,
                     expiresAt |-> clock + ConsentLifetime])
         \/ Goto(c, [step |-> "sent", at |-> at, uri |-> u, kind |-> kind])
    ELSE Goto(c, IdleCall)

\* What the registrar makes of an id: nothing under another key.
Resolved(id) == IF id.key = key THEN id.uris \intersect rules ELSE {}

Registrable(uris) == uris # {} /\ uris \subseteq rules

Register(uris) ==
  /\ Cardinality(issued) < MaxIds
  /\ Registrable(uris)
  /\ issued' = issued \union {[key |-> key, uris |-> uris]}
  /\ UNCHANGED <<clock, running, lastRun, published, last, cache, call>>

ResolveRegistered(c, id) ==
  /\ call[c] = IdleCall
  /\ Resolved(id) # {}
  /\ AuthorizeClient(c, "registered", Resolved(id), clock)
  /\ UNCHANGED <<clock, running, lastRun, issued, published, last, cache>>

-----------------------------------------------------------------------------
Smaller(m, n) == IF m < n THEN m ELSE n

\* Mutant: what the document says, however long.
Uncapped(d) == d

Capped(d) == Smaller(d, MaxTtl)

\* time.Duration(seconds) * time.Second
Wrapped(n) == ((n + Half) % (2 * Half)) - Half

\* The lifetimes that Cache-Control may give: no-store, none said, and a max-age.
CacheTtl == {0, Capped(DefaultTtl)} \union {Capped(Wrapped(seconds * Second)) : seconds \in MaxAge}

Fresh(at) == cache # None /\ at < cache.expiresAt

FetchDocument(c) ==
  /\ call[c] = IdleCall
  /\ IF Fresh(clock) THEN AuthorizeClient(c, "document", cache.uris, clock)
                     ELSE Goto(c, [step |-> "fetch", at |-> clock])
  /\ UNCHANGED <<clock, running, lastRun, issued, published, last, cache>>

\* Whoever serves the document answers with what is published.
Respond(c) ==
  /\ call[c].step = "fetch"
  /\ published # None
  /\ Goto(c, [step |-> "store", at |-> call[c].at, uris |-> published])
  /\ UNCHANGED <<clock, running, lastRun, issued, published, last, cache>>

\* Mutant: kept from when it is stored.
FromStore(c) == clock

FromRequest(c) == call[c].at

StoreDocument(c, ttl) ==
  /\ call[c].step = "store"
  /\ cache' = IF ttl > 0 THEN [uris |-> call[c].uris, expiresAt |-> FromRequest(c) + ttl]
                         ELSE cache
  /\ AuthorizeClient(c, "document", call[c].uris, call[c].at)
  /\ UNCHANGED <<clock, running, lastRun, issued, published, last>>

\* Mutant: the user may answer whenever it may be.
AnyTime(state) == TRUE

StillAsked(state) == clock < state.expiresAt

\* The user allows or denies what was stored, and is sent back with that.
DecideClient(c) ==
  /\ call[c].step = "consent"
  /\ Goto(c, IF StillAsked(call[c])
             THEN [step |-> "sent", at |-> call[c].at, uri |-> call[c].uri, kind |-> call[c].kind]
             ELSE IdleCall)
  /\ UNCHANGED <<clock, running, lastRun, issued, published, last, cache>>

\* An invalid document or none, a failure, a time-out; or the user is done with it.
Leave(c) ==
  /\ call[c] # IdleCall
  /\ Goto(c, IdleCall)
  /\ UNCHANGED <<clock, running, lastRun, issued, published, last, cache>>

-----------------------------------------------------------------------------
Publish(d) ==
  /\ published # d
  /\ published' = d
  /\ last' = IF published = None THEN last ELSE [last EXCEPT ![published] = clock]
  /\ UNCHANGED <<clock, running, lastRun, issued, cache, call>>

\* The service is started again, as it was or with another key or other rules: what its
\* process held is gone, and not what is stored or was sent.
RestartService(s) ==
  /\ running' = s
  /\ lastRun' = [lastRun EXCEPT ![running] = clock]
  /\ cache' = None
  /\ call' = [c \in Call |-> IF call[c].step \in {"consent", "sent"} THEN call[c] ELSE IdleCall]
  /\ UNCHANGED <<clock, issued, published, last>>

TickClock ==
  /\ clock < MaxClock
  /\ clock' = clock + 1
  /\ UNCHANGED <<running, lastRun, issued, published, last, cache, call>>

ClientsNext ==
  \/ \E c \in Call :
       \/ \E id \in issued : ResolveRegistered(c, id)
       \/ FetchDocument(c) \/ Respond(c)
       \/ \E ttl \in CacheTtl : StoreDocument(c, ttl)
       \/ DecideClient(c) \/ Leave(c)
  \/ \E uris \in SUBSET Uri : Register(uris)
  \/ \E d \in Document \union {None} : Publish(d)
  \/ \E s \in Configuration : RestartService(s)
  \/ TickClock

ClientsSpec == ClientsInit /\ [][ClientsNext]_clientsVars

-----------------------------------------------------------------------------
\* A URI that the owner of a document takes out of it is sent nobody by a request
\* begun MaxTtl or more afterwards: however long the answer was to be kept, however
\* slowly it came, and whichever of overlapping fetches stored last.
LastPublished(d) == IF published = d THEN clock ELSE last[d]
WithdrawnWithinMaxTtl ==
  \A c \in Call :
    call[c].step \in {"consent", "sent"} /\ call[c].kind = "document" =>
      \E d \in Document :
        /\ AllowsRedirectUri(d, call[c].uri)
        /\ LastPublished(d) > call[c].at - MaxTtl

\* A client that registered itself has the user sent nowhere that the service, with its
\* rules of now or of less than ConsentLifetime ago, would not admit and the client did
\* not register under the key it had then, but for the port of the user's machine:
\* whatever was in force when it registered, and however the service is started between
\* the request and the answer.
LastRunning(s) == IF running = s THEN clock ELSE lastRun[s]
WasRegistered(s, u) ==
  /\ AllowsRedirectUri(s.rules, u)
  /\ \E id \in issued : id.key = s.key /\ AllowsRedirectUri(id.uris, u)

SentAsRegistered(c) ==
  call[c].step # "sent" /\ call'[c].step = "sent" /\ call'[c].kind = "registered" =>
    \E s \in Configuration :
      /\ LastRunning(s) > clock - ConsentLifetime
      /\ WasRegistered(s, call'[c].uri)

RegisteredWithinRules == [][\A c \in Call : SentAsRegistered(c)]_clientsVars
=============================================================================
