----------------------------- MODULE DpopReplay -----------------------------
(***************************************************************************)
(* The DPoP proofs a process accepts: Verifier.VerifyRequest with the      *)
(* memory_replay_detector as its ReplayDetector.                           *)
(*                                                                         *)
(* A call reads the clock when it starts to verify, and asks the detector, *)
(* under the detector's mutex, with the reading it has: calls reach the    *)
(* detector in another order than they read the clock in.                  *)
(***************************************************************************)
EXTENDS Integers, FiniteSets

CONSTANTS
  Key,                    \* thumbprints of the keys proofs are signed with
  Id,                     \* "jti"
  IssuedAt,               \* "iat"
  Absent,                 \* no entry
  Call,                   \* requests at once
  MaxAge, ClockSkew,
  MaxEntries,
  minimumSweepThreshold,
  MaxTime                 \* bound of the clock

ASSUME ReplayAssumption ==
  /\ IssuedAt \subseteq Nat /\ Absent \notin Nat
  /\ MaxAge \in Nat /\ ClockSkew \in Nat
  /\ MaxEntries \in Nat \ {0} /\ minimumSweepThreshold \in Nat \ {0}

VARIABLES
  now,
  expiresAt,              \* the detector's map
  sweepThreshold,
  call,
  latest,                 \* the latest clock the detector was asked with (history)
  accepted,               \* proofs accepted (history)
  replayed                \* proofs accepted again, and by which clock (history)

vars == <<now, expiresAt, sweepThreshold, call, latest, accepted, replayed>>

Proof == [key: Key, id: Id, issuedAt: IssuedAt]
Entry == Key \X Id

Answered == [step: {"none", "accepted", "replayed", "full"}]
Verifying == [step: {"observe"}, proof: Proof, at: Nat]

TypeOK ==
  /\ now \in Nat /\ latest \in Nat /\ sweepThreshold \in Nat
  /\ expiresAt \in [Entry -> Nat \union {Absent}]
  /\ call \in [Call -> Answered \union Verifying]
  /\ accepted \in SUBSET Proof
  /\ replayed \in SUBSET [proof: Proof, at: Nat]

Init ==
  /\ now = 0 /\ latest = 0
  /\ expiresAt = [e \in Entry |-> Absent]
  /\ sweepThreshold = 0
  /\ call = [c \in Call |-> [step |-> "none"]]
  /\ accepted = {} /\ replayed = {}

-----------------------------------------------------------------------------
Least(a, b) == IF a <= b THEN a ELSE b
Greatest(a, b) == IF a >= b THEN a ELSE b

Expiry(p) == p.issuedAt + MaxAge + ClockSkew

\* Neither too old nor from the future; a proof that is neither is refused
\* without the detector being asked.
Acceptable(p, at) ==
  /\ p.issuedAt >= at - (MaxAge + ClockSkew)
  /\ p.issuedAt <= at + ClockSkew

Verify(c, p) ==
  /\ call[c].step # "observe"
  /\ Acceptable(p, now)
  /\ call' = [call EXCEPT ![c] = [step |-> "observe", proof |-> p, at |-> now]]
  /\ UNCHANGED <<now, expiresAt, sweepThreshold, latest, accepted, replayed>>

-----------------------------------------------------------------------------
Remembered == {e \in Entry : expiresAt[e] # Absent}

EntryOf(p) == <<p.key, p.id>>

Live(e, at) == expiresAt[e] # Absent /\ expiresAt[e] > at

\* Mutant: the threshold may pass the bound, and then nothing is swept.
DuePastBound == Cardinality(Remembered) >= Greatest(sweepThreshold, minimumSweepThreshold)

Due ==
  Cardinality(Remembered) >=
    Least(Greatest(sweepThreshold, minimumSweepThreshold), MaxEntries)

\* Mutant: a sweep makes room by forgetting what is live.
SweptAll(at) == [e \in Entry |-> Absent]

Swept(at) == [e \in Entry |-> IF Live(e, at) THEN expiresAt[e] ELSE Absent]

\* What is remembered, and the threshold, once a sweep that is due is done.
Sweep(at, kept, threshold) ==
  \/ /\ Due
     /\ kept = Swept(at)
     /\ threshold = Greatest(2 * Cardinality({e \in Entry : kept[e] # Absent}),
                             minimumSweepThreshold)
  \/ ~Due /\ kept = expiresAt /\ threshold = sweepThreshold

Answer(c, outcome) ==
  /\ call' = [call EXCEPT ![c] = [step |-> outcome]]
  /\ latest' = Greatest(latest, call[c].at)
  /\ UNCHANGED now

ObserveSeen(c) ==
  /\ Live(EntryOf(call[c].proof), call[c].at)
  /\ Answer(c, "replayed")
  /\ UNCHANGED <<expiresAt, sweepThreshold, accepted, replayed>>

\* Mutant: a full detector takes one more.
FullLate(kept) == Cardinality({e \in Entry : kept[e] # Absent}) > MaxEntries

Full(kept) == Cardinality({e \in Entry : kept[e] # Absent}) >= MaxEntries

ObserveFull(c) ==
  /\ ~Live(EntryOf(call[c].proof), call[c].at)
  /\ \E kept \in {expiresAt, Swept(call[c].at)} :
       /\ Sweep(call[c].at, kept, sweepThreshold')
       /\ Full(kept)
       /\ expiresAt' = kept
  /\ Answer(c, "full")
  /\ UNCHANGED <<accepted, replayed>>

ObserveNew(c) ==
  LET p == call[c].proof  at == call[c].at IN
  /\ ~Live(EntryOf(p), at)
  /\ \E kept \in {expiresAt, Swept(at)} :
       /\ Sweep(at, kept, sweepThreshold')
       /\ ~Full(kept)
       /\ expiresAt' = [kept EXCEPT ![EntryOf(p)] = Expiry(p)]
  /\ Answer(c, "accepted")
  /\ accepted' = accepted \union {p}
  /\ replayed' = IF p \in accepted THEN replayed \union {[proof |-> p, at |-> at]}
                 ELSE replayed

Observe(c) ==
  /\ call[c].step = "observe"
  /\ ObserveSeen(c) \/ ObserveFull(c) \/ ObserveNew(c)

Tick ==
  /\ now < MaxTime
  /\ now' = now + 1
  /\ UNCHANGED <<expiresAt, sweepThreshold, call, latest, accepted, replayed>>

Next ==
  \/ \E c \in Call : (\E p \in Proof : Verify(c, p)) \/ Observe(c)
  \/ Tick

Spec == Init /\ [][Next]_vars

-----------------------------------------------------------------------------
\* "remembers the DPoP proofs ... so that a second presentation of one is
\* refused": it is, until a call asks the detector with a clock that says the
\* proof is over. What is accepted again after that is a proof at the last
\* instant of its window, or one whose call read its clock and was overtaken.
ReplayIsLate == \A r \in replayed : latest >= Expiry(r.proof)

\* A proof is called a replay only if one with that identifier, made with that
\* key, was accepted and could still be.
FirstUseIsNoReplay ==
  [][\A c \in Call :
       call[c].step = "observe" /\ call'[c].step = "replayed" =>
         \E q \in accepted :
           /\ q.key = call[c].proof.key /\ q.id = call[c].proof.id
           /\ Expiry(q) > call[c].at]_vars

\* A caller is told that the detector is full only if as many proofs as it may hold
\* are live: it is never full of proofs that are over.
FullOfLiveProofs ==
  [][\A c \in Call :
       call[c].step = "observe" /\ call'[c].step = "full" =>
         Cardinality({e \in Entry : Live(e, call[c].at)}) >= MaxEntries]_vars

\* "holds at most MaxEntries proofs", whatever calls are under way.
HoldsAtMostMaxEntries == Cardinality(Remembered) <= MaxEntries

=============================================================================
