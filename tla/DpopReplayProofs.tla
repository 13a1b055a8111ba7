--------------------------- MODULE DpopReplayProofs ---------------------------
(***************************************************************************)
(* Proofs about DpopReplay: what the detector promises of a proof that is  *)
(* presented again, for every number of keys, calls and entries.           *)
(***************************************************************************)
EXTENDS DpopReplay, FiniteSetTheorems, TLAPS

Holds(map) == {e \in Entry : map[e] # Absent}

\* An accepted proof is remembered for as long as it should be, or some call
\* has asked with a clock that says it is over.
Covered ==
  \A p \in accepted :
    \/ expiresAt[EntryOf(p)] # Absent /\ expiresAt[EntryOf(p)] >= Expiry(p)
    \/ latest >= Expiry(p)

\* What is remembered is a proof that was accepted.
Explained ==
  \A e \in Entry : expiresAt[e] # Absent =>
    \E q \in accepted : q.key = e[1] /\ q.id = e[2] /\ Expiry(q) = expiresAt[e]

Kept ==
  /\ TypeOK
  /\ IsFiniteSet(Holds(expiresAt))
  /\ HoldsAtMostMaxEntries
  /\ Covered
  /\ Explained
  /\ ReplayIsLate

-----------------------------------------------------------------------------
\* A proof's expiry is a time, and it is about one entry of the map.
LEMMA ProofFacts ==
  ASSUME NEW p \in Proof
  PROVE  Expiry(p) \in Nat /\ EntryOf(p) \in Entry
<1>1. p.issuedAt \in Nat /\ p.key \in Key /\ p.id \in Id
  BY ReplayAssumption DEF Proof
<1>2. p.issuedAt + MaxAge + ClockSkew \in Nat
  BY <1>1, ReplayAssumption
<1> QED BY <1>1, <1>2 DEF Expiry, EntryOf, Entry

\* A sweep forgets nothing that is live, and makes nothing up.
LEMMA SweepKeeps ==
  ASSUME TypeOK, IsFiniteSet(Holds(expiresAt)),
         NEW at \in Nat, NEW kept, NEW threshold, Sweep(at, kept, threshold)
  PROVE  /\ kept \in [Entry -> Nat \union {Absent}]
         /\ threshold \in Nat
         /\ IsFiniteSet(Holds(kept))
         /\ \A e \in Entry : kept[e] # Absent => kept[e] = expiresAt[e]
         /\ \A e \in Entry : Live(e, at) => kept[e] = expiresAt[e]
<1>1. CASE Due /\ kept = Swept(at)
          /\ threshold = Greatest(2 * Cardinality(Holds(kept)), minimumSweepThreshold)
  <2>1. kept \in [Entry -> Nat \union {Absent}]
    BY <1>1 DEF Swept, Live, TypeOK
  <2>2. \A e \in Entry : kept[e] # Absent => kept[e] = expiresAt[e]
    BY <1>1 DEF Swept, Live
  <2>3. \A e \in Entry : Live(e, at) => kept[e] = expiresAt[e]
    BY <1>1 DEF Swept
  <2>4. Holds(kept) \subseteq Holds(expiresAt)
    BY <2>2 DEF Holds
  <2>5. IsFiniteSet(Holds(kept))
    BY <2>4, FS_Subset
  <2>6. Cardinality(Holds(kept)) \in Nat
    BY <2>5, FS_CardinalityType
  <2>7. threshold \in Nat
    BY <1>1, <2>6, ReplayAssumption DEF Greatest
  <2> QED BY <2>1, <2>2, <2>3, <2>5, <2>7
<1>2. CASE kept = expiresAt /\ threshold = sweepThreshold
  BY <1>2 DEF TypeOK
<1> QED BY <1>1, <1>2 DEF Sweep, Holds

-----------------------------------------------------------------------------
LEMMA InitKept == Init => Kept
<1> SUFFICES ASSUME Init PROVE Kept
  OBVIOUS
<1>1. TypeOK
  BY DEF Init, TypeOK, Answered
<1>2. Holds(expiresAt) = {}
  BY DEF Init, Holds
<1>3. Remembered = {} /\ Cardinality(Remembered) = 0
  BY <1>2, FS_EmptySet DEF Remembered, Holds
<1>4. HoldsAtMostMaxEntries
  BY <1>3, ReplayAssumption DEF HoldsAtMostMaxEntries
<1>5. Covered /\ Explained /\ ReplayIsLate
  BY DEF Init, Covered, Explained, ReplayIsLate
<1> QED BY <1>1, <1>2, <1>4, <1>5, FS_EmptySet DEF Kept

\* A call that has its proof and its clock, whose outcome is known.
LEMMA AnswerTyped ==
  ASSUME TypeOK, NEW c \in Call, call[c].step = "observe",
         NEW outcome \in {"accepted", "replayed", "full"}, Answer(c, outcome)
  PROVE  /\ call[c].proof \in Proof /\ call[c].at \in Nat
         /\ call' \in [Call -> Answered \union Verifying]
         /\ latest' \in Nat /\ latest' >= latest /\ latest' >= call[c].at
         /\ now' \in Nat
<1>1. call[c] \in Verifying
  BY DEF TypeOK, Answered
<1>2. call[c].proof \in Proof /\ call[c].at \in Nat
  BY <1>1 DEF Verifying
<1>3. call' \in [Call -> Answered \union Verifying]
  BY DEF Answer, Answered, TypeOK
<1> QED BY <1>2, <1>3 DEF Answer, Greatest, TypeOK

\* The detector may hold less after a sweep: the clock says of what it dropped
\* that it is over.
LEMMA CoverKept ==
  ASSUME Kept, NEW c \in Call, call[c].step = "observe",
         NEW outcome \in {"accepted", "replayed", "full"}, Answer(c, outcome),
         NEW kept, NEW threshold, Sweep(call[c].at, kept, threshold),
         NEW p \in accepted
  PROVE  \/ kept[EntryOf(p)] # Absent /\ kept[EntryOf(p)] >= Expiry(p)
         \/ latest' >= Expiry(p)
<1>1. TypeOK /\ IsFiniteSet(Holds(expiresAt)) /\ Covered
  BY DEF Kept
<1>2. p \in Proof /\ Expiry(p) \in Nat /\ EntryOf(p) \in Entry
  BY <1>1, ProofFacts DEF TypeOK
<1>3. /\ call[c].at \in Nat /\ latest' \in Nat
      /\ latest' >= latest /\ latest' >= call[c].at
  BY <1>1, AnswerTyped
<1>4. \A e \in Entry : Live(e, call[c].at) => kept[e] = expiresAt[e]
  BY <1>1, <1>3, SweepKeeps
<1>5. expiresAt[EntryOf(p)] \in Nat \union {Absent} /\ latest \in Nat
  BY <1>1, <1>2 DEF TypeOK
<1>6. CASE latest >= Expiry(p)
  BY <1>6, <1>2, <1>3, <1>5
<1>7. CASE /\ expiresAt[EntryOf(p)] # Absent
           /\ expiresAt[EntryOf(p)] >= Expiry(p)
           /\ expiresAt[EntryOf(p)] > call[c].at
  BY <1>7, <1>2, <1>4 DEF Live
<1>8. CASE /\ expiresAt[EntryOf(p)] # Absent
           /\ expiresAt[EntryOf(p)] >= Expiry(p)
           /\ ~(expiresAt[EntryOf(p)] > call[c].at)
  BY <1>8, <1>2, <1>3, <1>5
<1> QED BY <1>1, <1>6, <1>7, <1>8 DEF Covered

LEMMA SeenKeeps ==
  ASSUME Kept, NEW c \in Call, call[c].step = "observe", ObserveSeen(c)
  PROVE  Kept'
<1>1. Answer(c, "replayed") /\ TypeOK
  BY DEF ObserveSeen, Kept
<1>2. /\ call' \in [Call -> Answered \union Verifying]
      /\ latest' \in Nat /\ latest' >= latest /\ now' \in Nat
  BY <1>1, AnswerTyped
<1>3. UNCHANGED <<expiresAt, sweepThreshold, accepted, replayed>>
  BY DEF ObserveSeen
<1>4. TypeOK'
  BY <1>1, <1>2, <1>3 DEF TypeOK
<1>5. \A p \in accepted : Expiry(p) \in Nat
  BY <1>1, ProofFacts DEF TypeOK
<1>6. Covered'
  <2> SUFFICES ASSUME NEW p \in accepted
      PROVE \/ expiresAt[EntryOf(p)] # Absent /\ expiresAt[EntryOf(p)] >= Expiry(p)
            \/ latest' >= Expiry(p)
    BY <1>3 DEF Covered, EntryOf, Expiry
  <2>1. CASE latest >= Expiry(p)
    BY <2>1, <1>1, <1>2, <1>5 DEF TypeOK
  <2> QED BY <2>1 DEF Kept, Covered
<1>7. ReplayIsLate'
  <2>1. \A r \in replayed : Expiry(r.proof) \in Nat
    BY <1>1, ProofFacts DEF TypeOK
  <2> QED BY <1>1, <1>2, <1>3, <2>1 DEF Kept, ReplayIsLate, TypeOK, Expiry
<1>8. Explained' /\ HoldsAtMostMaxEntries' /\ IsFiniteSet(Holds(expiresAt))'
  BY <1>3 DEF Kept, Explained, HoldsAtMostMaxEntries, Remembered, Holds, Expiry
<1> QED BY <1>4, <1>6, <1>7, <1>8 DEF Kept

LEMMA FullKeeps ==
  ASSUME Kept, NEW c \in Call, call[c].step = "observe", ObserveFull(c)
  PROVE  Kept'
<1>1. Answer(c, "full") /\ TypeOK /\ IsFiniteSet(Holds(expiresAt))
  BY DEF ObserveFull, Kept
<1>2. /\ call[c].at \in Nat /\ call' \in [Call -> Answered \union Verifying]
      /\ latest' \in Nat /\ latest' >= latest /\ now' \in Nat
  BY <1>1, AnswerTyped
<1>3. Sweep(call[c].at, expiresAt', sweepThreshold') /\ UNCHANGED <<accepted, replayed>>
  BY DEF ObserveFull
<1>4. /\ expiresAt' \in [Entry -> Nat \union {Absent}]
      /\ sweepThreshold' \in Nat
      /\ IsFiniteSet(Holds(expiresAt'))
      /\ \A e \in Entry : expiresAt'[e] # Absent => expiresAt'[e] = expiresAt[e]
  BY <1>1, <1>2, <1>3, SweepKeeps
<1>5. TypeOK'
  BY <1>1, <1>2, <1>3, <1>4 DEF TypeOK
<1>6. HoldsAtMostMaxEntries'
  <2>1. Holds(expiresAt') \subseteq Holds(expiresAt)
    BY <1>4 DEF Holds
  <2>2. /\ Cardinality(Holds(expiresAt')) <= Cardinality(Holds(expiresAt))
        /\ Cardinality(Holds(expiresAt')) \in Nat /\ Cardinality(Holds(expiresAt)) \in Nat
    BY <2>1, <1>1, <1>4, FS_Subset, FS_CardinalityType
  <2>3. Cardinality(Holds(expiresAt)) <= MaxEntries
    BY DEF Kept, HoldsAtMostMaxEntries, Remembered, Holds
  <2>4. Cardinality(Holds(expiresAt')) <= MaxEntries
    BY <2>2, <2>3, ReplayAssumption
  <2> QED BY <2>4 DEF HoldsAtMostMaxEntries, Remembered, Holds
<1>7. Covered'
  BY <1>1, <1>3, CoverKept DEF Covered, EntryOf, Expiry
<1>8. Explained'
  BY <1>3, <1>4 DEF Kept, Explained, Expiry
<1>9. ReplayIsLate'
  <2>1. \A r \in replayed : Expiry(r.proof) \in Nat
    BY <1>1, ProofFacts DEF TypeOK
  <2> QED BY <1>1, <1>2, <1>3, <2>1 DEF Kept, ReplayIsLate, TypeOK, Expiry
<1>10. IsFiniteSet(Holds(expiresAt))'
  BY <1>4 DEF Holds
<1> QED BY <1>5, <1>6, <1>7, <1>8, <1>9, <1>10 DEF Kept

LEMMA NewKeeps ==
  ASSUME Kept, NEW c \in Call, call[c].step = "observe", ObserveNew(c)
  PROVE  Kept'
<1> DEFINE p == call[c].proof
           at == call[c].at
<1>1. Answer(c, "accepted") /\ TypeOK /\ IsFiniteSet(Holds(expiresAt))
  BY DEF ObserveNew, Kept
<1>2. /\ p \in Proof /\ at \in Nat /\ call' \in [Call -> Answered \union Verifying]
      /\ latest' \in Nat /\ latest' >= latest /\ latest' >= at /\ now' \in Nat
  BY <1>1, AnswerTyped
<1>3. PICK kept \in {expiresAt, Swept(at)} :
        /\ Sweep(at, kept, sweepThreshold')
        /\ ~Full(kept)
        /\ expiresAt' = [kept EXCEPT ![EntryOf(p)] = Expiry(p)]
  BY DEF ObserveNew
<1>4. /\ kept \in [Entry -> Nat \union {Absent}]
      /\ sweepThreshold' \in Nat
      /\ IsFiniteSet(Holds(kept))
      /\ \A e \in Entry : kept[e] # Absent => kept[e] = expiresAt[e]
  BY <1>1, <1>2, <1>3, SweepKeeps
<1>5. Expiry(p) \in Nat /\ EntryOf(p) \in Entry
  BY <1>2, ProofFacts
<1>6. /\ expiresAt' \in [Entry -> Nat \union {Absent}]
      /\ expiresAt'[EntryOf(p)] = Expiry(p)
      /\ \A e \in Entry : e # EntryOf(p) => expiresAt'[e] = kept[e]
  BY <1>3, <1>4, <1>5
<1>7. /\ accepted' = accepted \union {p}
      /\ replayed' = IF p \in accepted THEN replayed \union {[proof |-> p, at |-> at]}
                     ELSE replayed
      /\ ~Live(EntryOf(p), at)
  BY DEF ObserveNew
<1>8. TypeOK'
  <2>1. accepted' \in SUBSET Proof
    BY <1>1, <1>2, <1>7 DEF TypeOK
  <2>2. replayed' \in SUBSET [proof: Proof, at: Nat]
    BY <1>1, <1>2, <1>7 DEF TypeOK
  <2> QED BY <2>1, <2>2, <1>2, <1>4, <1>6 DEF TypeOK
<1>9. IsFiniteSet(Holds(expiresAt')) /\ Cardinality(Holds(expiresAt')) <= MaxEntries
  <2>1. Holds(expiresAt') \subseteq Holds(kept) \union {EntryOf(p)}
    BY <1>6 DEF Holds
  <2>2. /\ IsFiniteSet(Holds(kept) \union {EntryOf(p)})
        /\ Cardinality(Holds(kept) \union {EntryOf(p)}) <= Cardinality(Holds(kept)) + 1
    <3>1. Cardinality(Holds(kept)) \in Nat
      BY <1>4, FS_CardinalityType
    <3>2. /\ IsFiniteSet(Holds(kept) \union {EntryOf(p)})
          /\ \/ Cardinality(Holds(kept) \union {EntryOf(p)}) = Cardinality(Holds(kept))
             \/ Cardinality(Holds(kept) \union {EntryOf(p)}) = Cardinality(Holds(kept)) + 1
      <4> HIDE DEF p
      <4> QED BY <1>4, FS_AddElement
    <3> QED BY <3>1, <3>2
  <2>3. /\ IsFiniteSet(Holds(expiresAt'))
        /\ Cardinality(Holds(expiresAt')) <= Cardinality(Holds(kept) \union {EntryOf(p)})
    BY <2>1, <2>2, FS_Subset
  <2>4. /\ Cardinality(Holds(kept)) \in Nat
        /\ Cardinality(Holds(expiresAt')) \in Nat
        /\ Cardinality(Holds(kept) \union {EntryOf(p)}) \in Nat
    BY <1>4, <2>2, <2>3, FS_CardinalityType
  <2>5. ~(Cardinality(Holds(kept)) >= MaxEntries)
    BY <1>3 DEF Full, Holds
  <2> QED BY <2>2, <2>3, <2>4, <2>5, ReplayAssumption
<1>10. Covered'
  <2> SUFFICES ASSUME NEW q \in accepted'
      PROVE \/ expiresAt'[EntryOf(q)] # Absent /\ expiresAt'[EntryOf(q)] >= Expiry(q)
            \/ latest' >= Expiry(q)
    BY DEF Covered, EntryOf, Expiry
  <2>1. q \in Proof /\ Expiry(q) \in Nat /\ EntryOf(q) \in Entry
    BY <1>8, ProofFacts DEF TypeOK
  <2>2. CASE q = p
    BY <2>2, <1>5, <1>6, ReplayAssumption
  <2>3. CASE q \in accepted /\ EntryOf(q) # EntryOf(p)
    <3>1. \/ kept[EntryOf(q)] # Absent /\ kept[EntryOf(q)] >= Expiry(q)
          \/ latest' >= Expiry(q)
      BY <2>3, <1>1, <1>3, CoverKept
    <3> QED BY <3>1, <2>1, <2>3, <1>6
  <2>4. CASE q \in accepted /\ EntryOf(q) = EntryOf(p)
    <3>1. \/ expiresAt[EntryOf(q)] # Absent /\ expiresAt[EntryOf(q)] >= Expiry(q)
          \/ latest >= Expiry(q)
      BY <2>4 DEF Kept, Covered
    <3>2. expiresAt[EntryOf(q)] = Absent \/ ~(expiresAt[EntryOf(q)] > at)
      BY <1>7, <2>4 DEF Live
    <3>3. expiresAt[EntryOf(q)] \in Nat \union {Absent} /\ latest \in Nat
      BY <1>1, <2>1 DEF TypeOK
    <3> QED BY <3>1, <3>2, <3>3, <2>1, <1>2
  <2> QED BY <2>2, <2>3, <2>4, <1>7
<1>11. Explained'
  <2> SUFFICES ASSUME NEW e \in Entry, expiresAt'[e] # Absent
      PROVE \E q \in accepted' : q.key = e[1] /\ q.id = e[2] /\ Expiry(q) = expiresAt'[e]
    BY DEF Explained, Expiry
  <2>1. CASE e = EntryOf(p)
    BY <2>1, <1>6, <1>7 DEF EntryOf
  <2>2. CASE e # EntryOf(p)
    BY <2>2, <1>4, <1>6, <1>7 DEF Kept, Explained
  <2> QED BY <2>1, <2>2
<1>12. ReplayIsLate'
  <2> SUFFICES ASSUME NEW r \in replayed' PROVE latest' >= Expiry(r.proof)
    BY DEF ReplayIsLate, Expiry
  <2>1. CASE r \in replayed
    <3>1. Expiry(r.proof) \in Nat /\ latest >= Expiry(r.proof) /\ latest \in Nat
      BY <2>1, <1>1, ProofFacts DEF TypeOK, Kept, ReplayIsLate
    <3> QED BY <3>1, <1>2
  <2>2. CASE p \in accepted /\ r = [proof |-> p, at |-> at]
    <3>1. \/ expiresAt[EntryOf(p)] # Absent /\ expiresAt[EntryOf(p)] >= Expiry(p)
          \/ latest >= Expiry(p)
      BY <2>2 DEF Kept, Covered
    <3>2. expiresAt[EntryOf(p)] = Absent \/ ~(expiresAt[EntryOf(p)] > at)
      BY <1>7 DEF Live
    <3>3. expiresAt[EntryOf(p)] \in Nat \union {Absent} /\ latest \in Nat
      BY <1>1, <1>5 DEF TypeOK
    <3>4. latest' >= Expiry(p)
      BY <3>1, <3>2, <3>3, <1>2, <1>5
    <3> QED BY <3>4, <2>2
  <2> QED BY <2>1, <2>2, <1>7
<1>13. HoldsAtMostMaxEntries' /\ IsFiniteSet(Holds(expiresAt))'
  BY <1>9 DEF HoldsAtMostMaxEntries, Remembered, Holds
<1> QED BY <1>8, <1>10, <1>11, <1>12, <1>13 DEF Kept

-----------------------------------------------------------------------------
\* What does not ask the detector leaves what is about it alone.
LEMMA OthersKeep ==
  ASSUME Kept, TypeOK', UNCHANGED <<expiresAt, latest, accepted, replayed>>
  PROVE  Kept'
BY DEF Kept, Holds, HoldsAtMostMaxEntries, Remembered, Covered, Explained, ReplayIsLate,
       EntryOf, Expiry

LEMMA StepKept == Kept /\ [Next]_vars => Kept'
<1> SUFFICES ASSUME Kept, [Next]_vars PROVE Kept'
  OBVIOUS
<1>1. TypeOK
  BY DEF Kept
<1>2. ASSUME NEW c \in Call, NEW p \in Proof, Verify(c, p) PROVE Kept'
  <2>1. [step |-> "observe", proof |-> p, at |-> now] \in Verifying
    BY <1>1 DEF TypeOK, Verifying
  <2>2. call' \in [Call -> Answered \union Verifying]
    BY <1>1, <1>2, <2>1 DEF TypeOK, Verify
  <2>3. TypeOK'
    BY <1>1, <1>2, <2>2 DEF TypeOK, Verify
  <2> QED BY <1>2, <2>3, OthersKeep DEF Verify
<1>3. ASSUME NEW c \in Call, Observe(c) PROVE Kept'
  BY <1>3, SeenKeeps, FullKeeps, NewKeeps DEF Observe
<1>4. CASE Tick
  <2>1. TypeOK'
    BY <1>1, <1>4 DEF TypeOK, Tick
  <2> QED BY <1>4, <2>1, OthersKeep DEF Tick
<1>5. CASE UNCHANGED vars
  <2>1. TypeOK'
    BY <1>1, <1>5 DEF TypeOK, vars
  <2> QED BY <1>5, <2>1, OthersKeep DEF vars
<1> QED BY <1>2, <1>3, <1>4, <1>5 DEF Next

\* The invariant the theorems below rest on.
THEOREM DetectorKept == Spec => []Kept
BY InitKept, StepKept, PTL DEF Spec

\* A proof is accepted again only once a call has asked the detector with a
\* clock at which the proof is over (memory_replay_detector.go, Observe).
THEOREM ReplayLate == Spec => []ReplayIsLate
<1>1. Kept => ReplayIsLate
  BY DEF Kept
<1> QED BY <1>1, DetectorKept, PTL

\* "It holds at most MaxEntries proofs", however many are presented at once.
THEOREM Bounded == Spec => []HoldsAtMostMaxEntries
<1>1. Kept => HoldsAtMostMaxEntries
  BY DEF Kept
<1> QED BY <1>1, DetectorKept, PTL

LEMMA SeenBefore ==
  ASSUME Kept, NEW c \in Call, NEW d \in Call, Observe(d),
         call[c].step = "observe", call'[c].step = "replayed"
  PROVE  \E q \in accepted :
           /\ q.key = call[c].proof.key /\ q.id = call[c].proof.id
           /\ Expiry(q) > call[c].at
<1>1. TypeOK /\ Explained
  BY DEF Kept
<1>2. call[c] \in Verifying
  BY <1>1 DEF TypeOK, Answered
<1>3. call[c].proof \in Proof
  BY <1>2 DEF Verifying
<1>4. PICK outcome \in {"accepted", "replayed", "full"} :
        /\ Answer(d, outcome)
        /\ outcome = "replayed" => Live(EntryOf(call[d].proof), call[d].at)
  BY DEF Observe, ObserveSeen, ObserveFull, ObserveNew
<1>5. c = d /\ outcome = "replayed"
  BY <1>1, <1>4 DEF Answer, TypeOK
<1>6. EntryOf(call[c].proof) \in Entry
  BY <1>3, ProofFacts
<1>7. PICK q \in accepted :
        /\ q.key = EntryOf(call[c].proof)[1] /\ q.id = EntryOf(call[c].proof)[2]
        /\ Expiry(q) = expiresAt[EntryOf(call[c].proof)]
  BY <1>1, <1>4, <1>5, <1>6 DEF Explained, Live
<1> QED BY <1>4, <1>5, <1>7 DEF Live, EntryOf

\* "Two keys may each use the same jti without either being a replay": whoever
\* is refused presents what was accepted before, and could still be.
THEOREM FirstUse == Spec => FirstUseIsNoReplay
<1> DEFINE Refused ==
      \A c \in Call :
        call[c].step = "observe" /\ call'[c].step = "replayed" =>
          \E q \in accepted :
            /\ q.key = call[c].proof.key /\ q.id = call[c].proof.id
            /\ Expiry(q) > call[c].at
<1>1. Kept /\ [Next]_vars => [Refused]_vars
  <2> SUFFICES ASSUME Kept, Next PROVE Refused
    OBVIOUS
  <2>1. ASSUME NEW d \in Call, Observe(d) PROVE Refused
    BY <2>1, SeenBefore
  <2>2. ASSUME NEW d \in Call, NEW p \in Proof, Verify(d, p) PROVE Refused
    BY <2>2 DEF Verify, Kept, TypeOK
  <2>3. CASE Tick
    BY <2>3 DEF Tick
  <2> QED BY <2>1, <2>2, <2>3 DEF Next
<1>2. Spec => [][Refused]_vars
  BY <1>1, DetectorKept, PTL DEF Spec
<1> QED BY <1>2 DEF FirstUseIsNoReplay

LEMMA FullIsLive ==
  ASSUME Kept, NEW c \in Call, NEW d \in Call, Observe(d),
         call[c].step = "observe", call'[c].step = "full"
  PROVE  Cardinality({e \in Entry : Live(e, call[c].at)}) >= MaxEntries
<1>1. TypeOK /\ IsFiniteSet(Holds(expiresAt))
  BY DEF Kept
<1>2. PICK outcome \in {"accepted", "replayed", "full"} :
        /\ Answer(d, outcome)
        /\ outcome = "full" => ObserveFull(d)
  BY DEF Observe, ObserveSeen, ObserveFull, ObserveNew
<1>3. c = d /\ outcome = "full"
  BY <1>1, <1>2 DEF Answer, TypeOK
<1>4. call[c].at \in Nat
  BY <1>1, <1>2, AnswerTyped, <1>3
<1>5. PICK kept \in {expiresAt, Swept(call[c].at)} :
        Sweep(call[c].at, kept, sweepThreshold') /\ Full(kept)
  BY <1>2, <1>3 DEF ObserveFull
<1>6. ~Due => Cardinality(Holds(expiresAt)) < MaxEntries
  <2>1. Cardinality(Holds(expiresAt)) \in Nat
    BY <1>1, FS_CardinalityType
  <2>2. Least(Greatest(sweepThreshold, minimumSweepThreshold), MaxEntries) <= MaxEntries
        /\ Least(Greatest(sweepThreshold, minimumSweepThreshold), MaxEntries) \in Nat
    BY <1>1, ReplayAssumption DEF TypeOK, Least, Greatest
  <2>3. Due <=> Cardinality(Holds(expiresAt))
                  >= Least(Greatest(sweepThreshold, minimumSweepThreshold), MaxEntries)
    BY DEF Due, Remembered, Holds
  <2> QED BY <2>1, <2>2, <2>3, ReplayAssumption
<1>7. CASE Due /\ kept = Swept(call[c].at)
  <2>1. \A e \in Entry : kept[e] # Absent <=> Live(e, call[c].at)
    BY <1>7 DEF Swept, Live
  <2>2. {e \in Entry : kept[e] # Absent} = {e \in Entry : Live(e, call[c].at)}
    BY <2>1
  <2> QED BY <2>2, <1>5 DEF Full
<1>8. CASE ~Due /\ kept = expiresAt
  <2>1. Cardinality(Holds(expiresAt)) \in Nat
    BY <1>1, FS_CardinalityType
  <2>2. Cardinality(Holds(expiresAt)) >= MaxEntries
    BY <1>5, <1>8 DEF Full, Holds
  <2> QED BY <1>6, <1>8, <2>1, <2>2, ReplayAssumption
<1> QED BY <1>5, <1>7, <1>8 DEF Sweep

\* "once full, the detector refuses to vouch for new proofs rather than forget
\* live ones": it says so only when what it holds is live to its bound.
THEOREM FullOfLive == Spec => FullOfLiveProofs
<1> DEFINE Refused ==
      \A c \in Call :
        call[c].step = "observe" /\ call'[c].step = "full" =>
          Cardinality({e \in Entry : Live(e, call[c].at)}) >= MaxEntries
<1>1. Kept /\ [Next]_vars => [Refused]_vars
  <2> SUFFICES ASSUME Kept, Next PROVE Refused
    OBVIOUS
  <2>1. ASSUME NEW d \in Call, Observe(d) PROVE Refused
    BY <2>1, FullIsLive
  <2>2. ASSUME NEW d \in Call, NEW p \in Proof, Verify(d, p) PROVE Refused
    BY <2>2 DEF Verify, Kept, TypeOK
  <2>3. CASE Tick
    BY <2>3 DEF Tick
  <2> QED BY <2>1, <2>2, <2>3 DEF Next
<1> QED BY <1>1, DetectorKept, PTL DEF Spec, FullOfLiveProofs
===============================================================================
