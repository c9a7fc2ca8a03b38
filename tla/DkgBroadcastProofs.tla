------------------------- MODULE DkgBroadcastProofs -------------------------
(***************************************************************************)
(* Certified broadcast is consistent for every number of validators, every *)
(* set of faulty ones that two quorums outvote, and any number of crashes; *)
(* the collectors of both rounds keep what is theirs and report only what  *)
(* was signed twice, whatever the faulty validators send.                  *)
(***************************************************************************)
EXTENDS DkgTransport, FiniteSetTheorems, TLAPS

\* What a guard, in memory or saved, holds under a sender is a verified
\* broadcast of that sender, and nothing saved is missing from memory.
GuardsSound ==
    \A v \in Endorsers, s \in Validators :
        /\ guard[v][s] # None => /\ guard[v][s].sender = s
                                 /\ verify_broadcast(Session, guard[v][s])
        /\ saved[v][s] # None => saved[v][s] = guard[v][s]

\* An endorsement on the network is that of the envelope its endorser saved.
PublishedSaved ==
    \A x \in published :
        /\ x.endorser \in Endorsers
        /\ x.sender \in Validators
        /\ saved[x.endorser][x.sender] = x.digest
        /\ x.digest \in Envelopes

\* What a collector keeps was backed by a quorum.
TranscriptsBacked ==
    \A v \in Collectors, s \in Validators :
        transcript[v][s] # None =>
            /\ transcript[v][s] \in Envelopes
            /\ transcript[v][s].sender = s
            /\ verify_broadcast(Session, transcript[v][s])
            /\ Backed(transcript[v][s])

IInv == TypeOK /\ GuardsSound /\ PublishedSaved /\ TranscriptsBacked

-----------------------------------------------------------------------------
LEMMA NetworkIsEnvelopes == TypeOK => Network \subseteq Envelopes
BY DEF TypeOK, Network, Envelopes

\* An endorser signs only a verified broadcast of a sender it has nothing of.
LEMMA SignedIsNew ==
    ASSUME NEW g, NEW e, endorse_broadcast(Session, g, GuardCapacity, e) = "sign"
    PROVE  /\ e.sender \in Validators
           /\ g[e.sender] = None
           /\ verify_broadcast(Session, e)
BY DEF endorse_broadcast, open_round1_broadcast

\* A collector keeps only what is certified, of a sender it has nothing of.
LEMMA AcceptedIsNew ==
    ASSUME NEW held, NEW keys, NEW e, NEW c,
           accept(held, keys, ReplayCapacity, e, c) = "new"
    PROVE  /\ e.sender \in Validators
           /\ c
BY DEF accept, check_and_record

\* A certificate holds the endorsements of a quorum.
LEMMA CertifiedIsBacked ==
    ASSUME NEW e, Certified(e)
    PROVE  Backed(e) /\ verify_broadcast(Session, e)
<1> DEFINE X == Endorsements(e)
           A == {x.endorser : x \in X}
<1>1. /\ Cardinality(X) >= Quorum
      /\ Cardinality(A) = Cardinality(X)
      /\ A \subseteq Validators
      /\ verify_broadcast(Session, e)
      /\ \A x \in X : x = Endorsement(Session, e, x.endorser)
  BY DEF Certified, open_certified_round1_broadcast, verify_certified_broadcast
<1>2. Cardinality(A) >= Quorum
  BY <1>1, Zenon
<1>3. ASSUME NEW v \in A \ Faulty
      PROVE  \E x \in published : x.endorser = v /\ x.digest = e /\ x.sender = e.sender
  <2>1. PICK x \in X : x.endorser = v
    BY Zenon
  <2>2. x = Endorsement(Session, e, x.endorser)
    BY <1>1
  <2>3. x.digest = e /\ x.sender = e.sender
    BY <2>2 DEF Endorsement, broadcast_content_digest
  <2>4. x \in published
    <3>1. SUFFICES x \notin {Endorsement(Session, e, w) : w \in Faulty}
      BY DEF Endorsements
    <3>2. \A w \in Faulty : Endorsement(Session, e, w).endorser = w
      BY DEF Endorsement
    <3> QED BY <3>2, <2>1
  <2> QED BY <2>1, <2>3, <2>4
<1> QED BY <1>1, <1>2, <1>3, Zenon DEF Backed

\* Backed, for any set P of endorsements.
BackedBy(P, e) ==
    \E A \in SUBSET Validators :
        /\ Cardinality(A) >= Quorum
        /\ \A v \in A \ Faulty : \E x \in P :
              x.endorser = v /\ x.digest = e /\ x.sender = e.sender

\* Two quorums share a correct endorser, and its guard holds one envelope per
\* sender.
LEMMA QuorumsAgree ==
    ASSUME NEW P, NEW S, NEW e1, NEW e2,
           \A x \in P : S[x.endorser][x.sender] = x.digest,
           BackedBy(P, e1), BackedBy(P, e2), e1.sender = e2.sender
    PROVE  e1 = e2
<1>1. PICK A \in SUBSET Validators :
        /\ Cardinality(A) >= Quorum
        /\ \A v \in A \ Faulty : \E x \in P :
              x.endorser = v /\ x.digest = e1 /\ x.sender = e1.sender
  BY Zenon DEF BackedBy
<1>2. PICK B \in SUBSET Validators :
        /\ Cardinality(B) >= Quorum
        /\ \A v \in B \ Faulty : \E x \in P :
              x.endorser = v /\ x.digest = e2 /\ x.sender = e2.sender
  BY Zenon DEF BackedBy
<1>3. PICK v \in A \cap B : v \notin Faulty
  BY <1>1, <1>2, QuorumAssumption, Zenon
<1>4. PICK x1 \in P : x1.endorser = v /\ x1.digest = e1 /\ x1.sender = e1.sender
  BY <1>1, <1>3
<1>5. PICK x2 \in P : x2.endorser = v /\ x2.digest = e2 /\ x2.sender = e2.sender
  BY <1>2, <1>3
<1>6. S[v][e1.sender] = e1 /\ S[v][e2.sender] = e2
  BY <1>4, <1>5, Zenon
<1> QED BY <1>6

\* Before and after a step.
LEMMA BackedAgree ==
    ASSUME PublishedSaved, NEW e1, NEW e2, Backed(e1), Backed(e2),
           e1.sender = e2.sender
    PROVE  e1 = e2
<1>1. \A x \in published : saved[x.endorser][x.sender] = x.digest
  BY DEF PublishedSaved
<1>2. BackedBy(published, e1) /\ BackedBy(published, e2)
  BY DEF Backed, BackedBy
<1> QED BY <1>1, <1>2, QuorumsAgree

LEMMA BackedAgreeNext ==
    ASSUME PublishedSaved', NEW e1, NEW e2, Backed(e1)', Backed(e2)',
           e1.sender = e2.sender
    PROVE  e1 = e2
<1>1. \A x \in published' : (saved')[x.endorser][x.sender] = x.digest
  BY DEF PublishedSaved
<1>2. BackedBy(published', e1) /\ BackedBy(published', e2)
  BY DEF Backed, BackedBy
<1> QED BY <1>1, <1>2, QuorumsAgree

\* A verified envelope of a correct validator is the one it sealed.
LEMMA CorrectSendersOwn ==
    ASSUME NEW e \in Envelopes, verify_broadcast(Session, e), e.sender \notin Faulty
    PROVE  e = Own(e.sender)
<1>1. e \notin Wild
  BY BroadcastAssumption
<1>2. PICK v \in Speakers : e = Own(v)
  BY <1>1 DEF Envelopes
<1>3. e.sender = v
  BY <1>2 DEF Own, seal_round1_broadcast, Round1Message, Envelope
<1> QED BY <1>2, <1>3

-----------------------------------------------------------------------------
LEMMA InitIInv == Init => IInv
<1> SUFFICES ASSUME Init PROVE IInv
  OBVIOUS
<1> USE DEF Init
<1>1. TypeOK
  BY BroadcastAssumption DEF TypeOK, EmptyGuard, EmptyTranscript
<1>2. GuardsSound
  BY DEF GuardsSound, EmptyGuard
<1>3. PublishedSaved
  BY DEF PublishedSaved
<1>4. TranscriptsBacked
  BY DEF TranscriptsBacked, EmptyTranscript
<1> QED BY <1>1, <1>2, <1>3, <1>4 DEF IInv

LEMMA SealIInv == ASSUME IInv, NEW v \in Speakers, Seal(v) PROVE IInv'
<1> USE DEF IInv, Seal
<1>1. TypeOK'
  BY DEF TypeOK
<1>2. GuardsSound' /\ PublishedSaved'
  BY DEF GuardsSound, PublishedSaved
<1>3. TranscriptsBacked'
  BY DEF TranscriptsBacked, Backed
<1> QED BY <1>1, <1>2, <1>3

LEMMA EndorseIInv ==
    ASSUME IInv, NEW v \in Endorsers, NEW e \in Network, Endorse(v, e) PROVE IInv'
<1> USE DEF IInv, Endorse
<1>1. e \in Envelopes
  BY NetworkIsEnvelopes
<1>2. /\ e.sender \in Validators
      /\ guard[v][e.sender] = None
      /\ verify_broadcast(Session, e)
  BY SignedIsNew
<1>3. guard' = [guard EXCEPT ![v] = [guard[v] EXCEPT ![e.sender] = e]]
  BY DEF Recorded, broadcast_content_digest
<1>4. TypeOK'
  BY <1>1, <1>2, <1>3 DEF TypeOK
<1>5. GuardsSound'
  BY <1>2, <1>3 DEF GuardsSound, TypeOK
<1>6. PublishedSaved'
  BY DEF PublishedSaved
<1>7. TranscriptsBacked'
  BY DEF TranscriptsBacked, Backed
<1> QED BY <1>4, <1>5, <1>6, <1>7

LEMMA SaveGuardIInv ==
    ASSUME IInv, NEW v \in Endorsers, SaveGuard(v) PROVE IInv'
<1> USE DEF IInv, SaveGuard
<1>1. TypeOK'
  BY DEF TypeOK
<1>2. GuardsSound'
  BY DEF GuardsSound, TypeOK
<1>4. PublishedSaved'
  <2> SUFFICES ASSUME NEW x \in published
               PROVE  /\ x.endorser \in Endorsers /\ x.sender \in Validators
                      /\ saved'[x.endorser][x.sender] = x.digest
                      /\ x.digest \in Envelopes
    BY DEF PublishedSaved
  <2>1. /\ x.endorser \in Endorsers /\ x.sender \in Validators
        /\ saved[x.endorser][x.sender] = x.digest
        /\ x.digest \in Envelopes /\ x.digest # None
    BY NoneAssumption DEF PublishedSaved
  <2>2. saved[x.endorser][x.sender] = guard[x.endorser][x.sender]
    BY <2>1 DEF GuardsSound
  <2>3. saved'[x.endorser] \in {saved[x.endorser], guard[x.endorser]}
    BY <2>1 DEF TypeOK
  <2> QED
    BY <2>1, <2>2, <2>3
<1>5. TranscriptsBacked'
  BY DEF TranscriptsBacked, Backed
<1> QED BY <1>1, <1>2, <1>4, <1>5

\* What is backed stays backed.
LEMMA BackedLasts ==
    ASSUME published \subseteq published', NEW e, Backed(e) PROVE Backed(e)'
BY DEF Backed

LEMMA PublishIInv ==
    ASSUME IInv, NEW v \in Endorsers, NEW s \in Validators, Publish(v, s) PROVE IInv'
<1> USE DEF IInv, Publish
<1> DEFINE e == saved[v][s]
           x == Endorsement(Session, e, v)
<1>1. e \in Envelopes /\ e = guard[v][s] /\ e.sender = s
  BY DEF TypeOK, GuardsSound
<1>2. x.endorser = v /\ x.sender = s /\ x.digest = e
  BY <1>1 DEF Endorsement, broadcast_content_digest
<1>3. TypeOK'
  BY <1>1 DEF TypeOK
<1>4. GuardsSound'
  BY DEF GuardsSound
<1>5. PublishedSaved'
  BY <1>1, <1>2 DEF PublishedSaved
<1>6. TranscriptsBacked'
  BY BackedLasts DEF TranscriptsBacked
<1> QED BY <1>3, <1>4, <1>5, <1>6

LEMMA AcceptIInv ==
    ASSUME IInv, NEW v \in Collectors, NEW e \in Network, Accept(v, e) PROVE IInv'
<1> USE DEF IInv, Accept
<1>1. e \in Envelopes
  BY NetworkIsEnvelopes
<1>2. e.sender \in Validators /\ Certified(e)
  BY AcceptedIsNew
<1>3. Backed(e) /\ verify_broadcast(Session, e)
  BY <1>2, CertifiedIsBacked
<1>4. TypeOK'
  BY <1>1, <1>2 DEF TypeOK
<1>5. GuardsSound' /\ PublishedSaved'
  BY DEF GuardsSound, PublishedSaved
<1>6. TranscriptsBacked'
  BY <1>1, <1>2, <1>3, BackedLasts DEF TranscriptsBacked, TypeOK
<1> QED BY <1>4, <1>5, <1>6

LEMMA CrashIInv ==
    ASSUME IInv, NEW v \in Endorsers, Crash(v) PROVE IInv'
<1> USE DEF IInv, Crash
<1>1. TypeOK'
  <2>1. crashes' \in 0..MaxCrashes
    BY BroadcastAssumption DEF TypeOK
  <2>2. EmptyTranscript \in [Validators -> Envelopes \cup {None}]
    BY DEF EmptyTranscript
  <2>3. transcript' \in [Collectors -> [Validators -> Envelopes \cup {None}]]
    <3> DEFINE T == [Validators -> Envelopes \cup {None}]
    <3>1. transcript \in [Collectors -> T] /\ EmptyTranscript \in T
      BY <2>2 DEF TypeOK
    <3>2. transcript' = [transcript EXCEPT ![v] = EmptyTranscript]
      OBVIOUS
    <3> HIDE DEF T
    <3>3. transcript' \in [Collectors -> T]
      BY <3>1, <3>2
    <3> QED BY <3>3 DEF T
  <2> QED BY <2>1, <2>3 DEF TypeOK
<1>2. GuardsSound'
  BY DEF GuardsSound, TypeOK
<1>3. PublishedSaved'
  BY DEF PublishedSaved
<1>4. TranscriptsBacked'
  BY BackedLasts DEF TranscriptsBacked, TypeOK, EmptyTranscript
<1> QED BY <1>1, <1>2, <1>3, <1>4

LEMMA StepIInv == IInv /\ [Next]_vars => IInv'
<1> SUFFICES ASSUME IInv, [Next]_vars PROVE IInv'
  OBVIOUS
<1>1. ASSUME NEW v \in Speakers, Seal(v) PROVE IInv'
  BY <1>1, SealIInv
<1>2. ASSUME NEW v \in Endorsers, SaveGuard(v) PROVE IInv'
  BY <1>2, SaveGuardIInv
<1>3. ASSUME NEW v \in Endorsers, Crash(v) PROVE IInv'
  BY <1>3, CrashIInv
<1>4. ASSUME NEW v \in Endorsers, NEW s \in Validators, Publish(v, s) PROVE IInv'
  BY <1>4, PublishIInv
<1>5. ASSUME NEW v \in Endorsers, NEW e \in Network, Endorse(v, e) PROVE IInv'
  BY <1>5, EndorseIInv
<1>6. ASSUME NEW v \in Collectors, NEW e \in Network, Accept(v, e) PROVE IInv'
  BY <1>6, AcceptIInv
<1>7. CASE UNCHANGED vars
  BY <1>7 DEF vars, IInv, TypeOK, GuardsSound, PublishedSaved, TranscriptsBacked, Backed
<1> QED BY <1>1, <1>2, <1>3, <1>4, <1>5, <1>6, <1>7 DEF Next

LEMMA InductiveInvariant == Spec => []IInv
BY InitIInv, StepIInv, PTL DEF Spec

-----------------------------------------------------------------------------
\* The values of the protocol's variables stay in their types.
THEOREM TypeCorrect == Spec => []TypeOK
<1>1. IInv => TypeOK
  BY DEF IInv
<1> QED BY <1>1, InductiveInvariant, PTL

\* An endorsement that left a correct validator is in its guard, in memory and
\* in storage, after any number of crashes between endorse_broadcast, the save
\* and the send: a correct validator never endorses two broadcasts of a sender.
THEOREM EndorsementsGuarded == Spec => []PublishedIsGuarded
<1>1. IInv => PublishedIsGuarded
  <2> SUFFICES ASSUME IInv, NEW x \in published
               PROVE  /\ saved[x.endorser][x.sender] = x.digest
                      /\ guard[x.endorser][x.sender] = x.digest
    BY DEF PublishedIsGuarded
  <2> QED BY NoneAssumption DEF IInv, PublishedSaved, GuardsSound
<1> QED BY <1>1, InductiveInvariant, PTL

\* verify_certified_broadcast never accepts certificates of two broadcasts of
\* one sender, however the faulty validators sign and endorse.
THEOREM NoConflictingCertificates == Spec => []CertificatesAgree
<1>1. IInv => CertificatesAgree
  BY CertifiedIsBacked, BackedAgree DEF IInv, CertificatesAgree
<1> QED BY <1>1, InductiveInvariant, PTL

\* The transcripts of correct collectors agree on every sender, and hold of a
\* correct sender what it sealed (DkgCertifiedBroadcastTranscript::accept).
THEOREM TranscriptAgreement == Spec => []TranscriptsAgree
<1>1. IInv => TranscriptsAgree
  <2> SUFFICES ASSUME IInv PROVE TranscriptsAgree
    OBVIOUS
  <2>1. ASSUME NEW v \in Collectors, NEW w \in Collectors, NEW s \in Validators,
               transcript[v][s] # None, transcript[w][s] # None
        PROVE  transcript[v][s] = transcript[w][s]
    <3>1. /\ Backed(transcript[v][s]) /\ transcript[v][s].sender = s
          /\ Backed(transcript[w][s]) /\ transcript[w][s].sender = s
      BY <2>1 DEF IInv, TranscriptsBacked
    <3> QED BY <3>1, BackedAgree DEF IInv
  <2>2. ASSUME NEW v \in Collectors, NEW s \in Validators \ Faulty,
               transcript[v][s] # None
        PROVE  transcript[v][s] = Own(s)
    <3>1. /\ transcript[v][s] \in Envelopes
          /\ transcript[v][s].sender = s
          /\ verify_broadcast(Session, transcript[v][s])
      BY <2>2 DEF IInv, TranscriptsBacked
    <3> QED BY <3>1, CorrectSendersOwn
  <2> QED BY <2>1, <2>2 DEF TranscriptsAgree
<1> QED BY <1>1, InductiveInvariant, PTL

-----------------------------------------------------------------------------
(* Refinement: certified broadcast implements consistent broadcast.  The   *)
(* outcome of a sender is the envelope a quorum stands behind.             *)

LEMMA OutcomeSound ==
    ASSUME NEW s, Outcome(s) # None
    PROVE  /\ Outcome(s) \in Envelopes
           /\ Outcome(s).sender = s
           /\ Decided(Outcome(s))
<1>1. \E e \in Envelopes : e.sender = s /\ Decided(e)
  BY DEF Outcome
<1>2. Outcome(s) = CHOOSE e \in Envelopes : e.sender = s /\ Decided(e)
  BY <1>1 DEF Outcome
<1> QED BY <1>1, <1>2, Zenon

LEMMA OutcomeIs ==
    ASSUME PublishedSaved, NEW e \in Envelopes, Decided(e)
    PROVE  Outcome(e.sender) = e
<1> DEFINE o == CHOOSE x \in Envelopes : x.sender = e.sender /\ Decided(x)
<1>1. \E x \in Envelopes : x.sender = e.sender /\ Decided(x)
  OBVIOUS
<1>2. Outcome(e.sender) = o
  BY <1>1 DEF Outcome
<1>3. o.sender = e.sender /\ Decided(o)
  BY <1>1, Zenon
<1> HIDE DEF o
<1>4. o = e
  BY <1>3, BackedAgree DEF Decided
<1> QED BY <1>2, <1>4

\* Outcomes depend on what is published only.
LEMMA OutcomeUnchanged ==
    ASSUME UNCHANGED published, NEW s PROVE Outcome(s)' = Outcome(s)
BY DEF Outcome, Decided, Backed

LEMMA NoOutcomeAtFirst == ASSUME Init, NEW s PROVE Outcome(s) = None
<1> SUFFICES ASSUME NEW e \in Envelopes, Backed(e) PROVE FALSE
  BY DEF Outcome, Decided
<1>1. PICK A \in SUBSET Validators :
        /\ Cardinality(A) >= Quorum
        /\ \A v \in A \ Faulty : \E x \in published :
              x.endorser = v /\ x.digest = e /\ x.sender = e.sender
  BY Zenon DEF Backed
<1>2. PICK v \in A \cap A : v \notin Faulty
  BY <1>1, QuorumAssumption, Zenon
<1> QED BY <1>1, <1>2 DEF Init

LEMMA InitRefines == Init => CB!Init
<1> SUFFICES ASSUME Init PROVE CB!Init
  OBVIOUS
<1>1. [s \in Validators |-> Outcome(s)] = [s \in Validators |-> None]
  BY NoOutcomeAtFirst
<1>2. transcript = [c \in Collectors |-> [s \in Validators |-> None]]
  BY DEF Init, EmptyTranscript
<1> QED BY <1>1, <1>2 DEF CB!Init

\* An endorsement of one sender's broadcast leaves the other outcomes alone.
LEMMA PublishOutcomes ==
    ASSUME IInv, IInv', NEW v \in Endorsers, NEW s \in Validators, Publish(v, s),
           NEW t \in Validators
    PROVE  /\ t # s => Outcome(t)' = Outcome(t)
           /\ Outcome(t) # None => Outcome(t)' = Outcome(t)
<1> DEFINE new == Endorsement(Session, saved[v][s], v)
<1>1. new.sender = s
  BY DEF IInv, GuardsSound, TypeOK, Publish, Endorsement
<1>2. published' = published \cup {new}
  BY DEF Publish
<1> HIDE DEF new
<1>3. ASSUME t # s PROVE Outcome(t)' = Outcome(t)
  <2>1. ASSUME NEW e \in Envelopes, e.sender = t PROVE Decided(e)' <=> Decided(e)
    BY <1>1, <1>2, <1>3, <2>1 DEF Decided, Backed
  <2>2. ASSUME NEW e PROVE (e \in Envelopes /\ e.sender = t /\ Decided(e))'
                              <=> (e \in Envelopes /\ e.sender = t /\ Decided(e))
    BY <2>1
  <2> QED BY <2>2 DEF Outcome
<1>4. ASSUME Outcome(t) # None PROVE Outcome(t)' = Outcome(t)
  <2>1. PICK o \in Envelopes : o = Outcome(t)
    BY <1>4, OutcomeSound
  <2>2. o.sender = t /\ Decided(o)
    BY <1>4, <2>1, OutcomeSound
  <2>3. Decided(o)'
    <3>1. published \subseteq published'
      BY <1>2
    <3>2. Backed(o)'
      BY <2>2, <3>1, BackedLasts DEF Decided
    <3> QED BY <2>2, <3>2 DEF Decided
  <2>4. Outcome(o.sender)' = o
    <3>1. PublishedSaved'
      BY DEF IInv
    <3>2. \E x \in Envelopes : x.sender = o.sender /\ Decided(x)'
      BY <2>3
    <3>3. Outcome(o.sender)' = CHOOSE x \in Envelopes : x.sender = o.sender /\ Decided(x)'
      BY <3>2 DEF Outcome
    <3>4. PICK x \in Envelopes : x = Outcome(o.sender)' /\ x.sender = o.sender /\ Decided(x)'
      BY <3>2, <3>3, Zenon
    <3>5. x = o
      <4>1. Backed(x)' /\ Backed(o)'
        BY <2>3, <3>4 DEF Decided
      <4> QED BY <3>1, <3>4, <4>1, BackedAgreeNext
    <3> QED BY <3>4, <3>5
  <2> QED BY <2>1, <2>2, <2>4
<1> QED BY <1>3, <1>4

LEMMA PublishRefines ==
    ASSUME IInv, IInv', NEW v \in Endorsers, NEW s \in Validators, Publish(v, s)
    PROVE  CB!Choose(s) \/ UNCHANGED <<[t \in Validators |-> Outcome(t)], transcript>>
<1>1. UNCHANGED transcript
  BY DEF Publish
<1>2. \A t \in Validators \ {s} : Outcome(t)' = Outcome(t)
  BY PublishOutcomes
<1>3. CASE Outcome(s)' = Outcome(s)
  <2>1. [t \in Validators |-> Outcome(t)]' = [t \in Validators |-> Outcome(t)]
    BY <1>2, <1>3
  <2> QED BY <1>1, <2>1
<1>4. CASE Outcome(s)' # Outcome(s)
  <2>1. Outcome(s) = None
    BY <1>4, PublishOutcomes
  <2>2. Outcome(s)' # None
    BY <1>4, <2>1
  <2>3. PICK o \in Envelopes : o = Outcome(s)' /\ o.sender = s /\ Decided(o)'
    <3>1. \E e \in Envelopes : e.sender = s /\ Decided(e)'
      BY <2>2 DEF Outcome
    <3>2. Outcome(s)' = CHOOSE e \in Envelopes : e.sender = s /\ Decided(e)'
      BY <3>1 DEF Outcome
    <3> QED BY <3>1, <3>2, Zenon
  <2>4. s \notin Faulty => o = Own(s)
    BY <2>3, CorrectSendersOwn DEF Decided
  <2>5. [t \in Validators |-> Outcome(t)]'
          = [[t \in Validators |-> Outcome(t)] EXCEPT ![s] = o]
    BY <1>2, <2>3
  <2> QED BY <1>1, <2>1, <2>3, <2>4, <2>5 DEF CB!Choose
<1> QED BY <1>3, <1>4

LEMMA AcceptRefines ==
    ASSUME IInv, NEW v \in Collectors, NEW e \in Network, Accept(v, e)
    PROVE  CB!Deliver(v, e.sender)
<1>1. e \in Envelopes
  BY NetworkIsEnvelopes DEF IInv
<1>2. e.sender \in Validators /\ Certified(e)
  BY AcceptedIsNew DEF Accept
<1>3. Decided(e)
  BY <1>2, CertifiedIsBacked DEF Decided
<1>4. Outcome(e.sender) = e
  BY <1>1, <1>3, OutcomeIs DEF IInv
<1>5. e # None
  BY <1>1, NoneAssumption
<1>6. UNCHANGED published /\ transcript' =
        [transcript EXCEPT ![v] = [transcript[v] EXCEPT ![e.sender] = e]]
  BY DEF Accept
<1>7. [t \in Validators |-> Outcome(t)]' = [t \in Validators |-> Outcome(t)]
  BY <1>6, OutcomeUnchanged
<1> QED BY <1>2, <1>4, <1>5, <1>6, <1>7 DEF CB!Deliver

LEMMA CrashRefines ==
    ASSUME IInv, NEW v \in Endorsers, Crash(v)
    PROVE  \/ v \in Collectors /\ CB!Forget(v)
           \/ UNCHANGED <<[t \in Validators |-> Outcome(t)], transcript>>
<1>1. [t \in Validators |-> Outcome(t)]' = [t \in Validators |-> Outcome(t)]
  BY OutcomeUnchanged DEF Crash
<1>2. CASE v \in Collectors
  BY <1>1, <1>2 DEF CB!Forget, Crash, EmptyTranscript
<1>3. CASE v \notin Collectors
  <2>1. transcript' = transcript
    BY <1>3 DEF Crash, IInv, TypeOK
  <2> QED BY <1>1, <2>1
<1> QED BY <1>2, <1>3

LEMMA StepRefines ==
    ASSUME IInv, IInv', [Next]_vars
    PROVE  [CB!Next]_<<[s \in Validators |-> Outcome(s)], transcript>>
<1> DEFINE Stutter == UNCHANGED <<[s \in Validators |-> Outcome(s)], transcript>>
<1>0. ASSUME UNCHANGED <<published, transcript>> PROVE Stutter
  <2>1. [s \in Validators |-> Outcome(s)]' = [s \in Validators |-> Outcome(s)]
    BY <1>0, OutcomeUnchanged
  <2> QED BY <1>0, <2>1
<1>1. ASSUME NEW v \in Speakers, Seal(v) PROVE Stutter
  BY <1>0, <1>1 DEF Seal
<1>2. ASSUME NEW v \in Endorsers, SaveGuard(v) PROVE Stutter
  BY <1>0, <1>2 DEF SaveGuard
<1>3. ASSUME NEW v \in Endorsers, Crash(v) PROVE CB!Next \/ Stutter
  BY <1>3, CrashRefines DEF CB!Next
<1>4. ASSUME NEW v \in Endorsers, NEW s \in Validators, Publish(v, s)
      PROVE  CB!Next \/ Stutter
  BY <1>4, PublishRefines DEF CB!Next
<1>5. ASSUME NEW v \in Endorsers, NEW e \in Network, Endorse(v, e) PROVE Stutter
  BY <1>0, <1>5 DEF Endorse
<1>6. ASSUME NEW v \in Collectors, NEW e \in Network, Accept(v, e) PROVE CB!Next
  <2>1. e.sender \in Validators
    BY <1>6, AcceptedIsNew DEF Accept
  <2> QED BY <1>6, <2>1, AcceptRefines DEF CB!Next
<1>7. ASSUME UNCHANGED vars PROVE Stutter
  BY <1>0, <1>7 DEF vars
<1> HIDE DEF Stutter
<1>8. ASSUME Next PROVE CB!Next \/ Stutter
  BY <1>1, <1>2, <1>3, <1>4, <1>5, <1>6, <1>8, Zenon DEF Next
<1>9. CB!Next \/ Stutter
  BY <1>7, <1>8, Zenon
<1> QED BY <1>9 DEF Stutter

\* Round one of the ceremony over dkg_transport.rs implements a consistent
\* broadcast: every sender has at most one outcome, chosen once, and that is
\* what collectors deliver.
THEOREM Refinement == Spec => IsConsistentBroadcast
BY InductiveInvariant, InitRefines, StepRefines, PTL
   DEF Spec, IsConsistentBroadcast, CB!Spec

-----------------------------------------------------------------------------
(* The replay guard of a certified transcript. *)

\* The envelopes a transcript holds, as the replay guard sees them.
KeysOf(held) == {replay_key(held[s]) : s \in {t \in Validators : held[t] # None}}

GuardsMatch == seen = [v \in Collectors |-> KeysOf(transcript[v])]

\* What is taken as new had nothing of its sender and opens.
LEMMA NewIsFirst ==
    ASSUME NEW held, NEW keys, NEW e, NEW c,
           accept(held, keys, ReplayCapacity, e, c) = "new"
    PROVE  e.sender \in Validators /\ held[e.sender] = None /\ c
BY DEF accept, check_and_record

\* A collector that takes an envelope adds its key.
LEMMA KeysOfMore ==
    ASSUME NEW held \in [Validators -> Envelopes \cup {None}], NEW e \in Envelopes,
           e.sender \in Validators, held[e.sender] = None
    PROVE  KeysOf([held EXCEPT ![e.sender] = e]) = KeysOf(held) \cup {replay_key(e)}
<1> DEFINE more == [held EXCEPT ![e.sender] = e]
<1>1. e # None
  BY NoneAssumption
<1>2. more[e.sender] = e /\ \A s \in Validators \ {e.sender} : more[s] = held[s]
  OBVIOUS
<1> HIDE DEF more
<1>3. \A s \in Validators : more[s] # None <=> s = e.sender \/ held[s] # None
  BY <1>1, <1>2
<1>4. KeysOf(more) = KeysOf(held) \cup {replay_key(e)}
  BY <1>2, <1>3 DEF KeysOf
<1> QED BY <1>4 DEF more

LEMMA GuardsMatchAtFirst == Init => GuardsMatch
BY DEF Init, GuardsMatch, KeysOf, EmptyTranscript

LEMMA AcceptGuardsMatch ==
    ASSUME IInv, GuardsMatch, NEW v \in Collectors, NEW e \in Network, Accept(v, e)
    PROVE  GuardsMatch'
<1>1. e \in Envelopes /\ e.sender \in Validators /\ transcript[v][e.sender] = None
  BY NetworkIsEnvelopes, NewIsFirst DEF Accept, IInv
<1>2. transcript[v] \in [Validators -> Envelopes \cup {None}]
  BY DEF IInv, TypeOK
<1> DEFINE more == [transcript[v] EXCEPT ![e.sender] = e]
<1>3. KeysOf(more) = KeysOf(transcript[v]) \cup {replay_key(e)}
  BY <1>1, <1>2, KeysOfMore
<1>4. /\ transcript' = [transcript EXCEPT ![v] = more]
      /\ seen' = [seen EXCEPT ![v] = seen[v] \cup {replay_key(e)}]
  BY DEF Accept
<1> HIDE DEF more
<1>5. transcript \in [Collectors -> [Validators -> Envelopes \cup {None}]]
  BY DEF IInv, TypeOK
<1>6. seen = [w \in Collectors |-> KeysOf(transcript[w])]
  BY DEF GuardsMatch
<1>7. \A w \in Collectors :
        transcript'[w] = IF w = v THEN more ELSE transcript[w]
  BY <1>4, <1>5
<1>8. seen' = [w \in Collectors |-> IF w = v THEN KeysOf(more) ELSE KeysOf(transcript[w])]
  BY <1>3, <1>4, <1>6
<1>9. seen' = [w \in Collectors |-> KeysOf(transcript'[w])]
  BY <1>7, <1>8
<1> QED BY <1>9 DEF GuardsMatch

LEMMA CrashGuardsMatch ==
    ASSUME IInv, GuardsMatch, NEW v \in Endorsers, Crash(v) PROVE GuardsMatch'
<1>1. KeysOf(EmptyTranscript) = {}
  BY DEF KeysOf, EmptyTranscript
<1>2. transcript \in [Collectors -> [Validators -> Envelopes \cup {None}]]
  BY DEF IInv, TypeOK
<1>3. \A w \in Collectors :
        transcript'[w] = IF w = v THEN EmptyTranscript ELSE transcript[w]
  BY <1>2 DEF Crash
<1>4. seen' = [w \in Collectors |-> IF w = v THEN {} ELSE KeysOf(transcript[w])]
  BY DEF Crash, GuardsMatch
<1>5. seen' = [w \in Collectors |-> KeysOf(transcript'[w])]
  BY <1>1, <1>3, <1>4
<1> QED BY <1>5 DEF GuardsMatch

LEMMA StepGuardsMatch == IInv /\ GuardsMatch /\ [Next]_vars => GuardsMatch'
<1> SUFFICES ASSUME IInv, GuardsMatch, [Next]_vars PROVE GuardsMatch'
  OBVIOUS
<1> DEFINE Kept == UNCHANGED <<transcript, seen>>
<1>1. ASSUME Kept PROVE GuardsMatch'
  BY <1>1 DEF GuardsMatch, KeysOf
<1>2. ASSUME NEW v \in Speakers, Seal(v) PROVE Kept
  BY <1>2 DEF Seal
<1>3. ASSUME NEW v \in Endorsers, SaveGuard(v) PROVE Kept
  BY <1>3 DEF SaveGuard
<1>4. ASSUME NEW v \in Endorsers, Crash(v) PROVE GuardsMatch'
  BY <1>4, CrashGuardsMatch
<1>5. ASSUME NEW v \in Endorsers, NEW s \in Validators, Publish(v, s) PROVE Kept
  BY <1>5 DEF Publish
<1>6. ASSUME NEW v \in Endorsers, NEW e \in Network, Endorse(v, e) PROVE Kept
  BY <1>6 DEF Endorse
<1>7. ASSUME NEW v \in Collectors, NEW e \in Network, Accept(v, e) PROVE GuardsMatch'
  BY <1>7, AcceptGuardsMatch
<1>8. CASE UNCHANGED vars
  BY <1>1, <1>8 DEF vars
<1> HIDE DEF Kept
<1> QED BY <1>1, <1>2, <1>3, <1>4, <1>5, <1>6, <1>7, <1>8 DEF Next

\* A guard that holds the keys of a transcript has room for the message of a
\* sender the transcript has nothing of.
LEMMA RoomForFirst ==
    ASSUME NEW held, NEW e, NEW c
    PROVE  accept(held, KeysOf(held), ReplayCapacity, e, c) # "full"
<1> SUFFICES ASSUME e.sender \in Validators, held[e.sender] = None,
                    Cardinality(KeysOf(held)) >= ReplayCapacity
             PROVE  FALSE
  BY DEF accept, check_and_record
<1> DEFINE taken == {t \in Validators : held[t] # None}
<1>1. taken \subseteq Validators \ {e.sender}
  OBVIOUS
<1>2. /\ IsFiniteSet(Validators \ {e.sender})
      /\ Cardinality(Validators \ {e.sender}) = Cardinality(Validators) - 1
  BY CapacityAssumption, FS_RemoveElement
<1>3. /\ IsFiniteSet(taken)
      /\ Cardinality(taken) <= Cardinality(Validators) - 1
  BY <1>1, <1>2, FS_Subset
<1> HIDE DEF taken
<1>4. PICK f : f = [s \in taken |-> replay_key(held[s])]
  OBVIOUS
<1>5. KeysOf(held) = {f[s] : s \in taken}
  BY <1>4 DEF KeysOf, taken
<1>6. f \in Surjection(taken, KeysOf(held))
  BY <1>4, <1>5 DEF Surjection
<1>7. Cardinality(KeysOf(held)) <= Cardinality(taken)
  BY <1>3, <1>6, FS_Surjection
<1>8. /\ Cardinality(KeysOf(held)) \in Nat /\ Cardinality(taken) \in Nat
      /\ Cardinality(Validators) \in Nat
  BY <1>3, <1>6, FS_Surjection, FS_CardinalityType, CapacityAssumption
<1> QED BY <1>3, <1>7, <1>8, CapacityAssumption

LEMMA GuardsMatchFit == GuardsMatch => ReplayGuardFits
<1> SUFFICES ASSUME GuardsMatch, NEW v \in Collectors
             PROVE  /\ seen[v] = KeysOf(transcript[v])
                    /\ \A e \in Network :
                          accept(transcript[v], seen[v], ReplayCapacity, e, Certified(e)) # "full"
  BY DEF ReplayGuardFits, KeysOf
<1>1. seen[v] = KeysOf(transcript[v])
  BY DEF GuardsMatch
<1> QED BY <1>1, RoomForFirst

-----------------------------------------------------------------------------
(* The inbox of round two and the plain transcript of round one. *)

\* What is held under a sender is an envelope of that sender on the network
\* that opens at the recipient, and the plaintexts are those of the envelopes.
InboxHeld ==
    /\ inbox \in [Recipients -> [Validators -> Inbox!SealedNetwork \cup {None}]]
    /\ \A r \in Recipients, s \in Validators : inbox[r][s] # None =>
          /\ inbox[r][s].sender = s
          /\ Inbox!open_round2_point_to_point(Session, r, inbox[r][s])
    /\ plaintexts \in [Recipients -> [Validators ->
                          {e.ciphertext.plaintext : e \in Inbox!SealedNetwork} \cup {None}]]
    /\ \A r \in Recipients, s \in Validators :
          plaintexts[r][s] = IF inbox[r][s] = None THEN None
                             ELSE inbox[r][s].ciphertext.plaintext

BroadcastsHeld ==
    /\ broadcasts \in [Recipients -> [Validators -> Inbox!BroadcastNetwork \cup {None}]]
    /\ \A r \in Recipients, s \in Validators : broadcasts[r][s] # None =>
          /\ broadcasts[r][s].sender = s
          /\ Inbox!open_round1_broadcast(Session, broadcasts[r][s])

LEMMA HeldAtFirst == Inbox!Init => InboxHeld /\ BroadcastsHeld
BY DEF Inbox!Init, Inbox!Nothing, InboxHeld, BroadcastsHeld

\* What an inbox takes as new had nothing of its sender and opens.
LEMMA InboxNewIsFirst ==
    ASSUME NEW held, NEW keys, NEW e, NEW c,
           Inbox!accept(held, keys, ReplayCapacity, e, c) = "new"
    PROVE  e.sender \in Validators /\ held[e.sender] = None /\ c
BY DEF Inbox!accept, Inbox!check_and_record

LEMMA AcceptSealedHeld ==
    ASSUME InboxHeld, NEW r \in Recipients, NEW e \in Inbox!SealedNetwork,
           Inbox!AcceptSealed(r, e)
    PROVE  InboxHeld'
<1> DEFINE Sealeds == Inbox!SealedNetwork \cup {None}
           Plains == {d.ciphertext.plaintext : d \in Inbox!SealedNetwork} \cup {None}
           m == e.ciphertext.plaintext
           s == e.sender
           held == [inbox[r] EXCEPT ![s] = e]
           opened == [plaintexts[r] EXCEPT ![s] = m]
<1>1. s \in Validators /\ Inbox!open_round2_point_to_point(Session, r, e)
  BY InboxNewIsFirst DEF Inbox!AcceptSealed, Inbox!Answer
<1>2. /\ inbox' = [inbox EXCEPT ![r] = held]
      /\ plaintexts' = [plaintexts EXCEPT ![r] = opened]
  BY DEF Inbox!AcceptSealed
<1>3. e \in Sealeds /\ m \in Plains /\ e # None
  BY TransportAssumption DEF Inbox!NothingAssumption
<1>4. /\ inbox \in [Recipients -> [Validators -> Sealeds]]
      /\ plaintexts \in [Recipients -> [Validators -> Plains]]
  BY DEF InboxHeld
<1> HIDE DEF Sealeds, Plains
<1>5. /\ held \in [Validators -> Sealeds] /\ opened \in [Validators -> Plains]
      /\ held[s] = e /\ opened[s] = m
      /\ \A t \in Validators \ {s} : held[t] = inbox[r][t] /\ opened[t] = plaintexts[r][t]
  BY <1>1, <1>3, <1>4
<1> HIDE DEF held, opened
<1>6. /\ inbox' \in [Recipients -> [Validators -> Sealeds]]
      /\ plaintexts' \in [Recipients -> [Validators -> Plains]]
      /\ inbox'[r] = held /\ plaintexts'[r] = opened
      /\ \A q \in Recipients \ {r} : inbox'[q] = inbox[q] /\ plaintexts'[q] = plaintexts[q]
  BY <1>2, <1>4, <1>5
<1>7. \A q \in Recipients, t \in Validators :
        \/ q = r /\ t = s /\ inbox'[q][t] = e /\ plaintexts'[q][t] = m
        \/ inbox'[q][t] = inbox[q][t] /\ plaintexts'[q][t] = plaintexts[q][t]
  BY <1>5, <1>6
<1>8. \A q \in Recipients, t \in Validators : inbox'[q][t] # None =>
          /\ inbox'[q][t].sender = t
          /\ Inbox!open_round2_point_to_point(Session, q, inbox'[q][t])
  BY <1>1, <1>7 DEF InboxHeld
<1>9. \A q \in Recipients, t \in Validators :
          plaintexts'[q][t] = IF inbox'[q][t] = None THEN None
                              ELSE inbox'[q][t].ciphertext.plaintext
  BY <1>3, <1>7 DEF InboxHeld
<1> QED BY <1>6, <1>8, <1>9 DEF InboxHeld, Sealeds, Plains

LEMMA AcceptBroadcastHeld ==
    ASSUME BroadcastsHeld, NEW r \in Recipients, NEW e \in Inbox!BroadcastNetwork,
           Inbox!AcceptBroadcast(r, e)
    PROVE  BroadcastsHeld'
<1> DEFINE s == e.sender
           held == [broadcasts[r] EXCEPT ![s] = e]
           T == Inbox!BroadcastNetwork \cup {None}
<1>1. s \in Validators /\ Inbox!open_round1_broadcast(Session, e)
  BY InboxNewIsFirst DEF Inbox!AcceptBroadcast, Inbox!BroadcastAnswer
<1>2. broadcasts' = [broadcasts EXCEPT ![r] = held]
  BY DEF Inbox!AcceptBroadcast
<1>3. broadcasts \in [Recipients -> [Validators -> T]] /\ e \in T
  BY DEF BroadcastsHeld
<1> HIDE DEF T
<1>4. /\ held \in [Validators -> T] /\ held[s] = e
      /\ \A t \in Validators \ {s} : held[t] = broadcasts[r][t]
  BY <1>1, <1>3
<1> HIDE DEF held
<1>5. /\ broadcasts' \in [Recipients -> [Validators -> T]]
      /\ broadcasts'[r] = held
      /\ \A q \in Recipients \ {r} : broadcasts'[q] = broadcasts[q]
  BY <1>2, <1>3, <1>4
<1>6. \A q \in Recipients, t \in Validators :
        \/ q = r /\ t = s /\ broadcasts'[q][t] = e
        \/ broadcasts'[q][t] = broadcasts[q][t]
  BY <1>4, <1>5
<1>7. \A q \in Recipients, t \in Validators : broadcasts'[q][t] # None =>
          /\ broadcasts'[q][t].sender = t
          /\ Inbox!open_round1_broadcast(Session, broadcasts'[q][t])
  BY <1>1, <1>6 DEF BroadcastsHeld
<1> QED BY <1>5, <1>7 DEF BroadcastsHeld, T

LEMMA StepHeld ==
    ASSUME InboxHeld, BroadcastsHeld, Inbox!Next
    PROVE  InboxHeld' /\ BroadcastsHeld'
<1>1. ASSUME NEW r \in Recipients, NEW e \in Inbox!SealedNetwork, Inbox!AcceptSealed(r, e)
      PROVE  InboxHeld' /\ BroadcastsHeld'
  BY <1>1, AcceptSealedHeld DEF Inbox!AcceptSealed, BroadcastsHeld
<1>2. ASSUME NEW r \in Recipients, NEW e \in Inbox!BroadcastNetwork, Inbox!AcceptBroadcast(r, e)
      PROVE  InboxHeld' /\ BroadcastsHeld'
  BY <1>2, AcceptBroadcastHeld DEF Inbox!AcceptBroadcast, InboxHeld
<1> QED BY <1>1, <1>2 DEF Inbox!Next

\* An envelope that opens and names a correct sender is the one that sender
\* sealed for this recipient.
LEMMA OpenedOfCorrect ==
    ASSUME NEW r \in Recipients, NEW e \in Inbox!SealedNetwork,
           Inbox!open_round2_point_to_point(Session, r, e), e.sender \notin Faulty
    PROVE  e = Inbox!SealedFor(e.sender, r)
<1>1. Inbox!open_point_to_point(Session, r, e)
  BY DEF Inbox!open_round2_point_to_point
<1>2. e \notin WildSealed
  BY <1>1, TransportAssumption DEF Inbox!InboxAssumption
<1>3. PICK s \in Inbox!Correct, q \in Validators : e = Inbox!SealedFor(s, q)
  BY <1>2 DEF Inbox!SealedNetwork
<1>4. e.sender = s /\ e.recipient = q
  BY <1>3 DEF Inbox!SealedFor, Inbox!seal_round2_point_to_point, Inbox!Round2Message,
              Inbox!Sealed, Inbox!Aad
<1>5. e.recipient = r
  BY <1>1 DEF Inbox!open_point_to_point
<1> QED BY <1>3, <1>4, <1>5

LEMMA OpenedBroadcastOfCorrect ==
    ASSUME NEW e \in Inbox!BroadcastNetwork, Inbox!open_round1_broadcast(Session, e),
           e.sender \notin Faulty
    PROVE  e = Inbox!Broadcast(e.sender)
<1>1. e \notin WildBroadcasts
  BY TransportAssumption DEF Inbox!InboxAssumption, Inbox!open_round1_broadcast
<1>2. PICK s \in Inbox!Correct : e = Inbox!Broadcast(s)
  BY <1>1 DEF Inbox!BroadcastNetwork
<1>3. e.sender = s
  BY <1>2 DEF Inbox!Broadcast, Inbox!seal_round1_broadcast, Inbox!Round1Message, Inbox!Envelope
<1> QED BY <1>2, <1>3

LEMMA HeldIsAddressed == InboxHeld => Inbox!PlaintextsAreAddressed
<1> SUFFICES ASSUME InboxHeld, NEW r \in Recipients, NEW s \in Validators,
                    plaintexts[r][s] # None
             PROVE  /\ plaintexts[r][s].session = Session
                    /\ plaintexts[r][s].sender = s
                    /\ plaintexts[r][s].recipient = r
                    /\ s \in Inbox!Correct =>
                          plaintexts[r][s]
                             = Inbox!Round2Message(Session, s, r, SharePackage(s, r))
  BY DEF Inbox!PlaintextsAreAddressed
<1> DEFINE e == inbox[r][s]
<1>1. /\ e # None /\ plaintexts[r][s] = e.ciphertext.plaintext
      /\ e \in Inbox!SealedNetwork
      /\ e.sender = s
      /\ Inbox!open_round2_point_to_point(Session, r, e)
  BY DEF InboxHeld
<1> HIDE DEF e
<1>2. /\ plaintexts[r][s].session = Session
      /\ plaintexts[r][s].sender = s
      /\ plaintexts[r][s].recipient = r
  BY <1>1 DEF Inbox!open_round2_point_to_point, Inbox!open_point_to_point
<1>3. ASSUME s \in Inbox!Correct
      PROVE  plaintexts[r][s] = Inbox!Round2Message(Session, s, r, SharePackage(s, r))
  <2>1. e = Inbox!SealedFor(s, r)
    BY <1>1, <1>3, OpenedOfCorrect DEF Inbox!Correct
  <2> QED BY <1>1, <2>1 DEF Inbox!SealedFor, Inbox!seal_round2_point_to_point,
                            Inbox!Sealed, Inbox!Ciphertext
<1> QED BY <1>2, <1>3

LEMMA InboxCounts == \A S : Inbox!Cardinality(S) = Cardinality(S)
BY Zenon DEF Inbox!Cardinality, Cardinality

LEMMA HeldIsUsable == InboxHeld => Inbox!CompleteInboxIsUsable
<1> SUFFICES ASSUME InboxHeld, NEW r \in Recipients, Inbox!IsComplete(r),
                    NEW s \in Validators
             PROVE  (plaintexts[r][s] # None) <=> (s # r)
  BY DEF Inbox!CompleteInboxIsUsable
<1> DEFINE taken == {t \in Validators : inbox[r][t] # None}
<1>1. r \in Validators
  BY TransportAssumption DEF Inbox!InboxAssumption
<1>2. taken \subseteq Validators \ {r}
  BY DEF InboxHeld, Inbox!open_round2_point_to_point, Inbox!open_point_to_point
<1>3. /\ IsFiniteSet(Validators \ {r})
      /\ Cardinality(Validators \ {r}) = Cardinality(Validators) - 1
  BY <1>1, CapacityAssumption, FS_RemoveElement
<1>4. Cardinality(taken) = Cardinality(Validators) - 1
  BY InboxCounts DEF Inbox!IsComplete
<1>5. taken = Validators \ {r}
  BY <1>2, <1>3, <1>4, FS_Subset
<1>6. (plaintexts[r][s] # None) <=> (inbox[r][s] # None)
  BY TransportAssumption DEF InboxHeld, Inbox!NothingAssumption
<1> QED BY <1>5, <1>6

\* An equivocation is reported against an envelope held that opens.
LEMMA EquivocationIs ==
    ASSUME NEW held, NEW keys, NEW e, NEW c,
           Inbox!accept(held, keys, ReplayCapacity, e, c) = "equivocation"
    PROVE  e.sender \in Validators /\ held[e.sender] \notin {None, e} /\ c
BY DEF Inbox!accept, Inbox!check_and_record

LEMMA HeldBacksReports == InboxHeld /\ BroadcastsHeld => Inbox!ReportsAreBacked
<1> SUFFICES ASSUME InboxHeld, BroadcastsHeld, NEW r \in Recipients
             PROVE  /\ \A e \in Inbox!SealedNetwork : Inbox!Answer(r, e) = "equivocation" =>
                          \E d \in Inbox!SealedNetwork :
                              /\ d # e /\ d.sender = e.sender
                              /\ Inbox!open_round2_point_to_point(Session, r, d)
                              /\ Inbox!open_round2_point_to_point(Session, r, e)
                    /\ \A e \in Inbox!BroadcastNetwork :
                          Inbox!BroadcastAnswer(r, e) = "equivocation" => e.sender \in Faulty
  BY DEF Inbox!ReportsAreBacked
<1>1. ASSUME NEW e \in Inbox!SealedNetwork, Inbox!Answer(r, e) = "equivocation"
      PROVE  \E d \in Inbox!SealedNetwork :
                /\ d # e /\ d.sender = e.sender
                /\ Inbox!open_round2_point_to_point(Session, r, d)
                /\ Inbox!open_round2_point_to_point(Session, r, e)
  <2>1. /\ e.sender \in Validators /\ inbox[r][e.sender] \notin {None, e}
        /\ Inbox!open_round2_point_to_point(Session, r, e)
    BY <1>1, EquivocationIs DEF Inbox!Answer
  <2> QED BY <2>1 DEF InboxHeld
<1>2. ASSUME NEW e \in Inbox!BroadcastNetwork, Inbox!BroadcastAnswer(r, e) = "equivocation",
             e.sender \notin Faulty
      PROVE  FALSE
  <2> DEFINE d == broadcasts[r][e.sender]
  <2>1. /\ e.sender \in Validators /\ d \notin {None, e}
        /\ Inbox!open_round1_broadcast(Session, e)
    BY <1>2, EquivocationIs DEF Inbox!BroadcastAnswer
  <2>2. /\ d \in Inbox!BroadcastNetwork /\ d.sender = e.sender
        /\ Inbox!open_round1_broadcast(Session, d)
    BY <2>1 DEF BroadcastsHeld
  <2> HIDE DEF d
  <2>3. d = Inbox!Broadcast(e.sender) /\ e = Inbox!Broadcast(e.sender)
    BY <1>2, <2>1, <2>2, OpenedBroadcastOfCorrect
  <2> QED BY <2>1, <2>3
<1> QED BY <1>1, <1>2

-----------------------------------------------------------------------------
(* Both together. *)

TransportInv ==
    /\ covered \in {"certificates", "inbox"}
    /\ IInv /\ GuardsMatch /\ InboxHeld /\ BroadcastsHeld

LEMMA TransportStep == TransportInv /\ [TransportNext]_allVars => TransportInv'
<1> SUFFICES ASSUME TransportInv, [TransportNext]_allVars PROVE TransportInv'
  OBVIOUS
<1>1. ASSUME UNCHANGED <<inboxVars, covered>>
      PROVE  InboxHeld' /\ BroadcastsHeld' /\ covered' = covered
  BY <1>1 DEF TransportInv, inboxVars, InboxHeld, BroadcastsHeld
<1>2. CASE [Next]_vars /\ UNCHANGED <<inboxVars, covered>>
  <2>1. IInv' /\ GuardsMatch'
    BY <1>2, StepIInv, StepGuardsMatch DEF TransportInv
  <2> QED BY <1>1, <1>2, <2>1 DEF TransportInv
<1>3. CASE Inbox!Next /\ UNCHANGED <<vars, covered>>
  <2>1. IInv' /\ GuardsMatch'
    BY <1>3, StepIInv, StepGuardsMatch DEF TransportInv
  <2>2. InboxHeld' /\ BroadcastsHeld'
    BY <1>3, StepHeld DEF TransportInv
  <2> QED BY <1>3, <2>1, <2>2 DEF TransportInv
<1> QED BY <1>2, <1>3 DEF TransportNext, allVars

\* Whatever faulty validators send and however the network repeats it: what an
\* inbox holds is addressed to its owner, a complete inbox is what the third
\* round takes, an equivocation is reported only of a sender that signed two
\* envelopes for this session, and the replay guard of a certified transcript
\* never refuses for want of room (DkgPointToPointInbox::accept,
\* DkgBroadcastTranscript::accept, DkgCertifiedBroadcastTranscript::accept).
THEOREM CollectorsSound == TransportSpec => []ReportsAreBacked
<1>1. TransportInit => TransportInv
  BY InitIInv, GuardsMatchAtFirst, HeldAtFirst DEF TransportInit, TransportInv
<1>2. TransportInv => ReportsAreBacked
  BY GuardsMatchFit, HeldIsAddressed, HeldIsUsable, HeldBacksReports
     DEF TransportInv, ReportsAreBacked
<1> QED BY <1>1, <1>2, TransportStep, PTL DEF TransportSpec

=============================================================================
