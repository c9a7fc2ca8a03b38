---------------------------- MODULE DkgBroadcast ----------------------------
(***************************************************************************)
(* Round one of the key ceremony on the wire.  Each validator seals one    *)
(* broadcast, endorses what it hears of the others, and collects broadcasts*)
(* that a quorum endorsed (DkgCertifiedBroadcastTranscript).  An endorser  *)
(* saves its guard before it publishes an endorsement and loads it again   *)
(* after a crash.  dkg_transport.rs.                                       *)
(*                                                                         *)
(* Faulty validators sign whatever they like: every envelope of Wild is on *)
(* the network from the start, and they endorse everything.  The network   *)
(* repeats, reorders and withholds; it keeps all that was ever sent.       *)
(***************************************************************************)
EXTENDS DkgWire

CONSTANTS
    Session,        \* the ceremony's session
    Speakers,       \* correct validators that broadcast
    Endorsers,      \* correct validators that endorse
    Collectors,     \* endorsers that collect certificates
    Faulty,         \* validators that follow no rule
    Wild,           \* envelopes no correct validator sealed for this session
    Package(_),     \* Package(v): the round-one package of a correct v
    GuardCapacity,  \* MAX_ENDORSEMENT_GUARD_ENTRIES
    ReplayCapacity, \* DEFAULT_REPLAY_GUARD_CAPACITY
    MaxCrashes      \* bound: crashes

\* Correct validators do not sign what is in Wild, except in other sessions;
\* any two quorums share a correct validator.
ASSUME BroadcastAssumption ==
    /\ Speakers \cup Endorsers \cup Faulty \subseteq Validators
    /\ (Speakers \cup Endorsers) \cap Faulty = {}
    /\ Collectors \subseteq Endorsers
    /\ \A e \in Wild : verify_broadcast(Session, e) => e.sender \in Faulty
    /\ MaxCrashes \in Nat

ASSUME QuorumAssumption ==
    \A A, B \in SUBSET Validators :
        Cardinality(A) >= Quorum /\ Cardinality(B) >= Quorum =>
            \E v \in A \cap B : v \notin Faulty

VARIABLES
    sealed,      \* speakers that have sealed their broadcast
    guard,       \* [Endorsers -> the guard in memory]
    saved,       \* [Endorsers -> the guard in durable storage]
    published,   \* endorsements of correct endorsers on the network
    transcript,  \* [Collectors -> [Validators -> envelope or None]]
    seen,        \* [Collectors -> the transcript's replay guard]
    crashes

vars == <<sealed, guard, saved, published, transcript, seen, crashes>>

\* The one broadcast of a correct validator.
Own(v) == seal_round1_broadcast(Session, 1, Round1Message(Session, v, Package(v)))
Envelopes == Wild \cup {Own(v) : v \in Speakers}
Network == Wild \cup {Own(v) : v \in sealed}

ASSUME NoneAssumption == None \notin Envelopes

EmptyTranscript == [s \in Validators |-> None]

Init ==
    /\ sealed = {}
    /\ guard = [v \in Endorsers |-> EmptyGuard]
    /\ saved = guard
    /\ published = {}
    /\ transcript = [v \in Collectors |-> EmptyTranscript]
    /\ seen = [v \in Collectors |-> {}]
    /\ crashes = 0

Seal(v) ==
    /\ v \notin sealed
    /\ sealed' = sealed \cup {v}
    /\ UNCHANGED <<guard, saved, published, transcript, seen, crashes>>

\* endorse_broadcast: signs and records.  An envelope that was endorsed before,
\* is refused, or is reported as an equivocation changes nothing.
Endorse(v, e) ==
    /\ endorse_broadcast(Session, guard[v], GuardCapacity, e) = "sign"
    /\ guard' = [guard EXCEPT ![v] = Recorded(guard[v], e)]
    /\ UNCHANGED <<sealed, saved, published, transcript, seen, crashes>>

\* to_canonical_json, persisted by the caller.
SaveGuard(v) ==
    /\ saved[v] # guard[v]
    /\ saved' = [saved EXCEPT ![v] = guard[v]]
    /\ UNCHANGED <<sealed, guard, published, transcript, seen, crashes>>

\* Mutant: the endorsement leaves before the guard is saved.
PublishUnsaved(v, s) ==
    /\ guard[v][s] # None
    /\ Endorsement(Session, guard[v][s], v) \notin published
    /\ published' = published \cup {Endorsement(Session, guard[v][s], v)}
    /\ UNCHANGED <<sealed, guard, saved, transcript, seen, crashes>>

\* The endorsement leaves once the guard that holds it is saved.
Publish(v, s) ==
    /\ saved[v][s] # None
    /\ Endorsement(Session, saved[v][s], v) \notin published
    /\ published' = published \cup {Endorsement(Session, saved[v][s], v)}
    /\ UNCHANGED <<sealed, guard, saved, transcript, seen, crashes>>

\* make_broadcast_certificate: all endorsements of this envelope there are.
Endorsements(e) ==
    {x \in published : x.digest = broadcast_content_digest(e)}
      \cup {Endorsement(Session, e, v) : v \in Faulty}
Certified(e) == open_certified_round1_broadcast(Session, e, Endorsements(e))

\* accept of a certificate.
Accept(v, e) ==
    /\ accept(transcript[v], seen[v], ReplayCapacity, e, Certified(e)) = "new"
    /\ transcript' = [transcript EXCEPT ![v] = [@ EXCEPT ![e.sender] = e]]
    /\ seen' = [seen EXCEPT ![v] = @ \cup {replay_key(e)}]
    /\ UNCHANGED <<sealed, guard, saved, published, crashes>>

\* The guard is what was saved (from_canonical_json); the transcript and the
\* replay guard are process-local.
Crash(v) ==
    /\ crashes < MaxCrashes
    /\ crashes' = crashes + 1
    /\ guard' = [guard EXCEPT ![v] = saved[v]]
    /\ transcript' = [transcript EXCEPT ![v] = EmptyTranscript]
    /\ seen' = [seen EXCEPT ![v] = {}]
    /\ UNCHANGED <<sealed, saved, published>>

Next ==
    \/ \E v \in Speakers : Seal(v)
    \/ \E v \in Endorsers :
          \/ SaveGuard(v) \/ Crash(v)
          \/ \E s \in Validators : Publish(v, s)
          \/ \E e \in Network : Endorse(v, e)
    \/ \E v \in Collectors, e \in Network : Accept(v, e)

Spec == Init /\ [][Next]_vars

\* The correct validators go on: they broadcast, endorse, save and publish, and
\* hear what the correct ones sent.  That some of it happens as long as it can
\* is enough, for only a crash undoes any of it.
Progress ==
    \/ \E v \in Speakers : Seal(v)
    \/ \E v \in Endorsers :
          \/ SaveGuard(v)
          \/ \E s \in Speakers : Publish(v, s)
          \/ \E s \in sealed : Endorse(v, Own(s))
    \/ \E v \in Collectors, s \in sealed : Accept(v, Own(s))

-----------------------------------------------------------------------------
(* Properties. *)

TypeOK ==
    /\ sealed \subseteq Speakers
    /\ guard \in [Endorsers -> [Validators -> Envelopes \cup {None}]]
    /\ saved \in [Endorsers -> [Validators -> Envelopes \cup {None}]]
    /\ published \subseteq {Endorsement(Session, e, v) : e \in Envelopes, v \in Endorsers}
    /\ transcript \in [Collectors -> [Validators -> Envelopes \cup {None}]]
    /\ crashes \in 0..MaxCrashes

\* What left a correct endorser is what its guard holds, in memory and in
\* storage, through crashes between signing, saving and publishing: it never
\* endorses a second value of the same sender.
PublishedIsGuarded ==
    \A x \in published :
        /\ saved[x.endorser][x.sender] = x.digest
        /\ guard[x.endorser][x.sender] = x.digest

\* No two broadcasts of one sender are ever certified.
CertificatesAgree ==
    \A e1, e2 \in Envelopes :
        Certified(e1) /\ Certified(e2) /\ e1.sender = e2.sender => e1 = e2

\* Correct collectors that hold something of one sender hold the same, and
\* from a correct sender what it sealed.
TranscriptsAgree ==
    /\ \A v, w \in Collectors, s \in Validators :
          transcript[v][s] # None /\ transcript[w][s] # None =>
              transcript[v][s] = transcript[w][s]
    /\ \A v \in Collectors, s \in Validators \ Faulty :
          transcript[v][s] # None => transcript[v][s] = Own(s)

\* The replay guard has room for every sender: it holds one key for each
\* envelope of the transcript.
ReplayGuardFits ==
    \A v \in Collectors :
        /\ seen[v] = {replay_key(transcript[v][s]) :
                         s \in {t \in Validators : transcript[v][t] # None}}
        /\ \A e \in Network :
              accept(transcript[v], seen[v], ReplayCapacity, e, Certified(e)) # "full"

\* Every correct collector ends up with every correct broadcast, through crashes
\* and whatever the faulty validators send.  Their endorsements are in the
\* network and count like any other.
BroadcastsArrive ==
    \A s \in Speakers, v \in Collectors : <>[](transcript[v][s] = Own(s))

-----------------------------------------------------------------------------
(* Certified broadcast implements consistent broadcast. *)

\* A quorum stands behind e: its correct members have published their
\* endorsements, and the faulty ones endorse everything.
Backed(e) ==
    \E A \in SUBSET Validators :
        /\ Cardinality(A) >= Quorum
        /\ \A v \in A \ Faulty : \E x \in published :
              x.endorser = v /\ x.digest = e /\ x.sender = e.sender

Decided(e) == Backed(e) /\ verify_broadcast(Session, e)

Outcome(s) ==
    IF \E e \in Envelopes : e.sender = s /\ Decided(e)
    THEN CHOOSE e \in Envelopes : e.sender = s /\ Decided(e)
    ELSE None

CB == INSTANCE ConsistentBroadcast WITH
    Senders <- Validators,
    Outcomes <- Envelopes,
    MayChoose <- LAMBDA s, x : x.sender = s /\ (s \notin Faulty => x = Own(s)),
    chosen <- [s \in Validators |-> Outcome(s)],
    delivered <- transcript

\* Whatever crashes and faulty validators do, the collectors see a broadcast
\* with one outcome per sender.
IsConsistentBroadcast == CB!Spec
=============================================================================
