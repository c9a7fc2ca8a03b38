------------------------------- MODULE DkgWire -------------------------------
(***************************************************************************)
(* The wire contract of the key ceremony: what an envelope, an endorsement *)
(* and a certificate are, and when a receiver takes them.                  *)
(* dkg_transport.rs.                                                       *)
(*                                                                         *)
(* Keys are named by their owner.  A signature is the name of the key that *)
(* made it over the fields next to it, or None when it verifies under no   *)
(* key; nobody signs with another's key.  A digest is what it is taken of. *)
(* A ciphertext is its plaintext with the key and the associated data it   *)
(* was made for; only these two open it.  "form" is "ok" unless version,   *)
(* size, message id, round or the encoding of a key is refused by          *)
(* validate; bytes that are not the canonical encoding are not decoded.    *)
(***************************************************************************)
EXTENDS Integers, FiniteSets

CONSTANTS
    Validators,   \* the registry: validator ids with distinct keys
    Quorum,       \* DKG_BROADCAST_QUORUM
    Garbled,      \* a payload no message decodes from
    None

-----------------------------------------------------------------------------
(* Round one: signed broadcasts, endorsements, certificates. *)

Round1Message(session, sender, package) ==
    [session |-> session, sender |-> sender, package |-> package]

Envelope(session, sender, id, payload, signature) ==
    [form |-> "ok", session |-> session, sender |-> sender, id |-> id,
     payload |-> payload, signature |-> signature]

\* seal_round1_broadcast by the owner of message.sender.
seal_round1_broadcast(session, id, message) ==
    Envelope(session, message.sender, id, message, message.sender)

\* verify_broadcast: well formed, of this session, by a registered validator.
verify_broadcast(session, e) ==
    /\ e.form = "ok"
    /\ e.session = session
    /\ e.sender \in Validators
    /\ e.signature = e.sender

\* open_round1_broadcast: the payload is bound to the envelope as well.
open_round1_broadcast(session, e) ==
    /\ verify_broadcast(session, e)
    /\ e.payload # Garbled
    /\ e.payload.session = session
    /\ e.payload.sender = e.sender

\* Mutant: the digest covers the header and not the payload.
header_digest(e) == [e EXCEPT !.payload = Garbled]

broadcast_content_digest(e) == e

Endorsement(session, e, endorser) ==
    [session |-> session, sender |-> e.sender, id |-> e.id,
     digest |-> broadcast_content_digest(e), endorser |-> endorser]

\* A certificate is accepted: three or four endorsements, one per registered
\* endorser, all of this very envelope.
verify_certified_broadcast(session, e, endorsements) ==
    LET endorsers == {x.endorser : x \in endorsements}
    IN  /\ Cardinality(endorsements) >= Quorum
        /\ Cardinality(endorsements) <= Cardinality(Validators)
        /\ Cardinality(endorsers) = Cardinality(endorsements)
        /\ endorsers \subseteq Validators
        /\ verify_broadcast(session, e)
        /\ \A x \in endorsements : x = Endorsement(session, e, x.endorser)

open_certified_round1_broadcast(session, e, endorsements) ==
    /\ verify_certified_broadcast(session, e, endorsements)
    /\ open_round1_broadcast(session, e)

-----------------------------------------------------------------------------
(* The endorsement guard: one accepted endorsement per original sender. *)

EmptyGuard == [s \in Validators |-> None]

\* endorse_broadcast: "same", "equivocation", "refused" or "sign".  The guard
\* is asked before the signature is verified.
endorse_broadcast(session, guard, capacity, e) ==
    LET taken == {s \in Validators : guard[s] # None}
    IN  IF e.form # "ok" \/ e.sender \notin Validators THEN "refused"
        ELSE IF guard[e.sender] = broadcast_content_digest(e) THEN "same"
        ELSE IF guard[e.sender] # None THEN "equivocation"
        ELSE IF ~open_round1_broadcast(session, e) THEN "refused"
        ELSE IF Cardinality(taken) >= capacity THEN "refused"
        ELSE "sign"

\* record.
Recorded(guard, e) == [guard EXCEPT ![e.sender] = broadcast_content_digest(e)]

-----------------------------------------------------------------------------
(* Round two: signed and encrypted messages to one recipient. *)

Round2Message(session, sender, recipient, package) ==
    [session |-> session, sender |-> sender, recipient |-> recipient,
     package |-> package]

\* What the encryption and the signature are bound to.
Aad(session, sender, recipient, id) ==
    [session |-> session, sender |-> sender, recipient |-> recipient, id |-> id]
Ciphertext(key, aad, plaintext) == [key |-> key, aad |-> aad, plaintext |-> plaintext]

Sealed(aad, ciphertext, signature) ==
    [form |-> "ok", session |-> aad.session, sender |-> aad.sender,
     recipient |-> aad.recipient, id |-> aad.id,
     ciphertext |-> ciphertext, signature |-> signature]

\* seal_round2_point_to_point by the owner of message.sender.
seal_round2_point_to_point(session, id, message) ==
    LET aad == Aad(session, message.sender, message.recipient, id)
    IN  Sealed(aad, Ciphertext(message.recipient, aad, message), message.sender)

\* open_point_to_point at recipient r: addressed to r by a registered sender
\* other than r, signed by it, and decrypted under the same associated data.
open_point_to_point(session, r, e) ==
    /\ e.form = "ok"
    /\ e.session = session
    /\ e.sender \in Validators \ {r}
    /\ e.recipient = r
    /\ e.signature = e.sender
    /\ e.ciphertext.key = r
    /\ e.ciphertext.aad = Aad(e.session, e.sender, e.recipient, e.id)

\* open_round2_point_to_point: the plaintext is bound to the envelope as well.
open_round2_point_to_point(session, r, e) ==
    /\ open_point_to_point(session, r, e)
    /\ e.ciphertext.plaintext # Garbled
    /\ e.ciphertext.plaintext.session = session
    /\ e.ciphertext.plaintext.sender = e.sender
    /\ e.ciphertext.plaintext.recipient = e.recipient

-----------------------------------------------------------------------------
(* The collectors: one message per sender, a bounded replay guard. *)

\* Mutant: the key is the message id alone.
replay_key_by_id(e) == e.id

\* replay_key within one session and round of one recipient.
replay_key(e) == <<e.sender, e.id>>

\* Mutant: two envelopes of one sender are compared before they are verified.
accept_comparing_first(held, seen, capacity, e, opens) ==
    IF e.sender \notin Validators THEN "refused"
    ELSE IF held[e.sender] = e THEN "replay"
    ELSE IF held[e.sender] # None THEN "equivocation"
    ELSE IF ~opens THEN "refused"
    ELSE "new"

\* DkgReplayGuard::check_and_record: a bounded cache of keys.
check_and_record(seen, capacity, key) ==
    IF key \in seen THEN "replay"
    ELSE IF Cardinality(seen) >= capacity THEN "full"
    ELSE "new"

\* accept of the three collectors: "replay", "refused", "equivocation", "full"
\* or "new".  held[s] is the envelope kept for sender s; opens says that the
\* envelope verifies.
accept(held, seen, capacity, e, opens) ==
    LET known == held[e.sender]
    IN  IF e.sender \notin Validators THEN "refused"
        ELSE IF replay_key(e) \in seen /\ known \in {None, e} THEN "replay"
        ELSE IF ~opens THEN "refused"
        ELSE IF known = e THEN "replay"
        ELSE IF known # None THEN "equivocation"
        ELSE check_and_record(seen, capacity, replay_key(e))
=============================================================================
