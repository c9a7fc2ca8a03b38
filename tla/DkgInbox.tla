------------------------------ MODULE DkgInbox ------------------------------
(***************************************************************************)
(* The two collectors of the key ceremony that take messages one by one:   *)
(* DkgPointToPointInbox (round two, encrypted to one recipient) and        *)
(* DkgBroadcastTranscript (round one without certificates).                *)
(* dkg_transport.rs.                                                       *)
(*                                                                         *)
(* The network repeats and reorders.  WildSealed and WildBroadcasts hold   *)
(* what no correct validator sent in this session: messages of faulty      *)
(* validators, ciphertexts of others in envelopes of their own, copies     *)
(* damaged on the way, messages of earlier sessions.                       *)
(***************************************************************************)
EXTENDS DkgWire

CONSTANTS
    Session,         \* the ceremony's session
    Recipients,      \* the correct validators whose collectors are modelled
    Faulty,          \* validators that follow no rule
    Package(_, _),   \* Package(s, r): the package a correct s has for r
    WildSealed,      \* round-two envelopes no correct validator sealed here
    WildBroadcasts,  \* round-one envelopes no correct validator sealed here
    ReplayCapacity   \* DEFAULT_REPLAY_GUARD_CAPACITY

InboxAssumption ==
    /\ Recipients \cup Faulty \subseteq Validators
    /\ Recipients \cap Faulty = {}
    /\ \A e \in WildSealed, r \in Recipients :
          open_point_to_point(Session, r, e) => e.sender \in Faulty
    /\ \A e \in WildBroadcasts : verify_broadcast(Session, e) => e.sender \in Faulty

VARIABLES
    inbox,       \* [Recipients -> [Validators -> round-two envelope or None]]
    plaintexts,  \* [Recipients -> [Validators -> decrypted message or None]]
    inboxSeen,   \* [Recipients -> the inbox's replay guard]
    broadcasts,  \* [Recipients -> [Validators -> round-one envelope or None]]
    broadcastSeen

vars == <<inbox, plaintexts, inboxSeen, broadcasts, broadcastSeen>>

Correct == Validators \ Faulty

\* What a correct s seals for r, and what it broadcasts.
SealedFor(s, r) ==
    seal_round2_point_to_point(Session, 1, Round2Message(Session, s, r, Package(s, r)))
Broadcast(s) == seal_round1_broadcast(Session, 1, Round1Message(Session, s, Package(s, s)))

SealedNetwork ==
    WildSealed \cup UNION {{SealedFor(s, r) : r \in Validators \ {s}} : s \in Correct}
BroadcastNetwork == WildBroadcasts \cup {Broadcast(s) : s \in Correct}

\* None is neither an envelope nor a message.
NothingAssumption ==
    None \notin SealedNetwork \cup BroadcastNetwork
               \cup {e.ciphertext.plaintext : e \in SealedNetwork}

Nothing == [r \in Recipients |-> [s \in Validators |-> None]]

Init ==
    /\ inbox = Nothing /\ plaintexts = Nothing
    /\ inboxSeen = [r \in Recipients |-> {}]
    /\ broadcasts = Nothing
    /\ broadcastSeen = [r \in Recipients |-> {}]

\* DkgPointToPointInbox::accept.
Answer(r, e) == accept(inbox[r], inboxSeen[r], ReplayCapacity, e,
                       open_round2_point_to_point(Session, r, e))
AcceptSealed(r, e) ==
    /\ Answer(r, e) = "new"
    /\ inbox' = [inbox EXCEPT ![r] = [@ EXCEPT ![e.sender] = e]]
    /\ plaintexts' = [plaintexts EXCEPT ![r] = [@ EXCEPT ![e.sender] = e.ciphertext.plaintext]]
    /\ inboxSeen' = [inboxSeen EXCEPT ![r] = @ \cup {replay_key(e)}]
    /\ UNCHANGED <<broadcasts, broadcastSeen>>

\* DkgBroadcastTranscript::accept.
BroadcastAnswer(r, e) == accept(broadcasts[r], broadcastSeen[r], ReplayCapacity, e,
                                open_round1_broadcast(Session, e))
AcceptBroadcast(r, e) ==
    /\ BroadcastAnswer(r, e) = "new"
    /\ broadcasts' = [broadcasts EXCEPT ![r] = [@ EXCEPT ![e.sender] = e]]
    /\ broadcastSeen' = [broadcastSeen EXCEPT ![r] = @ \cup {replay_key(e)}]
    /\ UNCHANGED <<inbox, plaintexts, inboxSeen>>

\* is_complete of the inbox.
IsComplete(r) ==
    Cardinality({s \in Validators : inbox[r][s] # None}) = Cardinality(Validators) - 1

Next == \E r \in Recipients :
    \/ \E e \in SealedNetwork : AcceptSealed(r, e)
    \/ \E e \in BroadcastNetwork : AcceptBroadcast(r, e)

Spec == Init /\ [][Next]_vars

\* Every message of a correct validator is delivered.
Progress == \E r \in Recipients, s \in Correct :
    AcceptSealed(r, SealedFor(s, r)) \/ AcceptBroadcast(r, Broadcast(s))

-----------------------------------------------------------------------------
(* Properties. *)

\* What a recipient holds from a correct sender is what that sender encrypted
\* to it in this session; what it holds from any sender names that sender and
\* this recipient.
PlaintextsAreAddressed ==
    \A r \in Recipients, s \in Validators :
        LET m == plaintexts[r][s]
        IN  m # None =>
              /\ m.session = Session /\ m.sender = s /\ m.recipient = r
              /\ s \in Correct => m = Round2Message(Session, s, r, Package(s, r))

\* A complete inbox is what collect_round2 wants: one message of every other
\* validator and none of its own.
CompleteInboxIsUsable ==
    \A r \in Recipients : IsComplete(r) =>
        \A s \in Validators : (plaintexts[r][s] # None) <=> (s # r)

\* An equivocation is reported only of a sender that signed two different
\* envelopes for this session: never because of a damaged copy, a message of
\* another session or a second delivery.
ReportsAreBacked ==
    \A r \in Recipients :
        /\ \A e \in SealedNetwork : Answer(r, e) = "equivocation" =>
              \E d \in SealedNetwork :
                  /\ d # e /\ d.sender = e.sender
                  /\ open_round2_point_to_point(Session, r, d)
                  /\ open_round2_point_to_point(Session, r, e)
        /\ \A e \in BroadcastNetwork : BroadcastAnswer(r, e) = "equivocation" =>
              e.sender \in Faulty

\* Nothing the faulty validators send keeps a correct message out: every
\* recipient ends up with the message of every other correct validator.
CorrectMessagesArrive ==
    \A r \in Recipients : \A s \in Correct \ {r} :
        <>(inbox[r][s] = SealedFor(s, r) /\ broadcasts[r][s] = Broadcast(s))
=============================================================================
