---------------------------- MODULE DkgTransport ----------------------------
(***************************************************************************)
(* The collectors of both rounds of the key ceremony: the certified        *)
(* transcripts of round one (DkgBroadcast) and the inbox and the plain     *)
(* transcript that take messages one by one (DkgInbox).  The two share no  *)
(* state, so a behaviour covers one of them.  dkg_transport.rs.            *)
(***************************************************************************)
EXTENDS DkgBroadcast

CONSTANTS
    Recipients,          \* the correct validators whose inboxes are modelled
    SharePackage(_, _),  \* SharePackage(s, r): the package a correct s has for r
    WildSealed,          \* round-two envelopes no correct validator sealed here
    WildBroadcasts       \* round-one envelopes no correct validator sealed here

VARIABLES
    covered,     \* the collector this behaviour is about
    inbox, plaintexts, inboxSeen, broadcasts, broadcastSeen

inboxVars == <<inbox, plaintexts, inboxSeen, broadcasts, broadcastSeen>>
allVars == <<vars, inboxVars, covered>>

Inbox == INSTANCE DkgInbox WITH Package <- SharePackage

ASSUME TransportAssumption == Inbox!InboxAssumption /\ Inbox!NothingAssumption

\* A replay guard has room for one message of each validator: there are four,
\* and the guards hold DEFAULT_REPLAY_GUARD_CAPACITY keys.
ASSUME CapacityAssumption ==
    /\ IsFiniteSet(Validators)
    /\ ReplayCapacity \in Nat
    /\ Cardinality(Validators) <= ReplayCapacity

TransportInit == Init /\ Inbox!Init /\ covered \in {"certificates", "inbox"}
TransportNext ==
    \/ covered = "certificates" /\ Next /\ UNCHANGED <<inboxVars, covered>>
    \/ covered = "inbox" /\ Inbox!Next /\ UNCHANGED <<vars, covered>>

TransportSpec ==
    /\ TransportInit /\ [][TransportNext]_allVars
    /\ WF_allVars(covered = "certificates" /\ Progress /\ UNCHANGED <<inboxVars, covered>>)
    /\ WF_allVars(covered = "inbox" /\ Inbox!Progress /\ UNCHANGED <<vars, covered>>)

\* What a recipient of round two holds is addressed to it and complete when the
\* inbox says so, and an equivocation is reported only of a sender that signed
\* two envelopes for this session: never because of a damaged copy, a message
\* of another session or a second delivery (DkgPointToPointInbox::accept).  The
\* certified transcript's replay guard holds one key per message and has room.
ReportsAreBacked ==
    IF covered = "certificates" THEN ReplayGuardFits
    ELSE /\ Inbox!PlaintextsAreAddressed /\ Inbox!CompleteInboxIsUsable
         /\ Inbox!ReportsAreBacked

\* Nothing the faulty validators send, and no crash, keeps a correct message
\* out: every collector ends up with the message of every correct validator
\* (endorse_broadcast, accept of the three collectors).
CorrectMessagesArrive ==
    /\ covered = "certificates" => BroadcastsArrive
    /\ covered = "inbox" => Inbox!CorrectMessagesArrive
=============================================================================
