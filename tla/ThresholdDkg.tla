---------------------------- MODULE ThresholdDkg ----------------------------
(***************************************************************************)
(* The two rounds of the key ceremony as one participant sees them:        *)
(* participant_round1 or participant_refresh_round1, participant_round2,   *)
(* participant_finalize.  threshold_dkg.rs.                                *)
(*                                                                         *)
(* FROST is external.  A round-one package stands for the commitment to    *)
(* its sender's polynomial; Sound says that its proof of knowledge holds.  *)
(* ShareOf(package) is the share of that polynomial that verifies against  *)
(* the package.  The group key of an initial ceremony is named by the      *)
(* packages of all participants; a refresh keeps the key it started from.  *)
(***************************************************************************)
EXTENDS DkgWire

CONSTANTS
    Sound(_),    \* Sound(package): part2 accepts the package
    ShareOf(_)   \* ShareOf(package): the share part3 accepts against it

\* DkgSession: previous is the key a refresh starts from, None otherwise.
DkgSession(ceremony, epoch, previous) ==
    [ceremony |-> ceremony, epoch |-> epoch, previous |-> previous]

\* FinalizedParticipant: what a finished ceremony leaves a validator with.
FinalizedParticipant(key, epoch) == [key |-> key, epoch |-> epoch]

\* participant_round1 and participant_refresh_round1: an initial ceremony
\* starts from nothing, a refresh from the key it names and from an older
\* epoch.
StartsRound1(session, current) ==
    /\ session.epoch > 0
    /\ IF session.previous = None THEN current = None
       ELSE /\ current # None
            /\ current.key = session.previous
            /\ session.epoch > current.epoch

\* collect_round1, collect_round2: messages is a partial function of senders;
\* there is one of every other validator and none of one's own.
CollectedRound1(own, session, messages) ==
    \A s \in Validators :
        IF s = own THEN messages[s] = None
        ELSE messages[s] # None /\ messages[s].session = session /\ messages[s].sender = s

CollectedRound2(own, session, messages) ==
    \A s \in Validators :
        IF s = own THEN messages[s] = None
        ELSE /\ messages[s] # None
             /\ messages[s].session = session
             /\ messages[s].sender = s
             /\ messages[s].recipient = own

\* participant_round2 succeeds: every package carries its proof.
RoundTwoReady(own, session, received) ==
    /\ CollectedRound1(own, session, received)
    /\ \A s \in Validators \ {own} : Sound(received[s].package)

\* Mutant: shares are not verified against the commitments.
FinalizesBlindly(own, session, received1, received2) ==
    CollectedRound2(own, session, received2)

\* participant_finalize succeeds: every share fits its sender's commitment.
Finalizes(own, session, received1, received2) ==
    /\ CollectedRound2(own, session, received2)
    /\ \A s \in Validators \ {own} :
          received2[s].package = ShareOf(received1[s].package)

\* adapt_frost_output.
Output(session, own, received1, current) ==
    LET fresh == {own.package} \cup {received1[s].package : s \in Validators \ {own.sender}}
    IN  FinalizedParticipant(IF session.previous = None THEN fresh ELSE current.key,
                             session.epoch)
=============================================================================
