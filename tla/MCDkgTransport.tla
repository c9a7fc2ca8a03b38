--------------------------- MODULE MCDkgTransport ---------------------------
(* The collectors of both rounds of the key ceremony for TLC: four          *)
(* validators, the first faulty.                                            *)
EXTENDS DkgTransport

MCPackage(v) == <<"package", v, v>>
MCSharePackage(s, r) == <<"share", s, r>>
Left == <<"left", 1, 1>>
Right == <<"right", 1, 1>>

Signed(s, id, package) ==
    Envelope(Session, s, id, Round1Message(Session, s, package), s)

\* What no correct validator broadcast in this session: two broadcasts of
\* validator 1 under one message id.
MCWild == {Signed(1, 5, Left), Signed(1, 5, Right)}

MCRecipients == {2}
Honest(session, id, s, r) ==
    seal_round2_point_to_point(session, id, Round2Message(session, s, r, MCSharePackage(s, r)))
Theirs(id, inner) ==
    LET aad == Aad(Session, 1, inner.recipient, id)
    IN  Sealed(aad, Ciphertext(inner.recipient, aad, inner), 1)

\* Two messages of validator 1 for one recipient, one that claims to be of
\* validator 3, the ciphertext of validator 3 in an envelope of validator 1, a
\* copy of validator 3's under another id, one damaged copy, one message
\* passed on to the wrong recipient, and one of an earlier session.
MCWildSealed ==
    UNION {{Theirs(5, Round2Message(Session, 1, r, Left)),
            Theirs(5, Round2Message(Session, 1, r, Right)),
            Theirs(6, Round2Message(Session, 3, r, Left)),
            Sealed(Aad(Session, 1, r, 1), Honest(Session, 1, 3, r).ciphertext, 1),
            [Honest(Session, 1, 3, r) EXCEPT !.id = 8],
            [Honest(Session, 1, 3, r) EXCEPT !.signature = None],
            [Honest(Session, 1, 3, 4) EXCEPT !.recipient = r],
            Honest("earlier", 7, 3, r)} : r \in MCRecipients}

\* The same for broadcasts.
MCWildBroadcasts ==
    {Signed(1, 5, Left), Signed(1, 5, Right),
     Envelope(Session, 1, 6, Round1Message(Session, 3, Left), 1),
     Envelope(Session, 1, 6, Garbled, 1),
     [Signed(3, 1, MCSharePackage(3, 3)) EXCEPT !.signature = None],
     seal_round1_broadcast("earlier", 7, Round1Message("earlier", 3, MCSharePackage(3, 3)))}
=============================================================================
