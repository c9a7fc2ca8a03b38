---------------------------- MODULE MCDkgCeremony ----------------------------
(* Ceremonies of validator 4 of four for TLC.                               *)
EXTENDS DkgCeremony

MCDeadline == [phase \in Phases \ Terminal |->
                  CASE phase = "Finalize" -> 3 [] phase = "Round2" -> 2 [] OTHER -> 1]

MCOwnPackage(n) == <<"own", n>>
MCSound(package) == package # <<"unsound", 1>>
MCShareOf(package) == <<"share", package>>

Package(s) == <<"package", s>>
From(session, s, package) ==
    seal_round1_broadcast(session, s, Round1Message(session, s, package))
ShareFrom(session, s, id, share) ==
    seal_round2_point_to_point(session, id, Round2Message(session, s, Me, share))

Honest(session) == {From(session, s, Package(s)) : s \in Others}
\* Validator 1 signs two broadcasts and damages neither.
Split(session) == {From(session, 1, Package(1)), From(session, 1, <<"unsound", 1>>)}
Shares(session) == {ShareFrom(session, s, 1, MCShareOf(Package(s))) : s \in Others}
\* Validator 1 sends its share twice under two ids, and another share.
MixedShares(session) ==
    Shares(session) \cup {ShareFrom(session, 1, 2, MCShareOf(Package(1))),
                          ShareFrom(session, 1, 3, MCShareOf(<<"stray", 1>>))}

\* Two processes of the validator race on the journal of an initial ceremony.
Race ==
    LET session == DkgSession("ceremony", 1, None)
    IN  [session |-> session, current |-> None, heard |-> Split(session),
         certificates |-> Honest(session), incoming |-> Shares(session),
         processes |-> Processes, providers |-> 2, detached |-> 0, crashes |-> 1,
         failures |-> 1]

\* One process, taken apart or restarted, and a quorum that followed validator
\* 1 both times.
Restarted ==
    LET session == DkgSession("ceremony", 1, None)
    IN  [Race EXCEPT !.certificates = Honest(session) \cup Split(session),
                     !.incoming = MixedShares(session),
                     !.processes = {CHOOSE p \in Processes : TRUE}, !.detached = 1]

\* A refresh in one process that lives on, with two failed writes.
Refresh ==
    LET session == DkgSession("ceremony", 2, "key")
    IN  [session |-> session, current |-> FinalizedParticipant("key", 1), heard |-> {},
         certificates |-> Honest(session), incoming |-> MixedShares(session),
         processes |-> {CHOOSE p \in Processes : TRUE}, providers |-> 1,
         detached |-> 0, crashes |-> 0, failures |-> 2]

MCPlans == {Race, Restarted, Refresh}
=============================================================================
