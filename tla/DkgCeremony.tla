----------------------------- MODULE DkgCeremony -----------------------------
(***************************************************************************)
(* One validator's part in a key ceremony: the coordinator, its journal    *)
(* and the process-local provider that keeps the secrets.                  *)
(* dkg_ceremony.rs, on top of threshold_dkg.rs and dkg_transport.rs.       *)
(*                                                                         *)
(* Several processes of the validator may run a coordinator on the same    *)
(* journal; each has its own provider.  A process may crash and lose its   *)
(* provider, or take its coordinator apart (into_parts) and recover with   *)
(* the provider it kept.  A journal write may fail.  Coordinators call the *)
(* provider and write the journal in one step: no other process sees the   *)
(* provider, and the write goes through only if the journal has not moved. *)
(***************************************************************************)
EXTENDS ThresholdDkg

CONSTANTS
    Processes,      \* processes of this validator
    Me,             \* validator_id
    OwnPackage(_),  \* OwnPackage(n): the package the n-th provider draws
    Deadline,       \* [phase -> DkgCeremonyDeadlines::deadline_for]
    MaxTime,        \* bound: the clock
    MaxRevision,    \* bound: repeated endorsements
    Plans           \* the ceremonies to look at: a set of records with
                    \*   session       the DkgSession
                    \*   current       the key a refresh starts from, or None
                    \*   heard         round-one envelopes of the others
                    \*   certificates  those of them a quorum endorsed
                    \*   incoming      round-two envelopes on the network
                    \*   processes     the processes that take part, and bounds:
                    \*   providers, detached, crashes, failures

Terminal == {"Completed", "Aborted"}
Phases == {"Initial", "Round1", "Round2", "Finalize"} \cup Terminal

ASSUME CeremonyAssumption ==
    /\ Me \in Validators
    /\ Deadline \in [Phases \ Terminal -> Nat]
    /\ Deadline["Initial"] = Deadline["Round1"]
    /\ 0 < Deadline["Round1"] /\ Deadline["Round1"] < Deadline["Round2"]
    /\ Deadline["Round2"] < Deadline["Finalize"]

VARIABLES
    plan,          \* the ceremony of this behaviour
    journal,       \* DkgCeremonyRecord of this ceremony, or None
    coordinator,   \* [Processes -> the coordinator's record, or None]
    provider,      \* [Processes -> SoftwareDkgCeremonyProvider, or None]
    finalizing,    \* processes between the two writes of finalize
    current,       \* the FinalizedParticipant no provider was given yet
    broadcast,     \* round-one envelopes handed to the network
    endorsed,      \* envelopes whose endorsement was handed to the network
    shared,        \* packages whose shares were handed to the network
    now,           \* the clock
    drawn, detached, crashes, failures   \* counters

vars == <<plan, journal, coordinator, provider, finalizing, current, broadcast, endorsed,
          shared, now, drawn, detached, crashes, failures>>
sent == <<broadcast, endorsed, shared>>
counters == <<drawn, detached, crashes, failures>>

Others == Validators \ {Me}
Session == plan.session
Empty == [s \in Validators |-> None]

-----------------------------------------------------------------------------
(* The journal. *)

valid_phase_transition(from, to) ==
    \/ from = "Initial" /\ to \in {"Round1", "Aborted"}
    \/ from = "Round1" /\ to \in {"Round1", "Round2", "Aborted"}
    \/ from = "Round2" /\ to \in {"Round2", "Finalize", "Aborted"}
    \/ from = "Finalize" /\ to \in {"Completed", "Aborted"}

validate_shape(r) ==
    /\ (r.phase = "Aborted") = (r.abort # None)
    /\ (r.phase = "Completed") = (r.completion # None)

\* compare_and_swap accepts next as the successor of revision expected.
SwapsIn(expected, next) ==
    /\ journal # None
    /\ validate_shape(next)
    /\ next.revision = expected + 1
    /\ journal.revision = expected
    /\ valid_phase_transition(journal.phase, next.phase)

\* The outcome of a write: stored, or failed in storage.
StorageOutcome(stored) ==
    IF stored THEN UNCHANGED failures
    ELSE failures < plan.failures /\ failures' = failures + 1

\* commit by p of next.
Committed(p, next, stored) ==
    stored /\ SwapsIn(coordinator[p].revision, next)
\* Mutant: the record is adopted whether or not it was written.
commit_optimistically(p, next, stored) ==
    /\ StorageOutcome(stored)
    /\ journal' = IF Committed(p, next, stored) THEN next ELSE journal
    /\ coordinator' = [coordinator EXCEPT ![p] = next]

commit(p, next, stored) ==
    /\ StorageOutcome(stored)
    /\ IF Committed(p, next, stored)
       THEN /\ journal' = next
            /\ coordinator' = [coordinator EXCEPT ![p] = next]
       ELSE UNCHANGED <<journal, coordinator>>

Successor(p) == [coordinator[p] EXCEPT !.revision = @ + 1]

-----------------------------------------------------------------------------
(* The provider. *)

NewProvider(n, held) ==
    [state |-> "Ready", id |-> n, current |-> held, own |-> None, received |-> Empty,
     completion |-> None, guard |-> EmptyGuard]

checkpoint(x) == [state |-> x.state, guard |-> x.guard]

expected_provider_states(phase) ==
    CASE phase = "Initial" -> {"Ready", "Round1"}
      [] phase = "Round1" -> {"Round1"}
      [] phase = "Round2" -> {"Round2"}
      [] phase = "Finalize" -> {"Round2", "Completed"}
      [] phase = "Completed" -> {"Completed"}
      [] phase = "Aborted" -> {"Quarantined"}

\* restore_checkpoint succeeds: the secrets in memory are in the state the
\* checkpoint names, and the phase allows it.
Restorable(x, r) ==
    /\ x.state = r.checkpoint.state
    /\ x.state \in expected_provider_states(r.phase)

\* begin_round1: the state is taken out and put back only if it was not Ready.
ProviderBegin(x) ==
    IF x.state # "Ready" THEN x
    ELSE IF ~StartsRound1(Session, x.current) THEN [x EXCEPT !.state = "Quarantined"]
    ELSE [x EXCEPT !.state = "Round1",
                   !.own = Round1Message(Session, Me, OwnPackage(x.id))]
BeginSucceeds(x) == x.state = "Ready" /\ StartsRound1(Session, x.current)

AdvanceSucceeds(x, received) ==
    x.state = "Round1" /\ RoundTwoReady(Me, Session, received)
ProviderAdvance(x, received) ==
    IF x.state # "Round1" THEN x
    ELSE IF ~RoundTwoReady(Me, Session, received) THEN [x EXCEPT !.state = "Quarantined"]
    ELSE [x EXCEPT !.state = "Round2", !.received = received]

FinalizeSucceeds(x, received) ==
    \/ x.state = "Completed"
    \/ x.state = "Round2" /\ Finalizes(Me, Session, x.received, received)
ProviderFinalize(x, received) ==
    IF x.state # "Round2" THEN x
    ELSE IF ~Finalizes(Me, Session, x.received, received)
         THEN [x EXCEPT !.state = "Quarantined"]
    ELSE [x EXCEPT !.state = "Completed",
                   !.completion = Output(Session, x.own, x.received, x.current)]

\* quarantine refuses a provider that finished.
quarantine(x) == IF x.state = "Completed" THEN x ELSE [x EXCEPT !.state = "Quarantined"]

-----------------------------------------------------------------------------
(* Coordinators. *)

InitialRecord(x) ==
    [revision |-> 1, phase |-> "Initial", checkpoint |-> checkpoint(x), local |-> None,
     round1 |-> Empty, outgoing |-> None, sealed2 |-> Empty, round2 |-> Empty,
     completion |-> None, abort |-> None]

Init ==
    /\ plan \in Plans
    /\ journal = None
    /\ coordinator = [p \in Processes |-> None]
    /\ provider = [p \in Processes |-> None]
    /\ finalizing = {}
    /\ current = plan.current
    /\ broadcast = {} /\ endorsed = {} /\ shared = {}
    /\ now = 0
    /\ drawn = 0 /\ detached = 0 /\ crashes = 0 /\ failures = 0

\* new_initial, new_refresh: a refresh is given the only copy of the key.
Provision(p) ==
    /\ provider[p] = None
    /\ drawn < plan.providers
    /\ Session.previous # None => current # None
    /\ drawn' = drawn + 1
    /\ provider' = [provider EXCEPT ![p] = NewProvider(drawn', current)]
    /\ current' = None
    /\ UNCHANGED <<journal, coordinator, finalizing, sent, now, detached, crashes, failures>>

\* start: the ceremony id is taken once; a provider is dropped with the call
\* that fails.
Start(p, stored) ==
    /\ coordinator[p] = None /\ provider[p] # None
    /\ StorageOutcome(stored)
    /\ IF stored /\ journal = None
       THEN /\ journal' = InitialRecord(provider[p])
            /\ coordinator' = [coordinator EXCEPT ![p] = journal']
            /\ UNCHANGED provider
       ELSE /\ provider' = [provider EXCEPT ![p] = None]
            /\ UNCHANGED <<journal, coordinator>>
    /\ UNCHANGED <<finalizing, current, sent, now, drawn, detached, crashes>>

\* recover: the guard is taken from the checkpoint.
Recover(p) ==
    /\ coordinator[p] = None /\ provider[p] # None /\ journal # None
    /\ IF Restorable(provider[p], journal)
       THEN /\ coordinator' = [coordinator EXCEPT ![p] = journal]
            /\ provider' = [provider EXCEPT ![p] = [@ EXCEPT !.guard = journal.checkpoint.guard]]
       ELSE /\ provider' = [provider EXCEPT ![p] = None]
            /\ UNCHANGED coordinator
    /\ UNCHANGED <<journal, finalizing, current, sent, now, counters>>

\* into_parts: the provider survives.
IntoParts(p) ==
    /\ coordinator[p] # None /\ p \notin finalizing
    /\ detached < plan.detached
    /\ detached' = detached + 1
    /\ coordinator' = [coordinator EXCEPT ![p] = None]
    /\ UNCHANGED <<journal, provider, finalizing, current, sent, now, drawn, crashes, failures>>

\* The process ends, and its secrets with it.
Crash(p) ==
    /\ provider[p] # None
    /\ crashes < plan.crashes
    /\ crashes' = crashes + 1
    /\ coordinator' = [coordinator EXCEPT ![p] = None]
    /\ provider' = [provider EXCEPT ![p] = None]
    /\ finalizing' = finalizing \ {p}
    /\ UNCHANGED <<journal, current, sent, now, drawn, detached, failures>>

\* Mutant: a coordinator in Round2 is not subject to a deadline.
ElapsedBeforeRound2(p) ==
    /\ coordinator[p].phase \notin Terminal \cup {"Round2"}
    /\ now >= Deadline[coordinator[p].phase]

\* ensure_live finds the deadline of the phase elapsed.
Elapsed(p) ==
    /\ coordinator[p].phase \notin Terminal
    /\ now >= Deadline[coordinator[p].phase]

\* p may make a call: it holds a coordinator and is not in the middle of one.
Idle(p) == coordinator[p] # None /\ p \notin finalizing
Live(p, phase) == Idle(p) /\ coordinator[p].phase = phase /\ ~Elapsed(p)

\* abort_internal: the provider x is quarantined first, then the tombstone is
\* written, with the checkpoint of whatever state the provider ended in.
Tombstone(p, x, code) ==
    [Successor(p) EXCEPT !.phase = "Aborted", !.abort = code,
                         !.checkpoint = checkpoint(quarantine(x))]
abort_internal(p, x, code, stored) ==
    /\ provider' = [provider EXCEPT ![p] = quarantine(x)]
    /\ commit(p, Tombstone(p, x, code), stored)

\* Any call of a coordinator whose deadline elapsed.
Expire(p, stored) ==
    /\ Idle(p) /\ Elapsed(p)
    /\ abort_internal(p, provider[p], "Timeout", stored)
    /\ UNCHANGED <<finalizing, current, sent, now, drawn, detached, crashes>>

\* abort, asked for by the operator; deadlines do not matter.
Abort(p, stored) ==
    /\ Idle(p) /\ coordinator[p].phase \notin Terminal
    /\ abort_internal(p, provider[p], "Operator", stored)
    /\ UNCHANGED <<finalizing, current, sent, now, drawn, detached, crashes>>

\* begin_round1 draws a package and hands out the envelope once it is written;
\* in Round1 it hands out the same envelope again.
BeginRound1(p, stored) ==
    LET x == ProviderBegin(provider[p])
        next == [Successor(p) EXCEPT !.phase = "Round1", !.local = x.own,
                                     !.checkpoint = checkpoint(x)]
    IN  /\ Live(p, "Initial") /\ BeginSucceeds(provider[p])
        /\ provider' = [provider EXCEPT ![p] = x]
        /\ commit(p, next, stored)
        /\ broadcast' = IF Committed(p, next, stored)
                        THEN broadcast \cup {seal_round1_broadcast(Session, x.id, x.own)}
                        ELSE broadcast
        /\ UNCHANGED <<endorsed, shared, finalizing, current, now, drawn, detached, crashes>>

BeginFails(p, stored) ==
    /\ Live(p, "Initial") /\ ~BeginSucceeds(provider[p])
    /\ abort_internal(p, ProviderBegin(provider[p]), "ProviderFailure", stored)
    /\ UNCHANGED <<finalizing, current, sent, now, drawn, detached, crashes>>

\* endorse_round1 writes the guard before the endorsement leaves.
EndorseRound1(p, e, stored) ==
    LET answer == endorse_broadcast(Session, provider[p].guard, Cardinality(Validators), e)
        x == IF answer = "sign"
             THEN [provider[p] EXCEPT !.guard = Recorded(@, e)] ELSE provider[p]
        next == [Successor(p) EXCEPT !.checkpoint = checkpoint(x)]
    IN  /\ Live(p, "Round1")
        /\ answer \in {"sign", "same"}
        /\ answer = "same" => coordinator[p].revision < MaxRevision
        /\ provider' = [provider EXCEPT ![p] = x]
        /\ commit(p, next, stored)
        /\ endorsed' = IF Committed(p, next, stored) THEN endorsed \cup {e} ELSE endorsed
        /\ UNCHANGED <<broadcast, shared, finalizing, current, now, drawn, detached, crashes>>

\* accept_round1_certificate: new, the same again, or an equivocation.
AcceptCertificate(p, e, stored) ==
    LET known == coordinator[p].round1[e.sender]
        next == [Successor(p) EXCEPT !.round1[e.sender] = e.payload]
    IN  /\ Live(p, "Round1")
        /\ open_round1_broadcast(Session, e)
        /\ \/ /\ known = None
              /\ commit(p, next, stored)
              /\ UNCHANGED provider
           \/ /\ known # None /\ known # e.payload
              /\ abort_internal(p, provider[p], "Equivocation", stored)
        /\ UNCHANGED <<finalizing, current, sent, now, drawn, detached, crashes>>

\* What the provider is given: the messages of the others.
ReceivedRound1(p) == [coordinator[p].round1 EXCEPT ![Me] = None]
HasAllRound1(p) == \A s \in Validators : coordinator[p].round1[s] # None

\* advance_round2 hands out the shares once they are written; in Round2 it
\* hands out the same again.
AdvanceRound2(p, stored) ==
    LET x == ProviderAdvance(provider[p], ReceivedRound1(p))
        next == [Successor(p) EXCEPT !.phase = "Round2", !.outgoing = x.own,
                                     !.checkpoint = checkpoint(x)]
    IN  /\ Live(p, "Round1") /\ HasAllRound1(p)
        /\ AdvanceSucceeds(provider[p], ReceivedRound1(p))
        /\ provider' = [provider EXCEPT ![p] = x]
        /\ commit(p, next, stored)
        /\ shared' = IF Committed(p, next, stored) THEN shared \cup {x.own} ELSE shared
        /\ UNCHANGED <<broadcast, endorsed, finalizing, current, now, drawn, detached, crashes>>

AdvanceFails(p, stored) ==
    /\ Live(p, "Round1") /\ HasAllRound1(p)
    /\ ~AdvanceSucceeds(provider[p], ReceivedRound1(p))
    /\ abort_internal(p, ProviderAdvance(provider[p], ReceivedRound1(p)),
                      "Round2SemanticFailure", stored)
    /\ UNCHANGED <<finalizing, current, sent, now, drawn, detached, crashes>>

\* accept_round2: the provider opens the envelope; new, the same again, or an
\* equivocation.
AcceptRound2(p, e, stored) ==
    LET message == e.ciphertext.plaintext
        known == coordinator[p].round2[e.sender]
        next == [Successor(p) EXCEPT !.round2[e.sender] = message,
                                     !.sealed2[e.sender] = e,
                                     !.checkpoint = checkpoint(provider[p])]
    IN  /\ Live(p, "Round2")
        /\ coordinator[p].sealed2[e.sender] # e
        /\ provider[p].state = "Round2"
        /\ open_round2_point_to_point(Session, Me, e)
        /\ \/ /\ known = None
              /\ commit(p, next, stored)
              /\ UNCHANGED provider
           \/ /\ known # None /\ known # message
              /\ abort_internal(p, provider[p], "Equivocation", stored)
        /\ UNCHANGED <<finalizing, current, sent, now, drawn, detached, crashes>>

\* finalize writes the intent, then asks the provider and writes the result.
FinalizeIntent(p, stored) ==
    LET next == [Successor(p) EXCEPT !.phase = "Finalize"]
    IN  /\ Live(p, "Round2")
        /\ \A s \in Others : coordinator[p].round2[s] # None
        /\ commit(p, next, stored)
        /\ finalizing' = IF Committed(p, next, stored)
                         THEN finalizing \cup {p} ELSE finalizing
        /\ UNCHANGED <<provider, current, sent, now, drawn, detached, crashes>>

FinalizeResult(p, stored) ==
    LET x == ProviderFinalize(provider[p], coordinator[p].round2)
        next == [Successor(p) EXCEPT !.phase = "Completed", !.completion = x.completion,
                                     !.checkpoint = checkpoint(x)]
    IN  /\ p \in finalizing \/ Live(p, "Finalize")
        /\ finalizing' = finalizing \ {p}
        /\ IF FinalizeSucceeds(provider[p], coordinator[p].round2)
           THEN /\ provider' = [provider EXCEPT ![p] = x]
                /\ commit(p, next, stored)
           ELSE abort_internal(p, x, "FinalizeSemanticFailure", stored)
        /\ UNCHANGED <<current, sent, now, drawn, detached, crashes>>

Tick ==
    /\ now < MaxTime
    /\ now' = now + 1
    /\ UNCHANGED <<journal, coordinator, provider, finalizing, current, sent, counters>>

\* Broadcasts this validator hears and certificates it is shown include its own.
Call(p, stored) ==
    \/ Start(p, stored)
    \/ Expire(p, stored)
    \/ Abort(p, stored)
    \/ BeginRound1(p, stored)
    \/ BeginFails(p, stored)
    \/ \E e \in plan.heard \cup broadcast : EndorseRound1(p, e, stored)
    \/ \E e \in plan.certificates \cup broadcast : AcceptCertificate(p, e, stored)
    \/ AdvanceRound2(p, stored)
    \/ AdvanceFails(p, stored)
    \/ \E e \in plan.incoming : AcceptRound2(p, e, stored)
    \/ FinalizeIntent(p, stored)
    \/ FinalizeResult(p, stored)

Step(p) ==
    \/ Provision(p) \/ Recover(p) \/ IntoParts(p) \/ Crash(p)
    \/ \E stored \in BOOLEAN : Call(p, stored)

Next == UNCHANGED plan /\ (Tick \/ \E p \in plan.processes : Step(p))

Spec == Init /\ [][Next]_vars

\* Time passes, somebody keeps calling, and storage comes back.
Fairness ==
    /\ WF_vars(UNCHANGED plan /\ Tick)
    /\ \A p \in Processes :
          /\ WF_vars(UNCHANGED plan /\ p \in plan.processes /\ Expire(p, TRUE))
          /\ WF_vars(UNCHANGED plan /\ p \in plan.processes /\ FinalizeResult(p, TRUE))

LiveSpec == Spec /\ Fairness

-----------------------------------------------------------------------------
(* Properties. *)

\* What may circulate in the ceremony pl: the broadcasts this validator draws,
\* those it hears, and what they carry.
Drawn(pl) ==
    {seal_round1_broadcast(pl.session, n, Round1Message(pl.session, Me, OwnPackage(n))) :
        n \in 1..pl.providers}
Broadcasts(pl) == pl.heard \cup pl.certificates \cup Drawn(pl)
Messages(pl) == {e.payload : e \in pl.certificates \cup Drawn(pl)} \ {Garbled}
Packages(pl) == {m.package : m \in Messages(pl)}
Own(pl) == {e.payload : e \in Drawn(pl)}
Guards(pl) == [Validators -> pl.heard \cup Drawn(pl) \cup {None}]
Outputs(pl) ==
    [key : (SUBSET Packages(pl)) \cup {pl.session.previous}, epoch : {pl.session.epoch}]

States == {"Ready", "Round1", "Round2", "Completed", "Quarantined"}
RecordsOf(pl) ==
    [revision : Nat,
     phase : Phases,
     checkpoint : [state : States, guard : Guards(pl)],
     local : Own(pl) \cup {None},
     round1 : [Validators -> Messages(pl) \cup {None}],
     outgoing : Own(pl) \cup {None},
     sealed2 : [Validators -> pl.incoming \cup {None}],
     round2 : [Validators -> {e.ciphertext.plaintext : e \in pl.incoming} \cup {None}],
     completion : Outputs(pl) \cup {None},
     abort : {"Timeout", "Operator", "ProviderFailure", "Equivocation",
              "Round2SemanticFailure", "FinalizeSemanticFailure", None}]
ProvidersOf(pl) ==
    [state : States, id : 1..pl.providers, current : {pl.current, None},
     own : Own(pl) \cup {None},
     received : [Validators -> Messages(pl) \cup {None}],
     completion : Outputs(pl) \cup {None},
     guard : Guards(pl)]

\* Nobody else signs with this validator's key; None is nothing that circulates
\* or is stored.  A coordinator is taken apart only where one process takes
\* part: another process could recover with secrets of its own.
ASSUME PlanAssumption ==
    \A pl \in Plans :
        /\ pl.processes \subseteq Processes
        /\ pl.providers \in Nat
        /\ pl.detached = 0 \/ \E p \in pl.processes : pl.processes = {p}
        /\ \A e \in pl.heard \cup pl.certificates : e.signature # Me
        /\ None \notin Broadcasts(pl) \cup Messages(pl)
        /\ None \notin RecordsOf(pl) /\ None \notin ProvidersOf(pl)
        /\ Garbled \notin Own(pl)

TypeOK ==
    /\ journal # None => journal \in RecordsOf(plan)
    /\ finalizing \subseteq {p \in Processes : coordinator[p] # None}

\* Coordinators never run ahead of the journal or apart from it: two that
\* claim the same revision hold the same record.
NoFork ==
    \A p \in Processes : coordinator[p] # None =>
        /\ coordinator[p].revision <= journal.revision
        /\ coordinator[p].revision = journal.revision => coordinator[p] = journal

\* Whatever left this validator is in its journal, through failed writes,
\* crashes and racing processes: one round-one broadcast, one endorsement per
\* sender, and the shares of the broadcast polynomial; and no coordinator is
\* ahead of the journal or apart from it (begin_round1, endorse_round1,
\* advance_round2, commit).
NothingLeavesUnrecorded ==
    /\ TypeOK /\ NoFork
    /\ \A e \in broadcast : journal.local = e.payload
    /\ \A e \in endorsed : journal.checkpoint.guard[e.sender] = e
    /\ \A m \in shared : journal.outgoing = m /\ journal.local = m

\* A ceremony completes with the key of the certified transcript (or, in a
\* refresh, the key it started from), and with shares that verify: its own
\* part in the key is the broadcast that was certified.
CompletionIsCertified ==
    journal # None /\ journal.phase = "Completed" =>
        /\ \A s \in Others :
              journal.round2[s].package = ShareOf(journal.round1[s].package)
        /\ journal.completion =
              FinalizedParticipant(
                  IF Session.previous = None
                  THEN {journal.round1[s].package : s \in Validators} ELSE Session.previous,
                  Session.epoch)

\* Unless its process is gone, a ceremony that was started ends, through failed
\* writes: nobody waits for ever for certificates or shares that do not come
\* (ensure_live).
CeremonyEnds ==
    plan.crashes = 0 /\ plan.detached = 0 =>
        ((journal # None) ~> (journal # None /\ journal.phase \in Terminal))
=============================================================================
