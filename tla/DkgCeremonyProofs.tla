------------------------- MODULE DkgCeremonyProofs -------------------------
(***************************************************************************)
(* What one validator's part in a key ceremony keeps, proved for every     *)
(* ceremony of the plans, every number of processes, failed writes and     *)
(* crashes: whatever left the validator is in its journal, and a ceremony  *)
(* completes with the key that was certified.                              *)
(***************************************************************************)
EXTENDS DkgCeremony, TLAPS

Records == RecordsOf(plan)
Providers == ProvidersOf(plan)

(***************************************************************************)
(* The inductive invariant.                                                *)
(***************************************************************************)

Typed ==
    /\ plan \in Plans
    /\ journal \in Records \cup {None}
    /\ coordinator \in [Processes -> Records \cup {None}]
    /\ provider \in [Processes -> Providers \cup {None}]
    /\ finalizing \subseteq Processes
    /\ current \in {plan.current, None}
    /\ broadcast \subseteq Drawn(plan)
    /\ drawn \in 0..plan.providers
    /\ detached \in Nat /\ (plan.detached = 0 => detached = 0)

\* Only processes of the plan hold anything; a coordinator has a provider.
Holding ==
    \A p \in Processes :
        /\ provider[p] # None => p \in plan.processes
        /\ coordinator[p] # None => provider[p] # None /\ journal # None
        /\ p \in finalizing => coordinator[p] # None /\ coordinator[p].phase = "Finalize"

\* What has left, and when it may have left.
OnRecord ==
    /\ journal = None => broadcast = {} /\ endorsed = {} /\ shared = {}
    /\ journal # None =>
        /\ \A e \in broadcast : journal.local = e.payload
        /\ \A e \in endorsed :
              e.sender \in Validators /\ e # None /\ journal.checkpoint.guard[e.sender] = e
        /\ \A m \in shared : journal.outgoing = m /\ journal.local = m
        /\ journal.phase = "Initial" => broadcast = {} /\ journal.round1[Me] = None
        /\ journal.phase \in {"Initial", "Round1"} => shared = {}
        /\ journal.round1[Me] # None => journal.round1[Me] = journal.local

\* A provider's guard is never behind the record of its coordinator.
GuardAhead ==
    \A p \in Processes : coordinator[p] # None =>
        \A s \in Validators : coordinator[p].checkpoint.guard[s] # None =>
            provider[p].guard[s] = coordinator[p].checkpoint.guard[s]

\* A provider past Ready drew its own package and holds the key it was given,
\* one past Round1 also what it was given by the others.
Keyed(x) ==
    x.state \in {"Round1", "Round2", "Completed"} =>
        /\ x.own = Round1Message(Session, Me, OwnPackage(x.id))
        /\ Session.previous # None => x.current.key = Session.previous
        /\ x.state # "Round1" => \A s \in Others : x.received[s] # None

\* The secrets of x are those the record r speaks of.
Fits(x, r) ==
    r.phase # "Aborted" =>
        /\ x.state = "Round1" /\ r.phase # "Initial" => x.own = r.local
        /\ x.state \in {"Round2", "Completed"} =>
              /\ r.phase # "Initial"
              /\ x.own = r.local
              /\ \A s \in Validators : r.round1[s] # None
              /\ x.received = [r.round1 EXCEPT ![Me] = None]
        /\ x.state = "Completed" =>
              /\ r.phase \in {"Finalize", "Completed"}
              /\ Finalizes(Me, Session, x.received, r.round2)
              /\ x.completion = Output(Session, x.own, x.received, x.current)

\* A provider whose coordinator is up to date, or that could be recovered,
\* fits the journal; without into_parts only fresh ones can be recovered.
Secrets ==
    \A p \in Processes : provider[p] # None =>
        /\ Keyed(provider[p])
        /\ journal # None /\ (coordinator[p] = None \/ coordinator[p].revision = journal.revision)
              => Fits(provider[p], journal)
        /\ coordinator[p] = None /\ (detached = 0 \/ journal = None)
              => provider[p].state = "Ready"
        /\ plan.detached # 0 /\ coordinator[p] # None => coordinator[p].revision = journal.revision

IInv == Typed /\ Holding /\ NoFork /\ OnRecord /\ GuardAhead /\ Secrets /\ CompletionIsCertified

(***************************************************************************)
(* Records and providers.                                                  *)
(***************************************************************************)

\* Two records that differ in the named fields only.
SameButCheckpoint(n, r) ==
    /\ n.revision = r.revision + 1
    /\ n.local = r.local /\ n.round1 = r.round1 /\ n.outgoing = r.outgoing
    /\ n.sealed2 = r.sealed2 /\ n.round2 = r.round2

LEMMA SuccessorIsRecord ==
  ASSUME NEW p, coordinator[p] \in Records
  PROVE  /\ Successor(p) \in Records
         /\ Successor(p).revision = coordinator[p].revision + 1
         /\ SameButCheckpoint(Successor(p), coordinator[p])
         /\ Successor(p).phase = coordinator[p].phase
         /\ Successor(p).checkpoint = coordinator[p].checkpoint
         /\ Successor(p).completion = coordinator[p].completion
         /\ Successor(p).abort = coordinator[p].abort
<1>1. Successor(p) \in Records BY DEF Records, RecordsOf, Successor
<1>2. /\ Successor(p).revision = coordinator[p].revision + 1
      /\ Successor(p).local = coordinator[p].local
      /\ Successor(p).round1 = coordinator[p].round1
      /\ Successor(p).outgoing = coordinator[p].outgoing
      /\ Successor(p).sealed2 = coordinator[p].sealed2
      /\ Successor(p).round2 = coordinator[p].round2
  BY DEF Records, RecordsOf, Successor
<1>3. /\ Successor(p).phase = coordinator[p].phase
      /\ Successor(p).checkpoint = coordinator[p].checkpoint
      /\ Successor(p).completion = coordinator[p].completion
      /\ Successor(p).abort = coordinator[p].abort
  BY DEF Records, RecordsOf, Successor
<1> QED BY <1>1, <1>2, <1>3 DEF SameButCheckpoint

LEMMA TombstoneIsRecord ==
  ASSUME NEW p, coordinator[p] \in Records,
         NEW x \in Providers,
         NEW code \in {"Timeout", "Operator", "ProviderFailure", "Equivocation",
                       "Round2SemanticFailure", "FinalizeSemanticFailure"}
  PROVE  LET n == Tombstone(p, x, code)
         IN  /\ n \in Records
             /\ SameButCheckpoint(n, coordinator[p])
             /\ n.phase = "Aborted"
             /\ n.checkpoint = checkpoint(quarantine(x))
<1> DEFINE ck == checkpoint(quarantine(x))
           s == Successor(p)
<1>1. quarantine(x) \in Providers BY DEF Providers, ProvidersOf, quarantine, States
<1>2. ck \in [state : States, guard : Guards(plan)]
  BY <1>1 DEF Providers, ProvidersOf, checkpoint
<1>3. "Aborted" \in Phases BY DEF Phases, Terminal
<1>4. /\ s \in Records /\ SameButCheckpoint(s, coordinator[p]) BY SuccessorIsRecord
<1> HIDE DEF ck, s
<1> DEFINE n == [s EXCEPT !.phase = "Aborted", !.abort = code, !.checkpoint = ck]
<1>5. n \in Records BY <1>2, <1>3, <1>4 DEF Records, RecordsOf
<1>6. n.phase = "Aborted" /\ n.checkpoint = ck BY <1>4 DEF Records, RecordsOf
<1>7. /\ n.revision = s.revision /\ n.local = s.local /\ n.round1 = s.round1
      /\ n.outgoing = s.outgoing /\ n.sealed2 = s.sealed2 /\ n.round2 = s.round2
  BY <1>4 DEF Records, RecordsOf
<1>8. n = Tombstone(p, x, code) BY DEF n, ck, s, Tombstone
<1> HIDE DEF n
<1>9. SameButCheckpoint(n, coordinator[p]) BY <1>4, <1>7 DEF SameButCheckpoint
<1> QED BY <1>5, <1>6, <1>8, <1>9 DEF ck

LEMMA PlanFacts ==
  ASSUME plan \in Plans
  PROVE  /\ plan.processes \subseteq Processes
         /\ plan.providers \in Nat
         /\ plan.detached = 0 \/ \E p \in plan.processes : plan.processes = {p}
         /\ \A e \in plan.heard \cup plan.certificates : e.signature # Me
         /\ None \notin Broadcasts(plan) \cup Messages(plan)
         /\ None \notin Records /\ None \notin Providers
         /\ Garbled \notin Own(plan)
BY PlanAssumption DEF Records, Providers

(***************************************************************************)
(* Steps of a coordinator: the record and the provider's state.            *)
(***************************************************************************)

\* A guard that lost nothing.
GuardKept(g, h) == \A s \in Validators : g[s] # None => h[s] = g[s]

LEMMA SwapMeansCurrent ==
  ASSUME IInv, NEW p \in Processes, coordinator[p] # None, NEW next,
         SwapsIn(coordinator[p].revision, next)
  PROVE  /\ coordinator[p] = journal /\ journal \in Records
         /\ coordinator[p] \in Records
         /\ next.revision = journal.revision + 1
         /\ valid_phase_transition(journal.phase, next.phase)
<1>1. journal \in Records BY DEF IInv, Typed, SwapsIn
<1>2. coordinator[p] = journal BY DEF IInv, NoFork, SwapsIn
<1> QED BY <1>1, <1>2 DEF SwapsIn

\* The provider of p becomes x, and nothing is written.
LEMMA Held ==
  ASSUME IInv, NEW p \in Processes, coordinator[p] # None,
         NEW x \in Providers, Keyed(x),
         GuardKept(provider[p].guard, x.guard),
         coordinator[p].revision = journal.revision => Fits(x, journal),
         plan' = plan, journal' = journal, coordinator' = coordinator,
         provider' = [provider EXCEPT ![p] = x],
         current' = current, drawn' = drawn, detached' = detached,
         broadcast' = broadcast, endorsed' = endorsed, shared' = shared,
         finalizing' \subseteq finalizing
  PROVE  IInv'
<1>0. /\ provider \in [Processes -> Providers \cup {None}]
      /\ coordinator[p] \in Records \cup {None}
      /\ None \notin Records /\ None \notin Providers
  BY PlanFacts DEF IInv, Typed
<1>1. \A q \in Processes : provider'[q] = IF q = p THEN x ELSE provider[q]
  BY <1>0
<1>2. provider[p] # None /\ journal # None /\ p \in plan.processes
  BY DEF IInv, Holding
<1>3. Typed'
  BY <1>0 DEF IInv, Typed, Records, Providers
<1>4. Holding' BY <1>0, <1>1, <1>2 DEF IInv, Holding
<1>5. NoFork' BY DEF IInv, NoFork
<1>6. OnRecord' BY DEF IInv, OnRecord
<1>7. GuardAhead' BY <1>0, <1>1, <1>2 DEF IInv, GuardAhead, GuardKept
<1>8. Secrets'
  <2> SUFFICES ASSUME NEW q \in Processes, provider'[q] # None
               PROVE /\ Keyed(provider[q])'
                     /\ (journal # None /\ (coordinator[q] = None \/ coordinator[q].revision = journal.revision)
                            => Fits(provider[q], journal))'
                     /\ (coordinator[q] = None /\ (detached = 0 \/ journal = None)
                            => provider[q].state = "Ready")'
                     /\ (plan.detached # 0 /\ coordinator[q] # None => coordinator[q].revision = journal.revision)'
    BY DEF Secrets
  <2>1. CASE q = p
    <3>1. provider'[q] = x BY <1>1, <2>1
    <3>2. Keyed(provider[q])' BY <3>1 DEF Keyed, Session
    <3>3. coordinator[p].revision = journal.revision => Fits(provider[q], journal)'
      BY <3>1 DEF Fits, Session
    <3>4. plan.detached # 0 /\ coordinator[p] # None => coordinator[p].revision = journal.revision
      BY <1>2 DEF IInv, Secrets
    <3> QED BY <2>1, <3>2, <3>3, <3>4
  <2>2. CASE q # p
    <3>1. provider'[q] = provider[q] BY <1>1, <2>2
    <3>2. /\ Keyed(provider[q])
          /\ journal # None /\ (coordinator[q] = None \/ coordinator[q].revision = journal.revision)
                => Fits(provider[q], journal)
          /\ coordinator[q] = None /\ (detached = 0 \/ journal = None)
                => provider[q].state = "Ready"
          /\ plan.detached # 0 /\ coordinator[q] # None => coordinator[q].revision = journal.revision
      BY <3>1 DEF IInv, Secrets
    <3> QED BY <3>1, <3>2 DEF Keyed, Fits, Session
  <2> QED BY <2>1, <2>2
<1>9. CompletionIsCertified' BY DEF IInv, CompletionIsCertified, Session
<1> QED BY <1>3, <1>4, <1>5, <1>6, <1>7, <1>8, <1>9 DEF IInv

\* The provider of p becomes x, and next is written.
LEMMA Moved ==
  ASSUME IInv, NEW p \in Processes, coordinator[p] # None,
         NEW x \in Providers, Keyed(x),
         NEW next \in Records, SwapsIn(coordinator[p].revision, next),
         Fits(x, next), GuardKept(next.checkpoint.guard, x.guard),
         plan' = plan, journal' = next,
         coordinator' = [coordinator EXCEPT ![p] = next],
         provider' = [provider EXCEPT ![p] = x],
         current' = current, drawn' = drawn, detached' = detached,
         broadcast' \subseteq Drawn(plan), OnRecord', CompletionIsCertified',
         finalizing' \subseteq Processes,
         \A q \in finalizing' : q \in finalizing \ {p} \/ (q = p /\ next.phase = "Finalize")
  PROVE  IInv'
<1>0. /\ provider \in [Processes -> Providers \cup {None}]
      /\ coordinator \in [Processes -> Records \cup {None}]
      /\ None \notin Records /\ None \notin Providers
  BY PlanFacts DEF IInv, Typed
<1>1. \A q \in Processes : /\ provider'[q] = IF q = p THEN x ELSE provider[q]
                           /\ coordinator'[q] = IF q = p THEN next ELSE coordinator[q]
  BY <1>0
<1>2. provider[p] # None /\ journal # None /\ p \in plan.processes
  BY DEF IInv, Holding
<1>3. Typed'
  BY <1>0 DEF IInv, Typed, Records, Providers
<1>4. Holding' BY <1>0, <1>1, <1>2 DEF IInv, Holding
<1>5. /\ coordinator[p] = journal /\ journal \in Records
      /\ next.revision = journal.revision + 1
  BY SwapMeansCurrent
<1>6. \A r \in Records : r.revision \in Nat BY DEF Records, RecordsOf
<1>7. \A q \in Processes : coordinator[q] # None => coordinator[q].revision <= journal.revision
  BY DEF IInv, NoFork
<1>8. NoFork'
  BY <1>0, <1>1, <1>5, <1>6, <1>7 DEF NoFork
<1>9. GuardAhead' BY <1>0, <1>1, <1>2 DEF IInv, GuardAhead, GuardKept
<1>10. Secrets'
  <2> SUFFICES ASSUME NEW q \in Processes, provider'[q] # None
               PROVE /\ Keyed(provider[q])'
                     /\ (journal # None /\ (coordinator[q] = None \/ coordinator[q].revision = journal.revision)
                            => Fits(provider[q], journal))'
                     /\ (coordinator[q] = None /\ (detached = 0 \/ journal = None)
                            => provider[q].state = "Ready")'
                     /\ (plan.detached # 0 /\ coordinator[q] # None => coordinator[q].revision = journal.revision)'
    BY DEF Secrets
  <2>1. CASE q = p
    <3>1. provider'[q] = x /\ coordinator'[q] = next BY <1>1, <2>1
    <3>2. Keyed(provider[q])' BY <3>1 DEF Keyed, Session
    <3>3. Fits(provider[q], journal)' BY <3>1 DEF Fits, Session
    <3> QED BY <1>0, <3>1, <3>2, <3>3
  <2>2. CASE q # p
    <3>1. provider'[q] = provider[q] /\ coordinator'[q] = coordinator[q] BY <1>1, <2>2
    <3>2. /\ Keyed(provider[q])
          /\ coordinator[q] = None /\ (detached = 0 \/ journal = None)
                => provider[q].state = "Ready"
      BY <3>1 DEF IInv, Secrets
    <3>3. Keyed(provider[q])' BY <3>1, <3>2 DEF Keyed, Session
    <3>4. coordinator[q] # None => coordinator[q].revision # next.revision
      BY <1>0, <1>5, <1>6, <1>7
    <3>5. q \in plan.processes BY <3>1 DEF IInv, Holding
    <3>6. plan.detached = 0 BY <1>2, <2>2, <3>5, PlanFacts DEF IInv, Typed
    <3>7. detached = 0 BY <3>6 DEF IInv, Typed
    <3>8. provider[q].state = "Ready" => Fits(provider[q], journal)'
      BY <3>1 DEF Fits
    <3> QED BY <1>0, <3>1, <3>2, <3>3, <3>4, <3>6, <3>7, <3>8
  <2> QED BY <2>1, <2>2
<1> QED BY <1>3, <1>4, <1>8, <1>9, <1>10 DEF IInv

\* Nothing leaves while next is written, and next keeps what has left.
LEMMA Continues ==
  ASSUME IInv, NEW p \in Processes, coordinator[p] # None,
         NEW next \in Records, SwapsIn(coordinator[p].revision, next),
         GuardKept(coordinator[p].checkpoint.guard, next.checkpoint.guard),
         next.local = coordinator[p].local, next.outgoing = coordinator[p].outgoing,
         next.round1[Me] # None =>
            next.round1[Me] = coordinator[p].round1[Me] \/ next.round1[Me] = next.local,
         journal' = next, broadcast' = broadcast, endorsed' = endorsed, shared' = shared
  PROVE  OnRecord'
<1>1. /\ coordinator[p] = journal /\ journal \in Records
      /\ valid_phase_transition(journal.phase, next.phase)
  BY SwapMeansCurrent
<1>2. journal # None /\ next # None BY <1>1, PlanFacts DEF IInv, Typed
<1>3. /\ next.phase # "Initial"
      /\ next.phase = "Round1" => journal.phase \in {"Initial", "Round1"}
  BY <1>1 DEF valid_phase_transition
<1>4. \A e \in endorsed :
         e.sender \in Validators /\ e # None /\ next.checkpoint.guard[e.sender] = e
  BY <1>1, <1>2 DEF IInv, OnRecord, GuardKept
<1>5. /\ \A e \in broadcast : next.local = e.payload
      /\ \A m \in shared : next.outgoing = m /\ next.local = m
      /\ next.phase \in {"Initial", "Round1"} => shared = {}
      /\ next.round1[Me] # None => next.round1[Me] = next.local
  BY <1>1, <1>2, <1>3 DEF IInv, OnRecord
<1> QED BY <1>2, <1>3, <1>4, <1>5 DEF OnRecord

LEMMA GuardsOfCheckpoint ==
  ASSUME IInv, NEW p \in Processes, coordinator[p] # None, NEW x,
         GuardKept(provider[p].guard, x.guard)
  PROVE  GuardKept(coordinator[p].checkpoint.guard, checkpoint(x).guard)
BY DEF IInv, GuardAhead, GuardKept, checkpoint

\* abort_internal with a provider that was not made to fit anything else.
LEMMA Aborts ==
  ASSUME IInv, NEW p \in Processes, coordinator[p] # None,
         NEW x \in Providers, Keyed(x), GuardKept(provider[p].guard, x.guard),
         coordinator[p].revision = journal.revision => Fits(x, journal),
         NEW code \in {"Timeout", "Operator", "ProviderFailure", "Equivocation",
                       "Round2SemanticFailure", "FinalizeSemanticFailure"},
         NEW stored \in BOOLEAN,
         abort_internal(p, x, code, stored),
         plan' = plan, current' = current, drawn' = drawn, detached' = detached,
         broadcast' = broadcast, endorsed' = endorsed, shared' = shared,
         finalizing' = finalizing \ {p}
  PROVE  IInv'
<1> DEFINE y == quarantine(x)
           next == Tombstone(p, x, code)
<1>0. coordinator[p] \in Records
  BY DEF IInv, Typed
<1>1. /\ y \in Providers /\ y.guard = x.guard
      /\ y = x \/ y.state = "Quarantined"
  BY DEF quarantine, Providers, ProvidersOf, States
<1>2. Keyed(y) BY <1>1 DEF Keyed
<1>3. GuardKept(provider[p].guard, y.guard) BY <1>1
<1>4. coordinator[p].revision = journal.revision => Fits(y, journal)
  BY <1>1 DEF Fits
<1>5. /\ next \in Records /\ SameButCheckpoint(next, coordinator[p])
      /\ next.phase = "Aborted" /\ next.checkpoint = checkpoint(y)
  BY <1>0, TombstoneIsRecord
<1>6. provider' = [provider EXCEPT ![p] = y] BY DEF abort_internal
<1>7. finalizing' \subseteq finalizing OBVIOUS
<1>8. CASE ~Committed(p, next, stored)
  <2>1. journal' = journal /\ coordinator' = coordinator
    BY <1>8 DEF abort_internal, commit
  <2> HIDE DEF y, next
  <2> QED BY <1>1, <1>2, <1>3, <1>4, <1>6, <1>7, <2>1, Held
<1>9. CASE Committed(p, next, stored)
  <2>1. /\ journal' = next /\ coordinator' = [coordinator EXCEPT ![p] = next]
        /\ SwapsIn(coordinator[p].revision, next)
    BY <1>9 DEF abort_internal, commit, Committed
  <2>2. GuardKept(coordinator[p].checkpoint.guard, next.checkpoint.guard)
    BY <1>3, <1>5, GuardsOfCheckpoint
  <2>3. OnRecord'
    <3> HIDE DEF y, next
    <3> QED BY <1>5, <2>1, <2>2, Continues DEF SameButCheckpoint
  <2>4. CompletionIsCertified' BY <1>5, <2>1 DEF CompletionIsCertified
  <2>5. Fits(y, next) BY <1>5 DEF Fits
  <2>6. GuardKept(next.checkpoint.guard, y.guard) BY <1>5 DEF GuardKept, checkpoint
  <2>7. broadcast' \subseteq Drawn(plan) /\ finalizing' \subseteq Processes
    BY DEF IInv, Typed
  <2>8. \A q \in finalizing' :
           q \in finalizing \ {p} \/ (q = p /\ next.phase = "Finalize")
    BY <2>1
  <2>9. next \in Records /\ y \in Providers BY <1>1, <1>5
  <2> HIDE DEF y, next
  <2> QED
    BY <1>2, <1>6, <2>1, <2>3, <2>4, <2>5, <2>6, <2>7, <2>8, <2>9, Moved
<1> QED BY <1>8, <1>9

\* A call of p that makes its provider x and writes next.
LEMMA Writes ==
  ASSUME IInv, NEW p \in Processes, coordinator[p] # None,
         NEW x \in Providers, Keyed(x), GuardKept(provider[p].guard, x.guard),
         coordinator[p].revision = journal.revision => Fits(x, journal),
         NEW next \in Records,
         coordinator[p] = journal => Fits(x, next),
         GuardKept(next.checkpoint.guard, x.guard),
         NEW stored \in BOOLEAN, commit(p, next, stored),
         plan' = plan, current' = current, drawn' = drawn, detached' = detached,
         provider' = [provider EXCEPT ![p] = x],
         Committed(p, next, stored) =>
            /\ broadcast' \subseteq Drawn(plan) /\ OnRecord' /\ CompletionIsCertified'
            /\ finalizing' \subseteq Processes
            /\ \A q \in finalizing' :
                  q \in finalizing \ {p} \/ (q = p /\ next.phase = "Finalize"),
         ~Committed(p, next, stored) =>
            /\ broadcast' = broadcast /\ endorsed' = endorsed /\ shared' = shared
            /\ finalizing' \subseteq finalizing
  PROVE  IInv'
<1>1. CASE ~Committed(p, next, stored)
  <2>1. journal' = journal /\ coordinator' = coordinator BY <1>1 DEF commit
  <2> QED BY <1>1, <2>1, Held
<1>2. CASE Committed(p, next, stored)
  <2>1. /\ journal' = next /\ coordinator' = [coordinator EXCEPT ![p] = next]
        /\ SwapsIn(coordinator[p].revision, next)
    BY <1>2 DEF commit, Committed
  <2>2. coordinator[p] = journal BY <2>1, SwapMeansCurrent
  <2> QED BY <1>2, <2>1, <2>2, Moved
<1> QED BY <1>1, <1>2

(***************************************************************************)
(* The calls, one lemma each.                                              *)
(***************************************************************************)

LEMMA OwnMessage ==
  ASSUME plan \in Plans, NEW n \in 1..plan.providers
  PROVE  LET m == Round1Message(Session, Me, OwnPackage(n))
             e == seal_round1_broadcast(Session, n, m)
         IN  /\ e \in Drawn(plan) /\ e.payload = m /\ m \in Own(plan)
             /\ m \in Messages(plan) /\ m # None /\ m.sender = Me
             /\ m.package = OwnPackage(n) /\ m.package \in Packages(plan)
<1> DEFINE m == Round1Message(Session, Me, OwnPackage(n))
           e == seal_round1_broadcast(Session, n, m)
<1>1. e \in Drawn(plan) BY DEF Drawn, Session
<1>2. e.payload = m /\ m.sender = Me /\ m.package = OwnPackage(n)
  BY DEF seal_round1_broadcast, Envelope, Round1Message
<1>3. m \in Own(plan) BY <1>1, <1>2 DEF Own
<1>4. m # Garbled BY <1>3, PlanFacts
<1>5. m \in Messages(plan) BY <1>1, <1>2, <1>4 DEF Messages
<1>6. m # None BY <1>5, PlanFacts
<1>7. m.package \in Packages(plan) BY <1>5 DEF Packages
<1> QED BY <1>1, <1>2, <1>3, <1>5, <1>6, <1>7

\* What is known of the parties to a call.
LEMMA Parties ==
  ASSUME IInv, NEW p \in Processes, coordinator[p] # None
  PROVE  /\ plan \in Plans /\ journal \in Records /\ coordinator[p] \in Records
         /\ provider[p] \in Providers /\ Keyed(provider[p])
         /\ coordinator[p].revision = journal.revision =>
               coordinator[p] = journal /\ Fits(provider[p], journal)
         /\ provider = [provider EXCEPT ![p] = provider[p]]
         /\ journal # None
<1>1. /\ coordinator \in [Processes -> Records \cup {None}]
      /\ provider \in [Processes -> Providers \cup {None}]
      /\ journal \in Records \cup {None} /\ plan \in Plans
  BY DEF IInv, Typed
<1>2. provider[p] # None /\ journal # None BY DEF IInv, Holding
<1>3. Keyed(provider[p]) /\ (coordinator[p].revision = journal.revision => Fits(provider[p], journal))
  BY <1>2 DEF IInv, Secrets
<1>4. coordinator[p].revision = journal.revision => coordinator[p] = journal
  BY DEF IInv, NoFork
<1> QED BY <1>1, <1>2, <1>3, <1>4

LEMMA BeginStep ==
  ASSUME IInv, plan' = plan, NEW p \in Processes, NEW stored \in BOOLEAN, BeginRound1(p, stored)
  PROVE  IInv'
<1> DEFINE x == ProviderBegin(provider[p])
           s == Successor(p)
           next == [s EXCEPT !.phase = "Round1", !.local = x.own, !.checkpoint = checkpoint(x)]
<1>0. coordinator[p] # None /\ coordinator[p].phase = "Initial" /\ BeginSucceeds(provider[p])
  BY DEF BeginRound1, Live, Idle
<1>1. /\ plan \in Plans /\ journal \in Records /\ coordinator[p] \in Records
      /\ provider[p] \in Providers /\ Keyed(provider[p])
      /\ coordinator[p].revision = journal.revision => coordinator[p] = journal
  BY <1>0, Parties
<1>2. provider[p].id \in 1..plan.providers BY <1>1 DEF Providers, ProvidersOf
<1> DEFINE m == Round1Message(Session, Me, OwnPackage(provider[p].id))
<1>3. /\ seal_round1_broadcast(Session, provider[p].id, m) \in Drawn(plan)
      /\ seal_round1_broadcast(Session, provider[p].id, m).payload = m
      /\ m \in Own(plan) /\ m # None
  BY <1>1, <1>2, OwnMessage
<1>4. x = [provider[p] EXCEPT !.state = "Round1", !.own = m]
  BY <1>0 DEF BeginSucceeds, ProviderBegin
<1> HIDE DEF m
<1>5. x \in Providers /\ x.state = "Round1" /\ x.own = m
  BY <1>1, <1>3, <1>4 DEF Providers, ProvidersOf, States
<1>6. x.id = provider[p].id /\ x.guard = provider[p].guard /\ x.current = provider[p].current
  BY <1>1, <1>4 DEF Providers, ProvidersOf
<1>7. Keyed(x)
  BY <1>0, <1>5, <1>6 DEF Keyed, m, BeginSucceeds, StartsRound1
<1>8. checkpoint(x) \in [state : States, guard : Guards(plan)] /\ checkpoint(x).guard = x.guard
  BY <1>5 DEF Providers, ProvidersOf, checkpoint
<1>9. "Round1" \in Phases BY DEF Phases
<1>10. s \in Records /\ SameButCheckpoint(s, coordinator[p])
  BY <1>1, SuccessorIsRecord
<1> HIDE DEF s
<1>a. /\ provider' = [provider EXCEPT ![p] = x] /\ commit(p, next, stored)
      /\ broadcast' = IF Committed(p, next, stored)
                      THEN broadcast \cup {seal_round1_broadcast(Session, x.id, x.own)}
                      ELSE broadcast
      /\ endorsed' = endorsed /\ shared' = shared /\ finalizing' = finalizing
      /\ current' = current /\ drawn' = drawn /\ detached' = detached
      /\ p \notin finalizing
  BY DEF BeginRound1, s, Live, Idle
<1> HIDE DEF x
<1>11. next \in Records BY <1>3, <1>5, <1>8, <1>9, <1>10 DEF Records, RecordsOf
<1>12. next.phase = "Round1" /\ next.local = x.own /\ next.checkpoint = checkpoint(x)
  BY <1>10 DEF Records, RecordsOf
<1>13. next.round1 = s.round1 /\ next.outgoing = s.outgoing
  BY <1>10 DEF Records, RecordsOf
<1> HIDE DEF next
<1>14. Fits(x, next) BY <1>5, <1>12 DEF Fits
<1>15. coordinator[p].revision = journal.revision => Fits(x, journal)
  BY <1>0, <1>1, <1>5 DEF Fits
<1>16. ASSUME Committed(p, next, stored)
       PROVE  /\ broadcast' \subseteq Drawn(plan) /\ OnRecord' /\ CompletionIsCertified'
              /\ finalizing' \subseteq Processes
              /\ \A q \in finalizing' :
                    q \in finalizing \ {p} \/ (q = p /\ next.phase = "Finalize")
  <2>1. journal' = next BY <1>16, <1>a DEF commit
  <2>2. SwapsIn(coordinator[p].revision, next) BY <1>16 DEF Committed
  <2>3. coordinator[p] = journal BY <1>0, <2>2, SwapMeansCurrent
  <2>4. broadcast = {} /\ shared = {} /\ journal.round1[Me] = None
    BY <1>0, <1>1, <2>3, Parties DEF IInv, OnRecord
  <2>5. broadcast' = {seal_round1_broadcast(Session, x.id, x.own)}
    BY <1>16, <1>a, <2>4
  <2>6. GuardKept(coordinator[p].checkpoint.guard, next.checkpoint.guard)
    BY <1>0, <1>6, <1>12, GuardsOfCheckpoint DEF GuardKept
  <2>7. next.round1[Me] = None BY <1>10, <1>13, <2>3, <2>4 DEF SameButCheckpoint
  <2>8. \A e \in endorsed :
           e.sender \in Validators /\ e # None /\ next.checkpoint.guard[e.sender] = e
    BY <1>0, <2>3, <2>6, Parties DEF IInv, OnRecord, GuardKept
  <2>9. next # None BY <1>1, <1>11, PlanFacts
  <2>10. \A e \in broadcast' : next.local = e.payload
    BY <1>3, <1>5, <1>6, <1>12, <2>5
  <2>11. OnRecord'
    BY <1>12, <1>a, <2>1, <2>4, <2>7, <2>8, <2>9, <2>10 DEF OnRecord
  <2>12. CompletionIsCertified' BY <1>12, <2>1 DEF CompletionIsCertified
  <2>13. broadcast' \subseteq Drawn(plan) BY <1>3, <1>5, <1>6, <2>5
  <2>14. finalizing' \subseteq Processes BY <1>a DEF IInv, Typed
  <2> QED BY <1>a, <2>11, <2>12, <2>13, <2>14
<1>17. GuardKept(provider[p].guard, x.guard) /\ GuardKept(next.checkpoint.guard, x.guard)
  BY <1>6, <1>8, <1>12 DEF GuardKept
<1> QED BY <1>0, <1>5, <1>7, <1>11, <1>14, <1>15, <1>16, <1>17, <1>a, Writes

LEMMA EndorseStep ==
  ASSUME IInv, plan' = plan, NEW p \in Processes, NEW stored \in BOOLEAN,
         NEW e \in plan.heard \cup broadcast, EndorseRound1(p, e, stored)
  PROVE  IInv'
<1> DEFINE answer == endorse_broadcast(Session, provider[p].guard, Cardinality(Validators), e)
           x == IF answer = "sign"
                THEN [provider[p] EXCEPT !.guard = Recorded(@, e)] ELSE provider[p]
           s == Successor(p)
           next == [s EXCEPT !.checkpoint = checkpoint(x)]
<1>0. coordinator[p] # None /\ coordinator[p].phase = "Round1"
  BY DEF EndorseRound1, Live, Idle
<1>1. /\ plan \in Plans /\ journal \in Records /\ coordinator[p] \in Records
      /\ provider[p] \in Providers /\ Keyed(provider[p])
      /\ coordinator[p].revision = journal.revision =>
            coordinator[p] = journal /\ Fits(provider[p], journal)
  BY <1>0, Parties
<1>2. answer \in {"sign", "same"} BY DEF EndorseRound1
<1>3. /\ e.sender \in Validators
      /\ answer = "same" => provider[p].guard[e.sender] = e
      /\ answer = "sign" => provider[p].guard[e.sender] = None
  BY <1>2 DEF endorse_broadcast, broadcast_content_digest
<1>4. e \in plan.heard \cup Drawn(plan) /\ e # None
  BY <1>1, PlanFacts DEF IInv, Typed, Broadcasts
<1>5. provider[p].guard \in Guards(plan) BY <1>1 DEF Providers, ProvidersOf
<1>6. /\ Recorded(provider[p].guard, e) \in Guards(plan)
      /\ \A t \in Validators : Recorded(provider[p].guard, e)[t] =
                                  IF t = e.sender THEN e ELSE provider[p].guard[t]
  BY <1>3, <1>4, <1>5 DEF Recorded, Guards, broadcast_content_digest
<1>7. /\ x \in Providers /\ x.state = provider[p].state /\ x.id = provider[p].id
      /\ x.own = provider[p].own /\ x.current = provider[p].current
      /\ x.received = provider[p].received /\ x.completion = provider[p].completion
      /\ answer = "sign" => x.guard = Recorded(provider[p].guard, e)
      /\ answer # "sign" => x = provider[p]
  BY <1>1, <1>6 DEF Providers, ProvidersOf
<1>8. GuardKept(provider[p].guard, x.guard) /\ x.guard[e.sender] = e
  BY <1>2, <1>3, <1>6, <1>7 DEF GuardKept
<1>9. checkpoint(x) \in [state : States, guard : Guards(plan)] /\ checkpoint(x).guard = x.guard
  BY <1>7 DEF Providers, ProvidersOf, checkpoint
<1>10. /\ s \in Records /\ SameButCheckpoint(s, coordinator[p])
       /\ s.phase = "Round1"
  BY <1>0, <1>1, SuccessorIsRecord
<1>a. /\ provider' = [provider EXCEPT ![p] = x] /\ commit(p, next, stored)
      /\ endorsed' = IF Committed(p, next, stored) THEN endorsed \cup {e} ELSE endorsed
      /\ broadcast' = broadcast /\ shared' = shared /\ finalizing' = finalizing
      /\ current' = current /\ drawn' = drawn /\ detached' = detached
      /\ p \notin finalizing
  BY DEF EndorseRound1, Live, Idle
<1> HIDE DEF s, x, answer
<1>11. next \in Records BY <1>9, <1>10 DEF Records, RecordsOf
<1>12. next.phase = "Round1" /\ next.checkpoint = checkpoint(x)
  BY <1>10 DEF Records, RecordsOf
<1>13. next.round1 = s.round1 /\ next.outgoing = s.outgoing /\ next.local = s.local
  BY <1>10 DEF Records, RecordsOf
<1> HIDE DEF next
<1>14. Keyed(x) BY <1>1, <1>7 DEF Keyed
<1>15. coordinator[p].revision = journal.revision => Fits(x, journal)
  BY <1>1, <1>7 DEF Fits
<1>16. coordinator[p] = journal => Fits(x, next)
  BY <1>0, <1>1, <1>7, <1>10, <1>12, <1>13 DEF Fits, SameButCheckpoint
<1>17. GuardKept(next.checkpoint.guard, x.guard) BY <1>9, <1>12 DEF GuardKept
<1>18. ASSUME Committed(p, next, stored)
       PROVE  /\ broadcast' \subseteq Drawn(plan) /\ OnRecord' /\ CompletionIsCertified'
              /\ finalizing' \subseteq Processes
              /\ \A q \in finalizing' :
                    q \in finalizing \ {p} \/ (q = p /\ next.phase = "Finalize")
  <2>1. journal' = next BY <1>18, <1>a DEF commit
  <2>2. SwapsIn(coordinator[p].revision, next) BY <1>18 DEF Committed
  <2>3. coordinator[p] = journal BY <1>0, <2>2, SwapMeansCurrent
  <2>4. GuardKept(coordinator[p].checkpoint.guard, next.checkpoint.guard)
    BY <1>0, <1>8, <1>12, GuardsOfCheckpoint
  <2>5. \A d \in endorsed' :
           d.sender \in Validators /\ d # None /\ next.checkpoint.guard[d.sender] = d
    BY <1>0, <1>3, <1>4, <1>8, <1>9, <1>12, <1>18, <1>a, <2>3, <2>4, Parties
       DEF IInv, OnRecord, GuardKept
  <2>6. next # None BY <1>1, <1>11, PlanFacts
  <2>7. /\ \A d \in broadcast : next.local = d.payload
        /\ shared = {}
        /\ next.round1[Me] # None => next.round1[Me] = next.local
    BY <1>0, <1>1, <1>10, <1>13, <2>3, Parties DEF IInv, OnRecord, SameButCheckpoint
  <2>8. OnRecord' BY <1>12, <1>a, <2>1, <2>5, <2>6, <2>7 DEF OnRecord
  <2>9. CompletionIsCertified' BY <1>12, <2>1 DEF CompletionIsCertified
  <2>10. broadcast' \subseteq Drawn(plan) /\ finalizing' \subseteq Processes
    BY <1>a DEF IInv, Typed
  <2> QED BY <1>a, <2>8, <2>9, <2>10
<1> QED BY <1>0, <1>7, <1>8, <1>11, <1>14, <1>15, <1>16, <1>17, <1>18, <1>a, Writes

\* A call that writes next, keeps its provider, and sends nothing.
LEMMA Quiet ==
  ASSUME IInv, NEW p \in Processes, coordinator[p] # None,
         NEW next \in Records,
         coordinator[p] = journal => Fits(provider[p], next),
         \/ next.checkpoint = coordinator[p].checkpoint
         \/ next.checkpoint = checkpoint(provider[p]),
         next.local = coordinator[p].local, next.outgoing = coordinator[p].outgoing,
         next.phase # "Completed",
         coordinator[p] = journal /\ next.round1[Me] # None =>
            next.round1[Me] = coordinator[p].round1[Me] \/ next.round1[Me] = next.local,
         NEW stored \in BOOLEAN, commit(p, next, stored),
         plan' = plan, current' = current, drawn' = drawn, detached' = detached,
         provider' = provider,
         broadcast' = broadcast, endorsed' = endorsed, shared' = shared,
         p \notin finalizing,
         \/ finalizing' = finalizing
         \/ /\ Committed(p, next, stored) /\ next.phase = "Finalize"
            /\ finalizing' = finalizing \cup {p}
  PROVE  IInv'
<1>1. /\ provider[p] \in Providers /\ Keyed(provider[p])
      /\ coordinator[p].revision = journal.revision => Fits(provider[p], journal)
      /\ provider = [provider EXCEPT ![p] = provider[p]]
  BY Parties
<1>2. GuardKept(provider[p].guard, provider[p].guard) BY DEF GuardKept
<1>3. GuardKept(coordinator[p].checkpoint.guard, checkpoint(provider[p]).guard)
  BY <1>2, GuardsOfCheckpoint
<1>4. GuardKept(next.checkpoint.guard, provider[p].guard)
  BY <1>3 DEF GuardKept, checkpoint
<1>5. GuardKept(coordinator[p].checkpoint.guard, next.checkpoint.guard)
  BY <1>3 DEF GuardKept
<1>6. ASSUME Committed(p, next, stored)
      PROVE  /\ broadcast' \subseteq Drawn(plan) /\ OnRecord' /\ CompletionIsCertified'
             /\ finalizing' \subseteq Processes
             /\ \A q \in finalizing' :
                   q \in finalizing \ {p} \/ (q = p /\ next.phase = "Finalize")
  <2>1. journal' = next BY <1>6 DEF commit
  <2>2. SwapsIn(coordinator[p].revision, next) BY <1>6 DEF Committed
  <2>3. coordinator[p] = journal BY <2>2, SwapMeansCurrent
  <2>4. OnRecord' BY <1>5, <2>1, <2>2, <2>3, Continues
  <2>5. CompletionIsCertified' BY <2>1 DEF CompletionIsCertified
  <2>6. broadcast' \subseteq Drawn(plan) /\ finalizing' \subseteq Processes
    BY DEF IInv, Typed
  <2>7. \A q \in finalizing' : q \in finalizing \ {p} \/ (q = p /\ next.phase = "Finalize")
    OBVIOUS
  <2> QED BY <2>4, <2>5, <2>6, <2>7
<1>7. ~Committed(p, next, stored) => finalizing' \subseteq finalizing OBVIOUS
<1>8. provider' = [provider EXCEPT ![p] = provider[p]] BY <1>1
<1> QED BY <1>1, <1>2, <1>4, <1>6, <1>7, <1>8, Writes, ZenonT(60)

LEMMA AbortsWithOwn ==
  ASSUME IInv, NEW p \in Processes, coordinator[p] # None, p \notin finalizing,
         NEW code \in {"Timeout", "Operator", "ProviderFailure", "Equivocation",
                       "Round2SemanticFailure", "FinalizeSemanticFailure"},
         NEW stored \in BOOLEAN,
         abort_internal(p, provider[p], code, stored),
         plan' = plan, current' = current, drawn' = drawn, detached' = detached,
         broadcast' = broadcast, endorsed' = endorsed, shared' = shared,
         finalizing' = finalizing
  PROVE  IInv'
<1>1. /\ provider[p] \in Providers /\ Keyed(provider[p])
      /\ coordinator[p].revision = journal.revision => Fits(provider[p], journal)
  BY Parties
<1>2. GuardKept(provider[p].guard, provider[p].guard) BY DEF GuardKept
<1>3. finalizing' = finalizing \ {p} OBVIOUS
<1> QED BY <1>1, <1>2, <1>3, Aborts

LEMMA AcceptCertificateStep ==
  ASSUME IInv, plan' = plan, NEW p \in Processes, NEW stored \in BOOLEAN,
         NEW e \in plan.certificates \cup broadcast, AcceptCertificate(p, e, stored)
  PROVE  IInv'
<1> DEFINE s == Successor(p)
           next == [s EXCEPT !.round1[e.sender] = e.payload]
<1>0. /\ coordinator[p] # None /\ coordinator[p].phase = "Round1" /\ p \notin finalizing
      /\ open_round1_broadcast(Session, e)
  BY DEF AcceptCertificate, Live, Idle
<1>1. /\ plan \in Plans /\ journal \in Records /\ coordinator[p] \in Records
      /\ provider[p] \in Providers
      /\ coordinator[p].revision = journal.revision =>
            coordinator[p] = journal /\ Fits(provider[p], journal)
  BY <1>0, Parties
<1>2. CASE /\ coordinator[p].round1[e.sender] # None
           /\ abort_internal(p, provider[p], "Equivocation", stored)
  BY <1>0, <1>2, AbortsWithOwn DEF AcceptCertificate, sent
<1>3. CASE /\ coordinator[p].round1[e.sender] = None
           /\ commit(p, next, stored)
           /\ provider' = provider
  <2>1. /\ e.sender \in Validators /\ e.signature = e.sender /\ e.payload # Garbled
    BY <1>0 DEF open_round1_broadcast, verify_broadcast
  <2>2. e \in plan.certificates \cup Drawn(plan) BY DEF IInv, Typed
  <2>3. e.payload \in Messages(plan) BY <2>1, <2>2 DEF Messages
  <2>4. /\ s \in Records /\ SameButCheckpoint(s, coordinator[p])
        /\ s.phase = "Round1" /\ s.checkpoint = coordinator[p].checkpoint
    BY <1>0, <1>1, SuccessorIsRecord
  <2>5. coordinator[p].round1 \in [Validators -> Messages(plan) \cup {None}]
    BY <1>1 DEF Records, RecordsOf
  <2>a. commit(p, next, stored) BY <1>3
  <2> HIDE DEF s
  <2>6. next.round1 = [coordinator[p].round1 EXCEPT ![e.sender] = e.payload]
    BY <2>4 DEF Records, RecordsOf, SameButCheckpoint
  <2>7. next.round1 \in [Validators -> Messages(plan) \cup {None}]
    BY <2>1, <2>3, <2>5, <2>6
  <2>8. next = [s EXCEPT !.round1 = next.round1]
    BY <2>4 DEF Records, RecordsOf
  <2>9. next \in Records BY <2>4, <2>7, <2>8 DEF Records, RecordsOf
  <2>10. /\ next.checkpoint = coordinator[p].checkpoint /\ next.phase = "Round1"
         /\ next.local = coordinator[p].local /\ next.outgoing = coordinator[p].outgoing
    BY <2>4 DEF Records, RecordsOf, SameButCheckpoint
  <2> HIDE DEF next
  <2>11. ASSUME coordinator[p] = journal
         PROVE  Fits(provider[p], next)
    <3>1. Fits(provider[p], journal) BY <1>1, <2>11
    <3>2. provider[p].state \notin {"Round2", "Completed"}
      BY <1>0, <1>3, <2>1, <2>11, <3>1 DEF Fits
    <3> QED BY <1>0, <2>10, <2>11, <3>1, <3>2 DEF Fits
  <2>12. ASSUME coordinator[p] = journal, next.round1[Me] # None
         PROVE  next.round1[Me] = coordinator[p].round1[Me] \/ next.round1[Me] = next.local
    <3>1. CASE e.sender # Me BY <2>5, <2>6, <3>1, CeremonyAssumption
    <3>2. CASE e.sender = Me
      <4>1. e \in broadcast BY <1>1, <2>1, <3>2, PlanFacts
      <4>2. journal.local = e.payload
        BY <1>0, <4>1, Parties DEF IInv, OnRecord
      <4> QED BY <2>5, <2>6, <2>10, <2>12, <3>2, <4>2, CeremonyAssumption
    <3> QED BY <3>1, <3>2
  <2>13. /\ current' = current /\ drawn' = drawn /\ detached' = detached
         /\ broadcast' = broadcast /\ endorsed' = endorsed /\ shared' = shared
         /\ finalizing' = finalizing /\ provider' = provider
    BY <1>3 DEF AcceptCertificate, sent
  <2>14. next.phase # "Completed" BY <2>10
  <2> QED BY <1>0, <2>9, <2>10, <2>11, <2>12, <2>13, <2>14, <2>a, Quiet, ZenonT(60)
<1> QED BY <1>2, <1>3 DEF AcceptCertificate

LEMMA AcceptRound2Step ==
  ASSUME IInv, plan' = plan, NEW p \in Processes, NEW stored \in BOOLEAN,
         NEW e \in plan.incoming, AcceptRound2(p, e, stored)
  PROVE  IInv'
<1> DEFINE s == Successor(p)
           message == e.ciphertext.plaintext
           ck == checkpoint(provider[p])
           next == [s EXCEPT !.round2[e.sender] = message, !.sealed2[e.sender] = e,
                             !.checkpoint = ck]
<1>0. /\ coordinator[p] # None /\ coordinator[p].phase = "Round2" /\ p \notin finalizing
      /\ open_round2_point_to_point(Session, Me, e) /\ provider[p].state = "Round2"
  BY DEF AcceptRound2, Live, Idle
<1>1. /\ plan \in Plans /\ journal \in Records /\ coordinator[p] \in Records
      /\ provider[p] \in Providers
      /\ coordinator[p].revision = journal.revision =>
            coordinator[p] = journal /\ Fits(provider[p], journal)
  BY <1>0, Parties
<1>2. CASE /\ coordinator[p].round2[e.sender] # None
           /\ abort_internal(p, provider[p], "Equivocation", stored)
  BY <1>0, <1>2, AbortsWithOwn DEF AcceptRound2, sent
<1>3. CASE /\ coordinator[p].round2[e.sender] = None
           /\ commit(p, next, stored)
           /\ provider' = provider
  <2>1. e.sender \in Validators
    BY <1>0 DEF open_round2_point_to_point, open_point_to_point
  <2>2. message \in {d.ciphertext.plaintext : d \in plan.incoming} OBVIOUS
  <2>3. ck \in [state : States, guard : Guards(plan)]
    BY <1>1 DEF Providers, ProvidersOf, checkpoint
  <2>4. /\ s \in Records /\ SameButCheckpoint(s, coordinator[p]) /\ s.phase = "Round2"
    BY <1>0, <1>1, SuccessorIsRecord
  <2>a. commit(p, next, stored) BY <1>3
  <2> DEFINE r2 == [s.round2 EXCEPT ![e.sender] = message]
             s2 == [s.sealed2 EXCEPT ![e.sender] = e]
  <2>5. /\ r2 \in [Validators -> {d.ciphertext.plaintext : d \in plan.incoming} \cup {None}]
        /\ s2 \in [Validators -> plan.incoming \cup {None}]
    BY <2>1, <2>2, <2>4 DEF Records, RecordsOf
  <2> HIDE DEF s, ck, message
  <2>6. next = [s EXCEPT !.round2 = r2, !.sealed2 = s2, !.checkpoint = ck]
    BY <2>4 DEF Records, RecordsOf
  <2> HIDE DEF next, r2, s2
  <2>7. next \in Records BY <2>3, <2>4, <2>5, <2>6 DEF Records, RecordsOf
  <2>8. /\ next.checkpoint = ck /\ next.phase = "Round2"
        /\ next.local = s.local /\ next.outgoing = s.outgoing /\ next.round1 = s.round1
    BY <2>4, <2>6 DEF Records, RecordsOf
  <2>9. coordinator[p] = journal => Fits(provider[p], next)
    BY <1>0, <1>1, <2>4, <2>8 DEF Fits, SameButCheckpoint
  <2>10. /\ current' = current /\ drawn' = drawn /\ detached' = detached
         /\ broadcast' = broadcast /\ endorsed' = endorsed /\ shared' = shared
         /\ finalizing' = finalizing /\ provider' = provider
    BY <1>3 DEF AcceptRound2, sent
  <2>11. /\ next.checkpoint = checkpoint(provider[p]) /\ next.phase # "Completed"
         /\ next.local = coordinator[p].local /\ next.outgoing = coordinator[p].outgoing
         /\ next.round1[Me] = coordinator[p].round1[Me]
    BY <2>4, <2>8 DEF SameButCheckpoint, ck
  <2> QED BY <1>0, <2>7, <2>9, <2>10, <2>11, <2>a, Quiet, ZenonT(60)
<1> QED BY <1>2, <1>3 DEF AcceptRound2

LEMMA FinalizeIntentStep ==
  ASSUME IInv, plan' = plan, NEW p \in Processes, NEW stored \in BOOLEAN,
         FinalizeIntent(p, stored)
  PROVE  IInv'
<1> DEFINE s == Successor(p)
           next == [s EXCEPT !.phase = "Finalize"]
<1>0. /\ coordinator[p] # None /\ coordinator[p].phase = "Round2" /\ p \notin finalizing
  BY DEF FinalizeIntent, Live, Idle
<1>1. /\ plan \in Plans /\ journal \in Records /\ coordinator[p] \in Records
      /\ coordinator[p].revision = journal.revision =>
            coordinator[p] = journal /\ Fits(provider[p], journal)
  BY <1>0, Parties
<1>2. /\ s \in Records /\ SameButCheckpoint(s, coordinator[p])
      /\ s.checkpoint = coordinator[p].checkpoint
  BY <1>1, SuccessorIsRecord
<1>a. /\ commit(p, next, stored) /\ provider' = provider
      /\ finalizing' = IF Committed(p, next, stored) THEN finalizing \cup {p} ELSE finalizing
      /\ current' = current /\ drawn' = drawn /\ detached' = detached
      /\ broadcast' = broadcast /\ endorsed' = endorsed /\ shared' = shared
  BY DEF FinalizeIntent, sent
<1> HIDE DEF s
<1>3. "Finalize" \in Phases BY DEF Phases
<1>4. next \in Records BY <1>2, <1>3 DEF Records, RecordsOf
<1>5. /\ next.checkpoint = s.checkpoint /\ next.phase = "Finalize"
      /\ next.local = s.local /\ next.outgoing = s.outgoing /\ next.round1 = s.round1
  BY <1>2 DEF Records, RecordsOf
<1> HIDE DEF next
<1>6. coordinator[p] = journal => Fits(provider[p], next)
  BY <1>0, <1>1, <1>2, <1>5 DEF Fits, SameButCheckpoint
<1>7. /\ next.checkpoint = coordinator[p].checkpoint /\ next.phase # "Completed"
      /\ next.local = coordinator[p].local /\ next.outgoing = coordinator[p].outgoing
      /\ next.round1[Me] = coordinator[p].round1[Me]
  BY <1>2, <1>5 DEF SameButCheckpoint
<1>8. \/ finalizing' = finalizing
      \/ /\ Committed(p, next, stored) /\ next.phase = "Finalize"
         /\ finalizing' = finalizing \cup {p}
  BY <1>5, <1>a
<1> QED BY <1>0, <1>4, <1>6, <1>7, <1>8, <1>a, Quiet, ZenonT(60)

LEMMA AdvanceStep ==
  ASSUME IInv, plan' = plan, NEW p \in Processes, NEW stored \in BOOLEAN,
         AdvanceRound2(p, stored)
  PROVE  IInv'
<1> DEFINE received == ReceivedRound1(p)
           x == ProviderAdvance(provider[p], received)
           s == Successor(p)
           next == [s EXCEPT !.phase = "Round2", !.outgoing = x.own, !.checkpoint = checkpoint(x)]
<1>0. /\ coordinator[p] # None /\ coordinator[p].phase = "Round1"
      /\ HasAllRound1(p) /\ AdvanceSucceeds(provider[p], received)
  BY DEF AdvanceRound2, Live, Idle
<1>1. /\ plan \in Plans /\ journal \in Records /\ coordinator[p] \in Records
      /\ provider[p] \in Providers /\ Keyed(provider[p])
      /\ coordinator[p].revision = journal.revision =>
            coordinator[p] = journal /\ Fits(provider[p], journal)
  BY <1>0, Parties
<1>2. /\ received \in [Validators -> Messages(plan) \cup {None}]
      /\ received = [coordinator[p].round1 EXCEPT ![Me] = None]
      /\ \A t \in Others : received[t] # None
  BY <1>0, <1>1, CeremonyAssumption
     DEF ReceivedRound1, HasAllRound1, Others, Records, RecordsOf
<1>3. provider[p].state = "Round1" BY <1>0 DEF AdvanceSucceeds
<1>4. x = [provider[p] EXCEPT !.state = "Round2", !.received = received]
  BY <1>0 DEF AdvanceSucceeds, ProviderAdvance
<1>a. /\ provider' = [provider EXCEPT ![p] = x] /\ commit(p, next, stored)
      /\ shared' = IF Committed(p, next, stored) THEN shared \cup {x.own} ELSE shared
      /\ endorsed' = endorsed /\ broadcast' = broadcast /\ finalizing' = finalizing
      /\ current' = current /\ drawn' = drawn /\ detached' = detached
      /\ p \notin finalizing
  BY DEF AdvanceRound2, Live, Idle
<1> HIDE DEF received
<1>5. x \in Providers /\ x.state = "Round2" /\ x.received = received
  BY <1>1, <1>2, <1>4 DEF Providers, ProvidersOf, States
<1>6. /\ x.id = provider[p].id /\ x.guard = provider[p].guard
      /\ x.current = provider[p].current /\ x.own = provider[p].own
  BY <1>1, <1>4 DEF Providers, ProvidersOf
<1>7. Keyed(x) BY <1>1, <1>2, <1>3, <1>5, <1>6 DEF Keyed
<1>8. checkpoint(x) \in [state : States, guard : Guards(plan)] /\ checkpoint(x).guard = x.guard
  BY <1>5 DEF Providers, ProvidersOf, checkpoint
<1>9. x.own \in Own(plan) /\ "Round2" \in Phases
  <2>1. x.id \in 1..plan.providers BY <1>5 DEF Providers, ProvidersOf
  <2>2. x.own = Round1Message(Session, Me, OwnPackage(x.id)) BY <1>5, <1>7 DEF Keyed
  <2> QED BY <1>1, <2>1, <2>2, OwnMessage DEF Phases
<1>10. s \in Records /\ SameButCheckpoint(s, coordinator[p])
  BY <1>1, SuccessorIsRecord
<1> HIDE DEF s, x
<1>11. next \in Records BY <1>8, <1>9, <1>10 DEF Records, RecordsOf
<1>12. next.phase = "Round2" /\ next.outgoing = x.own /\ next.checkpoint = checkpoint(x)
  BY <1>10 DEF Records, RecordsOf
<1>13. next.round1 = s.round1 /\ next.local = s.local
  BY <1>10 DEF Records, RecordsOf
<1> HIDE DEF next
<1>14. \A t \in Validators : coordinator[p].round1[t] # None
  BY <1>0 DEF HasAllRound1
<1>15. coordinator[p].revision = journal.revision => x.own = coordinator[p].local
  BY <1>0, <1>1, <1>3, <1>6 DEF Fits
<1>16. coordinator[p].revision = journal.revision => Fits(x, journal)
  BY <1>0, <1>1, <1>2, <1>5, <1>14, <1>15 DEF Fits
<1>17. coordinator[p] = journal => Fits(x, next)
  BY <1>2, <1>5, <1>10, <1>12, <1>13, <1>14, <1>15 DEF Fits, SameButCheckpoint
<1>18. GuardKept(provider[p].guard, x.guard) /\ GuardKept(next.checkpoint.guard, x.guard)
  BY <1>6, <1>8, <1>12 DEF GuardKept
<1>19. ASSUME Committed(p, next, stored)
       PROVE  /\ broadcast' \subseteq Drawn(plan) /\ OnRecord' /\ CompletionIsCertified'
              /\ finalizing' \subseteq Processes
              /\ \A q \in finalizing' :
                    q \in finalizing \ {p} \/ (q = p /\ next.phase = "Finalize")
  <2>1. journal' = next BY <1>19, <1>a DEF commit
  <2>2. SwapsIn(coordinator[p].revision, next) BY <1>19 DEF Committed
  <2>3. coordinator[p] = journal BY <1>0, <2>2, SwapMeansCurrent
  <2>4. GuardKept(coordinator[p].checkpoint.guard, next.checkpoint.guard)
    BY <1>0, <1>12, <1>18, GuardsOfCheckpoint
  <2>5. \A d \in endorsed :
           d.sender \in Validators /\ d # None /\ next.checkpoint.guard[d.sender] = d
    BY <1>0, <2>3, <2>4, Parties DEF IInv, OnRecord, GuardKept
  <2>6. next # None BY <1>1, <1>11, PlanFacts
  <2>7. /\ \A d \in broadcast : next.local = d.payload
        /\ shared = {}
        /\ next.round1[Me] # None => next.round1[Me] = next.local
    BY <1>0, <1>1, <1>10, <1>13, <2>3, Parties DEF IInv, OnRecord, SameButCheckpoint
  <2>8. \A m \in shared' : next.outgoing = m /\ next.local = m
    BY <1>10, <1>12, <1>13, <1>15, <1>19, <1>a, <2>3, <2>7 DEF SameButCheckpoint
  <2>9. OnRecord' BY <1>12, <1>a, <2>1, <2>5, <2>6, <2>7, <2>8 DEF OnRecord
  <2>10. CompletionIsCertified' BY <1>12, <2>1 DEF CompletionIsCertified
  <2>11. broadcast' \subseteq Drawn(plan) /\ finalizing' \subseteq Processes
    BY <1>a DEF IInv, Typed
  <2> QED BY <1>a, <2>9, <2>10, <2>11
<1> QED BY <1>0, <1>5, <1>7, <1>11, <1>16, <1>17, <1>18, <1>19, <1>a, Writes

\* A call whose provider failed leaves it quarantined, or as it was.
LEMMA AbortsAfterFailure ==
  ASSUME IInv, NEW p \in Processes, coordinator[p] # None,
         NEW x, x = provider[p] \/ x = [provider[p] EXCEPT !.state = "Quarantined"],
         NEW code \in {"Timeout", "Operator", "ProviderFailure", "Equivocation",
                       "Round2SemanticFailure", "FinalizeSemanticFailure"},
         NEW stored \in BOOLEAN,
         abort_internal(p, x, code, stored),
         plan' = plan, current' = current, drawn' = drawn, detached' = detached,
         broadcast' = broadcast, endorsed' = endorsed, shared' = shared,
         finalizing' = finalizing \ {p}
  PROVE  IInv'
<1>1. /\ provider[p] \in Providers /\ Keyed(provider[p])
      /\ coordinator[p].revision = journal.revision => Fits(provider[p], journal)
  BY Parties
<1>2. /\ x \in Providers /\ x.guard = provider[p].guard
      /\ x = provider[p] \/ x.state = "Quarantined"
  BY <1>1 DEF Providers, ProvidersOf, States
<1>3. Keyed(x) BY <1>1, <1>2 DEF Keyed
<1>4. coordinator[p].revision = journal.revision => Fits(x, journal)
  BY <1>1, <1>2 DEF Fits
<1>5. GuardKept(provider[p].guard, x.guard) BY <1>2 DEF GuardKept
<1> QED BY <1>2, <1>3, <1>4, <1>5, Aborts

LEMMA FailureSteps ==
  ASSUME IInv, plan' = plan, NEW p \in Processes, NEW stored \in BOOLEAN,
         \/ Expire(p, stored) \/ Abort(p, stored)
         \/ BeginFails(p, stored) \/ AdvanceFails(p, stored)
  PROVE  IInv'
<1>1. /\ coordinator[p] # None /\ p \notin finalizing
      /\ finalizing' = finalizing /\ finalizing' = finalizing \ {p}
      /\ current' = current /\ drawn' = drawn /\ detached' = detached
      /\ broadcast' = broadcast /\ endorsed' = endorsed /\ shared' = shared
  BY DEF Expire, Abort, BeginFails, AdvanceFails, Live, Idle, sent
<1>2. CASE Expire(p, stored) BY <1>1, <1>2, AbortsWithOwn DEF Expire
<1>3. CASE Abort(p, stored) BY <1>1, <1>3, AbortsWithOwn DEF Abort
<1>4. CASE BeginFails(p, stored)
  <2> DEFINE x == ProviderBegin(provider[p])
  <2>1. x = provider[p] \/ x = [provider[p] EXCEPT !.state = "Quarantined"]
    BY <1>4 DEF BeginFails, BeginSucceeds, ProviderBegin
  <2>2. abort_internal(p, x, "ProviderFailure", stored) BY <1>4 DEF BeginFails
  <2> HIDE DEF x
  <2> QED BY <1>1, <2>1, <2>2, AbortsAfterFailure
<1>5. CASE AdvanceFails(p, stored)
  <2> DEFINE x == ProviderAdvance(provider[p], ReceivedRound1(p))
  <2>1. x = provider[p] \/ x = [provider[p] EXCEPT !.state = "Quarantined"]
    BY <1>5 DEF AdvanceFails, AdvanceSucceeds, ProviderAdvance
  <2>2. abort_internal(p, x, "Round2SemanticFailure", stored) BY <1>5 DEF AdvanceFails
  <2> HIDE DEF x
  <2> QED BY <1>1, <2>1, <2>2, AbortsAfterFailure
<1> QED BY <1>2, <1>3, <1>4, <1>5

\* The key a provider that is past Round1 arrives at.
LEMMA OutputFacts ==
  ASSUME plan \in Plans, NEW x \in Providers, Keyed(x), x.state \in {"Round2", "Completed"}
  PROVE  /\ Output(Session, x.own, x.received, x.current) \in Outputs(plan)
         /\ Output(Session, x.own, x.received, x.current) =
               FinalizedParticipant(
                  IF Session.previous = None
                  THEN {x.own.package} \cup {x.received[s].package : s \in Others}
                  ELSE Session.previous, Session.epoch)
<1> DEFINE fresh == {x.own.package} \cup {x.received[s].package : s \in Others}
           key == IF Session.previous = None THEN fresh ELSE Session.previous
<1>1. /\ x.own = Round1Message(Session, Me, OwnPackage(x.id))
      /\ Session.previous # None => x.current.key = Session.previous
      /\ \A s \in Others : x.received[s] # None
  BY DEF Keyed
<1>2. x.id \in 1..plan.providers /\ x.received \in [Validators -> Messages(plan) \cup {None}]
  BY DEF Providers, ProvidersOf
<1>3. x.own.sender = Me /\ x.own.package \in Packages(plan)
  BY <1>1, <1>2, OwnMessage
<1>4. \A s \in Others : x.received[s].package \in Packages(plan)
  BY <1>1, <1>2 DEF Others, Packages
<1>5. fresh \subseteq Packages(plan) BY <1>3, <1>4
<1>6. key \in (SUBSET Packages(plan)) \cup {plan.session.previous} BY <1>5 DEF Session
<1>7. Output(Session, x.own, x.received, x.current) = FinalizedParticipant(key, Session.epoch)
  BY <1>1, <1>3 DEF Output, Others
<1> HIDE DEF key
<1>8. FinalizedParticipant(key, Session.epoch) \in Outputs(plan)
  BY <1>6 DEF FinalizedParticipant, Outputs, Session
<1> QED BY <1>7, <1>8 DEF key

LEMMA FinalizeSucceedsStep ==
  ASSUME IInv, plan' = plan, NEW p \in Processes, NEW stored \in BOOLEAN,
         FinalizeResult(p, stored),
         FinalizeSucceeds(provider[p], coordinator[p].round2)
  PROVE  IInv'
<1> DEFINE x == ProviderFinalize(provider[p], coordinator[p].round2)
           s == Successor(p)
           next == [s EXCEPT !.phase = "Completed", !.completion = x.completion,
                             !.checkpoint = checkpoint(x)]
<1>0. coordinator[p] # None /\ coordinator[p].phase = "Finalize"
  BY DEF FinalizeResult, Live, Idle, IInv, Holding
<1>1. /\ plan \in Plans /\ journal \in Records /\ coordinator[p] \in Records
      /\ provider[p] \in Providers /\ Keyed(provider[p])
      /\ coordinator[p].revision = journal.revision =>
            coordinator[p] = journal /\ Fits(provider[p], journal)
  BY <1>0, Parties
<1>a. /\ provider' = [provider EXCEPT ![p] = x] /\ commit(p, next, stored)
      /\ finalizing' = finalizing \ {p}
      /\ current' = current /\ drawn' = drawn /\ detached' = detached
      /\ broadcast' = broadcast /\ endorsed' = endorsed /\ shared' = shared
  BY DEF FinalizeResult, sent
<1>2. /\ x \in Providers /\ x.state = "Completed" /\ x.guard = provider[p].guard
      /\ x.own = provider[p].own /\ x.received = provider[p].received
      /\ x.current = provider[p].current /\ x.id = provider[p].id
      /\ provider[p].state # "Completed" =>
            /\ provider[p].state = "Round2"
            /\ Finalizes(Me, Session, x.received, coordinator[p].round2)
            /\ x.completion = Output(Session, x.own, x.received, x.current)
      /\ provider[p].state = "Completed" => x = provider[p]
  <2>1. CASE provider[p].state = "Completed"
    BY <1>1, <2>1 DEF ProviderFinalize
  <2>2. CASE provider[p].state # "Completed"
    <3>1. /\ provider[p].state = "Round2"
          /\ Finalizes(Me, Session, provider[p].received, coordinator[p].round2)
      BY <2>2 DEF FinalizeSucceeds
    <3> DEFINE o == Output(Session, provider[p].own, provider[p].received, provider[p].current)
    <3>2. o \in Outputs(plan) BY <1>1, <3>1, OutputFacts
    <3>3. x = [provider[p] EXCEPT !.state = "Completed", !.completion = o]
      BY <3>1 DEF ProviderFinalize
    <3> HIDE DEF o
    <3>4. x \in Providers /\ x.state = "Completed" /\ x.completion = o
      BY <1>1, <3>2, <3>3 DEF Providers, ProvidersOf, States
    <3>5. /\ x.guard = provider[p].guard /\ x.id = provider[p].id
          /\ x.own = provider[p].own /\ x.received = provider[p].received
          /\ x.current = provider[p].current
      BY <1>1, <3>3 DEF Providers, ProvidersOf
    <3> HIDE DEF x
    <3> QED BY <2>2, <3>1, <3>4, <3>5 DEF o
  <2> QED BY <2>1, <2>2
<1>3. s \in Records /\ SameButCheckpoint(s, coordinator[p])
  BY <1>1, SuccessorIsRecord
<1> HIDE DEF x, s
<1>4. /\ checkpoint(x) \in [state : States, guard : Guards(plan)] /\ checkpoint(x).guard = x.guard
      /\ x.completion \in Outputs(plan) \cup {None}
  BY <1>2 DEF Providers, ProvidersOf, checkpoint
<1>5. "Completed" \in Phases BY DEF Phases, Terminal
<1>6. next \in Records BY <1>3, <1>4, <1>5 DEF Records, RecordsOf
<1>7. /\ next.phase = "Completed" /\ next.completion = x.completion
      /\ next.checkpoint = checkpoint(x)
  BY <1>3 DEF Records, RecordsOf
<1>8. /\ next.local = s.local /\ next.outgoing = s.outgoing
      /\ next.round1 = s.round1 /\ next.round2 = s.round2
  BY <1>3 DEF Records, RecordsOf
<1> HIDE DEF next
<1>9. Keyed(x)
  <2>1. provider[p].state \in {"Round2", "Completed"} BY <1>2
  <2> QED BY <1>1, <1>2, <2>1 DEF Keyed
<1>10. ASSUME coordinator[p].revision = journal.revision
       PROVE  /\ coordinator[p] = journal /\ Fits(x, journal)
              /\ x.own = journal.local /\ \A t \in Validators : journal.round1[t] # None
              /\ x.received = [journal.round1 EXCEPT ![Me] = None]
              /\ Finalizes(Me, Session, x.received, journal.round2)
              /\ x.completion = Output(Session, x.own, x.received, x.current)
  <2>1. coordinator[p] = journal /\ Fits(provider[p], journal) BY <1>1, <1>10
  <2>2. /\ x.own = journal.local /\ \A t \in Validators : journal.round1[t] # None
        /\ x.received = [journal.round1 EXCEPT ![Me] = None]
        /\ Finalizes(Me, Session, x.received, journal.round2)
        /\ x.completion = Output(Session, x.own, x.received, x.current)
    BY <1>0, <1>2, <2>1 DEF Fits
  <2> QED BY <1>0, <1>2, <2>1, <2>2 DEF Fits
<1>11. coordinator[p] = journal => Fits(x, next)
  BY <1>2, <1>3, <1>7, <1>8, <1>10 DEF Fits, SameButCheckpoint
<1>12. GuardKept(provider[p].guard, x.guard) /\ GuardKept(next.checkpoint.guard, x.guard)
  BY <1>2, <1>4, <1>7 DEF GuardKept
<1>13. ASSUME Committed(p, next, stored)
       PROVE  /\ broadcast' \subseteq Drawn(plan) /\ OnRecord' /\ CompletionIsCertified'
              /\ finalizing' \subseteq Processes
              /\ \A q \in finalizing' :
                    q \in finalizing \ {p} \/ (q = p /\ next.phase = "Finalize")
  <2>1. journal' = next BY <1>13, <1>a DEF commit
  <2>2. SwapsIn(coordinator[p].revision, next) BY <1>13 DEF Committed
  <2>3. coordinator[p] = journal BY <1>0, <2>2, SwapMeansCurrent
  <2>4. GuardKept(coordinator[p].checkpoint.guard, next.checkpoint.guard)
    BY <1>0, <1>7, <1>12, GuardsOfCheckpoint
  <2>5. /\ next.local = coordinator[p].local /\ next.outgoing = coordinator[p].outgoing
        /\ next.round1 = coordinator[p].round1 /\ next.round2 = coordinator[p].round2
    BY <1>3, <1>8 DEF SameButCheckpoint
  <2>6. OnRecord' BY <1>0, <1>6, <1>a, <2>1, <2>2, <2>4, <2>5, Continues
  <2>7. \A t \in Others : next.round2[t].package = ShareOf(next.round1[t].package)
    <3>1. next.round1 \in [Validators -> Messages(plan) \cup {None}]
      BY <1>6 DEF Records, RecordsOf
    <3>2. \A t \in Others : x.received[t] = next.round1[t]
      BY <1>10, <2>3, <2>5, <3>1 DEF Others
    <3> QED BY <1>10, <2>3, <2>5, <3>2 DEF Finalizes, Others
  <2>8. next.completion =
           FinalizedParticipant(
              IF Session.previous = None
              THEN {next.round1[t].package : t \in Validators} ELSE Session.previous,
              Session.epoch)
    <3>1. next.round1 \in [Validators -> Messages(plan) \cup {None}]
      BY <1>6 DEF Records, RecordsOf
    <3>2. \A t \in Others : x.received[t] = next.round1[t]
      BY <1>10, <2>3, <2>5, <3>1 DEF Others
    <3>3. next.round1[Me] = x.own
      <4>1. journal.round1[Me] = journal.local
        BY <1>0, <1>10, <2>3, CeremonyAssumption, Parties DEF IInv, OnRecord
      <4> QED BY <1>10, <2>3, <2>5, <4>1
    <3>4. {x.own.package} \cup {x.received[t].package : t \in Others}
             = {next.round1[t].package : t \in Validators}
      BY <3>2, <3>3, CeremonyAssumption DEF Others
    <3>5. x.completion = Output(Session, x.own, x.received, x.current) BY <1>10, <2>3
    <3>6. Output(Session, x.own, x.received, x.current) =
             FinalizedParticipant(
                IF Session.previous = None
                THEN {x.own.package} \cup {x.received[t].package : t \in Others}
                ELSE Session.previous, Session.epoch)
      BY <1>1, <1>2, <1>9, OutputFacts
    <3> QED BY <1>7, <3>4, <3>5, <3>6
  <2>9. CompletionIsCertified' BY <2>1, <2>7, <2>8 DEF CompletionIsCertified, Session
  <2>10. broadcast' \subseteq Drawn(plan) /\ finalizing' \subseteq Processes
    BY <1>a DEF IInv, Typed
  <2> QED BY <1>a, <2>6, <2>9, <2>10
<1>14. coordinator[p].revision = journal.revision => Fits(x, journal) BY <1>10
<1> QED
  BY <1>0, <1>2, <1>6, <1>9, <1>11, <1>12, <1>13, <1>14, <1>a, Writes

LEMMA FinalizeResultStep ==
  ASSUME IInv, plan' = plan, NEW p \in Processes, NEW stored \in BOOLEAN,
         FinalizeResult(p, stored)
  PROVE  IInv'
<1>1. CASE FinalizeSucceeds(provider[p], coordinator[p].round2)
  BY <1>1, FinalizeSucceedsStep
<1>2. CASE ~FinalizeSucceeds(provider[p], coordinator[p].round2)
  <2> DEFINE x == ProviderFinalize(provider[p], coordinator[p].round2)
  <2>1. x = provider[p] \/ x = [provider[p] EXCEPT !.state = "Quarantined"]
    BY <1>2 DEF FinalizeSucceeds, ProviderFinalize
  <2>2. abort_internal(p, x, "FinalizeSemanticFailure", stored)
    BY <1>2 DEF FinalizeResult
  <2>3. /\ coordinator[p] # None /\ finalizing' = finalizing \ {p}
        /\ current' = current /\ drawn' = drawn /\ detached' = detached
        /\ broadcast' = broadcast /\ endorsed' = endorsed /\ shared' = shared
    BY DEF FinalizeResult, Live, Idle, IInv, Holding, sent
  <2> HIDE DEF x
  <2> QED BY <2>1, <2>2, <2>3, AbortsAfterFailure
<1> QED BY <1>1, <1>2

(***************************************************************************)
(* Providers come and go.                                                  *)
(***************************************************************************)

\* The coordinator and the provider of p change, the journal does not.
LEMMA Elsewhere ==
  ASSUME IInv, NEW p \in plan.processes,
         NEW c \in Records \cup {None}, NEW x \in Providers \cup {None},
         c # None => /\ x # None /\ c = journal
                     /\ GuardKept(journal.checkpoint.guard, x.guard),
         x # None => /\ Keyed(x)
                     /\ journal # None => Fits(x, journal)
                     /\ c = None /\ (detached' = 0 \/ journal = None) => x.state = "Ready",
         plan' = plan, journal' = journal,
         coordinator' = [coordinator EXCEPT ![p] = c],
         provider' = [provider EXCEPT ![p] = x],
         broadcast' = broadcast, endorsed' = endorsed, shared' = shared,
         current' \in {plan.current, None}, drawn' \in 0..plan.providers,
         detached' \in Nat, plan.detached = 0 => detached' = 0,
         detached' # detached => plan.processes = {p},
         finalizing' = IF c = None THEN finalizing \ {p} ELSE finalizing,
         c # None => p \notin finalizing
  PROVE  IInv'
<1>0. /\ provider \in [Processes -> Providers \cup {None}]
      /\ coordinator \in [Processes -> Records \cup {None}]
      /\ None \notin Records /\ None \notin Providers
      /\ p \in Processes /\ plan \in Plans
  BY PlanFacts DEF IInv, Typed
<1>1. \A q \in Processes : /\ provider'[q] = IF q = p THEN x ELSE provider[q]
                           /\ coordinator'[q] = IF q = p THEN c ELSE coordinator[q]
  BY <1>0
<1>2. Typed' BY <1>0 DEF IInv, Typed, Records, Providers
<1>3. Holding'
  <2> SUFFICES ASSUME NEW q \in Processes
               PROVE  /\ provider'[q] # None => q \in plan.processes
                      /\ coordinator'[q] # None => provider'[q] # None /\ journal # None
                      /\ q \in finalizing' => coordinator'[q] # None /\ coordinator'[q].phase = "Finalize"
    BY DEF Holding
  <2>1. CASE q = p BY <1>0, <1>1, <2>1
  <2>2. CASE q # p BY <1>0, <1>1, <2>2 DEF IInv, Holding
  <2> QED BY <2>1, <2>2
<1>4. c # None => c.revision \in Nat BY DEF Records, RecordsOf
<1>5. NoFork'
  <2> SUFFICES ASSUME NEW q \in Processes, coordinator'[q] # None
               PROVE  /\ coordinator'[q].revision <= journal.revision
                      /\ coordinator'[q].revision = journal.revision => coordinator'[q] = journal
    BY DEF NoFork
  <2>1. CASE q = p BY <1>1, <1>4, <2>1
  <2>2. CASE q # p BY <1>1, <2>2 DEF IInv, NoFork
  <2> QED BY <2>1, <2>2
<1>6. OnRecord' BY DEF IInv, OnRecord
<1>7. GuardAhead' BY <1>0, <1>1 DEF IInv, GuardAhead, GuardKept
<1>8. Secrets'
  <2> SUFFICES ASSUME NEW q \in Processes, provider'[q] # None
               PROVE /\ Keyed(provider[q])'
                     /\ (journal # None /\ (coordinator[q] = None \/ coordinator[q].revision = journal.revision)
                            => Fits(provider[q], journal))'
                     /\ (coordinator[q] = None /\ (detached = 0 \/ journal = None)
                            => provider[q].state = "Ready")'
                     /\ (plan.detached # 0 /\ coordinator[q] # None => coordinator[q].revision = journal.revision)'
    BY DEF Secrets
  <2>1. CASE q = p
    <3>1. provider'[q] = x /\ coordinator'[q] = c BY <1>1, <2>1
    <3>2. Keyed(provider[q])' BY <3>1 DEF Keyed, Session
    <3>3. journal # None => Fits(provider[q], journal)' BY <3>1 DEF Fits, Session
    <3> QED BY <3>1, <3>2, <3>3
  <2>2. CASE q # p
    <3>1. provider'[q] = provider[q] /\ coordinator'[q] = coordinator[q] BY <1>1, <2>2
    <3>2. /\ Keyed(provider[q])
          /\ journal # None /\ (coordinator[q] = None \/ coordinator[q].revision = journal.revision)
                => Fits(provider[q], journal)
          /\ coordinator[q] = None /\ (detached = 0 \/ journal = None)
                => provider[q].state = "Ready"
          /\ plan.detached # 0 /\ coordinator[q] # None => coordinator[q].revision = journal.revision
      BY <3>1 DEF IInv, Secrets
    <3>3. q \in plan.processes BY <3>1 DEF IInv, Holding
    <3>4. detached' = detached BY <2>2, <3>3
    <3>5. Keyed(provider[q])' BY <3>1, <3>2 DEF Keyed, Session
    <3>6. Fits(provider[q], journal)' <=> Fits(provider[q], journal)
      BY <3>1 DEF Fits, Session
    <3> QED BY <3>1, <3>2, <3>4, <3>5, <3>6
  <2> QED BY <2>1, <2>2
<1>9. CompletionIsCertified' BY DEF IInv, CompletionIsCertified, Session
<1> QED BY <1>2, <1>3, <1>5, <1>6, <1>7, <1>8, <1>9 DEF IInv

LEMMA Member ==
  ASSUME IInv, NEW p \in plan.processes
  PROVE  /\ p \in Processes /\ plan \in Plans
         /\ provider[p] \in Providers \cup {None}
         /\ coordinator[p] \in Records \cup {None}
         /\ journal \in Records \cup {None}
         /\ provider = [provider EXCEPT ![p] = provider[p]]
         /\ coordinator = [coordinator EXCEPT ![p] = coordinator[p]]
         /\ coordinator[p] = None => p \notin finalizing
BY PlanFacts DEF IInv, Typed, Holding

LEMMA ProvisionStep ==
  ASSUME IInv, plan' = plan, NEW p \in plan.processes, Provision(p)
  PROVE  IInv'
<1> DEFINE x == NewProvider(drawn + 1, current)
<1>1. /\ provider[p] = None /\ drawn < plan.providers /\ drawn' = drawn + 1
      /\ provider' = [provider EXCEPT ![p] = x] /\ current' = None
      /\ journal' = journal /\ coordinator' = coordinator /\ finalizing' = finalizing
      /\ broadcast' = broadcast /\ endorsed' = endorsed /\ shared' = shared
      /\ detached' = detached
  BY DEF Provision, sent
<1>2. /\ p \in Processes /\ plan \in Plans /\ coordinator[p] = None /\ p \notin finalizing
      /\ coordinator = [coordinator EXCEPT ![p] = None]
  BY <1>1, Member DEF IInv, Holding
<1>3. drawn + 1 \in 1..plan.providers /\ drawn + 1 \in 0..plan.providers
  BY <1>1, <1>2, PlanFacts DEF IInv, Typed
<1>4. EmptyGuard \in Guards(plan) /\ Empty \in [Validators -> Messages(plan) \cup {None}]
  BY DEF EmptyGuard, Empty, Guards
<1>5. x \in Providers
  BY <1>3, <1>4 DEF NewProvider, Providers, ProvidersOf, States, IInv, Typed
<1>6. x.state = "Ready" BY DEF NewProvider
<1> HIDE DEF x
<1>7. Keyed(x) /\ (journal # None => Fits(x, journal)) BY <1>6 DEF Keyed, Fits
<1>8. /\ current' \in {plan.current, None} /\ drawn' \in 0..plan.providers
      /\ detached' \in Nat /\ (plan.detached = 0 => detached' = 0)
  BY <1>1, <1>3 DEF IInv, Typed
<1>9. finalizing' = finalizing \ {p} /\ coordinator' = [coordinator EXCEPT ![p] = None]
  BY <1>1, <1>2
<1> QED BY <1>1, <1>5, <1>6, <1>7, <1>8, <1>9, Elsewhere

LEMMA RecoverStep ==
  ASSUME IInv, plan' = plan, NEW p \in plan.processes, Recover(p)
  PROVE  IInv'
<1>1. /\ coordinator[p] = None /\ provider[p] # None /\ journal # None
      /\ finalizing' = finalizing /\ current' = current /\ drawn' = drawn
      /\ journal' = journal /\ detached' = detached
      /\ broadcast' = broadcast /\ endorsed' = endorsed /\ shared' = shared
  BY DEF Recover, sent, counters
<1>2. /\ p \in Processes /\ plan \in Plans /\ p \notin finalizing
      /\ coordinator = [coordinator EXCEPT ![p] = None]
      /\ provider[p] \in Providers /\ journal \in Records
  BY <1>1, Member
<1>3. /\ current' \in {plan.current, None} /\ drawn' \in 0..plan.providers
      /\ detached' \in Nat /\ (plan.detached = 0 => detached' = 0)
      /\ finalizing' = finalizing \ {p}
  BY <1>1, <1>2 DEF IInv, Typed
<1>4. CASE Restorable(provider[p], journal)
  <2> DEFINE x == [provider[p] EXCEPT !.guard = journal.checkpoint.guard]
  <2>1. /\ coordinator' = [coordinator EXCEPT ![p] = journal]
        /\ provider' = [provider EXCEPT ![p] = x]
    BY <1>4 DEF Recover
  <2>2. journal.checkpoint.guard \in Guards(plan) BY <1>2 DEF Records, RecordsOf
  <2>3. /\ x \in Providers /\ x.guard = journal.checkpoint.guard
        /\ x.state = provider[p].state /\ x.id = provider[p].id
        /\ x.own = provider[p].own /\ x.current = provider[p].current
        /\ x.received = provider[p].received /\ x.completion = provider[p].completion
    BY <1>2, <2>2 DEF Providers, ProvidersOf
  <2> HIDE DEF x
  <2>4. Keyed(provider[p]) /\ Fits(provider[p], journal)
    BY <1>1, <1>2 DEF IInv, Secrets
  <2>5. Keyed(x) /\ Fits(x, journal) BY <2>3, <2>4 DEF Keyed, Fits
  <2>6. GuardKept(journal.checkpoint.guard, x.guard) BY <2>3 DEF GuardKept
  <2>7. x # None BY <1>2, <2>3, PlanFacts
  <2> QED BY <1>1, <1>2, <1>3, <2>1, <2>3, <2>5, <2>6, <2>7, Elsewhere
<1>5. CASE ~Restorable(provider[p], journal)
  <2>1. /\ coordinator' = [coordinator EXCEPT ![p] = None]
        /\ provider' = [provider EXCEPT ![p] = None]
    BY <1>2, <1>5 DEF Recover
  <2> QED BY <1>1, <1>3, <2>1, Elsewhere
<1> QED BY <1>4, <1>5

LEMMA CrashStep ==
  ASSUME IInv, plan' = plan, NEW p \in plan.processes, Crash(p)
  PROVE  IInv'
<1>1. /\ provider' = [provider EXCEPT ![p] = None]
      /\ coordinator' = [coordinator EXCEPT ![p] = None]
      /\ finalizing' = finalizing \ {p} /\ current' = current /\ drawn' = drawn
      /\ journal' = journal /\ detached' = detached
      /\ broadcast' = broadcast /\ endorsed' = endorsed /\ shared' = shared
  BY DEF Crash, sent
<1>2. /\ current' \in {plan.current, None} /\ drawn' \in 0..plan.providers
      /\ detached' \in Nat /\ (plan.detached = 0 => detached' = 0)
  BY <1>1 DEF IInv, Typed
<1> QED BY <1>1, <1>2, Elsewhere

LEMMA IntoPartsStep ==
  ASSUME IInv, plan' = plan, NEW p \in plan.processes, IntoParts(p)
  PROVE  IInv'
<1>1. /\ coordinator[p] # None /\ p \notin finalizing
      /\ detached < plan.detached /\ detached' = detached + 1
      /\ coordinator' = [coordinator EXCEPT ![p] = None] /\ provider' = provider
      /\ finalizing' = finalizing /\ current' = current /\ drawn' = drawn
      /\ journal' = journal
      /\ broadcast' = broadcast /\ endorsed' = endorsed /\ shared' = shared
  BY DEF IntoParts, sent
<1>2. /\ p \in Processes /\ plan \in Plans
      /\ provider' = [provider EXCEPT ![p] = provider[p]]
  BY <1>1, Member
<1>3. /\ provider[p] \in Providers /\ Keyed(provider[p]) /\ journal # None
      /\ coordinator[p].revision = journal.revision => Fits(provider[p], journal)
  BY <1>1, <1>2, Parties
<1>4. detached \in Nat /\ plan.detached # 0
  BY <1>1 DEF IInv, Typed
<1>5. plan.processes = {p} BY <1>2, <1>4, PlanFacts
<1>6. provider[p] # None BY <1>2, <1>3, PlanFacts
<1>7. Fits(provider[p], journal) BY <1>1, <1>2, <1>3, <1>4, <1>6 DEF IInv, Secrets
<1>8. /\ current' \in {plan.current, None} /\ drawn' \in 0..plan.providers
      /\ detached' \in Nat /\ detached' # 0 /\ (plan.detached = 0 => detached' = 0)
      /\ finalizing' = finalizing \ {p}
  BY <1>1, <1>4 DEF IInv, Typed
<1> QED BY <1>1, <1>2, <1>3, <1>5, <1>7, <1>8, Elsewhere

LEMMA StartStep ==
  ASSUME IInv, plan' = plan, NEW p \in plan.processes, NEW stored \in BOOLEAN, Start(p, stored)
  PROVE  IInv'
<1>1. /\ coordinator[p] = None /\ provider[p] # None
      /\ finalizing' = finalizing /\ current' = current /\ drawn' = drawn
      /\ detached' = detached
      /\ broadcast' = broadcast /\ endorsed' = endorsed /\ shared' = shared
  BY DEF Start, sent
<1>2. /\ p \in Processes /\ plan \in Plans /\ p \notin finalizing
      /\ coordinator = [coordinator EXCEPT ![p] = None]
      /\ provider[p] \in Providers
  BY <1>1, Member
<1>3. CASE ~(stored /\ journal = None)
  <2>1. /\ coordinator' = [coordinator EXCEPT ![p] = None] /\ journal' = journal
        /\ provider' = [provider EXCEPT ![p] = None]
    BY <1>2, <1>3 DEF Start
  <2>2. /\ current' \in {plan.current, None} /\ drawn' \in 0..plan.providers
        /\ detached' \in Nat /\ (plan.detached = 0 => detached' = 0)
        /\ finalizing' = finalizing \ {p}
    BY <1>1, <1>2 DEF IInv, Typed
  <2> QED BY <1>1, <2>1, <2>2, Elsewhere
<1>4. CASE stored /\ journal = None
  <2> DEFINE r == InitialRecord(provider[p])
             ck == checkpoint(provider[p])
  <2>1. /\ journal' = r /\ coordinator' = [coordinator EXCEPT ![p] = r]
        /\ provider' = provider
    BY <1>4 DEF Start
  <2>2. ck \in [state : States, guard : Guards(plan)] /\ ck.guard = provider[p].guard
    BY <1>2 DEF Providers, ProvidersOf, checkpoint
  <2>3. /\ Empty \in [Validators -> Messages(plan) \cup {None}]
        /\ Empty \in [Validators -> plan.incoming \cup {None}]
        /\ Empty \in [Validators -> {e.ciphertext.plaintext : e \in plan.incoming} \cup {None}]
        /\ Empty[Me] = None
    BY CeremonyAssumption DEF Empty
  <2>4. "Initial" \in Phases BY DEF Phases
  <2>5. r.revision = 1 /\ r.phase = "Initial" /\ r.checkpoint = ck /\ r.round1 = Empty
    BY DEF InitialRecord
  <2>6. r = [revision |-> 1, phase |-> "Initial", checkpoint |-> ck, local |-> None,
             round1 |-> Empty, outgoing |-> None, sealed2 |-> Empty, round2 |-> Empty,
             completion |-> None, abort |-> None]
    BY DEF InitialRecord
  <2> HIDE DEF r, ck
  <2> HIDE DEF Empty
  <2>7. r \in Records BY <2>2, <2>3, <2>4, <2>6 DEF Records, RecordsOf
  <2>8. r # None /\ None \notin Records /\ None \notin Providers BY <1>2, <2>7, PlanFacts
  <2>9. \A q \in Processes : coordinator[q] = None BY <1>4 DEF IInv, Holding
  <2>10. \A q \in Processes : coordinator'[q] = IF q = p THEN r ELSE None
    BY <2>1, <2>9 DEF IInv, Typed
  <2>11. Typed' BY <1>1, <2>1, <2>7 DEF IInv, Typed, Records, Providers
  <2>12. Holding' BY <1>1, <1>2, <2>1, <2>8, <2>9, <2>10 DEF IInv, Holding
  <2>13. NoFork' BY <2>1, <2>5, <2>10 DEF NoFork
  <2>14. broadcast = {} /\ endorsed = {} /\ shared = {} BY <1>4 DEF IInv, OnRecord
  <2>15. OnRecord' BY <1>1, <2>1, <2>3, <2>5, <2>8, <2>14 DEF OnRecord
  <2>16. GuardAhead' BY <1>2, <2>1, <2>2, <2>5, <2>10 DEF GuardAhead
  <2>17. Secrets'
    <3>1. \A q \in Processes : provider[q] # None =>
             /\ Keyed(provider[q]) /\ provider[q].state = "Ready"
             /\ Keyed(provider[q])' /\ Fits(provider[q], journal)'
      <4> SUFFICES ASSUME NEW q \in Processes, provider[q] # None
                   PROVE  /\ Keyed(provider[q]) /\ provider[q].state = "Ready"
                          /\ Keyed(provider[q])' /\ Fits(provider[q], journal)'
        OBVIOUS
      <4>1. Keyed(provider[q]) /\ provider[q].state = "Ready"
        BY <1>4, <2>9 DEF IInv, Secrets
      <4> QED BY <2>1, <4>1 DEF Keyed, Fits
    <3> QED BY <1>1, <2>1, <2>8, <2>10, <3>1 DEF Secrets
  <2>18. CompletionIsCertified' BY <2>1, <2>5 DEF CompletionIsCertified
  <2> QED BY <2>11, <2>12, <2>13, <2>15, <2>16, <2>17, <2>18 DEF IInv
<1> QED BY <1>3, <1>4

\* A step that only moves the clock or the counters of failures.
LEMMA Unmoved ==
  ASSUME IInv, plan' = plan, journal' = journal, coordinator' = coordinator,
         provider' = provider, finalizing' = finalizing, current' = current,
         broadcast' = broadcast, endorsed' = endorsed, shared' = shared,
         drawn' = drawn, detached' = detached
  PROVE  IInv'
<1>1. Typed' BY DEF IInv, Typed, Records, Providers
<1>2. Holding' BY DEF IInv, Holding
<1>3. NoFork' BY DEF IInv, NoFork
<1>4. OnRecord' BY DEF IInv, OnRecord
<1>5. GuardAhead' BY DEF IInv, GuardAhead
<1>6. Secrets' BY DEF IInv, Secrets, Keyed, Fits, Session
<1>7. CompletionIsCertified' BY DEF IInv, CompletionIsCertified, Session
<1> QED BY <1>1, <1>2, <1>3, <1>4, <1>5, <1>6, <1>7 DEF IInv

(***************************************************************************)
(* The theorems.                                                           *)
(***************************************************************************)

LEMMA InitInvariant == Init => IInv
<1> SUFFICES ASSUME Init PROVE IInv OBVIOUS
<1>1. plan \in Plans BY DEF Init
<1>2. plan.providers \in Nat BY <1>1, PlanFacts
<1>3. Typed BY <1>1, <1>2 DEF Init, Typed
<1>4. Holding /\ NoFork /\ OnRecord /\ GuardAhead /\ Secrets /\ CompletionIsCertified
  BY DEF Init, Holding, NoFork, OnRecord, GuardAhead, Secrets, CompletionIsCertified
<1> QED BY <1>3, <1>4 DEF IInv

LEMMA NextInvariant == IInv /\ [Next]_vars => IInv'
<1> SUFFICES ASSUME IInv, [Next]_vars PROVE IInv' OBVIOUS
<1>1. CASE UNCHANGED vars BY <1>1, Unmoved DEF vars
<1>2. CASE UNCHANGED plan /\ Tick BY <1>2, Unmoved DEF Tick, counters, sent
<1>3. ASSUME plan' = plan, NEW p \in plan.processes, Step(p) PROVE IInv'
  <2>1. p \in Processes BY <1>3, Member
  <2>2. CASE Provision(p) BY <1>3, <2>2, ProvisionStep
  <2>3. CASE Recover(p) BY <1>3, <2>3, RecoverStep
  <2>4. CASE IntoParts(p) BY <1>3, <2>4, IntoPartsStep
  <2>5. CASE Crash(p) BY <1>3, <2>5, CrashStep
  <2>6. ASSUME NEW stored \in BOOLEAN, Call(p, stored) PROVE IInv'
    <3>1. CASE Start(p, stored) BY <1>3, <2>6, <3>1, StartStep
    <3>2. CASE Expire(p, stored) \/ Abort(p, stored) \/ BeginFails(p, stored) \/ AdvanceFails(p, stored)
      BY <1>3, <2>1, <2>6, <3>2, FailureSteps
    <3>3. CASE BeginRound1(p, stored) BY <1>3, <2>1, <2>6, <3>3, BeginStep
    <3>4. CASE \E e \in plan.heard \cup broadcast : EndorseRound1(p, e, stored)
      BY <1>3, <2>1, <2>6, <3>4, EndorseStep
    <3>5. CASE \E e \in plan.certificates \cup broadcast : AcceptCertificate(p, e, stored)
      BY <1>3, <2>1, <2>6, <3>5, AcceptCertificateStep
    <3>6. CASE AdvanceRound2(p, stored) BY <1>3, <2>1, <2>6, <3>6, AdvanceStep
    <3>7. CASE \E e \in plan.incoming : AcceptRound2(p, e, stored)
      BY <1>3, <2>1, <2>6, <3>7, AcceptRound2Step
    <3>8. CASE FinalizeIntent(p, stored) BY <1>3, <2>1, <2>6, <3>8, FinalizeIntentStep
    <3>9. CASE FinalizeResult(p, stored) BY <1>3, <2>1, <2>6, <3>9, FinalizeResultStep
    <3> QED BY <2>6, <3>1, <3>2, <3>3, <3>4, <3>5, <3>6, <3>7, <3>8, <3>9 DEF Call
  <2> QED BY <1>3, <2>2, <2>3, <2>4, <2>5, <2>6 DEF Step
<1> QED BY <1>1, <1>2, <1>3 DEF Next

LEMMA InvariantHolds == Spec => []IInv
BY InitInvariant, NextInvariant, PTL DEF Spec

\* Through failed writes, crashes and processes that race on the journal,
\* whatever left the validator is in its journal (begin_round1, endorse_round1,
\* advance_round2, commit).
THEOREM JournalPrecedesNetwork == Spec => []NothingLeavesUnrecorded
<1>1. IInv => NothingLeavesUnrecorded
  <2> SUFFICES ASSUME IInv PROVE NothingLeavesUnrecorded OBVIOUS
  <2>1. TypeOK BY DEF IInv, Typed, Holding, Records, TypeOK
  <2>2. NoFork BY DEF IInv
  <2>3. /\ \A e \in broadcast : journal.local = e.payload
        /\ \A e \in endorsed : journal.checkpoint.guard[e.sender] = e
        /\ \A m \in shared : journal.outgoing = m /\ journal.local = m
    BY DEF IInv, OnRecord
  <2> QED BY <2>1, <2>2, <2>3 DEF NothingLeavesUnrecorded
<1> QED BY <1>1, InvariantHolds, PTL

\* A completed ceremony holds the key of the transcript that was certified, and
\* shares that verify against it (accept_round1_certificate, advance_round2,
\* finalize).
THEOREM CompletesAsCertified == Spec => []CompletionIsCertified
<1>1. IInv => CompletionIsCertified BY DEF IInv
<1> QED BY <1>1, InvariantHolds, PTL

=============================================================================
