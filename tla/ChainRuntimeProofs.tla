------------------------- MODULE ChainRuntimeProofs -------------------------
(***************************************************************************)
(* Proofs about ChainRuntime for every set of validators, every quorum and *)
(* threshold, every set of transactions and every bound.                   *)
(*                                                                         *)
(* The first part says what the engine's operators do to the shape of a    *)
(* state and to its batches (AnchorEffect .. FinalizeEffect).  The second  *)
(* states the inductive invariant Inv, shows that every action keeps it    *)
(* and ends in six theorems about replication.  The third does the same    *)
(* for accounts, bonds, nonces and events (Sound), with the laws of sums   *)
(* over finite sets that it needs.                                         *)
(***************************************************************************)
EXTENDS ChainRuntime, FiniteSetTheorems, WellFoundedInduction, TLAPS

\* The chain and the ledger are sequences, of whatever elements.

IsSeq(x) == x \in Seq({x[i] : i \in 1..Len(x)})

\* Appending keeps the prefix and adds one element.
LEMMA AppendIsSeq ==
    ASSUME NEW x, IsSeq(x), NEW e
    PROVE  /\ IsSeq(Append(x, e))
           /\ Len(x) \in Nat
           /\ Len(Append(x, e)) = Len(x) + 1
           /\ \A i \in 1..Len(x) : Append(x, e)[i] = x[i]
           /\ Append(x, e)[Len(x) + 1] = e
<1> DEFINE S == {x[i] : i \in 1..Len(x)} \cup {e}
<1>1. x \in Seq(S)
  BY DEF IsSeq
<1>2. Append(x, e) \in Seq(S) /\ Len(Append(x, e)) = Len(x) + 1 /\ Len(x) \in Nat
  BY <1>1
<1>3. \A i \in 1..Len(x) : Append(x, e)[i] = x[i]
  BY <1>1
<1>4. Append(x, e)[Len(x) + 1] = e
  BY <1>1
<1>5. IsSeq(Append(x, e))
  <2> DEFINE y == Append(x, e)
             R == {y[i] : i \in 1..Len(y)}
  <2> HIDE DEF S, y
  <2>0. y \in Seq(S)
    BY <1>2 DEF y
  <2>1. Len(y) \in Nat /\ y \in [1..Len(y) -> S]
    BY <2>0
  <2>2. y \in [1..Len(y) -> R]
    BY <2>1
  <2> HIDE DEF R
  <2>3. y \in Seq(R)
    BY <2>1, <2>2
  <2> QED
    BY <2>3 DEF IsSeq, R, y
<1> QED
  BY <1>2, <1>3, <1>4, <1>5

(***************************************************************************)
(* The shape of an engine state: the fields that a step writes exist.      *)
(***************************************************************************)
IsState(s) ==
    /\ s = [height |-> s.height, nonces |-> s.nonces, collateral |-> s.collateral,
            reserved |-> s.reserved, total_credits |-> s.total_credits,
            fee_vault |-> s.fee_vault, pending |-> s.pending, bonds |-> s.bonds,
            anchors |-> s.anchors, frozen |-> s.frozen, events |-> s.events]
    /\ s.height \in Heights
    /\ s.pending = [b \in Heights |-> s.pending[b]]
    /\ s.bonds = [b \in Heights |-> s.bonds[b]]
    /\ s.anchors = [b \in Heights |-> s.anchors[b]]

\* The genesis state has the shape of a state and no batch.
LEMMA GenesisState == IsState(Genesis) /\ BatchLifecycleOf(Genesis)
BY BoundAssumption DEF IsState, Genesis, Heights, BatchLifecycleOf, NoState

\* A state of the engine is not the absent state.
LEMMA StateIsNotNone == ASSUME NEW s, IsState(s) PROVE s # NoState
BY BoundAssumption DEF IsState, NoState, Heights

\* The first step of finalize_block changes the height and, when the last
\* block queued a batch, that batch's anchor.
LEMMA AnchorEffect ==
    ASSUME NEW s, IsState(s), BatchLifecycleOf(s), s.height + 1 \in Heights
    PROVE  LET h == s.height + 1
               a == AnchorBatch(s, h) IN
           /\ IsState(a)
           /\ a.height = h
           /\ a.pending = s.pending /\ a.bonds = s.bonds /\ a.frozen = s.frozen
           /\ a.reserved = s.reserved
           /\ \A b \in Heights : b # s.height => a.anchors[b] = s.anchors[b]
           /\ s.pending[s.height] # {} => a.anchors[s.height] = AppHash(s)
           /\ s.pending[s.height] = {} => a.anchors[s.height] = s.anchors[s.height]
<1> DEFINE h == s.height + 1
           b == Before(h, 1)
<1>1. b = s.height /\ b \in Heights
  BY BoundAssumption DEF Before, Heights, IsState
<1>2. CASE s.pending[b] # {}
  <2>1. AnchorBatch(s, h) = [s EXCEPT !.height = h, !.anchors[b] = AppHash(s)]
    BY <1>2 DEF AnchorBatch
  <2> QED
    BY <1>1, <1>2, <2>1 DEF IsState
<1>3. CASE s.pending[b] = {}
  <2>1. AnchorBatch(s, h) = [s EXCEPT !.height = h]
    BY <1>3 DEF AnchorBatch
  <2> QED
    BY <1>1, <1>3, <2>1 DEF IsState
<1> QED
  BY <1>2, <1>3

\* Writing one entry of a height-indexed field keeps the shape and the rest.
SetPending(s, b, v) == [s EXCEPT !.pending[b] = v]

\* Writing the orders of one batch changes nothing else.
LEMMA PendingField ==
    ASSUME NEW s, IsState(s), NEW b \in Heights, NEW v
    PROVE  /\ IsState(SetPending(s, b, v))
           /\ SetPending(s, b, v).height = s.height
           /\ SetPending(s, b, v).bonds = s.bonds
           /\ SetPending(s, b, v).anchors = s.anchors
           /\ SetPending(s, b, v).frozen = s.frozen
           /\ SetPending(s, b, v).pending[b] = v
           /\ \A c \in Heights : c # b => SetPending(s, b, v).pending[c] = s.pending[c]
<1> DEFINE q == [s.pending EXCEPT ![b] = v]
           t == [s EXCEPT !.pending = q]
<1>1. /\ q = [c \in Heights |-> q[c]]
      /\ q[b] = v
      /\ \A c \in Heights : c # b => q[c] = s.pending[c]
  BY DEF IsState
<1>2. SetPending(s, b, v) = t
  BY Zenon DEF SetPending
<1> HIDE DEF q
<1>3. /\ IsState(t)
      /\ t.height = s.height /\ t.bonds = s.bonds /\ t.anchors = s.anchors /\ t.frozen = s.frozen
      /\ t.pending = q
  BY <1>1 DEF IsState
<1> HIDE DEF t
<1> QED
  BY <1>1, <1>2, <1>3

SetBonds(s, b, v) == [s EXCEPT !.bonds[b] = v]

\* Writing the bonds of one batch changes nothing else.
LEMMA BondsField ==
    ASSUME NEW s, IsState(s), NEW b \in Heights, NEW v
    PROVE  /\ IsState(SetBonds(s, b, v))
           /\ SetBonds(s, b, v).height = s.height
           /\ SetBonds(s, b, v).pending = s.pending
           /\ SetBonds(s, b, v).anchors = s.anchors
           /\ SetBonds(s, b, v).frozen = s.frozen
           /\ SetBonds(s, b, v).bonds[b] = v
           /\ \A c \in Heights : c # b => SetBonds(s, b, v).bonds[c] = s.bonds[c]
<1> DEFINE q == [s.bonds EXCEPT ![b] = v]
           t == [s EXCEPT !.bonds = q]
<1>1. /\ q = [c \in Heights |-> q[c]]
      /\ q[b] = v
      /\ \A c \in Heights : c # b => q[c] = s.bonds[c]
  BY DEF IsState
<1>2. SetBonds(s, b, v) = t
  BY Zenon DEF SetBonds
<1> HIDE DEF q
<1>3. /\ IsState(t)
      /\ t.height = s.height /\ t.pending = s.pending /\ t.anchors = s.anchors /\ t.frozen = s.frozen
      /\ t.bonds = q
  BY <1>1 DEF IsState
<1> HIDE DEF t
<1> QED
  BY <1>1, <1>2, <1>3

SetAnchors(s, b, v) == [s EXCEPT !.anchors[b] = v]

\* Writing the anchor of one batch changes nothing else.
LEMMA AnchorsField ==
    ASSUME NEW s, IsState(s), NEW b \in Heights, NEW v
    PROVE  /\ IsState(SetAnchors(s, b, v))
           /\ SetAnchors(s, b, v).height = s.height
           /\ SetAnchors(s, b, v).pending = s.pending
           /\ SetAnchors(s, b, v).bonds = s.bonds
           /\ SetAnchors(s, b, v).frozen = s.frozen
           /\ SetAnchors(s, b, v).anchors[b] = v
           /\ \A c \in Heights : c # b => SetAnchors(s, b, v).anchors[c] = s.anchors[c]
<1> DEFINE q == [s.anchors EXCEPT ![b] = v]
           t == [s EXCEPT !.anchors = q]
<1>1. /\ q = [c \in Heights |-> q[c]]
      /\ q[b] = v
      /\ \A c \in Heights : c # b => q[c] = s.anchors[c]
  BY DEF IsState
<1>2. SetAnchors(s, b, v) = t
  BY Zenon DEF SetAnchors
<1> HIDE DEF q
<1>3. /\ IsState(t)
      /\ t.height = s.height /\ t.pending = s.pending /\ t.bonds = s.bonds /\ t.frozen = s.frozen
      /\ t.anchors = q
  BY <1>1 DEF IsState
<1> HIDE DEF t
<1> QED
  BY <1>1, <1>2, <1>3

\* Settling a batch takes its orders, bonds, anchor and snapshot away and
\* leaves every other batch alone.
LEMMA BundleEffect ==
    ASSUME NEW s, IsState(s), NEW x, NEW b \in Heights, x.batch = b
    PROVE  LET t == ExecuteBundle(s, x) IN
           /\ IsState(t)
           /\ t.height = s.height
           /\ t.pending[b] = {} /\ t.anchors[b] = NoState /\ t.frozen = s.frozen \ {b}
           /\ \A c \in Heights : c # b => /\ t.pending[c] = s.pending[c]
                                          /\ t.anchors[c] = s.anchors[c]
<1> DEFINE e == Record(s.events, [kind |-> "settled", batch |-> b])
           left == [a \in Signers |-> s.reserved[a] - s.bonds[b][a]]
           zero == [a \in Signers |-> 0]
           s0 == [s EXCEPT !.reserved = left]
           s1 == SetPending(s0, b, {})
           s2 == SetBonds(s1, b, zero)
           s3 == SetAnchors(s2, b, NoState)
           rest == s.frozen \ {b}
           s4 == [s3 EXCEPT !.frozen = rest]
           s5 == [s4 EXCEPT !.events = e]
<1>0. ExecuteBundle(s, x) = s5
  BY Zenon DEF ExecuteBundle, SetPending, SetBonds, SetAnchors
<1> HIDE DEF e, left, zero, rest
<1>12. /\ IsState(s0) /\ s0.height = s.height /\ s0.frozen = s.frozen
      /\ s0.pending = s.pending /\ s0.anchors = s.anchors
  BY DEF IsState
<1> HIDE DEF s0
<1>1. /\ IsState(s1) /\ s1.height = s.height /\ s1.frozen = s.frozen
      /\ s1.pending[b] = {} /\ s1.anchors = s.anchors
      /\ \A c \in Heights : c # b => s1.pending[c] = s.pending[c]
  BY <1>12, PendingField
<1> HIDE DEF s1
<1>2. /\ IsState(s2) /\ s2.height = s1.height /\ s2.frozen = s1.frozen
      /\ s2.pending = s1.pending /\ s2.anchors = s1.anchors
  BY <1>1, BondsField
<1> HIDE DEF s2
<1>3. /\ IsState(s3) /\ s3.height = s2.height /\ s3.frozen = s2.frozen
      /\ s3.pending = s2.pending /\ s3.anchors[b] = NoState
      /\ \A c \in Heights : c # b => s3.anchors[c] = s2.anchors[c]
  BY <1>2, AnchorsField
<1> HIDE DEF s3
<1>4. /\ IsState(s4) /\ s4.height = s3.height /\ s4.frozen = rest
      /\ s4.pending = s3.pending /\ s4.anchors = s3.anchors
  BY <1>3 DEF IsState
<1> HIDE DEF s4
<1>5. /\ IsState(s5) /\ s5.height = s4.height /\ s5.frozen = s4.frozen
      /\ s5.pending = s4.pending /\ s5.anchors = s4.anchors
  BY <1>4 DEF IsState
<1> HIDE DEF s5
<1> QED
  BY <1>0, <1>1, <1>2, <1>3, <1>4, <1>5 DEF rest

\* Signed transactions only write the batch of their own height.
LEMMA TxsEffect ==
    ASSUME NEW s, IsState(s), NEW txs, NEW h \in Heights,
           NEW t, t = ExecuteTxs(s, txs, h)
    PROVE  /\ IsState(t)
           /\ t.height = s.height /\ t.anchors = s.anchors /\ t.frozen = s.frozen
           /\ \A b \in Heights : b # h => t.pending[b] = s.pending[b]
<1> DEFINE after == CHOOSE f : f = [i \in 0..Len(txs) |->
                        IF i = 0 THEN s ELSE TryTx(f[i - 1], txs[i], h)]
           end == after[Len(txs)]
           w == [height |-> s.height, nonces |-> end.nonces,
                 collateral |-> end.collateral, reserved |-> end.reserved,
                 total_credits |-> end.total_credits, fee_vault |-> end.fee_vault,
                 pending |-> [s.pending EXCEPT ![h] = end.pending[h]],
                 bonds |-> [s.bonds EXCEPT ![h] = end.bonds[h]],
                 anchors |-> s.anchors, frozen |-> s.frozen, events |-> end.events]
<1>1. t =
        [s EXCEPT !.nonces = end.nonces, !.events = end.events,
                  !.collateral = end.collateral, !.reserved = end.reserved,
                  !.total_credits = end.total_credits, !.fee_vault = end.fee_vault,
                  !.pending[h] = end.pending[h], !.bonds[h] = end.bonds[h]]
  BY DEF ExecuteTxs
<1> HIDE DEF end
<1>2. t = w
  BY <1>1 DEF IsState
<1> QED
  BY <1>2 DEF IsState

\* The snapshot of the block's own batch is taken exactly when it has orders.
LEMMA FreezeEffect ==
    ASSUME NEW s, IsState(s), NEW h \in Heights, NEW t, t = FreezeBatch(s, h)
    PROVE  /\ IsState(t)
           /\ t.height = s.height /\ t.anchors = s.anchors /\ t.pending = s.pending
           /\ t.frozen = IF s.pending[h] = {} THEN s.frozen ELSE s.frozen \cup {h}
BY DEF FreezeBatch, IsState

-----------------------------------------------------------------------------
(***************************************************************************)
(* One block: what FinalizeBlock makes of a state that satisfies the batch *)
(* life cycle, given that the mandatory bundle executes.                   *)
(***************************************************************************)

\* Batches older than the parent's are gone, the parent's is anchored to the
\* parent's root, and no younger batch exists.
DueBatchSettled(s, m, h) ==
    /\ IsState(m)
    /\ m.height = h
    /\ \A b \in Heights : b < s.height => /\ m.pending[b] = {}
                                          /\ m.anchors[b] = NoState
                                          /\ b \notin m.frozen
    /\ \A b \in Heights : b >= s.height => /\ m.pending[b] = s.pending[b]
                                           /\ b \in m.frozen <=> b \in s.frozen
    /\ \A b \in Heights : b > s.height => m.anchors[b] = NoState
    /\ s.pending[s.height] # {} => m.anchors[s.height] = AppHash(s)
    /\ s.pending[s.height] = {} => m.anchors[s.height] = NoState

\* After the mandatory bundle only the batch of the previous height is left.
LEMMA AfterBundleEffect ==
    ASSUME NEW s, IsState(s), BatchLifecycleOf(s), NEW h, h = s.height + 1,
           h \in Heights, NEW block,
           BatchIsDue(s, h) => OpensWithBundle(AnchorBatch(s, h), block, h),
           NEW m, m = AfterBundle(s, AnchorBatch(s, h), block, h)
    PROVE  DueBatchSettled(s, m, h)
<1> DEFINE a == AnchorBatch(s, h)
           d == DueBatch(h)
<1>1. /\ IsState(a) /\ a.height = h
      /\ a.pending = s.pending /\ a.frozen = s.frozen
      /\ \A b \in Heights : b # s.height => a.anchors[b] = s.anchors[b]
      /\ s.pending[s.height] # {} => a.anchors[s.height] = AppHash(s)
      /\ s.pending[s.height] = {} => a.anchors[s.height] = s.anchors[s.height]
  BY AnchorEffect
<1>2. /\ s.height \in Nat /\ h \in Nat
      /\ d \in Heights
      /\ d = s.height - 1 \/ (d = 0 /\ s.height <= 1)
  BY BoundAssumption DEF IsState, Heights, DueBatch, DelayBlocks, Before
<1>3. \A b \in Heights :
        /\ s.pending[b] # {} => b \in {s.height - 1, s.height} /\ b > 0
        /\ b \in s.frozen <=> s.pending[b] # {}
        /\ s.anchors[b] # NoState <=> (s.pending[b] # {} /\ b < s.height)
  BY DEF BatchLifecycleOf
<1>4. \A b \in Heights : b < s.height /\ b # d => s.pending[b] = {}
  BY <1>2, <1>3 DEF Heights
<1>5. CASE BatchIsDue(s, h)
  <2>1. s.pending[d] # {} /\ d = s.height - 1 /\ d < s.height
    BY <1>2, <1>3, <1>5 DEF BatchIsDue
  <2>2. /\ block[1].batch \in Heights /\ block[1].batch + 2 = h
    BY <1>5 DEF OpensWithBundle, BundleExecutes, DelayBlocks
  <2>3. block[1].batch = d
    BY <2>1, <2>2, <1>2 DEF Heights
  <2>4. m = ExecuteBundle(a, block[1])
    BY <1>5 DEF AfterBundle
  <2> HIDE DEF a, d
  <2>5. /\ IsState(m) /\ m.height = a.height
        /\ m.pending[d] = {} /\ m.anchors[d] = NoState /\ m.frozen = a.frozen \ {d}
        /\ \A c \in Heights : c # d => /\ m.pending[c] = a.pending[c]
                                       /\ m.anchors[c] = a.anchors[c]
    BY <1>1, <1>2, <2>3, <2>4, BundleEffect
  <2>6. ASSUME NEW b \in Heights, b < s.height
        PROVE  m.pending[b] = {} /\ m.anchors[b] = NoState /\ b \notin m.frozen
    BY <1>1, <1>2, <1>3, <1>4, <2>1, <2>5, <2>6 DEF Heights
  <2>7. ASSUME NEW b \in Heights, b >= s.height
        PROVE  m.pending[b] = s.pending[b] /\ (b \in m.frozen <=> b \in s.frozen)
    BY <1>1, <1>2, <2>1, <2>5, <2>7 DEF Heights
  <2>8. ASSUME NEW b \in Heights, b > s.height
        PROVE  m.anchors[b] = NoState
    BY <1>1, <1>2, <1>3, <2>1, <2>5, <2>8 DEF Heights
  <2>9. /\ s.height \in Heights /\ s.height # d /\ m.anchors[s.height] = a.anchors[s.height]
    BY <1>2, <2>1, <2>5 DEF IsState, Heights
  <2> QED
    BY <1>1, <1>3, <2>5, <2>6, <2>7, <2>8, <2>9 DEF Heights, DueBatchSettled
<1>6. CASE ~BatchIsDue(s, h)
  <2>1. m = a /\ s.pending[d] = {}
    BY <1>6 DEF AfterBundle, BatchIsDue
  <2> HIDE DEF a, d
  <2>2. \A b \in Heights : b < s.height => s.pending[b] = {}
    BY <1>4, <2>1
  <2>3. s.height \in Heights
    BY DEF IsState
  <2> QED
    BY <1>1, <1>2, <1>3, <2>1, <2>2, <2>3 DEF Heights, DueBatchSettled
<1> QED
  BY <1>5, <1>6

\* What a finalized state keeps of the state before it.
FinalizedFrom(s, t, h) ==
    /\ IsState(t)
    /\ t.height = h
    /\ BatchLifecycleOf(t)
    /\ t.pending[s.height] = s.pending[s.height]
    /\ \A b \in Heights : t.anchors[b] # NoState =>
                             b = s.height /\ t.anchors[b] = AppHash(s)

\* What finalize_block makes of a state with the batch life cycle: one with
\* the batch life cycle, one block higher.
LEMMA FinalizeEffect ==
    ASSUME NEW s, IsState(s), BatchLifecycleOf(s), NEW h, h = s.height + 1,
           h \in Heights, NEW block,
           BatchIsDue(s, h) => OpensWithBundle(AnchorBatch(s, h), block, h),
           NEW t, t = FinalizeState(s, block, h)
    PROVE  /\ FinalizedFrom(s, t, h)
           /\ h \notin Executed(s, block, h).frozen
<1> DEFINE m == AfterBundle(s, AnchorBatch(s, h), block, h)
           u == Executed(s, block, h)
           txs == Body(s, block, h)
<1>0. m = AfterBundle(s, AnchorBatch(s, h), block, h)
  OBVIOUS
<1>2. u = ExecuteTxs(m, txs, h)
  BY DEF Executed
<1> HIDE DEF m, txs
<1> HIDE DEF u
<1>12. DueBatchSettled(s, m, h)
  BY <1>0, AfterBundleEffect, Zenon
<1>1. /\ IsState(m)
      /\ m.height = h
      /\ \A b \in Heights : b < s.height => /\ m.pending[b] = {}
                                            /\ m.anchors[b] = NoState
                                            /\ b \notin m.frozen
      /\ \A b \in Heights : b >= s.height => /\ m.pending[b] = s.pending[b]
                                             /\ b \in m.frozen <=> b \in s.frozen
      /\ \A b \in Heights : b > s.height => m.anchors[b] = NoState
      /\ s.pending[s.height] # {} => m.anchors[s.height] = AppHash(s)
      /\ s.pending[s.height] = {} => m.anchors[s.height] = NoState
  BY <1>12 DEF DueBatchSettled
<1>3. t = FreezeBatch(u, h)
  BY DEF FinalizeState, u
<1> HIDE DEF u
<1>4. /\ IsState(u)
      /\ u.height = m.height /\ u.anchors = m.anchors /\ u.frozen = m.frozen
      /\ \A b \in Heights : b # h => u.pending[b] = m.pending[b]
  BY <1>1, <1>2, TxsEffect
<1>5. /\ IsState(t)
      /\ t.height = u.height /\ t.anchors = u.anchors /\ t.pending = u.pending
      /\ t.frozen = IF u.pending[h] = {} THEN u.frozen ELSE u.frozen \cup {h}
  BY <1>3, <1>4, FreezeEffect
<1>6. /\ s.height \in Heights /\ s.height \in Nat /\ h \in Nat /\ h > 0
      /\ s.pending[h] = {} /\ h \notin s.frozen
      /\ s.pending[s.height] # {} => s.height > 0
      /\ \A b \in Heights : /\ b > s.height => s.pending[b] = {} /\ b \notin s.frozen
                            /\ b \in s.frozen <=> s.pending[b] # {}
  <2>1. s.height \in Heights /\ s.height \in Nat /\ h \in Nat /\ h > s.height
    BY BoundAssumption DEF IsState, Heights
  <2>2. \A b \in Heights : b > s.height => s.pending[b] = {} /\ b \notin s.frozen
    BY <2>1 DEF Heights, BatchLifecycleOf
  <2>3. \A b \in Heights : b \in s.frozen <=> s.pending[b] # {}
    BY DEF BatchLifecycleOf
  <2>4. s.pending[s.height] # {} => s.height > 0
    BY <2>1 DEF BatchLifecycleOf
  <2>5. s.pending[h] = {} /\ h \notin s.frozen
    BY <2>1, <2>2
  <2>6. h > 0
    BY <2>1
  <2> QED
    BY <2>1, <2>2, <2>3, <2>4, <2>5, <2>6
<1>7. AppHash(s) # NoState
  BY StateIsNotNone DEF AppHash
<1>8. h \notin u.frozen
  BY <1>1, <1>4, <1>6
<1>9. BatchLifecycleOf(t)
  <2> SUFFICES ASSUME NEW b \in Heights
               PROVE  /\ t.pending[b] # {} => b \in {t.height - 1, t.height} /\ b > 0
                      /\ b \in t.frozen <=> t.pending[b] # {}
                      /\ t.anchors[b] # NoState <=> (t.pending[b] # {} /\ b < t.height)
    BY DEF BatchLifecycleOf
  <2>1. b \in Nat /\ t.height = h
    BY <1>1, <1>4, <1>5 DEF Heights
  <2>2. CASE b < s.height
    BY <1>1, <1>4, <1>5, <1>6, <2>1, <2>2
  <2>3. CASE b = s.height
    BY <1>1, <1>4, <1>5, <1>6, <1>7, <2>1, <2>3
  <2>4. CASE b = h
    BY <1>1, <1>4, <1>5, <1>6, <1>8, <2>1, <2>4
  <2>5. CASE b > h
    BY <1>1, <1>4, <1>5, <1>6, <2>1, <2>5
  <2> QED
    BY <2>1, <2>2, <2>3, <2>4, <2>5, <1>6
<1>10. t.pending[s.height] = s.pending[s.height]
  BY <1>1, <1>4, <1>5, <1>6
<1>11. \A b \in Heights : t.anchors[b] # NoState => b = s.height /\ t.anchors[b] = AppHash(s)
  BY <1>1, <1>4, <1>5, <1>6 DEF Heights
<1> QED
  BY <1>1, <1>4, <1>5, <1>8, <1>9, <1>10, <1>11 DEF u, FinalizedFrom
-----------------------------------------------------------------------------
(***************************************************************************)
(* The inductive invariant.  The chain part says that every decided block  *)
(* finalizes on the state before it and what its state then looks like;    *)
(* the replica part that nothing but ledger states is ever in memory or on *)
(* disk.  Agreement and BatchLifecycle are not inductive without them: a   *)
(* replica re-executes old blocks from an old state.                       *)
(***************************************************************************)
ChainInv ==
    /\ IsSeq(chain) /\ IsSeq(ledger)
    /\ Len(chain) <= MaxHeight
    /\ Len(ledger) = Len(chain) + 1
    /\ ledger[1] = Genesis

LedgerInv ==
    /\ \A i \in 1..Len(ledger) : /\ IsState(ledger[i])
                                 /\ ledger[i].height = i - 1
                                 /\ BatchLifecycleOf(ledger[i])
    /\ \A i \in 1..Len(chain) : ledger[i + 1] = FinalizeState(ledger[i], chain[i], i)

ReplicaInv ==
    /\ up \in [Correct -> BOOLEAN]
    /\ committed = [r \in Correct |-> committed[r]]
    /\ pending = [r \in Correct |-> pending[r]]
    /\ disk = [r \in Correct |-> disk[r]]
    /\ published \in [Correct -> Nat]
    /\ crashes \in 0..MaxCrashes
    /\ \A r \in Correct :
         /\ IsLedgerState(disk[r]) /\ IsLedgerState(committed[r]) /\ IsLedgerState(pending[r])
         /\ up[r] => committed[r] = disk[r]
         /\ ~up[r] => committed[r] = NoState /\ pending[r] = NoState
         /\ pending[r] # NoState => /\ committed[r] # NoState
                                    /\ pending[r].height = committed[r].height + 1
         /\ published[r] > 0 => published[r] <= disk[r].height

Inv ==
    /\ ChainInv
    /\ LedgerInv
    /\ DOMAIN votes \subseteq Validators
    /\ ReplicaInv
    /\ DecidedBlocksFinalize
    /\ AnchorIsBatchRoot
    /\ DueBatchCanBeOpened

\* A ledger state that is not NoState has a height on the chain.
LEMMA LedgerStateHeight ==
    ASSUME ChainInv, LedgerInv, NEW s, IsLedgerState(s)
    PROVE  /\ s.height \in -1..Len(chain)
           /\ s # NoState => /\ s.height \in 0..Len(chain)
                             /\ s = ledger[s.height + 1]
           /\ s = NoState => s.height = -1
<1>1. Len(chain) \in Nat
  BY DEF ChainInv, IsSeq
<1> QED
  BY <1>1 DEF IsLedgerState, NoState

\* The invariant holds initially.
LEMMA InitInv == Init => Inv
<1> SUFFICES ASSUME Init PROVE Inv
  OBVIOUS
<1>1. /\ chain = <<>> /\ ledger = <<Genesis>> /\ Len(chain) = 0 /\ Len(ledger) = 1
      /\ ledger[1] = Genesis
  BY DEF Init
<1>2. ChainInv
  BY <1>1, BoundAssumption DEF ChainInv, IsSeq
<1>3. LedgerInv
  <2>1. Genesis.height = 0
    BY DEF Genesis
  <2> QED
    BY <1>1, <2>1, GenesisState DEF LedgerInv
<1>4. DOMAIN votes \subseteq Validators
  BY DEF Init
<1>5. ReplicaInv
  <2>1. NoState \in {NoState} /\ \A s : s = NoState => IsLedgerState(s)
    BY DEF IsLedgerState
  <2> QED
    BY <2>1, BoundAssumption DEF Init, ReplicaInv
<1>6. DecidedBlocksFinalize
  BY <1>1 DEF DecidedBlocksFinalize
<1>7. AnchorIsBatchRoot
  <2>1. \A b \in Heights : Genesis.anchors[b] = NoState
    BY DEF Genesis
  <2> QED
    BY <1>1, <2>1 DEF AnchorIsBatchRoot
<1>8. DueBatchCanBeOpened
  <2>1. DueBatch(1) = 0 /\ 0 \in Heights /\ \A b \in Heights : Genesis.pending[b] = {}
    BY BoundAssumption DEF Genesis, DueBatch, Before, DelayBlocks, Heights
  <2>2. ~BatchIsDue(Tip, Len(chain) + 1)
    BY <1>1, <2>1 DEF BatchIsDue, Tip
  <2> QED
    BY <2>2 DEF DueBatchCanBeOpened
<1> QED
  BY <1>2, <1>3, <1>4, <1>5, <1>6, <1>7, <1>8 DEF Inv

-----------------------------------------------------------------------------
(***************************************************************************)
(* Deciding a block.                                                       *)
(***************************************************************************)

\* The checks of a bundle read its own batch, and of the anchors only that one's.
LEMMA BundleKept ==
    ASSUME NEW s, NEW t, NEW bundle, NEW h,
           t.pending = s.pending, t.bonds = s.bonds, t.frozen = s.frozen,
           t.reserved = s.reserved, t.anchors[bundle.batch] = s.anchors[bundle.batch],
           BundleExecutes(s, bundle, h)
    PROVE  BundleExecutes(t, bundle, h)
<1>1. Bonded(t, bundle.batch) = Bonded(s, bundle.batch)
  BY DEF Bonded
<1>2. \A e \in bundle.shares :
         ExtensionValid(e, t, bundle.batch, t.anchors[bundle.batch])
  BY DEF BundleExecutes, ExtensionValid
<1>3. /\ t.anchors[bundle.batch] # NoState /\ bundle.app_hash = t.anchors[bundle.batch]
      /\ t.pending[bundle.batch] # {} /\ bundle.batch \in t.frozen
      /\ bundle.orders = t.pending[bundle.batch]
      /\ Cardinality(Bonded(t, bundle.batch)) = Cardinality(t.pending[bundle.batch])
  BY <1>1 DEF BundleExecutes
<1>4. /\ bundle.batch \in Heights /\ bundle.batch + DelayBlocks = h
      /\ Cardinality(bundle.shares) = Threshold
      /\ \A e, f \in bundle.shares : e.validator = f.validator => e = f
  BY DEF BundleExecutes
<1>5. \A tx \in t.pending[bundle.batch] :
         /\ t.bonds[bundle.batch][tx.signer] >= MinBond
         /\ t.reserved[tx.signer] >= t.bonds[bundle.batch][tx.signer]
         /\ tx.settles
  BY DEF BundleExecutes
<1> QED
  BY <1>2, <1>3, <1>4, <1>5, Zenon DEF BundleExecutes

\* A block that ProcessProposal accepts, FinalizeBlock executes: the anchor
\* that FinalizeBlock writes first is not the one the bundle is checked with.
LEMMA AcceptedFinalizes ==
    ASSUME NEW s, IsState(s), BatchLifecycleOf(s), NEW h, h = s.height + 1,
           h \in Heights, NEW block, ProcessProposal(s, block, h)
    PROVE  FinalizeSucceeds(s, block, h)
<1> DEFINE a == AnchorBatch(s, h)
           w == [s EXCEPT !.height = h]
<1>1. /\ a.pending = s.pending /\ a.bonds = s.bonds /\ a.frozen = s.frozen
      /\ a.reserved = s.reserved
      /\ \A b \in Heights : b # s.height => a.anchors[b] = s.anchors[b]
  BY AnchorEffect
<1>2. /\ w.pending = s.pending /\ w.bonds = s.bonds /\ w.frozen = s.frozen
      /\ w.anchors = s.anchors /\ w.reserved = s.reserved
  BY DEF IsState
<1>3. BatchIsDue(s, h) => OpensWithBundle(w, block, h)
  BY DEF ProcessProposal
<1>4. NoSystemTx(Body(s, block, h))
  BY DEF ProcessProposal
<1>5. s.height \in Heights /\ s.height \in Nat /\ Before(h, 1) = s.height
  BY BoundAssumption DEF IsState, Heights, Before
<1>6. ~AnchorConflicts(s, h)
  BY <1>5 DEF AnchorConflicts, BatchLifecycleOf
<1> HIDE DEF a, w
<1>7. ASSUME BatchIsDue(s, h) PROVE OpensWithBundle(a, block, h)
  <2>1. OpensWithBundle(w, block, h)
    BY <1>3, <1>7
  <2>2. block[1].batch \in Heights /\ block[1].batch # s.height
    BY <2>1, <1>5 DEF OpensWithBundle, BundleExecutes, DelayBlocks, Heights
  <2>3. BundleExecutes(a, block[1], h)
    BY <1>1, <1>2, <2>1, <2>2, BundleKept DEF OpensWithBundle
  <2> QED
    BY <2>1, <2>3 DEF OpensWithBundle
<1>8. h \notin Executed(s, block, h).frozen
  <2>1. BatchIsDue(s, h) => OpensWithBundle(AnchorBatch(s, h), block, h)
    BY <1>7 DEF a
  <2> QED
    BY <2>1, FinalizeEffect
<1> QED
  BY <1>4, <1>6, <1>7, <1>8 DEF FinalizeSucceeds, a

\* Some correct validator accepted a decided block, on the last ledger state.
LEMMA QuorumHasCorrect ==
    ASSUME NEW Q, Q \subseteq Validators, Cardinality(Q) >= Quorum
    PROVE  \E r \in Q : r \in Correct
<1>1. SUFFICES ASSUME Q \subseteq Faulty PROVE FALSE
  BY ValidatorsAssumption DEF Correct
<1>2. IsFiniteSet(Faulty)
  BY ValidatorsAssumption, FS_Subset
<1>3. Cardinality(Q) <= Cardinality(Faulty)
  BY <1>1, <1>2, FS_Subset
<1>4. Cardinality(Q) \in Nat /\ Cardinality(Faulty) \in Nat
  BY <1>1, <1>2, FS_Subset, FS_CardinalityType
<1> QED
  BY <1>3, <1>4, QuorumAssumption

\* DecideBlock appends a block that finalizes on the last ledger state, and
\* the votes of a quorum that were verified against that state.
LEMMA DecideFacts ==
    ASSUME Inv, NEW block, DecideBlock(block), Len(chain) < MaxHeight,
           NEW h, h = Len(chain) + 1, NEW s, s = ledger[h]
    PROVE  /\ FinalizeSucceeds(s, block, h)
           /\ ledger' = Append(ledger, FinalizeState(s, block, h))
           /\ chain' = Append(chain, block)
           /\ UNCHANGED nodeVars
           /\ DOMAIN votes' \subseteq Validators
           /\ \E Q \in SUBSET DOMAIN votes' :
                /\ Cardinality(Q) >= Quorum
                /\ \A v \in Q : VerifyVoteExtension(v, votes'[v], s, h)
<1> DEFINE accepting == {r \in InSync(h) : ProcessProposal(committed[r], block, h)}
<1>1. PICK Q \in SUBSET (accepting \cup Faulty) :
        /\ Cardinality(Q) >= Quorum
        /\ \E L \in SUBSET ((InSync(h) \cup Faulty) \ Q), fe \in FaultyChoices(h) :
             /\ \A r \in Q \ Faulty, v \in Q :
                   VerifyVoteExtension(v, VotesOf(Q, L, fe, h)[v], committed[r], h)
             /\ votes' = VotesOf(Q, L, fe, h)
             /\ ledger' = Append(ledger, FinalizeState(ledger[h], block, h))
  BY DEF DecideBlock
<1>2. PICK L \in SUBSET ((InSync(h) \cup Faulty) \ Q), fe \in FaultyChoices(h) :
             /\ \A r \in Q \ Faulty, v \in Q :
                   VerifyVoteExtension(v, VotesOf(Q, L, fe, h)[v], committed[r], h)
             /\ votes' = VotesOf(Q, L, fe, h)
             /\ ledger' = Append(ledger, FinalizeState(ledger[h], block, h))
  BY <1>1
<1>3. InSync(h) \subseteq Correct /\ Correct \subseteq Validators /\ Faulty \subseteq Validators
  BY ValidatorsAssumption DEF InSync, Correct
<1>4. DOMAIN votes' = Q \cup L
  BY <1>2 DEF VotesOf
<1>5. PICK r \in Q : r \in Correct
  BY <1>1, <1>3, QuorumHasCorrect
<1>6. r \in InSync(h) /\ ProcessProposal(committed[r], block, h) /\ r \in Q \ Faulty
  BY <1>1, <1>5 DEF Correct
<1>7. Len(chain) \in Nat /\ h \in Nat /\ h >= 1 /\ h \in 1..Len(ledger) /\ h \in Heights
  BY BoundAssumption DEF Inv, ChainInv, IsSeq, Heights
<1>8. committed[r] = s
  <2>1. committed[r].height = h - 1 /\ IsLedgerState(committed[r])
    BY <1>5, <1>6 DEF InSync, Inv, ReplicaInv
  <2> QED
    BY <1>7, <2>1 DEF IsLedgerState, NoState
<1>9. IsState(s) /\ s.height = h - 1 /\ BatchLifecycleOf(s)
  BY <1>7 DEF Inv, LedgerInv
<1>10. FinalizeSucceeds(s, block, h)
  <2>1. h = s.height + 1
    BY <1>7, <1>9
  <2> QED
    BY <1>6, <1>7, <1>8, <1>9, <2>1, AcceptedFinalizes
<1>11. \A v \in Q : VerifyVoteExtension(v, votes'[v], s, h)
  BY <1>2, <1>6, <1>8
<1>12. chain' = Append(chain, block) /\ UNCHANGED nodeVars
  BY DEF DecideBlock
<1> QED
  BY <1>1, <1>2, <1>3, <1>4, <1>10, <1>11, <1>12

\* Deciding a block, by a correct or a faulty proposer, keeps the invariant.
LEMMA DecideInv ==
    ASSUME Inv, NEW block, DecideBlock(block), Len(chain) < MaxHeight
    PROVE  Inv'
<1> DEFINE h == Len(chain) + 1
           s == ledger[h]
           t == FinalizeState(s, block, h)
<1>1. /\ FinalizeSucceeds(s, block, h)
      /\ ledger' = Append(ledger, t)
      /\ chain' = Append(chain, block)
      /\ UNCHANGED nodeVars
      /\ DOMAIN votes' \subseteq Validators
      /\ \E Q \in SUBSET DOMAIN votes' :
           /\ Cardinality(Q) >= Quorum
           /\ \A v \in Q : VerifyVoteExtension(v, votes'[v], s, h)
  BY DecideFacts
<1>2. /\ Len(chain) \in Nat /\ h \in Nat /\ h >= 1 /\ h = Len(ledger) /\ h \in Heights
      /\ IsSeq(chain) /\ IsSeq(ledger) /\ h <= MaxHeight
      /\ Before(h, 1) = h - 1 /\ h - 1 \in Heights /\ DueBatch(h + 1) = h - 1
  BY BoundAssumption DEF Inv, ChainInv, IsSeq, Heights, Before, DueBatch, DelayBlocks
<1>3. IsState(s) /\ s.height = h - 1 /\ BatchLifecycleOf(s) /\ h = s.height + 1
  BY <1>2 DEF Inv, LedgerInv
<1> HIDE DEF s, t
<1>4. /\ IsSeq(chain') /\ Len(chain') = h
      /\ \A i \in 1..Len(chain) : chain'[i] = chain[i]
      /\ chain'[h] = block
  BY <1>1, <1>2, AppendIsSeq
<1>5. /\ IsSeq(ledger') /\ Len(ledger') = h + 1
      /\ \A i \in 1..h : ledger'[i] = ledger[i]
      /\ ledger'[h + 1] = t
  BY <1>1, <1>2, AppendIsSeq
<1>6. /\ IsState(t) /\ t.height = h /\ BatchLifecycleOf(t)
      /\ t.pending[h - 1] = s.pending[h - 1]
      /\ \A b \in Heights : t.anchors[b] # NoState => b = h - 1 /\ t.anchors[b] = AppHash(s)
  <2>1. BatchIsDue(s, h) => OpensWithBundle(AnchorBatch(s, h), block, h)
    BY <1>1 DEF FinalizeSucceeds
  <2>2. t = FinalizeState(s, block, h) /\ s.height = h - 1
    BY <1>3 DEF t
  <2> HIDE DEF h
  <2>3. FinalizedFrom(s, t, h)
    BY <1>2, <1>3, <2>1, <2>2, FinalizeEffect, Zenon
  <2> QED
    BY <2>2, <2>3 DEF FinalizedFrom
<1>7. s = ledger[h] /\ t = FinalizeState(s, block, h)
  BY DEF s, t
<1>8. Len(chain) = h - 1 /\ Len(chain') = h
  BY <1>2, <1>4
<1> HIDE DEF h
<1>9. ChainInv'
  BY <1>2, <1>4, <1>5, <1>8 DEF Inv, ChainInv
<1>10. LedgerInv'
  <2>1. ASSUME NEW i \in 1..(h + 1)
        PROVE  /\ IsState(ledger'[i])
               /\ ledger'[i].height = i - 1
               /\ BatchLifecycleOf(ledger'[i])
    BY <1>2, <1>5, <1>6 DEF Inv, LedgerInv
  <2>2. ASSUME NEW i \in 1..h
        PROVE  ledger'[i + 1] = FinalizeState(ledger'[i], chain'[i], i)
    <3>1. CASE i = h
      BY <3>1, <1>2, <1>4, <1>5, <1>7
    <3>2. CASE i # h
      <4>1. i \in 1..Len(chain) /\ i \in 1..h /\ i + 1 \in 1..h
        BY <3>2, <1>2, <1>8
      <4> QED
        BY <4>1, <1>4, <1>5 DEF Inv, LedgerInv
    <3> QED
      BY <3>1, <3>2
  <2> QED
    BY <1>5, <1>8, <2>1, <2>2 DEF LedgerInv
<1>11. ReplicaInv'
  <2>1. ASSUME NEW x, IsLedgerState(x)
        PROVE  x = NoState \/ (x.height \in 0..Len(chain') /\ x = ledger'[x.height + 1])
    <3>1. CASE x = NoState
      BY <3>1
    <3>2. CASE x.height \in 0..Len(chain) /\ x = ledger[x.height + 1]
      <4>1. x.height + 1 \in 1..h /\ x.height \in 0..h
        BY <1>2, <1>8, <3>2
      <4> QED
        BY <1>5, <1>8, <3>2, <4>1
    <3> QED
      BY <2>1, <3>1, <3>2 DEF IsLedgerState
  <2>2. ASSUME NEW r \in Correct
        PROVE  IsLedgerState(disk[r])' /\ IsLedgerState(committed[r])' /\ IsLedgerState(pending[r])'
    <3>1. disk'[r] = disk[r] /\ committed'[r] = committed[r] /\ pending'[r] = pending[r]
      BY <1>1 DEF nodeVars
    <3>2. IsLedgerState(disk[r]) /\ IsLedgerState(committed[r]) /\ IsLedgerState(pending[r])
      BY DEF Inv, ReplicaInv
    <3> QED
      BY <2>1, <3>1, <3>2 DEF IsLedgerState
  <2> QED
    BY <1>1, <2>2 DEF Inv, ReplicaInv, nodeVars
<1>12. DecidedBlocksFinalize'
  BY <1>1, <1>2, <1>4, <1>5, <1>7, <1>8 DEF Inv, DecidedBlocksFinalize
<1>13. AnchorIsBatchRoot'
  <2> SUFFICES ASSUME NEW i \in 1..(h + 1), NEW b \in Heights, ledger'[i].anchors[b] # NoState
               PROVE  b < i /\ ledger'[i].anchors[b] = AppHash(ledger'[b + 1])
    BY <1>5 DEF AnchorIsBatchRoot, AppHash
  <2>1. CASE i = h + 1
    BY <1>2, <1>5, <1>6, <1>7, <2>1
  <2>2. CASE i # h + 1
    <3>1. i \in 1..h /\ i \in 1..Len(ledger) /\ ledger'[i] = ledger[i]
      BY <1>2, <1>5, <2>2
    <3>2. b < i /\ ledger[i].anchors[b] = AppHash(ledger[b + 1])
      BY <3>1 DEF Inv, AnchorIsBatchRoot
    <3>3. b + 1 \in 1..h
      BY <3>1, <3>2, <1>2 DEF Heights
    <3> QED
      BY <1>5, <3>1, <3>2, <3>3
  <2> QED
    BY <2>1, <2>2
<1>14. DueBatchCanBeOpened'
  <2> DEFINE b == h - 1
             V == {v \in DOMAIN votes' :
                     /\ votes'[v] # None
                     /\ votes'[v].validator = v
                     /\ ExtensionValid(votes'[v], t, b, t.anchors[b])}
  <2>1. Tip' = t /\ DueBatch(Len(chain') + 1) = b
    BY <1>2, <1>5, <1>8 DEF Tip
  <2>2. SUFFICES ASSUME t.pending[b] # {} PROVE Cardinality(V) >= Threshold
    BY <2>1 DEF DueBatchCanBeOpened, BatchIsDue
  <2>3. s.pending[b] # {} /\ s.pending[b] = t.pending[b]
    BY <1>6, <2>2
  <2>4. t.anchors[b] = AppHash(s)
    BY <1>2, <1>6, <2>2 DEF BatchLifecycleOf
  <2>5. PICK Q \in SUBSET DOMAIN votes' :
           /\ Cardinality(Q) >= Quorum
           /\ \A v \in Q : VerifyVoteExtension(v, votes'[v], s, h)
    BY <1>1
  <2>6. Q \subseteq V
    BY <2>3, <2>4, <2>5 DEF VerifyVoteExtension, ExtensionValid
  <2>7. V \subseteq Validators /\ IsFiniteSet(Validators)
    BY <1>1, ValidatorsAssumption
  <2> HIDE DEF V
  <2>8. IsFiniteSet(V) /\ IsFiniteSet(Q) /\ Cardinality(Q) <= Cardinality(V)
    BY <2>6, <2>7, FS_Subset
  <2>9. Cardinality(Q) \in Nat /\ Cardinality(V) \in Nat
    BY <2>8, FS_CardinalityType
  <2> QED
    BY <2>5, <2>8, <2>9, QuorumAssumption
<1> QED
  BY <1>1, <1>9, <1>10, <1>11, <1>12, <1>13, <1>14 DEF Inv
-----------------------------------------------------------------------------
(***************************************************************************)
(* The replicas' own steps leave the chain alone.                          *)
(***************************************************************************)
\* A step that leaves the chain variables alone keeps what is said of them.
LEMMA ChainKept ==
    ASSUME Inv, UNCHANGED <<chain, ledger, votes>>, ReplicaInv'
    PROVE  Inv'
<1>1. ChainInv' /\ LedgerInv'
  BY DEF Inv, ChainInv, LedgerInv
<1>2. DecidedBlocksFinalize' /\ AnchorIsBatchRoot'
  BY DEF Inv, DecidedBlocksFinalize, AnchorIsBatchRoot
<1>3. DueBatchCanBeOpened'
  BY DEF Inv, DueBatchCanBeOpened, Tip
<1> QED
  BY <1>1, <1>2, <1>3 DEF Inv

\* The part of ReplicaInv about one replica, to be shown of its next state.
ReplicaOK(u, c, p, d, n) ==
    /\ u \in BOOLEAN /\ n \in Nat
    /\ IsLedgerState(d) /\ IsLedgerState(c) /\ IsLedgerState(p)
    /\ u => c = d
    /\ ~u => c = NoState /\ p = NoState
    /\ p # NoState => c # NoState /\ p.height = c.height + 1
    /\ n > 0 => n <= d.height

\* A step that changes at most the variables of replica r.
LEMMA OneReplica ==
    ASSUME Inv, UNCHANGED <<chain, ledger, votes>>, NEW r \in Correct,
           NEW u, NEW c, NEW p, NEW d, NEW n, ReplicaOK(u, c, p, d, n),
           up' = [up EXCEPT ![r] = u], committed' = [committed EXCEPT ![r] = c],
           pending' = [pending EXCEPT ![r] = p], disk' = [disk EXCEPT ![r] = d],
           published' = [published EXCEPT ![r] = n], crashes' \in 0..MaxCrashes
    PROVE  Inv'
<1>1. ASSUME NEW q \in Correct
      PROVE  ReplicaOK(up'[q], committed'[q], pending'[q], disk'[q], published'[q])
  <2>1. CASE q = r
    BY <2>1 DEF Inv, ReplicaInv
  <2>2. CASE q # r
    BY <2>2 DEF Inv, ReplicaInv, ReplicaOK
  <2> QED
    BY <2>1, <2>2
<1>2. /\ up' \in [Correct -> BOOLEAN]
      /\ committed' = [q \in Correct |-> committed'[q]]
      /\ pending' = [q \in Correct |-> pending'[q]]
      /\ disk' = [q \in Correct |-> disk'[q]]
      /\ published' \in [Correct -> Nat]
  BY DEF Inv, ReplicaInv, ReplicaOK
<1>3. \A x : IsLedgerState(x) => (x = NoState \/ (x.height \in 0..Len(chain') /\ x = ledger'[x.height + 1]))
  BY DEF IsLedgerState
<1>4. ReplicaInv'
  BY <1>1, <1>2, <1>3 DEF ReplicaInv, ReplicaOK, IsLedgerState
<1> QED
  BY <1>4, ChainKept

\* The steps of one replica, its crashes included, keep the invariant.
LEMMA ReplicaStepInv ==
    ASSUME Inv, NEW r \in Correct,
           \/ InitChain(r) \/ FinalizeBlock(r) \/ Commit(r)
           \/ Crash(r) \/ CrashInCommit(r) \/ CrashInInitChain(r) \/ Open(r)
    PROVE  Inv'
<1>1. /\ ReplicaOK(up[r], committed[r], pending[r], disk[r], published[r])
      /\ up = [up EXCEPT ![r] = up[r]] /\ committed = [committed EXCEPT ![r] = committed[r]]
      /\ pending = [pending EXCEPT ![r] = pending[r]] /\ disk = [disk EXCEPT ![r] = disk[r]]
      /\ published = [published EXCEPT ![r] = published[r]]
      /\ crashes \in 0..MaxCrashes
  BY DEF Inv, ReplicaInv, ReplicaOK
<1>2. /\ ChainInv /\ LedgerInv /\ DecidedBlocksFinalize /\ Len(chain) \in Nat
      /\ Len(ledger) = Len(chain) + 1 /\ Len(chain) <= MaxHeight
  BY DEF Inv, ChainInv, IsSeq
<1>3. IsLedgerState(NoState) /\ NoState.height = -1
  BY DEF IsLedgerState, NoState
<1>4. IsLedgerState(Genesis) /\ Genesis # NoState /\ Genesis.height = 0
  <2>1. Genesis.height = 0
    BY DEF Genesis
  <2> QED
    BY <1>2, <2>1, GenesisState, StateIsNotNone DEF IsLedgerState, ChainInv
<1>5. CASE InitChain(r)
  <2>1. ReplicaOK(up[r], Genesis, pending[r], Genesis, published[r])
    BY <1>1, <1>3, <1>4, <1>5 DEF InitChain, ReplicaOK
  <2>2. /\ up' = [up EXCEPT ![r] = up[r]] /\ committed' = [committed EXCEPT ![r] = Genesis]
        /\ pending' = [pending EXCEPT ![r] = pending[r]] /\ disk' = [disk EXCEPT ![r] = Genesis]
        /\ published' = [published EXCEPT ![r] = published[r]]
        /\ UNCHANGED <<chain, ledger, votes>> /\ crashes' \in 0..MaxCrashes
    BY <1>1, <1>5 DEF InitChain
  <2> QED
    BY <2>1, <2>2, OneReplica, Zenon
<1>6. CASE FinalizeBlock(r)
  <2> DEFINE s == committed[r]
             h == s.height + 1
             t == FinalizeState(s, chain[h], h)
  <2>1. s # NoState /\ h <= Len(chain) /\ up[r]
    BY <1>6 DEF FinalizeBlock
  <2>2. s.height \in 0..Len(chain) /\ s = ledger[h]
    BY <1>1, <2>1, <1>2, LedgerStateHeight DEF ReplicaOK
  <2>3. h \in 1..Len(chain) /\ h + 1 \in 1..Len(ledger)
    BY <1>2, <2>1, <2>2
  <2>4. t = ledger[h + 1]
    BY <1>2, <2>2, <2>3 DEF LedgerInv
  <2>5. t.height = h /\ IsState(t)
    BY <1>2, <2>3, <2>4 DEF LedgerInv
  <2>6. pending' = [pending EXCEPT ![r] = t]
    BY <1>6 DEF FinalizeBlock
  <2> HIDE DEF t
  <2>7. IsLedgerState(t) /\ t # NoState
    BY <1>2, <2>3, <2>4, <2>5, StateIsNotNone DEF IsLedgerState
  <2>8. ReplicaOK(up[r], committed[r], t, disk[r], published[r])
    BY <1>1, <2>1, <2>5, <2>7 DEF ReplicaOK
  <2>9. /\ up' = [up EXCEPT ![r] = up[r]] /\ committed' = [committed EXCEPT ![r] = committed[r]]
        /\ pending' = [pending EXCEPT ![r] = t] /\ disk' = [disk EXCEPT ![r] = disk[r]]
        /\ published' = [published EXCEPT ![r] = published[r]]
        /\ UNCHANGED <<chain, ledger, votes>> /\ crashes' \in 0..MaxCrashes
    BY <1>1, <1>6, <2>6 DEF FinalizeBlock
  <2> QED
    BY <2>8, <2>9, OneReplica, Zenon
<1>7. CASE Commit(r)
  <2>1. ReplicaOK(up[r], pending[r], NoState, pending[r], pending[r].height)
    <3>1. pending[r] # NoState /\ up[r]
      BY <1>7 DEF Commit
    <3>2. pending[r].height \in 0..Len(chain)
      BY <1>1, <1>2, <3>1, LedgerStateHeight DEF ReplicaOK
    <3> QED
      BY <1>1, <1>2, <1>3, <3>1, <3>2 DEF ReplicaOK
  <2> QED
    BY <1>1, <1>7, <2>1, OneReplica DEF Commit
<1>8. ASSUME Stop(r), NEW d, IsLedgerState(d), disk' = [disk EXCEPT ![r] = d]
      PROVE  Inv'
  <2>1. ReplicaOK(FALSE, NoState, NoState, d, 0)
    BY <1>3, <1>8 DEF ReplicaOK
  <2>2. crashes' \in 0..MaxCrashes
    BY <1>1, <1>8, BoundAssumption DEF Stop
  <2> QED
    BY <1>8, <2>1, <2>2, OneReplica DEF Stop
<1>9. CASE Crash(r)
  BY <1>1, <1>8, <1>9 DEF Crash, ReplicaOK
<1>10. CASE CrashInCommit(r)
  BY <1>1, <1>8, <1>10 DEF CrashInCommit, ReplicaOK
<1>11. CASE CrashInInitChain(r)
  BY <1>4, <1>8, <1>11 DEF CrashInInitChain
<1>12. CASE Open(r)
  <2>1. ReplicaOK(TRUE, disk[r], pending[r], disk[r], published[r])
    BY <1>1, <1>12 DEF Open, ReplicaOK
  <2>2. /\ up' = [up EXCEPT ![r] = TRUE] /\ committed' = [committed EXCEPT ![r] = disk[r]]
        /\ pending' = [pending EXCEPT ![r] = pending[r]] /\ disk' = [disk EXCEPT ![r] = disk[r]]
        /\ published' = [published EXCEPT ![r] = published[r]]
        /\ UNCHANGED <<chain, ledger, votes>> /\ crashes' \in 0..MaxCrashes
    BY <1>1, <1>12 DEF Open
  <2> QED
    BY <2>1, <2>2, OneReplica, Zenon
<1> QED
  BY <1>5, <1>6, <1>7, <1>9, <1>10, <1>11, <1>12

\* Every step keeps the invariant.
LEMMA NextInv == Inv /\ [Next]_vars => Inv'
<1> SUFFICES ASSUME Inv, [Next]_vars PROVE Inv'
  OBVIOUS
<1>1. CASE HonestRound
  BY <1>1, DecideInv DEF HonestRound
<1>2. CASE FaultyRound
  BY <1>2, DecideInv DEF FaultyRound
<1>3. ASSUME NEW r \in Correct,
             \/ InitChain(r) \/ FinalizeBlock(r) \/ Commit(r)
             \/ Crash(r) \/ CrashInCommit(r) \/ CrashInInitChain(r) \/ Open(r)
      PROVE  Inv'
  BY <1>3, ReplicaStepInv
<1>4. CASE UNCHANGED vars
  <2>1. UNCHANGED <<chain, ledger, votes>> /\ UNCHANGED nodeVars
    BY <1>4 DEF vars, nodeVars
  <2>2. ReplicaInv'
    BY <2>1 DEF Inv, ReplicaInv, IsLedgerState, nodeVars
  <2> QED
    BY <2>1, <2>2, ChainKept
<1> QED
  BY <1>1, <1>2, <1>3, <1>4 DEF Next
-----------------------------------------------------------------------------
(***************************************************************************)
(* The theorems.                                                           *)
(***************************************************************************)
\* The invariant holds in every reachable state.
LEMMA InductiveInvariant == Spec => []Inv
BY InitInv, NextInv, PTL DEF Spec

\* The type invariant of the replicas (the fields of ChainRuntime) and of the
\* chain they follow, for any number of validators, transactions and crashes.
THEOREM TypeCorrect == Spec => []TypeOK
<1>1. Inv => TypeOK
  <2> SUFFICES ASSUME Inv PROVE TypeOK
    OBVIOUS
  <2>1. /\ ChainInv /\ LedgerInv /\ ReplicaInv /\ Len(chain) \in Nat
        /\ DOMAIN votes \subseteq Validators
    BY DEF Inv, ChainInv, IsSeq
  <2>2. ASSUME NEW r \in Correct
        PROVE  /\ disk[r].height \in -1..Len(chain)
               /\ committed[r].height \in -1..Len(chain)
               /\ pending[r].height \in -1..Len(chain)
    BY <2>1, LedgerStateHeight DEF ReplicaInv
  <2>3. ASSUME NEW r \in Correct PROVE published[r] \in 0..Len(chain)
    BY <2>1, <2>2 DEF ReplicaInv
  <2> QED
    BY <2>1, <2>2, <2>3 DEF TypeOK, ChainInv, ReplicaInv
<1> QED
  BY <1>1, InductiveInvariant, PTL

\* Every correct replica holds, in memory, finalized and on disk, only states
\* that the decided blocks define, across crashes between store write and
\* acknowledgement and across repeated FinalizeBlock calls.
THEOREM ReplicasAgree == Spec => []Agreement
<1>1. Inv => Agreement
  BY DEF Inv, ReplicaInv, Agreement
<1> QED
  BY <1>1, InductiveInvariant, PTL

\* finalize_block returns no error for a block that was decided: what a quorum
\* accepted in process_proposal executes on every replica.
THEOREM DecidedFinalize == Spec => []DecidedBlocksFinalize
<1>1. Inv => DecidedBlocksFinalize
  BY DEF Inv
<1> QED
  BY <1>1, InductiveInvariant, PTL

\* A private batch stays for exactly two blocks with its snapshot, is anchored
\* to the root of the block that committed it, and the commit before its
\* settlement carries Threshold valid shares: verify_vote_extension lets no
\* quorum form without them (finalize_block, verify_vote_extension).
THEOREM CommittedBatchesSound == Spec => []BatchesSound
<1>1. Inv => BatchesSound
  BY DEF Inv, LedgerInv, BatchesSound, BatchLifecycle
<1> QED
  BY <1>1, InductiveInvariant, PTL

\* commit broadcasts an event only after the store holds its state.
THEOREM EventsAreDurable == Spec => []PublishedIsDurable
<1>1. Inv => PublishedIsDurable
  BY DEF Inv, ReplicaInv, PublishedIsDurable
<1> QED
  BY <1>1, InductiveInvariant, PTL

\* No step, crash or replay writes an older state over a newer one.
THEOREM StoreIsMonotone == Spec => DiskNeverRegresses
<1>1. Inv /\ [Next]_vars => [\A r \in Correct : disk'[r].height >= disk[r].height]_disk
  <2> SUFFICES ASSUME Inv, [Next]_vars, disk' # disk, NEW r \in Correct
               PROVE  disk'[r].height >= disk[r].height
    OBVIOUS
  <2>1. /\ ChainInv /\ LedgerInv /\ ReplicaInv /\ disk[r].height \in Int
        /\ disk = [q \in Correct |-> disk[q]]
    BY LedgerStateHeight DEF Inv, ReplicaInv, ChainInv, IsSeq
  <2>2. CASE disk'[r] = disk[r]
    BY <2>1, <2>2
  <2>3. ASSUME NEW q \in Correct, pending[q] # NoState, up[q],
               disk' = [disk EXCEPT ![q] = pending[q]]
        PROVE  disk'[r].height >= disk[r].height
    <3>1. CASE q = r
      <4>1. disk'[r] = pending[r] /\ committed[r] = disk[r]
            /\ pending[r].height = committed[r].height + 1
        BY <2>1, <2>3, <3>1 DEF ReplicaInv
      <4> QED
        BY <2>1, <4>1
    <3>2. CASE q # r
      BY <2>1, <2>3, <3>2
    <3> QED
      BY <3>1, <3>2
  <2>4. ASSUME NEW q \in Correct, committed[q] = NoState, up[q],
               disk' = [disk EXCEPT ![q] = Genesis]
        PROVE  disk'[r].height >= disk[r].height
    <3>1. CASE q = r
      <4>1. disk'[r].height = 0 /\ disk[r].height = -1
        BY <2>1, <2>4, <3>1 DEF ReplicaInv, Genesis, NoState
      <4> QED
        BY <4>1
    <3>2. CASE q # r
      BY <2>1, <2>4, <3>2
    <3> QED
      BY <3>1, <3>2
  <2>5. CASE HonestRound \/ FaultyRound
    BY <2>5 DEF HonestRound, FaultyRound, DecideBlock, nodeVars
  <2>6. ASSUME NEW q \in Correct,
               \/ InitChain(q) \/ FinalizeBlock(q) \/ Commit(q)
               \/ Crash(q) \/ CrashInCommit(q) \/ CrashInInitChain(q) \/ Open(q)
        PROVE  disk'[r].height >= disk[r].height
    BY <2>3, <2>4, <2>6 DEF InitChain, FinalizeBlock, Commit, Crash, CrashInCommit,
                            CrashInInitChain, Open, Stop
  <2> QED
    BY <2>5, <2>6 DEF Next, vars
<1> QED
  BY <1>1, InductiveInvariant, PTL DEF Spec, DiskNeverRegresses

-----------------------------------------------------------------------------
(***************************************************************************)
(* What the signed transactions of a block do to the accounts, the bonds   *)
(* and the retained events.  No transaction takes effect twice, and what a *)
(* correct proposer proposes every correct replica accepts.                *)
(*                                                                         *)
(* The first part turns the two recursions of the model into facts about   *)
(* sequences.  The second states the soundness of a ledger state and shows *)
(* that bundles and transactions keep it.  The third is about proposals.   *)
(***************************************************************************)

\* Induction over the naturals, for sets.
LEMMA Induction ==
    ASSUME NEW S, 0 \in S, \A i \in Nat : i \in S => i + 1 \in S
    PROVE  Nat \subseteq S
<1> DEFINE R == OpToRel(<, Nat)
<1> SUFFICES ASSUME Nat \ S # {} PROVE FALSE
  OBVIOUS
<1>1. IsWellFoundedOn(R, Nat)
  BY NatLessThanWellFounded
<1>2. \A i, j \in Nat : i < j => <<i, j>> \in R
  BY DEF OpToRel
<1> HIDE DEF R
<1>3. PICK m \in Nat \ S : \A i \in Nat \ S : ~(<<i, m>> \in R)
  BY <1>1, WFMin
<1>4. m # 0 /\ m - 1 \in Nat /\ m - 1 < m
  BY <1>3
<1>5. m - 1 \in S
  BY <1>2, <1>3, <1>4
<1> QED
  BY <1>3, <1>4, <1>5

\* A set of naturals that is not empty has a least element.
LEMMA LeastElement ==
    ASSUME NEW S \in SUBSET Nat, S # {}
    PROVE  \E m \in S : \A n \in S : m <= n
<1> DEFINE R == OpToRel(<, Nat)
<1>1. IsWellFoundedOn(R, Nat)
  BY NatLessThanWellFounded
<1>2. \A i, j \in Nat : i < j => <<i, j>> \in R
  BY DEF OpToRel
<1> HIDE DEF R
<1>3. PICK m \in S : \A i \in S : ~(<<i, m>> \in R)
  BY <1>1, WFMin
<1>4. ASSUME NEW n \in S PROVE m <= n
  <2>1. ~(n < m)
    BY <1>2, <1>3
  <2> QED
    BY <2>1
<1> QED
  BY <1>4

-----------------------------------------------------------------------------
(***************************************************************************)
(* Executing a sequence of transactions.                                   *)
(***************************************************************************)

\* The states that ExecuteTxs goes through.
RunStep(s, txs, h, f, i) == IF i = 0 THEN s ELSE TryTx(f[i - 1], txs[i], h)
IsRun(f, s, txs, h, n) == f = [i \in 0..n |-> RunStep(s, txs, h, f, i)]

\* The states in between exist as a function, for any number of
\* transactions.
LEMMA RunExists ==
    ASSUME NEW s, NEW txs, NEW h, NEW n \in Nat
    PROVE  \E f : IsRun(f, s, txs, h, n)
<1> DEFINE S == {m \in Nat : \E f : f = [i \in 0..m |-> RunStep(s, txs, h, f, i)]}
<1>1. 0 \in S
  <2> DEFINE f == [i \in 0..0 |-> s]
  <2>1. f = [i \in 0..0 |-> RunStep(s, txs, h, f, i)]
    BY DEF RunStep
  <2> QED
    BY <2>1
<1>2. ASSUME NEW m \in Nat, m \in S PROVE m + 1 \in S
  <2>1. PICK f : f = [i \in 0..m |-> RunStep(s, txs, h, f, i)]
    BY <1>2
  <2> DEFINE g == [i \in 0..m + 1 |->
                     IF i = m + 1 THEN RunStep(s, txs, h, f, m + 1) ELSE f[i]]
  <2>2. ASSUME NEW i \in 0..m + 1 PROVE g[i] = RunStep(s, txs, h, g, i)
    <3>1. CASE i = m + 1
      <4>1. g[i] = RunStep(s, txs, h, f, m + 1) /\ g[m] = f[m]
        BY <3>1
      <4>2. i - 1 = m /\ i # 0
        BY <3>1
      <4> HIDE DEF g
      <4> QED
        BY <3>1, <4>1, <4>2 DEF RunStep
    <3>2. CASE i # m + 1
      <4>1. i \in 0..m /\ g[i] = f[i]
        BY <3>2
      <4>2. f[i] = RunStep(s, txs, h, f, i)
        BY <2>1, <4>1
      <4>3. i # 0 => i - 1 \in 0..m /\ g[i - 1] = f[i - 1]
        BY <4>1
      <4> HIDE DEF g
      <4> QED
        BY <4>1, <4>2, <4>3 DEF RunStep
    <3> QED
      BY <3>1, <3>2
  <2>3. g = [i \in 0..m + 1 |-> RunStep(s, txs, h, g, i)]
    <3>1. g = [i \in 0..m + 1 |-> g[i]]
      OBVIOUS
    <3> HIDE DEF g
    <3> QED
      BY <2>2, <3>1
  <2> HIDE DEF g
  <2> QED
    BY <2>3
<1> HIDE DEF S
<1>3. n \in S
  BY <1>1, <1>2, Induction
<1> QED
  BY <1>3 DEF S, IsRun

\* The state that ExecuteTxs makes from the last state end of its recursion.
Written(s, end, h) ==
    [s EXCEPT !.nonces = end.nonces, !.events = end.events,
              !.collateral = end.collateral, !.reserved = end.reserved,
              !.total_credits = end.total_credits, !.fee_vault = end.fee_vault,
              !.pending[h] = end.pending[h], !.bonds[h] = end.bonds[h]]

\* ExecuteTxs ends in the last of them.
LEMMA RunsThrough ==
    ASSUME NEW s, NEW txs, NEW h, Len(txs) \in Nat
    PROVE  \E f : /\ IsRun(f, s, txs, h, Len(txs))
                  /\ ExecuteTxs(s, txs, h) = Written(s, f[Len(txs)], h)
<1>1. \E f : IsRun(f, s, txs, h, Len(txs))
  BY RunExists
<1> DEFINE F == CHOOSE f : IsRun(f, s, txs, h, Len(txs))
<1>2. IsRun(F, s, txs, h, Len(txs))
  BY <1>1
<1>3. ExecuteTxs(s, txs, h) = Written(s, F[Len(txs)], h)
  BY DEF ExecuteTxs, IsRun, RunStep, Written
<1> QED
  BY <1>2, <1>3

(***************************************************************************)
(* The transactions that PrepareProposal keeps.                            *)
(***************************************************************************)

PickStep(s, h, mempool, room, f, i) ==
    IF i = 0 THEN <<>>
    ELSE IF /\ Len(f[i - 1]) < room
            /\ TxApplies(ExecuteTxs(s, f[i - 1], h), mempool[i], h)
         THEN Append(f[i - 1], mempool[i])
         ELSE f[i - 1]
IsPick(f, s, h, mempool, room, n) == f = [i \in 0..n |-> PickStep(s, h, mempool, room, f, i)]

\* So do the selections that PrepareProposal makes on its way.
LEMMA PickExists ==
    ASSUME NEW s, NEW h, NEW mempool, NEW room, NEW n \in Nat
    PROVE  \E f : IsPick(f, s, h, mempool, room, n)
<1> DEFINE S == {m \in Nat : \E f : f = [i \in 0..m |-> PickStep(s, h, mempool, room, f, i)]}
<1>1. 0 \in S
  <2> DEFINE f == [i \in 0..0 |-> <<>>]
  <2>1. f = [i \in 0..0 |-> PickStep(s, h, mempool, room, f, i)]
    BY DEF PickStep
  <2> QED
    BY <2>1
<1>2. ASSUME NEW m \in Nat, m \in S PROVE m + 1 \in S
  <2>1. PICK f : f = [i \in 0..m |-> PickStep(s, h, mempool, room, f, i)]
    BY <1>2
  <2> DEFINE g == [i \in 0..m + 1 |->
                     IF i = m + 1 THEN PickStep(s, h, mempool, room, f, m + 1) ELSE f[i]]
  <2>2. ASSUME NEW i \in 0..m + 1 PROVE g[i] = PickStep(s, h, mempool, room, g, i)
    <3>1. CASE i = m + 1
      <4>1. g[i] = PickStep(s, h, mempool, room, f, m + 1) /\ g[m] = f[m]
        BY <3>1
      <4>2. i - 1 = m /\ i # 0
        BY <3>1
      <4> HIDE DEF g
      <4> QED
        BY <3>1, <4>1, <4>2 DEF PickStep
    <3>2. CASE i # m + 1
      <4>1. i \in 0..m /\ g[i] = f[i]
        BY <3>2
      <4>2. f[i] = PickStep(s, h, mempool, room, f, i)
        BY <2>1, <4>1
      <4>3. i # 0 => i - 1 \in 0..m /\ g[i - 1] = f[i - 1]
        BY <4>1
      <4> HIDE DEF g
      <4> QED
        BY <4>1, <4>2, <4>3 DEF PickStep
    <3> QED
      BY <3>1, <3>2
  <2>3. g = [i \in 0..m + 1 |-> PickStep(s, h, mempool, room, g, i)]
    <3>1. g = [i \in 0..m + 1 |-> g[i]]
      OBVIOUS
    <3> HIDE DEF g
    <3> QED
      BY <2>2, <3>1
  <2> HIDE DEF g
  <2> QED
    BY <2>3
<1> HIDE DEF S
<1>3. n \in S
  BY <1>1, <1>2, Induction
<1> QED
  BY <1>3 DEF S, IsPick

\* txs are client transactions that apply one after the other.
Applicable(s, txs, h) == txs \in Seq(Txs) /\ AllApply(s, txs, h)

\* Adding a transaction that applies after the others.
LEMMA AppendApplies ==
    ASSUME NEW s, NEW h, NEW txs, Applicable(s, txs, h), NEW tx \in Txs,
           TxApplies(ExecuteTxs(s, txs, h), tx, h)
    PROVE  Applicable(s, Append(txs, tx), h)
<1> DEFINE more == Append(txs, tx)
<1>1. /\ txs \in Seq(Txs) /\ Len(txs) \in Nat
      /\ more \in Seq(Txs) /\ Len(more) = Len(txs) + 1
      /\ more[Len(txs) + 1] = tx
      /\ \A i \in 1..Len(txs) : more[i] = txs[i]
  BY DEF Applicable
<1> HIDE DEF more
<1>2. ASSUME NEW i \in 1..Len(more)
      PROVE  TxApplies(ExecuteTxs(s, SubSeq(more, 1, i - 1), h), more[i], h)
  <2>1. i - 1 \in 0..Len(txs)
    BY <1>1
  <2>2. SubSeq(more, 1, i - 1) = SubSeq(txs, 1, i - 1)
    BY <1>1, <2>1
  <2>3. CASE i = Len(txs) + 1
    <3>1. SubSeq(txs, 1, i - 1) = txs
      BY <1>1, <2>3
    <3> QED
      BY <1>1, <2>2, <2>3, <3>1
  <2>4. CASE i # Len(txs) + 1
    <3>1. i \in 1..Len(txs)
      BY <1>1, <2>4
    <3> QED
      BY <1>1, <2>2, <3>1 DEF Applicable, AllApply
  <2> QED
    BY <2>3, <2>4
<1> QED
  BY <1>1, <1>2 DEF Applicable, AllApply, more

\* PrepareProposal keeps client transactions that apply one after the other.
LEMMA PickedApply ==
    ASSUME NEW s, NEW h, NEW mempool \in Seq(Txs), NEW room
    PROVE  Applicable(s, SelectTxs(s, h, mempool, room), h)
<1>0. Len(mempool) \in Nat /\ \A i \in 1..Len(mempool) : mempool[i] \in Txs
  OBVIOUS
<1>1. \E f : IsPick(f, s, h, mempool, room, Len(mempool))
  BY <1>0, PickExists
<1> DEFINE F == CHOOSE f : IsPick(f, s, h, mempool, room, Len(mempool))
<1>2. F = [i \in 0..Len(mempool) |-> PickStep(s, h, mempool, room, F, i)]
  BY <1>1 DEF IsPick
<1>3. SelectTxs(s, h, mempool, room) = F[Len(mempool)]
  BY DEF SelectTxs, IsPick, PickStep
<1> HIDE DEF F
<1> DEFINE Good(i) == i \in 0..Len(mempool) => Applicable(s, F[i], h)
           S == {i \in Nat : Good(i)}
<1>4. 0 \in S
  <2>1. F[0] = <<>>
    BY <1>0, <1>2 DEF PickStep
  <2>2. Applicable(s, <<>>, h)
    BY DEF Applicable, AllApply
  <2> QED
    BY <2>1, <2>2
<1>5. ASSUME NEW i \in Nat, i \in S PROVE i + 1 \in S
  <2> SUFFICES ASSUME i + 1 \in 0..Len(mempool) PROVE Applicable(s, F[i + 1], h)
    OBVIOUS
  <2>1. i \in 0..Len(mempool) /\ i + 1 # 0 /\ (i + 1) - 1 = i /\ i + 1 \in 1..Len(mempool)
    BY <1>0
  <2>2. \/ F[i + 1] = F[i]
        \/ /\ TxApplies(ExecuteTxs(s, F[i], h), mempool[i + 1], h)
           /\ F[i + 1] = Append(F[i], mempool[i + 1])
    BY <1>2, <2>1 DEF PickStep
  <2>3. Applicable(s, F[i], h) /\ mempool[i + 1] \in Txs
    BY <1>0, <1>5, <2>1
  <2> QED
    BY <2>2, <2>3, AppendApplies
<1> HIDE DEF Good
<1>6. Len(mempool) \in S
  BY <1>0, <1>4, <1>5, Induction
<1> QED
  BY <1>0, <1>3, <1>6 DEF Good

-----------------------------------------------------------------------------
(***************************************************************************)
(* The retained events.                                                    *)
(***************************************************************************)

\* What EventLog::append makes of log: the same events and e, less the oldest
\* one if d = 1.
Recorded(r, log, e, d) ==
    /\ d \in {0, 1}
    /\ IsSeq(r) /\ Len(r) \in Nat /\ Len(log) \in Nat
    /\ Len(r) + d = Len(log) + 1
    /\ \A i \in 1..Len(r) :
         /\ i + d = Len(log) + 1 => r[i] = e
         /\ i + d # Len(log) + 1 => i + d \in 1..Len(log) /\ r[i] = log[i + d]

\* Dropping the oldest entry of a log shifts the others by one.
LEMMA TailIsSeq ==
    ASSUME NEW x, IsSeq(x), Len(x) > 0
    PROVE  /\ IsSeq(Tail(x)) /\ Len(x) \in Nat /\ Len(Tail(x)) = Len(x) - 1
           /\ \A i \in 1..Len(x) - 1 : Tail(x)[i] = x[i + 1]
<1> DEFINE S == {x[i] : i \in 1..Len(x)}
<1>1. x \in Seq(S) /\ x # <<>>
  BY DEF IsSeq
<1> HIDE DEF S
<1>2. /\ Tail(x) \in Seq(S) /\ Len(Tail(x)) = Len(x) - 1 /\ Len(x) \in Nat
      /\ \A i \in 1..Len(x) - 1 : Tail(x)[i] = x[i + 1]
  BY <1>1
<1> DEFINE t == Tail(x)
<1>3. t \in Seq(S)
  BY <1>2
<1> HIDE DEF t
<1>4. t \in Seq({t[i] : i \in 1..Len(t)})
  BY <1>3
<1> QED
  BY <1>2, <1>4 DEF IsSeq, t

\* A recorded log is the old one with the new event, less at most its oldest.
LEMMA RecordFacts ==
    ASSUME NEW log, IsSeq(log), NEW e
    PROVE  \E d \in {0, 1} : Recorded(Record(log, e), log, e, d)
<1> DEFINE longer == Append(log, e)
<1>1. /\ IsSeq(longer) /\ Len(log) \in Nat /\ Len(longer) = Len(log) + 1
      /\ \A i \in 1..Len(log) : longer[i] = log[i]
      /\ longer[Len(log) + 1] = e
  BY AppendIsSeq
<1>2. Record(log, e) = IF Len(longer) > MaxEvents THEN Tail(longer) ELSE longer
  BY DEF Record
<1> HIDE DEF longer
<1>3. CASE Len(longer) > MaxEvents
  <2>1. Record(log, e) = Tail(longer) /\ Len(longer) > 0
    BY <1>1, <1>2, <1>3
  <2>2. /\ IsSeq(Tail(longer)) /\ Len(Tail(longer)) = Len(log)
        /\ \A i \in 1..Len(log) : Tail(longer)[i] = longer[i + 1]
    BY <1>1, <2>1, TailIsSeq
  <2>3. Recorded(Tail(longer), log, e, 1)
    BY <1>1, <2>2 DEF Recorded
  <2> QED
    BY <2>1, <2>3
<1>4. CASE ~(Len(longer) > MaxEvents)
  <2>1. Recorded(longer, log, e, 0)
    BY <1>1 DEF Recorded
  <2> QED
    BY <1>2, <1>4, <2>1
<1> QED
  BY <1>3, <1>4

\* The retained events of each account are those of its last nonces, in order.
LogSound(log, nonces) ==
    /\ IsSeq(log)
    /\ nonces \in [Signers -> Nat]
    /\ \A a \in Signers : \A i \in EventsOf(log, a) : log[i].nonce \in Nat
    /\ EachNonceOnce(log, nonces)

\* An event of an account carries its nonce and uses it up; a settlement is
\* no account's event.
EventOf(e, a) == e.kind # "settled" /\ e.signer = a
UsesNonces(e, nonces, next) ==
    /\ next \in [Signers -> Nat]
    /\ \A a \in Signers : IF EventOf(e, a)
                          THEN e.nonce = nonces[a] /\ next[a] = nonces[a] + 1
                          ELSE next[a] = nonces[a]

\* Recording an event that uses the next nonce, or none, keeps a log sound.
LEMMA LogKept ==
    ASSUME NEW log, NEW nonces, LogSound(log, nonces), NEW e,
           NEW next, UsesNonces(e, nonces, next)
    PROVE  LogSound(Record(log, e), next)
<1> DEFINE r == Record(log, e)
<1>1. IsSeq(log) /\ nonces \in [Signers -> Nat] /\ next \in [Signers -> Nat]
  BY DEF LogSound, UsesNonces
<1>2. PICK d \in {0, 1} : Recorded(r, log, e, d)
  BY <1>1, RecordFacts
<1> HIDE DEF r
<1>3. /\ IsSeq(r) /\ Len(r) \in Nat /\ Len(log) \in Nat /\ Len(r) + d = Len(log) + 1
      /\ d \in Nat
  BY <1>2 DEF Recorded
<1>4. ASSUME NEW a \in Signers, NEW i \in EventsOf(r, a)
      PROVE  /\ i \in 1..Len(r)
             /\ \/ i = Len(r) /\ r[i] = e /\ EventOf(e, a)
                \/ i < Len(r) /\ i + d \in EventsOf(log, a) /\ r[i] = log[i + d]
  BY <1>2, <1>3 DEF Recorded, EventsOf, EventOf
<1>5. ASSUME NEW a \in Signers, EventOf(e, a), NEW i \in 1..Len(r)
      PROVE  Len(r) \in EventsOf(r, a) /\ r[Len(r)] = e
  BY <1>2, <1>3, <1>5 DEF Recorded, EventsOf, EventOf
<1>6. ASSUME NEW a \in Signers
      PROVE  /\ nonces[a] \in Nat /\ next[a] \in Nat
             /\ EventOf(e, a) => e.nonce = nonces[a] /\ next[a] = nonces[a] + 1
             /\ ~EventOf(e, a) => next[a] = nonces[a]
  BY <1>1 DEF UsesNonces
<1>7. ASSUME NEW a \in Signers, NEW i \in EventsOf(log, a)
      PROVE  /\ i \in 1..Len(log) /\ log[i].nonce \in Nat /\ log[i].nonce < nonces[a]
             /\ \A j \in EventsOf(log, a) : i < j => log[i].nonce < log[j].nonce
             /\ \A n \in log[i].nonce..(nonces[a] - 1) :
                   \E j \in EventsOf(log, a) : log[j].nonce = n
  BY DEF LogSound, EachNonceOnce, EventsOf
<1>8. ASSUME NEW a \in Signers, NEW i \in EventsOf(r, a)
      PROVE  r[i].nonce \in Nat /\ r[i].nonce < next[a]
  <2>1. CASE i = Len(r) /\ r[i] = e /\ EventOf(e, a)
    BY <1>6, <2>1
  <2>2. CASE i + d \in EventsOf(log, a) /\ r[i] = log[i + d]
    BY <1>6, <1>7, <2>2
  <2> QED
    BY <1>4, <2>1, <2>2
<1>9. ASSUME NEW a \in Signers, NEW i \in EventsOf(r, a), NEW j \in EventsOf(r, a), i < j
      PROVE  r[i].nonce < r[j].nonce
  <2>1. i \in 1..Len(r) /\ j \in 1..Len(r) /\ i < Len(r)
    BY <1>3, <1>4, <1>9
  <2>2. i + d \in EventsOf(log, a) /\ r[i] = log[i + d]
    BY <1>4, <2>1
  <2>3. CASE r[j] = e /\ EventOf(e, a)
    BY <1>6, <1>7, <2>2, <2>3
  <2>4. CASE j + d \in EventsOf(log, a) /\ r[j] = log[j + d]
    <3>1. i + d < j + d
      BY <1>3, <1>9, <2>1
    <3> QED
      BY <1>7, <2>2, <2>4, <3>1
  <2> QED
    BY <1>4, <2>3, <2>4
<1>10. ASSUME NEW a \in Signers, NEW i \in EventsOf(r, a),
              NEW n \in r[i].nonce..(next[a] - 1)
       PROVE  \E j \in EventsOf(r, a) : r[j].nonce = n
  <2>1. i \in 1..Len(r)
    BY <1>4
  <2>2. n \in Nat /\ r[i].nonce \in Nat /\ r[i].nonce <= n /\ n < next[a]
    BY <1>6, <1>8
  <2>3. CASE EventOf(e, a) /\ n = nonces[a]
    BY <1>5, <1>6, <2>1, <2>3
  <2>4. CASE ~(EventOf(e, a) /\ n = nonces[a])
    <3>1. n < nonces[a]
      BY <1>6, <2>2, <2>4
    <3>2. i + d \in EventsOf(log, a) /\ r[i] = log[i + d]
      BY <1>4, <1>6, <2>2, <3>1
    <3>3. n \in log[i + d].nonce..(nonces[a] - 1)
      BY <1>6, <2>2, <3>1, <3>2
    <3>4. PICK k \in EventsOf(log, a) : log[k].nonce = n
      BY <1>7, <3>2, <3>3
    <3>5. k \in 1..Len(log) /\ k >= i + d
      <4>1. k \in 1..Len(log) /\ i + d \in 1..Len(log)
        BY <1>7, <3>2
      <4>2. ~(k < i + d)
        BY <1>7, <2>2, <3>2, <3>4
      <4> QED
        BY <4>1, <4>2
    <3>6. /\ k - d \in 1..Len(r) /\ (k - d) + d = k /\ k # Len(log) + 1
      BY <1>3, <2>1, <3>5
    <3>7. r[k - d] = log[k]
      BY <1>2, <3>6 DEF Recorded
    <3>8. k - d \in EventsOf(r, a)
      BY <3>4, <3>6, <3>7 DEF EventsOf
    <3> QED
      BY <3>4, <3>7, <3>8
  <2> QED
    BY <2>3, <2>4
<1> QED
  BY <1>1, <1>3, <1>8, <1>9, <1>10 DEF LogSound, EachNonceOnce, r

-----------------------------------------------------------------------------
(***************************************************************************)
(* Sums over finite sets.                                                  *)
(***************************************************************************)

Some(s) == CHOOSE x \in s : TRUE

\* One step of a sum.
SumBody(g, f, s) == IF s = {} THEN 0 ELSE f[Some(s)] + g[s \ {Some(s)}]

IsSum(g, f, S) == g = [s \in SUBSET S |-> SumBody(g, f, s)]

LEMMA SumExists ==
    ASSUME NEW f, NEW S, IsFiniteSet(S)
    PROVE  \E g : IsSum(g, f, S)
<1> DEFINE Upto(g, n) == \A s \in SUBSET S : Cardinality(s) <= n => g[s] = SumBody(g, f, s)
           W == {n \in Nat : \E g : Upto(g, n)}
<1>0. \A s \in SUBSET S : IsFiniteSet(s) /\ Cardinality(s) \in Nat
  BY FS_Subset, FS_CardinalityType
<1>1. 0 \in W
  <2> DEFINE g == [s \in SUBSET S |-> 0]
  <2>1. ASSUME NEW s \in SUBSET S, Cardinality(s) <= 0 PROVE g[s] = SumBody(g, f, s)
    <3>1. Cardinality(s) = 0
      BY <1>0, <2>1
    <3>2. s = {}
      BY <1>0, <3>1, FS_EmptySet
    <3> QED BY <3>2 DEF SumBody
  <2>2. Upto(g, 0)
    BY <2>1
  <2> HIDE DEF g
  <2> QED BY <2>2
<1>2. ASSUME NEW n \in Nat, n \in W PROVE n + 1 \in W
  <2>1. PICK g : Upto(g, n)
    BY <1>2
  <2> DEFINE more == [s \in SUBSET S |-> SumBody(g, f, s)]
  <2>2. \A s \in SUBSET S : Cardinality(s) <= n => more[s] = g[s]
    BY <2>1
  <2>3. ASSUME NEW s \in SUBSET S, Cardinality(s) <= n + 1
        PROVE  more[s] = SumBody(more, f, s)
    <3>1. CASE s = {}
      BY <3>1 DEF SumBody
    <3>2. CASE s # {}
      <4>1. Some(s) \in s /\ s \ {Some(s)} \in SUBSET S
        BY <3>2 DEF Some
      <4>2. Cardinality(s \ {Some(s)}) = Cardinality(s) - 1
        BY <1>0, <4>1, FS_RemoveElement
      <4>3. Cardinality(s \ {Some(s)}) <= n
        BY <1>0, <2>3, <4>2
      <4>4. more[s \ {Some(s)}] = g[s \ {Some(s)}]
        BY <2>2, <4>1, <4>3
      <4>5. more[s] = SumBody(g, f, s)
        OBVIOUS
      <4> HIDE DEF more
      <4> QED BY <4>4, <4>5 DEF SumBody
    <3> QED BY <3>1, <3>2
  <2>4. Upto(more, n + 1)
    BY <2>3
  <2> HIDE DEF more, Upto
  <2> QED BY <2>4
<1>3. Cardinality(S) \in W
  <2> HIDE DEF W
  <2> QED BY <1>0, <1>1, <1>2, Induction
<1>4. PICK g : Upto(g, Cardinality(S))
  BY <1>3
<1> DEFINE whole == [s \in SUBSET S |-> g[s]]
<1>5. ASSUME NEW s \in SUBSET S PROVE whole[s] = SumBody(whole, f, s)
  <2>1. g[s] = SumBody(g, f, s)
    BY <1>4, FS_Subset
  <2>2. s \ {Some(s)} \in SUBSET S
    OBVIOUS
  <2> QED BY <2>1, <2>2 DEF SumBody
<1>6. whole = [s \in SUBSET S |-> SumBody(whole, f, s)]
  <2>1. whole = [s \in SUBSET S |-> whole[s]]
    OBVIOUS
  <2> HIDE DEF whole
  <2> QED BY <1>5, <2>1
<1>7. IsSum(whole, f, S)
  BY <1>6, Zenon DEF IsSum
<1> QED BY <1>7

LEMMA SumIsSum ==
    ASSUME NEW f, NEW S, IsFiniteSet(S)
    PROVE  \E g : IsSum(g, f, S) /\ SumFunctionOnSet(f, S) = g[S]
<1> DEFINE g == CHOOSE e : IsSum(e, f, S)
<1>1. IsSum(g, f, S)
  BY SumExists, Zenon
<1>2. SumFunctionOnSet(f, S) = g[S]
  BY Zenon DEF SumFunctionOnSet, FoldFunctionOnSet, MapThenFoldSet, IsSum, SumBody, Some
<1> QED BY <1>1, <1>2

\* A sum depends on the summands only.
LEMMA SumsAgree ==
    ASSUME NEW f, NEW e, NEW S, NEW T, NEW g, NEW h, IsSum(g, f, S), IsSum(h, e, T),
           NEW u, u \subseteq S, u \subseteq T, IsFiniteSet(u),
           \A x \in u : f[x] = e[x]
    PROVE  g[u] = h[u]
<1> DEFINE W == {n \in Nat : \A s \in SUBSET u : Cardinality(s) = n => g[s] = h[s]}
<1>0. \A s \in SUBSET u : IsFiniteSet(s) /\ Cardinality(s) \in Nat
  BY FS_Subset, FS_CardinalityType
<1>1. \A s \in SUBSET u : g[s] = SumBody(g, f, s) /\ h[s] = SumBody(h, e, s)
  <2>1. \A s \in SUBSET u : s \in SUBSET S /\ s \in SUBSET T
    OBVIOUS
  <2> QED BY <2>1, Zenon DEF IsSum
<1>2. 0 \in W
  <2>1. ASSUME NEW s \in SUBSET u, Cardinality(s) = 0 PROVE g[s] = h[s]
    <3>1. s = {}
      BY <1>0, <2>1, FS_EmptySet
    <3> QED BY <1>1, <3>1 DEF SumBody
  <2> QED BY <2>1
<1>3. ASSUME NEW n \in Nat, n \in W PROVE n + 1 \in W
  <2>1. ASSUME NEW s \in SUBSET u, Cardinality(s) = n + 1 PROVE g[s] = h[s]
    <3>1. s # {}
      BY <2>1, FS_EmptySet
    <3>2. Some(s) \in s /\ s \ {Some(s)} \in SUBSET u
      BY <3>1 DEF Some
    <3>3. Cardinality(s \ {Some(s)}) = n
      <4>1. Cardinality(s \ {Some(s)}) = Cardinality(s) - 1
        BY <1>0, <3>2, FS_RemoveElement
      <4> QED BY <2>1, <4>1
    <3>4. g[s \ {Some(s)}] = h[s \ {Some(s)}]
      BY <1>3, <3>2, <3>3
    <3>5. f[Some(s)] = e[Some(s)]
      BY <3>2
    <3> QED BY <1>1, <3>1, <3>4, <3>5 DEF SumBody
  <2> QED BY <2>1
<1> HIDE DEF W
<1>4. Cardinality(u) \in W
  BY <1>0, <1>2, <1>3, Induction
<1> QED BY <1>4 DEF W

LEMMA SumSame ==
    ASSUME NEW f, NEW e, NEW S, IsFiniteSet(S), \A x \in S : f[x] = e[x]
    PROVE  SumFunctionOnSet(f, S) = SumFunctionOnSet(e, S)
<1>1. PICK g : IsSum(g, f, S) /\ SumFunctionOnSet(f, S) = g[S]
  BY SumIsSum
<1>2. PICK h : IsSum(h, e, S) /\ SumFunctionOnSet(e, S) = h[S]
  BY SumIsSum
<1>3. g[S] = h[S]
  BY <1>1, <1>2, SumsAgree
<1> QED BY <1>1, <1>2, <1>3

LEMMA SumEmpty ==
    ASSUME NEW f
    PROVE  SumFunctionOnSet(f, {}) = 0
<1>1. IsFiniteSet({})
  BY FS_EmptySet
<1>2. PICK g : IsSum(g, f, {}) /\ SumFunctionOnSet(f, {}) = g[{}]
  BY <1>1, SumIsSum
<1>3. g[{}] = SumBody(g, f, {})
  <2>1. {} \in SUBSET {}
    OBVIOUS
  <2> QED BY <1>2, <2>1, Zenon DEF IsSum
<1> QED BY <1>2, <1>3 DEF SumBody

LEMMA SumChosen ==
    ASSUME NEW f, NEW S, IsFiniteSet(S), S # {}
    PROVE  SumFunctionOnSet(f, S) = f[Some(S)] + SumFunctionOnSet(f, S \ {Some(S)})
<1> DEFINE T == S \ {Some(S)}
<1>1. PICK g : IsSum(g, f, S) /\ SumFunctionOnSet(f, S) = g[S]
  BY SumIsSum
<1>2. IsFiniteSet(T) /\ T \subseteq S /\ T \subseteq T
  BY FS_RemoveElement
<1>3. PICK h : IsSum(h, f, T) /\ SumFunctionOnSet(f, T) = h[T]
  BY <1>2, SumIsSum
<1>4. g[T] = h[T]
  <2> HIDE DEF T
  <2> QED BY <1>1, <1>2, <1>3, SumsAgree
<1>5. g[S] = SumBody(g, f, S)
  <2>1. S \in SUBSET S
    OBVIOUS
  <2> QED BY <1>1, <2>1, Zenon DEF IsSum
<1> QED BY <1>1, <1>3, <1>4, <1>5 DEF SumBody

\* Any element may be taken out of a sum.
LEMMA SumRemoved ==
    ASSUME NEW f, NEW U, IsFiniteSet(U), \A x \in U : f[x] \in Int
    PROVE  \A S \in SUBSET U :
              /\ SumFunctionOnSet(f, S) \in Int
              /\ \A x \in S : SumFunctionOnSet(f, S) = f[x] + SumFunctionOnSet(f, S \ {x})
<1> DEFINE Sum(S) == SumFunctionOnSet(f, S)
           Fine(S) == Sum(S) \in Int /\ \A x \in S : Sum(S) = f[x] + Sum(S \ {x})
           W == {n \in Nat : \A S \in SUBSET U : Cardinality(S) <= n => Fine(S)}
<1>0. \A s \in SUBSET U : IsFiniteSet(s) /\ Cardinality(s) \in Nat
  BY FS_Subset, FS_CardinalityType
<1>1. 0 \in W
  <2>1. ASSUME NEW S \in SUBSET U, Cardinality(S) <= 0 PROVE Fine(S)
    <3>0. Cardinality(S) = 0
      BY <1>0, <2>1
    <3>1. S = {}
      BY <1>0, <3>0, FS_EmptySet
    <3>2. Sum(S) = 0
      BY <3>1, SumEmpty
    <3> QED BY <3>1, <3>2
  <2> QED BY <2>1
<1>2. ASSUME NEW n \in Nat, n \in W PROVE n + 1 \in W
  <2>1. ASSUME NEW S \in SUBSET U, Cardinality(S) <= n + 1, S # {} PROVE Fine(S)
    <3> DEFINE c == Some(S)
    <3>1. c \in S
      BY <2>1 DEF Some
    <3>2. \A x \in S : S \ {x} \in SUBSET U /\ Cardinality(S \ {x}) <= n
      <4>1. \A x \in S : Cardinality(S \ {x}) = Cardinality(S) - 1
        BY <1>0, FS_RemoveElement
      <4> QED BY <1>0, <2>1, <4>1
    <3>3. \A x \in S : Fine(S \ {x})
      BY <1>2, <3>2
    <3>4. Sum(S) = f[c] + Sum(S \ {c})
      BY <1>0, <2>1, SumChosen
    <3>5. \A x \in S : f[x] \in Int
      OBVIOUS
    <3> HIDE DEF c
    <3>6. ASSUME NEW x \in S, x # c PROVE Sum(S) = f[x] + Sum(S \ {x})
      <4> DEFINE rest == (S \ {c}) \ {x}
      <4>1. x \in S \ {c} /\ c \in S \ {x} /\ rest = (S \ {x}) \ {c}
        BY <3>1, <3>6
      <4>2. Sum(S \ {c}) = f[x] + Sum(rest)
        BY <3>1, <3>3, <4>1
      <4>3. Sum(S \ {x}) = f[c] + Sum(rest)
        BY <3>3, <4>1
      <4>4. f[x] \in Int /\ f[c] \in Int
        BY <3>1, <3>5
      <4>5. Sum(rest) \in Int
        <5>1. rest \in SUBSET U /\ rest \in SUBSET (S \ {c})
          OBVIOUS
        <5>2. S \ {c} \in SUBSET U /\ Cardinality(S \ {c}) <= n
          BY <3>1, <3>2
        <5> HIDE DEF rest, Fine
        <5>3. Cardinality(rest) <= n
          <6>1. Cardinality(rest) <= Cardinality(S \ {c})
            BY <1>0, <5>1, <5>2, FS_Subset
          <6> QED BY <1>0, <5>1, <5>2, <6>1
        <5>4. Fine(rest)
          BY <1>2, <5>1, <5>3
        <5> QED BY <5>4 DEF Fine
      <4> HIDE DEF Sum, rest
      <4> QED BY <3>4, <4>2, <4>3, <4>4, <4>5
    <3>7. \A x \in S : Sum(S) = f[x] + Sum(S \ {x})
      BY <3>4, <3>6
    <3>8. Sum(S) \in Int
      BY <3>1, <3>3, <3>4, <3>5
    <3> QED BY <3>7, <3>8
  <2>2. Fine({})
    BY <1>0, <1>1, FS_EmptySet
  <2> HIDE DEF Fine
  <2> QED BY <2>1, <2>2
<1> HIDE DEF W, Fine
<1>3. \A S \in SUBSET U : Cardinality(S) \in W
  BY <1>0, <1>1, <1>2, Induction
<1>4. ASSUME NEW S \in SUBSET U PROVE Fine(S)
  BY <1>0, <1>3 DEF W
<1> QED BY <1>4 DEF Fine

\* Induction over the subsets of a finite set.
LEMMA SetInduction ==
    ASSUME NEW U, IsFiniteSet(U), NEW W, {} \in W,
           \A S \in SUBSET U : \A x \in U \ S : S \in W => S \cup {x} \in W
    PROVE  U \in W
<1> DEFINE V == {n \in Nat : \A S \in SUBSET U : Cardinality(S) = n => S \in W}
<1>0. \A s \in SUBSET U : IsFiniteSet(s) /\ Cardinality(s) \in Nat
  BY FS_Subset, FS_CardinalityType
<1>1. 0 \in V
  BY <1>0, FS_EmptySet
<1>2. ASSUME NEW n \in Nat, n \in V PROVE n + 1 \in V
  <2>1. ASSUME NEW S \in SUBSET U, Cardinality(S) = n + 1 PROVE S \in W
    <3>1. S # {}
      BY <2>1, FS_EmptySet
    <3>2. PICK x \in S : TRUE
      BY <3>1
    <3> DEFINE T == S \ {x}
    <3>3. T \in SUBSET U /\ x \in U \ T /\ S = T \cup {x}
      OBVIOUS
    <3>4. Cardinality(T) = Cardinality(S) - 1
      BY <1>0, <3>2, FS_RemoveElement
    <3>5. Cardinality(T) = n
      BY <2>1, <3>4
    <3> HIDE DEF T
    <3>6. T \in W
      BY <1>2, <3>3, <3>5
    <3> QED BY <3>3, <3>6
  <2> QED BY <2>1
<1> HIDE DEF V
<1>3. Cardinality(U) \in V
  BY <1>0, <1>1, <1>2, Induction
<1> QED BY <1>3 DEF V

\* Adding to one summand adds to the sum.
LEMMA SumChanges ==
    ASSUME NEW S, IsFiniteSet(S), NEW f, \A x \in S : f[x] \in Int,
           NEW a \in S, NEW k \in Int,
           NEW e, e[a] = f[a] + k, \A x \in S : x # a => e[x] = f[x]
    PROVE  /\ SumFunctionOnSet(f, S) \in Int
           /\ SumFunctionOnSet(e, S) = SumFunctionOnSet(f, S) + k
<1> DEFINE rest == S \ {a}
<1>1. /\ S \in SUBSET S /\ rest \in SUBSET S /\ IsFiniteSet(rest)
      /\ \A x \in rest : e[x] = f[x]
  BY FS_RemoveElement
<1>2. /\ SumFunctionOnSet(f, S) = f[a] + SumFunctionOnSet(f, rest)
      /\ SumFunctionOnSet(f, S) \in Int /\ SumFunctionOnSet(f, rest) \in Int
  BY <1>1, SumRemoved
<1>3. SumFunctionOnSet(e, S) = e[a] + SumFunctionOnSet(e, rest)
  <2>1. \A x \in S : e[x] \in Int
    OBVIOUS
  <2> QED
    BY <1>1, <2>1, SumRemoved
<1> HIDE DEF rest
<1>4. SumFunctionOnSet(e, rest) = SumFunctionOnSet(f, rest)
  BY <1>1, SumSame
<1>5. f[a] \in Int
  OBVIOUS
<1> QED
  BY <1>1, <1>2, <1>3, <1>4, <1>5

\* A sum of equal summands.
LEMMA SumOfEqual ==
    ASSUME NEW S, IsFiniteSet(S), NEW n \in Int, NEW f, \A x \in S : f[x] = n
    PROVE  SumFunctionOnSet(f, S) = n * Cardinality(S)
<1> DEFINE Fine(R) == SumFunctionOnSet(f, R) = n * Cardinality(R)
           W == {R \in SUBSET S : Fine(R)}
<1>1. {} \in W
  BY SumEmpty, FS_EmptySet
<1>2. ASSUME NEW R \in SUBSET S, NEW x \in S \ R, R \in W PROVE R \cup {x} \in W
  <2> DEFINE T == R \cup {x}
  <2>1. /\ IsFiniteSet(R) /\ Cardinality(R) \in Nat
        /\ T \in SUBSET S /\ T \ {x} = R /\ x \in T
        /\ Cardinality(T) = Cardinality(R) + 1
    BY FS_Subset, FS_CardinalityType, FS_AddElement
  <2>2. \A y \in S : f[y] \in Int
    OBVIOUS
  <2> HIDE DEF T
  <2>3. SumFunctionOnSet(f, T) = f[x] + SumFunctionOnSet(f, T \ {x})
    BY <2>1, <2>2, SumRemoved
  <2>4. SumFunctionOnSet(f, T) = n + n * Cardinality(R)
    BY <1>2, <2>1, <2>3
  <2>5. n * (Cardinality(R) + 1) = n + n * Cardinality(R)
    <3> DEFINE c == Cardinality(R)
    <3>1. c \in Nat
      BY <2>1
    <3> HIDE DEF c
    <3>2. n * (c + 1) = n + n * c
      BY <3>1
    <3> QED
      BY <3>2 DEF c
  <2>6. Fine(T)
    BY <2>1, <2>4, <2>5
  <2> QED
    BY <2>1, <2>6 DEF T
<1> HIDE DEF W
<1>3. S \in W
  BY <1>1, <1>2, SetInduction
<1> QED
  BY <1>3 DEF W

\* A sum that has at most the summands at b and c.
LEMMA SumOfTwo ==
    ASSUME NEW S, IsFiniteSet(S), NEW f, \A x \in S : f[x] \in Nat,
           NEW b \in S, NEW c \in S, b # c, \A x \in S : x # b /\ x # c => f[x] = 0
    PROVE  SumFunctionOnSet(f, S) = f[b] + f[c]
<1> DEFINE R == S \ {b}
           rest == R \ {c}
<1>1. /\ S \in SUBSET S /\ R \in SUBSET S /\ rest \in SUBSET S /\ c \in R
      /\ IsFiniteSet(rest) /\ \A x \in S : f[x] \in Int
      /\ \A x \in rest : f[x] = 0
  BY FS_Subset
<1>2. SumFunctionOnSet(f, S) = f[b] + SumFunctionOnSet(f, R)
  BY <1>1, SumRemoved
<1>3. SumFunctionOnSet(f, R) = f[c] + SumFunctionOnSet(f, rest)
  <2> HIDE DEF R
  <2> QED
    BY <1>1, SumRemoved
<1> HIDE DEF rest
<1>4. SumFunctionOnSet(f, rest) = 0 * Cardinality(rest)
  BY <1>1, SumOfEqual
<1>5. SumFunctionOnSet(f, rest) = 0
  BY <1>1, <1>4, FS_CardinalityType
<1> QED
  BY <1>1, <1>2, <1>3, <1>5

-----------------------------------------------------------------------------
(***************************************************************************)
(* The accounts and the bonds.                                             *)
(***************************************************************************)

\* A batch holds one order of an account, and a bond for each of its orders.
BatchSound(orders, bonds) ==
    /\ orders \in SUBSET Txs /\ IsFiniteSet(orders)
    /\ \A tx, u \in orders : tx.signer = u.signer => tx = u
    /\ bonds \in [Signers -> Nat]
    /\ \A a \in Signers : bonds[a] > 0 <=> \E tx \in orders : tx.signer = a

\* The reserved margin covers the bonds of any two batches together.
Covered(s) ==
    \A a \in Signers : \A b \in Heights :
        /\ s.reserved[a] >= s.bonds[b][a]
        /\ \A c \in Heights : c # b => s.reserved[a] >= s.bonds[b][a] + s.bonds[c][a]

\* No account has reserved more than it owns.
Solvent(s) == \A a \in Signers : s.reserved[a] <= s.collateral[a]

\* Collateral and fees are what was credited.
Balanced(s) ==
    /\ s.fee_vault \in Int
    /\ s.fee_vault + SumFunctionOnSet(s.collateral, Signers) = s.total_credits

\* The inductive invariant of the ledger's states.
Sound(s) ==
    /\ IsState(s)
    /\ LogSound(s.events, s.nonces)
    /\ s.collateral \in [Signers -> Int] /\ s.reserved \in [Signers -> Int]
    /\ \A b \in Heights : BatchSound(s.pending[b], s.bonds[b])
    /\ Covered(s) /\ Solvent(s) /\ Balanced(s)

\* Two states that differ in the accounts, the events and the batch of height
\* h at most.
SameElsewhere(s, t, h) ==
    /\ t.height = s.height /\ t.anchors = s.anchors /\ t.frozen = s.frozen
    /\ \A b \in Heights : b # h => t.pending[b] = s.pending[b] /\ t.bonds[b] = s.bonds[b]

\* The ledger starts sound.
LEMMA GenesisSound == Sound(Genesis)
<1>1. IsState(Genesis)
  BY GenesisState
<1>2. LogSound(Genesis.events, Genesis.nonces)
  <2>1. Genesis.events = <<>> /\ Genesis.nonces = [a \in Signers |-> 0]
    BY DEF Genesis
  <2>2. \A a \in Signers : EventsOf(<<>>, a) = {}
    BY DEF EventsOf
  <2> QED
    BY <2>1, <2>2 DEF LogSound, EachNonceOnce, IsSeq
<1>3. \A b \in Heights : Genesis.pending[b] = {} /\ Genesis.bonds[b] = [a \in Signers |-> 0]
  BY DEF Genesis
<1>4. /\ Genesis.collateral = [a \in Signers |-> Balance] /\ Balance \in Nat
      /\ Genesis.reserved = [a \in Signers |-> 0]
  BY BoundAssumption DEF Genesis
<1>5. BatchSound({}, [a \in Signers |-> 0])
  BY FS_EmptySet DEF BatchSound
<1>6. Covered(Genesis)
  BY <1>3, <1>4 DEF Covered
<1>7. Solvent(Genesis)
  BY <1>4 DEF Solvent
<1>8. Balanced(Genesis)
  <2>1. /\ Genesis.fee_vault = 0
        /\ Genesis.total_credits = Balance * Cardinality(Signers)
    BY DEF Genesis
  <2>2. SumFunctionOnSet(Genesis.collateral, Signers) = Balance * Cardinality(Signers)
    <3> DEFINE f == Genesis.collateral
    <3>1. \A x \in Signers : f[x] = Balance
      BY <1>4
    <3> HIDE DEF f
    <3> QED
      BY <1>4, <3>1, SumOfEqual, SignersAssumption DEF f
  <2>3. Balance * Cardinality(Signers) \in Int
    BY <1>4, SignersAssumption, FS_CardinalityType
  <2> QED
    BY <2>1, <2>2, <2>3 DEF Balanced
<1> QED
  BY <1>1, <1>2, <1>3, <1>4, <1>5, <1>6, <1>7, <1>8 DEF Sound

\* A state with the accounts c, r, tc and fv, the orders p and bonds m, and
\* otherwise that of s.
With(s, n, e, c, r, tc, fv, p, m) ==
    [height |-> s.height, nonces |-> n, collateral |-> c, reserved |-> r,
     total_credits |-> tc, fee_vault |-> fv, pending |-> p, bonds |-> m,
     anchors |-> s.anchors, frozen |-> s.frozen, events |-> e]

\* Such a state is well-formed.
LEMMA WithIsState ==
    ASSUME NEW s, IsState(s), NEW n, NEW e, NEW c, NEW r, NEW tc, NEW fv, NEW p, NEW m,
           p = [b \in Heights |-> p[b]], m = [b \in Heights |-> m[b]],
           NEW t, t = With(s, n, e, c, r, tc, fv, p, m)
    PROVE  /\ IsState(t)
           /\ t.height = s.height /\ t.anchors = s.anchors /\ t.frozen = s.frozen
           /\ t.nonces = n /\ t.events = e /\ t.collateral = c /\ t.reserved = r
           /\ t.pending = p /\ t.bonds = m /\ t.total_credits = tc /\ t.fee_vault = fv
<1>1. /\ t.height = s.height /\ t.anchors = s.anchors /\ t.frozen = s.frozen
      /\ t.nonces = n /\ t.events = e /\ t.collateral = c /\ t.reserved = r
      /\ t.pending = p /\ t.bonds = m /\ t.total_credits = tc /\ t.fee_vault = fv
  BY DEF With
<1>2. t = [height |-> t.height, nonces |-> t.nonces, collateral |-> t.collateral,
           reserved |-> t.reserved, total_credits |-> t.total_credits,
           fee_vault |-> t.fee_vault, pending |-> t.pending, bonds |-> t.bonds,
           anchors |-> t.anchors, frozen |-> t.frozen, events |-> t.events]
  BY <1>1 DEF With
<1>3. /\ s.height \in Heights /\ s.anchors = [b \in Heights |-> s.anchors[b]]
  BY DEF IsState
<1> QED
  BY <1>1, <1>2, <1>3 DEF IsState

\* What the successful command of a transaction writes.
Wrote(s, t, tx, h) ==
    LET a == tx.signer IN
    \/ /\ tx.kind = "order"
       /\ t.collateral = s.collateral
       /\ t.reserved = [s.reserved EXCEPT ![a] = s.reserved[a] + OrderMargin]
       /\ t.pending = s.pending /\ t.bonds = s.bonds
       /\ t.total_credits = s.total_credits /\ t.fee_vault = s.fee_vault
    \/ /\ tx.kind = "credit"
       /\ t.collateral = [s.collateral EXCEPT ![tx.to] = s.collateral[tx.to] + CreditAmount]
       /\ t.reserved = s.reserved
       /\ t.pending = s.pending /\ t.bonds = s.bonds
       /\ t.total_credits = s.total_credits + CreditAmount
       /\ t.fee_vault = s.fee_vault
    \/ /\ tx.kind = "private"
       /\ t.collateral = [s.collateral EXCEPT ![a] = s.collateral[a] - Fee]
       /\ t.reserved = [s.reserved EXCEPT ![a] = s.reserved[a] + (Available(s, a) - Fee)]
       /\ t.pending = [s.pending EXCEPT ![h] = s.pending[h] \cup {tx}]
       /\ t.bonds = [s.bonds EXCEPT ![h] =
                        [s.bonds[h] EXCEPT ![a] = Available(s, a) - Fee]]
       /\ t.total_credits = s.total_credits /\ t.fee_vault = s.fee_vault + Fee

\* The fields that a command leaves alone.
Kept(s, t) ==
    /\ t.height = s.height /\ t.anchors = s.anchors /\ t.frozen = s.frozen
    /\ t.nonces = s.nonces /\ t.events = s.events

\* place_order writes its signer's reservation only.
LEMMA OrderWrites ==
    ASSUME NEW s, IsState(s), NEW tx, tx.kind = "order", NEW h
    PROVE  LET t == PlaceOrder(s, tx) IN IsState(t) /\ Kept(s, t) /\ Wrote(s, t, tx, h)
<1> DEFINE q == [s.reserved EXCEPT ![tx.signer] = s.reserved[tx.signer] + OrderMargin]
           t == [s EXCEPT !.reserved = q]
<1>1. PlaceOrder(s, tx) = t
  BY DEF PlaceOrder
<1> HIDE DEF q
<1>2. IsState(t) /\ Kept(s, t) /\ t.reserved = q /\ t.collateral = s.collateral
      /\ t.pending = s.pending /\ t.bonds = s.bonds
      /\ t.total_credits = s.total_credits /\ t.fee_vault = s.fee_vault
  BY DEF IsState, Kept
<1> HIDE DEF t
<1> QED
  BY <1>1, <1>2 DEF Wrote, q

\* A deposit writes collateral and the total of the credits only.
LEMMA CreditWrites ==
    ASSUME NEW s, IsState(s), NEW tx, tx.kind = "credit", NEW h
    PROVE  LET t == CreditAccount(s, tx) IN IsState(t) /\ Kept(s, t) /\ Wrote(s, t, tx, h)
<1> DEFINE q == [s.collateral EXCEPT ![tx.to] = s.collateral[tx.to] + CreditAmount]
           n == s.total_credits + CreditAmount
           t == [s EXCEPT !.collateral = q, !.total_credits = n]
<1>1. CreditAccount(s, tx) = t
  BY DEF CreditAccount
<1>4. t = [s EXCEPT !.collateral = q, !.total_credits = n]
  OBVIOUS
<1> HIDE DEF q, n, t
<1>3. /\ t = With(s, s.nonces, s.events, q, s.reserved, n, s.fee_vault, s.pending, s.bonds)
      /\ s.pending = [b \in Heights |-> s.pending[b]]
      /\ s.bonds = [b \in Heights |-> s.bonds[b]]
  BY <1>4 DEF IsState, With
<1>2. IsState(t) /\ Kept(s, t) /\ t.reserved = s.reserved /\ t.collateral = q
      /\ t.pending = s.pending /\ t.bonds = s.bonds
      /\ t.total_credits = n /\ t.fee_vault = s.fee_vault
  BY <1>3, WithIsState DEF Kept
<1> QED
  BY <1>1, <1>2 DEF Wrote, q, n

\* submit_private_order writes the batch of its block, the bond and the fee.
LEMMA PrivateWrites ==
    ASSUME NEW s, IsState(s), NEW tx, tx.kind = "private", NEW h \in Heights
    PROVE  LET t == QueuePrivateOrder(s, tx, h)
           IN  IsState(t) /\ Kept(s, t) /\ Wrote(s, t, tx, h)
<1> DEFINE a == tx.signer
           bond == Available(s, a) - Fee
           c == [s.collateral EXCEPT ![a] = s.collateral[a] - Fee]
           f == s.fee_vault + Fee
           r == [s.reserved EXCEPT ![a] = s.reserved[a] + bond]
           p == [s.pending EXCEPT ![h] = s.pending[h] \cup {tx}]
           m == [s.bonds EXCEPT ![h] = [s.bonds[h] EXCEPT ![a] = bond]]
           t == [s EXCEPT !.collateral = c, !.fee_vault = f, !.reserved = r,
                          !.bonds = m, !.pending = p]
<1>1. QueuePrivateOrder(s, tx, h) = t
  BY Zenon DEF QueuePrivateOrder
<1>2. p = [b \in Heights |-> p[b]] /\ m = [b \in Heights |-> m[b]]
  BY DEF IsState
<1>5. t = [s EXCEPT !.collateral = c, !.fee_vault = f, !.reserved = r,
                    !.bonds = m, !.pending = p]
  OBVIOUS
<1> HIDE DEF c, f, r, p, m, t
<1>4. t = With(s, s.nonces, s.events, c, r, s.total_credits, f, p, m)
  BY <1>5 DEF IsState, With
<1>3. IsState(t) /\ Kept(s, t) /\ t.reserved = r /\ t.collateral = c
      /\ t.pending = p /\ t.bonds = m
      /\ t.total_credits = s.total_credits /\ t.fee_vault = f
  BY <1>2, <1>4, WithIsState DEF Kept
<1> QED
  BY <1>1, <1>3 DEF Wrote, c, r, p, m, f

\* execute_verified_transaction: the command, the event and the nonce.
LEMMA ExecuteWrites ==
    ASSUME NEW s, IsState(s), NEW tx \in Txs, NEW h \in Heights
    PROVE  LET t == ExecuteTx(s, tx, h)
           IN  /\ IsState(t) /\ Wrote(s, t, tx, h)
               /\ t.height = s.height /\ t.anchors = s.anchors /\ t.frozen = s.frozen
               /\ t.events = Record(s.events, [kind |-> tx.kind, signer |-> tx.signer,
                                               nonce |-> tx.nonce])
               /\ t.nonces = [s.nonces EXCEPT ![tx.signer] = s.nonces[tx.signer] + 1]
<1>1. tx.kind \in {"order", "credit", "private"}
  BY TxsAssumption DEF TxType
<1> DEFINE done == CASE tx.kind = "order"   -> PlaceOrder(s, tx)
                     [] tx.kind = "credit"  -> CreditAccount(s, tx)
                     [] tx.kind = "private" -> QueuePrivateOrder(s, tx, h)
           e == [kind |-> tx.kind, signer |-> tx.signer, nonce |-> tx.nonce]
           log == Record(done.events, e)
           n == [done.nonces EXCEPT ![tx.signer] = done.nonces[tx.signer] + 1]
           t == [done EXCEPT !.events = log, !.nonces = n]
<1>8. ExecuteTx(s, tx, h) =
        [done EXCEPT !.events = Record(@, [kind |-> tx.kind, signer |-> tx.signer,
                                           nonce |-> tx.nonce]),
                     !.nonces[tx.signer] = @ + 1]
  BY Zenon DEF ExecuteTx
<1>3. IsState(done) /\ Kept(s, done) /\ Wrote(s, done, tx, h)
  <2>1. CASE tx.kind = "order"
    <3>1. done = PlaceOrder(s, tx)
      BY <2>1
    <3> QED
      BY <2>1, <3>1, OrderWrites
  <2>2. CASE tx.kind = "credit"
    <3>1. done = CreditAccount(s, tx)
      BY <2>2
    <3> QED
      BY <2>2, <3>1, CreditWrites
  <2>3. CASE tx.kind = "private"
    <3>1. done = QueuePrivateOrder(s, tx, h)
      BY <2>3
    <3> QED
      BY <2>3, <3>1, PrivateWrites
  <2> QED
    BY <1>1, <2>1, <2>2, <2>3
<1>4. log = Record(s.events, e) /\ n = [s.nonces EXCEPT ![tx.signer] = s.nonces[tx.signer] + 1]
  BY <1>3 DEF Kept
<1> HIDE DEF done
<1>2. ExecuteTx(s, tx, h) = t
  BY <1>8, Zenon
<1>9. t = [done EXCEPT !.events = log, !.nonces = n]
  OBVIOUS
<1> HIDE DEF log, n, e, t
<1>7. /\ t = With(done, n, log, done.collateral, done.reserved, done.total_credits,
                  done.fee_vault, done.pending, done.bonds)
      /\ done.pending = [b \in Heights |-> done.pending[b]]
      /\ done.bonds = [b \in Heights |-> done.bonds[b]]
  BY <1>3, <1>9 DEF IsState, With
<1>5. /\ IsState(t) /\ t.events = log /\ t.nonces = n
      /\ t.height = done.height /\ t.anchors = done.anchors /\ t.frozen = done.frozen
      /\ t.collateral = done.collateral /\ t.reserved = done.reserved
      /\ t.pending = done.pending /\ t.bonds = done.bonds
      /\ t.total_credits = done.total_credits /\ t.fee_vault = done.fee_vault
  BY <1>3, <1>7, WithIsState
<1>6. Wrote(s, t, tx, h)
  BY <1>3, <1>5 DEF Wrote
<1> QED
  BY <1>2, <1>3, <1>4, <1>5, <1>6 DEF Kept, e

\* A queued order adds its bond to a batch that has none of its account.
LEMMA QueueKeepsBatch ==
    ASSUME NEW orders, NEW bonds, BatchSound(orders, bonds), NEW tx \in Txs,
           NEW bond \in Nat, bond > 0, \A u \in orders : u.signer # tx.signer,
           NEW more, more = orders \cup {tx},
           NEW next, next = [bonds EXCEPT ![tx.signer] = bond]
    PROVE  BatchSound(more, next) /\ bonds[tx.signer] = 0
<1>1. tx.signer \in Signers
  BY TxsAssumption DEF TxType
<1>2. more \in SUBSET Txs /\ IsFiniteSet(more)
  BY FS_AddElement DEF BatchSound
<1>3. \A u, v \in more : u.signer = v.signer => u = v
  BY DEF BatchSound
<1>4. next \in [Signers -> Nat]
  BY DEF BatchSound
<1>5. ASSUME NEW a \in Signers
      PROVE  next[a] > 0 <=> \E u \in more : u.signer = a
  BY <1>1 DEF BatchSound
<1> QED
  BY <1>1, <1>2, <1>3, <1>4, <1>5 DEF BatchSound

\* A command that pays from an account keeps the books balanced.
LEMMA PaymentBalances ==
    ASSUME NEW s, Balanced(s), s.collateral \in [Signers -> Int], NEW a \in Signers,
           NEW k \in Int, NEW j \in Int, NEW t,
           t.collateral = [s.collateral EXCEPT ![a] = s.collateral[a] + k],
           t.fee_vault = s.fee_vault + j, t.total_credits = s.total_credits + (k + j)
    PROVE  Balanced(t)
<1> DEFINE c == s.collateral
           d == t.collateral
<1>1. /\ \A x \in Signers : c[x] \in Int
      /\ d[a] = c[a] + k
      /\ \A x \in Signers : x # a => d[x] = c[x]
  OBVIOUS
<1> HIDE DEF c, d
<1>2. /\ SumFunctionOnSet(c, Signers) \in Int
      /\ SumFunctionOnSet(d, Signers) = SumFunctionOnSet(c, Signers) + k
  BY <1>1, SumChanges, SignersAssumption
<1>3. s.fee_vault \in Int /\ s.fee_vault + SumFunctionOnSet(c, Signers) = s.total_credits
  BY DEF Balanced, c
<1>4. t.fee_vault + SumFunctionOnSet(d, Signers) = t.total_credits
  BY <1>2, <1>3
<1> QED
  BY <1>3, <1>4 DEF Balanced, d

\* A transaction that applies keeps the state sound and writes no batch but
\* that of its own block.
LEMMA TxSound ==
    ASSUME NEW s, Sound(s), NEW tx \in Txs, NEW h \in Heights, TxApplies(s, tx, h),
           NEW t, t = ExecuteTx(s, tx, h)
    PROVE  Sound(t) /\ SameElsewhere(s, t, h)
<1> DEFINE a == tx.signer
           e == [kind |-> tx.kind, signer |-> tx.signer, nonce |-> tx.nonce]
<1>1. /\ a \in Signers /\ tx.to \in Signers /\ tx.kind \in {"order", "credit", "private"}
      /\ tx.nonce = s.nonces[a]
  BY TxsAssumption DEF TxType, TxApplies, ValidateTransactionState
<1>2. /\ IsState(s) /\ LogSound(s.events, s.nonces) /\ Covered(s) /\ Solvent(s)
      /\ s.collateral \in [Signers -> Int] /\ s.reserved \in [Signers -> Int]
      /\ \A b \in Heights : BatchSound(s.pending[b], s.bonds[b])
      /\ Balanced(s)
  BY DEF Sound
<1>3. /\ IsState(t) /\ Wrote(s, t, tx, h)
      /\ t.height = s.height /\ t.anchors = s.anchors /\ t.frozen = s.frozen
      /\ t.events = Record(s.events, e)
      /\ t.nonces = [s.nonces EXCEPT ![a] = s.nonces[a] + 1]
  <2>1. IsState(s)
    BY <1>2
  <2>2. LET u == ExecuteTx(s, tx, h)
        IN  /\ IsState(u) /\ Wrote(s, u, tx, h)
            /\ u.height = s.height /\ u.anchors = s.anchors /\ u.frozen = s.frozen
            /\ u.events = Record(s.events, [kind |-> tx.kind, signer |-> tx.signer,
                                            nonce |-> tx.nonce])
            /\ u.nonces = [s.nonces EXCEPT ![tx.signer] = s.nonces[tx.signer] + 1]
    BY <2>1, ExecuteWrites
  <2> QED
    BY <2>2, Zenon
<1>4. LogSound(t.events, t.nonces)
  <2>1. e.kind = tx.kind /\ e.signer = a /\ e.nonce = tx.nonce
    OBVIOUS
  <2>2. s.nonces \in [Signers -> Nat]
    BY <1>2 DEF LogSound
  <2> HIDE DEF e
  <2>3. UsesNonces(e, s.nonces, t.nonces)
    BY <1>1, <1>3, <2>1, <2>2 DEF UsesNonces, EventOf
  <2> QED
    BY <1>2, <1>3, <2>3, LogKept
<1>5. \A b \in Heights : /\ s.bonds[b] \in [Signers -> Nat]
                         /\ s.pending = [c \in Heights |-> s.pending[c]]
                         /\ s.bonds = [c \in Heights |-> s.bonds[c]]
  BY <1>2 DEF BatchSound, IsState
<1> HIDE DEF e, a
<1>6. CASE tx.kind = "order"
  <2>1. /\ t.collateral = s.collateral /\ t.pending = s.pending /\ t.bonds = s.bonds
        /\ t.reserved = [s.reserved EXCEPT ![a] = s.reserved[a] + 1]
        /\ t.total_credits = s.total_credits /\ t.fee_vault = s.fee_vault
    BY <1>3, <1>6 DEF Wrote, OrderMargin, a
  <2>2. t.reserved \in [Signers -> Int] /\ \A x \in Signers : t.reserved[x] >= s.reserved[x]
    BY <1>1, <1>2, <2>1
  <2>3. Covered(t)
    <3> SUFFICES ASSUME NEW x \in Signers, NEW b \in Heights
                 PROVE  /\ t.reserved[x] >= s.bonds[b][x]
                        /\ \A c \in Heights :
                              c # b => t.reserved[x] >= s.bonds[b][x] + s.bonds[c][x]
      BY <2>1 DEF Covered
    <3>1. /\ s.reserved[x] \in Int /\ s.reserved[x] >= s.bonds[b][x]
          /\ \A c \in Heights : c # b => s.reserved[x] >= s.bonds[b][x] + s.bonds[c][x]
          /\ \A c \in Heights : s.bonds[c][x] \in Nat
      BY <1>2, <1>5 DEF Covered
    <3>2. t.reserved[x] \in Int /\ t.reserved[x] >= s.reserved[x]
      BY <2>2
    <3> QED
      BY <3>1, <3>2
  <2>4. s.reserved[a] + 1 <= s.collateral[a]
    <3>1. Available(s, a) >= 1
      BY <1>6 DEF TxApplies, CommandApplies, OrderMargin, a
    <3> QED
      BY <1>1, <1>2, <3>1 DEF Available
  <2>5. Solvent(t)
    BY <1>1, <1>2, <2>1, <2>4 DEF Solvent
  <2>6. Balanced(t)
    BY <1>2, <2>1 DEF Balanced
  <2> QED
    BY <1>2, <1>3, <1>4, <2>1, <2>2, <2>3, <2>5, <2>6 DEF Sound, SameElsewhere
<1>7. CASE tx.kind = "credit"
  <2>1. /\ t.reserved = s.reserved /\ t.pending = s.pending /\ t.bonds = s.bonds
        /\ t.collateral = [s.collateral EXCEPT ![tx.to] = s.collateral[tx.to] + 2]
        /\ t.total_credits = s.total_credits + 2 /\ t.fee_vault = s.fee_vault
    BY <1>3, <1>7 DEF Wrote, CreditAmount
  <2>2. t.collateral \in [Signers -> Int]
    BY <1>1, <1>2, <2>1
  <2>3. Covered(t)
    BY <1>2, <2>1 DEF Covered
  <2>4. Solvent(t)
    BY <1>1, <1>2, <2>1 DEF Solvent
  <2>5. Balanced(t)
    <3>1. t.fee_vault = s.fee_vault + 0 /\ 2 + 0 = 2 /\ 2 \in Int /\ 0 \in Int
      BY <1>2, <2>1 DEF Balanced
    <3>2. t.total_credits = s.total_credits + (2 + 0)
      BY <2>1, <3>1
    <3> QED
      BY <1>1, <1>2, <2>1, <3>1, <3>2, PaymentBalances
  <2> QED
    BY <1>2, <1>3, <1>4, <2>1, <2>2, <2>3, <2>4, <2>5 DEF Sound, SameElsewhere
<1>8. CASE tx.kind = "private"
  <2> DEFINE bond == Available(s, a) - 1
  <2>0. Available(s, a) >= 2 /\ \A queued \in s.pending[h] : queued.signer # a
    BY <1>8 DEF TxApplies, CommandApplies, Fee, MinBond, a
  <2>1. bond \in Nat /\ bond > 0
    BY <1>1, <1>2, <2>0 DEF Available
  <2>2. /\ t.collateral = [s.collateral EXCEPT ![a] = s.collateral[a] - 1]
        /\ t.reserved = [s.reserved EXCEPT ![a] = s.reserved[a] + bond]
        /\ t.pending = [s.pending EXCEPT ![h] = s.pending[h] \cup {tx}]
        /\ t.bonds = [s.bonds EXCEPT ![h] = [s.bonds[h] EXCEPT ![a] = bond]]
        /\ t.total_credits = s.total_credits /\ t.fee_vault = s.fee_vault + 1
    BY <1>3, <1>8 DEF Wrote, Fee, a
  <2> HIDE DEF bond
  <2>3. /\ t.collateral \in [Signers -> Int] /\ t.reserved \in [Signers -> Int]
        /\ t.reserved[a] = s.reserved[a] + bond
        /\ \A x \in Signers : x # a => t.reserved[x] = s.reserved[x]
    BY <1>1, <1>2, <2>1, <2>2
  <2>4. /\ t.pending[h] = s.pending[h] \cup {tx}
        /\ t.bonds[h] = [s.bonds[h] EXCEPT ![a] = bond]
        /\ \A b \in Heights : b # h => t.pending[b] = s.pending[b] /\ t.bonds[b] = s.bonds[b]
    BY <1>5, <2>2
  <2>5. BatchSound(t.pending[h], t.bonds[h]) /\ s.bonds[h][a] = 0
    <3> DEFINE orders == s.pending[h]
               bonds == s.bonds[h]
               more == t.pending[h]
               next == t.bonds[h]
    <3>1. /\ BatchSound(orders, bonds) /\ bond \in Nat /\ bond > 0
          /\ \A u \in orders : u.signer # tx.signer
          /\ more = orders \cup {tx}
          /\ next = [bonds EXCEPT ![tx.signer] = bond]
      BY <1>2, <2>0, <2>1, <2>4 DEF a
    <3> HIDE DEF a, orders, bonds, more, next
    <3>2. BatchSound(more, next) /\ bonds[tx.signer] = 0
      BY <3>1, QueueKeepsBatch
    <3> QED
      BY <3>2 DEF a, orders, bonds, more, next
  <2>6. \A b \in Heights : BatchSound(t.pending[b], t.bonds[b])
    BY <1>2, <2>4, <2>5
  <2>7. /\ \A b \in Heights : t.bonds[b] \in [Signers -> Nat]
        /\ t.bonds[h][a] = bond
        /\ \A b \in Heights, x \in Signers :
              b # h \/ x # a => t.bonds[b][x] = s.bonds[b][x]
    BY <1>1, <1>5, <2>4, <2>6 DEF BatchSound
  <2>8. Covered(t)
    <3> SUFFICES ASSUME NEW x \in Signers, NEW b \in Heights
                 PROVE  /\ t.reserved[x] >= t.bonds[b][x]
                        /\ \A c \in Heights :
                              c # b => t.reserved[x] >= t.bonds[b][x] + t.bonds[c][x]
      BY DEF Covered
    <3>1. /\ s.reserved[x] \in Int /\ s.reserved[x] >= s.bonds[b][x]
          /\ \A c \in Heights : c # b => s.reserved[x] >= s.bonds[b][x] + s.bonds[c][x]
          /\ \A c \in Heights : s.bonds[c][x] \in Nat /\ s.reserved[x] >= s.bonds[c][x]
      BY <1>2, <1>5 DEF Covered
    <3>2. CASE x # a
      BY <2>3, <2>7, <3>1, <3>2
    <3>3. CASE x = a /\ b = h
      <4>1. ASSUME NEW c \in Heights, c # b
            PROVE  t.reserved[x] >= t.bonds[b][x] + t.bonds[c][x]
        <5>1. t.bonds[c][x] = s.bonds[c][x] /\ s.reserved[x] >= s.bonds[c][x]
          BY <2>7, <3>1, <3>3, <4>1
        <5> QED
          BY <2>1, <2>3, <2>7, <3>1, <3>3, <5>1
      <4>2. s.reserved[x] >= 0
        BY <3>1
      <4> QED
        BY <2>1, <2>3, <2>7, <3>1, <3>3, <4>1, <4>2
    <3>4. CASE x = a /\ b # h
      <4>1. t.bonds[b][x] = s.bonds[b][x] /\ t.reserved[x] = s.reserved[x] + bond
        BY <2>3, <2>7, <3>4
      <4>2. ASSUME NEW c \in Heights, c # b
            PROVE  t.reserved[x] >= t.bonds[b][x] + t.bonds[c][x]
        <5>1. CASE c = h
          <6>1. t.bonds[c][x] = bond
            BY <2>7, <3>4, <5>1
          <6> QED
            BY <2>1, <3>1, <4>1, <6>1
        <5>2. CASE c # h
          <6>1. t.bonds[c][x] = s.bonds[c][x]
            BY <2>7, <5>2
          <6> QED
            BY <2>1, <3>1, <4>1, <4>2, <6>1
        <5> QED
          BY <5>1, <5>2
      <4> QED
        BY <2>1, <3>1, <4>1, <4>2
    <3> QED
      BY <3>2, <3>3, <3>4
  <2>9. Solvent(t)
    <3>1. s.reserved[a] + bond = s.collateral[a] - 1
      BY <1>1, <1>2 DEF bond, Available
    <3> QED
      BY <1>1, <1>2, <2>1, <2>2, <3>1 DEF Solvent
  <2>10. Balanced(t)
    <3>1. -1 \in Int /\ 1 \in Int /\ s.collateral[a] - 1 = s.collateral[a] + (-1)
      BY <1>1, <1>2
    <3>2. t.collateral = [s.collateral EXCEPT ![a] = s.collateral[a] + (-1)]
      BY <2>2, <3>1
    <3>3. SumFunctionOnSet(s.collateral, Signers) \in Int
      BY <1>2, SumRemoved, SignersAssumption
    <3>4. s.total_credits \in Int
      BY <1>2, <3>3 DEF Balanced
    <3>5. t.total_credits = s.total_credits + ((-1) + 1)
      BY <2>2, <3>4
    <3> QED
      BY <1>1, <1>2, <2>2, <3>1, <3>2, <3>5, PaymentBalances
  <2> QED
    BY <1>3, <1>4, <2>3, <2>4, <2>6, <2>8, <2>9, <2>10 DEF Sound, SameElsewhere
<1> QED
  BY <1>1, <1>6, <1>7, <1>8

\* So does a sequence of transactions, whether they apply or not.
LEMMA TxsSound ==
    ASSUME NEW s, Sound(s), NEW txs \in Seq(Txs), NEW h \in Heights,
           NEW t, t = ExecuteTxs(s, txs, h)
    PROVE  Sound(t) /\ SameElsewhere(s, t, h)
<1>0. Len(txs) \in Nat /\ \A i \in 1..Len(txs) : txs[i] \in Txs
  OBVIOUS
<1>1. PICK f : /\ IsRun(f, s, txs, h, Len(txs))
               /\ ExecuteTxs(s, txs, h) = Written(s, f[Len(txs)], h)
  BY <1>0, RunsThrough
<1>2. \A i \in 0..Len(txs) : f[i] = RunStep(s, txs, h, f, i)
  BY <1>1 DEF IsRun
<1> DEFINE Good(i) == i \in 0..Len(txs) => Sound(f[i]) /\ SameElsewhere(s, f[i], h)
           S == {i \in Nat : Good(i)}
<1>3. 0 \in S
  <2>1. f[0] = s
    BY <1>0, <1>2 DEF RunStep
  <2> QED
    BY <2>1 DEF SameElsewhere
<1>4. ASSUME NEW i \in Nat, i \in S PROVE i + 1 \in S
  <2> SUFFICES ASSUME i + 1 \in 0..Len(txs)
               PROVE  Sound(f[i + 1]) /\ SameElsewhere(s, f[i + 1], h)
    OBVIOUS
  <2>1. i \in 0..Len(txs) /\ i + 1 # 0 /\ (i + 1) - 1 = i /\ txs[i + 1] \in Txs
    BY <1>0
  <2>2. f[i + 1] = TryTx(f[i], txs[i + 1], h)
    BY <1>2, <2>1 DEF RunStep
  <2>3. Sound(f[i]) /\ SameElsewhere(s, f[i], h)
    BY <1>4, <2>1
  <2>4. CASE TxApplies(f[i], txs[i + 1], h)
    <3>1. f[i + 1] = ExecuteTx(f[i], txs[i + 1], h)
      BY <2>2, <2>4 DEF TryTx
    <3>2. Sound(f[i + 1]) /\ SameElsewhere(f[i], f[i + 1], h)
      BY <2>1, <2>3, <2>4, <3>1, TxSound
    <3> QED
      BY <2>3, <3>2 DEF SameElsewhere
  <2>5. CASE ~TxApplies(f[i], txs[i + 1], h)
    BY <2>2, <2>3, <2>5 DEF TryTx
  <2> QED
    BY <2>4, <2>5
<1> HIDE DEF Good
<1>5. Len(txs) \in S
  BY <1>0, <1>3, <1>4, Induction
<1> DEFINE end == f[Len(txs)]
<1>6. Sound(end) /\ SameElsewhere(s, end, h)
  BY <1>0, <1>5 DEF Good
<1>7. t = Written(s, end, h)
  BY <1>1
<1> HIDE DEF end
<1>8. IsState(s) /\ IsState(end)
  BY <1>6 DEF Sound
<1>9. t = With(s, end.nonces, end.events, end.collateral, end.reserved,
               end.total_credits, end.fee_vault,
               [s.pending EXCEPT ![h] = end.pending[h]],
               [s.bonds EXCEPT ![h] = end.bonds[h]])
  BY <1>7, <1>8 DEF IsState, Written, With
<1>10. /\ [s.pending EXCEPT ![h] = end.pending[h]] = end.pending
       /\ [s.bonds EXCEPT ![h] = end.bonds[h]] = end.bonds
       /\ end.pending = [b \in Heights |-> end.pending[b]]
       /\ end.bonds = [b \in Heights |-> end.bonds[b]]
  BY <1>6, <1>8 DEF IsState, SameElsewhere
<1>11. /\ IsState(t)
       /\ t.height = s.height /\ t.anchors = s.anchors /\ t.frozen = s.frozen
       /\ t.nonces = end.nonces /\ t.events = end.events
       /\ t.collateral = end.collateral /\ t.reserved = end.reserved
       /\ t.pending = end.pending /\ t.bonds = end.bonds
       /\ t.total_credits = end.total_credits /\ t.fee_vault = end.fee_vault
  BY <1>8, <1>9, <1>10, WithIsState
<1> QED
  BY <1>6, <1>11 DEF Sound, SameElsewhere, Covered, Solvent, Balanced

-----------------------------------------------------------------------------
(***************************************************************************)
(* One block.                                                              *)
(***************************************************************************)

\* Heights, anchors and snapshots are no part of a state's soundness.
LEMMA SoundKept ==
    ASSUME NEW s, Sound(s), NEW t, IsState(t),
           t.nonces = s.nonces, t.events = s.events, t.collateral = s.collateral,
           t.reserved = s.reserved, t.pending = s.pending, t.bonds = s.bonds,
           t.total_credits = s.total_credits, t.fee_vault = s.fee_vault
    PROVE  Sound(t)
BY DEF Sound, Covered, Solvent, Balanced

\* The scratch state of a proposal for height h.
AtHeight(s, h) == [s EXCEPT !.height = h]

\* It is as sound as the state it was made from.
LEMMA HeightSet ==
    ASSUME NEW s, Sound(s), NEW h \in Heights, NEW t, t = AtHeight(s, h)
    PROVE  /\ Sound(t) /\ t.height = h /\ t.anchors = s.anchors /\ t.frozen = s.frozen
           /\ t.pending = s.pending /\ t.bonds = s.bonds /\ t.reserved = s.reserved
<1>1. IsState(s)
  BY DEF Sound
<1>2. /\ t.height = h /\ t.anchors = s.anchors /\ t.frozen = s.frozen
      /\ t.nonces = s.nonces /\ t.events = s.events /\ t.collateral = s.collateral
      /\ t.reserved = s.reserved /\ t.pending = s.pending /\ t.bonds = s.bonds
      /\ t.total_credits = s.total_credits /\ t.fee_vault = s.fee_vault
  BY <1>1 DEF IsState, AtHeight
<1>3. IsState(t)
  BY <1>1 DEF IsState, AtHeight
<1> QED
  BY <1>2, <1>3, SoundKept

\* Anchoring the last batch writes no account.
LEMMA AnchorSound ==
    ASSUME NEW s, Sound(s), BatchLifecycleOf(s), NEW h, h = s.height + 1, h \in Heights
    PROVE  Sound(AnchorBatch(s, h)) /\ AnchorBatch(s, h).pending = s.pending
<1> DEFINE a == AnchorBatch(s, h)
           b == Before(h, 1)
<1>1. IsState(s)
  BY DEF Sound
<1>2. IsState(a)
  BY <1>1, AnchorEffect
<1>3. \/ a = [s EXCEPT !.height = h, !.anchors[b] = AppHash(s)]
      \/ a = [s EXCEPT !.height = h]
  BY DEF AnchorBatch
<1> HIDE DEF a
<1>4. /\ a.nonces = s.nonces /\ a.events = s.events /\ a.collateral = s.collateral
      /\ a.reserved = s.reserved /\ a.pending = s.pending /\ a.bonds = s.bonds
      /\ a.total_credits = s.total_credits /\ a.fee_vault = s.fee_vault
  BY <1>1, <1>3 DEF IsState
<1>5. Sound(a) /\ a.pending = s.pending
  BY <1>2, <1>4, SoundKept
<1> QED
  BY <1>5 DEF a

\* Nor does freezing the block's own batch.
LEMMA FreezeSound ==
    ASSUME NEW s, Sound(s), NEW h \in Heights
    PROVE  Sound(FreezeBatch(s, h))
<1> DEFINE t == FreezeBatch(s, h)
<1>1. IsState(s)
  BY DEF Sound
<1>2. t = s \/ t = [s EXCEPT !.frozen = @ \cup {h}]
  BY DEF FreezeBatch
<1>3. IsState(t)
  BY <1>1, FreezeEffect
<1> HIDE DEF t
<1>4. /\ t.nonces = s.nonces /\ t.events = s.events /\ t.collateral = s.collateral
      /\ t.reserved = s.reserved /\ t.pending = s.pending /\ t.bonds = s.bonds
      /\ t.total_credits = s.total_credits /\ t.fee_vault = s.fee_vault
  BY <1>1, <1>2 DEF IsState
<1>5. Sound(t)
  BY <1>3, <1>4, SoundKept
<1> QED
  BY <1>5 DEF t

\* Settling a batch releases its bonds: the rest stays covered, if at most one
\* other batch is live.
LEMMA BundleSound ==
    ASSUME NEW s, Sound(s), NEW x, NEW b \in Heights, x.batch = b,
           \A c, d \in Heights : b # c /\ b # d /\ c # d => s.pending[c] = {} \/ s.pending[d] = {},
           NEW t, t = ExecuteBundle(s, x)
    PROVE  Sound(t)
<1> DEFINE e == [kind |-> "settled", batch |-> b]
           log == Record(s.events, e)
           left == [a \in Signers |-> s.reserved[a] - s.bonds[b][a]]
           zero == [a \in Signers |-> 0]
           p == [s.pending EXCEPT ![b] = {}]
           m == [s.bonds EXCEPT ![b] = zero]
           q == [s.anchors EXCEPT ![b] = NoState]
           rest == s.frozen \ {b}
           u == [s EXCEPT !.anchors = q, !.frozen = rest]
<1>1. /\ IsState(s) /\ LogSound(s.events, s.nonces) /\ Covered(s) /\ Solvent(s)
      /\ s.collateral \in [Signers -> Int] /\ s.reserved \in [Signers -> Int]
      /\ \A c \in Heights : BatchSound(s.pending[c], s.bonds[c])
      /\ Balanced(s)
  BY DEF Sound
<1>2. \A c \in Heights : s.bonds[c] \in [Signers -> Nat]
  BY <1>1 DEF BatchSound
<1>3. t = [s EXCEPT !.reserved = left, !.pending = p, !.bonds = m, !.anchors = q,
                    !.frozen = rest, !.events = log]
  BY Zenon DEF ExecuteBundle
<1>4. u = [s EXCEPT !.anchors = q, !.frozen = rest]
  OBVIOUS
<1>5. /\ q = [c \in Heights |-> q[c]]
      /\ p = [c \in Heights |-> p[c]] /\ m = [c \in Heights |-> m[c]]
      /\ p[b] = {} /\ m[b] = zero
      /\ \A c \in Heights : c # b => p[c] = s.pending[c] /\ m[c] = s.bonds[c]
  BY <1>1 DEF IsState
<1>6. LogSound(log, s.nonces)
  <2>1. e.kind = "settled"
    OBVIOUS
  <2> HIDE DEF e
  <2>2. UsesNonces(e, s.nonces, s.nonces)
    BY <1>1, <2>1 DEF UsesNonces, EventOf, LogSound
  <2> QED
    BY <1>1, <2>2, LogKept
<1> HIDE DEF e, log, p, m, q, rest, u
<1>7. IsState(u)
  BY <1>1, <1>4, <1>5 DEF IsState
<1>8. t = With(u, s.nonces, log, s.collateral, left, s.total_credits, s.fee_vault, p, m)
  BY <1>1, <1>3, <1>4 DEF IsState, With
<1>9. /\ IsState(t) /\ t.nonces = s.nonces /\ t.events = log
      /\ t.collateral = s.collateral /\ t.reserved = left
      /\ t.pending = p /\ t.bonds = m
      /\ t.total_credits = s.total_credits /\ t.fee_vault = s.fee_vault
  BY <1>5, <1>7, <1>8, WithIsState
<1>10. t.reserved \in [Signers -> Int]
  BY <1>1, <1>2, <1>9
<1>11. \A c \in Heights : BatchSound(t.pending[c], t.bonds[c])
  <2>1. BatchSound({}, zero)
    BY FS_EmptySet DEF BatchSound
  <2> QED
    BY <1>1, <1>5, <1>9, <2>1
<1>12. Covered(t)
  <2> SUFFICES ASSUME NEW a \in Signers, NEW c \in Heights
               PROVE  /\ left[a] >= m[c][a]
                      /\ \A d \in Heights : d # c => left[a] >= m[c][a] + m[d][a]
    BY <1>9 DEF Covered
  <2>1. /\ s.reserved[a] \in Int
        /\ \A d \in Heights : s.bonds[d][a] \in Nat /\ s.reserved[a] >= s.bonds[d][a]
        /\ \A d \in Heights, f \in Heights :
              d # f => s.reserved[a] >= s.bonds[d][a] + s.bonds[f][a]
    BY <1>1, <1>2 DEF Covered
  <2>2. left[a] = s.reserved[a] - s.bonds[b][a] /\ m[b][a] = 0
    BY <1>5
  <2>3. \A d \in Heights : d # b => m[d][a] = s.bonds[d][a]
    BY <1>5
  <2>4. \A d \in Heights : s.pending[d] = {} => s.bonds[d][a] = 0
    BY <1>1, <2>1 DEF BatchSound
  <2> HIDE DEF left
  <2>5. ASSUME NEW d \in Heights PROVE left[a] >= m[d][a]
    <3>1. CASE d = b
      BY <2>1, <2>2, <3>1
    <3>2. CASE d # b
      <4>1. s.reserved[a] >= s.bonds[b][a] + s.bonds[d][a]
        BY <2>1, <3>2
      <4> QED
        BY <2>1, <2>2, <2>3, <3>2, <4>1
    <3> QED
      BY <3>1, <3>2
  <2>6. ASSUME NEW d \in Heights, d # c PROVE left[a] >= m[c][a] + m[d][a]
    <3>1. m[c][a] \in Nat /\ m[d][a] \in Nat /\ left[a] \in Int
      BY <2>1, <2>2, <2>3
    <3>2. m[c][a] = 0 \/ m[d][a] = 0
      <4>1. CASE c = b \/ d = b
        BY <2>2, <4>1
      <4>2. CASE c # b /\ d # b
        BY <2>3, <2>4, <2>6, <4>2
      <4> QED
        BY <4>1, <4>2
    <3>3. left[a] >= m[c][a] /\ left[a] >= m[d][a]
      BY <2>5
    <3> QED
      BY <3>1, <3>2, <3>3
  <2> QED
    BY <2>5, <2>6
<1>13. Solvent(t)
  BY <1>1, <1>2, <1>9 DEF Solvent
<1>14. Balanced(t)
  <2>1. /\ Balanced(s) /\ t.collateral = s.collateral
        /\ t.total_credits = s.total_credits /\ t.fee_vault = s.fee_vault
    BY <1>1, <1>9
  <2> HIDE DEF left
  <2> QED
    BY <2>1 DEF Balanced
<1> HIDE DEF left
<1> QED
  BY <1>1, <1>6, <1>9, <1>10, <1>11, <1>12, <1>13, <1>14 DEF Sound

\* At most one batch is live besides the one that is due.
LEMMA TwoLive ==
    ASSUME NEW s, IsState(s), BatchLifecycleOf(s), NEW b, b + 2 = s.height + 1,
           NEW c \in Heights, NEW d \in Heights, b # c, b # d, c # d, b \in Heights
    PROVE  s.pending[c] = {} \/ s.pending[d] = {}
<1>1. /\ s.pending[c] # {} => c \in {s.height - 1, s.height}
      /\ s.pending[d] # {} => d \in {s.height - 1, s.height}
  BY DEF BatchLifecycleOf
<1>2. s.height \in Nat /\ b \in Nat /\ b = s.height - 1
  BY BoundAssumption DEF IsState, Heights
<1> QED
  BY <1>1, <1>2

\* A block whose body is made of client transactions keeps the state sound.
LEMMA FinalizeSound ==
    ASSUME NEW s, Sound(s), BatchLifecycleOf(s), NEW h, h = s.height + 1,
           h \in Heights, NEW block, Body(s, block, h) \in Seq(Txs),
           BatchIsDue(s, h) => OpensWithBundle(AnchorBatch(s, h), block, h)
    PROVE  Sound(FinalizeState(s, block, h))
<1> DEFINE a == AnchorBatch(s, h)
           m == AfterBundle(s, a, block, h)
           u == Executed(s, block, h)
<1>1. Sound(a) /\ a.pending = s.pending
  BY AnchorSound
<1>2. Sound(m)
  <2>1. CASE BatchIsDue(s, h)
    <3>1. OpensWithBundle(a, block, h)
      BY <2>1
    <3>2. m = ExecuteBundle(a, block[1])
      BY <2>1 DEF AfterBundle
    <3> HIDE DEF a, m
    <3> DEFINE b == block[1].batch
    <3>3. b \in Heights /\ b + 2 = h
      BY <3>1 DEF OpensWithBundle, BundleExecutes, DelayBlocks
    <3> HIDE DEF b
    <3>4. \A c, d \in Heights : b # c /\ b # d /\ c # d => a.pending[c] = {} \/ a.pending[d] = {}
      BY <1>1, <3>3, TwoLive DEF Sound
    <3> QED
      BY <1>1, <3>2, <3>3, <3>4, BundleSound DEF b
  <2>2. CASE ~BatchIsDue(s, h)
    BY <1>1, <2>2 DEF AfterBundle
  <2> QED
    BY <2>1, <2>2
<1>3. u = ExecuteTxs(m, Body(s, block, h), h)
  BY DEF Executed
<1> HIDE DEF a, m, u
<1>4. Sound(u)
  BY <1>2, <1>3, TxsSound
<1>5. FinalizeState(s, block, h) = FreezeBatch(u, h)
  BY DEF FinalizeState, u
<1> QED
  BY <1>4, <1>5, FreezeSound

-----------------------------------------------------------------------------
(***************************************************************************)
(* No transaction takes effect twice.                                      *)
(***************************************************************************)

\* A block with one transaction in front.
LEMMA ConsFacts ==
    ASSUME NEW x, NEW txs \in Seq(Txs)
    PROVE  LET block == <<x>> \o txs
           IN  /\ block # <<>> /\ Len(block) = Len(txs) + 1
               /\ block[1] = x /\ Tail(block) = txs
<1> DEFINE S == Txs \cup {x}
<1>1. <<x>> \in Seq(S) /\ txs \in Seq(S) /\ Len(<<x>>) = 1 /\ <<x>>[1] = x
  OBVIOUS
<1> DEFINE block == <<x>> \o txs
<1>2. /\ block \in Seq(S) /\ Len(block) = Len(txs) + 1 /\ block[1] = x
      /\ \A i \in 1..Len(txs) : block[i + 1] = txs[i]
  BY <1>1
<1> HIDE DEF block
<1>3. block # <<>> /\ Len(txs) \in Nat
  BY <1>1, <1>2
<1>4. /\ Tail(block) \in Seq(S) /\ Len(Tail(block)) = Len(txs)
      /\ \A i \in 1..Len(txs) : Tail(block)[i] = txs[i]
  BY <1>2, <1>3
<1>5. Tail(block) = txs
  BY <1>1, <1>4
<1> QED
  BY <1>2, <1>3, <1>5 DEF block

\* What a mempool offers are client transactions.
LEMMA MempoolIsSeq == ASSUME NEW m \in Mempools PROVE m \in Seq(Txs)
<1>1. PICK n \in 0..MaxBlockTxs : m \in [1..n -> Txs]
  BY DEF Mempools
<1>2. n \in Nat
  BY <1>1, BoundAssumption
<1> QED
  BY <1>1, <1>2

\* A client transaction is no system transaction.
LEMMA ClientTxs ==
    ASSUME NEW txs \in Seq(Txs), NEW i \in 1..Len(txs)
    PROVE  ~IsSystem(txs[i])
<1>1. txs[i] \in Txs
  OBVIOUS
<1> QED
  BY <1>1, TxsAssumption DEF TxType, IsSystem

\* The body of an honest block: what PrepareProposal selected.
LEMMA HonestBody ==
    ASSUME NEW s, NEW h, NEW mempool \in Mempools, NEW vs,
           NEW block, block = PrepareProposal(s, h, mempool, vs),
           BatchIsDue(s, h) => block # <<>>
    PROVE  Body(s, block, h) \in Seq(Txs)
<1>1. mempool \in Seq(Txs)
  BY MempoolIsSeq
<1>2. CASE ~BatchIsDue(s, h)
  <2>1. block = SelectTxs([s EXCEPT !.height = h], h, mempool, MaxBlockTxs)
    BY <1>2 DEF PrepareProposal
  <2> QED
    BY <1>1, <1>2, <2>1, PickedApply DEF Body, Applicable
<1>3. CASE BatchIsDue(s, h)
  <2> DEFINE bundle == AggregateVoteExtensions(s, DueBatch(h), vs)
             q == SelectTxs(ExecuteBundle([s EXCEPT !.height = h], bundle), h, mempool,
                            MaxBlockTxs - 1)
  <2>1. block = <<bundle>> \o q
    BY <1>3 DEF PrepareProposal
  <2>2. q \in Seq(Txs)
    BY <1>1, PickedApply DEF Applicable
  <2> HIDE DEF q, bundle
  <2>3. Tail(block) = q
    BY <2>1, <2>2, ConsFacts
  <2> QED
    BY <1>3, <2>2, <2>3 DEF Body
<1> QED
  BY <1>2, <1>3

\* The body of an accepted block of a faulty proposer: its bundle, if any, is
\* the one in front.
LEMMA FaultyBody ==
    ASSUME NEW s, NEW t, NEW h, NEW mempool \in Mempools, NEW x, IsSystem(x), NEW block,
           \/ block = mempool
           \/ block = <<x>> \o mempool
           \/ block = mempool \o <<x>>,
           BatchIsDue(s, h) => OpensWithBundle(t, block, h),
           NoSystemTx(Body(s, block, h))
    PROVE  Body(s, block, h) \in Seq(Txs)
<1>1. mempool \in Seq(Txs) /\ Len(mempool) \in Nat
  BY MempoolIsSeq
<1>2. BatchIsDue(s, h) => block # <<>> /\ IsSystem(block[1])
  BY DEF OpensWithBundle
<1>3. CASE block = mempool
  <2>1. ~BatchIsDue(s, h)
    <3> SUFFICES ASSUME block # <<>> PROVE ~IsSystem(block[1])
      BY <1>2
    <3>1. 1 \in 1..Len(mempool)
      BY <1>1, <1>3
    <3> QED
      BY <1>1, <1>3, <3>1, ClientTxs
  <2> QED
    BY <1>1, <1>3, <2>1 DEF Body
<1>4. CASE block = <<x>> \o mempool
  <2>1. block # <<>> /\ Len(block) = Len(mempool) + 1 /\ block[1] = x /\ Tail(block) = mempool
    BY <1>1, <1>4, ConsFacts
  <2>2. BatchIsDue(s, h)
    <3>1. 1 \in 1..Len(block)
      BY <1>1, <2>1
    <3> QED
      BY <2>1, <3>1 DEF Body, NoSystemTx
  <2> QED
    BY <1>1, <2>1, <2>2 DEF Body
<1>5. CASE block = mempool \o <<x>>
  <2> DEFINE S == Txs \cup {x}
  <2>1. /\ mempool \in Seq(S) /\ <<x>> \in Seq(S) /\ Len(<<x>>) = 1 /\ <<x>>[1] = x
    BY <1>1
  <2>2. /\ block \in Seq(S) /\ Len(block) = Len(mempool) + 1
        /\ \A i \in 1..Len(mempool) : block[i] = mempool[i]
        /\ block[Len(mempool) + 1] = x
    BY <1>1, <1>5, <2>1
  <2>3. CASE Len(mempool) = 0
    <3>1. Len(block) = 1 /\ block[1] = x
      BY <2>2, <2>3
    <3>2. BatchIsDue(s, h)
      BY <3>1 DEF Body, NoSystemTx
    <3> DEFINE rest == Tail(block)
    <3>3. rest \in Seq(S) /\ Len(rest) = 0
      <4>1. block \in Seq(S) /\ Len(block) = 1 /\ block # <<>>
        BY <2>2, <3>1
      <4> HIDE DEF S
      <4>2. \A q \in Seq(S) : q # <<>> => Tail(q) \in Seq(S) /\ Len(Tail(q)) = Len(q) - 1
        OBVIOUS
      <4> QED
        BY <4>1, <4>2
    <3>4. Body(s, block, h) = rest
      BY <3>2 DEF Body
    <3> HIDE DEF rest
    <3>5. rest = [i \in 1..0 |-> rest[i]]
      BY <3>3
    <3>6. rest \in [1..0 -> Txs] /\ 0 \in Nat
      BY <3>5
    <3>7. rest \in Seq(Txs)
      BY <3>6
    <3> QED
      BY <3>4, <3>7
  <2>4. CASE Len(mempool) # 0
    <3>1. 1 \in 1..Len(mempool) /\ block[1] = mempool[1]
      BY <1>1, <2>2, <2>4
    <3>2. ~BatchIsDue(s, h)
      BY <1>1, <1>2, <3>1, ClientTxs
    <3>3. Len(mempool) + 1 \in 1..Len(block)
      BY <1>1, <2>2
    <3> QED
      BY <2>2, <3>2, <3>3 DEF Body, NoSystemTx
  <2> QED
    BY <2>3, <2>4
<1> QED
  BY <1>3, <1>4, <1>5

\* A replica at the tip of the chain has the last ledger state.
LEMMA InSyncAtTip ==
    ASSUME Inv, NEW r \in InSync(Len(chain) + 1)
    PROVE  r \in Correct /\ committed[r] = Tip
<1>1. r \in Correct /\ committed[r].height = Len(chain) /\ IsLedgerState(committed[r])
  BY DEF InSync, Inv, ReplicaInv, ChainInv, IsSeq
<1>2. Len(chain) \in Nat /\ Len(ledger) = Len(chain) + 1
  BY DEF Inv, ChainInv, IsSeq
<1> QED
  BY <1>1, <1>2 DEF IsLedgerState, NoState, Tip

\* What Inv says of the last ledger state.
LEMMA TipFacts ==
    ASSUME Inv
    PROVE  /\ Len(chain) \in Nat /\ Len(ledger) = Len(chain) + 1
           /\ Tip = ledger[Len(chain) + 1] /\ IsState(Tip) /\ BatchLifecycleOf(Tip)
           /\ Tip.height = Len(chain)
<1>1. Len(chain) \in Nat /\ Len(ledger) = Len(chain) + 1
  BY DEF Inv, ChainInv, IsSeq
<1>2. Len(chain) + 1 \in 1..Len(ledger)
  BY <1>1
<1> QED
  BY <1>1, <1>2 DEF Inv, LedgerInv, Tip

\* Deciding a block keeps the last ledger state sound.
LEMMA DecideSound ==
    ASSUME Inv, Sound(Tip), NEW block, DecideBlock(block), Len(chain) < MaxHeight,
           NEW h, h = Len(chain) + 1,
           FinalizeSucceeds(Tip, block, h) => Body(Tip, block, h) \in Seq(Txs)
    PROVE  Sound(Tip)'
<1> DEFINE s == Tip
           t == FinalizeState(s, block, h)
<1>1. /\ Len(chain) \in Nat /\ Len(ledger) = h /\ s = ledger[h] /\ IsState(s)
      /\ BatchLifecycleOf(s) /\ h = s.height + 1 /\ IsSeq(ledger)
  BY TipFacts DEF Inv, ChainInv
<1>2. FinalizeSucceeds(s, block, h) /\ ledger' = Append(ledger, t)
  BY <1>1, DecideFacts
<1>3. Tip' = t
  <2> HIDE DEF t
  <2>1. Len(Append(ledger, t)) = Len(ledger) + 1 /\ Append(ledger, t)[Len(ledger) + 1] = t
    BY <1>1, AppendIsSeq
  <2> QED
    BY <1>2, <2>1 DEF Tip
<1>4. h \in Heights
  BY <1>1, BoundAssumption DEF Heights
<1>5. Sound(t)
  <2>1. BatchIsDue(s, h) => OpensWithBundle(AnchorBatch(s, h), block, h)
    BY <1>2 DEF FinalizeSucceeds
  <2> HIDE DEF s
  <2> QED
    BY <1>1, <1>2, <1>4, <2>1, FinalizeSound DEF s
<1> QED
  BY <1>3, <1>5

\* Every step does.
LEMMA NextSound == Inv /\ Sound(Tip) /\ [Next]_vars => Sound(Tip)'
<1> SUFFICES ASSUME Inv, Sound(Tip), [Next]_vars PROVE Sound(Tip)'
  OBVIOUS
<1> DEFINE h == Len(chain) + 1
<1>1. CASE HonestRound
  <2>1. PICK block \in HonestBlocks(h) : DecideBlock(block)
    BY <1>1 DEF HonestRound
  <2>2. PICK p \in InSync(h), m \in Mempools :
          block = PrepareProposal(committed[p], h, m, votes)
    BY <2>1 DEF HonestBlocks
  <2>3. committed[p] = Tip
    BY <2>2, InSyncAtTip
  <2>4. ASSUME FinalizeSucceeds(Tip, block, h)
        PROVE  Body(Tip, block, h) \in Seq(Txs)
    <3>1. BatchIsDue(Tip, h) => block # <<>>
      BY <2>4 DEF FinalizeSucceeds, OpensWithBundle
    <3>2. block = PrepareProposal(Tip, h, m, votes)
      BY <2>2, <2>3
    <3> HIDE DEF h
    <3> QED
      BY <2>2, <3>1, <3>2, HonestBody
  <2>5. Len(chain) < MaxHeight
    BY <1>1 DEF HonestRound
  <2> QED
    BY <2>1, <2>4, <2>5, DecideSound
<1>2. CASE FaultyRound
  <2>1. PICK m \in Mempools :
          \/ DecideBlock(m)
          \/ \E x \in FaultyBundles : DecideBlock(<<x>> \o m) \/ DecideBlock(m \o <<x>>)
    BY <1>2 DEF FaultyRound
  <2>2. Len(chain) < MaxHeight
    BY <1>2 DEF FaultyRound
  <2>3. ASSUME NEW x, IsSystem(x), NEW block, DecideBlock(block),
               \/ block = m
               \/ block = <<x>> \o m
               \/ block = m \o <<x>>
        PROVE  Sound(Tip)'
    <3>1. ASSUME FinalizeSucceeds(Tip, block, h)
          PROVE  Body(Tip, block, h) \in Seq(Txs)
      <4>1. /\ BatchIsDue(Tip, h) => OpensWithBundle(AnchorBatch(Tip, h), block, h)
            /\ NoSystemTx(Body(Tip, block, h))
        BY <3>1 DEF FinalizeSucceeds
      <4> HIDE DEF h
      <4> QED
        BY <2>1, <2>3, <4>1, FaultyBody
    <3> QED
      BY <2>2, <2>3, <3>1, DecideSound
  <2>4. ASSUME DecideBlock(m) PROVE Sound(Tip)'
    <3> DEFINE x == [kind |-> "system"]
    <3>1. IsSystem(x)
      BY DEF IsSystem
    <3> QED
      BY <2>3, <2>4, <3>1
  <2>5. ASSUME NEW x \in FaultyBundles, DecideBlock(<<x>> \o m) \/ DecideBlock(m \o <<x>>)
        PROVE  Sound(Tip)'
    <3>1. IsSystem(x)
      BY DEF FaultyBundles, IsSystem
    <3> QED
      BY <2>3, <2>5, <3>1
  <2> QED
    BY <2>1, <2>4, <2>5
<1>3. ASSUME UNCHANGED ledger PROVE Sound(Tip)'
  BY <1>3 DEF Tip
<1>4. CASE UNCHANGED vars
  BY <1>3, <1>4 DEF vars
<1>5. ASSUME NEW r \in Correct,
             \/ InitChain(r) \/ FinalizeBlock(r) \/ Commit(r)
             \/ Crash(r) \/ CrashInCommit(r) \/ CrashInInitChain(r) \/ Open(r)
      PROVE  Sound(Tip)'
  BY <1>3, <1>5 DEF InitChain, FinalizeBlock, Commit, Crash, CrashInCommit,
                    CrashInInitChain, Open, Stop
<1> QED
  BY <1>1, <1>2, <1>4, <1>5 DEF Next

\* The last ledger state is sound in every reachable state.
LEMMA TipIsSound == Spec => [](Inv /\ Sound(Tip))
<1>1. Init => Sound(Tip)
  <2>1. Init => Tip = Genesis
    BY DEF Init, Tip
  <2> QED
    BY <2>1, GenesisSound
<1> QED
  BY <1>1, InitInv, NextInv, NextSound, PTL DEF Spec

\* execute_verified_transaction takes a nonce once: the retained events of an
\* account are those of its last transactions, in nonce order and without a
\* gap, whatever correct and faulty proposers put into blocks.
THEOREM NoTransactionTwice == Spec => []NoReplay
<1>1. Sound(Tip) => NoReplay
  BY DEF Sound, LogSound, NoReplay
<1> QED
  BY <1>1, TipIsSound, PTL

-----------------------------------------------------------------------------
(***************************************************************************)
(* What a correct proposer proposes is accepted.                           *)
(***************************************************************************)

\* Of extensions with different validators there are k with the lowest ids.
LEMMA LowestExist ==
    ASSUME NEW S, IsFiniteSet(S), \A e \in S : e.validator \in Nat,
           \A e, f \in S : e.validator = f.validator => e = f,
           NEW k \in Nat, k <= Cardinality(S)
    PROVE  \E T \in SUBSET S : /\ Cardinality(T) = k
                               /\ \A t \in T, u \in S \ T : t.validator < u.validator
<1> DEFINE Lowest(T, n) == /\ Cardinality(T) = n
                           /\ \A t \in T, u \in S \ T : t.validator < u.validator
           N == {n \in Nat : n <= Cardinality(S) => \E T \in SUBSET S : Lowest(T, n)}
<1>0. Cardinality(S) \in Nat
  BY FS_CardinalityType
<1>1. 0 \in N
  <2>1. {} \in SUBSET S /\ Lowest({}, 0)
    BY FS_EmptySet
  <2> QED
    BY <2>1
<1>2. ASSUME NEW n \in Nat, n \in N PROVE n + 1 \in N
  <2> SUFFICES ASSUME n + 1 <= Cardinality(S)
               PROVE  \E T \in SUBSET S : Lowest(T, n + 1)
    OBVIOUS
  <2>1. PICK T \in SUBSET S : Lowest(T, n)
    BY <1>0, <1>2
  <2>2. IsFiniteSet(T)
    BY FS_Subset
  <2>3. S \ T # {}
    BY <1>0, <2>1
  <2> DEFINE V == {e.validator : e \in S \ T}
  <2>4. PICK m \in V : \A v \in V : m <= v
    <3>1. V \in SUBSET Nat /\ V # {}
      BY <2>3
    <3> HIDE DEF V
    <3> QED
      BY <3>1, LeastElement
  <2>5. PICK u \in S \ T : u.validator = m
    BY <2>4
  <2>6. Cardinality(T \cup {u}) = n + 1
    BY <2>1, <2>2, <2>5, FS_AddElement
  <2>7. ASSUME NEW t \in T \cup {u}, NEW w \in S \ (T \cup {u})
        PROVE  t.validator < w.validator
    <3>1. CASE t \in T
      BY <2>1, <3>1
    <3>2. CASE t = u
      <4>1. w \in S \ T /\ w # u /\ w \in S /\ u \in S
        BY <2>5
      <4>2. u.validator <= w.validator
        BY <2>4, <2>5, <4>1
      <4>3. u.validator # w.validator
        BY <4>1
      <4>4. u.validator \in Nat /\ w.validator \in Nat
        BY <4>1
      <4> QED
        BY <3>2, <4>2, <4>3, <4>4
    <3> QED
      BY <3>1, <3>2
  <2> QED
    BY <2>5, <2>6, <2>7
<1> HIDE DEF N
<1>3. k \in N
  BY <1>1, <1>2, Induction
<1> QED
  BY <1>3 DEF N

\* The extensions that can open batch b of state s, and who signed them.
GoodSigners(s, b, vs) ==
    {v \in DOMAIN vs : /\ vs[v] # None
                       /\ vs[v].validator = v
                       /\ ExtensionValid(vs[v], s, b, s.anchors[b])}

GoodExtensions(s, b, vs) ==
    {e \in BoundExtensions(vs) : ExtensionValid(e, s, b, s.anchors[b])}

\* As many as the validators whose shares can open the batch, one each.
LEMMA GoodFacts ==
    ASSUME NEW s, NEW b, NEW vs, DOMAIN vs \subseteq Validators
    PROVE  LET G == GoodExtensions(s, b, vs)
           IN  /\ IsFiniteSet(G) /\ Cardinality(G) = Cardinality(GoodSigners(s, b, vs))
               /\ \A e \in G : e.validator \in Nat /\ ExtensionValid(e, s, b, s.anchors[b])
               /\ \A e, f \in G : e.validator = f.validator => e = f
<1> DEFINE G == GoodExtensions(s, b, vs)
           V == GoodSigners(s, b, vs)
           f == [v \in V |-> vs[v]]
<1>1. V \subseteq Validators /\ V \subseteq Nat /\ IsFiniteSet(V)
  <2>1. V \subseteq Validators
    BY DEF GoodSigners
  <2> QED
    BY <2>1, ValidatorsAssumption, FS_Subset
<1>2. \A v \in V : vs[v] \in G /\ vs[v].validator = v
  BY DEF GoodSigners, GoodExtensions, BoundExtensions
<1>3. \A e \in G : e.validator \in V /\ vs[e.validator] = e
  BY DEF GoodSigners, GoodExtensions, BoundExtensions
<1>4. \A e \in G : ExtensionValid(e, s, b, s.anchors[b])
  BY DEF GoodExtensions
<1> HIDE DEF G, V
<1>5. f \in Bijection(V, G)
  <2>1. f \in [V -> G]
    BY <1>2
  <2>2. \A v, w \in V : f[v] = f[w] => v = w
    BY <1>2
  <2>3. \A e \in G : \E v \in V : f[v] = e
    BY <1>3
  <2> HIDE DEF f
  <2> QED
    BY <2>1, <2>2, <2>3 DEF Bijection, Injection, Surjection, IsInjective
<1>6. ExistsBijection(V, G)
  BY <1>5 DEF ExistsBijection
<1>7. IsFiniteSet(G) /\ Cardinality(G) = Cardinality(V)
  BY <1>1, <1>6, FS_Bijection
<1> QED
  BY <1>1, <1>3, <1>4, <1>7 DEF G, V

\* A bundle from the votes whose shares can open the batch.
LEMMA AggregateFacts ==
    ASSUME NEW s, NEW b \in Nat, NEW vs, DOMAIN vs \subseteq Validators,
           Cardinality(GoodSigners(s, b, vs)) >= Threshold,
           NEW x, x = AggregateVoteExtensions(s, b, vs)
    PROVE  /\ x # None /\ IsSystem(x) /\ x.batch = b
           /\ x.app_hash = s.anchors[b] /\ x.orders = s.pending[b]
           /\ Cardinality(x.shares) = Threshold
           /\ \A e, f \in x.shares : e.validator = f.validator => e = f
           /\ \A e \in x.shares : ExtensionValid(e, s, b, s.anchors[b])
<1> DEFINE G == GoodExtensions(s, b, vs)
<1>1. /\ IsFiniteSet(G) /\ Cardinality(G) = Cardinality(GoodSigners(s, b, vs))
      /\ \A e \in G : e.validator \in Nat /\ ExtensionValid(e, s, b, s.anchors[b])
      /\ \A e, f \in G : e.validator = f.validator => e = f
  BY GoodFacts
<1>2. /\ Threshold \in Nat /\ Cardinality(G) \in Nat /\ Threshold <= Cardinality(G)
  BY <1>1, FS_CardinalityType, QuorumAssumption
<1>3. x = IF Cardinality(G) < Threshold THEN None
          ELSE [kind |-> "system", batch |-> b, app_hash |-> s.anchors[b],
                orders |-> s.pending[b], shares |-> LowestShares(G)]
  BY DEF AggregateVoteExtensions, GoodExtensions
<1> HIDE DEF G
<1>4. x = [kind |-> "system", batch |-> b, app_hash |-> s.anchors[b],
           orders |-> s.pending[b], shares |-> LowestShares(G)]
  BY <1>2, <1>3
<1>5. /\ IsSystem(x) /\ x.batch = b /\ x.app_hash = s.anchors[b] /\ x.orders = s.pending[b]
      /\ x.shares = LowestShares(G)
  BY <1>4 DEF IsSystem
<1>6. x # None
  BY <1>5 DEF None
<1>7. LowestShares(G) \in SUBSET G /\ Cardinality(LowestShares(G)) = Threshold
  <2>1. \E T \in SUBSET G : /\ Cardinality(T) = Threshold
                            /\ \A t \in T, u \in G \ T : t.validator < u.validator
    BY <1>1, <1>2, LowestExist
  <2> QED
    BY <2>1 DEF LowestShares
<1> QED
  BY <1>1, <1>5, <1>6, <1>7

\* The accounts with a bond for a batch are as many as its orders.
LEMMA BondedCount ==
    ASSUME NEW s, Sound(s), NEW b \in Heights
    PROVE  Cardinality(Bonded(s, b)) = Cardinality(s.pending[b])
<1> DEFINE P == s.pending[b]
           B == Bonded(s, b)
           f == [tx \in P |-> tx.signer]
<1>1. /\ P \in SUBSET Txs /\ IsFiniteSet(P)
      /\ \A tx, u \in P : tx.signer = u.signer => tx = u
      /\ \A a \in Signers : s.bonds[b][a] > 0 <=> \E tx \in P : tx.signer = a
  BY DEF Sound, BatchSound
<1>2. \A tx \in P : tx.signer \in Signers
  BY <1>1, TxsAssumption DEF TxType
<1>3. \A tx \in P : tx.signer \in B
  BY <1>1, <1>2 DEF Bonded
<1>4. \A a \in B : \E tx \in P : tx.signer = a
  BY <1>1 DEF Bonded
<1> HIDE DEF P, B
<1>5. f \in Bijection(P, B)
  <2>1. f \in [P -> B]
    BY <1>3
  <2>2. \A tx, u \in P : f[tx] = f[u] => tx = u
    BY <1>1
  <2>3. \A a \in B : \E tx \in P : f[tx] = a
    BY <1>4
  <2> HIDE DEF f
  <2> QED
    BY <2>1, <2>2, <2>3 DEF Bijection, Injection, Surjection, IsInjective
<1>6. ExistsBijection(P, B)
  BY <1>5 DEF ExistsBijection
<1>7. Cardinality(B) = Cardinality(P)
  BY <1>1, <1>6, FS_Bijection
<1> QED
  BY <1>7 DEF P, B

\* queue_private_order and release_margin: a batch holds one bond for each of its
\* orders, an account's reservation covers its bonds in the two batches in
\* flight, and no account has reserved more than it owns, so that settling the
\* batches one after the other never underflows.  Collateral and fees are what
\* was credited.
THEOREM BondsAreHeld == Spec => []MarginAddsUp
<1>1. Sound(Tip) => BondsMatchOrders
  <2> SUFFICES ASSUME Sound(Tip), NEW b \in Heights
               PROVE  /\ Bonded(Tip, b) = {tx.signer : tx \in Tip.pending[b]}
                      /\ Cardinality(Bonded(Tip, b)) = Cardinality(Tip.pending[b])
    BY DEF BondsMatchOrders
  <2>1. BatchSound(Tip.pending[b], Tip.bonds[b])
    BY DEF Sound
  <2>2. \A tx \in Tip.pending[b] : tx.signer \in Signers
    BY <2>1, TxsAssumption DEF BatchSound, TxType
  <2> QED
    BY <2>1, <2>2, BondedCount DEF BatchSound, Bonded
<1>2. Sound(Tip) => ReservationsHold
  <2> SUFFICES ASSUME Sound(Tip), NEW a \in Signers
               PROVE  /\ Available(Tip, a) >= 0
                      /\ \A b, c \in Heights : b # c =>
                            Tip.bonds[b][a] + Tip.bonds[c][a] <= Tip.reserved[a]
    BY DEF ReservationsHold
  <2>1. /\ Tip.reserved[a] \in Int /\ Tip.collateral[a] \in Int
        /\ Tip.reserved[a] <= Tip.collateral[a]
        /\ \A b \in Heights : Tip.bonds[b][a] \in Nat
    BY DEF Sound, Solvent, BatchSound
  <2>2. \A b \in Heights : \A c \in Heights :
          c # b => Tip.reserved[a] >= Tip.bonds[b][a] + Tip.bonds[c][a]
    BY DEF Sound, Covered
  <2>3. Available(Tip, a) >= 0
    BY <2>1 DEF Available
  <2> QED
    BY <2>1, <2>2, <2>3
<1>3. Inv /\ Sound(Tip) => \A a \in Signers :
          SumFunctionOnSet([b \in Heights |-> Tip.bonds[b][a]], Heights) <= Tip.reserved[a]
  <2> SUFFICES ASSUME Inv, Sound(Tip), NEW a \in Signers
               PROVE  SumFunctionOnSet([b \in Heights |-> Tip.bonds[b][a]], Heights)
                         <= Tip.reserved[a]
    OBVIOUS
  <2> DEFINE f == [b \in Heights |-> Tip.bonds[b][a]]
  <2>1. /\ IsFiniteSet(Heights)
        /\ \A b \in Heights : f[b] = Tip.bonds[b][a] /\ f[b] \in Nat
    <3>1. \A b \in Heights : Tip.bonds[b][a] \in Nat
      BY DEF Sound, BatchSound
    <3>2. IsFiniteSet(0..MaxHeight)
      BY BoundAssumption, FS_Interval
    <3> QED
      BY <3>1, <3>2 DEF Heights
  <2>2. /\ Tip.reserved[a] \in Int
        /\ \A b \in Heights : \A c \in Heights :
              /\ f[b] <= Tip.reserved[a]
              /\ c # b => f[b] + f[c] <= Tip.reserved[a]
    BY <2>1 DEF Sound, Covered
  <2>3. /\ BatchLifecycleOf(Tip) /\ Tip.height \in Heights
    BY TipFacts DEF IsState
  <2>4. \A b \in Heights : f[b] = 0 \/ b \in {Tip.height - 1, Tip.height}
    <3>1. \A b \in Heights : Tip.pending[b] = {} => Tip.bonds[b][a] = 0
      BY DEF Sound, BatchSound
    <3> QED
      BY <2>1, <2>3, <3>1 DEF BatchLifecycleOf
  <2> HIDE DEF f
  <2> DEFINE h == Tip.height
  <2>5. CASE h = 0
    <3>1. \A b \in Heights : b = 0 \/ f[b] = 0
      BY <2>3, <2>4, <2>5, BoundAssumption DEF Heights
    <3>2. f[0] <= Tip.reserved[a] /\ 0 \in Heights
      BY <2>2, <2>3, <2>5
    <3>3. SumFunctionOnSet(f, Heights) = f[0]
      <4> DEFINE rest == Heights \ {0}
      <4>1. /\ Heights \in SUBSET Heights /\ IsFiniteSet(rest)
            /\ \A x \in Heights : f[x] \in Int
            /\ \A x \in rest : f[x] = 0
        BY <2>1, <3>1, FS_Subset
      <4>2. SumFunctionOnSet(f, Heights) = f[0] + SumFunctionOnSet(f, rest)
        BY <2>1, <3>2, <4>1, SumRemoved
      <4> HIDE DEF rest
      <4>3. SumFunctionOnSet(f, rest) = 0 * Cardinality(rest)
        BY <4>1, SumOfEqual
      <4>4. SumFunctionOnSet(f, rest) = 0
        BY <4>1, <4>3, FS_CardinalityType
      <4> QED
        BY <3>2, <4>1, <4>2, <4>4
    <3> QED
      BY <3>2, <3>3 DEF f
  <2>6. CASE h # 0
    <3> DEFINE g == h - 1
    <3>1. /\ g \in Heights /\ h \in Heights /\ g # h
          /\ \A b \in Heights : b # g /\ b # h => f[b] = 0
      BY <2>3, <2>4, <2>6, BoundAssumption DEF Heights
    <3> HIDE DEF g, h
    <3>2. SumFunctionOnSet(f, Heights) = f[g] + f[h]
      BY <2>1, <3>1, SumOfTwo
    <3>3. f[g] + f[h] <= Tip.reserved[a]
      BY <2>2, <3>1
    <3> QED
      BY <3>2, <3>3 DEF f
  <2> QED
    BY <2>5, <2>6
<1>4. Inv /\ Sound(Tip) => MarginAddsUp
  BY <1>1, <1>2, <1>3 DEF MarginAddsUp, Sound, Balanced
<1> QED
  BY <1>4, TipIsSound, PTL

\* The bundle that a correct proposer makes of the last commit executes, if
\* the orders of the batch can be settled.
LEMMA BundleOfVotesExecutes ==
    ASSUME Inv, Sound(Tip), \A tx \in Txs : tx.settles,
           NEW h, h = Len(chain) + 1, h \in Heights, BatchIsDue(Tip, h),
           NEW scratch, scratch = AtHeight(Tip, h),
           NEW x, x = AggregateVoteExtensions(Tip, DueBatch(h), votes)
    PROVE  /\ x # None /\ IsSystem(x) /\ Tip.anchors[DueBatch(h)] # NoState
           /\ BundleExecutes(scratch, x, h)
<1> DEFINE s == Tip
           b == DueBatch(h)
<1>1. /\ IsState(s) /\ BatchLifecycleOf(s) /\ s.height = h - 1 /\ h \in Nat
  BY TipFacts, BoundAssumption DEF Heights
<1>2. b \in Heights /\ s.pending[b] # {}
  BY <1>1, BoundAssumption DEF BatchIsDue, DueBatch, Before, DelayBlocks, Heights
<1>3. Cardinality(GoodSigners(s, b, votes)) >= Threshold /\ DOMAIN votes \subseteq Validators
  BY DEF Inv, DueBatchCanBeOpened, GoodSigners
<1>4. b + 2 = h /\ b \in Nat /\ b < s.height
  <2>1. b > 0
    BY <1>1, <1>2 DEF BatchLifecycleOf
  <2> QED
    BY <1>1, <2>1 DEF DueBatch, Before, DelayBlocks
<1>5. s.anchors[b] # NoState /\ b \in s.frozen
  BY <1>1, <1>2, <1>4 DEF BatchLifecycleOf
<1> HIDE DEF s, b
<1>6. x = AggregateVoteExtensions(s, b, votes) /\ Sound(s) /\ scratch = AtHeight(s, h)
  BY DEF s, b
<1>7. /\ Sound(scratch) /\ scratch.pending = s.pending /\ scratch.bonds = s.bonds
      /\ scratch.anchors = s.anchors /\ scratch.frozen = s.frozen
      /\ scratch.reserved = s.reserved
  BY <1>6, HeightSet
<1>8. /\ x # None /\ IsSystem(x) /\ x.batch = b
      /\ x.app_hash = s.anchors[b] /\ x.orders = s.pending[b]
      /\ Cardinality(x.shares) = Threshold
      /\ \A e, f \in x.shares : e.validator = f.validator => e = f
      /\ \A e \in x.shares : ExtensionValid(e, s, b, s.anchors[b])
  BY <1>3, <1>4, <1>6, AggregateFacts
<1>9. \A e \in x.shares : ExtensionValid(e, scratch, b, scratch.anchors[b])
  BY <1>7, <1>8 DEF ExtensionValid
<1>10. Cardinality(Bonded(scratch, b)) = Cardinality(scratch.pending[b])
  BY <1>2, <1>7, BondedCount
<1>11. ASSUME NEW tx \in scratch.pending[b]
       PROVE  /\ scratch.bonds[b][tx.signer] >= MinBond
              /\ scratch.reserved[tx.signer] >= scratch.bonds[b][tx.signer]
              /\ tx.settles
  <2>1. /\ BatchSound(scratch.pending[b], scratch.bonds[b])
        /\ Covered(scratch)
    BY <1>2, <1>7 DEF Sound
  <2>2. tx \in Txs /\ tx.signer \in Signers
    BY <2>1, TxsAssumption DEF BatchSound, TxType
  <2>3. scratch.bonds[b][tx.signer] \in Nat /\ scratch.bonds[b][tx.signer] > 0
    BY <2>1, <2>2 DEF BatchSound
  <2>4. scratch.reserved[tx.signer] >= scratch.bonds[b][tx.signer]
    BY <1>2, <2>1, <2>2 DEF Covered
  <2> QED
    BY <2>2, <2>3, <2>4 DEF MinBond
<1>12. /\ b + DelayBlocks = h
       /\ scratch.pending[b] # {} /\ scratch.anchors[b] # NoState /\ b \in scratch.frozen
       /\ x.app_hash = scratch.anchors[b] /\ x.orders = scratch.pending[b]
  BY <1>2, <1>4, <1>5, <1>7, <1>8 DEF DelayBlocks
<1>13. BundleExecutes(scratch, x, h)
  <2>1. x.batch = b
    BY <1>8
  <2> QED
    BY <1>2, <1>8, <1>9, <1>10, <1>11, <1>12, <2>1 DEF BundleExecutes
<1> QED
  BY <1>5, <1>8, <1>13 DEF s, b

\* A correct proposer's block, seen by a replica with the same state.
LEMMA ProposalAccepted ==
    ASSUME Inv, Sound(Tip), \A tx \in Txs : tx.settles, MaxBlockTxs > 0,
           NEW h, h = Len(chain) + 1, h \in Heights, NEW mempool \in Mempools,
           NEW block, block = PrepareProposal(Tip, h, mempool, votes)
    PROVE  ProcessProposal(Tip, block, h)
<1> DEFINE scratch == [Tip EXCEPT !.height = h]
<1>1. mempool \in Seq(Txs)
  BY MempoolIsSeq
<1>2. CASE ~BatchIsDue(Tip, h)
  <2>1. block = SelectTxs(scratch, h, mempool, MaxBlockTxs)
    BY <1>2 DEF PrepareProposal
  <2>2. Body(Tip, block, h) = block /\ AfterBundle(Tip, scratch, block, h) = scratch
    BY <1>2 DEF Body, AfterBundle
  <2> HIDE DEF scratch
  <2>3. block \in Seq(Txs) /\ AllApply(scratch, block, h)
    BY <1>1, <2>1, PickedApply DEF Applicable
  <2>4. NoSystemTx(block)
    BY <2>3, ClientTxs DEF NoSystemTx
  <2> QED
    BY <1>2, <2>2, <2>3, <2>4 DEF ProcessProposal, scratch
<1>3. CASE BatchIsDue(Tip, h)
  <2> DEFINE x == AggregateVoteExtensions(Tip, DueBatch(h), votes)
             after == ExecuteBundle(scratch, x)
             q == SelectTxs(after, h, mempool, MaxBlockTxs - 1)
  <2>10. scratch = AtHeight(Tip, h)
    BY DEF AtHeight
  <2>1. /\ x # None /\ IsSystem(x) /\ Tip.anchors[DueBatch(h)] # NoState
        /\ BundleExecutes(scratch, x, h)
    <3> HIDE DEF scratch, x
    <3>1. x = AggregateVoteExtensions(Tip, DueBatch(h), votes)
      BY DEF x
    <3> QED
      BY <1>3, <2>10, <3>1, BundleOfVotesExecutes
  <2>2. MaxBlockTxs # 0
    BY BoundAssumption
  <2>3. block = <<x>> \o q
    BY <1>3, <2>1, <2>2 DEF PrepareProposal
  <2> HIDE DEF scratch, x
  <2>4. after = ExecuteBundle(scratch, x)
    OBVIOUS
  <2> HIDE DEF after
  <2>5. q \in Seq(Txs) /\ AllApply(after, q, h)
    BY <1>1, PickedApply DEF Applicable
  <2> HIDE DEF q
  <2>6. block # <<>> /\ block[1] = x /\ Tail(block) = q
    BY <2>3, <2>5, ConsFacts
  <2>7. Body(Tip, block, h) = q /\ AfterBundle(Tip, scratch, block, h) = after
    BY <1>3, <2>4, <2>6 DEF Body, AfterBundle
  <2>8. NoSystemTx(q)
    BY <2>5, ClientTxs DEF NoSystemTx
  <2>9. OpensWithBundle(scratch, block, h)
    BY <2>1, <2>6 DEF OpensWithBundle
  <2> QED
    BY <2>5, <2>7, <2>8, <2>9 DEF ProcessProposal, scratch
<1> QED
  BY <1>2, <1>3

\* What prepare_proposal of a correct validator returns, process_proposal of
\* every correct validator at that height accepts: the commit lets it open the
\* due batch, the bonds of the batch are all there and still covered, and the
\* rest of the block applies in turn.  The orders of the batch must pass the
\* settlement's margin checks, and a block must have room for the bundle.
THEOREM HonestBlocksAccepted ==
    ASSUME \A tx \in Txs : tx.settles, MaxBlockTxs > 0
    PROVE  Spec => []HonestProposalAccepted
<1>1. Inv /\ Sound(Tip) => HonestProposalAccepted
  <2> DEFINE h == Len(chain) + 1
  <2> SUFFICES ASSUME Inv, Sound(Tip), h <= MaxHeight,
                      NEW block \in HonestBlocks(h), NEW r \in InSync(h)
               PROVE  ProcessProposal(committed[r], block, h)
    BY DEF HonestProposalAccepted
  <2>1. PICK p \in InSync(h), m \in Mempools :
          block = PrepareProposal(committed[p], h, m, votes)
    BY DEF HonestBlocks
  <2>2. committed[p] = Tip /\ committed[r] = Tip
    BY <2>1, InSyncAtTip
  <2>3. h \in Heights
    BY TipFacts, BoundAssumption DEF Heights
  <2> HIDE DEF h
  <2>4. block = PrepareProposal(Tip, h, m, votes)
    BY <2>1, <2>2
  <2>5. ProcessProposal(Tip, block, h)
    BY <2>1, <2>3, <2>4, ProposalAccepted DEF h
  <2> QED
    BY <2>2, <2>5
<1> QED
  BY <1>1, TipIsSound, PTL

=============================================================================
