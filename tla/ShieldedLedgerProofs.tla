------------------------ MODULE ShieldedLedgerProofs ------------------------
(***************************************************************************)
(* Proofs about the shielded ledger, for every depth of the tree, every    *)
(* policy and every deposit and spend that may be submitted.               *)
(*                                                                         *)
(* The tree first: a cache that holds every inner node on the paths        *)
(* appended so far (Cached) stays one under an append, its root and its    *)
(* prefix roots are those of the reference tree, and a path leads to a     *)
(* root only for the leaf at its index.  Then the margin state: accepted   *)
(* roots are roots of growing prefixes (Counted), nullifiers are those of  *)
(* leaves (SpentLeaves).  Together they make SoundState inductive, from    *)
(* which LedgerRebuilds follows.                                           *)
(*                                                                         *)
(* Then the value: lemmas about sums over finite sets, what a step         *)
(* consumes and adds among the notes that are not spent (Consumed,         *)
(* NewLeaves), and the invariant of the value of a ledger (SoundValue,     *)
(* SoundDeposits).  ValueState is inductive and gives                      *)
(* LedgerConservesValue.                                                   *)
(*                                                                         *)
(* Last the witnesses: every leaf commits to its opening (CommittedState), *)
(* distinct states of the tree have distinct roots (RootsDiffer), and a    *)
(* transfer proved at an accepted root is accepted (TransferAccepted),     *)
(* which gives WitnessesLast.                                              *)
(***************************************************************************)
EXTENDS ShieldedLedger, FiniteSetTheorems, WellFoundedInduction, TLAPS

\* Induction over the naturals, for sets.
LEMMA Induction ==
    ASSUME NEW S, 0 \in S, \A i \in Nat : i \in S => i + 1 \in S
    PROVE  Nat \subseteq S
<1> DEFINE R == OpToRel(<, Nat)
<1> SUFFICES ASSUME Nat \ S # {} PROVE FALSE
  OBVIOUS
<1>1. IsWellFoundedOn(R, Nat)
  BY NatLessThanWellFounded
<1>2. \A i, j \in Nat : i < j => <<i, j>> \in R
  BY DEF OpToRel
<1> HIDE DEF R
<1>3. PICK m \in Nat \ S : \A i \in Nat \ S : ~(<<i, m>> \in R)
  BY <1>1, WFMin
<1>4. m # 0 /\ m - 1 \in Nat /\ m - 1 < m
  BY <1>3
<1>5. m - 1 \in S
  BY <1>2, <1>3, <1>4
<1> QED
  BY <1>3, <1>4, <1>5

\* Induction over the heights of the tree.
LEMMA HeightInduction ==
    ASSUME NEW S, 0 \in S,
           \A h \in Heights : h + 1 \in Heights /\ h \in S => h + 1 \in S
    PROVE  Heights \subseteq S
<1> DEFINE T == {n \in Nat : n \in Heights => n \in S}
<1>1. 0 \in T
  OBVIOUS
<1>2. \A i \in Nat : i \in T => i + 1 \in T
  BY DepthAssumption DEF Heights
<1> HIDE DEF T
<1>3. Nat \subseteq T
  BY <1>1, <1>2, Induction
<1> QED BY <1>3 DEF T, Heights

-----------------------------------------------------------------------------
(* The recursive functions over the heights. *)

IsSpan(g, n) == g = [h \in 0 .. n |-> IF h = 0 THEN 1 ELSE 2 * g[h - 1]]

LEMMA SpanExists == \E g : IsSpan(g, MERKLE_DEPTH)
<1> DEFINE S == {n \in Nat : \E g : IsSpan(g, n)}
<1>1. 0 \in S
  <2>1. IsSpan([h \in 0 .. 0 |-> 1], 0)
    BY DEF IsSpan
  <2> QED BY <2>1
<1>2. ASSUME NEW n \in Nat, n \in S PROVE n + 1 \in S
  <2>1. PICK g : IsSpan(g, n)
    BY <1>2
  <2> DEFINE more == [h \in 0 .. n + 1 |-> IF h = 0 THEN 1 ELSE 2 * g[h - 1]]
  <2>2. \A h \in 0 .. n : more[h] = g[h]
    BY <2>1 DEF IsSpan
  <2>3. IsSpan(more, n + 1)
    <3>1. \A h \in 0 .. n + 1 : h # 0 => more[h - 1] = g[h - 1]
      BY <2>2
    <3> QED BY <3>1 DEF IsSpan
  <2> QED BY <2>3
<1> HIDE DEF S
<1>3. Nat \subseteq S
  BY <1>1, <1>2, Induction
<1> QED BY <1>3, DepthAssumption DEF S

LEMMA SpanIs ==
    /\ span[0] = 1
    /\ \A h \in Heights : h # 0 => span[h] = 2 * span[h - 1]
<1>1. span = CHOOSE g : IsSpan(g, MERKLE_DEPTH)
  BY DEF span, IsSpan, Heights
<1>2. IsSpan(span, MERKLE_DEPTH)
  BY <1>1, SpanExists, Zenon
<1> QED BY <1>2, DepthAssumption DEF IsSpan, Heights

IsZeros(g, n) ==
    g = [h \in 0 .. n |->
            IF h = 0 THEN <<"empty">>
            ELSE merkle_node_hash(g[h - 1], g[h - 1])]

LEMMA ZerosExists ==
    \E g : IsZeros(g, MERKLE_DEPTH)
<1> DEFINE S == {n \in Nat : \E g : IsZeros(g, n)}
<1>1. 0 \in S
  <2>1. IsZeros([h \in 0 .. 0 |-> <<"empty">>], 0)
    BY DEF IsZeros
  <2> QED BY <2>1
<1>2. ASSUME NEW n \in Nat, n \in S PROVE n + 1 \in S
  <2>1. PICK g : IsZeros(g, n)
    BY <1>2
  <2> DEFINE more == [h \in 0 .. n + 1 |->
                         IF h = 0 THEN <<"empty">>
                         ELSE merkle_node_hash(g[h - 1], g[h - 1])]
  <2>2. \A h \in 0 .. n : more[h] = g[h]
    BY <2>1 DEF IsZeros
  <2>3. IsZeros(more, n + 1)
    <3>1. \A h \in 0 .. n + 1 : h # 0 => h - 1 \in 0 .. n
      OBVIOUS
    <3>2. \A h \in 0 .. n + 1 : h # 0 => more[h - 1] = g[h - 1]
      BY <2>2, <3>1, Zenon
    <3> QED BY <3>2 DEF IsZeros
  <2> QED BY <2>3
<1> HIDE DEF S
<1>3. Nat \subseteq S
  BY <1>1, <1>2, Induction
<1> QED BY <1>3, DepthAssumption DEF S

LEMMA ZerosAre ==
    /\ merkle_zero_hashes[0] = <<"empty">>
    /\ \A h \in Heights : h # 0 =>
          merkle_zero_hashes[h]
             = merkle_node_hash(merkle_zero_hashes[h - 1], merkle_zero_hashes[h - 1])
<1>1. merkle_zero_hashes = CHOOSE g : IsZeros(g, MERKLE_DEPTH)
  BY DEF merkle_zero_hashes, IsZeros, Heights
<1>2. IsZeros(merkle_zero_hashes, MERKLE_DEPTH)
  BY <1>1, ZerosExists, Zenon
<1> QED BY <1>2, DepthAssumption DEF IsZeros, Heights

IsHalving(g, leaf_index, n) ==
    g = [h \in 0 .. n |-> IF h = 0 THEN leaf_index ELSE g[h - 1] \div 2]

LEMMA HalvingExists ==
    ASSUME NEW leaf_index
    PROVE  \E g : IsHalving(g, leaf_index, MERKLE_DEPTH)
<1> DEFINE S == {n \in Nat : \E g : IsHalving(g, leaf_index, n)}
<1>1. 0 \in S
  <2>1. IsHalving([h \in 0 .. 0 |-> leaf_index], leaf_index, 0)
    BY DEF IsHalving
  <2> QED BY <2>1
<1>2. ASSUME NEW n \in Nat, n \in S PROVE n + 1 \in S
  <2>1. PICK g : IsHalving(g, leaf_index, n)
    BY <1>2
  <2> DEFINE more == [h \in 0 .. n + 1 |->
                         IF h = 0 THEN leaf_index
                         ELSE g[h - 1] \div 2]
  <2>2. \A h \in 0 .. n : more[h] = g[h]
    BY <2>1 DEF IsHalving
  <2>3. IsHalving(more, leaf_index, n + 1)
    <3>1. \A h \in 0 .. n + 1 : h # 0 => h - 1 \in 0 .. n
      OBVIOUS
    <3>2. \A h \in 0 .. n + 1 : h # 0 => more[h - 1] = g[h - 1]
      BY <2>2, <3>1, Zenon
    <3> QED BY <3>2 DEF IsHalving
  <2> QED BY <2>3
<1> HIDE DEF S
<1>3. Nat \subseteq S
  BY <1>1, <1>2, Induction
<1> QED BY <1>3, DepthAssumption DEF S

LEMMA AncestorIs ==
    ASSUME NEW leaf_index
    PROVE  /\ Ancestor(leaf_index, 0) = leaf_index
           /\ \A h \in Heights : h # 0 =>
                 Ancestor(leaf_index, h) = Ancestor(leaf_index, h - 1) \div 2
<1> DEFINE index == CHOOSE g : IsHalving(g, leaf_index, MERKLE_DEPTH)
<1>1. \A h : Ancestor(leaf_index, h) = index[h]
  BY Zenon DEF Ancestor, IsHalving, Heights
<1>2. IsHalving(index, leaf_index, MERKLE_DEPTH)
  BY HalvingExists, Zenon
<1> HIDE DEF index
<1>3. index[0] = leaf_index /\ \A h \in Heights : h # 0 => index[h] = index[h - 1] \div 2
  BY <1>2, DepthAssumption DEF IsHalving, Heights
<1> QED BY <1>1, <1>3

IsNodes(g, leaves, n) ==
    g = [h \in 0 .. n |->
            IF h = 0 THEN LeafLevel(leaves)
            ELSE NodeLevel(h, g[h - 1])]

LEMMA NodesExists ==
    ASSUME NEW leaves
    PROVE  \E g : IsNodes(g, leaves, MERKLE_DEPTH)
<1> DEFINE S == {n \in Nat : \E g : IsNodes(g, leaves, n)}
<1>1. 0 \in S
  <2>1. IsNodes([h \in 0 .. 0 |-> LeafLevel(leaves)], leaves, 0)
    BY DEF IsNodes
  <2> QED BY <2>1
<1>2. ASSUME NEW n \in Nat, n \in S PROVE n + 1 \in S
  <2>1. PICK g : IsNodes(g, leaves, n)
    BY <1>2
  <2> DEFINE more == [h \in 0 .. n + 1 |->
                         IF h = 0 THEN LeafLevel(leaves)
                         ELSE NodeLevel(h, g[h - 1])]
  <2>2. \A h \in 0 .. n : more[h] = g[h]
    BY <2>1 DEF IsNodes
  <2>3. IsNodes(more, leaves, n + 1)
    <3>1. \A h \in 0 .. n + 1 : h # 0 => h - 1 \in 0 .. n
      OBVIOUS
    <3>2. \A h \in 0 .. n + 1 : h # 0 => more[h - 1] = g[h - 1]
      BY <2>2, <3>1, Zenon
    <3> QED BY <3>2 DEF IsNodes
  <2> QED BY <2>3
<1> HIDE DEF S
<1>3. Nat \subseteq S
  BY <1>1, <1>2, Induction
<1> QED BY <1>3, DepthAssumption DEF S

LEMMA LevelsAre ==
    ASSUME NEW leaves
    PROVE  /\ ReferenceNodes(leaves)[0] = LeafLevel(leaves)
           /\ \A h \in Heights : h # 0 =>
                 ReferenceNodes(leaves)[h] = NodeLevel(h, ReferenceNodes(leaves)[h - 1])
<1> DEFINE g == ReferenceNodes(leaves)
<1>1. g = CHOOSE f : IsNodes(f, leaves, MERKLE_DEPTH)
  BY Zenon DEF ReferenceNodes, IsNodes, Heights
<1>2. IsNodes(g, leaves, MERKLE_DEPTH)
  BY <1>1, NodesExists, Zenon
<1> HIDE DEF g
<1>3. g[0] = LeafLevel(leaves) /\ \A h \in Heights : h # 0 => g[h] = NodeLevel(h, g[h - 1])
  BY <1>2, DepthAssumption DEF IsNodes, Heights
<1> QED BY <1>3 DEF g

IsPath(g, tree, leaf_hash, leaf_index, n) ==
    g = [h \in 0 .. n |->
            IF h = 0 THEN leaf_hash
            ELSE HashOver(tree, h - 1, Ancestor(leaf_index, h - 1), g[h - 1])]

LEMMA PathExists ==
    ASSUME NEW tree, NEW leaf_hash, NEW leaf_index
    PROVE  \E g : IsPath(g, tree, leaf_hash, leaf_index, MERKLE_DEPTH)
<1> DEFINE S == {n \in Nat : \E g : IsPath(g, tree, leaf_hash, leaf_index, n)}
<1>1. 0 \in S
  <2>1. IsPath([h \in 0 .. 0 |-> leaf_hash], tree, leaf_hash, leaf_index, 0)
    BY DEF IsPath
  <2> QED BY <2>1
<1>2. ASSUME NEW n \in Nat, n \in S PROVE n + 1 \in S
  <2>1. PICK g : IsPath(g, tree, leaf_hash, leaf_index, n)
    BY <1>2
  <2> DEFINE more == [h \in 0 .. n + 1 |->
                         IF h = 0 THEN leaf_hash
                         ELSE HashOver(tree, h - 1, Ancestor(leaf_index, h - 1), g[h - 1])]
  <2>2. \A h \in 0 .. n : more[h] = g[h]
    BY <2>1 DEF IsPath
  <2>3. IsPath(more, tree, leaf_hash, leaf_index, n + 1)
    <3>1. \A h \in 0 .. n + 1 : h # 0 => h - 1 \in 0 .. n
      OBVIOUS
    <3>2. \A h \in 0 .. n + 1 : h # 0 => more[h - 1] = g[h - 1]
      BY <2>2, <3>1, Zenon
    <3> QED BY <3>2 DEF IsPath
  <2> QED BY <2>3
<1> HIDE DEF S
<1>3. Nat \subseteq S
  BY <1>1, <1>2, Induction
<1> QED BY <1>3, DepthAssumption DEF S

IsOpened(g, mp, note, n) ==
    g = [h \in 0 .. n |->
            IF h = 0 THEN merkle_leaf_hash(note)
            ELSE HashWith(mp.siblings[h], Ancestor(mp.leaf_index, h - 1), g[h - 1])]

LEMMA OpenedExists ==
    ASSUME NEW mp, NEW note
    PROVE  \E g : IsOpened(g, mp, note, MERKLE_DEPTH)
<1> DEFINE S == {n \in Nat : \E g : IsOpened(g, mp, note, n)}
<1>1. 0 \in S
  <2>1. IsOpened([h \in 0 .. 0 |-> merkle_leaf_hash(note)], mp, note, 0)
    BY DEF IsOpened
  <2> QED BY <2>1
<1>2. ASSUME NEW n \in Nat, n \in S PROVE n + 1 \in S
  <2>1. PICK g : IsOpened(g, mp, note, n)
    BY <1>2
  <2> DEFINE more == [h \in 0 .. n + 1 |->
                         IF h = 0 THEN merkle_leaf_hash(note)
                         ELSE HashWith(mp.siblings[h], Ancestor(mp.leaf_index, h - 1), g[h - 1])]
  <2>2. \A h \in 0 .. n : more[h] = g[h]
    BY <2>1 DEF IsOpened
  <2>3. IsOpened(more, mp, note, n + 1)
    <3>1. \A h \in 0 .. n + 1 : h # 0 => h - 1 \in 0 .. n
      OBVIOUS
    <3>2. \A h \in 0 .. n + 1 : h # 0 => more[h - 1] = g[h - 1]
      BY <2>2, <3>1, Zenon
    <3> QED BY <3>2 DEF IsOpened
  <2> QED BY <2>3
<1> HIDE DEF S
<1>3. Nat \subseteq S
  BY <1>1, <1>2, Induction
<1> QED BY <1>3, DepthAssumption DEF S

IsSubtrees(g, tree, leaf_count, n) ==
    g = [h \in 0 .. n |->
            IF h = 0 THEN PrefixLevel(tree, leaf_count, 0, <<>>)
            ELSE PrefixLevel(tree, leaf_count, h, g[h - 1])]

LEMMA PrefixExists ==
    ASSUME NEW tree, NEW leaf_count
    PROVE  \E g : IsSubtrees(g, tree, leaf_count, MERKLE_DEPTH)
<1> DEFINE S == {n \in Nat : \E g : IsSubtrees(g, tree, leaf_count, n)}
<1>1. 0 \in S
  <2>1. IsSubtrees([h \in 0 .. 0 |-> PrefixLevel(tree, leaf_count, 0, <<>>)], tree, leaf_count, 0)
    BY DEF IsSubtrees
  <2> QED BY <2>1
<1>2. ASSUME NEW n \in Nat, n \in S PROVE n + 1 \in S
  <2>1. PICK g : IsSubtrees(g, tree, leaf_count, n)
    BY <1>2
  <2> DEFINE more == [h \in 0 .. n + 1 |->
                         IF h = 0 THEN PrefixLevel(tree, leaf_count, 0, <<>>)
                         ELSE PrefixLevel(tree, leaf_count, h, g[h - 1])]
  <2>2. \A h \in 0 .. n : more[h] = g[h]
    BY <2>1 DEF IsSubtrees
  <2>3. IsSubtrees(more, tree, leaf_count, n + 1)
    <3>1. \A h \in 0 .. n + 1 : h # 0 => h - 1 \in 0 .. n
      OBVIOUS
    <3>2. \A h \in 0 .. n + 1 : h # 0 => more[h - 1] = g[h - 1]
      BY <2>2, <3>1, Zenon
    <3> QED BY <3>2 DEF IsSubtrees
  <2> QED BY <2>3
<1> HIDE DEF S
<1>3. Nat \subseteq S
  BY <1>1, <1>2, Induction
<1> QED BY <1>3, DepthAssumption DEF S

-----------------------------------------------------------------------------
(* Arithmetic of heights and indices. *)

LEMMA HeightsAre ==
    /\ MERKLE_DEPTH \in Nat /\ 0 \in Heights /\ MERKLE_DEPTH \in Heights
    /\ \A h \in Heights : /\ h \in Nat
                          /\ MERKLE_DEPTH - h \in Heights
                          /\ h # 0 => h - 1 \in Heights
BY DepthAssumption DEF Heights

LEMMA SpanPositive == \A h \in Heights : span[h] \in Nat /\ span[h] > 0
<1> DEFINE S == {h \in Heights : span[h] \in Nat /\ span[h] > 0}
<1>1. 0 \in S
  BY SpanIs, HeightsAre
<1>2. ASSUME NEW h \in Heights, h + 1 \in Heights, h \in S PROVE h + 1 \in S
  <2>1. span[h + 1] = 2 * span[h]
    BY <1>2, SpanIs, HeightsAre
  <2> QED BY <1>2, <2>1
<1> HIDE DEF S
<1>3. Heights \subseteq S
  BY <1>1, <1>2, HeightInduction
<1> QED BY <1>3 DEF S

\* A node at a height has two children one below.
LEMMA ChildrenAre ==
    ASSUME NEW h \in Heights, h # 0, NEW i \in Indices(h)
    PROVE  /\ h - 1 \in Heights
           /\ 2 * i \in Indices(h - 1)
           /\ 2 * i + 1 \in Indices(h - 1)
           /\ i \in Nat
           /\ span[h] = 2 * span[h - 1]
           /\ span[h - 1] \in Nat /\ span[h - 1] > 0
<1>1. h - 1 \in Heights /\ MERKLE_DEPTH - h \in Heights /\ MERKLE_DEPTH - (h - 1) \in Heights
  BY HeightsAre
<1>2. MERKLE_DEPTH - (h - 1) # 0 /\ MERKLE_DEPTH - (h - 1) - 1 = MERKLE_DEPTH - h
  BY DepthAssumption DEF Heights
<1>3. span[MERKLE_DEPTH - (h - 1)] = 2 * span[MERKLE_DEPTH - h]
  BY <1>1, <1>2, SpanIs
<1>4. span[MERKLE_DEPTH - h] \in Nat
  BY <1>1, SpanPositive
<1>5. i \in Nat /\ i < span[MERKLE_DEPTH - h]
  BY <1>4 DEF Indices
<1>6. 2 * i \in Indices(h - 1) /\ 2 * i + 1 \in Indices(h - 1)
  BY <1>3, <1>4, <1>5 DEF Indices
<1> QED BY <1>1, <1>5, <1>6, SpanIs, SpanPositive

LEMMA Halves ==
    ASSUME NEW a \in Nat
    PROVE  /\ a \div 2 \in Nat
           /\ a % 2 \in {0, 1}
           /\ a % 2 = 0 => a = 2 * (a \div 2)
           /\ a % 2 # 0 => a = 2 * (a \div 2) + 1
OBVIOUS

LEMMA Ranges ==
    ASSUME NEW a \in Nat, NEW p \in Nat, NEW s \in Nat, NEW n \in Nat,
           a = 2 * p \/ a = 2 * p + 1, a * s <= n, n < (a + 1) * s
    PROVE  p * (2 * s) <= n /\ n < (p + 1) * (2 * s)
<1>1. p * (2 * s) = (2 * p) * s /\ (p + 1) * (2 * s) = (2 * p + 2) * s
  OBVIOUS
<1>2. CASE a = 2 * p
  <2>1. (a + 1) * s <= (2 * p + 2) * s
    BY <1>2
  <2>2. (a + 1) * s \in Nat /\ (2 * p + 2) * s \in Nat
    OBVIOUS
  <2> QED BY <1>1, <1>2, <2>1, <2>2
<1>3. CASE a = 2 * p + 1
  <2>1. (2 * p) * s <= a * s
    BY <1>3
  <2>2. (2 * p) * s \in Nat /\ a * s \in Nat
    OBVIOUS
  <2> QED BY <1>1, <1>3, <2>1, <2>2
<1> QED BY <1>2, <1>3

\* The leaves under an ancestor.
LEMMA AncestorCovers ==
    ASSUME NEW n \in Nat, n < merkle_capacity, NEW h \in Heights
    PROVE  /\ Ancestor(n, h) \in Indices(h)
           /\ Ancestor(n, h) \in Nat
           /\ Ancestor(n, h) * span[h] <= n
           /\ n < (Ancestor(n, h) + 1) * span[h]
<1> DEFINE S == {k \in Heights : /\ Ancestor(n, k) \in Indices(k)
                                 /\ Ancestor(n, k) \in Nat
                                 /\ Ancestor(n, k) * span[k] <= n
                                 /\ n < (Ancestor(n, k) + 1) * span[k]}
<1>1. 0 \in S
  <2>1. Ancestor(n, 0) = n /\ span[0] = 1
    BY AncestorIs, SpanIs
  <2>2. n \in Indices(0)
    BY HeightsAre, SpanPositive DEF Indices, merkle_capacity
  <2> QED BY <2>1, <2>2, HeightsAre
<1>2. ASSUME NEW k \in Heights, k + 1 \in Heights, k \in S PROVE k + 1 \in S
  <2> DEFINE a == Ancestor(n, k)
             p == Ancestor(n, k + 1)
  <2>0. k + 1 # 0 /\ (k + 1) - 1 = k
    BY HeightsAre
  <2>1. p = a \div 2
    <3>1. Ancestor(n, k + 1) = Ancestor(n, (k + 1) - 1) \div 2
      BY <1>2, <2>0, AncestorIs
    <3> QED BY <2>0, <3>1, Zenon
  <2>2. /\ a \in Indices(k) /\ a \in Nat
        /\ a * span[k] <= n /\ n < (a + 1) * span[k]
    BY <1>2
  <2>3. span[k + 1] = 2 * span[k] /\ span[k] \in Nat
    BY <1>2, SpanIs, SpanPositive, HeightsAre
  <2> HIDE DEF a, p
  <2>4. p \in Nat /\ (a = 2 * p \/ a = 2 * p + 1)
    BY <2>1, <2>2, Halves
  <2>5. p * (2 * span[k]) <= n /\ n < (p + 1) * (2 * span[k])
    BY <2>2, <2>3, <2>4, Ranges
  <2>6. p \in Indices(k + 1)
    <3>1. MERKLE_DEPTH - k \in Heights /\ MERKLE_DEPTH - (k + 1) \in Heights
      BY <1>2, HeightsAre
    <3>2. MERKLE_DEPTH - k # 0 /\ MERKLE_DEPTH - (k + 1) = MERKLE_DEPTH - k - 1
      BY <1>2, DepthAssumption DEF Heights
    <3>3. span[MERKLE_DEPTH - k] = 2 * span[MERKLE_DEPTH - (k + 1)]
      BY <3>1, <3>2, SpanIs
    <3>4. span[MERKLE_DEPTH - (k + 1)] \in Nat
      BY <3>1, SpanPositive
    <3> QED BY <2>2, <2>4, <3>3, <3>4 DEF Indices
  <2> QED BY <1>2, <2>3, <2>4, <2>5, <2>6 DEF p
<1> HIDE DEF S
<1>3. Heights \subseteq S
  BY <1>1, <1>2, HeightInduction
<1> QED BY <1>3 DEF S

\* The root is the only node at the top, and every leaf is below it.
LEMMA RootIs ==
    /\ Indices(MERKLE_DEPTH) = {0}
    /\ \A n \in Nat : n < merkle_capacity => Ancestor(n, MERKLE_DEPTH) = 0
<1>1. Indices(MERKLE_DEPTH) = {0}
  <2>1. MERKLE_DEPTH - MERKLE_DEPTH = 0
    BY HeightsAre
  <2> QED BY <2>1, SpanIs DEF Indices
<1> QED BY <1>1, AncestorCovers, HeightsAre

-----------------------------------------------------------------------------
(* The reference tree. *)

Node(leaves, h, i) == ReferenceNodes(leaves)[h][i]

LEMMA NodeIs ==
    ASSUME NEW leaves
    PROVE  /\ \A i \in Indices(0) :
                 Node(leaves, 0, i) = IF i < Len(leaves) THEN merkle_leaf_hash(leaves[i + 1])
                                      ELSE merkle_zero_hashes[0]
           /\ \A h \in Heights : h # 0 => \A i \in Indices(h) :
                 Node(leaves, h, i) = merkle_node_hash(Node(leaves, h - 1, 2 * i),
                                                       Node(leaves, h - 1, 2 * i + 1))
<1> DEFINE g == ReferenceNodes(leaves)
<1>1. g[0] = LeafLevel(leaves) /\ \A h \in Heights : h # 0 => g[h] = NodeLevel(h, g[h - 1])
  BY LevelsAre
<1> HIDE DEF g
<1>2. \A i \in Indices(0) : g[0][i] = IF i < Len(leaves) THEN merkle_leaf_hash(leaves[i + 1])
                                      ELSE merkle_zero_hashes[0]
  BY <1>1 DEF LeafLevel
<1>3. ASSUME NEW h \in Heights, h # 0, NEW i \in Indices(h)
      PROVE  g[h][i] = merkle_node_hash(g[h - 1][2 * i], g[h - 1][2 * i + 1])
  <2>1. g[h] = NodeLevel(h, g[h - 1])
    BY <1>1, <1>3
  <2> QED BY <1>3, <2>1 DEF NodeLevel
<1> QED BY <1>2, <1>3 DEF g, Node

\* A node above no leaf is the zero hash of its height.
LEMMA EmptyNodes ==
    ASSUME NEW leaves, Len(leaves) \in Nat
    PROVE  \A h \in Heights : \A i \in Indices(h) :
              Len(leaves) <= i * span[h] => Node(leaves, h, i) = merkle_zero_hashes[h]
<1> DEFINE S == {h \in Heights : \A i \in Indices(h) :
                    Len(leaves) <= i * span[h] => Node(leaves, h, i) = merkle_zero_hashes[h]}
<1>1. 0 \in S
  <2> SUFFICES ASSUME NEW i \in Indices(0), Len(leaves) <= i * span[0]
               PROVE  Node(leaves, 0, i) = merkle_zero_hashes[0]
    BY HeightsAre
  <2>1. i \in Nat /\ ~(i < Len(leaves))
    BY SpanIs, SpanPositive, HeightsAre DEF Indices
  <2> QED BY <2>1, NodeIs
<1>2. ASSUME NEW h \in Heights, h + 1 \in Heights, h \in S PROVE h + 1 \in S
  <2> DEFINE k == h + 1
  <2>1. k \in Heights /\ k # 0 /\ k - 1 = h
    BY <1>2, HeightsAre
  <2>2. \A i \in Indices(h) :
            Len(leaves) <= i * span[h] => Node(leaves, h, i) = merkle_zero_hashes[h]
    BY <1>2
  <2> HIDE DEF k
  <2> SUFFICES ASSUME NEW i \in Indices(k), Len(leaves) <= i * span[k]
               PROVE  Node(leaves, k, i) = merkle_zero_hashes[k]
    BY <2>1 DEF k
  <2>3. /\ 2 * i \in Indices(h) /\ 2 * i + 1 \in Indices(h) /\ i \in Nat
        /\ span[k] = 2 * span[h] /\ span[h] \in Nat
    BY <2>1, ChildrenAre
  <2>4. i * span[k] = (2 * i) * span[h] /\ (2 * i) * span[h] <= (2 * i + 1) * span[h]
    BY <2>3
  <2>5. Len(leaves) <= (2 * i) * span[h] /\ Len(leaves) <= (2 * i + 1) * span[h]
    <3>1. (2 * i) * span[h] \in Nat /\ (2 * i + 1) * span[h] \in Nat
      BY <2>3
    <3> QED BY <2>4, <3>1
  <2>6. /\ Node(leaves, h, 2 * i) = merkle_zero_hashes[h]
        /\ Node(leaves, h, 2 * i + 1) = merkle_zero_hashes[h]
    BY <2>2, <2>3, <2>5
  <2>7. Node(leaves, k, i) = merkle_node_hash(Node(leaves, k - 1, 2 * i),
                                              Node(leaves, k - 1, 2 * i + 1))
    BY <2>1, NodeIs
  <2>8. merkle_zero_hashes[k] = merkle_node_hash(merkle_zero_hashes[k - 1],
                                                 merkle_zero_hashes[k - 1])
    BY <2>1, ZerosAre
  <2> QED BY <2>1, <2>6, <2>7, <2>8
<1> HIDE DEF S
<1>3. Heights \subseteq S
  BY <1>1, <1>2, HeightInduction
<1> QED BY <1>3 DEF S

\* The first k leaves of both are the same.
Agree(leaves, others, k) ==
    /\ Len(leaves) \in Nat /\ Len(others) \in Nat
    /\ k <= Len(leaves) /\ k <= Len(others)
    /\ \A j \in 1 .. k : leaves[j] = others[j]

\* Over leaves that are the same, nodes are the same.
LEMMA SameNodes ==
    ASSUME NEW leaves, NEW others, NEW k \in Nat, Agree(leaves, others, k)
    PROVE  \A h \in Heights : \A i \in Indices(h) :
              (i + 1) * span[h] <= k => Node(leaves, h, i) = Node(others, h, i)
<1> DEFINE S == {h \in Heights : \A i \in Indices(h) :
                    (i + 1) * span[h] <= k => Node(leaves, h, i) = Node(others, h, i)}
<1>1. 0 \in S
  <2> SUFFICES ASSUME NEW i \in Indices(0), (i + 1) * span[0] <= k
               PROVE  Node(leaves, 0, i) = Node(others, 0, i)
    BY HeightsAre
  <2>1. i \in Nat /\ i + 1 <= k
    BY SpanIs, SpanPositive, HeightsAre DEF Indices
  <2>2. /\ i < Len(leaves) /\ i < Len(others) /\ i + 1 \in 1 .. k
    BY <2>1 DEF Agree
  <2>3. leaves[i + 1] = others[i + 1]
    BY <2>2 DEF Agree
  <2> QED BY <2>2, <2>3, NodeIs
<1>2. ASSUME NEW h \in Heights, h + 1 \in Heights, h \in S PROVE h + 1 \in S
  <2> DEFINE m == h + 1
  <2>1. m \in Heights /\ m # 0 /\ m - 1 = h
    BY <1>2, HeightsAre
  <2>2. \A i \in Indices(h) :
            (i + 1) * span[h] <= k => Node(leaves, h, i) = Node(others, h, i)
    BY <1>2
  <2> HIDE DEF m
  <2> SUFFICES ASSUME NEW i \in Indices(m), (i + 1) * span[m] <= k
               PROVE  Node(leaves, m, i) = Node(others, m, i)
    BY <2>1 DEF m
  <2>3. /\ 2 * i \in Indices(h) /\ 2 * i + 1 \in Indices(h) /\ i \in Nat
        /\ span[m] = 2 * span[h] /\ span[h] \in Nat
    BY <2>1, ChildrenAre
  <2>4. (2 * i + 1) * span[h] <= k /\ ((2 * i + 1) + 1) * span[h] <= k
    <3>1. (i + 1) * span[m] = ((2 * i + 1) + 1) * span[h]
      BY <2>3
    <3>2. (2 * i + 1) * span[h] <= ((2 * i + 1) + 1) * span[h]
      BY <2>3
    <3>3. (2 * i + 1) * span[h] \in Nat /\ ((2 * i + 1) + 1) * span[h] \in Nat
      BY <2>3
    <3> QED BY <3>1, <3>2, <3>3
  <2>5. /\ Node(leaves, h, 2 * i) = Node(others, h, 2 * i)
        /\ Node(leaves, h, 2 * i + 1) = Node(others, h, 2 * i + 1)
    BY <2>2, <2>3, <2>4
  <2>6. /\ Node(leaves, m, i) = merkle_node_hash(Node(leaves, m - 1, 2 * i),
                                                 Node(leaves, m - 1, 2 * i + 1))
        /\ Node(others, m, i) = merkle_node_hash(Node(others, m - 1, 2 * i),
                                                 Node(others, m - 1, 2 * i + 1))
    BY <2>1, NodeIs
  <2> QED BY <2>1, <2>5, <2>6
<1> HIDE DEF S
<1>3. Heights \subseteq S
  BY <1>1, <1>2, HeightInduction
<1> QED BY <1>3 DEF S

-----------------------------------------------------------------------------
(* The incremental tree. *)

IsSeq(x) == x \in Seq({x[i] : i \in 1 .. Len(x)})

LEMMA AppendIsSeq ==
    ASSUME NEW x, IsSeq(x), NEW e
    PROVE  /\ IsSeq(Append(x, e))
           /\ Len(x) \in Nat
           /\ Len(Append(x, e)) = Len(x) + 1
           /\ \A i \in 1 .. Len(x) : Append(x, e)[i] = x[i]
           /\ Append(x, e)[Len(x) + 1] = e
<1> DEFINE S == {x[i] : i \in 1 .. Len(x)} \cup {e}
<1>1. x \in Seq(S)
  BY DEF IsSeq
<1>2. Append(x, e) \in Seq(S) /\ Len(Append(x, e)) = Len(x) + 1 /\ Len(x) \in Nat
  BY <1>1
<1>3. \A i \in 1 .. Len(x) : Append(x, e)[i] = x[i]
  BY <1>1
<1>4. Append(x, e)[Len(x) + 1] = e
  BY <1>1
<1> HIDE DEF S
<1>5. IsSeq(Append(x, e))
  BY <1>2 DEF IsSeq
<1> QED BY <1>2, <1>3, <1>4, <1>5

\* The nodes above at least one of the first n leaves.
Addresses(n) ==
    {p \in Heights \X Nat : p[2] \in Indices(p[1]) /\ p[2] * span[p[1]] < n}

\* A tree whose cache is that of the reference tree over its leaves.
Cached(tree) ==
    /\ tree = [leaves |-> tree.leaves, nodes |-> tree.nodes,
               cached_root |-> tree.cached_root]
    /\ IsSeq(tree.leaves)
    /\ Len(tree.leaves) <= merkle_capacity
    /\ tree.nodes = [p \in Addresses(Len(tree.leaves)) |-> Node(tree.leaves, p[1], p[2])]
    /\ tree.cached_root = Node(tree.leaves, MERKLE_DEPTH, 0)

LEMMA IndicesAreNat == \A h \in Heights : Indices(h) \subseteq Nat
BY HeightsAre, SpanPositive DEF Indices

LEMMA EmptyCached == Cached(EmptyTree)
<1>1. Len(<<>>) = 0 /\ IsSeq(<<>>)
  BY DEF IsSeq
<1>2. Addresses(0) = {}
  <2> SUFFICES ASSUME NEW h \in Heights, NEW i \in Nat, i * span[h] < 0 PROVE FALSE
    BY DEF Addresses
  <2>1. span[h] \in Nat
    BY SpanPositive
  <2> QED BY <2>1
<1>3. <<>> = [p \in Addresses(Len(<<>>)) |-> Node(<<>>, p[1], p[2])]
  BY <1>1, <1>2
<1>4. Node(<<>>, MERKLE_DEPTH, 0) = merkle_zero_hashes[MERKLE_DEPTH]
  <2>1. 0 * span[MERKLE_DEPTH] = 0
    BY SpanPositive, HeightsAre
  <2> QED BY <1>1, <2>1, RootIs, HeightsAre, EmptyNodes
<1>5. Len(<<>>) <= merkle_capacity
  BY <1>1, SpanPositive, HeightsAre DEF merkle_capacity
<1> QED BY <1>1, <1>3, <1>4, <1>5 DEF Cached, EmptyTree

\* The hashes along the path of a new leaf are those of the reference tree.
LEMMA PathIs ==
    ASSUME NEW tree, Cached(tree), Len(tree.leaves) < merkle_capacity, NEW note,
           NEW cur,
           IsPath(cur, tree, merkle_leaf_hash(note), Len(tree.leaves), MERKLE_DEPTH)
    PROVE  \A h \in Heights :
              cur[h] = Node(Append(tree.leaves, note), h, Ancestor(Len(tree.leaves), h))
<1> DEFINE n == Len(tree.leaves)
           more == Append(tree.leaves, note)
<1>1. /\ n \in Nat /\ n < merkle_capacity /\ Len(more) = n + 1 /\ more[n + 1] = note
      /\ Agree(tree.leaves, more, n)
  BY AppendIsSeq DEF Cached, Agree
<1>2. /\ tree.nodes = [p \in Addresses(n) |-> Node(tree.leaves, p[1], p[2])]
      /\ IsPath(cur, tree, merkle_leaf_hash(note), n, MERKLE_DEPTH)
  BY DEF Cached
<1> HIDE DEF n, more
<1>3. /\ cur[0] = merkle_leaf_hash(note)
      /\ \A h \in Heights : h # 0 =>
            cur[h] = HashOver(tree, h - 1, Ancestor(n, h - 1), cur[h - 1])
  <2>1. cur = [h \in Heights |->
                IF h = 0 THEN merkle_leaf_hash(note)
                ELSE HashOver(tree, h - 1, Ancestor(n, h - 1), cur[h - 1])]
    BY <1>2, Zenon DEF IsPath, Heights
  <2>2. \A h \in Heights : cur[h] = IF h = 0 THEN merkle_leaf_hash(note)
                            ELSE HashOver(tree, h - 1, Ancestor(n, h - 1), cur[h - 1])
    BY <2>1, Zenon
  <2> QED BY <2>2, HeightsAre, Zenon
<1> DEFINE S == {h \in Heights : cur[h] = Node(more, h, Ancestor(n, h))}
<1>4. 0 \in S
  <2>1. Ancestor(n, 0) = n /\ n \in Indices(0)
    BY <1>1, AncestorIs, AncestorCovers, HeightsAre
  <2>2. Node(more, 0, n) = merkle_leaf_hash(more[n + 1])
    BY <1>1, <2>1, NodeIs
  <2> QED BY <1>1, <1>3, <2>1, <2>2, HeightsAre
<1>5. ASSUME NEW h \in Heights, h + 1 \in Heights, h \in S PROVE h + 1 \in S
  <2> DEFINE k == h + 1
             a == Ancestor(n, h)
             p == Ancestor(n, k)
             s == span[h]
  <2>1. k \in Heights /\ k # 0 /\ k - 1 = h
    BY <1>5, HeightsAre
  <2>2. cur[h] = Node(more, h, a)
    BY <1>5
  <2>3. cur[k] = HashOver(tree, h, a, cur[h])
    <3>1. cur[k] = HashOver(tree, k - 1, Ancestor(n, k - 1), cur[k - 1])
      BY <1>3, <2>1
    <3> QED BY <2>1, <3>1
  <2>4. p = a \div 2
    <3>1. p = Ancestor(n, k - 1) \div 2
      BY <2>1, AncestorIs
    <3> QED BY <2>1, <3>1
  <2>5. /\ a \in Indices(h) /\ a \in Nat /\ a * s <= n /\ n < (a + 1) * s
        /\ p \in Indices(k) /\ p \in Nat /\ s \in Nat /\ s > 0
    BY <1>1, <2>1, AncestorCovers, SpanPositive
  <2>6. Node(more, k, p) = merkle_node_hash(Node(more, h, 2 * p), Node(more, h, 2 * p + 1))
    <3>1. Node(more, k, p) = merkle_node_hash(Node(more, k - 1, 2 * p),
                                              Node(more, k - 1, 2 * p + 1))
      BY <2>1, <2>5, NodeIs
    <3> QED BY <2>1, <3>1
  <2>7. 2 * p \in Indices(h) /\ 2 * p + 1 \in Indices(h)
    BY <2>1, <2>5, ChildrenAre
  <2> HIDE DEF k, a, p
  <2>8. CASE a % 2 = 0
    <3>1. a = 2 * p
      BY <2>4, <2>5, <2>8, Halves
    <3>2. n + 1 <= (2 * p + 1) * s
      <4>1. (2 * p + 1) * s \in Nat
        BY <2>5
      <4> QED BY <1>1, <2>5, <3>1, <4>1
    <3>3. Node(more, h, 2 * p + 1) = merkle_zero_hashes[h]
      BY <1>1, <2>7, <3>2, EmptyNodes
    <3>4. cur[k] = merkle_node_hash(cur[h], merkle_zero_hashes[h])
      BY <2>3, <2>8 DEF HashOver
    <3>5. cur[k] = Node(more, k, p)
      BY <2>2, <2>6, <3>1, <3>3, <3>4
    <3> QED BY <2>1, <3>5 DEF k, p
  <2>9. CASE a % 2 # 0
    <3>1. a = 2 * p + 1 /\ a - 1 = 2 * p
      BY <2>4, <2>5, <2>9, Halves
    <3>2. (2 * p) * s < n /\ (2 * p + 1) * s <= n
      <4>1. (2 * p + 1) * s = (2 * p) * s + s
        BY <2>5
      <4>2. (2 * p) * s \in Nat
        BY <2>5
      <4> QED BY <1>1, <2>5, <3>1, <4>1, <4>2
    <3>3. <<h, 2 * p>> \in Addresses(n)
      BY <2>5, <2>7, <3>2 DEF Addresses
    <3>4. tree.nodes[<<h, 2 * p>>] = Node(tree.leaves, h, 2 * p)
      BY <1>2, <3>3
    <3>5. Node(tree.leaves, h, 2 * p) = Node(more, h, 2 * p)
      BY <1>1, <2>7, <3>2, SameNodes
    <3>6. cur[k] = merkle_node_hash(tree.nodes[<<h, 2 * p>>], cur[h])
      BY <2>3, <2>9, <3>1 DEF HashOver
    <3>7. cur[k] = Node(more, k, p)
      BY <2>2, <2>6, <3>1, <3>4, <3>5, <3>6
    <3> QED BY <2>1, <3>7 DEF k, p
  <2> QED BY <2>8, <2>9
<1> HIDE DEF S
<1>6. Heights \subseteq S
  BY <1>4, <1>5, HeightInduction
<1> QED BY <1>6 DEF S, n, more

\* The nodes around the one that covers leaf n.
LEMMA Around ==
    ASSUME NEW n \in Nat, NEW i \in Nat, NEW a \in Nat, NEW s \in Nat, s > 0,
           a * s <= n, n < (a + 1) * s
    PROVE  /\ i < a => (i + 1) * s <= n /\ i * s < n
           /\ i > a => n < i * s
<1>1. /\ i * s \in Nat /\ (i + 1) * s \in Nat /\ a * s \in Nat /\ (a + 1) * s \in Nat
      /\ (i + 1) * s = i * s + s
  OBVIOUS
<1>2. \A x, y \in Nat : x <= y => x * s <= y * s
  OBVIOUS
<1>3. ASSUME i < a PROVE (i + 1) * s <= n /\ i * s < n
  <2>1. (i + 1) * s <= a * s
    BY <1>2, <1>3
  <2> DEFINE x == i * s
             y == (i + 1) * s
             z == a * s
  <2>2. x \in Nat /\ y \in Nat /\ z \in Nat /\ y = x + s /\ y <= z /\ z <= n
    BY <1>1, <2>1
  <2> HIDE DEF x, y, z
  <2>3. y <= n /\ x < n
    BY <2>2
  <2> QED BY <2>3 DEF x, y
<1>4. ASSUME i > a PROVE n < i * s
  <2>1. (a + 1) * s <= i * s
    BY <1>2, <1>4
  <2> DEFINE x == i * s
             y == (a + 1) * s
  <2>2. x \in Nat /\ y \in Nat /\ y <= x /\ n < y
    BY <1>1, <2>1
  <2> HIDE DEF x, y
  <2>3. n < x
    BY <2>2
  <2> QED BY <2>3 DEF x
<1> QED BY <1>3, <1>4

\* Appending a note keeps the cache that of the reference tree.
LEMMA AppendCached ==
    ASSUME NEW tree, Cached(tree), Len(tree.leaves) < merkle_capacity, NEW note
    PROVE  Cached(append(tree, note)) /\ append(tree, note).leaves = Append(tree.leaves, note)
<1> DEFINE n == Len(tree.leaves)
           old == tree.leaves
           more == Append(tree.leaves, note)
           cur == CHOOSE g : IsPath(g, tree, merkle_leaf_hash(note), n, MERKLE_DEPTH)
           path == {<<h, Ancestor(n, h)>> : h \in Heights}
           grown == [p \in path \cup DOMAIN tree.nodes |->
                        IF p \in path THEN cur[p[1]] ELSE tree.nodes[p]]
           result == append(tree, note)
           cache == cache_append_path(tree, merkle_leaf_hash(note), n)
<1>1. IsPath(cur, tree, merkle_leaf_hash(note), n, MERKLE_DEPTH)
  BY PathExists, Zenon
<1>2. cache = [tree EXCEPT !.nodes = grown, !.cached_root = cur[MERKLE_DEPTH]]
  BY Zenon DEF cache_append_path, IsPath, Heights
<1>3. result = [cache EXCEPT !.leaves = Append(@, note)]
  BY Zenon DEF append
<1> HIDE DEF cur, cache
<1>4. \A h \in Heights : cur[h] = Node(more, h, Ancestor(n, h))
  BY <1>1, PathIs
<1>5. /\ n \in Nat /\ n < merkle_capacity /\ Len(more) = n + 1 /\ IsSeq(more)
      /\ Agree(old, more, n)
      /\ merkle_capacity \in Nat
      /\ tree = [leaves |-> old, nodes |-> tree.nodes, cached_root |-> tree.cached_root]
      /\ tree.nodes = [p \in Addresses(n) |-> Node(old, p[1], p[2])]
  BY AppendIsSeq, SpanPositive, HeightsAre DEF Cached, Agree, merkle_capacity
<1>6. grown = [p \in path \cup Addresses(n) |->
                  IF p \in path THEN cur[p[1]] ELSE tree.nodes[p]]
  <2>1. DOMAIN tree.nodes = Addresses(n)
    BY <1>5
  <2> QED BY <2>1
<1> HIDE DEF grown, path
<1>7. result = [leaves |-> more, nodes |-> grown, cached_root |-> cur[MERKLE_DEPTH]]
  <2>1. cache = [leaves |-> old, nodes |-> grown, cached_root |-> cur[MERKLE_DEPTH]]
    BY <1>2, <1>5
  <2> HIDE DEF more
  <2>2. result = [cache EXCEPT !.leaves = more]
    BY <1>3, <2>1 DEF more
  <2> QED BY <2>1, <2>2
<1> HIDE DEF result, more, old, n
<1>8. ASSUME NEW h \in Heights
      PROVE  /\ Ancestor(n, h) \in Indices(h) /\ Ancestor(n, h) \in Nat
             /\ Ancestor(n, h) * span[h] <= n
             /\ \A i \in Nat : /\ i < Ancestor(n, h) => (i + 1) * span[h] <= n /\ i * span[h] < n
                               /\ i > Ancestor(n, h) => n < i * span[h]
                               /\ i * span[h] \in Nat
  <2> DEFINE a == Ancestor(n, h)
  <2>1. /\ a \in Indices(h) /\ a \in Nat /\ span[h] \in Nat /\ span[h] > 0
        /\ a * span[h] <= n /\ n < (a + 1) * span[h]
    BY <1>5, AncestorCovers, SpanPositive
  <2> HIDE DEF a
  <2>2. \A i \in Nat : i * span[h] \in Nat
    BY <2>1
  <2>3. \A i \in Nat : /\ i < a => (i + 1) * span[h] <= n /\ i * span[h] < n
                       /\ i > a => n < i * span[h]
    BY <1>5, <2>1, Around
  <2> QED BY <2>1, <2>2, <2>3 DEF a
<1>9. Addresses(n + 1) = Addresses(n) \cup path
  <2>1. ASSUME NEW p \in Addresses(n + 1) PROVE p \in Addresses(n) \cup path
    <3>1. PICK h \in Heights, i \in Nat : p = <<h, i>> /\ i \in Indices(h) /\ i * span[h] < n + 1
      BY DEF Addresses
    <3>2. i = Ancestor(n, h) \/ i * span[h] < n
      BY <1>5, <1>8, <3>1
    <3> QED BY <3>1, <3>2 DEF Addresses, path
  <2>2. ASSUME NEW p \in Addresses(n) PROVE p \in Addresses(n + 1)
    <3>1. PICK h \in Heights, i \in Nat : p = <<h, i>> /\ i \in Indices(h) /\ i * span[h] < n
      BY DEF Addresses
    <3>2. i * span[h] < n + 1
      BY <1>5, <1>8, <3>1
    <3> QED BY <3>1, <3>2 DEF Addresses
  <2>3. ASSUME NEW p \in path PROVE p \in Addresses(n + 1)
    <3>1. PICK h \in Heights : p = <<h, Ancestor(n, h)>>
      BY DEF path
    <3>2. Ancestor(n, h) * span[h] < n + 1
      BY <1>5, <1>8
    <3> QED BY <1>8, <3>1, <3>2 DEF Addresses
  <2> QED BY <2>1, <2>2, <2>3
<1>10. ASSUME NEW p \in Addresses(n + 1)
       PROVE  grown[p] = Node(more, p[1], p[2])
  <2>1. grown[p] = IF p \in path THEN cur[p[1]] ELSE tree.nodes[p]
    BY <1>6, <1>9
  <2>2. CASE p \in path
    <3>1. PICK h \in Heights : p = <<h, Ancestor(n, h)>>
      BY <2>2 DEF path
    <3> QED BY <1>4, <2>1, <2>2, <3>1
  <2>3. CASE p \notin path
    <3>1. p \in Addresses(n)
      BY <1>9, <2>3
    <3>2. PICK h \in Heights, i \in Nat : p = <<h, i>> /\ i \in Indices(h) /\ i * span[h] < n
      BY <3>1 DEF Addresses
    <3>3. i # Ancestor(n, h)
      BY <2>3, <3>2 DEF path
    <3>4. (i + 1) * span[h] <= n
      BY <1>5, <1>8, <3>2, <3>3
    <3>5. Node(old, h, i) = Node(more, h, i)
      BY <1>5, <3>2, <3>4, SameNodes
    <3>6. tree.nodes[p] = Node(old, h, i)
      BY <1>5, <3>1, <3>2
    <3> QED BY <2>1, <2>3, <3>2, <3>5, <3>6
  <2> QED BY <2>2, <2>3
<1>11. grown = [p \in Addresses(n + 1) |-> Node(more, p[1], p[2])]
  BY <1>6, <1>9, <1>10
<1>12. cur[MERKLE_DEPTH] = Node(more, MERKLE_DEPTH, 0)
  BY <1>4, <1>5, RootIs, HeightsAre
<1>13. n + 1 <= merkle_capacity
  BY <1>5
<1>14. Cached(result) /\ result.leaves = more
  BY <1>5, <1>7, <1>11, <1>12, <1>13 DEF Cached
<1> QED BY <1>14 DEF result, more, old, n

-----------------------------------------------------------------------------
(* Appending the notes of a sequence one by one. *)

LEMMA MaxIs ==
    ASSUME NEW n \in Nat, NEW s \in SUBSET (1 .. n), s # {}
    PROVE  Max(s) \in s /\ \A y \in s : y <= Max(s)
<1> DEFINE S == {m \in Nat : \A t \in SUBSET (1 .. m) : t # {} => \E x \in t : \A y \in t : x >= y}
<1>1. 0 \in S
  <2>1. 1 .. 0 = {}
    OBVIOUS
  <2>2. \A t \in SUBSET (1 .. 0) : t = {}
    BY <2>1
  <2> QED BY <2>2
<1>2. ASSUME NEW m \in Nat, m \in S PROVE m + 1 \in S
  <2> SUFFICES ASSUME NEW t \in SUBSET (1 .. m + 1), t # {}
               PROVE  \E x \in t : \A y \in t : x >= y
    OBVIOUS
  <2>1. CASE m + 1 \in t
    BY <2>1
  <2>2. CASE m + 1 \notin t
    <3>1. t \in SUBSET (1 .. m)
      BY <2>2
    <3> QED BY <1>2, <3>1
  <2> QED BY <2>1, <2>2
<1> HIDE DEF S
<1>3. n \in S
  BY <1>1, <1>2, Induction
<1>4. \E x \in s : \A y \in s : x >= y
  BY <1>3 DEF S
<1>5. Max(s) \in s /\ \A y \in s : Max(s) >= y
  BY <1>4 DEF Max
<1> QED BY <1>5

LEMMA WithoutMax ==
    ASSUME NEW m \in Nat, NEW s \in SUBSET (1 .. m + 1), s # {}
    PROVE  s \ {Max(s)} \in SUBSET (1 .. m)
<1> DEFINE k == m + 1
           x == Max(s)
<1>1. k \in Nat /\ s \in SUBSET (1 .. k)
  OBVIOUS
<1> HIDE DEF k
<1>2. x \in s /\ \A y \in s : y <= x
  BY <1>1, MaxIs
<1> HIDE DEF x
<1>3. \A y \in s \ {x} : y \in 1 .. m
  BY <1>1, <1>2 DEF k
<1> QED BY <1>3 DEF x

LEMMA MaxOfRange ==
    ASSUME NEW k \in Nat \ {0}
    PROVE  Max(1 .. k) = k
<1> DEFINE s == 1 .. k
           x == Max(s)
<1>1. x \in s /\ \A y \in s : y <= x
  <2>1. s \in SUBSET (1 .. k) /\ s # {}
    OBVIOUS
  <2> HIDE DEF s
  <2> QED BY <2>1, MaxIs
<1> HIDE DEF x
<1> QED BY <1>1 DEF x

IsFold(g, tree, notes, n) ==
    g = [s \in SUBSET (1 .. n) |->
            IF s = {} THEN tree ELSE append(g[s \ {Max(s)}], notes[Max(s)])]

LEMMA FoldExists ==
    ASSUME NEW tree, NEW notes, NEW n \in Nat
    PROVE  \E g : IsFold(g, tree, notes, n)
<1> DEFINE S == {m \in Nat : \E g : IsFold(g, tree, notes, m)}
<1>1. 0 \in S
  <2>1. IsFold([s \in SUBSET (1 .. 0) |-> tree], tree, notes, 0)
    BY DEF IsFold
  <2> QED BY <2>1
<1>2. ASSUME NEW m \in Nat, m \in S PROVE m + 1 \in S
  <2>1. PICK g : IsFold(g, tree, notes, m)
    BY <1>2
  <2> DEFINE more == [s \in SUBSET (1 .. m + 1) |->
                IF s = {} THEN tree ELSE append(g[s \ {Max(s)}], notes[Max(s)])]
  <2>2. \A s \in SUBSET (1 .. m) : more[s] = g[s]
    <3>1. \A s \in SUBSET (1 .. m) : s \in SUBSET (1 .. m + 1)
      OBVIOUS
    <3>2. \A s \in SUBSET (1 .. m) :
            g[s] = IF s = {} THEN tree ELSE append(g[s \ {Max(s)}], notes[Max(s)])
      BY <2>1, Zenon DEF IsFold
    <3> QED BY <3>1, <3>2, Zenon
  <2>3. \A s \in SUBSET (1 .. m + 1) : s # {} => s \ {Max(s)} \in SUBSET (1 .. m)
    BY WithoutMax
  <2>4. \A s \in SUBSET (1 .. m + 1) : s # {} => more[s \ {Max(s)}] = g[s \ {Max(s)}]
    BY <2>2, <2>3, Zenon
  <2>5. IsFold(more, tree, notes, m + 1)
    BY <2>4, Zenon DEF IsFold
  <2> QED BY <2>5
<1> HIDE DEF S
<1>3. Nat \subseteq S
  BY <1>1, <1>2, Induction
<1> QED BY <1>3 DEF S

\* The tree after the first k notes.
LEMMA FoldIs ==
    ASSUME NEW tree, NEW notes, NEW n \in Nat, NEW g, IsFold(g, tree, notes, n)
    PROVE  /\ g[1 .. 0] = tree
           /\ \A k \in 1 .. n : g[1 .. k] = append(g[1 .. (k - 1)], notes[k])
<1>1. \A s \in SUBSET (1 .. n) :
        g[s] = IF s = {} THEN tree ELSE append(g[s \ {Max(s)}], notes[Max(s)])
  BY Zenon DEF IsFold
<1>2. g[1 .. 0] = tree
  <2>1. 1 .. 0 \in SUBSET (1 .. n) /\ 1 .. 0 = {}
    OBVIOUS
  <2> QED BY <1>1, <2>1
<1>3. ASSUME NEW k \in 1 .. n PROVE g[1 .. k] = append(g[1 .. (k - 1)], notes[k])
  <2>1. 1 .. k \in SUBSET (1 .. n) /\ 1 .. k # {}
    OBVIOUS
  <2>2. Max(1 .. k) = k
    BY MaxOfRange
  <2>3. (1 .. k) \ {k} = 1 .. (k - 1)
    OBVIOUS
  <2> QED BY <1>1, <2>1, <2>2, <2>3
<1> QED BY <1>2, <1>3

LEMMA FoldStarts ==
    \A tree, notes, g : \A n \in Nat : IsFold(g, tree, notes, n) => g[1 .. 0] = tree
BY FoldIs, Zenon

LEMMA FoldsAgree ==
    ASSUME NEW tree, NEW notes, NEW others, NEW n \in Nat, NEW m \in Nat, NEW g, NEW f,
           IsFold(g, tree, notes, n), IsFold(f, tree, others, m),
           NEW k \in Nat, k <= n, k <= m, \A i \in 1 .. k : notes[i] = others[i]
    PROVE  g[1 .. k] = f[1 .. k]
<1> DEFINE S == {j \in Nat : j <= k => g[1 .. j] = f[1 .. j]}
<1>0. g[1 .. 0] = tree /\ f[1 .. 0] = tree
  <2>1. IsFold(g, tree, notes, n) /\ n \in Nat
    OBVIOUS
  <2>2. IsFold(f, tree, others, m) /\ m \in Nat
    OBVIOUS
  <2>3. g[1 .. 0] = tree
    BY <2>1, FoldStarts, Zenon
  <2>4. f[1 .. 0] = tree
    BY <2>2, FoldStarts, Zenon
  <2> QED BY <2>3, <2>4
<1>1. 0 \in S
  BY <1>0
<1>2. ASSUME NEW j \in Nat, j \in S PROVE j + 1 \in S
  <2> SUFFICES ASSUME j + 1 <= k PROVE g[1 .. (j + 1)] = f[1 .. (j + 1)]
    OBVIOUS
  <2>1. g[1 .. j] = f[1 .. j]
    BY <1>2
  <2>2. j + 1 \in 1 .. n /\ j + 1 \in 1 .. m /\ j + 1 \in 1 .. k /\ (j + 1) - 1 = j
    OBVIOUS
  <2>3. /\ g[1 .. (j + 1)] = append(g[1 .. ((j + 1) - 1)], notes[j + 1])
        /\ f[1 .. (j + 1)] = append(f[1 .. ((j + 1) - 1)], others[j + 1])
    BY <2>2, FoldIs
  <2> QED BY <2>1, <2>2, <2>3
<1> HIDE DEF S
<1>3. k \in S
  BY <1>1, <1>2, Induction
<1> QED BY <1>3 DEF S

LEMMA AppendAllIsFold ==
    ASSUME NEW tree, NEW notes, IsSeq(notes)
    PROVE  \E g : /\ IsFold(g, tree, notes, Len(notes))
                  /\ AppendAll(tree, notes) = g[1 .. Len(notes)]
<1> DEFINE n == Len(notes)
           g == CHOOSE f : IsFold(f, tree, notes, n)
<1>1. n \in Nat /\ DOMAIN notes = 1 .. n
  BY DEF IsSeq
<1>2. IsFold(g, tree, notes, n)
  BY <1>1, FoldExists, Zenon
<1>3. AppendAll(tree, notes) = g[1 .. n]
  BY <1>1, Zenon DEF AppendAll, FoldLeft, MapThenFoldSet, IsFold
<1> QED BY <1>2, <1>3

LEMMA AppendAllIs ==
    ASSUME NEW tree, NEW notes, IsSeq(notes)
    PROVE  /\ AppendAll(tree, <<>>) = tree
           /\ \A x : AppendAll(tree, Append(notes, x)) = append(AppendAll(tree, notes), x)
<1>1. AppendAll(tree, <<>>) = tree
  <2>1. IsSeq(<<>>) /\ Len(<<>>) = 0
    BY DEF IsSeq
  <2>2. PICK g : IsFold(g, tree, <<>>, 0) /\ AppendAll(tree, <<>>) = g[1 .. 0]
    BY <2>1, AppendAllIsFold
  <2> QED BY <2>2, FoldIs
<1>2. ASSUME NEW x PROVE AppendAll(tree, Append(notes, x)) = append(AppendAll(tree, notes), x)
  <2> DEFINE more == Append(notes, x)
             n == Len(notes)
  <2>1. /\ IsSeq(more) /\ n \in Nat /\ Len(more) = n + 1 /\ more[n + 1] = x
        /\ \A i \in 1 .. n : more[i] = notes[i]
    BY AppendIsSeq
  <2>2. PICK g : IsFold(g, tree, notes, n) /\ AppendAll(tree, notes) = g[1 .. n]
    BY AppendAllIsFold
  <2>3. PICK f : IsFold(f, tree, more, n + 1) /\ AppendAll(tree, more) = f[1 .. (n + 1)]
    BY <2>1, AppendAllIsFold
  <2> HIDE DEF more, n
  <2>4. g[1 .. n] = f[1 .. n]
    BY <2>1, <2>2, <2>3, FoldsAgree
  <2>5. f[1 .. (n + 1)] = append(f[1 .. ((n + 1) - 1)], more[n + 1]) /\ (n + 1) - 1 = n
    <3> DEFINE m == n + 1
    <3>1. m \in 1 .. m /\ m \in Nat /\ m - 1 = n
      BY <2>1
    <3>2. IsFold(f, tree, more, m)
      BY <2>3
    <3> HIDE DEF m
    <3>3. \A k \in 1 .. m : f[1 .. k] = append(f[1 .. (k - 1)], more[k])
      BY <3>1, <3>2, FoldIs
    <3>4. f[1 .. m] = append(f[1 .. (m - 1)], more[m])
      BY <3>1, <3>3
    <3> QED BY <3>1, <3>4 DEF m
  <2> QED BY <2>1, <2>2, <2>3, <2>4, <2>5 DEF more, n
<1> QED BY <1>1, <1>2

\* A tree that appending its leaves one by one to the empty tree makes.
Built(tree) == Cached(tree) /\ tree = AppendAll(EmptyTree, tree.leaves)

LEMMA EmptyBuilt == Built(EmptyTree)
<1>1. IsSeq(<<>>) /\ EmptyTree.leaves = <<>>
  BY DEF IsSeq, EmptyTree
<1>2. AppendAll(EmptyTree, <<>>) = EmptyTree
  BY <1>1, AppendAllIs
<1> QED BY <1>1, <1>2, EmptyCached DEF Built

LEMMA AppendBuilt ==
    ASSUME NEW tree, Built(tree), Len(tree.leaves) < merkle_capacity, NEW note
    PROVE  Built(append(tree, note)) /\ append(tree, note).leaves = Append(tree.leaves, note)
<1> DEFINE result == append(tree, note)
           old == tree.leaves
           more == Append(old, note)
<1>1. Cached(tree) /\ tree = AppendAll(EmptyTree, old) /\ IsSeq(old)
  BY DEF Built, Cached
<1>2. Cached(result) /\ result.leaves = more
  BY <1>1, AppendCached
<1>3. AppendAll(EmptyTree, more) = append(AppendAll(EmptyTree, old), note)
  BY <1>1, AppendAllIs
<1>4. AppendAll(EmptyTree, more) = result
  BY <1>1, <1>3
<1> HIDE DEF result, more
<1>5. Built(result)
  BY <1>2, <1>4 DEF Built
<1> QED BY <1>2, <1>5 DEF result, more

\* The first k notes after the leaves of a tree.
Follows(more, old, notes, k) ==
    /\ IsSeq(more)
    /\ Len(more) = Len(old) + k
    /\ \A i \in 1 .. Len(old) : more[i] = old[i]
    /\ \A i \in 1 .. k : more[Len(old) + i] = notes[i]

LEMMA AppendAllBuilt ==
    ASSUME NEW tree, Built(tree), NEW notes, IsSeq(notes),
           Len(tree.leaves) + Len(notes) <= merkle_capacity
    PROVE  /\ Built(AppendAll(tree, notes))
           /\ Follows(AppendAll(tree, notes).leaves, tree.leaves, notes, Len(notes))
<1> DEFINE n == Len(notes)
           m == Len(tree.leaves)
           old == tree.leaves
<1>1. n \in Nat /\ m \in Nat /\ IsSeq(old) /\ merkle_capacity \in Nat
  BY AppendIsSeq, SpanPositive, HeightsAre DEF Built, Cached, merkle_capacity
<1>2. PICK g : IsFold(g, tree, notes, n) /\ AppendAll(tree, notes) = g[1 .. n]
  BY AppendAllIsFold
<1>3. /\ g[1 .. 0] = tree
      /\ \A k \in 1 .. n : g[1 .. k] = append(g[1 .. (k - 1)], notes[k])
  BY <1>1, <1>2, FoldIs
<1>4. m + n <= merkle_capacity
  OBVIOUS
<1> HIDE DEF n
<1> DEFINE S == {k \in Nat : k <= n => Built(g[1 .. k]) /\ Follows(g[1 .. k].leaves, old, notes, k)}
<1>5. 0 \in S
  BY <1>1, <1>3 DEF Follows
<1>6. ASSUME NEW k \in Nat, k \in S PROVE k + 1 \in S
  <2> SUFFICES ASSUME k + 1 <= n
               PROVE  /\ Built(g[1 .. (k + 1)])
                      /\ Follows(g[1 .. (k + 1)].leaves, old, notes, k + 1)
    OBVIOUS
  <2> DEFINE before == g[1 .. k]
             after == g[1 .. (k + 1)]
             l == k + 1
             x == notes[l]
  <2>1. Built(before) /\ Follows(before.leaves, old, notes, k)
    BY <1>1, <1>6
  <2>2. after = append(before, x)
    <3>1. l \in 1 .. n /\ l - 1 = k
      BY <1>1
    <3>2. g[1 .. l] = append(g[1 .. (l - 1)], notes[l])
      BY <1>3, <3>1
    <3> QED BY <3>1, <3>2
  <2>3. l \in Nat /\ l <= n /\ l = k + 1
    OBVIOUS
  <2> HIDE DEF before, after, l, x, m, old
  <2>4. Len(before.leaves) = m + k /\ IsSeq(before.leaves)
    BY <2>1 DEF Follows, m, old
  <2>5. Len(before.leaves) < merkle_capacity
    BY <1>1, <1>4, <2>3, <2>4
  <2>6. Built(after) /\ after.leaves = Append(before.leaves, x)
    BY <2>1, <2>2, <2>5, AppendBuilt
  <2> DEFINE a == after.leaves
             b == before.leaves
  <2>7. /\ IsSeq(a) /\ Len(a) = Len(b) + 1
        /\ \A i \in 1 .. Len(b) : a[i] = b[i]
        /\ a[Len(b) + 1] = x
    BY <2>4, <2>6, AppendIsSeq
  <2>8. /\ Len(b) = m + k /\ m = Len(old)
        /\ \A i \in 1 .. m : b[i] = old[i]
        /\ \A i \in 1 .. k : b[m + i] = notes[i]
    BY <2>1 DEF Follows, m, old
  <2> HIDE DEF a, b
  <2>9. \A i \in 1 .. m : a[i] = old[i]
    <3>1. ASSUME NEW i \in 1 .. m PROVE a[i] = old[i]
      <4>1. i \in 1 .. Len(b)
        BY <1>1, <2>3, <2>8
      <4>2. a[i] = b[i]
        BY <2>7, <4>1
      <4>3. b[i] = old[i]
        BY <2>8, <3>1
      <4> QED BY <4>2, <4>3
    <3> QED BY <3>1
  <2>10. ASSUME NEW i \in 1 .. l PROVE a[m + i] = notes[i]
    <3>1. CASE i = l
      <4>1. m + l = Len(b) + 1
        BY <1>1, <2>3, <2>8
      <4> QED BY <2>7, <3>1, <4>1 DEF x
    <3>2. CASE i # l
      <4>1. i \in 1 .. k /\ m + i \in 1 .. Len(b)
        BY <1>1, <2>3, <2>8, <3>2
      <4> QED BY <2>7, <2>8, <4>1
    <3> QED BY <3>1, <3>2
  <2>11. Len(a) = m + l
    BY <1>1, <2>3, <2>7, <2>8
  <2>12. Follows(a, old, notes, l)
    BY <2>7, <2>8, <2>9, <2>10, <2>11 DEF Follows
  <2> QED BY <2>6, <2>12 DEF a, after, l
<1> HIDE DEF S
<1>7. n \in S
  BY <1>1, <1>5, <1>6, Induction
<1>8. Built(g[1 .. n]) /\ Follows(g[1 .. n].leaves, old, notes, n)
  BY <1>1, <1>7 DEF S
<1> QED BY <1>2, <1>8 DEF n

\* Sequences with the same elements are the same.
LEMMA SameSeqs ==
    ASSUME NEW a, NEW b, IsSeq(a), IsSeq(b), Len(a) = Len(b),
           \A i \in 1 .. Len(a) : a[i] = b[i]
    PROVE  a = b
<1> DEFINE S == {a[i] : i \in 1 .. Len(a)}
           T == {b[i] : i \in 1 .. Len(b)}
<1>1. a \in Seq(S) /\ b \in Seq(T)
  BY DEF IsSeq
<1> HIDE DEF S, T
<1>2. a = [i \in 1 .. Len(a) |-> a[i]] /\ b = [i \in 1 .. Len(b) |-> b[i]]
  BY <1>1
<1> QED BY <1>2

\* The tree of a list of notes.
LEMMA TreeOf ==
    ASSUME NEW notes, IsSeq(notes), Len(notes) <= merkle_capacity
    PROVE  /\ Built(AppendAll(EmptyTree, notes))
           /\ AppendAll(EmptyTree, notes).leaves = notes
           /\ AppendAll(EmptyTree, notes).cached_root = Node(notes, MERKLE_DEPTH, 0)
<1> DEFINE tree == AppendAll(EmptyTree, notes)
           n == Len(notes)
<1>1. EmptyTree.leaves = <<>> /\ Len(<<>>) = 0 /\ n \in Nat
  BY AppendIsSeq DEF EmptyTree
<1>2. Len(EmptyTree.leaves) + n <= merkle_capacity
  BY <1>1
<1>3. Built(tree) /\ Follows(tree.leaves, EmptyTree.leaves, notes, n)
  BY <1>2, EmptyBuilt, AppendAllBuilt
<1> HIDE DEF tree
<1>4. /\ IsSeq(tree.leaves) /\ Len(tree.leaves) = n
      /\ \A i \in 1 .. n : tree.leaves[i] = notes[i]
  <2>1. \A i \in 1 .. n : 0 + i = i
    BY <1>1
  <2> QED BY <1>1, <1>3, <2>1 DEF Follows
<1>5. tree.leaves = notes
  BY <1>4, SameSeqs
<1> QED BY <1>3, <1>5 DEF tree, Built, Cached

-----------------------------------------------------------------------------
(* Paths. *)

LEMMA SameHash ==
    /\ \A a, b, c, d : merkle_node_hash(a, b) = merkle_node_hash(c, d) => a = c /\ b = d
    /\ \A a, b : merkle_leaf_hash(a) = merkle_leaf_hash(b) => a = b
    /\ \A a : merkle_leaf_hash(a) # <<"empty">>
<1>1. ASSUME NEW a, NEW b, NEW c, NEW d, merkle_node_hash(a, b) = merkle_node_hash(c, d)
      PROVE  a = c /\ b = d
  BY <1>1 DEF merkle_node_hash
<1>2. ASSUME NEW a, NEW b, merkle_leaf_hash(a) = merkle_leaf_hash(b) PROVE a = b
  BY <1>2 DEF merkle_leaf_hash
<1>3. ASSUME NEW a PROVE merkle_leaf_hash(a) # <<"empty">>
  BY DEF merkle_leaf_hash
<1> QED BY <1>1, <1>2, <1>3

\* What opening a path computes.
LEMMA OpenedIs ==
    ASSUME NEW mp, NEW note
    PROVE  \E g : /\ RootOfProof(mp, note) = g[MERKLE_DEPTH]
                  /\ g[0] = merkle_leaf_hash(note)
                  /\ \A h \in Heights : h # 0 =>
                        g[h] = HashWith(mp.siblings[h], Ancestor(mp.leaf_index, h - 1),
                                        g[h - 1])
<1> DEFINE g == CHOOSE f : IsOpened(f, mp, note, MERKLE_DEPTH)
<1>1. IsOpened(g, mp, note, MERKLE_DEPTH)
  BY OpenedExists, Zenon
<1>2. RootOfProof(mp, note) = g[MERKLE_DEPTH]
  BY Zenon DEF RootOfProof, IsOpened, Heights
<1> HIDE DEF g
<1>3. \A h \in Heights : g[h] = IF h = 0 THEN merkle_leaf_hash(note)
            ELSE HashWith(mp.siblings[h], Ancestor(mp.leaf_index, h - 1), g[h - 1])
  <2>1. g = [h \in Heights |-> IF h = 0 THEN merkle_leaf_hash(note)
            ELSE HashWith(mp.siblings[h], Ancestor(mp.leaf_index, h - 1), g[h - 1])]
    BY <1>1, Zenon DEF IsOpened, Heights
  <2> QED BY <2>1, Zenon
<1>4. /\ g[0] = merkle_leaf_hash(note)
      /\ \A h \in Heights : h # 0 =>
            g[h] = HashWith(mp.siblings[h], Ancestor(mp.leaf_index, h - 1), g[h - 1])
  BY <1>3, HeightsAre, Zenon
<1> QED BY <1>2, <1>4, Zenon

\* One step of a path, from an ancestor to its parent.
LEMMA StepUp ==
    ASSUME NEW leaves, NEW n \in Nat, n < merkle_capacity,
           NEW h \in Heights, h # 0
    PROVE  /\ h - 1 \in Heights
           /\ Ancestor(n, h - 1) \in Nat
           /\ Ancestor(n, h - 1) \in Indices(h - 1)
           /\ Sibling(Ancestor(n, h - 1)) \in Nat
           /\ Sibling(Ancestor(n, h - 1)) \in Indices(h - 1)
           /\ Node(leaves, h, Ancestor(n, h)) =
                 HashWith(Node(leaves, h - 1, Sibling(Ancestor(n, h - 1))),
                          Ancestor(n, h - 1),
                          Node(leaves, h - 1, Ancestor(n, h - 1)))
<1> DEFINE a == Ancestor(n, h - 1)
           p == Ancestor(n, h)
<1>1. h - 1 \in Heights
  BY HeightsAre
<1>2. a \in Nat /\ a \in Indices(h - 1) /\ p \in Indices(h) /\ p \in Nat
  BY <1>1, AncestorCovers
<1>3. p = a \div 2
  BY AncestorIs
<1>4. /\ 2 * p \in Indices(h - 1) /\ 2 * p + 1 \in Indices(h - 1)
  BY <1>2, ChildrenAre
<1>5. Node(leaves, h, p) = merkle_node_hash(Node(leaves, h - 1, 2 * p),
                                            Node(leaves, h - 1, 2 * p + 1))
  BY <1>2, NodeIs
<1> HIDE DEF a, p
<1>6. CASE a % 2 = 0
  <2>1. a = 2 * p /\ Sibling(a) = 2 * p + 1
    BY <1>2, <1>3, <1>6, Halves DEF Sibling
  <2>2. Sibling(a) \in Nat
    BY <1>2, <2>1
  <2> QED BY <1>1, <1>2, <1>4, <1>5, <1>6, <2>1, <2>2 DEF HashWith, a, p
<1>7. CASE a % 2 # 0
  <2>1. a = 2 * p + 1 /\ Sibling(a) = 2 * p
    BY <1>2, <1>3, <1>7, Halves DEF Sibling
  <2>2. Sibling(a) \in Nat
    BY <1>2, <2>1
  <2> QED BY <1>1, <1>2, <1>4, <1>5, <1>7, <2>1, <2>2 DEF HashWith, a, p
<1> QED BY <1>6, <1>7

\* A path that leads to the root of some notes opens the note at its index.
LEMMA PathSound ==
    ASSUME NEW leaves, Len(leaves) \in Nat, NEW mp, NEW note,
           mp.leaf_index \in 0 .. merkle_capacity - 1,
           RootOfProof(mp, note) = Node(leaves, MERKLE_DEPTH, 0)
    PROVE  mp.leaf_index < Len(leaves) /\ leaves[mp.leaf_index + 1] = note
<1> DEFINE n == mp.leaf_index
<1>1. n \in Nat /\ n < merkle_capacity /\ merkle_capacity \in Nat
  BY SpanPositive, HeightsAre DEF merkle_capacity
<1>2. PICK g : /\ Node(leaves, MERKLE_DEPTH, 0) = g[MERKLE_DEPTH]
               /\ g[0] = merkle_leaf_hash(note)
               /\ \A h \in Heights : h # 0 =>
                     g[h] = HashWith(mp.siblings[h], Ancestor(n, h - 1), g[h - 1])
  <2>1. \E g : /\ RootOfProof(mp, note) = g[MERKLE_DEPTH]
               /\ g[0] = merkle_leaf_hash(note)
               /\ \A h \in Heights : h # 0 =>
                     g[h] = HashWith(mp.siblings[h], Ancestor(n, h - 1), g[h - 1])
    BY OpenedIs
  <2> QED BY <2>1
<1> HIDE DEF n
<1> DEFINE S == {k \in Heights : g[MERKLE_DEPTH - k]
                    = Node(leaves, MERKLE_DEPTH - k, Ancestor(n, MERKLE_DEPTH - k))}
<1>3. 0 \in S
  BY <1>1, <1>2, RootIs, HeightsAre
<1>4. ASSUME NEW k \in Heights, k + 1 \in Heights, k \in S PROVE k + 1 \in S
  <2> DEFINE h == MERKLE_DEPTH - k
             a == Ancestor(n, h - 1)
             other == Node(leaves, h - 1, Sibling(a))
  <2>1. h \in Heights /\ h # 0 /\ MERKLE_DEPTH - (k + 1) = h - 1
    BY <1>4, DepthAssumption DEF Heights
  <2>2. g[h] = Node(leaves, h, Ancestor(n, h))
    BY <1>4
  <2> HIDE DEF h
  <2>3. g[h] = HashWith(mp.siblings[h], a, g[h - 1])
    BY <1>2, <2>1
  <2>4. g[h] = HashWith(other, a, Node(leaves, h - 1, a))
    BY <1>1, <2>1, <2>2, StepUp
  <2> HIDE DEF a, other
  <2>5. g[h - 1] = Node(leaves, h - 1, a)
    BY <2>3, <2>4, SameHash DEF HashWith
  <2> QED BY <1>4, <2>1, <2>5 DEF a
<1> HIDE DEF S
<1>5. MERKLE_DEPTH \in S
  BY <1>3, <1>4, HeightInduction, HeightsAre
<1>6. merkle_leaf_hash(note) = Node(leaves, 0, n)
  <2>1. MERKLE_DEPTH - MERKLE_DEPTH = 0
    BY HeightsAre
  <2>2. g[0] = Node(leaves, 0, Ancestor(n, 0))
    BY <1>5, <2>1 DEF S
  <2> QED BY <1>2, <2>2, AncestorIs
<1>7. n \in Indices(0)
  <2>1. Ancestor(n, 0) \in Indices(0)
    BY <1>1, AncestorCovers, HeightsAre
  <2> QED BY <2>1, AncestorIs
<1>8. Node(leaves, 0, n) = IF n < Len(leaves) THEN merkle_leaf_hash(leaves[n + 1])
                           ELSE merkle_zero_hashes[0]
  BY <1>7, NodeIs
<1>9. n < Len(leaves)
  BY <1>6, <1>8, ZerosAre, SameHash
<1>10. leaves[n + 1] = note
  BY <1>6, <1>8, <1>9, SameHash
<1> QED BY <1>9, <1>10 DEF n

\* The path a tree hands out for a leaf leads from that leaf to its root.
LEMMA PathComplete ==
    ASSUME NEW tree, Cached(tree), NEW n \in LeafIndices(tree)
    PROVE  verify(proof(tree, n), Leaf(tree, n), tree.cached_root)
<1> DEFINE leaves == tree.leaves
           mp == proof(tree, n)
           note == Leaf(tree, n)
<1>1. /\ Len(leaves) \in Nat /\ Len(leaves) <= merkle_capacity /\ merkle_capacity \in Nat
      /\ n \in Nat /\ n < Len(leaves) /\ n < merkle_capacity /\ note = leaves[n + 1]
      /\ n \in 0 .. merkle_capacity - 1
  BY AppendIsSeq, SpanPositive, HeightsAre DEF Cached, LeafIndices, Leaf, merkle_capacity
<1>2. /\ tree.nodes = [p \in Addresses(Len(leaves)) |-> Node(leaves, p[1], p[2])]
      /\ tree.cached_root = Node(leaves, MERKLE_DEPTH, 0)
  BY DEF Cached
<1>3. ASSUME NEW h \in Heights, h # 0
      PROVE  mp.siblings[h] = Node(leaves, h - 1, Sibling(Ancestor(n, h - 1)))
  <2> DEFINE b == Sibling(Ancestor(n, h - 1))
             at == <<h - 1, b>>
  <2>1. h \in 1 .. MERKLE_DEPTH /\ h - 1 \in Heights
    BY <1>3, HeightsAre DEF Heights
  <2>2. b \in Nat /\ b \in Indices(h - 1)
    BY <1>1, <1>3, StepUp
  <2>3. mp.siblings[h] = IF at \in DOMAIN tree.nodes THEN tree.nodes[at]
                         ELSE merkle_zero_hashes[h - 1]
    BY <2>1 DEF proof
  <2> HIDE DEF b, mp
  <2>4. ASSUME at \in DOMAIN tree.nodes PROVE mp.siblings[h] = Node(leaves, h - 1, b)
    BY <1>2, <2>3, <2>4
  <2>5. ASSUME at \notin DOMAIN tree.nodes PROVE mp.siblings[h] = Node(leaves, h - 1, b)
    <3>1. ~(b * span[h - 1] < Len(leaves))
      BY <1>2, <2>1, <2>2, <2>5 DEF Addresses
    <3>2. Len(leaves) <= b * span[h - 1]
      <4>1. span[h - 1] \in Nat
        BY <2>1, SpanPositive
      <4>2. b * span[h - 1] \in Nat
        BY <2>2, <4>1
      <4> QED BY <1>1, <3>1, <4>2
    <3> QED BY <1>1, <2>1, <2>2, <2>3, <2>5, <3>2, EmptyNodes
  <2> QED BY <2>4, <2>5 DEF b
<1>4. mp.leaf_index = n /\ Len(mp.siblings) = MERKLE_DEPTH
  <2> DEFINE siblings == [k \in 1 .. MERKLE_DEPTH |->
                LET at == <<k - 1, Sibling(Ancestor(n, k - 1))>>
                IN  IF at \in DOMAIN tree.nodes THEN tree.nodes[at]
                    ELSE merkle_zero_hashes[k - 1]]
             T == {siblings[k] : k \in 1 .. MERKLE_DEPTH}
  <2>0. mp.siblings = siblings
    BY DEF proof
  <2>1. siblings \in Seq(T) /\ DOMAIN siblings = 1 .. MERKLE_DEPTH
    <3>1. siblings \in [1 .. MERKLE_DEPTH -> T]
      OBVIOUS
    <3> HIDE DEF siblings, T
    <3> QED BY <3>1, HeightsAre
  <2>2. mp.leaf_index = n
    BY DEF proof
  <2> HIDE DEF mp, siblings, T
  <2> QED BY <2>0, <2>1, <2>2, HeightsAre
<1> HIDE DEF mp
<1>5. PICK g : /\ RootOfProof(mp, note) = g[MERKLE_DEPTH]
               /\ g[0] = merkle_leaf_hash(note)
               /\ \A h \in Heights : h # 0 =>
                     g[h] = HashWith(mp.siblings[h], Ancestor(mp.leaf_index, h - 1), g[h - 1])
  BY OpenedIs
<1> HIDE DEF note
<1> DEFINE S == {h \in Heights : g[h] = Node(leaves, h, Ancestor(n, h))}
<1>6. 0 \in S
  <2>1. Ancestor(n, 0) = n /\ n \in Indices(0)
    <3>1. Ancestor(n, 0) \in Indices(0)
      BY <1>1, AncestorCovers, HeightsAre
    <3> QED BY <3>1, AncestorIs
  <2>2. Node(leaves, 0, n) = merkle_leaf_hash(note)
    BY <1>1, <2>1, NodeIs
  <2> QED BY <1>5, <2>1, <2>2, HeightsAre
<1>7. ASSUME NEW k \in Heights, k + 1 \in Heights, k \in S PROVE k + 1 \in S
  <2> DEFINE h == k + 1
  <2>1. h \in Heights /\ h # 0 /\ h - 1 = k
    BY <1>7, HeightsAre
  <2>2. g[h - 1] = Node(leaves, h - 1, Ancestor(n, h - 1))
    BY <1>7, <2>1
  <2> HIDE DEF h
  <2>3. g[h] = HashWith(mp.siblings[h], Ancestor(n, h - 1), g[h - 1])
    BY <1>4, <1>5, <2>1
  <2>4. g[h] = Node(leaves, h, Ancestor(n, h))
    BY <1>1, <1>3, <2>1, <2>2, <2>3, StepUp
  <2> QED BY <2>1, <2>4 DEF h
<1> HIDE DEF S
<1>8. MERKLE_DEPTH \in S
  BY <1>6, <1>7, HeightInduction, HeightsAre
<1>9. RootOfProof(mp, note) = tree.cached_root
  BY <1>1, <1>2, <1>5, <1>8, RootIs DEF S
<1>10. verify(mp, note, tree.cached_root)
  BY <1>1, <1>4, <1>9 DEF verify
<1> QED BY <1>10 DEF mp, note

-----------------------------------------------------------------------------
(* Roots of prefixes. *)

LEMMA SubtreesAre ==
    ASSUME NEW tree, NEW k
    PROVE  \E g : /\ prefix_subtree_root(tree, k) = g[MERKLE_DEPTH][0]
                  /\ g[0] = PrefixLevel(tree, k, 0, <<>>)
                  /\ \A h \in Heights : h # 0 => g[h] = PrefixLevel(tree, k, h, g[h - 1])
<1> DEFINE g == CHOOSE f : IsSubtrees(f, tree, k, MERKLE_DEPTH)
<1>1. IsSubtrees(g, tree, k, MERKLE_DEPTH)
  BY PrefixExists, Zenon
<1>2. prefix_subtree_root(tree, k) = g[MERKLE_DEPTH][0]
  BY Zenon DEF prefix_subtree_root, IsSubtrees, Heights
<1> HIDE DEF g
<1>3. \A h \in Heights : g[h] = IF h = 0 THEN PrefixLevel(tree, k, 0, <<>>)
                                ELSE PrefixLevel(tree, k, h, g[h - 1])
  <2>1. g = [h \in Heights |-> IF h = 0 THEN PrefixLevel(tree, k, 0, <<>>)
                               ELSE PrefixLevel(tree, k, h, g[h - 1])]
    BY <1>1, Zenon DEF IsSubtrees, Heights
  <2> QED BY <2>1, Zenon
<1>4. /\ g[0] = PrefixLevel(tree, k, 0, <<>>)
      /\ \A h \in Heights : h # 0 => g[h] = PrefixLevel(tree, k, h, g[h - 1])
  BY <1>3, HeightsAre, Zenon
<1> QED BY <1>2, <1>4, Zenon

LEMMA SeqIsSeq ==
    ASSUME NEW S, NEW y \in Seq(S)
    PROVE  IsSeq(y) /\ Len(y) \in Nat /\ DOMAIN y = 1 .. Len(y)
<1> DEFINE n == Len(y)
           T == {y[i] : i \in 1 .. n}
<1>1. n \in Nat /\ DOMAIN y = 1 .. n /\ y = [i \in 1 .. n |-> y[i]]
  OBVIOUS
<1> HIDE DEF n
<1>2. \A i \in 1 .. n : y[i] \in T
  OBVIOUS
<1> HIDE DEF T
<1>3. y \in [1 .. n -> T]
  BY <1>1, <1>2
<1>4. y \in Seq(T)
  BY <1>1, <1>3
<1> QED BY <1>1, <1>4 DEF IsSeq, n, T

LEMMA PrefixIsSeq ==
    ASSUME NEW x, IsSeq(x), NEW k \in 0 .. Len(x)
    PROVE  /\ IsSeq(SubSeq(x, 1, k))
           /\ Len(SubSeq(x, 1, k)) = k
           /\ \A i \in 1 .. k : SubSeq(x, 1, k)[i] = x[i]
<1> DEFINE S == {x[i] : i \in 1 .. Len(x)}
<1>1. x \in Seq(S)
  BY DEF IsSeq
<1> HIDE DEF S
<1> DEFINE y == SubSeq(x, 1, k)
<1>2. Len(x) \in Nat /\ k \in Nat /\ k <= Len(x)
  BY <1>1
<1>3. Len(y) = k /\ \A i \in 1 .. k : y[i] = x[i]
  BY <1>1, <1>2
<1>4. y \in Seq(S)
  BY <1>1, <1>2
<1> HIDE DEF y
<1>5. IsSeq(y)
  BY <1>4, SeqIsSeq
<1> QED BY <1>3, <1>5 DEF y

\* A prefix agrees with the whole.
LEMMA PrefixAgrees ==
    ASSUME NEW x, IsSeq(x), NEW k \in 0 .. Len(x)
    PROVE  Agree(x, SubSeq(x, 1, k), k)
<1> DEFINE y == SubSeq(x, 1, k)
<1>1. Len(x) \in Nat
  BY AppendIsSeq
<1>2. k \in Nat /\ k <= Len(x) /\ Len(y) = k /\ \A i \in 1 .. k : y[i] = x[i]
  BY <1>1, PrefixIsSeq
<1> HIDE DEF y
<1>3. Agree(x, y, k)
  BY <1>1, <1>2 DEF Agree
<1> QED BY <1>3 DEF y

\* One height of the computation of the root of a prefix.
LEMMA PrefixLevelIs ==
    ASSUME NEW tree, Cached(tree), NEW k \in 0 .. Len(tree.leaves),
           NEW h \in Heights, NEW below,
           h # 0 => \A j \in Indices(h - 1) : below[j] = Node(SubSeq(tree.leaves, 1, k), h - 1, j)
    PROVE  \A i \in Indices(h) :
              PrefixLevel(tree, k, h, below)[i] = Node(SubSeq(tree.leaves, 1, k), h, i)
<1> SUFFICES ASSUME NEW i \in Indices(h)
             PROVE  PrefixLevel(tree, k, h, below)[i] = Node(SubSeq(tree.leaves, 1, k), h, i)
  OBVIOUS
<1> DEFINE leaves == tree.leaves
           first == SubSeq(tree.leaves, 1, k)
           n == Len(tree.leaves)
           s == span[h]
<1>1. /\ IsSeq(leaves) /\ n \in Nat /\ k \in Nat /\ k <= n
      /\ tree.nodes = [p \in Addresses(n) |-> Node(leaves, p[1], p[2])]
  BY AppendIsSeq DEF Cached
<1>2. Agree(leaves, first, k) /\ Len(first) = k
  BY <1>1, PrefixAgrees, PrefixIsSeq
<1>3. i \in Nat /\ s \in Nat /\ s > 0 /\ i * s \in Nat /\ (i + 1) * s \in Nat
  <2>1. i \in Nat /\ s \in Nat /\ s > 0
    BY IndicesAreNat, SpanPositive
  <2> QED BY <2>1
<1>4. PrefixLevel(tree, k, h, below)[i] =
         IF k <= i * s THEN merkle_zero_hashes[h]
         ELSE IF k >= (i + 1) * s THEN tree.nodes[<<h, i>>]
         ELSE merkle_node_hash(below[2 * i], below[2 * i + 1])
  BY DEF PrefixLevel
<1> HIDE DEF first, n, leaves
<1>5. CASE k <= i * s
  <2>1. Node(first, h, i) = merkle_zero_hashes[h]
    BY <1>1, <1>2, <1>5, EmptyNodes
  <2> QED BY <1>4, <1>5, <2>1 DEF first
<1>6. CASE ~(k <= i * s) /\ k >= (i + 1) * s
  <2>1. i * s < n
    <3> DEFINE x == i * s
    <3>1. x \in Nat /\ ~(k <= x)
      BY <1>3, <1>6
    <3> HIDE DEF x
    <3>2. x < n
      BY <1>1, <3>1
    <3> QED BY <3>2 DEF x
  <2>2. <<h, i>> \in Addresses(n)
    BY <1>3, <2>1 DEF Addresses
  <2>3. tree.nodes[<<h, i>>] = Node(leaves, h, i)
    BY <1>1, <2>2
  <2>4. (i + 1) * s <= k
    <3> DEFINE x == (i + 1) * s
    <3>1. x \in Nat /\ k >= x
      BY <1>3, <1>6
    <3> HIDE DEF x
    <3>2. x <= k
      BY <1>1, <3>1
    <3> QED BY <3>2 DEF x
  <2>5. Node(leaves, h, i) = Node(first, h, i)
    BY <1>1, <1>2, <2>4, SameNodes
  <2> QED BY <1>4, <1>6, <2>3, <2>5 DEF first
<1>7. CASE ~(k <= i * s) /\ ~(k >= (i + 1) * s)
  <2>1. h # 0
    <3> SUFFICES ASSUME h = 0 PROVE FALSE
      OBVIOUS
    <3>1. s = 1
      BY SpanIs
    <3>2. i * s = i /\ (i + 1) * s = i + 1
      BY <1>3, <3>1
    <3> QED BY <1>1, <1>3, <1>7, <3>2
  <2>2. 2 * i \in Indices(h - 1) /\ 2 * i + 1 \in Indices(h - 1)
    BY <2>1, ChildrenAre
  <2>3. /\ below[2 * i] = Node(first, h - 1, 2 * i)
        /\ below[2 * i + 1] = Node(first, h - 1, 2 * i + 1)
    BY <2>1, <2>2 DEF first
  <2>4. Node(first, h, i) = merkle_node_hash(Node(first, h - 1, 2 * i),
                                             Node(first, h - 1, 2 * i + 1))
    BY <2>1, NodeIs
  <2> QED BY <1>4, <1>7, <2>3, <2>4 DEF first
<1> QED BY <1>5, <1>6, <1>7

\* The root of a prefix, read from the cache of the whole tree.
LEMMA PrefixRootIs ==
    ASSUME NEW tree, Cached(tree), NEW k \in 0 .. Len(tree.leaves)
    PROVE  root_at_leaf_count(tree, k) = ReferenceRoot(SubSeq(tree.leaves, 1, k))
<1> DEFINE first == SubSeq(tree.leaves, 1, k)
<1>1. PICK g : /\ prefix_subtree_root(tree, k) = g[MERKLE_DEPTH][0]
               /\ g[0] = PrefixLevel(tree, k, 0, <<>>)
               /\ \A h \in Heights : h # 0 => g[h] = PrefixLevel(tree, k, h, g[h - 1])
  BY SubtreesAre
<1> HIDE DEF first
<1> DEFINE S == {h \in Heights : \A i \in Indices(h) : g[h][i] = Node(first, h, i)}
<1>2. 0 \in S
  <2>1. \A i \in Indices(0) : PrefixLevel(tree, k, 0, <<>>)[i] = Node(first, 0, i)
    BY HeightsAre, PrefixLevelIs DEF first
  <2> QED BY <1>1, <2>1, HeightsAre
<1>3. ASSUME NEW m \in Heights, m + 1 \in Heights, m \in S PROVE m + 1 \in S
  <2> DEFINE h == m + 1
  <2>1. h \in Heights /\ h # 0 /\ h - 1 = m
    BY <1>3, HeightsAre
  <2>2. \A j \in Indices(h - 1) : g[h - 1][j] = Node(first, h - 1, j)
    BY <1>3, <2>1
  <2> HIDE DEF h
  <2>3. \A i \in Indices(h) : PrefixLevel(tree, k, h, g[h - 1])[i] = Node(first, h, i)
    BY <2>1, <2>2, PrefixLevelIs DEF first
  <2>4. \A i \in Indices(h) : g[h][i] = Node(first, h, i)
    BY <1>1, <2>1, <2>3
  <2> QED BY <2>1, <2>4 DEF h
<1> HIDE DEF S
<1>4. MERKLE_DEPTH \in S
  BY <1>2, <1>3, HeightInduction, HeightsAre
<1>5. g[MERKLE_DEPTH][0] = Node(first, MERKLE_DEPTH, 0)
  BY <1>4, RootIs DEF S
<1>6. CASE k = Len(tree.leaves)
  <2>1. IsSeq(tree.leaves) /\ IsSeq(first) /\ Len(first) = k
        /\ \A i \in 1 .. k : first[i] = tree.leaves[i]
    BY PrefixIsSeq DEF Cached, first
  <2>2. first = tree.leaves
    BY <1>6, <2>1, SameSeqs
  <2> QED BY <1>6, <2>2 DEF Cached, root_at_leaf_count, ReferenceRoot, Node, first
<1>7. CASE k # Len(tree.leaves)
  BY <1>1, <1>5, <1>7 DEF root_at_leaf_count, ReferenceRoot, Node, first
<1> QED BY <1>6, <1>7

\* No two leaves have the same commitment.
Distinct(leaves) ==
    \A i, j \in 1 .. Len(leaves) : leaves[i].commitment = leaves[j].commitment => i = j

LEMMA CachedMatchesReference ==
    ASSUME NEW tree, Cached(tree), Distinct(tree.leaves)
    PROVE  /\ \A k \in 0 .. Len(tree.leaves) :
                 root_at_leaf_count(tree, k) = ReferenceRoot(SubSeq(tree.leaves, 1, k))
           /\ \A i, j \in LeafIndices(tree) :
                 verify(proof(tree, i), Leaf(tree, j), tree.cached_root) <=> i = j
<1>1. ASSUME NEW i \in LeafIndices(tree), NEW j \in LeafIndices(tree),
             verify(proof(tree, i), Leaf(tree, j), tree.cached_root)
      PROVE  i = j
  <2> DEFINE mp == proof(tree, i)
             note == Leaf(tree, j)
             leaves == tree.leaves
  <2>1. mp.leaf_index = i
    BY DEF proof
  <2>2. note = leaves[j + 1]
    BY DEF Leaf
  <2> HIDE DEF mp, note
  <2>3. /\ Len(leaves) \in Nat
        /\ mp.leaf_index \in 0 .. merkle_capacity - 1
        /\ RootOfProof(mp, note) = Node(leaves, MERKLE_DEPTH, 0)
    BY <1>1, AppendIsSeq DEF Cached, verify, mp, note
  <2>4. leaves[i + 1] = note
    BY <2>1, <2>3, PathSound
  <2>5. i + 1 \in 1 .. Len(leaves) /\ j + 1 \in 1 .. Len(leaves) /\ i \in Nat /\ j \in Nat
    BY <2>3 DEF LeafIndices
  <2>6. i + 1 = j + 1
    BY <2>2, <2>4, <2>5 DEF Distinct
  <2> QED BY <2>5, <2>6
<1> QED BY <1>1, PathComplete, PrefixRootIs

-----------------------------------------------------------------------------
(* Accepted roots. *)

RootOver(leaves, k) == Node(SubSeq(leaves, 1, k), MERKLE_DEPTH, 0)

\* The roots are those of growing prefixes, none longer than k leaves.
Counted(roots, leaves, k) ==
    /\ IsSeq(roots)
    /\ \E count \in [1 .. Len(roots) -> 0 .. k] :
          /\ \A i \in 1 .. Len(roots) : roots[i] = RootOver(leaves, count[i])
          /\ \A i, j \in 1 .. Len(roots) : i < j => count[i] < count[j]

LEMMA CountedGrow ==
    ASSUME NEW roots, NEW leaves, NEW more, NEW notes, NEW n \in Nat, IsSeq(leaves),
           Counted(roots, leaves, Len(leaves)), Follows(more, leaves, notes, n)
    PROVE  Counted(roots, more, Len(leaves))
<1> DEFINE k == Len(leaves)
<1>1. k \in Nat /\ IsSeq(more) /\ Len(more) = k + n /\ \A i \in 1 .. k : more[i] = leaves[i]
  BY AppendIsSeq DEF Follows
<1>2. ASSUME NEW c \in 0 .. k PROVE RootOver(leaves, c) = RootOver(more, c)
  <2> DEFINE a == SubSeq(leaves, 1, c)
             b == SubSeq(more, 1, c)
  <2>1. c \in 0 .. Len(leaves) /\ c \in 0 .. Len(more) /\ \A i \in 1 .. c : i \in 1 .. k
    BY <1>1
  <2>2. /\ IsSeq(a) /\ Len(a) = c /\ \A i \in 1 .. c : a[i] = leaves[i]
        /\ IsSeq(b) /\ Len(b) = c /\ \A i \in 1 .. c : b[i] = more[i]
    BY <1>1, <2>1, PrefixIsSeq
  <2> HIDE DEF a, b
  <2>3. \A i \in 1 .. Len(a) : a[i] = b[i]
    BY <1>1, <2>1, <2>2
  <2>4. a = b
    BY <2>2, <2>3, SameSeqs
  <2> QED BY <2>4 DEF RootOver, a, b
<1> HIDE DEF k
<1>3. PICK count \in [1 .. Len(roots) -> 0 .. k] :
          /\ \A i \in 1 .. Len(roots) : roots[i] = RootOver(leaves, count[i])
          /\ \A i, j \in 1 .. Len(roots) : i < j => count[i] < count[j]
  BY DEF Counted, k
<1>4. \A i \in 1 .. Len(roots) : roots[i] = RootOver(more, count[i])
  BY <1>2, <1>3
<1> QED BY <1>3, <1>4 DEF Counted, k

LEMMA CountedAppend ==
    ASSUME NEW roots, NEW leaves, NEW k \in Nat, NEW m \in Nat, k < m,
           Counted(roots, leaves, k)
    PROVE  Counted(Append(roots, RootOver(leaves, m)), leaves, m)
<1> DEFINE grown == Append(roots, RootOver(leaves, m))
           r == Len(roots)
<1>1. PICK count \in [1 .. r -> 0 .. k] :
          /\ \A i \in 1 .. r : roots[i] = RootOver(leaves, count[i])
          /\ \A i, j \in 1 .. r : i < j => count[i] < count[j]
  BY DEF Counted
<1>2. /\ IsSeq(grown) /\ r \in Nat /\ Len(grown) = r + 1
      /\ \A i \in 1 .. r : grown[i] = roots[i]
      /\ grown[r + 1] = RootOver(leaves, m)
  BY AppendIsSeq DEF Counted
<1> HIDE DEF grown, r
<1> DEFINE more == [i \in 1 .. r + 1 |-> IF i = r + 1 THEN m ELSE count[i]]
<1>3. /\ more[r + 1] = m
      /\ \A i \in 1 .. r : more[i] = count[i] /\ count[i] \in Nat /\ count[i] <= k
  BY <1>1, <1>2
<1>4. more \in [1 .. r + 1 -> 0 .. m]
  BY <1>2, <1>3
<1> HIDE DEF more
<1>5. \A i \in 1 .. r + 1 : grown[i] = RootOver(leaves, more[i])
  BY <1>1, <1>2, <1>3
<1>6. \A i, j \in 1 .. r + 1 : i < j => more[i] < more[j]
  BY <1>1, <1>2, <1>3
<1>7. Counted(grown, leaves, m)
  BY <1>2, <1>4, <1>5, <1>6 DEF Counted
<1> QED BY <1>7 DEF grown

LEMMA CountedWeaken ==
    ASSUME NEW roots, NEW leaves, NEW k \in Nat, NEW m \in Nat, k <= m,
           Counted(roots, leaves, k)
    PROVE  Counted(roots, leaves, m)
<1>1. PICK count \in [1 .. Len(roots) -> 0 .. k] :
          /\ \A i \in 1 .. Len(roots) : roots[i] = RootOver(leaves, count[i])
          /\ \A i, j \in 1 .. Len(roots) : i < j => count[i] < count[j]
  BY DEF Counted
<1>2. count \in [1 .. Len(roots) -> 0 .. m]
  BY <1>1
<1> QED BY <1>1, <1>2 DEF Counted

\* What is left of a sequence without its first e elements.
LEMMA SuffixIsSeq ==
    ASSUME NEW x, IsSeq(x), NEW e \in Nat, e < Len(x)
    PROVE  /\ IsSeq(SubSeq(x, e + 1, Len(x)))
           /\ Len(SubSeq(x, e + 1, Len(x))) = Len(x) - e
           /\ \A i \in 1 .. Len(x) - e : SubSeq(x, e + 1, Len(x))[i] = x[i + e]
<1> DEFINE S == {x[i] : i \in 1 .. Len(x)}
<1>1. x \in Seq(S)
  BY DEF IsSeq
<1> HIDE DEF S
<1> DEFINE n == Len(x)
           y == SubSeq(x, e + 1, n)
<1>2. n \in Nat /\ e < n
  BY <1>1
<1>3. y \in Seq(S)
  BY <1>1, <1>2
<1>4. Len(y) = n - e /\ \A i \in 1 .. n - e : y[i] = x[i + e]
  BY <1>1, <1>2
<1> HIDE DEF y
<1>5. IsSeq(y)
  BY <1>3, SeqIsSeq
<1> QED BY <1>4, <1>5 DEF y

LEMMA CountedSuffix ==
    ASSUME NEW roots, NEW leaves, NEW k \in Nat, NEW e \in Nat, e < Len(roots),
           Counted(roots, leaves, k)
    PROVE  Counted(SubSeq(roots, e + 1, Len(roots)), leaves, k)
<1> DEFINE rest == SubSeq(roots, e + 1, Len(roots))
           r == Len(roots)
<1>1. PICK count \in [1 .. r -> 0 .. k] :
          /\ \A i \in 1 .. r : roots[i] = RootOver(leaves, count[i])
          /\ \A i, j \in 1 .. r : i < j => count[i] < count[j]
  BY DEF Counted
<1>2. /\ IsSeq(rest) /\ r \in Nat /\ Len(rest) = r - e /\ e < r
      /\ \A i \in 1 .. r - e : rest[i] = roots[i + e]
  BY AppendIsSeq, SuffixIsSeq DEF Counted
<1> HIDE DEF rest, r
<1> DEFINE later == [i \in 1 .. r - e |-> count[i + e]]
<1>3. \A i \in 1 .. r - e : i + e \in 1 .. r
  BY <1>2
<1>4. later \in [1 .. r - e -> 0 .. k]
  BY <1>1, <1>3
<1>5. \A i \in 1 .. r - e : later[i] = count[i + e]
  OBVIOUS
<1> HIDE DEF later
<1>6. \A i \in 1 .. r - e : rest[i] = RootOver(leaves, later[i])
  BY <1>1, <1>2, <1>3, <1>5
<1>7. \A i, j \in 1 .. r - e : i < j => later[i] < later[j]
  <2> SUFFICES ASSUME NEW i \in 1 .. r - e, NEW j \in 1 .. r - e, i < j
               PROVE  later[i] < later[j]
    OBVIOUS
  <2>1. i + e \in 1 .. r /\ j + e \in 1 .. r /\ i + e < j + e
    BY <1>2, <1>3
  <2> QED BY <1>1, <1>5, <2>1
<1>8. Counted(rest, leaves, k)
  BY <1>2, <1>4, <1>6, <1>7 DEF Counted
<1> QED BY <1>8 DEF rest

LEMMA MaxOfTwo ==
    ASSUME NEW a \in Int, NEW b \in Int
    PROVE  Max({a, b}) = IF a >= b THEN a ELSE b
<1>1. \E x \in {a, b} : \A y \in {a, b} : x >= y
  OBVIOUS
<1>2. Max({a, b}) \in {a, b} /\ \A y \in {a, b} : Max({a, b}) >= y
  BY <1>1, Zenon DEF Max
<1> QED BY <1>2

\* The roots after a change of the tree.
LEMMA Remembered ==
    ASSUME NEW margin,
           margin = [note_tree |-> margin.note_tree,
                     spent_nullifiers |-> margin.spent_nullifiers,
                     accepted_roots |-> margin.accepted_roots],
           NEW k \in Nat, NEW m \in Nat, k < m,
           Len(margin.accepted_roots) \in 1 .. RootHistoryLimit,
           Counted(margin.accepted_roots, margin.note_tree.leaves, k),
           margin.note_tree.cached_root = RootOver(margin.note_tree.leaves, m)
    PROVE  \E roots :
              /\ remember_current_root(margin) =
                    [note_tree |-> margin.note_tree,
                     spent_nullifiers |-> margin.spent_nullifiers,
                     accepted_roots |-> roots]
              /\ Len(roots) \in 1 .. RootHistoryLimit
              /\ Counted(roots, margin.note_tree.leaves, m)
              /\ Last(roots) = margin.note_tree.cached_root
<1> DEFINE old == margin.accepted_roots
           leaves == margin.note_tree.leaves
           root == margin.note_tree.cached_root
           grown == IF Last(old) = root THEN old ELSE Append(old, root)
           excess == Max({0, Len(grown) - RootHistoryLimit})
           roots == SubSeq(grown, excess + 1, Len(grown))
<1>1. remember_current_root(margin) = [margin EXCEPT !.accepted_roots = roots]
  BY DEF remember_current_root
<1>2. remember_current_root(margin) =
         [note_tree |-> margin.note_tree,
          spent_nullifiers |-> margin.spent_nullifiers,
          accepted_roots |-> roots]
  <2> HIDE DEF roots
  <2> QED BY <1>1
<1>3. /\ Counted(grown, leaves, m) /\ Last(grown) = root
      /\ Len(grown) \in 1 .. RootHistoryLimit + 1
  <2>1. RootHistoryLimit \in Nat /\ IsSeq(old)
    BY LedgerAssumption DEF Counted
  <2>2. CASE Last(old) = root
    BY <2>1, <2>2, CountedWeaken
  <2>3. CASE Last(old) # root
    <3>1. Counted(Append(old, root), leaves, m)
      BY CountedAppend
    <3>2. Len(Append(old, root)) = Len(old) + 1 /\ Last(Append(old, root)) = root
      BY <2>1, AppendIsSeq DEF Last
    <3> QED BY <2>1, <2>3, <3>1, <3>2
  <2> QED BY <2>2, <2>3
<1> HIDE DEF grown
<1>4. RootHistoryLimit \in Nat /\ RootHistoryLimit > 0 /\ IsSeq(grown)
  BY <1>3, LedgerAssumption DEF Counted
<1>5. excess \in Nat /\ excess < Len(grown) /\ Len(grown) - excess \in 1 .. RootHistoryLimit
  <2> DEFINE d == Len(grown) - RootHistoryLimit
  <2>1. d \in Int /\ Len(grown) \in Nat /\ d = Len(grown) - RootHistoryLimit
    BY <1>3, <1>4
  <2> HIDE DEF d
  <2>2. Max({0, d}) = IF 0 >= d THEN 0 ELSE d
    BY <2>1, MaxOfTwo
  <2>3. excess = IF 0 >= d THEN 0 ELSE d
    BY <2>2 DEF d
  <2> HIDE DEF excess
  <2> QED BY <1>3, <1>4, <2>1, <2>3
<1> HIDE DEF excess
<1>6. Counted(roots, leaves, m)
  BY <1>3, <1>5, CountedSuffix
<1>7. Len(roots) = Len(grown) - excess /\ Last(roots) = root
  <2> DEFINE n == Len(grown) - excess
  <2>1. Len(roots) = n /\ \A i \in 1 .. n : roots[i] = grown[i + excess]
    BY <1>4, <1>5, SuffixIsSeq
  <2>2. n \in 1 .. n /\ n + excess = Len(grown)
    BY <1>3, <1>4, <1>5
  <2> HIDE DEF roots
  <2>3. roots[n] = grown[Len(grown)]
    BY <2>1, <2>2
  <2> QED BY <1>3, <2>1, <2>3 DEF Last
<1> HIDE DEF roots
<1>8. Len(roots) \in 1 .. RootHistoryLimit
  BY <1>5, <1>7
<1> QED BY <1>2, <1>6, <1>7, <1>8

-----------------------------------------------------------------------------
(* The invariant of the margin state. *)

MarginShape(margin) ==
    margin = [note_tree |-> margin.note_tree,
              spent_nullifiers |-> margin.spent_nullifiers,
              accepted_roots |-> margin.accepted_roots]

\* What is spent are nullifiers of leaves.
SpentLeaves(spent, tree) ==
    \A x \in spent : \E i \in LeafIndices(tree) : x = NullifierAt(tree, i)

SoundMargin(margin) ==
    /\ MarginShape(margin)
    /\ Built(margin.note_tree)
    /\ Distinct(margin.note_tree.leaves)
    /\ Len(margin.accepted_roots) \in 1 .. RootHistoryLimit
    /\ Counted(margin.accepted_roots, margin.note_tree.leaves,
               Len(margin.note_tree.leaves))
    /\ Last(margin.accepted_roots) = margin.note_tree.cached_root
    /\ SpentLeaves(margin.spent_nullifiers, margin.note_tree)

LEMMA WholeIs ==
    ASSUME NEW tree, Built(tree)
    PROVE  /\ IsSeq(tree.leaves) /\ Len(tree.leaves) \in Nat
           /\ Len(tree.leaves) <= merkle_capacity
           /\ DOMAIN tree.leaves = 1 .. Len(tree.leaves)
           /\ tree.cached_root = RootOver(tree.leaves, Len(tree.leaves))
<1> DEFINE x == tree.leaves
           n == Len(x)
           first == SubSeq(x, 1, n)
<1>1. IsSeq(x) /\ Len(x) <= merkle_capacity /\ tree.cached_root = Node(x, MERKLE_DEPTH, 0)
  BY DEF Built, Cached
<1>2. n \in Nat /\ n \in 0 .. n /\ DOMAIN x = 1 .. n
  <2> DEFINE S == {x[i] : i \in 1 .. Len(x)}
  <2>1. x \in Seq(S)
    BY <1>1 DEF IsSeq
  <2> HIDE DEF S, x
  <2> QED BY <2>1
<1> HIDE DEF x
<1>3. IsSeq(first) /\ Len(first) = n /\ \A i \in 1 .. n : first[i] = x[i]
  BY <1>1, <1>2, PrefixIsSeq
<1> HIDE DEF first
<1>4. first = x
  BY <1>1, <1>3, SameSeqs
<1> QED BY <1>1, <1>2, <1>4 DEF RootOver, first, x

LEMMA NewMarginSound == SoundMargin(NewMarginState)
<1> DEFINE roots == <<EmptyTree.cached_root>>
           root == EmptyTree.cached_root
<1>1. Built(EmptyTree) /\ EmptyTree.leaves = <<>> /\ Len(<<>>) = 0
  BY EmptyBuilt DEF EmptyTree
<1>2. root = RootOver(<<>>, 0)
  BY <1>1, WholeIs
<1>3. roots \in Seq({root}) /\ Len(roots) = 1 /\ roots[1] = root
  OBVIOUS
<1>4. IsSeq(roots)
  BY <1>3, SeqIsSeq
<1> HIDE DEF roots, root
<1>5. Counted(roots, <<>>, 0)
  <2> DEFINE count == [i \in 1 .. 1 |-> 0]
  <2>1. count \in [1 .. 1 -> 0 .. 0] /\ \A i \in 1 .. 1 : count[i] = 0 /\ i = 1
    OBVIOUS
  <2> HIDE DEF count
  <2>2. \A i \in 1 .. 1 : roots[i] = RootOver(<<>>, count[i])
    BY <1>2, <1>3, <2>1
  <2>3. \A i, j \in 1 .. 1 : i < j => count[i] < count[j]
    BY <2>1
  <2> QED BY <1>3, <1>4, <2>1, <2>2, <2>3 DEF Counted
<1>6. Last(roots) = root /\ 1 \in 1 .. RootHistoryLimit
  BY <1>3, LedgerAssumption DEF Last
<1>7. Distinct(<<>>)
  BY <1>1 DEF Distinct
<1> QED BY <1>1, <1>3, <1>5, <1>6, <1>7
        DEF SoundMargin, MarginShape, NewMarginState, SpentLeaves, roots, root

LEMMA DistinctFollows ==
    ASSUME NEW more, NEW old, NEW notes, NEW n \in Nat, Follows(more, old, notes, n),
           Len(old) \in Nat, Distinct(old),
           \A i \in 1 .. n : \A j \in 1 .. Len(old) : old[j].commitment # notes[i].commitment,
           \A i, j \in 1 .. n : notes[i].commitment = notes[j].commitment => i = j
    PROVE  Distinct(more)
<1> DEFINE m == Len(old)
<1> SUFFICES ASSUME NEW i \in 1 .. Len(more), NEW j \in 1 .. Len(more),
                    more[i].commitment = more[j].commitment
             PROVE  i = j
  BY DEF Distinct
<1>1. m \in Nat /\ Len(more) = m + n
  BY DEF Follows
<1>2. /\ \A k \in 1 .. m : more[k] = old[k]
      /\ \A k \in 1 .. n : more[m + k] = notes[k]
  BY DEF Follows
<1>3. ASSUME NEW k \in 1 .. Len(more), k > m
      PROVE  k - m \in 1 .. n /\ more[k] = notes[k - m]
  <2>1. k - m \in 1 .. n /\ m + (k - m) = k
    BY <1>1, <1>3
  <2>2. more[m + (k - m)] = notes[k - m]
    BY <1>2, <2>1
  <2> QED BY <2>1, <2>2
<1>4. CASE i <= m /\ j <= m
  <2>1. i \in 1 .. m /\ j \in 1 .. m
    BY <1>1, <1>4
  <2> QED BY <1>2, <2>1 DEF Distinct
<1>5. CASE i <= m /\ j > m
  <2>1. i \in 1 .. m
    BY <1>1, <1>5
  <2>2. j - m \in 1 .. n /\ more[j] = notes[j - m] /\ more[i] = old[i]
    BY <1>2, <1>3, <1>5, <2>1
  <2> QED BY <2>1, <2>2
<1>6. CASE i > m /\ j <= m
  <2>1. j \in 1 .. m
    BY <1>1, <1>6
  <2>2. i - m \in 1 .. n /\ more[i] = notes[i - m] /\ more[j] = old[j]
    BY <1>2, <1>3, <1>6, <2>1
  <2> QED BY <2>1, <2>2
<1>7. CASE i > m /\ j > m
  <2>1. i - m = j - m
    BY <1>3, <1>7
  <2> QED BY <1>1, <2>1
<1> QED BY <1>1, <1>4, <1>5, <1>6, <1>7

\* Leaves, and so their nullifiers, stay where they are.
Kept(tree, more) ==
    /\ \A i \in LeafIndices(tree) : i \in LeafIndices(more)
    /\ \A i \in LeafIndices(tree) : Leaf(more, i) = Leaf(tree, i)
    /\ \A i \in LeafIndices(tree) : NullifierAt(more, i) = NullifierAt(tree, i)

LEMMA NullifiersStay ==
    ASSUME NEW tree, NEW more, Len(tree.leaves) \in Nat, NEW notes, NEW n \in Nat,
           Follows(more.leaves, tree.leaves, notes, n)
    PROVE  Kept(tree, more)
<1> SUFFICES ASSUME NEW i \in LeafIndices(tree)
             PROVE  i \in LeafIndices(more) /\ Leaf(more, i) = Leaf(tree, i)
  BY DEF NullifierAt, Kept
<1>1. i \in Nat /\ i + 1 \in 1 .. Len(tree.leaves) /\ Len(more.leaves) = Len(tree.leaves) + n
  BY DEF LeafIndices, Follows
<1>2. more.leaves[i + 1] = tree.leaves[i + 1]
  BY <1>1 DEF Follows
<1> QED BY <1>1, <1>2 DEF LeafIndices, Leaf

LEMMA MarginGrows ==
    ASSUME NEW margin, SoundMargin(margin), NEW tree, NEW notes, NEW n \in Nat, n > 0,
           Built(tree), Follows(tree.leaves, margin.note_tree.leaves, notes, n),
           Distinct(tree.leaves), NEW spent, SpentLeaves(spent, tree),
           NEW grown, grown = [note_tree |-> tree, spent_nullifiers |-> spent,
                               accepted_roots |-> margin.accepted_roots]
    PROVE  /\ SoundMargin(remember_current_root(grown))
           /\ remember_current_root(grown).note_tree = tree
           /\ remember_current_root(grown).spent_nullifiers = spent
<1> DEFINE old == margin.note_tree.leaves
           k == Len(old)
           m == Len(tree.leaves)
<1>1. /\ grown.note_tree = tree /\ grown.spent_nullifiers = spent
      /\ grown.accepted_roots = margin.accepted_roots
      /\ grown = [note_tree |-> grown.note_tree,
                  spent_nullifiers |-> grown.spent_nullifiers,
                  accepted_roots |-> grown.accepted_roots]
  OBVIOUS
<1>2. IsSeq(old) /\ k \in Nat /\ m \in Nat /\ m = k + n /\ tree.cached_root = RootOver(tree.leaves, m)
  <2>1. m = Len(old) + n
    BY DEF Follows
  <2> QED BY <2>1, WholeIs DEF SoundMargin
<1>3. Counted(margin.accepted_roots, tree.leaves, k)
  BY <1>2, CountedGrow DEF SoundMargin
<1>4. Len(margin.accepted_roots) \in 1 .. RootHistoryLimit
  BY DEF SoundMargin
<1>5. k < m
  BY <1>2
<1> HIDE DEF k, m
<1>6. PICK roots :
              /\ remember_current_root(grown) =
                    [note_tree |-> grown.note_tree,
                     spent_nullifiers |-> grown.spent_nullifiers,
                     accepted_roots |-> roots]
              /\ Len(roots) \in 1 .. RootHistoryLimit
              /\ Counted(roots, grown.note_tree.leaves, m)
              /\ Last(roots) = grown.note_tree.cached_root
  BY <1>1, <1>2, <1>3, <1>4, <1>5, Remembered
<1> DEFINE result == remember_current_root(grown)
<1>7. /\ result.note_tree = tree /\ result.spent_nullifiers = spent
      /\ result.accepted_roots = roots
      /\ MarginShape(result)
  BY <1>1, <1>6 DEF MarginShape
<1> HIDE DEF result
<1>8. SoundMargin(result)
  BY <1>1, <1>6, <1>7 DEF SoundMargin, m
<1> QED BY <1>7, <1>8 DEF result

-----------------------------------------------------------------------------
(* The invariant of the ledger. *)

LedgerShape(ledger) ==
    ledger = [policies |-> ledger.policies, margin |-> ledger.margin,
              shielded_collateral |-> ledger.shielded_collateral,
              fee_total |-> ledger.fee_total]

NoteKnown(policies, note) ==
    \E p \in policies : /\ p.market_id = note.market_id
                        /\ p.collateral_asset = note.collateral_asset

SoundPolicies(policies) ==
    /\ \A p \in policies : ValidPolicy(p) /\ IsPolicy(p)
    /\ \A p, q \in policies : p.market_id = q.market_id => p = q

SoundLedger(ledger) ==
    /\ LedgerShape(ledger)
    /\ SoundPolicies(ledger.policies)
    /\ SoundMargin(ledger.margin)
    /\ \A i \in 1 .. Len(ledger.margin.note_tree.leaves) :
          NoteKnown(ledger.policies, ledger.margin.note_tree.leaves[i])

LEMMA RegisterSound ==
    ASSUME NEW ledger, SoundLedger(ledger), NEW policy, IsPolicy(policy)
    PROVE  SoundLedger(register_market(ledger, policy).ledger)
<1>1. CASE ValidPolicy(policy) /\ ~ Registered(ledger, policy.market_id)
  <2> DEFINE more == ledger.policies \cup {policy}
             result == [policies |-> more, margin |-> ledger.margin,
                        shielded_collateral |-> ledger.shielded_collateral,
                        fee_total |-> ledger.fee_total]
  <2>1. register_market(ledger, policy).ledger = result
    BY <1>1 DEF register_market, SoundLedger, LedgerShape
  <2>2. SoundPolicies(more)
    <3>1. \A p \in ledger.policies : p.market_id # policy.market_id
      BY <1>1 DEF Registered
    <3> QED BY <1>1, <3>1 DEF SoundLedger, SoundPolicies
  <2>3. \A note : NoteKnown(ledger.policies, note) => NoteKnown(more, note)
    BY DEF NoteKnown
  <2>4. /\ result.policies = more /\ result.margin = ledger.margin
        /\ LedgerShape(result)
    BY DEF LedgerShape
  <2> HIDE DEF more, result
  <2> QED BY <2>1, <2>2, <2>3, <2>4 DEF SoundLedger
<1>2. CASE ~(ValidPolicy(policy) /\ ~ Registered(ledger, policy.market_id))
  BY <1>2 DEF register_market
<1> QED BY <1>1, <1>2

LEMMA EmptySound == SoundLedger(EmptyLedger)
<1>1. /\ EmptyLedger.policies = {} /\ EmptyLedger.margin = NewMarginState
      /\ LedgerShape(EmptyLedger)
  BY DEF EmptyLedger, LedgerShape
<1>2. NewMarginState.note_tree.leaves = <<>> /\ Len(<<>>) = 0
  BY DEF NewMarginState, EmptyTree
<1> QED BY <1>1, <1>2, NewMarginSound DEF SoundLedger, SoundPolicies

\* The notes of a deposit or a spend, one after the other.
LEMMA LedgerGrows ==
    ASSUME NEW ledger, SoundLedger(ledger), NEW margin, SoundMargin(margin),
           NEW collateral, NEW fees, NEW notes, NEW n \in Nat,
           Follows(margin.note_tree.leaves, ledger.margin.note_tree.leaves, notes, n),
           \A i \in 1 .. n : NoteKnown(ledger.policies, notes[i])
    PROVE  SoundLedger([policies |-> ledger.policies, margin |-> margin,
                        shielded_collateral |-> collateral, fee_total |-> fees])
<1> DEFINE result == [policies |-> ledger.policies, margin |-> margin,
                      shielded_collateral |-> collateral, fee_total |-> fees]
           old == ledger.margin.note_tree.leaves
           more == margin.note_tree.leaves
           m == Len(old)
<1>1. result.policies = ledger.policies /\ result.margin = margin /\ LedgerShape(result)
  BY DEF LedgerShape
<1>2. /\ m \in Nat /\ Len(more) = m + n
      /\ \A i \in 1 .. m : more[i] = old[i]
      /\ \A i \in 1 .. n : more[m + i] = notes[i]
  BY WholeIs DEF Follows, SoundLedger, SoundMargin
<1>3. \A i \in 1 .. m : NoteKnown(ledger.policies, old[i])
  BY DEF SoundLedger
<1> HIDE DEF result, more, old, m
<1>4. ASSUME NEW i \in 1 .. Len(more) PROVE NoteKnown(ledger.policies, more[i])
  <2>1. CASE i <= m
    <3>1. i \in 1 .. m
      BY <1>2, <2>1
    <3> QED BY <1>2, <1>3, <3>1
  <2>2. CASE i > m
    <3>1. i - m \in 1 .. n /\ m + (i - m) = i
      BY <1>2, <2>2
    <3>2. more[m + (i - m)] = notes[i - m]
      BY <1>2, <3>1
    <3> QED BY <3>1, <3>2
  <2> QED BY <1>2, <2>1, <2>2
<1>5. SoundLedger(result)
  BY <1>1, <1>4 DEF SoundLedger, more
<1> QED BY <1>5 DEF result

LEMMA ContainsIs ==
    ASSUME NEW tree, Built(tree), NEW c, ~ contains(tree, c)
    PROVE  \A j \in 1 .. Len(tree.leaves) : tree.leaves[j].commitment # c
BY WholeIs DEF contains

\* Appending one note.
LEMMA OneFollows ==
    ASSUME NEW tree, Built(tree), Len(tree.leaves) < merkle_capacity, NEW note
    PROVE  /\ Built(append(tree, note))
           /\ Follows(append(tree, note).leaves, tree.leaves, <<note>>, 1)
<1> DEFINE old == tree.leaves
           more == append(tree, note).leaves
<1>1. Built(append(tree, note)) /\ more = Append(old, note)
  BY AppendBuilt
<1>2. IsSeq(old) /\ Len(old) \in Nat
  BY WholeIs
<1> HIDE DEF old, more
<1>3. /\ IsSeq(more) /\ Len(more) = Len(old) + 1
      /\ \A i \in 1 .. Len(old) : more[i] = old[i]
      /\ more[Len(old) + 1] = note
  BY <1>1, <1>2, AppendIsSeq
<1>4. \A i \in 1 .. 1 : i = 1 /\ <<note>>[i] = note
  OBVIOUS
<1>5. Follows(more, old, <<note>>, 1)
  BY <1>3, <1>4 DEF Follows
<1> QED BY <1>1, <1>5 DEF old, more

\* What an accepted deposit does to the ledger.
LEMMA DepositSound ==
    ASSUME NEW ledger, SoundLedger(ledger), NEW deposit, DepositAccepted(ledger, deposit)
    PROVE  \E margin :
              /\ authority_deposit(ledger, deposit).ledger =
                   [policies |-> ledger.policies, margin |-> margin,
                    shielded_collateral |->
                       ledger.shielded_collateral + deposit.statement.backing_amount,
                    fee_total |-> ledger.fee_total]
              /\ SoundLedger(authority_deposit(ledger, deposit).ledger)
              /\ margin.spent_nullifiers = ledger.margin.spent_nullifiers
              /\ Follows(margin.note_tree.leaves, ledger.margin.note_tree.leaves,
                         <<deposit.statement.note>>, 1)
<1> DEFINE note == deposit.statement.note
           tree == ledger.margin.note_tree
           grown == append(tree, note)
           base == [note_tree |-> grown,
                    spent_nullifiers |-> ledger.margin.spent_nullifiers,
                    accepted_roots |-> ledger.margin.accepted_roots]
           margin == remember_current_root(base)
           collateral == ledger.shielded_collateral + deposit.statement.backing_amount
           result == [policies |-> ledger.policies, margin |-> margin,
                      shielded_collateral |-> collateral,
                      fee_total |-> ledger.fee_total]
<1>1. append_deposit_commitment(ledger.margin, note) = margin
  <2>1. [ledger.margin EXCEPT !.note_tree = append(@, note)] = base
    BY DEF SoundLedger, SoundMargin, MarginShape
  <2> QED BY <2>1, Zenon DEF append_deposit_commitment
<1>2. authority_deposit(ledger, deposit).ledger = result
  <2> HIDE DEF margin
  <2> QED BY <1>1 DEF authority_deposit, SoundLedger, LedgerShape
<1>3. Built(tree) /\ Distinct(tree.leaves) /\ SpentLeaves(ledger.margin.spent_nullifiers, tree)
  BY DEF SoundLedger, SoundMargin
<1>4. Len(tree.leaves) < merkle_capacity /\ ~ contains(tree, note.commitment)
  BY DEF DepositAccepted, CanAppend
<1>5. Built(grown) /\ Follows(grown.leaves, tree.leaves, <<note>>, 1)
  BY <1>3, <1>4, OneFollows
<1>6. Len(tree.leaves) \in Nat
  BY <1>3, WholeIs
<1> HIDE DEF grown
<1>7. Distinct(grown.leaves)
  <2>1. \A j \in 1 .. Len(tree.leaves) : tree.leaves[j].commitment # note.commitment
    BY <1>3, <1>4, ContainsIs
  <2>2. \A i \in 1 .. 1 : i = 1 /\ <<note>>[i] = note
    OBVIOUS
  <2>3. \A i, j \in 1 .. 1 : i = j
    OBVIOUS
  <2>4. \A i \in 1 .. 1 : \A j \in 1 .. Len(tree.leaves) :
           tree.leaves[j].commitment # <<note>>[i].commitment
    BY <2>1, <2>2
  <2> QED BY <1>3, <1>5, <1>6, <2>3, <2>4, DistinctFollows
<1>8. SpentLeaves(ledger.margin.spent_nullifiers, grown)
  <2>1. Kept(tree, grown)
    <3> HIDE DEF tree
    <3> QED BY <1>5, <1>6, NullifiersStay
  <2> HIDE DEF tree
  <2> QED BY <1>3, <2>1 DEF SpentLeaves, Kept
<1>9. /\ SoundMargin(margin) /\ margin.note_tree = grown
      /\ margin.spent_nullifiers = ledger.margin.spent_nullifiers
  <2> DEFINE old == ledger.margin
             spent == ledger.margin.spent_nullifiers
  <2>1. SoundMargin(old) /\ Follows(grown.leaves, old.note_tree.leaves, <<note>>, 1)
    BY <1>5 DEF SoundLedger
  <2>2. base = [note_tree |-> grown, spent_nullifiers |-> spent,
                accepted_roots |-> old.accepted_roots]
    OBVIOUS
  <2>3. SpentLeaves(spent, grown) /\ 1 > 0 /\ 1 \in Nat
    BY <1>8
  <2> HIDE DEF old, spent, base
  <2> QED BY <1>5, <1>7, <2>1, <2>2, <2>3, MarginGrows DEF spent
<1> HIDE DEF margin
<1>10. NoteKnown(ledger.policies, note)
  <2>1. Registered(ledger, note.market_id)
        /\ PolicyOf(ledger, note.market_id).collateral_asset = note.collateral_asset
    BY DEF DepositAccepted
  <2>2. /\ PolicyOf(ledger, note.market_id) \in ledger.policies
        /\ PolicyOf(ledger, note.market_id).market_id = note.market_id
    BY <2>1, Zenon DEF Registered, PolicyOf
  <2> QED BY <2>1, <2>2 DEF NoteKnown
<1>11. SoundLedger(result)
  <2>1. \A i \in 1 .. 1 : <<note>>[i] = note
    OBVIOUS
  <2>2. \A i \in 1 .. 1 : NoteKnown(ledger.policies, <<note>>[i])
    BY <1>10, <2>1
  <2> QED BY <1>5, <1>9, <2>2, LedgerGrows
<1> QED BY <1>2, <1>5, <1>9, <1>11

\* The leaf the i-th input of a spend consumes.
InputIndex(spend, i) == spend.proof.inputs[i].merkle_proof.leaf_index

Consumes(tree, spend, i) ==
    /\ InputIndex(spend, i) \in LeafIndices(tree)
    /\ Leaf(tree, InputIndex(spend, i)) = spend.proof.inputs[i].note
    /\ Opening(Leaf(tree, InputIndex(spend, i))) = spend.proof.inputs[i].opening
    /\ spend.statement.nullifiers[i] = NullifierAt(tree, InputIndex(spend, i))

LEMMA ListIs ==
    ASSUME NEW x, IsList(x)
    PROVE  /\ IsSeq(x) /\ Len(x) \in Nat /\ DOMAIN x = 1 .. Len(x)
           /\ Range(x) = {x[i] : i \in 1 .. Len(x)}
<1>1. IsSeq(x) /\ Len(x) \in Nat /\ DOMAIN x = 1 .. Len(x)
  <2> DEFINE S == Range(x)
  <2>1. x \in Seq(S)
    BY DEF IsList
  <2> HIDE DEF S
  <2> QED BY <2>1, SeqIsSeq
<1> QED BY <1>1 DEF Range

\* An input whose path leads to an accepted root opens a leaf of the tree.
LEMMA AnchorSound ==
    ASSUME NEW margin, SoundMargin(margin), NEW root, accepts_root(margin, root),
           NEW mp, NEW note, verify(mp, note, root)
    PROVE  /\ mp.leaf_index \in LeafIndices(margin.note_tree)
           /\ Leaf(margin.note_tree, mp.leaf_index) = note
<1> DEFINE roots == margin.accepted_roots
           leaves == margin.note_tree.leaves
           n == Len(leaves)
<1>1. IsSeq(leaves) /\ n \in Nat /\ n <= merkle_capacity
  BY WholeIs DEF SoundMargin
<1>2. PICK i \in 1 .. Len(roots) : roots[i] = root
  <2>1. IsSeq(roots)
    BY DEF SoundMargin, Counted
  <2>2. DOMAIN roots = 1 .. Len(roots)
    <3> DEFINE S == {roots[i] : i \in 1 .. Len(roots)}
    <3>1. roots \in Seq(S)
      BY <2>1 DEF IsSeq
    <3> HIDE DEF S, roots
    <3> QED BY <3>1
  <2> QED BY <2>2 DEF accepts_root, Range
<1>3. PICK c \in 0 .. n : root = RootOver(leaves, c)
  BY <1>2 DEF SoundMargin, Counted
<1> HIDE DEF n, leaves
<1> DEFINE first == SubSeq(leaves, 1, c)
<1>4. Len(first) = c /\ (\A j \in 1 .. c : first[j] = leaves[j]) /\ c \in Nat /\ c <= n
  BY <1>1, PrefixIsSeq DEF n
<1>5. /\ mp.leaf_index \in 0 .. merkle_capacity - 1
      /\ RootOfProof(mp, note) = Node(first, MERKLE_DEPTH, 0)
  BY <1>3 DEF verify, RootOver
<1> HIDE DEF first
<1>6. mp.leaf_index < Len(first) /\ first[mp.leaf_index + 1] = note
  BY <1>4, <1>5, PathSound
<1>7. /\ mp.leaf_index \in Nat /\ mp.leaf_index < c /\ mp.leaf_index + 1 \in 1 .. c
  <2>1. mp.leaf_index \in Nat
    BY <1>5, SpanPositive, HeightsAre DEF merkle_capacity
  <2> QED BY <1>4, <1>6, <2>1
<1>8. leaves[mp.leaf_index + 1] = note
  BY <1>4, <1>6, <1>7
<1> QED BY <1>1, <1>4, <1>7, <1>8 DEF LeafIndices, Leaf, leaves, n

LEMMA InputsAre ==
    ASSUME NEW ledger, SoundLedger(ledger), NEW spend, IsSpend(spend),
           LedgerSpendAccepted(ledger, spend)
    PROVE  /\ Len(spend.proof.inputs) = Len(spend.statement.nullifiers)
           /\ Len(spend.proof.inputs) \in Nat
           /\ DOMAIN spend.proof.inputs = 1 .. Len(spend.proof.inputs)
           /\ DOMAIN spend.statement.nullifiers = 1 .. Len(spend.proof.inputs)
           /\ \A i \in 1 .. Len(spend.proof.inputs) :
                 Consumes(ledger.margin.note_tree, spend, i)
<1> DEFINE statement == spend.statement
           witness == spend.proof
           inputs == witness.inputs
           policy == PolicyOf(ledger, statement.market_id)
           tree == ledger.margin.note_tree
<1>1. /\ SpendProofVerifies(statement, policy, witness)
      /\ accepts_root(ledger.margin, statement.anchor_root)
  BY DEF LedgerSpendAccepted, SpendAccepted
<1>2. /\ Len(inputs) \in Nat /\ DOMAIN inputs = 1 .. Len(inputs)
      /\ DOMAIN statement.nullifiers = 1 .. Len(statement.nullifiers)
  BY ListIs DEF IsSpend
<1>3. /\ Len(inputs) = Len(statement.nullifiers)
      /\ \A i \in DOMAIN inputs :
            InputProven(statement, inputs[i], statement.nullifiers[i])
  BY <1>1 DEF SpendProofVerifies
<1>4. SoundMargin(ledger.margin)
  BY DEF SoundLedger
<1>5. ASSUME NEW i \in 1 .. Len(inputs) PROVE Consumes(tree, spend, i)
  <2> DEFINE input == inputs[i]
             mp == input.merkle_proof
             index == mp.leaf_index
  <2>1. InputProven(statement, input, statement.nullifiers[i])
    BY <1>2, <1>3
  <2> HIDE DEF input
  <2>2. /\ input.note.commitment = Commitment(input.opening, input.note.market_id,
                                              input.note.collateral_asset)
        /\ verify(mp, input.note, statement.anchor_root)
        /\ statement.nullifiers[i] = derive_nullifier(input.note, input.opening, index)
    BY <2>1, Zenon DEF InputProven
  <2>3. index \in LeafIndices(tree) /\ Leaf(tree, index) = input.note
    BY <1>1, <1>4, <2>2, AnchorSound
  <2>4. Opening(input.note) = input.opening
    BY <2>2 DEF Opening, Commitment
  <2>5. statement.nullifiers[i] = NullifierAt(tree, index)
    BY <2>2, <2>3, <2>4 DEF NullifierAt
  <2> QED BY <2>3, <2>4, <2>5 DEF Consumes, InputIndex, input
<1> QED BY <1>2, <1>3, <1>5

\* The notes a spend creates.
SpendNotes(statement) ==
    [i \in DOMAIN statement.output_commitments |->
        PublicNote(statement.market_id, statement.collateral_asset,
                   statement.output_commitments[i])]

LEMMA SpendNotesAre ==
    ASSUME NEW statement, IsList(statement.output_commitments)
    PROVE  /\ IsSeq(SpendNotes(statement))
           /\ Len(SpendNotes(statement)) = Len(statement.output_commitments)
           /\ Len(statement.output_commitments) \in Nat
           /\ DOMAIN statement.output_commitments = 1 .. Len(statement.output_commitments)
           /\ \A i \in 1 .. Len(statement.output_commitments) :
                 SpendNotes(statement)[i] =
                    PublicNote(statement.market_id, statement.collateral_asset,
                               statement.output_commitments[i])
<1> DEFINE n == Len(statement.output_commitments)
           notes == SpendNotes(statement)
           T == {notes[i] : i \in 1 .. n}
<1>1. n \in Nat /\ DOMAIN statement.output_commitments = 1 .. n
  BY ListIs
<1>2. /\ notes = [i \in 1 .. n |->
                     PublicNote(statement.market_id, statement.collateral_asset,
                                statement.output_commitments[i])]
  BY <1>1 DEF SpendNotes
<1>3. /\ DOMAIN notes = 1 .. n /\ notes = [i \in 1 .. n |-> notes[i]]
      /\ \A i \in 1 .. n : notes[i] =
            PublicNote(statement.market_id, statement.collateral_asset,
                       statement.output_commitments[i])
  BY <1>2
<1> HIDE DEF notes, n
<1>4. notes \in [1 .. n -> T]
  BY <1>3
<1> HIDE DEF T
<1>5. notes \in Seq(T) /\ Len(notes) = n
  BY <1>1, <1>3, <1>4
<1>6. IsSeq(notes)
  BY <1>5, SeqIsSeq
<1> QED BY <1>1, <1>3, <1>5, <1>6 DEF notes, n

LEMMA TwoFields ==
    ASSUME NEW margin, MarginShape(margin), NEW x, NEW y
    PROVE  [margin EXCEPT !.note_tree = x, !.spent_nullifiers = y] =
              [note_tree |-> x, spent_nullifiers |-> y,
               accepted_roots |-> margin.accepted_roots]
<1> DEFINE b == margin.spent_nullifiers
           c == margin.accepted_roots
           half == [margin EXCEPT !.note_tree = x]
<1>1. [margin EXCEPT !.note_tree = x, !.spent_nullifiers = y] =
         [half EXCEPT !.spent_nullifiers = y]
  OBVIOUS
<1>2. half = [note_tree |-> x, spent_nullifiers |-> b, accepted_roots |-> c]
  BY DEF MarginShape
<1> HIDE DEF half, b, c
<1>3. [half EXCEPT !.spent_nullifiers = y] =
         [note_tree |-> x, spent_nullifiers |-> y, accepted_roots |-> c]
  BY <1>2
<1> QED BY <1>1, <1>3 DEF c

LEMMA SpendMarginSound ==
    ASSUME NEW ledger, SoundLedger(ledger), NEW spend, IsSpend(spend),
           LedgerSpendAccepted(ledger, spend)
    PROVE  LET margin == apply_spend(ledger.margin, spend.statement)
           IN  /\ SoundMargin(margin)
               /\ margin.spent_nullifiers = ledger.margin.spent_nullifiers
                                              \cup Range(spend.statement.nullifiers)
               /\ Follows(margin.note_tree.leaves, ledger.margin.note_tree.leaves,
                          SpendNotes(spend.statement),
                          Len(spend.statement.output_commitments))
<1> DEFINE statement == spend.statement
           notes == SpendNotes(statement)
           n == Len(statement.output_commitments)
           old == ledger.margin
           tree == old.note_tree
           grown == AppendAll(tree, notes)
           spent == old.spent_nullifiers \cup Range(statement.nullifiers)
           base == [note_tree |-> grown, spent_nullifiers |-> spent,
                    accepted_roots |-> old.accepted_roots]
           margin == remember_current_root(base)
<1>1. SoundMargin(old) /\ Built(tree) /\ Distinct(tree.leaves) /\ Len(tree.leaves) \in Nat
  BY WholeIs DEF SoundLedger, SoundMargin
<1>2. apply_spend(old, statement) = margin
  <2>1. [old EXCEPT !.note_tree = grown, !.spent_nullifiers = spent] = base
    <3> HIDE DEF grown, spent, old
    <3> QED BY <1>1, TwoFields DEF SoundMargin
  <2>2. apply_spend(old, statement) =
           remember_current_root([old EXCEPT !.note_tree = grown, !.spent_nullifiers = spent])
    BY Zenon DEF apply_spend, SpendNotes
  <2> HIDE DEF grown, spent
  <2> QED BY <2>1, <2>2
<1>3. /\ IsSeq(notes) /\ Len(notes) = n /\ n \in Nat
      /\ DOMAIN statement.output_commitments = 1 .. n
      /\ \A i \in 1 .. n : notes[i].commitment = statement.output_commitments[i]
  <2>1. \A a, b, c : PublicNote(a, b, c).commitment = c
    BY DEF PublicNote
  <2> QED BY <2>1, SpendNotesAre DEF IsSpend
<1>4. /\ n \in 1 .. MaxSpendNotes
      /\ IsInjective(statement.output_commitments)
      /\ \A c \in Range(statement.output_commitments) : ~ contains(tree, c)
      /\ Len(tree.leaves) + n <= merkle_capacity
  BY DEF LedgerSpendAccepted, SpendAccepted, validate_public
<1> HIDE DEF notes, n
<1>5. Built(grown) /\ Follows(grown.leaves, tree.leaves, notes, n)
  BY <1>1, <1>3, <1>4, AppendAllBuilt
<1>6. Distinct(grown.leaves)
  <2>1. \A i \in 1 .. n : statement.output_commitments[i] \in Range(statement.output_commitments)
    BY <1>3 DEF Range
  <2>2. \A i \in 1 .. n : \A j \in 1 .. Len(tree.leaves) :
           tree.leaves[j].commitment # notes[i].commitment
    BY <1>1, <1>3, <1>4, <2>1, ContainsIs
  <2>3. \A i, j \in 1 .. n : notes[i].commitment = notes[j].commitment => i = j
    BY <1>3, <1>4 DEF IsInjective
  <2> HIDE DEF grown
  <2> QED BY <1>1, <1>3, <1>5, <2>2, <2>3, DistinctFollows
<1>7. SpentLeaves(spent, grown)
  <2>1. Kept(tree, grown)
    <3> HIDE DEF grown, tree
    <3> QED BY <1>1, <1>3, <1>5, NullifiersStay
  <2>2. ASSUME NEW x \in old.spent_nullifiers
        PROVE  \E j \in LeafIndices(grown) : x = NullifierAt(grown, j)
    <3>1. PICK j \in LeafIndices(tree) : x = NullifierAt(tree, j)
      BY <1>1 DEF SoundMargin, SpentLeaves
    <3> HIDE DEF grown, tree
    <3> QED BY <2>1, <3>1 DEF Kept
  <2>3. ASSUME NEW x \in Range(statement.nullifiers)
        PROVE  \E j \in LeafIndices(grown) : x = NullifierAt(grown, j)
    <3>1. PICK i \in DOMAIN statement.nullifiers : x = statement.nullifiers[i]
      BY DEF Range
    <3>2. Consumes(tree, spend, i)
      BY <3>1, InputsAre
    <3> DEFINE j == InputIndex(spend, i)
    <3>3. j \in LeafIndices(tree) /\ x = NullifierAt(tree, j)
      BY <3>1, <3>2 DEF Consumes
    <3> HIDE DEF grown, tree, j
    <3> QED BY <2>1, <3>3 DEF Kept
  <2> HIDE DEF grown
  <2> QED BY <2>2, <2>3 DEF SpentLeaves
<1>8. n > 0
  BY <1>3, <1>4
<1> HIDE DEF grown, spent
<1>9. SoundMargin(margin) /\ margin.note_tree = grown /\ margin.spent_nullifiers = spent
  <2>1. base = [note_tree |-> grown, spent_nullifiers |-> spent,
                accepted_roots |-> old.accepted_roots]
    OBVIOUS
  <2>2. SoundMargin(old) /\ Follows(grown.leaves, old.note_tree.leaves, notes, n)
    BY <1>1, <1>5
  <2>3. /\ n \in Nat /\ n > 0 /\ Built(grown) /\ Distinct(grown.leaves)
        /\ SpentLeaves(spent, grown)
    BY <1>3, <1>5, <1>6, <1>7, <1>8
  <2> HIDE DEF old, base
  <2>4. SoundMargin(margin)
    BY <2>1, <2>2, <2>3, MarginGrows
  <2>5. margin.note_tree = grown
    BY <2>1, <2>2, <2>3, MarginGrows
  <2>6. margin.spent_nullifiers = spent
    BY <2>1, <2>2, <2>3, MarginGrows
  <2> QED BY <2>4, <2>5, <2>6
<1> HIDE DEF margin
<1> QED BY <1>2, <1>5, <1>9 DEF spent, notes, n

\* What an accepted spend does to the ledger.
LEMMA SpendSound ==
    ASSUME NEW ledger, SoundLedger(ledger), NEW spend, IsSpend(spend),
           LedgerSpendAccepted(ledger, spend)
    PROVE  \E margin :
              /\ ledger_spend(ledger, spend).ledger =
                   [policies |-> ledger.policies, margin |-> margin,
                    shielded_collateral |->
                       ledger.shielded_collateral - spend.statement.fee,
                    fee_total |-> ledger.fee_total + spend.statement.fee]
              /\ SoundLedger(ledger_spend(ledger, spend).ledger)
              /\ margin.spent_nullifiers = ledger.margin.spent_nullifiers
                                             \cup Range(spend.statement.nullifiers)
              /\ Follows(margin.note_tree.leaves, ledger.margin.note_tree.leaves,
                         SpendNotes(spend.statement),
                         Len(spend.statement.output_commitments))
<1> DEFINE statement == spend.statement
           margin == apply_spend(ledger.margin, statement)
           notes == SpendNotes(statement)
           n == Len(statement.output_commitments)
           collateral == ledger.shielded_collateral - statement.fee
           fees == ledger.fee_total + statement.fee
           result == [policies |-> ledger.policies, margin |-> margin,
                      shielded_collateral |-> collateral, fee_total |-> fees]
<1>1. ledger_spend(ledger, spend).ledger = result
  <2> HIDE DEF margin
  <2>1. ledger_spend(ledger, spend).ledger =
           [ledger EXCEPT !.margin = margin,
                          !.shielded_collateral = @ - spend.statement.fee,
                          !.fee_total = @ + spend.statement.fee]
    BY DEF ledger_spend, margin
  <2> QED BY <2>1 DEF SoundLedger, LedgerShape
<1>2. /\ SoundMargin(margin)
      /\ margin.spent_nullifiers = ledger.margin.spent_nullifiers
                                     \cup Range(statement.nullifiers)
      /\ Follows(margin.note_tree.leaves, ledger.margin.note_tree.leaves, notes, n)
  BY SpendMarginSound
<1>3. n \in Nat /\ \A i \in 1 .. n : NoteKnown(ledger.policies, notes[i])
  <2> DEFINE policy == PolicyOf(ledger, statement.market_id)
  <2>1. /\ n \in Nat
        /\ \A i \in 1 .. n : notes[i] =
              PublicNote(statement.market_id, statement.collateral_asset,
                         statement.output_commitments[i])
    BY SpendNotesAre DEF IsSpend
  <2>2. /\ Registered(ledger, statement.market_id)
        /\ policy.market_id = statement.market_id
        /\ policy.collateral_asset = statement.collateral_asset
    BY DEF LedgerSpendAccepted, SpendAccepted, validate_public
  <2>3. policy \in ledger.policies
    BY <2>2, Zenon DEF Registered, PolicyOf
  <2>4. \A c : NoteKnown(ledger.policies,
                         PublicNote(statement.market_id, statement.collateral_asset, c))
    <3> HIDE DEF policy
    <3> QED BY <2>2, <2>3 DEF NoteKnown, PublicNote
  <2> HIDE DEF notes
  <2> QED BY <2>1, <2>4
<1> HIDE DEF margin, notes, n, collateral, fees
<1>4. SoundLedger(result)
  BY <1>2, <1>3, LedgerGrows
<1> QED BY <1>1, <1>2, <1>4 DEF notes, n, collateral, fees

-----------------------------------------------------------------------------
(* The genesis ledger. *)

IsGenesis(g, n) ==
    g = [s \in SUBSET (1 .. n) |->
            IF s = {} THEN EmptyLedger
            ELSE register_market(g[s \ {Max(s)}], GenesisPolicies[Max(s)]).ledger]

LEMMA GenesisExists ==
    ASSUME NEW n \in Nat
    PROVE  \E g : IsGenesis(g, n)
<1> DEFINE S == {m \in Nat : \E g : IsGenesis(g, m)}
<1>1. 0 \in S
  <2>1. IsGenesis([s \in SUBSET (1 .. 0) |-> EmptyLedger], 0)
    BY DEF IsGenesis
  <2> QED BY <2>1
<1>2. ASSUME NEW m \in Nat, m \in S PROVE m + 1 \in S
  <2>1. PICK g : IsGenesis(g, m)
    BY <1>2
  <2> DEFINE more == [s \in SUBSET (1 .. m + 1) |->
                IF s = {} THEN EmptyLedger
                ELSE register_market(g[s \ {Max(s)}], GenesisPolicies[Max(s)]).ledger]
  <2>2. \A s \in SUBSET (1 .. m) : more[s] = g[s]
    <3>1. \A s \in SUBSET (1 .. m) : s \in SUBSET (1 .. m + 1)
      OBVIOUS
    <3>2. \A s \in SUBSET (1 .. m) :
            g[s] = IF s = {} THEN EmptyLedger
                   ELSE register_market(g[s \ {Max(s)}], GenesisPolicies[Max(s)]).ledger
      BY <2>1, Zenon DEF IsGenesis
    <3> QED BY <3>1, <3>2, Zenon
  <2>3. \A s \in SUBSET (1 .. m + 1) : s # {} => s \ {Max(s)} \in SUBSET (1 .. m)
    BY WithoutMax
  <2>4. \A s \in SUBSET (1 .. m + 1) : s # {} => more[s \ {Max(s)}] = g[s \ {Max(s)}]
    BY <2>2, <2>3, Zenon
  <2>5. IsGenesis(more, m + 1)
    BY <2>4, Zenon DEF IsGenesis
  <2> QED BY <2>5
<1> HIDE DEF S
<1>3. Nat \subseteq S
  BY <1>1, <1>2, Induction
<1> QED BY <1>3 DEF S

LEMMA GenesisSound == SoundLedger(build_shielded_development_ledger)
                      /\ build_shielded_development_ledger.margin = NewMarginState
                      /\ build_shielded_development_ledger.shielded_collateral = 0
                      /\ build_shielded_development_ledger.fee_total = 0
<1> DEFINE n == Len(GenesisPolicies)
           g == CHOOSE f : IsGenesis(f, n)
           Fine(ledger) == /\ SoundLedger(ledger)
                           /\ ledger.margin = NewMarginState
                           /\ ledger.shielded_collateral = 0
                           /\ ledger.fee_total = 0
<1>1. n \in Nat /\ DOMAIN GenesisPolicies = 1 .. n
  BY CommandAssumption, ListIs
<1>2. IsGenesis(g, n)
  BY <1>1, GenesisExists, Zenon
<1>3. build_shielded_development_ledger = g[1 .. n]
  BY <1>1, Zenon DEF build_shielded_development_ledger, FoldLeft, MapThenFoldSet, IsGenesis
<1>4. \A k \in 1 .. n : IsPolicy(GenesisPolicies[k])
  <2>1. \A k \in 1 .. n : GenesisPolicies[k] \in Range(GenesisPolicies)
    BY <1>1 DEF Range
  <2> QED BY <2>1, CommandAssumption
<1> HIDE DEF g, n
<1>5. \A s \in SUBSET (1 .. n) :
        g[s] = IF s = {} THEN EmptyLedger
               ELSE register_market(g[s \ {Max(s)}], GenesisPolicies[Max(s)]).ledger
  BY <1>2, Zenon DEF IsGenesis
<1> DEFINE S == {k \in Nat : k <= n => Fine(g[1 .. k])}
<1>6. 0 \in S
  <2>1. 1 .. 0 = {} /\ {} \in SUBSET (1 .. n)
    OBVIOUS
  <2>2. g[1 .. 0] = EmptyLedger
    BY <1>5, <2>1
  <2>3. Fine(EmptyLedger)
    BY EmptySound DEF EmptyLedger
  <2> QED BY <2>2, <2>3
<1>7. ASSUME NEW k \in Nat, k \in S PROVE k + 1 \in S
  <2> DEFINE m == k + 1
  <2> SUFFICES ASSUME m <= n PROVE Fine(g[1 .. m])
    OBVIOUS
  <2>1. /\ m \in 1 .. n /\ 1 .. m \in SUBSET (1 .. n) /\ 1 .. m # {}
        /\ (1 .. m) \ {m} = 1 .. k /\ m \in Nat
    <3>1. m \in Nat /\ m > 0 /\ k = m - 1 /\ m <= n
      BY <1>1
    <3> HIDE DEF m
    <3>2. (1 .. m) \ {m} = 1 .. (m - 1)
      BY <3>1
    <3>3. m \in 1 .. n /\ m \in 1 .. m
      BY <1>1, <3>1
    <3>4. \A i \in 1 .. m : i \in 1 .. n
      BY <1>1, <3>1
    <3> QED BY <3>1, <3>2, <3>3, <3>4
  <2>2. Max(1 .. m) = m
    BY <2>1, MaxOfRange
  <2>3. Fine(g[1 .. k])
    BY <1>1, <1>7
  <2>4. g[1 .. m] = register_market(g[1 .. k], GenesisPolicies[m]).ledger
    BY <1>5, <2>1, <2>2
  <2> HIDE DEF m
  <2>5. SoundLedger(g[1 .. m])
    BY <1>4, <2>1, <2>3, <2>4, RegisterSound
  <2>6. \A ledger, policy :
           LET more == register_market(ledger, policy).ledger
           IN  SoundLedger(ledger) =>
                 /\ more.margin = ledger.margin
                 /\ more.shielded_collateral = ledger.shielded_collateral
                 /\ more.fee_total = ledger.fee_total
    BY DEF register_market, SoundLedger, LedgerShape
  <2> QED BY <2>3, <2>4, <2>5, <2>6
<1> HIDE DEF S
<1>8. n \in S
  BY <1>1, <1>6, <1>7, Induction
<1>9. Fine(g[1 .. n])
  BY <1>1, <1>8 DEF S
<1> QED BY <1>3, <1>9

-----------------------------------------------------------------------------
(* A ledger read back. *)

\* There are no more nullifiers than notes.
LEMMA FewNullifiers ==
    ASSUME NEW margin, SoundMargin(margin)
    PROVE  /\ IsFiniteSet(margin.spent_nullifiers)
           /\ Cardinality(margin.spent_nullifiers) <= Len(margin.note_tree.leaves)
<1> DEFINE tree == margin.note_tree
           spent == margin.spent_nullifiers
           n == Len(tree.leaves)
           f == [x \in spent |-> CHOOSE i \in LeafIndices(tree) : x = NullifierAt(tree, i)]
<1>1. n \in Nat /\ LeafIndices(tree) = 0 .. n - 1
  BY WholeIs DEF SoundMargin, LeafIndices
<1>2. \A x \in spent : \E i \in LeafIndices(tree) : x = NullifierAt(tree, i)
  BY DEF SoundMargin, SpentLeaves
<1>3. \A x \in spent : f[x] \in LeafIndices(tree) /\ x = NullifierAt(tree, f[x])
  BY <1>2, Zenon
<1>4. f \in [spent -> 0 .. n - 1]
  BY <1>1, <1>3
<1> HIDE DEF f, tree, spent, n
<1>5. \A x, y \in spent : f[x] = f[y] => x = y
  BY <1>3
<1>6. DOMAIN f = spent
  BY <1>4
<1>7. f \in Injection(spent, 0 .. n - 1)
  BY <1>4, <1>5, <1>6 DEF Injection, IsInjective
<1>8. IsFiniteSet(0 .. n - 1) /\ Cardinality(0 .. n - 1) = n
  <2>1. 0 \in Int /\ n - 1 \in Int
    BY <1>1
  <2>2. IsFiniteSet(0 .. (n - 1)) /\ Cardinality(0 .. (n - 1)) = IF 0 > n - 1 THEN 0 ELSE (n - 1) - 0 + 1
    BY <2>1, FS_Interval
  <2> QED BY <1>1, <2>2
<1>9. IsFiniteSet(spent) /\ Cardinality(spent) <= n
  BY <1>7, <1>8, FS_Injection
<1> QED BY <1>9 DEF spent, tree, n

LEMMA PrefixesOrdered ==
    ASSUME NEW margin, SoundMargin(margin)
    PROVE  OrderedPrefixes(margin.accepted_roots, margin.note_tree.leaves)
<1> DEFINE roots == margin.accepted_roots
           notes == margin.note_tree.leaves
           n == Len(notes)
           prefix_root == [k \in 0 .. n |->
                             AppendAll(EmptyTree, SubSeq(notes, 1, k)).cached_root]
<1>1. n \in Nat /\ IsSeq(notes) /\ n <= merkle_capacity /\ merkle_capacity \in Nat
  BY WholeIs, SpanPositive, HeightsAre DEF SoundMargin, merkle_capacity
<1>2. PICK count \in [1 .. Len(roots) -> 0 .. n] :
          /\ \A i \in 1 .. Len(roots) : roots[i] = RootOver(notes, count[i])
          /\ \A i, j \in 1 .. Len(roots) : i < j => count[i] < count[j]
  BY DEF SoundMargin, Counted
<1>3. DOMAIN roots = 1 .. Len(roots)
  <2>1. IsSeq(roots)
    BY DEF SoundMargin, Counted
  <2> DEFINE S == {roots[i] : i \in 1 .. Len(roots)}
  <2>2. roots \in Seq(S)
    BY <2>1 DEF IsSeq
  <2> HIDE DEF S, roots
  <2> QED BY <2>2
<1>4. ASSUME NEW k \in 0 .. n PROVE prefix_root[k] = RootOver(notes, k)
  <2> DEFINE first == SubSeq(notes, 1, k)
  <2>1. IsSeq(first) /\ Len(first) = k
    BY <1>1, PrefixIsSeq
  <2>2. Len(first) <= merkle_capacity
    BY <1>1, <2>1
  <2>3. prefix_root[k] = AppendAll(EmptyTree, first).cached_root
    OBVIOUS
  <2> HIDE DEF first
  <2>4. AppendAll(EmptyTree, first).cached_root = Node(first, MERKLE_DEPTH, 0)
    BY <2>1, <2>2, TreeOf
  <2> QED BY <2>3, <2>4 DEF RootOver, first
<1>5. \A i \in DOMAIN roots : prefix_root[count[i]] = roots[i]
  <2> HIDE DEF prefix_root, roots, n
  <2> QED BY <1>2, <1>3, <1>4
<1>6. \A i, j \in DOMAIN roots : i < j => count[i] < count[j]
  BY <1>2, <1>3
<1>7. count \in [DOMAIN roots -> 0 .. n]
  BY <1>2, <1>3
<1>8. \E c \in [DOMAIN roots -> 0 .. n] :
         /\ \A i \in DOMAIN roots : prefix_root[c[i]] = roots[i]
         /\ \A i, j \in DOMAIN roots : i < j => c[i] < c[j]
  BY <1>5, <1>6, <1>7, Zenon
<1> QED BY <1>8, Zenon DEF OrderedPrefixes

LEMMA SoundRebuilds ==
    ASSUME NEW ledger, SoundLedger(ledger)
    PROVE  /\ Rebuildable(persistence_parts(ledger))
           /\ rebuild_from_persistence(persistence_parts(ledger)) = ledger
<1> DEFINE parts == persistence_parts(ledger)
           margin == ledger.margin
           tree == margin.note_tree
           notes == tree.leaves
<1>1. /\ parts.policies = ledger.policies /\ parts.notes = notes
      /\ parts.spent_nullifiers = margin.spent_nullifiers
      /\ parts.note_count = Len(notes)
      /\ parts.nullifier_count = Cardinality(margin.spent_nullifiers)
      /\ parts.current_root = tree.cached_root
      /\ parts.accepted_roots = margin.accepted_roots
      /\ parts.shielded_collateral = ledger.shielded_collateral
      /\ parts.fee_total = ledger.fee_total
      /\ parts.total_backing = ledger.shielded_collateral + ledger.fee_total
  BY DEF persistence_parts
<1> HIDE DEF parts
<1>2. SoundMargin(margin) /\ Built(tree) /\ AppendAll(EmptyTree, notes) = tree
  BY DEF SoundLedger, SoundMargin, Built
<1>3. /\ DOMAIN notes = 1 .. Len(notes) /\ Len(notes) \in Nat
  BY <1>2, WholeIs
<1>4. IsInjective([i \in DOMAIN notes |-> notes[i].commitment])
  <2> DEFINE c == [i \in DOMAIN notes |-> notes[i].commitment]
  <2>1. DOMAIN c = DOMAIN notes /\ \A i \in DOMAIN notes : c[i] = notes[i].commitment
    OBVIOUS
  <2>2. \A i, j \in DOMAIN notes : notes[i].commitment = notes[j].commitment => i = j
    BY <1>2, <1>3 DEF SoundMargin, Distinct
  <2> HIDE DEF c
  <2> QED BY <2>1, <2>2 DEF IsInjective, c
<1>5. \A note \in Range(notes) : NoteKnown(ledger.policies, note)
  <2>1. \A i \in 1 .. Len(notes) : NoteKnown(ledger.policies, notes[i])
    BY DEF SoundLedger
  <2> QED BY <1>3, <2>1 DEF Range
<1>6. /\ Cardinality(margin.spent_nullifiers) <= Len(notes)
      /\ OrderedPrefixes(margin.accepted_roots, notes)
  BY <1>2, FewNullifiers, PrefixesOrdered
<1>7. /\ Len(margin.accepted_roots) \in 1 .. RootHistoryLimit
      /\ Last(margin.accepted_roots) = tree.cached_root
  BY <1>2 DEF SoundMargin
<1>8. \A p \in ledger.policies : ValidPolicy(p)
  BY DEF SoundLedger, SoundPolicies
<1>9. Rebuildable(parts)
  <2>1. IsInjective([i \in DOMAIN parts.notes |-> parts.notes[i].commitment])
    BY <1>1, <1>4
  <2>2. \A note \in Range(parts.notes) :
           \E p \in parts.policies : /\ p.market_id = note.market_id
                                     /\ p.collateral_asset = note.collateral_asset
    BY <1>1, <1>5 DEF NoteKnown
  <2>3. /\ parts.shielded_collateral + parts.fee_total = parts.total_backing
        /\ \A p \in parts.policies : ValidPolicy(p)
        /\ Len(parts.notes) = parts.note_count
        /\ AppendAll(EmptyTree, parts.notes).cached_root = parts.current_root
        /\ Cardinality(parts.spent_nullifiers) = parts.nullifier_count
        /\ parts.nullifier_count <= parts.note_count
        /\ Len(parts.accepted_roots) \in 1 .. RootHistoryLimit
        /\ Last(parts.accepted_roots) = parts.current_root
        /\ OrderedPrefixes(parts.accepted_roots, parts.notes)
    <3> HIDE DEF margin, tree, notes
    <3> QED BY <1>1, <1>2, <1>6, <1>7, <1>8
  <2> QED BY <2>1, <2>2, <2>3, Zenon DEF Rebuildable
<1>10. rebuild_from_persistence(parts) = ledger
  <2> DEFINE rebuilt == [note_tree |-> AppendAll(EmptyTree, parts.notes),
                         spent_nullifiers |-> parts.spent_nullifiers,
                         accepted_roots |-> parts.accepted_roots]
  <2>1. rebuilt = margin
    BY <1>1, <1>2 DEF SoundMargin, MarginShape
  <2>2. rebuild_from_persistence(parts) =
           [policies |-> parts.policies, margin |-> rebuilt,
            shielded_collateral |-> parts.shielded_collateral,
            fee_total |-> parts.fee_total]
    BY DEF rebuild_from_persistence
  <2> HIDE DEF rebuilt
  <2> QED BY <1>1, <2>1, <2>2 DEF SoundLedger, LedgerShape
<1> QED BY <1>9, <1>10 DEF parts

\* What each command does when it succeeds; otherwise nothing changes.
ConfigureDone(policy) ==
    /\ state' = [ledger |-> register_market(state.ledger, policy).ledger,
                 total_credits |-> state.total_credits,
                 fee_vault |-> state.fee_vault]
    /\ deposited' = deposited

DepositDone(deposit) ==
    /\ DepositAccepted(state.ledger, deposit)
    /\ state.total_credits + deposit.statement.backing_amount <= MaxDecimal
    /\ state' = [ledger |-> authority_deposit(state.ledger, deposit).ledger,
                 total_credits |->
                    state.total_credits + deposit.statement.backing_amount,
                 fee_vault |-> state.fee_vault]
    /\ deposited' = deposited \cup {deposit.statement}

SpendDone(spend) ==
    /\ IsSpend(spend)
    /\ LedgerSpendAccepted(state.ledger, spend)
    /\ state.fee_vault + spend.statement.fee <= MaxDecimal
    /\ state' = [ledger |-> ledger_spend(state.ledger, spend).ledger,
                 total_credits |-> state.total_credits,
                 fee_vault |-> state.fee_vault + spend.statement.fee]
    /\ deposited' = deposited

StateShape(s) ==
    s = [ledger |-> s.ledger, total_credits |-> s.total_credits, fee_vault |-> s.fee_vault]

LEMMA ConfigureStep ==
    ASSUME StateShape(state), NEW policy, ConfigureShieldedMarket(policy)
    PROVE  UNCHANGED vars \/ ConfigureDone(policy)
<1> DEFINE result == configure_shielded_market(state, policy)
           ledger == register_market(state.ledger, policy).ledger
           changed == [state EXCEPT !.ledger = ledger]
<1>1. state' = (IF result.ok THEN result.state ELSE state) /\ deposited' = deposited
  BY DEF ConfigureShieldedMarket, AfterCommand
<1>2. result.state = changed
  BY DEF configure_shielded_market
<1> HIDE DEF result, ledger
<1>3. changed = [ledger |-> ledger, total_credits |-> state.total_credits,
                 fee_vault |-> state.fee_vault]
  BY DEF StateShape
<1> HIDE DEF changed
<1> QED BY <1>1, <1>2, <1>3 DEF vars, ConfigureDone, ledger

LEMMA DepositStep ==
    ASSUME StateShape(state), state.total_credits \in Int, MaxDecimal \in Int,
           NEW deposit \in Deposits, ShieldedDeposit(deposit)
    PROVE  UNCHANGED vars \/ DepositDone(deposit)
<1> DEFINE result == shielded_deposit(state, deposit)
           answer == authority_deposit(state.ledger, deposit)
           ledger == answer.ledger
           amount == deposit.statement.backing_amount
           credits == state.total_credits + amount
           half == [state EXCEPT !.ledger = ledger]
           changed == [half EXCEPT !.total_credits = credits]
<1>0. amount \in Int
  BY CommandAssumption
<1>1. /\ state' = (IF result.ok THEN result.state ELSE state)
      /\ deposited' = (IF result.ok THEN deposited \cup {deposit.statement} ELSE deposited)
  BY DEF ShieldedDeposit, AfterCommand
<1>2. result = IF ~ answer.ok \/ credits > MaxDecimal
               THEN [ok |-> FALSE, state |-> half]
               ELSE [ok |-> TRUE, state |-> changed]
  BY Zenon DEF shielded_deposit
<1>3. answer.ok => DepositAccepted(state.ledger, deposit)
  BY DEF authority_deposit
<1> HIDE DEF result, ledger, answer, amount
<1>4. half = [ledger |-> ledger, total_credits |-> state.total_credits,
              fee_vault |-> state.fee_vault]
  BY DEF StateShape
<1> HIDE DEF half
<1>5. changed = [ledger |-> ledger, total_credits |-> credits, fee_vault |-> state.fee_vault]
  BY <1>4
<1> HIDE DEF changed
<1>6. CASE result.ok
  <2>1. answer.ok /\ ~(credits > MaxDecimal) /\ result.state = changed
    BY <1>2, <1>6
  <2>2. credits <= MaxDecimal
    BY <1>0, <2>1
  <2> QED BY <1>1, <1>3, <1>5, <1>6, <2>1, <2>2
          DEF DepositDone, ledger, answer, amount
<1>7. CASE ~ result.ok
  BY <1>1, <1>7 DEF vars
<1> QED BY <1>6, <1>7

LEMMA SpendStep ==
    ASSUME StateShape(state), state.fee_vault \in Int, MaxDecimal \in Int,
           NEW spend, ShieldedSpend(spend)
    PROVE  UNCHANGED vars \/ SpendDone(spend)
<1> DEFINE result == shielded_spend(state, spend)
           answer == ledger_spend(state.ledger, spend)
           ledger == answer.ledger
           fee == spend.statement.fee
           vault == state.fee_vault + fee
           half == [state EXCEPT !.ledger = ledger]
           changed == [half EXCEPT !.fee_vault = vault]
<1>0. fee \in Int /\ IsSpend(spend)
  BY DEF IsSpend, ShieldedSpend
<1>1. /\ state' = (IF result.ok THEN result.state ELSE state)
      /\ deposited' = deposited
  BY DEF ShieldedSpend, AfterCommand
<1>2. result = IF ~ answer.ok \/ vault > MaxDecimal
               THEN [ok |-> FALSE, state |-> half]
               ELSE [ok |-> TRUE, state |-> changed]
  BY Zenon DEF shielded_spend
<1>3. answer.ok => LedgerSpendAccepted(state.ledger, spend)
  BY DEF ledger_spend
<1> HIDE DEF result, ledger, answer, fee
<1>4. half = [ledger |-> ledger, total_credits |-> state.total_credits,
              fee_vault |-> state.fee_vault]
  BY DEF StateShape
<1> HIDE DEF half
<1>5. changed = [ledger |-> ledger, total_credits |-> state.total_credits, fee_vault |-> vault]
  BY <1>4
<1> HIDE DEF changed
<1>6. CASE result.ok
  <2>1. answer.ok /\ ~(vault > MaxDecimal) /\ result.state = changed
    BY <1>2, <1>6
  <2>2. vault <= MaxDecimal
    BY <1>0, <2>1
  <2> QED BY <1>0, <1>1, <1>3, <1>5, <1>6, <2>1, <2>2
          DEF SpendDone, ledger, answer, fee
<1>7. CASE ~ result.ok
  BY <1>1, <1>7 DEF vars
<1> QED BY <1>6, <1>7

\* The engine's state around a sound ledger.
SoundState ==
    /\ StateShape(state)
    /\ SoundLedger(state.ledger)
    /\ state.total_credits \in 0 .. MaxDecimal
    /\ state.fee_vault \in 0 .. MaxDecimal

LEMMA SoundInit == Init => SoundState
<1> SUFFICES ASSUME Init PROVE SoundState
  OBVIOUS
<1> DEFINE ledger == build_shielded_development_ledger
<1>1. state = [ledger |-> ledger, total_credits |-> 0, fee_vault |-> 0]
  BY DEF Init
<1>2. SoundLedger(ledger) /\ 0 \in 0 .. MaxDecimal
  BY GenesisSound, LedgerAssumption
<1> HIDE DEF ledger
<1> QED BY <1>1, <1>2 DEF SoundState, StateShape

LEMMA SoundNext == SoundState /\ [Next]_vars => SoundState'
<1> SUFFICES ASSUME SoundState, [Next]_vars PROVE SoundState'
  OBVIOUS
<1>1. /\ StateShape(state) /\ SoundLedger(state.ledger)
      /\ state.total_credits \in Int /\ state.fee_vault \in Int /\ MaxDecimal \in Int
      /\ state.total_credits \in 0 .. MaxDecimal /\ state.fee_vault \in 0 .. MaxDecimal
      /\ MaxDecimal \in Nat
  BY LedgerAssumption DEF SoundState
<1>2. CASE UNCHANGED vars
  BY <1>2 DEF vars, SoundState
<1>3. ASSUME NEW policy \in Policies, ConfigureDone(policy) PROVE SoundState'
  <2> DEFINE ledger == register_market(state.ledger, policy).ledger
  <2>1. SoundLedger(ledger)
    BY <1>1, CommandAssumption, RegisterSound
  <2>2. state' = [ledger |-> ledger, total_credits |-> state.total_credits,
                  fee_vault |-> state.fee_vault]
    BY <1>3 DEF ConfigureDone
  <2> HIDE DEF ledger
  <2> QED BY <1>1, <2>1, <2>2 DEF SoundState, StateShape
<1>4. ASSUME NEW deposit \in Deposits, DepositDone(deposit) PROVE SoundState'
  <2> DEFINE ledger == authority_deposit(state.ledger, deposit).ledger
             amount == deposit.statement.backing_amount
  <2>1. SoundLedger(ledger)
    BY <1>1, <1>4, DepositSound DEF DepositDone
  <2>2. /\ state' = [ledger |-> ledger, total_credits |-> state.total_credits + amount,
                     fee_vault |-> state.fee_vault]
        /\ state.total_credits + amount <= MaxDecimal
    BY <1>4 DEF DepositDone
  <2>3. amount \in Nat
    BY CommandAssumption
  <2> HIDE DEF ledger, amount
  <2>4. state.total_credits + amount \in 0 .. MaxDecimal
    BY <1>1, <2>2, <2>3
  <2> QED BY <1>1, <2>1, <2>2, <2>4 DEF SoundState, StateShape
<1>5. ASSUME NEW spend, SpendDone(spend) PROVE SoundState'
  <2> DEFINE ledger == ledger_spend(state.ledger, spend).ledger
             fee == spend.statement.fee
  <2>1. SoundLedger(ledger)
    BY <1>1, <1>5, SpendSound DEF SpendDone
  <2>2. /\ state' = [ledger |-> ledger, total_credits |-> state.total_credits,
                     fee_vault |-> state.fee_vault + fee]
        /\ state.fee_vault + fee <= MaxDecimal
    BY <1>5 DEF SpendDone
  <2>3. fee \in Nat
    BY <1>5 DEF SpendDone, IsSpend
  <2> HIDE DEF ledger, fee
  <2>4. state.fee_vault + fee \in 0 .. MaxDecimal
    BY <1>1, <2>2, <2>3
  <2> QED BY <1>1, <2>1, <2>2, <2>4 DEF SoundState, StateShape
<1>6. CASE \E policy \in Policies : ConfigureShieldedMarket(policy)
  BY <1>1, <1>2, <1>3, <1>6, ConfigureStep
<1>7. CASE \E deposit \in Deposits : ShieldedDeposit(deposit)
  BY <1>1, <1>2, <1>4, <1>7, DepositStep
<1>8. CASE \E spend \in Spends(state.ledger) : ShieldedSpend(spend)
  BY <1>1, <1>2, <1>5, <1>8, SpendStep
<1> QED BY <1>2, <1>6, <1>7, <1>8 DEF Next

\* The incremental tree is the Merkle tree of its leaves, the root of every
\* prefix read from its cache and every path it hands out are those of that
\* tree, and a ledger written to the state store is accepted and reproduced
\* when it is read back (cache_append_path, rebuild_from_persistence).
THEOREM LedgerRebuilds == Spec => []RebuildReproducesLedger
<1>1. SoundState => RebuildReproducesLedger
  <2> SUFFICES ASSUME SoundState PROVE RebuildReproducesLedger
    OBVIOUS
  <2> DEFINE tree == state.ledger.margin.note_tree
  <2>1. SoundLedger(state.ledger) /\ Cached(tree) /\ Distinct(tree.leaves)
    BY DEF SoundState, SoundLedger, SoundMargin, Built
  <2>2. TreeMatchesReference
    BY <2>1, CachedMatchesReference DEF TreeMatchesReference
  <2> QED BY <2>1, <2>2, SoundRebuilds, Zenon DEF RebuildReproducesLedger
<1> QED BY <1>1, SoundInit, SoundNext, PTL DEF Spec

-----------------------------------------------------------------------------
(* Sums over finite sets. *)

Some(s) == CHOOSE x \in s : TRUE

\* One step of a sum.
SumBody(g, f, s) == IF s = {} THEN 0 ELSE f[Some(s)] + g[s \ {Some(s)}]

IsSum(g, f, S) == g = [s \in SUBSET S |-> SumBody(g, f, s)]

LEMMA SumExists ==
    ASSUME NEW f, NEW S, IsFiniteSet(S)
    PROVE  \E g : IsSum(g, f, S)
<1> DEFINE Upto(g, n) == \A s \in SUBSET S : Cardinality(s) <= n => g[s] = SumBody(g, f, s)
           W == {n \in Nat : \E g : Upto(g, n)}
<1>0. \A s \in SUBSET S : IsFiniteSet(s) /\ Cardinality(s) \in Nat
  BY FS_Subset, FS_CardinalityType
<1>1. 0 \in W
  <2> DEFINE g == [s \in SUBSET S |-> 0]
  <2>1. ASSUME NEW s \in SUBSET S, Cardinality(s) <= 0 PROVE g[s] = SumBody(g, f, s)
    <3>1. Cardinality(s) = 0
      BY <1>0, <2>1
    <3>2. s = {}
      BY <1>0, <3>1, FS_EmptySet
    <3> QED BY <3>2 DEF SumBody
  <2>2. Upto(g, 0)
    BY <2>1
  <2> HIDE DEF g
  <2> QED BY <2>2
<1>2. ASSUME NEW n \in Nat, n \in W PROVE n + 1 \in W
  <2>1. PICK g : Upto(g, n)
    BY <1>2
  <2> DEFINE more == [s \in SUBSET S |-> SumBody(g, f, s)]
  <2>2. \A s \in SUBSET S : Cardinality(s) <= n => more[s] = g[s]
    BY <2>1
  <2>3. ASSUME NEW s \in SUBSET S, Cardinality(s) <= n + 1
        PROVE  more[s] = SumBody(more, f, s)
    <3>1. CASE s = {}
      BY <3>1 DEF SumBody
    <3>2. CASE s # {}
      <4>1. Some(s) \in s /\ s \ {Some(s)} \in SUBSET S
        BY <3>2 DEF Some
      <4>2. Cardinality(s \ {Some(s)}) = Cardinality(s) - 1
        BY <1>0, <4>1, FS_RemoveElement
      <4>3. Cardinality(s \ {Some(s)}) <= n
        BY <1>0, <2>3, <4>2
      <4>4. more[s \ {Some(s)}] = g[s \ {Some(s)}]
        BY <2>2, <4>1, <4>3
      <4>5. more[s] = SumBody(g, f, s)
        OBVIOUS
      <4> HIDE DEF more
      <4> QED BY <4>4, <4>5 DEF SumBody
    <3> QED BY <3>1, <3>2
  <2>4. Upto(more, n + 1)
    BY <2>3
  <2> HIDE DEF more, Upto
  <2> QED BY <2>4
<1>3. Cardinality(S) \in W
  <2> HIDE DEF W
  <2> QED BY <1>0, <1>1, <1>2, Induction
<1>4. PICK g : Upto(g, Cardinality(S))
  BY <1>3
<1> DEFINE whole == [s \in SUBSET S |-> g[s]]
<1>5. ASSUME NEW s \in SUBSET S PROVE whole[s] = SumBody(whole, f, s)
  <2>1. g[s] = SumBody(g, f, s)
    BY <1>4, FS_Subset
  <2>2. s \ {Some(s)} \in SUBSET S
    OBVIOUS
  <2> QED BY <2>1, <2>2 DEF SumBody
<1>6. whole = [s \in SUBSET S |-> SumBody(whole, f, s)]
  <2>1. whole = [s \in SUBSET S |-> whole[s]]
    OBVIOUS
  <2> HIDE DEF whole
  <2> QED BY <1>5, <2>1
<1>7. IsSum(whole, f, S)
  BY <1>6, Zenon DEF IsSum
<1> QED BY <1>7

LEMMA SumIsSum ==
    ASSUME NEW f, NEW S, IsFiniteSet(S)
    PROVE  \E g : IsSum(g, f, S) /\ SumFunctionOnSet(f, S) = g[S]
<1> DEFINE g == CHOOSE e : IsSum(e, f, S)
<1>1. IsSum(g, f, S)
  BY SumExists, Zenon
<1>2. SumFunctionOnSet(f, S) = g[S]
  BY Zenon DEF SumFunctionOnSet, FoldFunctionOnSet, MapThenFoldSet, IsSum, SumBody, Some
<1> QED BY <1>1, <1>2

\* A sum depends on the summands only.
LEMMA SumsAgree ==
    ASSUME NEW f, NEW e, NEW S, NEW T, NEW g, NEW h, IsSum(g, f, S), IsSum(h, e, T),
           NEW u, u \subseteq S, u \subseteq T, IsFiniteSet(u),
           \A x \in u : f[x] = e[x]
    PROVE  g[u] = h[u]
<1> DEFINE W == {n \in Nat : \A s \in SUBSET u : Cardinality(s) = n => g[s] = h[s]}
<1>0. \A s \in SUBSET u : IsFiniteSet(s) /\ Cardinality(s) \in Nat
  BY FS_Subset, FS_CardinalityType
<1>1. \A s \in SUBSET u : g[s] = SumBody(g, f, s) /\ h[s] = SumBody(h, e, s)
  <2>1. \A s \in SUBSET u : s \in SUBSET S /\ s \in SUBSET T
    OBVIOUS
  <2> QED BY <2>1, Zenon DEF IsSum
<1>2. 0 \in W
  <2>1. ASSUME NEW s \in SUBSET u, Cardinality(s) = 0 PROVE g[s] = h[s]
    <3>1. s = {}
      BY <1>0, <2>1, FS_EmptySet
    <3> QED BY <1>1, <3>1 DEF SumBody
  <2> QED BY <2>1
<1>3. ASSUME NEW n \in Nat, n \in W PROVE n + 1 \in W
  <2>1. ASSUME NEW s \in SUBSET u, Cardinality(s) = n + 1 PROVE g[s] = h[s]
    <3>1. s # {}
      BY <2>1, FS_EmptySet
    <3>2. Some(s) \in s /\ s \ {Some(s)} \in SUBSET u
      BY <3>1 DEF Some
    <3>3. Cardinality(s \ {Some(s)}) = n
      <4>1. Cardinality(s \ {Some(s)}) = Cardinality(s) - 1
        BY <1>0, <3>2, FS_RemoveElement
      <4> QED BY <2>1, <4>1
    <3>4. g[s \ {Some(s)}] = h[s \ {Some(s)}]
      BY <1>3, <3>2, <3>3
    <3>5. f[Some(s)] = e[Some(s)]
      BY <3>2
    <3> QED BY <1>1, <3>1, <3>4, <3>5 DEF SumBody
  <2> QED BY <2>1
<1> HIDE DEF W
<1>4. Cardinality(u) \in W
  BY <1>0, <1>2, <1>3, Induction
<1> QED BY <1>4 DEF W

LEMMA SumSame ==
    ASSUME NEW f, NEW e, NEW S, IsFiniteSet(S), \A x \in S : f[x] = e[x]
    PROVE  SumFunctionOnSet(f, S) = SumFunctionOnSet(e, S)
<1>1. PICK g : IsSum(g, f, S) /\ SumFunctionOnSet(f, S) = g[S]
  BY SumIsSum
<1>2. PICK h : IsSum(h, e, S) /\ SumFunctionOnSet(e, S) = h[S]
  BY SumIsSum
<1>3. g[S] = h[S]
  BY <1>1, <1>2, SumsAgree
<1> QED BY <1>1, <1>2, <1>3

LEMMA SumEmpty ==
    ASSUME NEW f
    PROVE  SumFunctionOnSet(f, {}) = 0
<1>1. IsFiniteSet({})
  BY FS_EmptySet
<1>2. PICK g : IsSum(g, f, {}) /\ SumFunctionOnSet(f, {}) = g[{}]
  BY <1>1, SumIsSum
<1>3. g[{}] = SumBody(g, f, {})
  <2>1. {} \in SUBSET {}
    OBVIOUS
  <2> QED BY <1>2, <2>1, Zenon DEF IsSum
<1> QED BY <1>2, <1>3 DEF SumBody

LEMMA SumChosen ==
    ASSUME NEW f, NEW S, IsFiniteSet(S), S # {}
    PROVE  SumFunctionOnSet(f, S) = f[Some(S)] + SumFunctionOnSet(f, S \ {Some(S)})
<1> DEFINE T == S \ {Some(S)}
<1>1. PICK g : IsSum(g, f, S) /\ SumFunctionOnSet(f, S) = g[S]
  BY SumIsSum
<1>2. IsFiniteSet(T) /\ T \subseteq S /\ T \subseteq T
  BY FS_RemoveElement
<1>3. PICK h : IsSum(h, f, T) /\ SumFunctionOnSet(f, T) = h[T]
  BY <1>2, SumIsSum
<1>4. g[T] = h[T]
  <2> HIDE DEF T
  <2> QED BY <1>1, <1>2, <1>3, SumsAgree
<1>5. g[S] = SumBody(g, f, S)
  <2>1. S \in SUBSET S
    OBVIOUS
  <2> QED BY <1>1, <2>1, Zenon DEF IsSum
<1> QED BY <1>1, <1>3, <1>4, <1>5 DEF SumBody

\* Any element may be taken out of a sum.
LEMMA SumRemoved ==
    ASSUME NEW f, NEW U, IsFiniteSet(U), \A x \in U : f[x] \in Int
    PROVE  \A S \in SUBSET U :
              /\ SumFunctionOnSet(f, S) \in Int
              /\ \A x \in S : SumFunctionOnSet(f, S) = f[x] + SumFunctionOnSet(f, S \ {x})
<1> DEFINE Sum(S) == SumFunctionOnSet(f, S)
           Fine(S) == Sum(S) \in Int /\ \A x \in S : Sum(S) = f[x] + Sum(S \ {x})
           W == {n \in Nat : \A S \in SUBSET U : Cardinality(S) <= n => Fine(S)}
<1>0. \A s \in SUBSET U : IsFiniteSet(s) /\ Cardinality(s) \in Nat
  BY FS_Subset, FS_CardinalityType
<1>1. 0 \in W
  <2>1. ASSUME NEW S \in SUBSET U, Cardinality(S) <= 0 PROVE Fine(S)
    <3>0. Cardinality(S) = 0
      BY <1>0, <2>1
    <3>1. S = {}
      BY <1>0, <3>0, FS_EmptySet
    <3>2. Sum(S) = 0
      BY <3>1, SumEmpty
    <3> QED BY <3>1, <3>2
  <2> QED BY <2>1
<1>2. ASSUME NEW n \in Nat, n \in W PROVE n + 1 \in W
  <2>1. ASSUME NEW S \in SUBSET U, Cardinality(S) <= n + 1, S # {} PROVE Fine(S)
    <3> DEFINE c == Some(S)
    <3>1. c \in S
      BY <2>1 DEF Some
    <3>2. \A x \in S : S \ {x} \in SUBSET U /\ Cardinality(S \ {x}) <= n
      <4>1. \A x \in S : Cardinality(S \ {x}) = Cardinality(S) - 1
        BY <1>0, FS_RemoveElement
      <4> QED BY <1>0, <2>1, <4>1
    <3>3. \A x \in S : Fine(S \ {x})
      BY <1>2, <3>2
    <3>4. Sum(S) = f[c] + Sum(S \ {c})
      BY <1>0, <2>1, SumChosen
    <3>5. \A x \in S : f[x] \in Int
      OBVIOUS
    <3> HIDE DEF c
    <3>6. ASSUME NEW x \in S, x # c PROVE Sum(S) = f[x] + Sum(S \ {x})
      <4> DEFINE rest == (S \ {c}) \ {x}
      <4>1. x \in S \ {c} /\ c \in S \ {x} /\ rest = (S \ {x}) \ {c}
        BY <3>1, <3>6
      <4>2. Sum(S \ {c}) = f[x] + Sum(rest)
        BY <3>1, <3>3, <4>1
      <4>3. Sum(S \ {x}) = f[c] + Sum(rest)
        BY <3>3, <4>1
      <4>4. f[x] \in Int /\ f[c] \in Int
        BY <3>1, <3>5
      <4>5. Sum(rest) \in Int
        <5>1. rest \in SUBSET U /\ rest \in SUBSET (S \ {c})
          OBVIOUS
        <5>2. S \ {c} \in SUBSET U /\ Cardinality(S \ {c}) <= n
          BY <3>1, <3>2
        <5> HIDE DEF rest, Fine
        <5>3. Cardinality(rest) <= n
          <6>1. Cardinality(rest) <= Cardinality(S \ {c})
            BY <1>0, <5>1, <5>2, FS_Subset
          <6> QED BY <1>0, <5>1, <5>2, <6>1
        <5>4. Fine(rest)
          BY <1>2, <5>1, <5>3
        <5> QED BY <5>4 DEF Fine
      <4> HIDE DEF Sum, rest
      <4> QED BY <3>4, <4>2, <4>3, <4>4, <4>5
    <3>7. \A x \in S : Sum(S) = f[x] + Sum(S \ {x})
      BY <3>4, <3>6
    <3>8. Sum(S) \in Int
      BY <3>1, <3>3, <3>4, <3>5
    <3> QED BY <3>7, <3>8
  <2>2. Fine({})
    BY <1>0, <1>1, FS_EmptySet
  <2> HIDE DEF Fine
  <2> QED BY <2>1, <2>2
<1> HIDE DEF W, Fine
<1>3. \A S \in SUBSET U : Cardinality(S) \in W
  BY <1>0, <1>1, <1>2, Induction
<1>4. ASSUME NEW S \in SUBSET U PROVE Fine(S)
  BY <1>0, <1>3 DEF W
<1> QED BY <1>4 DEF Fine

\* Induction over the subsets of a finite set.
LEMMA SetInduction ==
    ASSUME NEW U, IsFiniteSet(U), NEW W, {} \in W,
           \A S \in SUBSET U : \A x \in U \ S : S \in W => S \cup {x} \in W
    PROVE  U \in W
<1> DEFINE V == {n \in Nat : \A S \in SUBSET U : Cardinality(S) = n => S \in W}
<1>0. \A s \in SUBSET U : IsFiniteSet(s) /\ Cardinality(s) \in Nat
  BY FS_Subset, FS_CardinalityType
<1>1. 0 \in V
  BY <1>0, FS_EmptySet
<1>2. ASSUME NEW n \in Nat, n \in V PROVE n + 1 \in V
  <2>1. ASSUME NEW S \in SUBSET U, Cardinality(S) = n + 1 PROVE S \in W
    <3>1. S # {}
      BY <2>1, FS_EmptySet
    <3>2. PICK x \in S : TRUE
      BY <3>1
    <3> DEFINE T == S \ {x}
    <3>3. T \in SUBSET U /\ x \in U \ T /\ S = T \cup {x}
      OBVIOUS
    <3>4. Cardinality(T) = Cardinality(S) - 1
      BY <1>0, <3>2, FS_RemoveElement
    <3>5. Cardinality(T) = n
      BY <2>1, <3>4
    <3> HIDE DEF T
    <3>6. T \in W
      BY <1>2, <3>3, <3>5
    <3> QED BY <3>3, <3>6
  <2> QED BY <2>1
<1> HIDE DEF V
<1>3. Cardinality(U) \in V
  BY <1>0, <1>1, <1>2, Induction
<1> QED BY <1>3 DEF V

LEMMA SumIsInt ==
    ASSUME NEW f, NEW S, IsFiniteSet(S), \A x \in S : f[x] \in Int
    PROVE  SumFunctionOnSet(f, S) \in Int
<1>1. S \in SUBSET S
  OBVIOUS
<1> QED BY <1>1, SumRemoved

LEMMA SumAdded ==
    ASSUME NEW f, NEW S, IsFiniteSet(S), NEW x, x \notin S,
           f[x] \in Int, \A y \in S : f[y] \in Int
    PROVE  SumFunctionOnSet(f, S \cup {x}) = f[x] + SumFunctionOnSet(f, S)
<1> DEFINE U == S \cup {x}
<1>1. IsFiniteSet(U) /\ U \in SUBSET U /\ x \in U /\ U \ {x} = S
  BY FS_AddElement
<1>2. \A y \in U : f[y] \in Int
  OBVIOUS
<1> HIDE DEF U
<1>3. SumFunctionOnSet(f, U) = f[x] + SumFunctionOnSet(f, U \ {x})
  BY <1>1, <1>2, SumRemoved
<1> QED BY <1>1, <1>3 DEF U

LEMMA SumUnion ==
    ASSUME NEW f, NEW S, IsFiniteSet(S), NEW T, IsFiniteSet(T), S \cap T = {},
           \A x \in S : f[x] \in Int, \A x \in T : f[x] \in Int
    PROVE  SumFunctionOnSet(f, S \cup T) = SumFunctionOnSet(f, S) + SumFunctionOnSet(f, T)
<1> DEFINE Sum(R) == SumFunctionOnSet(f, R)
           W == {R \in SUBSET T : Sum(S \cup R) = Sum(S) + Sum(R)}
<1>0. Sum(S) \in Int /\ \A R \in SUBSET T : Sum(R) \in Int /\ IsFiniteSet(R)
  BY SumIsInt, FS_Subset
<1>1. {} \in W
  <2>1. Sum({}) = 0 /\ S \cup {} = S
    BY SumEmpty
  <2> HIDE DEF Sum
  <2> QED BY <1>0, <2>1
<1>2. ASSUME NEW R \in SUBSET T, NEW x \in T \ R, R \in W PROVE R \cup {x} \in W
  <2>1. Sum(R \cup {x}) = f[x] + Sum(R)
    BY <1>0, SumAdded
  <2>2. Sum((S \cup R) \cup {x}) = f[x] + Sum(S \cup R)
    <3> DEFINE V == S \cup R
    <3>1. IsFiniteSet(V) /\ x \notin V /\ f[x] \in Int /\ \A y \in V : f[y] \in Int
      BY <1>0, FS_Union
    <3> HIDE DEF V
    <3> QED BY <3>1, SumAdded DEF V
  <2>3. S \cup (R \cup {x}) = (S \cup R) \cup {x}
    OBVIOUS
  <2>4. Sum(S \cup R) = Sum(S) + Sum(R)
    BY <1>2
  <2>5. Sum(R) \in Int /\ f[x] \in Int
    BY <1>0
  <2> HIDE DEF Sum, W
  <2>6. \A a, b, c \in Int : a + (b + c) = b + (a + c)
    OBVIOUS
  <2>7. Sum(S \cup (R \cup {x})) = f[x] + (Sum(S) + Sum(R))
    BY <2>2, <2>3, <2>4
  <2>8. Sum(S \cup (R \cup {x})) = Sum(S) + Sum(R \cup {x})
    BY <1>0, <2>1, <2>5, <2>6, <2>7
  <2>9. R \cup {x} \in SUBSET T
    OBVIOUS
  <2> QED BY <2>8, <2>9 DEF W
<1> HIDE DEF W
<1>3. T \in W
  BY <1>1, <1>2, SetInduction
<1> QED BY <1>3 DEF W

\* Summing over the image of an injection.
LEMMA SumMapped ==
    ASSUME NEW f, NEW e, NEW h, NEW I, IsFiniteSet(I),
           \A i, j \in I : h[i] = h[j] => i = j,
           \A i \in I : f[h[i]] = e[i] /\ e[i] \in Int
    PROVE  SumFunctionOnSet(f, {h[i] : i \in I}) = SumFunctionOnSet(e, I)
<1> DEFINE Image(R) == {h[i] : i \in R}
           W == {R \in SUBSET I : /\ IsFiniteSet(Image(R))
                                  /\ SumFunctionOnSet(f, Image(R)) = SumFunctionOnSet(e, R)}
<1>1. {} \in W
  <2>1. Image({}) = {}
    OBVIOUS
  <2> HIDE DEF Image
  <2> QED BY <2>1, FS_EmptySet, SumEmpty
<1>2. ASSUME NEW R \in SUBSET I, NEW x \in I \ R, R \in W PROVE R \cup {x} \in W
  <2>1. Image(R \cup {x}) = Image(R) \cup {h[x]} /\ h[x] \notin Image(R)
    OBVIOUS
  <2>2. \A y \in Image(R) : f[y] \in Int
    OBVIOUS
  <2>3. IsFiniteSet(R) /\ f[h[x]] = e[x] /\ e[x] \in Int /\ \A y \in R : e[y] \in Int
    BY FS_Subset
  <2>4. IsFiniteSet(Image(R)) /\ SumFunctionOnSet(f, Image(R)) = SumFunctionOnSet(e, R)
    BY <1>2
  <2> HIDE DEF Image
  <2>5. SumFunctionOnSet(f, Image(R) \cup {h[x]}) = f[h[x]] + SumFunctionOnSet(f, Image(R))
    BY <2>1, <2>2, <2>3, <2>4, SumAdded
  <2>6. SumFunctionOnSet(e, R \cup {x}) = e[x] + SumFunctionOnSet(e, R)
    BY <2>3, SumAdded
  <2>7. IsFiniteSet(Image(R) \cup {h[x]})
    BY <2>4, FS_AddElement
  <2>8. SumFunctionOnSet(f, Image(R \cup {x})) = SumFunctionOnSet(e, R \cup {x})
    BY <2>1, <2>3, <2>4, <2>5, <2>6
  <2>9. IsFiniteSet(Image(R \cup {x})) /\ R \cup {x} \in SUBSET I
    BY <2>1, <2>7
  <2> QED BY <2>8, <2>9
<1> HIDE DEF W
<1>3. I \in W
  BY <1>1, <1>2, SetInduction
<1> QED BY <1>3 DEF W

-----------------------------------------------------------------------------
(* The margin of a note, exactly. *)

LEMMA Division ==
    ASSUME NEW n \in Nat, NEW d \in Nat, d > 0
    PROVE  /\ n \div d \in Nat /\ n % d \in Nat
           /\ n = d * (n \div d) + (n % d) /\ n % d < d
OBVIOUS

LEMMA CeilDiv ==
    ASSUME NEW n \in Nat, NEW d \in Nat, d > 0
    PROVE  /\ checked_ceil_div(n, d) \in Nat
           /\ checked_ceil_div(n, d) * d >= n
<1> DEFINE q == n \div d
           r == n % d
<1>1. q \in Nat /\ r \in Nat /\ n = d * q + r /\ r < d
  BY Division
<1>2. checked_ceil_div(n, d) = q + (IF r = 0 THEN 0 ELSE 1)
  BY DEF checked_ceil_div
<1> HIDE DEF q, r
<1>3. d * q \in Nat /\ q * d = d * q /\ (q + 1) * d = d * q + d /\ (q + 0) * d = d * q
  BY <1>1
<1>4. CASE r = 0
  BY <1>1, <1>2, <1>3, <1>4
<1>5. CASE r # 0
  BY <1>1, <1>2, <1>3, <1>5
<1> QED BY <1>4, <1>5

LEMMA Products ==
    /\ \A a, b \in Nat : a * b \in Nat /\ a * b = b * a
    /\ \A a, b, k \in Nat : a >= b => a * k >= b * k
    /\ \A a, b, k \in Nat : (a * b) * k = (a * k) * b
OBVIOUS

\* The margin of a note, without rounding.
Margined(opening, policy) ==
    LET scaled_notional == unsigned_abs(opening.position) * policy.mark_price
    IN  /\ opening.leverage \in 1 .. policy.maximum_leverage
        /\ opening.collateral * opening.leverage * policy.price_scale
              >= scaled_notional
        /\ opening.collateral * BasisPoints * policy.price_scale
              >= scaled_notional * policy.minimum_initial_margin_bps

LEMMA RequiredMargins ==
    ASSUME NEW policy, IsPolicy(policy), ValidPolicy(policy),
           NEW opening, IsOpening(opening), LeverageAllowed(policy, opening),
           opening.collateral >= required_margin(policy, opening)
    PROVE  Margined(opening, policy)
<1> DEFINE c == opening.collateral
           l == opening.leverage
           ps == policy.price_scale
           bps == policy.minimum_initial_margin_bps
           scaled == unsigned_abs(opening.position) * policy.mark_price
           notional == checked_ceil_div(scaled, ps)
           low == checked_ceil_div(notional, l)
           rate == checked_ceil_div(notional * bps, BasisPoints)
<1>1. /\ c \in Nat /\ l \in Nat /\ l > 0 /\ ps \in Nat /\ ps > 0 /\ bps \in Nat
      /\ BasisPoints \in Nat /\ BasisPoints > 0 /\ l \in 1 .. policy.maximum_leverage
  BY LedgerAssumption DEF IsPolicy, ValidPolicy, IsOpening, LeverageAllowed
<1>2. scaled \in Nat
  <2>1. unsigned_abs(opening.position) \in Nat /\ policy.mark_price \in Nat
    BY DEF IsPolicy, IsOpening, unsigned_abs
  <2> QED BY <2>1, Products
<1>3. required_margin(policy, opening) = Max({low, rate})
  BY DEF required_margin
<1> HIDE DEF scaled, c, l, ps, bps
<1>4. notional \in Nat /\ notional * ps >= scaled
  BY <1>1, <1>2, CeilDiv
<1> HIDE DEF notional
<1>5. low \in Nat /\ low * l >= notional
  BY <1>1, <1>4, CeilDiv
<1>6. rate \in Nat /\ rate * BasisPoints >= notional * bps
  <2>1. notional * bps \in Nat
    BY <1>1, <1>4, Products
  <2> QED BY <1>1, <2>1, CeilDiv
<1> HIDE DEF low, rate
<1>7. c >= low /\ c >= rate
  <2>1. Max({low, rate}) = IF low >= rate THEN low ELSE rate
    BY <1>5, <1>6, MaxOfTwo
  <2>2. c >= Max({low, rate})
    BY <1>3 DEF c
  <2> QED BY <1>1, <1>5, <1>6, <2>1, <2>2
<1>8. c * l * ps >= scaled
  <2> DEFINE a == c * l
  <2>1. a \in Nat /\ low * l \in Nat /\ a >= low * l
    BY <1>1, <1>5, <1>7, Products
  <2>2. a >= notional
    BY <1>4, <1>5, <2>1
  <2> HIDE DEF a
  <2>3. a * ps >= notional * ps /\ a * ps \in Nat /\ notional * ps \in Nat
    BY <1>1, <1>4, <2>1, <2>2, Products
  <2>4. a * ps >= scaled
    <3> DEFINE x == a * ps
               y == notional * ps
    <3>1. x >= y /\ x \in Nat /\ y \in Nat /\ y >= scaled
      BY <1>4, <2>3
    <3> HIDE DEF x, y
    <3>2. x >= scaled
      BY <1>2, <3>1
    <3> QED BY <3>2 DEF x
  <2> QED BY <2>4 DEF a
<1>9. c * BasisPoints * ps >= scaled * bps
  <2> DEFINE a == c * BasisPoints
             b == notional * bps
  <2>1. a \in Nat /\ b \in Nat /\ rate * BasisPoints \in Nat /\ a >= rate * BasisPoints
    BY <1>1, <1>4, <1>6, <1>7, Products
  <2>2. a >= b
    <3> DEFINE x == rate * BasisPoints
    <3>1. x \in Nat /\ a >= x /\ x >= b
      BY <1>6, <2>1
    <3> HIDE DEF x, a, b
    <3> QED BY <2>1, <3>1
  <2> DEFINE y == notional * ps
             z == a * ps
             u == b * ps
             v == y * bps
             w == scaled * bps
  <2>3. u = v
    BY <1>1, <1>4, Products
  <2>4. y \in Nat /\ y >= scaled
    BY <1>1, <1>4, Products
  <2> HIDE DEF a, b, y
  <2>5. z >= u /\ z \in Nat /\ u \in Nat
    BY <1>1, <2>1, <2>2, Products
  <2>6. v >= w /\ v \in Nat /\ w \in Nat
    BY <1>1, <1>2, <2>4, Products
  <2> HIDE DEF z, u, v, w
  <2>7. z >= w
    BY <2>3, <2>5, <2>6
  <2> QED BY <2>7 DEF z, a, w
<1> QED BY <1>1, <1>8, <1>9 DEF Margined, c, l, ps, bps, scaled

\* A deposit carries no position, so any policy allows it.
LEMMA FlatMargins ==
    ASSUME NEW policy, IsPolicy(policy), ValidPolicy(policy),
           NEW opening, IsOpening(opening), opening.position = 0, opening.leverage = 1
    PROVE  Margined(opening, policy)
<1> DEFINE c == opening.collateral
           ps == policy.price_scale
           scaled == unsigned_abs(opening.position) * policy.mark_price
<1>1. /\ c \in Nat /\ ps \in Nat /\ BasisPoints \in Nat /\ 1 \in 1 .. policy.maximum_leverage
      /\ policy.minimum_initial_margin_bps \in Nat
  BY LedgerAssumption DEF IsPolicy, ValidPolicy, IsOpening
<1>2. scaled = 0 /\ scaled * policy.minimum_initial_margin_bps = 0
  BY DEF unsigned_abs, IsPolicy
<1>3. c * 1 \in Nat /\ c * BasisPoints \in Nat
  BY <1>1, Products
<1>4. (c * 1) * ps \in Nat /\ (c * BasisPoints) * ps \in Nat
  <2> DEFINE a == c * 1
             b == c * BasisPoints
  <2>1. a \in Nat /\ b \in Nat
    BY <1>3
  <2> HIDE DEF a, b
  <2>2. a * ps \in Nat /\ b * ps \in Nat
    BY <1>1, <2>1, Products
  <2> QED BY <2>2 DEF a, b
<1>5. (c * 1) * ps >= 0 /\ (c * BasisPoints) * ps >= 0
  BY <1>4
<1> QED BY <1>1, <1>2, <1>5 DEF Margined

-----------------------------------------------------------------------------
(* What a step does to the notes that are not spent. *)

LEMMA NullifiersDiffer ==
    ASSUME NEW tree, NEW other, NEW i, NEW j,
           NullifierAt(tree, i) = NullifierAt(other, j)
    PROVE  i = j
BY DEF NullifierAt, derive_nullifier

Live(margin) ==
    {i \in LeafIndices(margin.note_tree) :
        NullifierAt(margin.note_tree, i) \notin margin.spent_nullifiers}

NewLeaves(old, new) ==
    LeafIndices(new.note_tree) \ LeafIndices(old.note_tree)

\* The step from one margin state to another consumes some leaves.
Consumed(old, new, spent) ==
    /\ Kept(old.note_tree, new.note_tree)
    /\ spent \subseteq Live(old)
    /\ \A x : x \in new.spent_nullifiers
          <=> \/ x \in old.spent_nullifiers
              \/ \E j \in spent : x = NullifierAt(old.note_tree, j)

LEMMA LiveMoves ==
    ASSUME NEW old, NEW new, NEW spent, Consumed(old, new, spent),
           SpentLeaves(old.spent_nullifiers, old.note_tree)
    PROVE  Live(new) = (Live(old) \ spent) \cup NewLeaves(old, new)
<1> DEFINE t == old.note_tree
           u == new.note_tree
<1>0. spent \subseteq LeafIndices(t)
  BY DEF Consumed, Live
<1>1. \A i \in LeafIndices(t) : i \in LeafIndices(u)
  BY DEF Consumed, Kept
<1>2. \A i \in LeafIndices(t) : NullifierAt(u, i) = NullifierAt(t, i)
  BY DEF Consumed, Kept
<1>3. \A x : x \in new.spent_nullifiers
          <=> \/ x \in old.spent_nullifiers
              \/ \E j \in spent : x = NullifierAt(t, j)
  BY DEF Consumed
<1>4. ASSUME NEW i \in LeafIndices(t)
      PROVE  i \in Live(new) <=> i \in Live(old) \ spent
  <2>1. i \in Live(new) <=> NullifierAt(t, i) \notin new.spent_nullifiers
    BY <1>1, <1>2 DEF Live
  <2>2. i \in Live(old) <=> NullifierAt(t, i) \notin old.spent_nullifiers
    BY DEF Live
  <2>3. i \in spent <=> \E j \in spent : NullifierAt(t, i) = NullifierAt(t, j)
    BY NullifiersDiffer
  <2> QED BY <1>3, <2>1, <2>2, <2>3
<1>5. ASSUME NEW i \in NewLeaves(old, new) PROVE i \in Live(new)
  <2>1. i \in LeafIndices(u) /\ i \notin LeafIndices(t)
    BY <1>5 DEF NewLeaves
  <2>2. NullifierAt(u, i) \notin old.spent_nullifiers
    <3> SUFFICES ASSUME NullifierAt(u, i) \in old.spent_nullifiers PROVE FALSE
      OBVIOUS
    <3>1. PICK j \in LeafIndices(t) : NullifierAt(u, i) = NullifierAt(t, j)
      BY DEF SpentLeaves
    <3> QED BY <2>1, <3>1, NullifiersDiffer
  <2>3. ~ \E j \in spent : NullifierAt(u, i) = NullifierAt(t, j)
    BY <1>0, <2>1, NullifiersDiffer
  <2> QED BY <1>3, <2>1, <2>2, <2>3 DEF Live
<1>6. \A i \in Live(new) : i \in LeafIndices(u)
  BY DEF Live
<1>7. \A i \in Live(old) : i \in LeafIndices(t)
  BY DEF Live
<1> QED BY <1>4, <1>5, <1>6, <1>7 DEF NewLeaves

LEMMA LeavesFinite ==
    ASSUME NEW tree, Len(tree.leaves) \in Nat
    PROVE  IsFiniteSet(LeafIndices(tree))
<1>1. Len(tree.leaves) - 1 \in Int /\ 0 \in Int
  OBVIOUS
<1> QED BY <1>1, FS_Interval DEF LeafIndices

\* A sum over the notes that are not spent follows what the step moves.
LEMMA SumMoves ==
    ASSUME NEW f, NEW g, NEW U, IsFiniteSet(U), NEW gone, gone \subseteq U,
           NEW added, IsFiniteSet(added), added \cap U = {},
           \A x \in U : f[x] \in Int /\ g[x] = f[x],
           \A x \in added : g[x] \in Int
    PROVE  /\ SumFunctionOnSet(g, (U \ gone) \cup added)
                 = SumFunctionOnSet(f, U) - SumFunctionOnSet(f, gone)
                     + SumFunctionOnSet(g, added)
           /\ SumFunctionOnSet(f, U) \in Int /\ SumFunctionOnSet(f, gone) \in Int
           /\ SumFunctionOnSet(g, added) \in Int
<1> DEFINE rest == U \ gone
<1>1. /\ IsFiniteSet(rest) /\ IsFiniteSet(gone) /\ rest \cap added = {}
      /\ rest \cap gone = {} /\ rest \cup gone = U
  BY FS_Subset
<1>2. /\ \A x \in rest : f[x] \in Int
      /\ \A x \in gone : f[x] \in Int
      /\ \A x \in rest : g[x] = f[x]
      /\ \A x \in rest : g[x] \in Int
  OBVIOUS
<1> HIDE DEF rest
<1>3. SumFunctionOnSet(g, rest \cup added)
         = SumFunctionOnSet(g, rest) + SumFunctionOnSet(g, added)
  BY <1>1, <1>2, SumUnion
<1>4. SumFunctionOnSet(g, rest) = SumFunctionOnSet(f, rest)
  BY <1>1, <1>2, SumSame
<1>5. SumFunctionOnSet(f, rest \cup gone)
         = SumFunctionOnSet(f, rest) + SumFunctionOnSet(f, gone)
  BY <1>1, <1>2, SumUnion
<1>6. /\ SumFunctionOnSet(f, rest) \in Int /\ SumFunctionOnSet(f, gone) \in Int
      /\ SumFunctionOnSet(g, added) \in Int
  BY <1>1, <1>2, SumIsInt
<1>7. SumFunctionOnSet(f, U) = SumFunctionOnSet(f, rest) + SumFunctionOnSet(f, gone)
  BY <1>1, <1>5
<1> DEFINE a == SumFunctionOnSet(f, rest)
           b == SumFunctionOnSet(f, gone)
           c == SumFunctionOnSet(g, added)
           d == SumFunctionOnSet(f, U)
           e == SumFunctionOnSet(g, rest \cup added)
<1>8. a \in Int /\ b \in Int /\ c \in Int /\ d = a + b /\ e = a + c
  BY <1>3, <1>4, <1>6, <1>7
<1> HIDE DEF a, b, c, d, e
<1>9. e = d - b + c /\ d \in Int
  BY <1>8
<1> QED BY <1>6, <1>9 DEF a, b, c, d, e, rest

CollateralAt(tree) ==
    [i \in LeafIndices(tree) |-> Opening(Leaf(tree, i)).collateral]

PositionAt(tree) ==
    [i \in LeafIndices(tree) |-> Opening(Leaf(tree, i)).position]

OpenedNotes(tree) ==
    \A i \in LeafIndices(tree) : IsOpening(Opening(Leaf(tree, i)))

MarketLive(margin, market_id) ==
    {i \in Live(margin) : Leaf(margin.note_tree, i).market_id = market_id}

LEMMA KeptOpened ==
    ASSUME NEW old, NEW new, Kept(old, new), OpenedNotes(new)
    PROVE  /\ OpenedNotes(old)
           /\ \A i \in LeafIndices(old) :
                 /\ CollateralAt(old)[i] \in Int
                 /\ CollateralAt(new)[i] = CollateralAt(old)[i]
           /\ \A i \in LeafIndices(old) :
                 /\ PositionAt(old)[i] \in Int
                 /\ PositionAt(new)[i] = PositionAt(old)[i]
           /\ \A i \in LeafIndices(new) :
                 CollateralAt(new)[i] \in Int /\ PositionAt(new)[i] \in Int
<1>1. \A i \in LeafIndices(old) : i \in LeafIndices(new) /\ Leaf(new, i) = Leaf(old, i)
  BY DEF Kept
<1>2. \A i \in LeafIndices(new) : IsOpening(Opening(Leaf(new, i)))
  BY DEF OpenedNotes
<1>3. \A i \in LeafIndices(old) : IsOpening(Opening(Leaf(old, i)))
  BY <1>1, <1>2
<1>4. \A opening : IsOpening(opening) => opening.collateral \in Int /\ opening.position \in Int
  BY DEF IsOpening
<1>5. /\ \A i \in LeafIndices(old) : CollateralAt(old)[i] = Opening(Leaf(old, i)).collateral
      /\ \A i \in LeafIndices(new) : CollateralAt(new)[i] = Opening(Leaf(new, i)).collateral
      /\ \A i \in LeafIndices(old) : PositionAt(old)[i] = Opening(Leaf(old, i)).position
      /\ \A i \in LeafIndices(new) : PositionAt(new)[i] = Opening(Leaf(new, i)).position
  BY DEF CollateralAt, PositionAt
<1> QED BY <1>1, <1>2, <1>3, <1>4, <1>5 DEF OpenedNotes

LEMMA LiveFinite ==
    ASSUME NEW margin, SoundMargin(margin)
    PROVE  /\ Live(margin) \subseteq LeafIndices(margin.note_tree)
           /\ IsFiniteSet(Live(margin)) /\ IsFiniteSet(LeafIndices(margin.note_tree))
<1>1. IsFiniteSet(LeafIndices(margin.note_tree))
  BY WholeIs, LeavesFinite DEF SoundMargin
<1>2. Live(margin) \subseteq LeafIndices(margin.note_tree)
  BY DEF Live
<1> QED BY <1>1, <1>2, FS_Subset

LEMMA CollateralMoves ==
    ASSUME NEW old, NEW new, NEW spent, Consumed(old, new, spent),
           SoundMargin(old), SoundMargin(new), OpenedNotes(new.note_tree)
    PROVE  /\ SumFunctionOnSet(CollateralAt(new.note_tree), Live(new))
                 = SumFunctionOnSet(CollateralAt(old.note_tree), Live(old))
                   - SumFunctionOnSet(CollateralAt(old.note_tree), spent)
                   + SumFunctionOnSet(CollateralAt(new.note_tree), NewLeaves(old, new))
           /\ SumFunctionOnSet(CollateralAt(old.note_tree), Live(old)) \in Int
           /\ SumFunctionOnSet(CollateralAt(old.note_tree), spent) \in Int
           /\ SumFunctionOnSet(CollateralAt(new.note_tree), NewLeaves(old, new)) \in Int
<1> DEFINE f == CollateralAt(old.note_tree)
           g == CollateralAt(new.note_tree)
           added == NewLeaves(old, new)
<1>1. Live(new) = (Live(old) \ spent) \cup added
  BY LiveMoves DEF SoundMargin
<1>2. /\ Live(old) \subseteq LeafIndices(old.note_tree)
      /\ IsFiniteSet(Live(old)) /\ IsFiniteSet(LeafIndices(new.note_tree))
  BY LiveFinite
<1>3. /\ added \subseteq LeafIndices(new.note_tree)
      /\ added \cap Live(old) = {} /\ spent \subseteq Live(old)
  BY <1>2 DEF NewLeaves, Consumed
<1>4. IsFiniteSet(added)
  BY <1>2, <1>3, FS_Subset
<1>5. Kept(old.note_tree, new.note_tree)
  BY DEF Consumed
<1>6. \A i \in LeafIndices(old.note_tree) : f[i] \in Int /\ g[i] = f[i]
  BY <1>5, KeptOpened
<1>7. \A i \in LeafIndices(new.note_tree) : g[i] \in Int
  BY <1>5, KeptOpened
<1>8. (\A i \in Live(old) : f[i] \in Int /\ g[i] = f[i]) /\ (\A i \in added : g[i] \in Int)
  BY <1>2, <1>3, <1>6, <1>7
<1> HIDE DEF f, g, added
<1>9. /\ SumFunctionOnSet(g, (Live(old) \ spent) \cup added)
            = SumFunctionOnSet(f, Live(old)) - SumFunctionOnSet(f, spent)
                + SumFunctionOnSet(g, added)
      /\ SumFunctionOnSet(f, Live(old)) \in Int /\ SumFunctionOnSet(f, spent) \in Int
      /\ SumFunctionOnSet(g, added) \in Int
  BY <1>2, <1>3, <1>4, <1>8, SumMoves
<1> QED BY <1>1, <1>9 DEF f, g, added

LEMMA PositionMoves ==
    ASSUME NEW old, NEW new, NEW spent, Consumed(old, new, spent),
           SoundMargin(old), SoundMargin(new), OpenedNotes(new.note_tree), NEW market_id,
           \A i \in spent : Leaf(old.note_tree, i).market_id = market_id,
           \A i \in NewLeaves(old, new) : Leaf(new.note_tree, i).market_id = market_id
    PROVE  /\ SumFunctionOnSet(PositionAt(new.note_tree), MarketLive(new, market_id))
                 = SumFunctionOnSet(PositionAt(old.note_tree), MarketLive(old, market_id))
                   - SumFunctionOnSet(PositionAt(old.note_tree), spent)
                   + SumFunctionOnSet(PositionAt(new.note_tree), NewLeaves(old, new))
           /\ SumFunctionOnSet(PositionAt(old.note_tree), spent) \in Int
           /\ SumFunctionOnSet(PositionAt(new.note_tree), NewLeaves(old, new)) \in Int
           /\ \A m : m # market_id =>
                 SumFunctionOnSet(PositionAt(new.note_tree), MarketLive(new, m))
                    = SumFunctionOnSet(PositionAt(old.note_tree), MarketLive(old, m))
<1> DEFINE f == PositionAt(old.note_tree)
           g == PositionAt(new.note_tree)
           added == NewLeaves(old, new)
           U == MarketLive(old, market_id)
<1>1. Live(new) = (Live(old) \ spent) \cup added
  BY LiveMoves DEF SoundMargin
<1>2. /\ Live(old) \subseteq LeafIndices(old.note_tree)
      /\ IsFiniteSet(Live(old)) /\ IsFiniteSet(LeafIndices(new.note_tree))
  BY LiveFinite
<1>3. /\ added \subseteq LeafIndices(new.note_tree)
      /\ added \cap Live(old) = {} /\ spent \subseteq Live(old)
  BY <1>2 DEF NewLeaves, Consumed
<1>4. IsFiniteSet(added)
  BY <1>2, <1>3, FS_Subset
<1>5. Kept(old.note_tree, new.note_tree)
  BY DEF Consumed
<1>6. \A i \in LeafIndices(old.note_tree) : f[i] \in Int /\ g[i] = f[i]
  BY <1>5, KeptOpened
<1>7. \A i \in LeafIndices(new.note_tree) : g[i] \in Int
  BY <1>5, KeptOpened
<1>8. \A i \in Live(old) : Leaf(new.note_tree, i) = Leaf(old.note_tree, i)
  BY <1>2, <1>5 DEF Kept
<1> HIDE DEF f, g, added
<1>9. MarketLive(new, market_id) = (U \ spent) \cup added
  BY <1>1, <1>8 DEF MarketLive, added
<1>10. /\ IsFiniteSet(U) /\ spent \subseteq U /\ added \cap U = {}
       /\ U \subseteq LeafIndices(old.note_tree)
  <2>1. U \subseteq Live(old)
    BY DEF MarketLive
  <2>2. spent \subseteq U
    BY <1>3 DEF MarketLive
  <2> QED BY <1>2, <1>3, <2>1, <2>2, FS_Subset
<1>11. (\A i \in U : f[i] \in Int /\ g[i] = f[i]) /\ (\A i \in added : g[i] \in Int)
  BY <1>3, <1>6, <1>7, <1>10
<1>12. ASSUME NEW m, m # market_id
       PROVE  SumFunctionOnSet(g, MarketLive(new, m)) = SumFunctionOnSet(f, MarketLive(old, m))
  <2>1. MarketLive(new, m) = MarketLive(old, m)
    BY <1>1, <1>3, <1>8, <1>12 DEF MarketLive, added
  <2>2. IsFiniteSet(MarketLive(old, m)) /\ MarketLive(old, m) \subseteq Live(old)
    <3>1. MarketLive(old, m) \subseteq Live(old)
      BY DEF MarketLive
    <3> QED BY <1>2, <3>1, FS_Subset
  <2>3. \A i \in MarketLive(old, m) : g[i] = f[i]
    BY <1>2, <1>6, <2>2
  <2>4. SumFunctionOnSet(g, MarketLive(old, m)) = SumFunctionOnSet(f, MarketLive(old, m))
    BY <2>2, <2>3, SumSame
  <2> QED BY <2>1, <2>4
<1> HIDE DEF U
<1>13. /\ SumFunctionOnSet(g, (U \ spent) \cup added)
            = SumFunctionOnSet(f, U) - SumFunctionOnSet(f, spent)
                + SumFunctionOnSet(g, added)
       /\ SumFunctionOnSet(f, U) \in Int /\ SumFunctionOnSet(f, spent) \in Int
       /\ SumFunctionOnSet(g, added) \in Int
  BY <1>4, <1>10, <1>11, SumMoves
<1> QED BY <1>9, <1>12, <1>13 DEF f, g, added, U

-----------------------------------------------------------------------------
(* The value a ledger holds. *)

\* The invariant of the value a ledger holds.
SoundValue(ledger) ==
    LET margin == ledger.margin
        tree == margin.note_tree
    IN  /\ ledger.shielded_collateral \in Nat /\ ledger.fee_total \in Nat
        /\ OpenedNotes(tree)
        /\ \A i \in LeafIndices(tree) :
              Margined(Opening(Leaf(tree, i)), PolicyOf(ledger, Leaf(tree, i).market_id))
        /\ \A i \in LeafIndices(tree) :
              NullifierAt(tree, i) \in margin.spent_nullifiers
                 => Opening(Leaf(tree, i)).owner \in Signing
        /\ ledger.shielded_collateral = SumFunctionOnSet(CollateralAt(tree), Live(margin))
        /\ \A p \in ledger.policies :
              SumFunctionOnSet(PositionAt(tree), MarketLive(margin, p.market_id)) = 0

LEMMA PolicyIs ==
    ASSUME NEW ledger, SoundPolicies(ledger.policies), NEW policy \in ledger.policies
    PROVE  PolicyOf(ledger, policy.market_id) = policy
<1>1. /\ PolicyOf(ledger, policy.market_id) \in ledger.policies
      /\ PolicyOf(ledger, policy.market_id).market_id = policy.market_id
  BY Zenon DEF PolicyOf
<1> QED BY <1>1 DEF SoundPolicies

LEMMA ValueMoves ==
    ASSUME NEW old, NEW new, SoundLedger(old), SoundValue(old), SoundLedger(new),
           new.policies = old.policies, NEW spent, Consumed(old.margin, new.margin, spent),
           NEW policy \in old.policies,
           \A i \in spent : Leaf(old.margin.note_tree, i).market_id = policy.market_id,
           \A i \in spent : Opening(Leaf(old.margin.note_tree, i)).owner \in Signing,
           NEW added, added = NewLeaves(old.margin, new.margin),
           \A i \in added : Leaf(new.margin.note_tree, i).market_id = policy.market_id,
           \A i \in added : IsOpening(Opening(Leaf(new.margin.note_tree, i))),
           \A i \in added : Margined(Opening(Leaf(new.margin.note_tree, i)), policy),
           new.shielded_collateral \in Nat, new.fee_total \in Nat,
           new.shielded_collateral =
              old.shielded_collateral
                - SumFunctionOnSet(CollateralAt(old.margin.note_tree), spent)
                + SumFunctionOnSet(CollateralAt(new.margin.note_tree), added),
           SumFunctionOnSet(PositionAt(old.margin.note_tree), spent)
              = SumFunctionOnSet(PositionAt(new.margin.note_tree), added)
    PROVE  SoundValue(new)
<1> DEFINE t == old.margin.note_tree
           u == new.margin.note_tree
<1>1. SoundMargin(old.margin) /\ SoundMargin(new.margin) /\ SoundPolicies(old.policies)
  BY DEF SoundLedger
<1>2. /\ Kept(t, u) /\ spent \subseteq Live(old.margin)
      /\ Live(old.margin) \subseteq LeafIndices(t)
  BY DEF Consumed, Live
<1>3. /\ \A i \in LeafIndices(t) : i \in LeafIndices(u) /\ Leaf(u, i) = Leaf(t, i)
      /\ \A i \in LeafIndices(t) : NullifierAt(u, i) = NullifierAt(t, i)
  BY <1>2 DEF Kept
<1>4. \A i \in LeafIndices(u) : i \in LeafIndices(t) \/ i \in added
  BY DEF NewLeaves
<1>5. PolicyOf(old, policy.market_id) = policy /\ \A m : PolicyOf(new, m) = PolicyOf(old, m)
  BY <1>1, PolicyIs DEF PolicyOf
<1>6. OpenedNotes(u)
  <2>1. \A i \in LeafIndices(t) : IsOpening(Opening(Leaf(t, i)))
    BY DEF SoundValue, OpenedNotes
  <2> QED BY <1>3, <1>4, <2>1 DEF OpenedNotes
<1>7. \A i \in LeafIndices(u) :
         Margined(Opening(Leaf(u, i)), PolicyOf(new, Leaf(u, i).market_id))
  <2>1. \A i \in LeafIndices(t) :
           Margined(Opening(Leaf(t, i)), PolicyOf(old, Leaf(t, i).market_id))
    BY DEF SoundValue
  <2>2. \A i \in LeafIndices(t) :
           Margined(Opening(Leaf(u, i)), PolicyOf(new, Leaf(u, i).market_id))
    BY <1>3, <1>5, <2>1
  <2>3. \A i \in added : Margined(Opening(Leaf(u, i)), PolicyOf(new, Leaf(u, i).market_id))
    BY <1>5
  <2> QED BY <1>4, <2>2, <2>3
<1>8. ASSUME NEW i \in LeafIndices(u), NullifierAt(u, i) \in new.margin.spent_nullifiers
      PROVE  Opening(Leaf(u, i)).owner \in Signing
  <2>1. \/ NullifierAt(u, i) \in old.margin.spent_nullifiers
        \/ \E j \in spent : NullifierAt(u, i) = NullifierAt(t, j)
    BY <1>8 DEF Consumed
  <2>2. CASE NullifierAt(u, i) \in old.margin.spent_nullifiers
    <3>1. PICK j \in LeafIndices(t) : NullifierAt(u, i) = NullifierAt(t, j)
      BY <1>1, <2>2 DEF SoundMargin, SpentLeaves
    <3>2. i = j
      BY <3>1, NullifiersDiffer
    <3>3. NullifierAt(t, i) \in old.margin.spent_nullifiers
      BY <2>2, <3>1, <3>2
    <3>4. Opening(Leaf(t, i)).owner \in Signing
      BY <3>2, <3>3 DEF SoundValue
    <3> QED BY <1>3, <3>2, <3>4
  <2>3. CASE \E j \in spent : NullifierAt(u, i) = NullifierAt(t, j)
    <3>1. PICK j \in spent : NullifierAt(u, i) = NullifierAt(t, j)
      BY <2>3
    <3>2. i = j
      BY <3>1, NullifiersDiffer
    <3>3. i \in LeafIndices(t) /\ Leaf(u, i) = Leaf(t, i)
      BY <1>2, <1>3, <3>1, <3>2
    <3> QED BY <3>1, <3>2, <3>3
  <2> QED BY <2>1, <2>2, <2>3
<1>9. new.shielded_collateral = SumFunctionOnSet(CollateralAt(u), Live(new.margin))
  <2>1. SumFunctionOnSet(CollateralAt(u), Live(new.margin))
           = SumFunctionOnSet(CollateralAt(t), Live(old.margin))
             - SumFunctionOnSet(CollateralAt(t), spent)
             + SumFunctionOnSet(CollateralAt(u), added)
    BY <1>1, <1>6, CollateralMoves
  <2>2. old.shielded_collateral = SumFunctionOnSet(CollateralAt(t), Live(old.margin))
    BY DEF SoundValue
  <2> QED BY <2>1, <2>2
<1>10. ASSUME NEW p \in new.policies
       PROVE  SumFunctionOnSet(PositionAt(u), MarketLive(new.margin, p.market_id)) = 0
  <2>1. /\ SumFunctionOnSet(PositionAt(u), MarketLive(new.margin, policy.market_id))
             = SumFunctionOnSet(PositionAt(t), MarketLive(old.margin, policy.market_id))
               - SumFunctionOnSet(PositionAt(t), spent)
               + SumFunctionOnSet(PositionAt(u), added)
        /\ SumFunctionOnSet(PositionAt(t), spent) \in Int
        /\ \A m : m # policy.market_id =>
              SumFunctionOnSet(PositionAt(u), MarketLive(new.margin, m))
                 = SumFunctionOnSet(PositionAt(t), MarketLive(old.margin, m))
    <3> DEFINE k == policy.market_id
               a == old.margin
               b == new.margin
    <3>1. /\ Consumed(a, b, spent) /\ SoundMargin(a) /\ SoundMargin(b)
          /\ OpenedNotes(b.note_tree)
          /\ \A i \in spent : Leaf(a.note_tree, i).market_id = k
          /\ \A i \in NewLeaves(a, b) : Leaf(b.note_tree, i).market_id = k
      BY <1>1, <1>6
    <3> HIDE DEF k, a, b
    <3>2. /\ SumFunctionOnSet(PositionAt(b.note_tree), MarketLive(b, k))
               = SumFunctionOnSet(PositionAt(a.note_tree), MarketLive(a, k))
                 - SumFunctionOnSet(PositionAt(a.note_tree), spent)
                 + SumFunctionOnSet(PositionAt(b.note_tree), NewLeaves(a, b))
          /\ SumFunctionOnSet(PositionAt(a.note_tree), spent) \in Int
          /\ \A m : m # k =>
                SumFunctionOnSet(PositionAt(b.note_tree), MarketLive(b, m))
                   = SumFunctionOnSet(PositionAt(a.note_tree), MarketLive(a, m))
      BY <3>1, PositionMoves
    <3> QED BY <3>2 DEF k, a, b
  <2>2. \A q \in old.policies :
           SumFunctionOnSet(PositionAt(t), MarketLive(old.margin, q.market_id)) = 0
    BY DEF SoundValue
  <2>3. CASE p.market_id = policy.market_id
    <3> DEFINE a == SumFunctionOnSet(PositionAt(t), spent)
    <3>1. a \in Int /\ a = SumFunctionOnSet(PositionAt(u), added) /\ 0 - a + a = 0
      BY <2>1
    <3>2. SumFunctionOnSet(PositionAt(t), MarketLive(old.margin, policy.market_id)) = 0
      BY <2>2
    <3> HIDE DEF a
    <3> QED BY <2>1, <2>3, <3>1, <3>2 DEF a
  <2>4. CASE p.market_id # policy.market_id
    BY <2>1, <2>2, <2>4
  <2> QED BY <2>3, <2>4
<1> QED BY <1>6, <1>7, <1>8, <1>9, <1>10 DEF SoundValue

LEMMA EmptyValue ==
    ASSUME NEW ledger, ledger.margin = NewMarginState, ledger.shielded_collateral = 0,
           ledger.fee_total = 0
    PROVE  SoundValue(ledger)
<1> DEFINE tree == ledger.margin.note_tree
<1>1. LeafIndices(tree) = {}
  <2>1. tree.leaves = <<>> /\ Len(<<>>) = 0
    BY DEF NewMarginState, EmptyTree
  <2> QED BY <2>1 DEF LeafIndices
<1>2. Live(ledger.margin) = {} /\ \A m : MarketLive(ledger.margin, m) = {}
  BY <1>1 DEF Live, MarketLive
<1>3. /\ SumFunctionOnSet(CollateralAt(tree), {}) = 0
      /\ SumFunctionOnSet(PositionAt(tree), {}) = 0
  BY SumEmpty
<1> QED BY <1>1, <1>2, <1>3 DEF SoundValue, OpenedNotes

LEMMA LeafKnown ==
    ASSUME NEW ledger, SoundLedger(ledger), NEW i \in LeafIndices(ledger.margin.note_tree)
    PROVE  NoteKnown(ledger.policies, Leaf(ledger.margin.note_tree, i))
<1>1. Len(ledger.margin.note_tree.leaves) \in Nat
  BY WholeIs DEF SoundLedger, SoundMargin
<1>2. i + 1 \in 1 .. Len(ledger.margin.note_tree.leaves)
  BY <1>1 DEF LeafIndices
<1> QED BY <1>2 DEF SoundLedger, Leaf

\* A market that is registered has no notes yet.
LEMMA RegisterValue ==
    ASSUME NEW ledger, SoundLedger(ledger), SoundValue(ledger), NEW policy, IsPolicy(policy)
    PROVE  /\ SoundValue(register_market(ledger, policy).ledger)
           /\ register_market(ledger, policy).ledger.margin = ledger.margin
           /\ register_market(ledger, policy).ledger.shielded_collateral
                 = ledger.shielded_collateral
           /\ register_market(ledger, policy).ledger.fee_total = ledger.fee_total
<1>1. CASE ValidPolicy(policy) /\ ~ Registered(ledger, policy.market_id)
  <2> DEFINE more == ledger.policies \cup {policy}
             result == [policies |-> more, margin |-> ledger.margin,
                        shielded_collateral |-> ledger.shielded_collateral,
                        fee_total |-> ledger.fee_total]
             tree == ledger.margin.note_tree
  <2>1. register_market(ledger, policy).ledger = result
    BY <1>1 DEF register_market, SoundLedger, LedgerShape
  <2>2. \A p \in ledger.policies : p.market_id # policy.market_id
    BY <1>1 DEF Registered
  <2>3. /\ result.policies = more /\ result.margin = ledger.margin
        /\ result.shielded_collateral = ledger.shielded_collateral
        /\ result.fee_total = ledger.fee_total
    OBVIOUS
  <2>4. SoundPolicies(ledger.policies) /\ SoundPolicies(more)
    BY <1>1, <2>2 DEF SoundLedger, SoundPolicies
  <2> HIDE DEF result
  <2>5. ASSUME NEW i \in LeafIndices(tree)
        PROVE  /\ Leaf(tree, i).market_id # policy.market_id
               /\ PolicyOf(result, Leaf(tree, i).market_id)
                     = PolicyOf(ledger, Leaf(tree, i).market_id)
    <3>1. PICK p \in ledger.policies : p.market_id = Leaf(tree, i).market_id
      BY LeafKnown DEF NoteKnown
    <3>2. p \in result.policies
      BY <2>3
    <3>3. PolicyOf(result, p.market_id) = p /\ PolicyOf(ledger, p.market_id) = p
      BY <2>3, <2>4, <3>2, PolicyIs
    <3> QED BY <2>2, <3>1, <3>3
  <2>6. MarketLive(ledger.margin, policy.market_id) = {}
    BY <2>5 DEF MarketLive, Live
  <2>7. \A p \in result.policies :
           SumFunctionOnSet(PositionAt(tree), MarketLive(ledger.margin, p.market_id)) = 0
    BY <2>3, <2>6, SumEmpty DEF SoundValue
  <2>8. \A i \in LeafIndices(tree) :
           Margined(Opening(Leaf(tree, i)), PolicyOf(result, Leaf(tree, i).market_id))
    BY <2>5 DEF SoundValue
  <2>9. SoundValue(result)
    BY <2>3, <2>7, <2>8 DEF SoundValue
  <2> QED BY <2>1, <2>3, <2>9
<1>2. CASE ~(ValidPolicy(policy) /\ ~ Registered(ledger, policy.market_id))
  BY <1>2 DEF register_market
<1> QED BY <1>1, <1>2

\* The places list the members of a set, each once.
Places(place, n, places) ==
    /\ places = {place[i] : i \in 1 .. n}
    /\ \A i, j \in 1 .. n : place[i] = place[j] => i = j

LEMMA NewLeavesAre ==
    ASSUME NEW old, NEW new, NEW notes, NEW n \in Nat, Len(old.note_tree.leaves) \in Nat,
           Follows(new.note_tree.leaves, old.note_tree.leaves, notes, n)
    PROVE  \E place :
              /\ Places(place, n, NewLeaves(old, new))
              /\ \A i \in 1 .. n : Leaf(new.note_tree, place[i]) = notes[i]
<1> DEFINE k == Len(old.note_tree.leaves)
           m == Len(new.note_tree.leaves)
           place == [i \in 1 .. n |-> k + i - 1]
<1>1. k \in Nat /\ m = k + n /\ \A i \in 1 .. n : new.note_tree.leaves[k + i] = notes[i]
  BY DEF Follows
<1>2. \A i \in 1 .. n : place[i] = k + i - 1
  OBVIOUS
<1>3. NewLeaves(old, new) = (0 .. m - 1) \ (0 .. k - 1)
  BY DEF NewLeaves, LeafIndices
<1> HIDE DEF k, m, place
<1>4. \A i \in 1 .. n : place[i] \in NewLeaves(old, new)
  BY <1>1, <1>2, <1>3
<1>5. ASSUME NEW x \in NewLeaves(old, new) PROVE \E i \in 1 .. n : x = place[i]
  <2>1. x - k + 1 \in 1 .. n /\ k + (x - k + 1) - 1 = x
    BY <1>1, <1>3
  <2> QED BY <1>2, <2>1
<1>6. NewLeaves(old, new) = {place[i] : i \in 1 .. n}
  BY <1>4, <1>5
<1>7. \A i, j \in 1 .. n : place[i] = place[j] => i = j
  BY <1>1, <1>2
<1>8. ASSUME NEW i \in 1 .. n PROVE Leaf(new.note_tree, place[i]) = notes[i]
  <2>1. place[i] + 1 = k + i
    BY <1>1, <1>2
  <2> QED BY <1>1, <2>1 DEF Leaf
<1> QED BY <1>6, <1>7, <1>8 DEF Places

LEMMA SumSingle ==
    ASSUME NEW f, NEW x, f[x] \in Int
    PROVE  SumFunctionOnSet(f, {x}) = f[x]
<1>1. SumFunctionOnSet(f, {} \cup {x}) = f[x] + SumFunctionOnSet(f, {})
  <2>1. IsFiniteSet({}) /\ x \notin {} /\ \A y \in {} : f[y] \in Int
    BY FS_EmptySet
  <2> QED BY <2>1, SumAdded
<1>2. {} \cup {x} = {x} /\ SumFunctionOnSet(f, {}) = 0
  BY SumEmpty
<1> QED BY <1>1, <1>2

\* A deposit adds a note with the collateral that backs it and no position.
LEMMA DepositValue ==
    ASSUME NEW ledger, SoundLedger(ledger), SoundValue(ledger),
           NEW deposit, DepositAccepted(ledger, deposit),
           deposit.statement.backing_amount \in Nat
    PROVE  SoundValue(authority_deposit(ledger, deposit).ledger)
<1> DEFINE note == deposit.statement.note
           amount == deposit.statement.backing_amount
           opening == deposit.opening
           policy == PolicyOf(ledger, note.market_id)
           new == authority_deposit(ledger, deposit).ledger
<1>1. PICK margin :
              /\ new = [policies |-> ledger.policies, margin |-> margin,
                        shielded_collateral |-> ledger.shielded_collateral + amount,
                        fee_total |-> ledger.fee_total]
              /\ SoundLedger(new)
              /\ margin.spent_nullifiers = ledger.margin.spent_nullifiers
              /\ Follows(margin.note_tree.leaves, ledger.margin.note_tree.leaves,
                         <<note>>, 1)
  BY DepositSound
<1>2. /\ new.policies = ledger.policies /\ new.margin = margin
      /\ new.shielded_collateral = ledger.shielded_collateral + amount
      /\ new.fee_total = ledger.fee_total
  BY <1>1
<1>3. Len(ledger.margin.note_tree.leaves) \in Nat
  BY WholeIs DEF SoundLedger, SoundMargin
<1>4. Kept(ledger.margin.note_tree, margin.note_tree)
  <2> DEFINE t == ledger.margin.note_tree
             u == margin.note_tree
  <2>1. Len(t.leaves) \in Nat /\ Follows(u.leaves, t.leaves, <<note>>, 1) /\ 1 \in Nat
    BY <1>1, <1>3
  <2> HIDE DEF t, u
  <2>2. Kept(t, u)
    BY <2>1, NullifiersStay
  <2> QED BY <2>2 DEF t, u
<1>5. Consumed(ledger.margin, margin, {})
  BY <1>1, <1>4 DEF Consumed
<1>6. /\ policy \in ledger.policies /\ policy.market_id = note.market_id
  BY Zenon DEF DepositAccepted, Registered, PolicyOf
<1>7. IsPolicy(policy) /\ ValidPolicy(policy)
  BY <1>6 DEF SoundLedger, SoundPolicies
<1>8. /\ note.commitment = Commitment(opening, note.market_id, note.collateral_asset)
      /\ opening.collateral = amount /\ opening.position = 0 /\ opening.leverage = 1
  BY DEF DepositAccepted, DepositProofVerifies
<1>9. Opening(note) = opening
  BY <1>8 DEF Opening, Commitment
<1>10. IsOpening(opening) /\ Margined(opening, policy)
  <2>1. IsOpening(opening)
    BY <1>8 DEF IsOpening
  <2> HIDE DEF opening, policy
  <2> QED BY <1>7, <1>8, <2>1, FlatMargins
<1> DEFINE added == NewLeaves(ledger.margin, margin)
<1>11. PICK x : added = {x} /\ Leaf(margin.note_tree, x) = note
  <2>1. PICK place : /\ Places(place, 1, added)
                     /\ \A i \in 1 .. 1 : Leaf(margin.note_tree, place[i]) = <<note>>[i]
    BY <1>1, <1>3, NewLeavesAre
  <2>2. 1 .. 1 = {1} /\ <<note>>[1] = note
    OBVIOUS
  <2>3. added = {place[1]} /\ Leaf(margin.note_tree, place[1]) = note
    BY <2>1, <2>2 DEF Places
  <2> QED BY <2>3
<1>12. x \in LeafIndices(margin.note_tree)
  BY <1>11 DEF NewLeaves
<1>13. /\ CollateralAt(margin.note_tree)[x] = amount
       /\ PositionAt(margin.note_tree)[x] = 0
  BY <1>8, <1>9, <1>11, <1>12 DEF CollateralAt, PositionAt
<1> HIDE DEF added, new, amount, note, opening, policy
<1>14. /\ SumFunctionOnSet(CollateralAt(margin.note_tree), added) = amount
       /\ SumFunctionOnSet(PositionAt(margin.note_tree), added) = 0
  <2>1. amount \in Int /\ 0 \in Int
    BY DEF amount
  <2> QED BY <1>11, <1>13, <2>1, SumSingle
<1>15. /\ SumFunctionOnSet(CollateralAt(ledger.margin.note_tree), {}) = 0
       /\ SumFunctionOnSet(PositionAt(ledger.margin.note_tree), {}) = 0
  BY SumEmpty
<1>16. amount \in Nat /\ ledger.shielded_collateral \in Nat /\ ledger.fee_total \in Nat
  BY DEF SoundValue, amount
<1>17. /\ new.shielded_collateral \in Nat /\ new.fee_total \in Nat
       /\ new.shielded_collateral = ledger.shielded_collateral - 0 + amount
  BY <1>2, <1>16
<1>18. /\ \A i \in added : Leaf(margin.note_tree, i).market_id = policy.market_id
       /\ \A i \in added : IsOpening(Opening(Leaf(margin.note_tree, i)))
       /\ \A i \in added : Margined(Opening(Leaf(margin.note_tree, i)), policy)
  BY <1>6, <1>9, <1>10, <1>11
<1>19. added = NewLeaves(ledger.margin, margin)
  BY DEF added
<1>20. /\ SoundLedger(new) /\ new.policies = ledger.policies
       /\ Consumed(ledger.margin, new.margin, {})
       /\ added = NewLeaves(ledger.margin, new.margin)
       /\ new.shielded_collateral =
             ledger.shielded_collateral
                - SumFunctionOnSet(CollateralAt(ledger.margin.note_tree), {})
                + SumFunctionOnSet(CollateralAt(new.margin.note_tree), added)
       /\ SumFunctionOnSet(PositionAt(ledger.margin.note_tree), {})
             = SumFunctionOnSet(PositionAt(new.margin.note_tree), added)
  BY <1>1, <1>2, <1>5, <1>14, <1>15, <1>17, <1>19
<1>21. /\ \A i \in added : Leaf(new.margin.note_tree, i).market_id = policy.market_id
       /\ \A i \in added : IsOpening(Opening(Leaf(new.margin.note_tree, i)))
       /\ \A i \in added : Margined(Opening(Leaf(new.margin.note_tree, i)), policy)
  BY <1>2, <1>18
<1>22. SoundValue(new)
  BY <1>6, <1>17, <1>20, <1>21, ValueMoves
<1> QED BY <1>22 DEF new

\* What the proof of an accepted spend says of each input and each output.
LEMMA InputsProven ==
    ASSUME NEW ledger, NEW spend, IsSpend(spend), LedgerSpendAccepted(ledger, spend),
           NEW i \in 1 .. Len(spend.proof.inputs)
    PROVE  /\ spend.proof.inputs[i].note.market_id = spend.statement.market_id
           /\ spend.proof.inputs[i].opening.owner \in Signing
           /\ IsOpening(spend.proof.inputs[i].opening)
<1> DEFINE statement == spend.statement
           witness == spend.proof
           inputs == witness.inputs
           policy == PolicyOf(ledger, statement.market_id)
           input == inputs[i]
<1>1. DOMAIN inputs = 1 .. Len(inputs)
  BY ListIs DEF IsSpend
<1>2. input \in Range(inputs)
  BY <1>1 DEF Range
<1>3. IsOpening(input.opening) /\ input.authorization_signature.signer \in Signing
  BY <1>2 DEF IsSpend
<1>4. SpendProofVerifies(statement, policy, witness)
  BY DEF LedgerSpendAccepted, SpendAccepted
<1>5. InputProven(statement, input, statement.nullifiers[i])
  BY <1>1, <1>4 DEF SpendProofVerifies
<1> HIDE DEF input
<1>6. /\ input.note.market_id = statement.market_id
      /\ verify_owner_authorization(input.opening.owner, statement,
                                    input.authorization_signature)
  BY <1>5, Zenon DEF InputProven
<1>7. input.authorization_signature.signer = input.opening.owner
  BY <1>6 DEF verify_owner_authorization
<1> QED BY <1>3, <1>6, <1>7 DEF input

LEMMA OutputsProven ==
    ASSUME NEW ledger, SoundLedger(ledger), NEW spend, IsSpend(spend),
           LedgerSpendAccepted(ledger, spend),
           NEW i \in 1 .. Len(spend.statement.output_commitments)
    PROVE  /\ SpendNotes(spend.statement)[i].market_id = spend.statement.market_id
           /\ Opening(SpendNotes(spend.statement)[i]) = spend.proof.output_openings[i]
           /\ IsOpening(spend.proof.output_openings[i])
           /\ Margined(spend.proof.output_openings[i],
                       PolicyOf(ledger, spend.statement.market_id))
<1> DEFINE statement == spend.statement
           witness == spend.proof
           outputs == witness.output_openings
           policy == PolicyOf(ledger, statement.market_id)
           note == SpendNotes(statement)[i]
           opening == outputs[i]
           commitment == statement.output_commitments[i]
<1>1. DOMAIN outputs = 1 .. Len(outputs)
  BY ListIs DEF IsSpend
<1>2. SpendProofVerifies(statement, policy, witness)
  BY DEF LedgerSpendAccepted, SpendAccepted
<1>3. Len(outputs) = Len(statement.output_commitments)
  BY <1>2 DEF SpendProofVerifies
<1>4. opening \in Range(outputs)
  BY <1>1, <1>3 DEF Range
<1>5. IsOpening(opening)
  BY <1>4 DEF IsSpend
<1>6. OutputProven(statement, policy, opening, commitment)
  BY <1>1, <1>2, <1>3 DEF SpendProofVerifies
<1>7. note = PublicNote(statement.market_id, statement.collateral_asset, commitment)
  BY SpendNotesAre DEF IsSpend
<1>8. Registered(ledger, statement.market_id)
  BY DEF LedgerSpendAccepted
<1>9. policy \in ledger.policies
  BY <1>8, Zenon DEF Registered, PolicyOf
<1>10. IsPolicy(policy) /\ ValidPolicy(policy)
  BY <1>9 DEF SoundLedger, SoundPolicies
<1> HIDE DEF opening, commitment, policy, note
<1>11. /\ commitment = Commitment(opening, statement.market_id, statement.collateral_asset)
       /\ LeverageAllowed(policy, opening)
       /\ opening.collateral >= required_margin(policy, opening)
  BY <1>6 DEF OutputProven
<1>12. Margined(opening, policy)
  BY <1>5, <1>10, <1>11, RequiredMargins
<1>13. note.market_id = statement.market_id /\ Opening(note) = opening
  BY <1>7, <1>11 DEF PublicNote, Opening, Commitment
<1> QED BY <1>5, <1>12, <1>13 DEF opening, policy, note

\* What a spend consumes are notes nobody has spent, each once.
LEMMA SpendConsumes ==
    ASSUME NEW ledger, SoundLedger(ledger), NEW spend, IsSpend(spend),
           LedgerSpendAccepted(ledger, spend), NEW margin,
           Kept(ledger.margin.note_tree, margin.note_tree),
           margin.spent_nullifiers = ledger.margin.spent_nullifiers
                                       \cup Range(spend.statement.nullifiers),
           NEW m, m = Len(spend.proof.inputs)
    PROVE  \E index, spent :
              /\ Places(index, m, spent)
              /\ Consumed(ledger.margin, margin, spent)
              /\ \A i \in 1 .. m : index[i] \in LeafIndices(ledger.margin.note_tree)
              /\ \A i \in 1 .. m : Leaf(ledger.margin.note_tree, index[i])
                                      = spend.proof.inputs[i].note
              /\ \A i \in 1 .. m : Opening(Leaf(ledger.margin.note_tree, index[i]))
                                      = spend.proof.inputs[i].opening
<1> DEFINE index == [i \in 1 .. m |-> InputIndex(spend, i)]
           spent == {index[i] : i \in 1 .. m}
           t == ledger.margin.note_tree
           nullifiers == spend.statement.nullifiers
           old == ledger.margin.spent_nullifiers
<1>1. /\ m \in Nat /\ DOMAIN nullifiers = 1 .. m
      /\ \A i \in 1 .. m : Consumes(t, spend, i)
  BY InputsAre
<1>2. /\ IsInjective(nullifiers)
      /\ Range(nullifiers) \cap old = {}
  BY DEF LedgerSpendAccepted, SpendAccepted, validate_public
<1>3. \A i \in 1 .. m : index[i] = InputIndex(spend, i)
  OBVIOUS
<1> HIDE DEF index
<1>4. /\ \A i \in 1 .. m : index[i] \in LeafIndices(t)
      /\ \A i \in 1 .. m : Leaf(t, index[i]) = spend.proof.inputs[i].note
      /\ \A i \in 1 .. m : Opening(Leaf(t, index[i])) = spend.proof.inputs[i].opening
      /\ \A i \in 1 .. m : nullifiers[i] = NullifierAt(t, index[i])
  BY <1>1, <1>3 DEF Consumes
<1>5. \A x : x \in Range(nullifiers) <=> \E i \in 1 .. m : x = nullifiers[i]
  BY <1>1 DEF Range
<1> HIDE DEF nullifiers, old, t
<1>6. ASSUME NEW i \in 1 .. m, NEW j \in 1 .. m, index[i] = index[j] PROVE i = j
  <2>1. nullifiers[i] = NullifierAt(t, index[i]) /\ nullifiers[j] = NullifierAt(t, index[j])
    BY <1>4
  <2>2. nullifiers[i] = nullifiers[j]
    BY <1>6, <2>1
  <2> QED BY <1>1, <1>2, <2>2 DEF IsInjective
<1>7. \A x : x \in Range(nullifiers) <=> \E j \in spent : x = NullifierAt(t, j)
  <2>1. \A j : j \in spent <=> \E i \in 1 .. m : j = index[i]
    OBVIOUS
  <2>2. \A i \in 1 .. m : index[i] \in spent
    BY <2>1
  <2>3. ASSUME NEW x \in Range(nullifiers) PROVE \E j \in spent : x = NullifierAt(t, j)
    <3>1. PICK i \in 1 .. m : x = nullifiers[i]
      BY <1>5
    <3>2. x = NullifierAt(t, index[i]) /\ index[i] \in spent
      BY <1>4, <2>2, <3>1
    <3> QED BY <3>2
  <2>4. ASSUME NEW j \in spent PROVE NullifierAt(t, j) \in Range(nullifiers)
    <3>1. PICK i \in 1 .. m : j = index[i]
      BY <2>1
    <3>2. nullifiers[i] = NullifierAt(t, j)
      BY <1>4, <3>1
    <3> QED BY <1>5, <3>2
  <2> QED BY <2>3, <2>4
<1>8. spent \subseteq Live(ledger.margin)
  <2>1. \A j \in spent : j \in LeafIndices(t)
    BY <1>4
  <2>2. \A j \in spent : NullifierAt(t, j) \notin old
    BY <1>2, <1>7
  <2> QED BY <2>1, <2>2 DEF Live, t, old
<1>9. Consumed(ledger.margin, margin, spent)
  BY <1>7, <1>8 DEF Consumed, t, nullifiers, old
<1>10. Places(index, m, spent)
  BY <1>6 DEF Places
<1> HIDE DEF spent
<1> QED BY <1>4, <1>9, <1>10 DEF t

\* A list of openings sums up to the sums over the leaves that hold them.
LEMMA OpeningSums ==
    ASSUME NEW tree, NEW openings, NEW n \in Nat, DOMAIN openings = 1 .. n,
           NEW place, NEW places, Places(place, n, places),
           \A i \in 1 .. n : place[i] \in LeafIndices(tree),
           \A i \in 1 .. n : Opening(Leaf(tree, place[i])) = openings[i],
           \A i \in 1 .. n : IsOpening(openings[i])
    PROVE  /\ CollateralOf(openings) = SumFunctionOnSet(CollateralAt(tree), places)
           /\ PositionOf(openings) = SumFunctionOnSet(PositionAt(tree), places)
<1> DEFINE c == [i \in 1 .. n |-> openings[i].collateral]
           p == [i \in 1 .. n |-> openings[i].position]
           f == CollateralAt(tree)
           g == PositionAt(tree)
<1>1. /\ CollateralOf(openings) = SumFunctionOnSet(c, 1 .. n)
      /\ PositionOf(openings) = SumFunctionOnSet(p, 1 .. n)
  BY DEF CollateralOf, PositionOf, SumFunction
<1>2. IsFiniteSet(1 .. n)
  BY FS_Interval
<1>3. \A i \in 1 .. n : c[i] \in Int /\ p[i] \in Int
  BY DEF IsOpening
<1>4. \A i \in 1 .. n : f[place[i]] = c[i] /\ g[place[i]] = p[i]
  BY DEF CollateralAt, PositionAt
<1> HIDE DEF c, p, f, g
<1> DEFINE I == 1 .. n
<1>5. /\ IsFiniteSet(I) /\ \A i, j \in I : place[i] = place[j] => i = j
      /\ \A i \in I : f[place[i]] = c[i] /\ c[i] \in Int
      /\ \A i \in I : g[place[i]] = p[i] /\ p[i] \in Int
      /\ places = {place[i] : i \in I}
  BY <1>2, <1>3, <1>4 DEF Places
<1> HIDE DEF I
<1>6. SumFunctionOnSet(f, {place[i] : i \in I}) = SumFunctionOnSet(c, I)
  BY <1>5, SumMapped
<1>7. SumFunctionOnSet(g, {place[i] : i \in I}) = SumFunctionOnSet(p, I)
  BY <1>5, SumMapped
<1> QED BY <1>1, <1>5, <1>6, <1>7 DEF f, g, I

\* A spend moves value between notes and pays the fee, within one market.
LEMMA SpendValue ==
    ASSUME NEW ledger, SoundLedger(ledger), SoundValue(ledger),
           NEW spend, IsSpend(spend), LedgerSpendAccepted(ledger, spend)
    PROVE  SoundValue(ledger_spend(ledger, spend).ledger)
<1> DEFINE statement == spend.statement
           inputs == spend.proof.inputs
           outputs == spend.proof.output_openings
           policy == PolicyOf(ledger, statement.market_id)
           new == ledger_spend(ledger, spend).ledger
           fee == statement.fee
           notes == SpendNotes(statement)
           n == Len(statement.output_commitments)
           m == Len(inputs)
           t == ledger.margin.note_tree
           opened == [i \in DOMAIN inputs |-> inputs[i].opening]
<1>1. PICK margin :
              /\ new = [policies |-> ledger.policies, margin |-> margin,
                        shielded_collateral |-> ledger.shielded_collateral - fee,
                        fee_total |-> ledger.fee_total + fee]
              /\ SoundLedger(new)
              /\ margin.spent_nullifiers = ledger.margin.spent_nullifiers
                                             \cup Range(statement.nullifiers)
              /\ Follows(margin.note_tree.leaves, t.leaves, notes, n)
  BY SpendSound
<1> DEFINE u == margin.note_tree
           added == NewLeaves(ledger.margin, margin)
<1>2. /\ new.policies = ledger.policies /\ new.margin = margin
      /\ new.shielded_collateral = ledger.shielded_collateral - fee
      /\ new.fee_total = ledger.fee_total + fee
  BY <1>1
<1>3. /\ Len(t.leaves) \in Nat /\ n \in Nat /\ m \in Nat /\ DOMAIN inputs = 1 .. m
      /\ fee \in Nat
  <2>1. Len(t.leaves) \in Nat
    BY WholeIs DEF SoundLedger, SoundMargin
  <2>2. n \in Nat /\ m \in Nat /\ DOMAIN inputs = 1 .. m /\ fee \in Nat
    BY ListIs DEF IsSpend
  <2> QED BY <2>1, <2>2
<1>4. Kept(t, u)
  <2>1. Len(t.leaves) \in Nat /\ Follows(u.leaves, t.leaves, notes, n) /\ n \in Nat
    BY <1>1, <1>3
  <2> HIDE DEF t, u, notes, n
  <2> QED BY <2>1, NullifiersStay
<1>6. PICK index, spent :
              /\ Places(index, m, spent)
              /\ Consumed(ledger.margin, margin, spent)
              /\ \A i \in 1 .. m : index[i] \in LeafIndices(t)
              /\ \A i \in 1 .. m : Leaf(t, index[i]) = inputs[i].note
              /\ \A i \in 1 .. m : Opening(Leaf(t, index[i])) = inputs[i].opening
  <2>1. /\ Kept(ledger.margin.note_tree, margin.note_tree)
        /\ margin.spent_nullifiers = ledger.margin.spent_nullifiers
                                        \cup Range(spend.statement.nullifiers)
        /\ m = Len(spend.proof.inputs)
    BY <1>1, <1>4
  <2> HIDE DEF m
  <2>2. \E index, spent :
           /\ Places(index, m, spent)
           /\ Consumed(ledger.margin, margin, spent)
           /\ \A i \in 1 .. m : index[i] \in LeafIndices(ledger.margin.note_tree)
           /\ \A i \in 1 .. m : Leaf(ledger.margin.note_tree, index[i])
                                   = spend.proof.inputs[i].note
           /\ \A i \in 1 .. m : Opening(Leaf(ledger.margin.note_tree, index[i]))
                                   = spend.proof.inputs[i].opening
    BY <2>1, SpendConsumes
  <2> QED BY <2>2
<1>7. policy \in ledger.policies /\ policy.market_id = statement.market_id
  BY Zenon DEF LedgerSpendAccepted, Registered, PolicyOf
<1>8. \A i \in spent : Leaf(t, i).market_id = policy.market_id
  <2>1. \A i \in 1 .. m : inputs[i].note.market_id = statement.market_id
    BY InputsProven
  <2> HIDE DEF m, t, inputs, policy
  <2>2. spent = {index[i] : i \in 1 .. m}
    BY <1>6 DEF Places
  <2> QED BY <1>6, <1>7, <2>1, <2>2
<1>9. \A i \in spent : Opening(Leaf(t, i)).owner \in Signing
  <2>1. \A i \in 1 .. m : inputs[i].opening.owner \in Signing
    BY InputsProven
  <2> HIDE DEF m, t, inputs
  <2>2. spent = {index[i] : i \in 1 .. m}
    BY <1>6 DEF Places
  <2> QED BY <1>6, <2>1, <2>2
<1>10. PICK place : /\ Places(place, n, added)
                    /\ \A i \in 1 .. n : Leaf(u, place[i]) = notes[i]
  <2> DEFINE old == ledger.margin
  <2>1. n \in Nat /\ Len(old.note_tree.leaves) \in Nat
    BY <1>3
  <2>2. Follows(margin.note_tree.leaves, old.note_tree.leaves, notes, n)
    BY <1>1
  <2> HIDE DEF notes, n, old
  <2>3. \E place :
           /\ Places(place, n, NewLeaves(old, margin))
           /\ \A i \in 1 .. n : Leaf(margin.note_tree, place[i]) = notes[i]
    BY <2>1, <2>2, NewLeavesAre
  <2> QED BY <2>3 DEF old
<1>11. /\ \A i \in 1 .. n : notes[i].market_id = statement.market_id
       /\ \A i \in 1 .. n : Opening(notes[i]) = outputs[i]
       /\ \A i \in 1 .. n : IsOpening(outputs[i])
       /\ \A i \in 1 .. n : Margined(outputs[i], policy)
  BY OutputsProven
<1>12. /\ CollateralOf(opened) = CollateralOf(outputs) + fee
       /\ PositionOf(opened) = PositionOf(outputs)
       /\ DOMAIN outputs = 1 .. n
       /\ ledger.shielded_collateral >= fee
  <2>1. SpendProofVerifies(statement, policy, spend.proof)
    BY DEF LedgerSpendAccepted, SpendAccepted
  <2>2. /\ CollateralOf(opened) = CollateralOf(outputs) + fee
        /\ PositionOf(opened) = PositionOf(outputs)
        /\ Len(outputs) = n
    BY <2>1 DEF SpendProofVerifies
  <2>3. DOMAIN outputs = 1 .. Len(outputs)
    BY ListIs DEF IsSpend
  <2> QED BY <2>2, <2>3 DEF LedgerSpendAccepted
<1>13. /\ DOMAIN opened = 1 .. m
       /\ \A i \in 1 .. m : opened[i] = inputs[i].opening
       /\ \A i \in 1 .. m : IsOpening(opened[i])
  <2>1. \A i \in 1 .. m : IsOpening(inputs[i].opening)
    BY InputsProven
  <2> QED BY <1>3, <2>1
<1> HIDE DEF opened, policy, notes, n, m, inputs, outputs, t, u, new, added
<1>14. /\ CollateralOf(opened) = SumFunctionOnSet(CollateralAt(t), spent)
       /\ PositionOf(opened) = SumFunctionOnSet(PositionAt(t), spent)
  <2>1. \A i \in 1 .. m : Opening(Leaf(t, index[i])) = opened[i]
    BY <1>6, <1>13
  <2>2. /\ m \in Nat /\ DOMAIN opened = 1 .. m
        /\ Places(index, m, spent)
        /\ \A i \in 1 .. m : index[i] \in LeafIndices(t)
        /\ \A i \in 1 .. m : IsOpening(opened[i])
    BY <1>3, <1>6, <1>13
  <2>3. CollateralOf(opened) = SumFunctionOnSet(CollateralAt(t), spent)
    BY <2>1, <2>2, OpeningSums
  <2>4. PositionOf(opened) = SumFunctionOnSet(PositionAt(t), spent)
    BY <2>1, <2>2, OpeningSums
  <2> QED BY <2>3, <2>4
<1>a. added = {place[i] : i \in 1 .. n}
  BY <1>10 DEF Places
<1>15. \A i \in 1 .. n : place[i] \in LeafIndices(u)
  <2>1. added \subseteq LeafIndices(u)
    BY DEF added, NewLeaves, u
  <2> QED BY <1>a, <2>1
<1>16. /\ CollateralOf(outputs) = SumFunctionOnSet(CollateralAt(u), added)
       /\ PositionOf(outputs) = SumFunctionOnSet(PositionAt(u), added)
  <2>1. \A i \in 1 .. n : Opening(Leaf(u, place[i])) = outputs[i]
    BY <1>10, <1>11
  <2>2. /\ n \in Nat /\ DOMAIN outputs = 1 .. n
        /\ Places(place, n, added)
        /\ \A i \in 1 .. n : place[i] \in LeafIndices(u)
        /\ \A i \in 1 .. n : IsOpening(outputs[i])
    BY <1>3, <1>10, <1>11, <1>12, <1>15
  <2>3. CollateralOf(outputs) = SumFunctionOnSet(CollateralAt(u), added)
    BY <2>1, <2>2, OpeningSums
  <2>4. PositionOf(outputs) = SumFunctionOnSet(PositionAt(u), added)
    BY <2>1, <2>2, OpeningSums
  <2> QED BY <2>3, <2>4
<1> DEFINE into == SumFunctionOnSet(CollateralAt(t), spent)
           from == SumFunctionOnSet(CollateralAt(u), added)
<1>17. OpenedNotes(u)
  <2>1. \A i \in LeafIndices(u) : i \in LeafIndices(t) \/ i \in added
    BY DEF added, NewLeaves, t, u
  <2>2. \A i \in LeafIndices(t) : IsOpening(Opening(Leaf(t, i))) /\ Leaf(u, i) = Leaf(t, i)
    BY <1>4 DEF SoundValue, OpenedNotes, Kept, t
  <2>3. \A i \in added : IsOpening(Opening(Leaf(u, i)))
    BY <1>10, <1>11, <1>a
  <2> QED BY <2>1, <2>2, <2>3 DEF OpenedNotes
<1>18. into \in Int /\ from \in Int
  <2>1. SoundMargin(ledger.margin) /\ SoundMargin(margin)
    BY <1>1, <1>2 DEF SoundLedger
  <2>2. into \in Int
    BY <1>6, <1>17, <2>1, CollateralMoves DEF t, u
  <2>3. from \in Int
    BY <1>6, <1>17, <2>1, CollateralMoves DEF t, u, added
  <2> QED BY <2>2, <2>3
<1>19. /\ into = from + fee
       /\ SumFunctionOnSet(PositionAt(t), spent) = SumFunctionOnSet(PositionAt(u), added)
  BY <1>12, <1>14, <1>16
<1>20. ledger.shielded_collateral \in Nat /\ ledger.fee_total \in Nat
  BY DEF SoundValue
<1> HIDE DEF into, from
<1>21. /\ new.shielded_collateral \in Nat /\ new.fee_total \in Nat
       /\ new.shielded_collateral = ledger.shielded_collateral - into + from
  <2> DEFINE a == ledger.shielded_collateral
             b == ledger.fee_total
  <2>1. /\ a \in Nat /\ b \in Nat /\ fee \in Nat /\ into \in Int /\ from \in Int
        /\ into = from + fee /\ a >= fee
        /\ new.shielded_collateral = a - fee /\ new.fee_total = b + fee
    BY <1>2, <1>3, <1>12, <1>18, <1>19, <1>20
  <2> HIDE DEF a, b, fee
  <2>2. a - fee \in Nat /\ b + fee \in Nat /\ a - fee = a - into + from
    BY <2>1
  <2>3. new.shielded_collateral = a - into + from
    BY <2>1, <2>2
  <2> QED BY <2>1, <2>2, <2>3 DEF a
<1>22. /\ \A i \in added : Leaf(u, i).market_id = policy.market_id
       /\ \A i \in added : IsOpening(Opening(Leaf(u, i)))
       /\ \A i \in added : Margined(Opening(Leaf(u, i)), policy)
  BY <1>7, <1>10, <1>11, <1>a
<1>23. /\ SoundLedger(new) /\ Consumed(ledger.margin, new.margin, spent)
       /\ added = NewLeaves(ledger.margin, new.margin)
       /\ u = new.margin.note_tree /\ t = ledger.margin.note_tree
  BY <1>1, <1>2, <1>6 DEF added, u, t
<1>24. SoundValue(new)
  <2>1. new.shielded_collateral =
           ledger.shielded_collateral
              - SumFunctionOnSet(CollateralAt(ledger.margin.note_tree), spent)
              + SumFunctionOnSet(CollateralAt(new.margin.note_tree), added)
    BY <1>21, <1>23 DEF into, from
  <2>2. SumFunctionOnSet(PositionAt(ledger.margin.note_tree), spent)
           = SumFunctionOnSet(PositionAt(new.margin.note_tree), added)
    BY <1>19, <1>23
  <2>3. /\ \A i \in spent : Leaf(ledger.margin.note_tree, i).market_id = policy.market_id
        /\ \A i \in spent : Opening(Leaf(ledger.margin.note_tree, i)).owner \in Signing
    BY <1>8, <1>9, <1>23
  <2>4. /\ \A i \in added : Leaf(new.margin.note_tree, i).market_id = policy.market_id
        /\ \A i \in added : IsOpening(Opening(Leaf(new.margin.note_tree, i)))
        /\ \A i \in added : Margined(Opening(Leaf(new.margin.note_tree, i)), policy)
    BY <1>22, <1>23
  <2> QED BY <1>2, <1>7, <1>21, <1>23, <2>1, <2>2, <2>3, <2>4, ValueMoves
<1> QED BY <1>24 DEF new

LEMMA ContainsLeaf ==
    ASSUME NEW tree, Built(tree), NEW c
    PROVE  contains(tree, c) <=> \E i \in LeafIndices(tree) : Leaf(tree, i).commitment = c
<1>1. DOMAIN tree.leaves = 1 .. Len(tree.leaves) /\ Len(tree.leaves) \in Nat
  BY WholeIs
<1>2. ASSUME contains(tree, c)
      PROVE  \E i \in LeafIndices(tree) : Leaf(tree, i).commitment = c
  <2>1. PICK j \in 1 .. Len(tree.leaves) : tree.leaves[j].commitment = c
    BY <1>1, <1>2 DEF contains
  <2>2. j - 1 \in LeafIndices(tree) /\ (j - 1) + 1 = j
    BY <1>1, <2>1 DEF LeafIndices
  <2>3. Leaf(tree, j - 1) = tree.leaves[j]
    BY <2>2 DEF Leaf
  <2> QED BY <2>1, <2>2, <2>3
<1>3. ASSUME NEW i \in LeafIndices(tree), Leaf(tree, i).commitment = c
      PROVE  contains(tree, c)
  <2>1. i + 1 \in 1 .. Len(tree.leaves)
    BY <1>1 DEF LeafIndices
  <2> QED BY <1>1, <1>3, <2>1 DEF contains, Leaf
<1> QED BY <1>2, <1>3

LEMMA ContainsKept ==
    ASSUME NEW old, NEW new, Built(old), Built(new), Kept(old, new),
           NEW c, contains(old, c)
    PROVE  contains(new, c)
<1>1. PICK i \in LeafIndices(old) : Leaf(old, i).commitment = c
  BY ContainsLeaf
<1>2. i \in LeafIndices(new) /\ Leaf(new, i).commitment = c
  BY <1>1 DEF Kept
<1> QED BY <1>2, ContainsLeaf

\* The notes of every deposit that was accepted are in the tree, and their
\* backing is what the ledger accounts for.
BackingOf(statements) ==
    SumFunction([d \in statements |-> d.backing_amount])

SoundDeposits(ledger, statements) ==
    /\ IsFiniteSet(statements)
    /\ \A d \in statements : d.chain_domain = ChainDomain
    /\ \A d \in statements : d.ledger_id = LedgerId
    /\ \A d \in statements : d.backing_amount \in Nat
    /\ \A d \in statements : contains(ledger.margin.note_tree, d.note.commitment)
    /\ ledger.shielded_collateral + ledger.fee_total = BackingOf(statements)

LEMMA BackingAdded ==
    ASSUME NEW statements, IsFiniteSet(statements),
           \A d \in statements : d.backing_amount \in Nat,
           NEW statement, statement \notin statements, statement.backing_amount \in Nat
    PROVE  /\ BackingOf(statements \cup {statement})
                 = BackingOf(statements) + statement.backing_amount
           /\ BackingOf(statements) \in Int
<1> DEFINE more == statements \cup {statement}
           f == [d \in statements |-> d.backing_amount]
           g == [d \in more |-> d.backing_amount]
<1>1. /\ BackingOf(statements) = SumFunctionOnSet(f, statements)
      /\ BackingOf(more) = SumFunctionOnSet(g, more)
  BY DEF BackingOf, SumFunction
<1>2. /\ \A d \in statements : f[d] = g[d] /\ f[d] \in Int /\ g[d] \in Int
      /\ g[statement] = statement.backing_amount /\ g[statement] \in Int
  OBVIOUS
<1> HIDE DEF f, g
<1>3. SumFunctionOnSet(g, statements \cup {statement})
         = g[statement] + SumFunctionOnSet(g, statements)
  BY <1>2, SumAdded
<1>4. SumFunctionOnSet(f, statements) = SumFunctionOnSet(g, statements)
  BY <1>2, SumSame
<1>5. SumFunctionOnSet(f, statements) \in Int
  BY <1>2, SumIsInt
<1> QED BY <1>1, <1>2, <1>3, <1>4, <1>5

LEMMA DepositBacked ==
    ASSUME NEW ledger, SoundLedger(ledger), SoundValue(ledger),
           NEW deposit, DepositAccepted(ledger, deposit),
           deposit.statement.backing_amount \in Nat,
           NEW statements, SoundDeposits(ledger, statements)
    PROVE  /\ SoundDeposits(authority_deposit(ledger, deposit).ledger,
                            statements \cup {deposit.statement})
           /\ authority_deposit(ledger, deposit).ledger.shielded_collateral
                 = ledger.shielded_collateral + deposit.statement.backing_amount
<1> DEFINE statement == deposit.statement
           note == statement.note
           amount == statement.backing_amount
           new == authority_deposit(ledger, deposit).ledger
           t == ledger.margin.note_tree
           more == statements \cup {statement}
<1>1. PICK margin :
              /\ new = [policies |-> ledger.policies, margin |-> margin,
                        shielded_collateral |-> ledger.shielded_collateral + amount,
                        fee_total |-> ledger.fee_total]
              /\ SoundLedger(new)
              /\ Follows(margin.note_tree.leaves, t.leaves, <<note>>, 1)
  BY DepositSound
<1> DEFINE u == margin.note_tree
<1>2. /\ new.margin = margin /\ new.shielded_collateral = ledger.shielded_collateral + amount
      /\ new.fee_total = ledger.fee_total
  BY <1>1
<1>3. Built(t) /\ Built(u) /\ Len(t.leaves) \in Nat /\ DOMAIN u.leaves = 1 .. Len(u.leaves)
  <2>1. Built(t) /\ Built(u)
    BY <1>1, <1>2 DEF SoundLedger, SoundMargin
  <2> QED BY <2>1, WholeIs
<1>4. Kept(t, u)
  <2>1. Len(t.leaves) \in Nat /\ Follows(u.leaves, t.leaves, <<note>>, 1) /\ 1 \in Nat
    BY <1>1, <1>3
  <2> HIDE DEF t, u
  <2> QED BY <2>1, NullifiersStay
<1>5. contains(u, note.commitment)
  <2> DEFINE k == Len(t.leaves)
  <2>1. /\ Len(u.leaves) = k + 1 /\ k \in Nat
        /\ \A i \in 1 .. 1 : u.leaves[k + i] = <<note>>[i]
    BY <1>1, <1>3 DEF Follows
  <2>2. 1 \in 1 .. 1 /\ <<note>>[1] = note
    OBVIOUS
  <2>3. u.leaves[k + 1] = note
    BY <2>1, <2>2
  <2>4. k + 1 \in DOMAIN u.leaves
    BY <1>3, <2>1
  <2> QED BY <2>3, <2>4 DEF contains
<1>6. /\ statement.chain_domain = ChainDomain /\ statement.ledger_id = LedgerId
      /\ ~ contains(t, note.commitment)
  BY DEF DepositAccepted, CanAppend
<1>7. statement \notin statements
  BY <1>6 DEF SoundDeposits
<1>8. \A d \in statements : contains(u, d.note.commitment)
  <2>1. \A d \in statements : contains(t, d.note.commitment)
    BY DEF SoundDeposits
  <2> HIDE DEF t, u
  <2> QED BY <1>3, <1>4, <2>1, ContainsKept
<1>9. /\ BackingOf(more) = BackingOf(statements) + amount
      /\ BackingOf(statements) \in Int
  BY <1>7, BackingAdded DEF SoundDeposits
<1>10. new.shielded_collateral + new.fee_total = BackingOf(more)
  <2> DEFINE a == ledger.shielded_collateral
             b == ledger.fee_total
             c == BackingOf(statements)
  <2>1. a \in Nat /\ b \in Nat /\ amount \in Nat /\ c \in Int /\ a + b = c
    BY <1>9 DEF SoundValue, SoundDeposits
  <2>2. BackingOf(more) = c + amount /\ new.shielded_collateral = a + amount /\ new.fee_total = b
    BY <1>2, <1>9
  <2> HIDE DEF a, b, c, amount, new, more
  <2> QED BY <2>1, <2>2
<1>11. IsFiniteSet(more)
  BY FS_AddElement DEF SoundDeposits
<1> HIDE DEF new
<1>12. /\ \A d \in more : d.chain_domain = ChainDomain
       /\ \A d \in more : d.ledger_id = LedgerId
       /\ \A d \in more : d.backing_amount \in Nat
       /\ \A d \in more : contains(new.margin.note_tree, d.note.commitment)
  BY <1>2, <1>5, <1>6, <1>8 DEF SoundDeposits
<1>13. SoundDeposits(new, more)
  <2> HIDE DEF more
  <2> QED BY <1>10, <1>11, <1>12 DEF SoundDeposits
<1> QED BY <1>2, <1>13 DEF new

LEMMA SpendBacked ==
    ASSUME NEW ledger, SoundLedger(ledger), SoundValue(ledger),
           NEW spend, IsSpend(spend), LedgerSpendAccepted(ledger, spend),
           NEW statements, SoundDeposits(ledger, statements)
    PROVE  /\ SoundDeposits(ledger_spend(ledger, spend).ledger, statements)
           /\ ledger_spend(ledger, spend).ledger.shielded_collateral
                 = ledger.shielded_collateral - spend.statement.fee
<1> DEFINE statement == spend.statement
           fee == statement.fee
           notes == SpendNotes(statement)
           n == Len(statement.output_commitments)
           new == ledger_spend(ledger, spend).ledger
           t == ledger.margin.note_tree
<1>1. PICK margin :
              /\ new = [policies |-> ledger.policies, margin |-> margin,
                        shielded_collateral |-> ledger.shielded_collateral - fee,
                        fee_total |-> ledger.fee_total + fee]
              /\ SoundLedger(new)
              /\ Follows(margin.note_tree.leaves, t.leaves, notes, n)
  BY SpendSound
<1> DEFINE u == margin.note_tree
<1>2. /\ new.margin = margin /\ new.shielded_collateral = ledger.shielded_collateral - fee
      /\ new.fee_total = ledger.fee_total + fee
  BY <1>1
<1>3. Built(t) /\ Built(u) /\ Len(t.leaves) \in Nat /\ n \in Nat /\ fee \in Nat
  <2>1. Built(t) /\ Built(u)
    BY <1>1, <1>2 DEF SoundLedger, SoundMargin
  <2>2. n \in Nat /\ fee \in Nat
    BY ListIs DEF IsSpend
  <2> QED BY <2>1, <2>2, WholeIs
<1>4. Kept(t, u)
  <2>1. Len(t.leaves) \in Nat /\ Follows(u.leaves, t.leaves, notes, n) /\ n \in Nat
    BY <1>1, <1>3
  <2> HIDE DEF t, u, notes, n
  <2> QED BY <2>1, NullifiersStay
<1>5. \A d \in statements : contains(u, d.note.commitment)
  <2>1. \A d \in statements : contains(t, d.note.commitment)
    BY DEF SoundDeposits
  <2> HIDE DEF t, u
  <2> QED BY <1>3, <1>4, <2>1, ContainsKept
<1>6. new.shielded_collateral + new.fee_total = BackingOf(statements)
  <2> DEFINE a == ledger.shielded_collateral
             b == ledger.fee_total
  <2>1. a \in Nat /\ b \in Nat /\ fee \in Nat /\ a + b = BackingOf(statements)
    BY <1>3 DEF SoundValue, SoundDeposits
  <2>2. new.shielded_collateral = a - fee /\ new.fee_total = b + fee
    BY <1>2
  <2> HIDE DEF a, b, fee, new
  <2> QED BY <2>1, <2>2
<1> HIDE DEF new
<1>7. SoundDeposits(new, statements)
  BY <1>2, <1>5, <1>6 DEF SoundDeposits
<1> QED BY <1>2, <1>7 DEF new

\* The inductive invariant of ValueConserved.
ValueState ==
    /\ SoundState
    /\ SoundValue(state.ledger)
    /\ SoundDeposits(state.ledger, deposited)
    /\ state.total_credits = state.ledger.shielded_collateral + state.fee_vault

LEMMA ValueInit == Init => ValueState
<1> SUFFICES ASSUME Init PROVE ValueState
  OBVIOUS
<1> DEFINE ledger == build_shielded_development_ledger
<1>1. /\ state = [ledger |-> ledger, total_credits |-> 0, fee_vault |-> 0]
      /\ deposited = {}
  BY DEF Init
<1>2. /\ ledger.margin = NewMarginState /\ ledger.shielded_collateral = 0
      /\ ledger.fee_total = 0
  BY GenesisSound
<1> HIDE DEF ledger
<1>3. SoundState /\ SoundValue(ledger)
  BY <1>2, SoundInit, EmptyValue
<1>4. BackingOf({}) = 0
  <2> DEFINE f == [d \in {} |-> d.backing_amount]
  <2>1. BackingOf({}) = SumFunctionOnSet(f, {})
    BY DEF BackingOf, SumFunction
  <2> HIDE DEF f
  <2> QED BY <2>1, SumEmpty
<1>5. SoundDeposits(ledger, {})
  BY <1>2, <1>4, FS_EmptySet DEF SoundDeposits
<1> QED BY <1>1, <1>2, <1>3, <1>5 DEF ValueState

LEMMA ValueNext == ValueState /\ [Next]_vars => ValueState'
<1> SUFFICES ASSUME ValueState, [Next]_vars PROVE ValueState'
  OBVIOUS
<1>1. /\ SoundState /\ StateShape(state) /\ SoundLedger(state.ledger)
      /\ SoundValue(state.ledger) /\ SoundDeposits(state.ledger, deposited)
      /\ state.total_credits \in Int /\ state.fee_vault \in Int /\ MaxDecimal \in Int
      /\ state.total_credits = state.ledger.shielded_collateral + state.fee_vault
      /\ state.ledger.shielded_collateral \in Nat
  BY LedgerAssumption DEF ValueState, SoundState, SoundValue
<1>2. SoundState'
  BY <1>1, SoundNext
<1>3. CASE UNCHANGED vars
  BY <1>1, <1>2, <1>3 DEF vars, ValueState
<1>4. ASSUME NEW policy \in Policies, ConfigureDone(policy) PROVE ValueState'
  <2> DEFINE ledger == register_market(state.ledger, policy).ledger
  <2>1. /\ SoundValue(ledger) /\ ledger.margin = state.ledger.margin
        /\ ledger.shielded_collateral = state.ledger.shielded_collateral
        /\ ledger.fee_total = state.ledger.fee_total
    BY <1>1, CommandAssumption, RegisterValue
  <2>2. /\ state' = [ledger |-> ledger, total_credits |-> state.total_credits,
                     fee_vault |-> state.fee_vault]
        /\ deposited' = deposited
    BY <1>4 DEF ConfigureDone
  <2> HIDE DEF ledger
  <2>3. SoundDeposits(ledger, deposited)
    BY <1>1, <2>1 DEF SoundDeposits
  <2> QED BY <1>1, <1>2, <2>1, <2>2, <2>3 DEF ValueState
<1>5. ASSUME NEW deposit \in Deposits, DepositDone(deposit) PROVE ValueState'
  <2> DEFINE ledger == authority_deposit(state.ledger, deposit).ledger
             amount == deposit.statement.backing_amount
             more == deposited \cup {deposit.statement}
  <2>1. amount \in Nat /\ DepositAccepted(state.ledger, deposit)
    BY <1>5, CommandAssumption DEF DepositDone
  <2>2. /\ state' = [ledger |-> ledger, total_credits |-> state.total_credits + amount,
                     fee_vault |-> state.fee_vault]
        /\ deposited' = more
    BY <1>5 DEF DepositDone
  <2>3. SoundValue(ledger)
    BY <1>1, <2>1, DepositValue
  <2>4. /\ SoundDeposits(ledger, more)
        /\ ledger.shielded_collateral = state.ledger.shielded_collateral + amount
    BY <1>1, <2>1, DepositBacked
  <2> HIDE DEF ledger, more, amount
  <2>5. state.total_credits + amount = ledger.shielded_collateral + state.fee_vault
    BY <1>1, <2>1, <2>4
  <2> QED BY <1>2, <2>2, <2>3, <2>4, <2>5 DEF ValueState
<1>6. ASSUME NEW spend, SpendDone(spend) PROVE ValueState'
  <2> DEFINE ledger == ledger_spend(state.ledger, spend).ledger
             fee == spend.statement.fee
  <2>1. IsSpend(spend) /\ LedgerSpendAccepted(state.ledger, spend) /\ fee \in Nat
    BY <1>6 DEF SpendDone, IsSpend
  <2>2. /\ state' = [ledger |-> ledger, total_credits |-> state.total_credits,
                     fee_vault |-> state.fee_vault + fee]
        /\ deposited' = deposited
    BY <1>6 DEF SpendDone
  <2>3. SoundValue(ledger)
    BY <1>1, <2>1, SpendValue
  <2>4. /\ SoundDeposits(ledger, deposited)
        /\ ledger.shielded_collateral = state.ledger.shielded_collateral - fee
    BY <1>1, <2>1, SpendBacked
  <2> HIDE DEF ledger, fee
  <2>5. state.total_credits = ledger.shielded_collateral + (state.fee_vault + fee)
    BY <1>1, <2>1, <2>4
  <2> QED BY <1>2, <2>2, <2>3, <2>4, <2>5 DEF ValueState
<1>7. CASE \E policy \in Policies : ConfigureShieldedMarket(policy)
  BY <1>1, <1>3, <1>4, <1>7, ConfigureStep
<1>8. CASE \E deposit \in Deposits : ShieldedDeposit(deposit)
  BY <1>1, <1>3, <1>5, <1>8, DepositStep
<1>9. CASE \E spend \in Spends(state.ledger) : ShieldedSpend(spend)
  BY <1>1, <1>3, <1>6, <1>9, SpendStep
<1> QED BY <1>3, <1>7, <1>8, <1>9 DEF Next

\* No spend, on an old anchor or replayed, with a repeated input or with
\* another leaf index for the same note, spends a note twice, a note of an
\* owner that did not sign, or creates collateral or a position; the ledger
\* holds what the authority deposited, every note keeps the margin of its
\* market's policy, and the engine's audit balances, also after a command that
\* failed halfway (authority_deposit_inner, spend, apply_command).
THEOREM LedgerConservesValue == Spec => []ValueConserved
<1>1. ValueState => ValueConserved
  <2> SUFFICES ASSUME ValueState PROVE ValueConserved
    OBVIOUS
  <2> DEFINE ledger == state.ledger
             margin == ledger.margin
             tree == margin.note_tree
  <2>1. /\ SoundLedger(ledger) /\ SoundMargin(margin) /\ SoundValue(ledger)
        /\ SoundDeposits(ledger, deposited) /\ SoundPolicies(ledger.policies)
    BY DEF ValueState, SoundState, SoundLedger
  <2>2. UnspentIndices(ledger) = Live(margin)
    BY DEF UnspentIndices, Live
  <2>3. \A i : UnspentOpening(ledger, i) = Opening(Leaf(tree, i))
    BY DEF UnspentOpening
  <2>4. TypeOK
    <3>1. Len(tree.leaves) <= merkle_capacity
      BY <2>1, WholeIs DEF SoundMargin
    <3>2. Len(margin.accepted_roots) \in 1 .. RootHistoryLimit
      BY <2>1 DEF SoundMargin
    <3>3. \A p, q \in ledger.policies : p.market_id = q.market_id => p = q
      BY <2>1 DEF SoundPolicies
    <3>4. /\ state.total_credits \in 0 .. MaxDecimal /\ state.fee_vault \in 0 .. MaxDecimal
          /\ ledger.shielded_collateral \in Nat /\ ledger.fee_total \in Nat
      BY <2>1 DEF ValueState, SoundState, SoundValue
    <3> QED BY <3>1, <3>2, <3>3, <3>4 DEF TypeOK
  <2>5. CollateralIsUnspentNotes
    BY <2>1, <2>2, <2>3 DEF CollateralIsUnspentNotes, SoundValue, CollateralAt
  <2>6. BackingConserved
    BY <2>1 DEF BackingConserved, SoundDeposits, BackingOf
  <2>7. AuditBalances
    BY DEF AuditBalances, ValueState
  <2>8. PositionsNet
    <3>1. PositionAt(tree) = [i \in LeafIndices(tree) |-> UnspentOpening(ledger, i).position]
      BY <2>3 DEF PositionAt
    <3>2. \A m : MarketLive(margin, m) =
                    {i \in UnspentIndices(ledger) : Leaf(tree, i).market_id = m}
      BY <2>2 DEF MarketLive
    <3>3. \A p \in ledger.policies :
             SumFunctionOnSet(PositionAt(tree), MarketLive(margin, p.market_id)) = 0
      BY <2>1 DEF SoundValue
    <3> QED BY <3>1, <3>2, <3>3 DEF PositionsNet
  <2>9. NotesMargined
    <3>1. ASSUME NEW i \in UnspentIndices(ledger)
          PROVE  Margined(UnspentOpening(ledger, i), PolicyOf(ledger, Leaf(tree, i).market_id))
      BY <2>1, <2>3 DEF UnspentIndices, SoundValue
    <3> QED BY <3>1 DEF NotesMargined, Margined
  <2>10. UnsignedNotesUnspent
    BY <2>1, <2>2, <2>3 DEF UnsignedNotesUnspent, SoundValue, Live
  <2> QED BY <2>4, <2>5, <2>6, <2>7, <2>8, <2>9, <2>10 DEF ValueConserved
<1> QED BY <1>1, ValueInit, ValueNext, PTL DEF Spec

-----------------------------------------------------------------------------
(* Witnesses taken at an accepted root. *)

\* Every note commits to its market and its opening, and holds collateral.
Committed(tree) ==
    \A i \in LeafIndices(tree) :
        /\ Leaf(tree, i).commitment =
              Commitment(Opening(Leaf(tree, i)), Leaf(tree, i).market_id,
                         Leaf(tree, i).collateral_asset)
        /\ Opening(Leaf(tree, i)).collateral > 0

CommittedNote(note) ==
    /\ note.commitment = Commitment(Opening(note), note.market_id, note.collateral_asset)
    /\ Opening(note).collateral > 0

LEMMA CommittedFollows ==
    ASSUME NEW tree, NEW more, NEW notes, NEW n \in Nat,
           Len(tree.leaves) \in Nat, Committed(tree),
           Follows(more.leaves, tree.leaves, notes, n),
           \A i \in 1 .. n : CommittedNote(notes[i])
    PROVE  Committed(more)
<1> DEFINE k == Len(tree.leaves)
<1>1. /\ Len(more.leaves) = k + n /\ k \in Nat
      /\ \A i \in 1 .. k : more.leaves[i] = tree.leaves[i]
      /\ \A i \in 1 .. n : more.leaves[k + i] = notes[i]
  BY DEF Follows
<1>0. LeafIndices(tree) = 0 .. k - 1 /\ LeafIndices(more) = 0 .. Len(more.leaves) - 1
  BY DEF LeafIndices
<1> HIDE DEF k
<1>2. ASSUME NEW i \in LeafIndices(more) PROVE CommittedNote(Leaf(more, i))
  <2>1. i \in Nat /\ i < k + n
    BY <1>0, <1>1
  <2>2. CASE i < k
    <3>1. i \in LeafIndices(tree) /\ i + 1 \in 1 .. k
      BY <1>0, <1>1, <2>1, <2>2
    <3>2. Leaf(more, i) = Leaf(tree, i)
      BY <1>1, <3>1 DEF Leaf
    <3> QED BY <3>1, <3>2 DEF Committed, CommittedNote
  <2>3. CASE i >= k
    <3> DEFINE j == i + 1 - k
    <3>1. j \in 1 .. n /\ k + j = i + 1
      BY <1>1, <2>1, <2>3
    <3> HIDE DEF j
    <3>2. Leaf(more, i) = notes[j]
      BY <1>1, <3>1 DEF Leaf
    <3> QED BY <3>1, <3>2
  <2> QED BY <1>1, <2>1, <2>2, <2>3
<1> QED BY <1>2 DEF Committed, CommittedNote

LEMMA DepositCommitted ==
    ASSUME NEW ledger, SoundLedger(ledger), Committed(ledger.margin.note_tree),
           NEW deposit, DepositAccepted(ledger, deposit)
    PROVE  Committed(authority_deposit(ledger, deposit).ledger.margin.note_tree)
<1> DEFINE note == deposit.statement.note
           opening == deposit.opening
           new == authority_deposit(ledger, deposit).ledger
           t == ledger.margin.note_tree
<1>1. PICK margin :
              /\ new = [policies |-> ledger.policies, margin |-> margin,
                        shielded_collateral |-> ledger.shielded_collateral
                                                   + deposit.statement.backing_amount,
                        fee_total |-> ledger.fee_total]
              /\ Follows(margin.note_tree.leaves, t.leaves, <<note>>, 1)
  BY DepositSound
<1>2. new.margin = margin
  BY <1>1
<1>3. Len(t.leaves) \in Nat
  BY WholeIs DEF SoundLedger, SoundMargin
<1>4. /\ note.commitment = Commitment(opening, note.market_id, note.collateral_asset)
      /\ opening.collateral > 0
  BY DEF DepositAccepted, DepositProofVerifies
<1>5. Opening(note) = opening
  BY <1>4 DEF Opening, Commitment
<1> HIDE DEF new, note, opening
<1>6. CommittedNote(note)
  BY <1>4, <1>5 DEF CommittedNote
<1>7. \A i \in 1 .. 1 : CommittedNote(<<note>>[i])
  <2>1. \A i \in 1 .. 1 : <<note>>[i] = note
    OBVIOUS
  <2> QED BY <1>6, <2>1
<1> DEFINE u == margin.note_tree
<1>8. Follows(u.leaves, t.leaves, <<note>>, 1) /\ Committed(t) /\ 1 \in Nat
  BY <1>1
<1> HIDE DEF t, u
<1>9. Committed(u)
  BY <1>3, <1>7, <1>8, CommittedFollows
<1> QED BY <1>2, <1>9 DEF new, u

LEMMA SpendCommitted ==
    ASSUME NEW ledger, SoundLedger(ledger), Committed(ledger.margin.note_tree),
           NEW spend, IsSpend(spend), LedgerSpendAccepted(ledger, spend)
    PROVE  Committed(ledger_spend(ledger, spend).ledger.margin.note_tree)
<1> DEFINE statement == spend.statement
           outputs == spend.proof.output_openings
           policy == PolicyOf(ledger, statement.market_id)
           new == ledger_spend(ledger, spend).ledger
           notes == SpendNotes(statement)
           n == Len(statement.output_commitments)
           t == ledger.margin.note_tree
<1>1. PICK margin :
              /\ new = [policies |-> ledger.policies, margin |-> margin,
                        shielded_collateral |->
                           ledger.shielded_collateral - statement.fee,
                        fee_total |-> ledger.fee_total + statement.fee]
              /\ Follows(margin.note_tree.leaves, t.leaves, notes, n)
  BY SpendSound
<1>2. new.margin = margin
  BY <1>1
<1>3. Len(t.leaves) \in Nat /\ n \in Nat
  <2>1. Len(t.leaves) \in Nat
    BY WholeIs DEF SoundLedger, SoundMargin
  <2>2. n \in Nat
    BY ListIs DEF IsSpend
  <2> QED BY <2>1, <2>2
<1>4. ASSUME NEW i \in 1 .. n PROVE CommittedNote(notes[i])
  <2> DEFINE commitment == statement.output_commitments[i]
             note == notes[i]
             opening == outputs[i]
  <2>1. SpendProofVerifies(statement, policy, spend.proof)
    BY DEF LedgerSpendAccepted, SpendAccepted
  <2>2. DOMAIN outputs = 1 .. Len(outputs)
    BY ListIs DEF IsSpend
  <2>3. Len(outputs) = n
    BY <2>1 DEF SpendProofVerifies
  <2>4. OutputProven(statement, policy, opening, commitment)
    BY <2>1, <2>2, <2>3 DEF SpendProofVerifies
  <2>5. note = PublicNote(statement.market_id, statement.collateral_asset, commitment)
    BY SpendNotesAre DEF IsSpend
  <2> HIDE DEF note, opening, commitment, policy
  <2>6. /\ commitment = Commitment(opening, statement.market_id, statement.collateral_asset)
        /\ opening.collateral > 0
    BY <2>4 DEF OutputProven
  <2>7. /\ note.market_id = statement.market_id
        /\ note.collateral_asset = statement.collateral_asset
        /\ note.commitment = commitment /\ Opening(note) = opening
    BY <2>5, <2>6 DEF PublicNote, Opening, Commitment
  <2>8. CommittedNote(note)
    BY <2>6, <2>7 DEF CommittedNote
  <2> QED BY <2>8 DEF note
<1> DEFINE u == margin.note_tree
<1>5. Follows(u.leaves, t.leaves, notes, n) /\ Committed(t)
  BY <1>1
<1> HIDE DEF t, u, notes, n, new
<1>6. Committed(u)
  BY <1>3, <1>4, <1>5, CommittedFollows
<1> QED BY <1>2, <1>6 DEF new, u

CommittedState == ValueState /\ Committed(state.ledger.margin.note_tree)

LEMMA CommittedInit == Init => CommittedState
<1> SUFFICES ASSUME Init PROVE Committed(state.ledger.margin.note_tree)
  BY ValueInit DEF CommittedState
<1>1. state.ledger.margin = NewMarginState
  BY GenesisSound DEF Init
<1>2. LeafIndices(state.ledger.margin.note_tree) = {}
  BY <1>1 DEF NewMarginState, EmptyTree, LeafIndices
<1> QED BY <1>2 DEF Committed

LEMMA CommittedNext == CommittedState /\ [Next]_vars => CommittedState'
<1> SUFFICES ASSUME CommittedState, [Next]_vars
             PROVE  Committed(state'.ledger.margin.note_tree)
  BY ValueNext DEF CommittedState
<1>1. /\ StateShape(state) /\ SoundLedger(state.ledger)
      /\ Committed(state.ledger.margin.note_tree)
      /\ state.total_credits \in Int /\ state.fee_vault \in Int /\ MaxDecimal \in Int
  BY LedgerAssumption DEF CommittedState, ValueState, SoundState
<1>2. CASE UNCHANGED vars
  BY <1>1, <1>2 DEF vars
<1>3. ASSUME NEW policy \in Policies, ConfigureDone(policy)
      PROVE  Committed(state'.ledger.margin.note_tree)
  <2>1. register_market(state.ledger, policy).ledger.margin = state.ledger.margin
    BY <1>1, CommandAssumption, RegisterValue DEF CommittedState, ValueState
  <2>2. state'.ledger = register_market(state.ledger, policy).ledger
    BY <1>3 DEF ConfigureDone
  <2> QED BY <1>1, <2>1, <2>2
<1>4. ASSUME NEW deposit \in Deposits, DepositDone(deposit)
      PROVE  Committed(state'.ledger.margin.note_tree)
  <2>1. state'.ledger = authority_deposit(state.ledger, deposit).ledger
    BY <1>4 DEF DepositDone
  <2>2. DepositAccepted(state.ledger, deposit)
    BY <1>4 DEF DepositDone
  <2> QED BY <1>1, <2>1, <2>2, DepositCommitted
<1>5. ASSUME NEW spend, SpendDone(spend)
      PROVE  Committed(state'.ledger.margin.note_tree)
  <2>1. state'.ledger = ledger_spend(state.ledger, spend).ledger
    BY <1>5 DEF SpendDone
  <2>2. IsSpend(spend) /\ LedgerSpendAccepted(state.ledger, spend)
    BY <1>5 DEF SpendDone
  <2> QED BY <1>1, <2>1, <2>2, SpendCommitted
<1>6. CASE \E policy \in Policies : ConfigureShieldedMarket(policy)
  BY <1>1, <1>2, <1>3, <1>6, ConfigureStep
<1>7. CASE \E deposit \in Deposits : ShieldedDeposit(deposit)
  BY <1>1, <1>2, <1>4, <1>7, DepositStep
<1>8. CASE \E spend \in Spends(state.ledger) : ShieldedSpend(spend)
  BY <1>1, <1>2, <1>5, <1>8, SpendStep
<1> QED BY <1>2, <1>6, <1>7, <1>8 DEF Next

\* The tree of a prefix of the leaves.
LEMMA PrefixTree ==
    ASSUME NEW margin, SoundMargin(margin),
           NEW k \in 0 .. Len(margin.note_tree.leaves), NEW tree,
           tree = AppendAll(EmptyTree, SubSeq(margin.note_tree.leaves, 1, k))
    PROVE  /\ Cached(tree)
           /\ LeafIndices(tree) = 0 .. k - 1
           /\ tree.cached_root = RootOver(margin.note_tree.leaves, k)
           /\ \A i \in 0 .. k - 1 : Leaf(tree, i) = Leaf(margin.note_tree, i)
<1> DEFINE notes == margin.note_tree.leaves
           n == Len(notes)
           first == SubSeq(notes, 1, k)
<1>1. n \in Nat /\ IsSeq(notes) /\ n <= merkle_capacity /\ merkle_capacity \in Nat
  BY WholeIs, SpanPositive, HeightsAre DEF SoundMargin, merkle_capacity
<1>2. IsSeq(first) /\ Len(first) = k /\ \A i \in 1 .. k : first[i] = notes[i]
  BY <1>1, PrefixIsSeq
<1>3. Len(first) <= merkle_capacity /\ k \in Nat
  BY <1>1, <1>2
<1>4. tree = AppendAll(EmptyTree, first)
  OBVIOUS
<1> HIDE DEF first
<1>5. /\ Built(tree) /\ tree.leaves = first
      /\ tree.cached_root = Node(first, MERKLE_DEPTH, 0)
  BY <1>2, <1>3, <1>4, TreeOf
<1>6. LeafIndices(tree) = 0 .. k - 1
  BY <1>2, <1>5 DEF LeafIndices
<1>7. ASSUME NEW i \in 0 .. k - 1 PROVE Leaf(tree, i) = Leaf(margin.note_tree, i)
  <2>1. i + 1 \in 1 .. k
    BY <1>3
  <2> QED BY <1>2, <1>5, <2>1 DEF Leaf
<1>8. tree.cached_root = RootOver(notes, k)
  BY <1>5 DEF RootOver, first
<1> QED BY <1>5, <1>6, <1>7, <1>8 DEF Built

\* Prefixes of different lengths have different roots.
LEMMA RootsDiffer ==
    ASSUME NEW margin, SoundMargin(margin),
           NEW a \in 0 .. Len(margin.note_tree.leaves),
           NEW b \in 0 .. Len(margin.note_tree.leaves), a < b
    PROVE  RootOver(margin.note_tree.leaves, a) # RootOver(margin.note_tree.leaves, b)
<1> DEFINE notes == margin.note_tree.leaves
           shorter == SubSeq(notes, 1, a)
<1>1. Len(notes) \in Nat /\ IsSeq(notes)
  BY WholeIs DEF SoundMargin
<1>2. Len(shorter) = a /\ a \in Nat /\ b \in Nat
  BY <1>1, PrefixIsSeq
<1>3. PICK tree : tree = AppendAll(EmptyTree, SubSeq(notes, 1, b))
  OBVIOUS
<1>4. /\ Cached(tree) /\ LeafIndices(tree) = 0 .. b - 1
      /\ tree.cached_root = RootOver(notes, b)
  BY <1>3, PrefixTree
<1>5. a \in LeafIndices(tree)
  BY <1>2, <1>4
<1> DEFINE mp == proof(tree, a)
           note == Leaf(tree, a)
<1>6. mp.leaf_index = a
  BY DEF proof
<1>7. verify(mp, note, tree.cached_root)
  BY <1>4, <1>5, PathComplete
<1> HIDE DEF mp, note
<1>8. mp.leaf_index \in 0 .. merkle_capacity - 1 /\ RootOfProof(mp, note) = RootOver(notes, b)
  BY <1>4, <1>7 DEF verify
<1>9. ASSUME RootOver(notes, a) = RootOver(notes, b) PROVE FALSE
  <2>1. RootOfProof(mp, note) = Node(shorter, MERKLE_DEPTH, 0)
    BY <1>8, <1>9 DEF RootOver
  <2>2. Len(shorter) \in Nat
    BY <1>2
  <2> HIDE DEF shorter
  <2>3. mp.leaf_index < Len(shorter)
    BY <1>8, <2>1, <2>2, PathSound
  <2> QED BY <1>2, <1>6, <2>3
<1> QED BY <1>9

\* The lengths of the prefixes whose root is accepted.
Recent(margin) ==
    {at \in 0 .. Len(margin.note_tree.leaves) :
        accepts_root(margin, RootOver(margin.note_tree.leaves, at))}

LEMMA AcceptedAre ==
    ASSUME NEW margin, SoundMargin(margin)
    PROVE  /\ DOMAIN margin.accepted_roots = 1 .. Len(margin.accepted_roots)
           /\ Len(margin.accepted_roots) \in Nat \ {0}
<1> DEFINE roots == margin.accepted_roots
           S == {roots[i] : i \in 1 .. Len(roots)}
<1>1. roots \in Seq(S)
  BY DEF SoundMargin, Counted, IsSeq
<1>2. Len(roots) \in 1 .. RootHistoryLimit
  BY DEF SoundMargin
<1> HIDE DEF roots, S
<1>3. DOMAIN roots = 1 .. Len(roots) /\ Len(roots) \in Nat
  BY <1>1
<1>4. Len(roots) # 0
  BY <1>2, LedgerAssumption
<1> QED BY <1>3, <1>4 DEF roots

\* The current root is accepted, and each accepted root is that of one prefix.
LEMMA RecentAre ==
    ASSUME NEW margin, SoundMargin(margin)
    PROVE  /\ Len(margin.note_tree.leaves) \in Recent(margin)
           /\ Cardinality(Recent(margin)) = Len(margin.accepted_roots)
<1> DEFINE roots == margin.accepted_roots
           notes == margin.note_tree.leaves
           n == Len(notes)
           r == Len(roots)
<1>1. n \in Nat /\ margin.note_tree.cached_root = RootOver(notes, n)
  BY WholeIs DEF SoundMargin
<1>2. DOMAIN roots = 1 .. r /\ r \in Nat \ {0}
  BY AcceptedAre
<1>3. PICK count \in [1 .. r -> 0 .. n] :
          /\ \A i \in 1 .. r : roots[i] = RootOver(notes, count[i])
          /\ \A i, j \in 1 .. r : i < j => count[i] < count[j]
  BY DEF SoundMargin, Counted
<1>4. n \in Recent(margin)
  <2>1. roots[r] = RootOver(notes, n)
    BY <1>1 DEF SoundMargin, Last
  <2>2. r \in DOMAIN roots
    BY <1>2
  <2>3. accepts_root(margin, RootOver(notes, n))
    BY <2>1, <2>2 DEF accepts_root, Range
  <2>4. n \in 0 .. n
    BY <1>1
  <2> QED BY <2>3, <2>4 DEF Recent
<1>5. \A a, b \in 0 .. n : RootOver(notes, a) = RootOver(notes, b) => a = b
  <2> SUFFICES ASSUME NEW a \in 0 .. n, NEW b \in 0 .. n,
                      RootOver(notes, a) = RootOver(notes, b), a # b
               PROVE  FALSE
    OBVIOUS
  <2>1. a < b \/ b < a
    OBVIOUS
  <2> QED BY <2>1, RootsDiffer
<1>6. ASSUME NEW at \in 0 .. n
      PROVE  at \in Recent(margin) <=> \E i \in 1 .. r : at = count[i]
  <2>1. at \in Recent(margin) <=> \E i \in 1 .. r : RootOver(notes, at) = roots[i]
    BY <1>2 DEF Recent, accepts_root, Range
  <2> HIDE DEF n, notes, roots, r
  <2>2. \A i \in 1 .. r : count[i] \in 0 .. n
    BY <1>3
  <2> QED BY <1>3, <1>5, <2>1, <2>2
<1>7. Recent(margin) \subseteq 0 .. n
  BY DEF Recent
<1> HIDE DEF n, notes, roots, r
<1>8. \A i, j \in 1 .. r : count[i] = count[j] => i = j
  <2> SUFFICES ASSUME NEW i \in 1 .. r, NEW j \in 1 .. r, count[i] = count[j], i # j
               PROVE  FALSE
    OBVIOUS
  <2>1. count[i] \in Int /\ count[j] \in Int /\ (i < j \/ j < i)
    BY <1>3
  <2> QED BY <1>3, <2>1
<1>9. \A i \in 1 .. r : count[i] \in Recent(margin)
  <2>1. \A i \in 1 .. r : count[i] \in 0 .. n
    BY <1>3
  <2> QED BY <1>6, <2>1
<1>10. count \in [1 .. r -> Recent(margin)] /\ DOMAIN count = 1 .. r
  BY <1>3, <1>9
<1>11. \A at \in Recent(margin) : \E i \in 1 .. r : count[i] = at
  BY <1>6, <1>7
<1>12. count \in Surjection(1 .. r, Recent(margin))
  BY <1>10, <1>11 DEF Surjection
<1>13. count \in Injection(1 .. r, Recent(margin))
  BY <1>8, <1>10 DEF Injection, IsInjective
<1>14. IsFiniteSet(1 .. r) /\ Cardinality(1 .. r) = r
  BY <1>2, FS_Interval
<1>15. Cardinality(Recent(margin)) = Cardinality(1 .. r)
  BY <1>12, <1>13, <1>14, FS_Surjection
<1> QED BY <1>4, <1>14, <1>15 DEF n, notes, r, roots

\* A summand is at most the sum.
LEMMA SumNatural ==
    ASSUME NEW f, NEW S, IsFiniteSet(S), \A x \in S : f[x] \in Nat
    PROVE  SumFunctionOnSet(f, S) \in Nat
<1> DEFINE W == {R \in SUBSET S : SumFunctionOnSet(f, R) \in Nat}
<1>1. {} \in W
  BY SumEmpty
<1>2. ASSUME NEW R \in SUBSET S, NEW x \in S \ R, R \in W PROVE R \cup {x} \in W
  <2>1. IsFiniteSet(R) /\ f[x] \in Int /\ \A y \in R : f[y] \in Int
    BY FS_Subset
  <2>2. SumFunctionOnSet(f, R \cup {x}) = f[x] + SumFunctionOnSet(f, R)
    BY <2>1, SumAdded
  <2>3. SumFunctionOnSet(f, R) \in Nat /\ f[x] \in Nat
    BY <1>2
  <2> QED BY <2>2, <2>3
<1> HIDE DEF W
<1>3. S \in W
  BY <1>1, <1>2, SetInduction
<1> QED BY <1>3 DEF W

LEMMA SumAtLeast ==
    ASSUME NEW f, NEW S, IsFiniteSet(S), \A x \in S : f[x] \in Nat, NEW z \in S
    PROVE  SumFunctionOnSet(f, S) >= f[z]
<1> DEFINE R == S \ {z}
<1>1. IsFiniteSet(R) /\ z \notin R /\ S = R \cup {z} /\ \A x \in R : f[x] \in Nat
  BY FS_Subset
<1> HIDE DEF R
<1>2. SumFunctionOnSet(f, R) \in Nat /\ f[z] \in Nat
  BY <1>1, SumNatural
<1>3. SumFunctionOnSet(f, R \cup {z}) = f[z] + SumFunctionOnSet(f, R)
  BY <1>1, <1>2, SumAdded
<1> QED BY <1>1, <1>2, <1>3

\* No unspent note holds more than the ledger accounts for.
LEMMA CollateralCovers ==
    ASSUME NEW ledger, SoundLedger(ledger), SoundValue(ledger),
           NEW i \in UnspentIndices(ledger)
    PROVE  /\ UnspentOpening(ledger, i).collateral \in Nat
           /\ UnspentOpening(ledger, i).collateral <= ledger.shielded_collateral
<1> DEFINE tree == ledger.margin.note_tree
           f == CollateralAt(tree)
           S == Live(ledger.margin)
<1>1. i \in S /\ S \subseteq LeafIndices(tree)
  BY DEF UnspentIndices, Live
<1>2. IsFiniteSet(S)
  <2>1. Len(tree.leaves) \in Nat
    BY WholeIs DEF SoundLedger, SoundMargin
  <2>2. IsFiniteSet(LeafIndices(tree))
    BY <2>1, FS_Interval DEF LeafIndices
  <2> QED BY <1>1, <2>2, FS_Subset
<1>3. \A x \in LeafIndices(tree) : Opening(Leaf(tree, x)).collateral \in Nat
  BY DEF SoundValue, OpenedNotes, IsOpening
<1>4. \A x \in LeafIndices(tree) : f[x] = Opening(Leaf(tree, x)).collateral
  BY DEF CollateralAt
<1>5. ledger.shielded_collateral = SumFunctionOnSet(f, S)
  BY DEF SoundValue
<1>6. UnspentOpening(ledger, i) = Opening(Leaf(tree, i))
  BY DEF UnspentOpening
<1> HIDE DEF f, S, tree
<1>7. \A x \in S : f[x] \in Nat
  BY <1>1, <1>3, <1>4
<1>8. SumFunctionOnSet(f, S) >= f[i] /\ SumFunctionOnSet(f, S) \in Nat
  BY <1>1, <1>2, <1>7, SumAtLeast, SumNatural
<1> QED BY <1>1, <1>3, <1>4, <1>5, <1>6, <1>8

\* A sequence of one element.
LEMMA Single ==
    ASSUME NEW x
    PROVE  /\ Len(<<x>>) = 1 /\ DOMAIN <<x>> = {1} /\ <<x>>[1] = x
           /\ Range(<<x>>) = {x} /\ IsInjective(<<x>>)
<1>1. Len(<<x>>) = 1 /\ DOMAIN <<x>> = {1} /\ <<x>>[1] = x
  OBVIOUS
<1> DEFINE s == <<x>>
<1>2. DOMAIN s = {1} /\ s[1] = x
  BY <1>1
<1> HIDE DEF s
<1>3. Range(s) = {x} /\ IsInjective(s)
  BY <1>2 DEF Range, IsInjective
<1> QED BY <1>1, <1>3 DEF s

LEMMA SumOfOne ==
    ASSUME NEW f, DOMAIN f = {1}, f[1] \in Int
    PROVE  SumFunction(f) = f[1]
BY SumSingle DEF SumFunction

\* The parts of a self-transfer.
SelfStatement(ledger, at, i, fee, moved) ==
    SelfTransfer(ledger, at, i, fee, moved).statement

LEMMA TransferIs ==
    ASSUME NEW ledger, NEW at, NEW i, NEW fee, NEW moved, NEW tree, NEW note,
           tree = WalletTree(ledger, at), note = Leaf(tree, i),
           NEW statement, statement = SelfStatement(ledger, at, i, fee, moved),
           NEW witness, witness = SelfTransfer(ledger, at, i, fee, moved).proof
    PROVE  /\ statement.chain_domain = ChainDomain
           /\ statement.ledger_id = LedgerId
           /\ statement.anchor_root = tree.cached_root
           /\ statement.market_id = note.market_id
           /\ statement.collateral_asset = note.collateral_asset
           /\ statement.policy_hash = policy_hash(PolicyOf(ledger, note.market_id))
           /\ statement.nullifiers = <<NullifierAt(tree, i)>>
           /\ statement.output_commitments =
                 <<Commitment(moved, note.market_id, note.collateral_asset)>>
           /\ statement.fee = fee
           /\ witness.inputs =
                 <<[note |-> note, opening |-> Opening(note),
                    merkle_proof |-> proof(tree, i),
                    authorization_signature |->
                       [signer |-> Opening(note).owner, message |-> statement]]>>
           /\ witness.output_openings = <<moved>>
BY DEF SelfTransfer, SelfStatement

\* What a wallet submits for a note that is not spent is accepted.
LEMMA TransferAccepted ==
    ASSUME NEW ledger, SoundLedger(ledger), SoundValue(ledger),
           Committed(ledger.margin.note_tree),
           NEW at \in Recent(ledger.margin),
           NEW i \in UnspentIndices(ledger), i \in 0 .. at - 1,
           NEW fee \in 0 .. UnspentOpening(ledger, i).collateral,
           NEW leverage \in 1 .. PolicyOf(ledger,
                 Leaf(ledger.margin.note_tree, i).market_id).maximum_leverage,
           NEW blinding, NEW moved,
           moved = Moved(UnspentOpening(ledger, i), fee, leverage, blinding),
           MayMove(ledger, i, fee, moved)
    PROVE  LedgerSpendAccepted(ledger, SelfTransfer(ledger, at, i, fee, moved))
<1> DEFINE margin == ledger.margin
           whole == margin.note_tree
<1>1. SoundMargin(margin)
  BY DEF SoundLedger
<1>2. at \in 0 .. Len(whole.leaves) /\ accepts_root(margin, RootOver(whole.leaves, at))
  BY DEF Recent
<1>3. PICK tree : tree = WalletTree(ledger, at)
  OBVIOUS
<1>4. tree = AppendAll(EmptyTree, SubSeq(whole.leaves, 1, at))
  BY <1>3 DEF WalletTree
<1>5. /\ Cached(tree) /\ LeafIndices(tree) = 0 .. at - 1
      /\ tree.cached_root = RootOver(whole.leaves, at)
      /\ \A j \in 0 .. at - 1 : Leaf(tree, j) = Leaf(whole, j)
  BY <1>1, <1>2, <1>4, PrefixTree
<1>6. PICK note : note = Leaf(whole, i)
  OBVIOUS
<1>7. PICK opening : opening = Opening(note)
  OBVIOUS
<1>8. PICK policy : policy = PolicyOf(ledger, note.market_id)
  OBVIOUS
<1>9. /\ i \in LeafIndices(whole) /\ NullifierAt(whole, i) \notin margin.spent_nullifiers
      /\ UnspentOpening(ledger, i) = opening
  BY <1>6, <1>7 DEF UnspentIndices, UnspentOpening
<1>10. /\ note.commitment = Commitment(opening, note.market_id, note.collateral_asset)
       /\ opening.collateral > 0
       /\ opening.position \in Int
  BY <1>6, <1>7, <1>9 DEF Committed, SoundValue, OpenedNotes, IsOpening
<1>11. /\ opening.collateral \in Nat /\ opening.collateral <= ledger.shielded_collateral
       /\ ledger.shielded_collateral \in Nat
       /\ fee \in Nat /\ fee <= opening.collateral
  <2>1. opening.collateral \in Nat /\ opening.collateral <= ledger.shielded_collateral
    BY <1>9, CollateralCovers
  <2>2. ledger.shielded_collateral \in Nat /\ fee \in 0 .. opening.collateral
    BY <1>9 DEF SoundValue
  <2> QED BY <2>1, <2>2
<1>12. /\ policy \in ledger.policies /\ policy.market_id = note.market_id
       /\ policy.collateral_asset = note.collateral_asset
  <2>1. PICK p \in ledger.policies : /\ p.market_id = note.market_id
                                     /\ p.collateral_asset = note.collateral_asset
    BY <1>6, <1>9, LeafKnown DEF NoteKnown
  <2>2. PolicyOf(ledger, p.market_id) = p
    BY PolicyIs DEF SoundLedger
  <2> QED BY <1>8, <2>1, <2>2
<1>13. ValidPolicy(policy) /\ validate_basic(note)
  BY <1>12 DEF SoundLedger, SoundPolicies, ValidPolicy, validate_basic
<1>14. Registered(ledger, note.market_id)
  BY <1>12 DEF Registered
<1>15. PICK commitment :
          commitment = Commitment(moved, note.market_id, note.collateral_asset)
  OBVIOUS
<1>16. /\ fee >= policy.minimum_fee
       /\ moved.collateral > 0
       /\ moved.collateral >= required_margin(policy, moved)
       /\ ~ contains(whole, commitment)
       /\ Len(whole.leaves) < merkle_capacity
  BY <1>6, <1>8, <1>15 DEF MayMove, CanAppend, PublicNote
<1>17. /\ moved.collateral = opening.collateral - fee
       /\ moved.position = opening.position
       /\ moved.leverage = leverage
  BY <1>9 DEF Moved
<1>18. LeverageAllowed(policy, moved)
  BY <1>6, <1>8, <1>17 DEF LeverageAllowed
<1>19. PICK statement : statement = SelfStatement(ledger, at, i, fee, moved)
  OBVIOUS
<1>20. PICK witness : witness = SelfTransfer(ledger, at, i, fee, moved).proof
  OBVIOUS
<1>21. note = Leaf(tree, i)
  BY <1>5, <1>6
<1>22. PICK nullifier : nullifier = NullifierAt(tree, i)
  OBVIOUS
<1>23. PICK input :
          input = [note |-> note, opening |-> opening, merkle_proof |-> proof(tree, i),
                   authorization_signature |->
                      [signer |-> opening.owner, message |-> statement]]
  OBVIOUS
<1>24. /\ statement.chain_domain = ChainDomain
       /\ statement.ledger_id = LedgerId
       /\ statement.anchor_root = tree.cached_root
       /\ statement.market_id = note.market_id
       /\ statement.collateral_asset = note.collateral_asset
       /\ statement.policy_hash = policy_hash(policy)
       /\ statement.nullifiers = <<nullifier>>
       /\ statement.output_commitments = <<commitment>>
       /\ statement.fee = fee
       /\ witness.inputs = <<input>>
       /\ witness.output_openings = <<moved>>
  <2>1. TRUE
    OBVIOUS
  <2> HIDE DEF margin, whole
  <2> QED BY <1>3, <1>7, <1>8, <1>15, <1>19, <1>20, <1>21, <1>22, <1>23, TransferIs
<1>25. /\ nullifier = derive_nullifier(note, opening, i)
       /\ nullifier = NullifierAt(whole, i)
  BY <1>6, <1>7, <1>21, <1>22 DEF NullifierAt
<1>26. /\ verify(proof(tree, i), note, tree.cached_root)
       /\ proof(tree, i).leaf_index = i
  <2>1. i \in LeafIndices(tree)
    BY <1>5
  <2>2. verify(proof(tree, i), Leaf(tree, i), tree.cached_root)
    BY <1>5, <2>1, PathComplete
  <2> QED BY <1>21, <2>2 DEF proof
<1>27. /\ input.note = note /\ input.opening = opening
       /\ input.merkle_proof = proof(tree, i)
       /\ input.authorization_signature = [signer |-> opening.owner, message |-> statement]
  BY <1>23
<1> HIDE DEF margin, whole
<1>28. InputProven(statement, input, nullifier)
  BY <1>10, <1>13, <1>24, <1>25, <1>26, <1>27 DEF InputProven, verify_owner_authorization
<1>29. OutputProven(statement, policy, moved, commitment)
  BY <1>15, <1>16, <1>18, <1>24 DEF OutputProven
<1>30. validate_public(statement, policy)
  <2>1. Len(<<nullifier>>) = 1 /\ Len(<<commitment>>) = 1 /\ 1 \in 1 .. MaxSpendNotes
    BY LedgerAssumption, Single
  <2>2. IsInjective(<<nullifier>>) /\ IsInjective(<<commitment>>)
    BY Single
  <2> QED BY <1>12, <1>13, <1>16, <1>24, <2>1, <2>2 DEF validate_public
<1>31. SpendProofVerifies(statement, policy, witness)
  <2> DEFINE inputs == witness.inputs
             outputs == witness.output_openings
             opened == [k \in DOMAIN inputs |-> inputs[k].opening]
             names == [k \in DOMAIN inputs |-> inputs[k].note.commitment]
             paid == [k \in DOMAIN opened |-> opened[k].collateral]
             kept == [k \in DOMAIN outputs |-> outputs[k].collateral]
             before == [k \in DOMAIN opened |-> opened[k].position]
             after == [k \in DOMAIN outputs |-> outputs[k].position]
  <2>1. /\ DOMAIN inputs = {1} /\ inputs[1] = input /\ Len(inputs) = 1
        /\ DOMAIN outputs = {1} /\ outputs[1] = moved /\ Len(outputs) = 1
    BY <1>24, Single
  <2>2. /\ statement.nullifiers[1] = nullifier /\ Len(statement.nullifiers) = 1
        /\ statement.output_commitments[1] = commitment
        /\ Len(statement.output_commitments) = 1
    BY <1>24, Single
  <2> HIDE DEF inputs, outputs
  <2>3. DOMAIN opened = {1} /\ opened[1] = opening /\ DOMAIN names = {1}
    BY <1>27, <2>1
  <2> HIDE DEF opened
  <2>4. IsInjective(names)
    <3> HIDE DEF names
    <3> QED BY <2>3 DEF IsInjective
  <2>5. /\ DOMAIN paid = {1} /\ paid[1] = opening.collateral
        /\ DOMAIN kept = {1} /\ kept[1] = moved.collateral
        /\ DOMAIN before = {1} /\ before[1] = opening.position
        /\ DOMAIN after = {1} /\ after[1] = opening.position
    BY <1>17, <2>1, <2>3
  <2>6. /\ CollateralOf(opened) = SumFunction(paid)
        /\ CollateralOf(outputs) = SumFunction(kept)
        /\ PositionOf(opened) = SumFunction(before)
        /\ PositionOf(outputs) = SumFunction(after)
    BY DEF CollateralOf, PositionOf
  <2> HIDE DEF paid, kept, before, after, names
  <2>7. opening.collateral \in Int /\ moved.collateral \in Int /\ opening.position \in Int
    BY <1>10, <1>11, <1>17
  <2>8. /\ CollateralOf(opened) = opening.collateral
        /\ CollateralOf(outputs) = moved.collateral
        /\ PositionOf(opened) = opening.position
        /\ PositionOf(outputs) = opening.position
    <3>1. SumFunction(paid) = opening.collateral
      BY <2>5, <2>7, SumOfOne
    <3>2. SumFunction(kept) = moved.collateral
      BY <2>5, <2>7, SumOfOne
    <3>3. SumFunction(before) = opening.position /\ SumFunction(after) = opening.position
      BY <2>5, <2>7, SumOfOne
    <3> QED BY <2>6, <3>1, <3>2, <3>3
  <2>9. CollateralOf(opened) = CollateralOf(outputs) + statement.fee
    BY <1>11, <1>17, <1>24, <2>7, <2>8
  <2>10. \A k \in DOMAIN inputs : InputProven(statement, inputs[k], statement.nullifiers[k])
    BY <1>28, <2>1, <2>2
  <2>11. \A k \in DOMAIN outputs :
            OutputProven(statement, policy, outputs[k], statement.output_commitments[k])
    BY <1>29, <2>1, <2>2
  <2>12. PositionOf(opened) = PositionOf(outputs)
    BY <2>8
  <2> QED BY <1>30, <2>1, <2>2, <2>4, <2>9, <2>10, <2>11, <2>12
          DEF SpendProofVerifies, inputs, outputs, opened, names
<1>32. /\ Range(statement.nullifiers) \cap margin.spent_nullifiers = {}
       /\ Range(statement.output_commitments) = {commitment}
       /\ Len(statement.output_commitments) = 1
  <2>1. Range(statement.nullifiers) = {nullifier}
    BY <1>24, Single
  <2> QED BY <1>9, <1>24, <1>25, <2>1, Single
<1>33. Len(whole.leaves) + Len(statement.output_commitments) <= merkle_capacity
  <2>1. Len(whole.leaves) \in Nat /\ merkle_capacity \in Nat
    BY <1>1, WholeIs, SpanPositive, HeightsAre DEF SoundMargin, merkle_capacity, whole
  <2> QED BY <1>16, <1>32, <2>1
<1>34. PICK spend : spend = SelfTransfer(ledger, at, i, fee, moved)
  OBVIOUS
<1>35. spend.statement = statement /\ spend.proof = witness
  BY <1>19, <1>20, <1>34 DEF SelfStatement
<1>36. accepts_root(margin, statement.anchor_root)
  BY <1>2, <1>5, <1>24
<1>37. SpendAccepted(margin, spend, policy)
  <2>1. \A c \in Range(statement.output_commitments) : ~ contains(margin.note_tree, c)
    BY <1>16, <1>32 DEF whole
  <2>2. Len(margin.note_tree.leaves) + Len(statement.output_commitments) <= merkle_capacity
    BY <1>33 DEF whole
  <2> QED BY <1>30, <1>31, <1>32, <1>35, <1>36, <2>1, <2>2 DEF SpendAccepted
<1>38. LedgerSpendAccepted(ledger, spend)
  <2>1. ledger.shielded_collateral >= statement.fee
    BY <1>11, <1>24
  <2>2. PolicyOf(ledger, statement.market_id) = policy /\ Registered(ledger, statement.market_id)
    BY <1>8, <1>14, <1>24
  <2> QED BY <1>24, <1>35, <1>37, <2>1, <2>2 DEF LedgerSpendAccepted, margin
<1> QED BY <1>34, <1>38

\* A wallet that took the witness of its note at any accepted root, up to
\* RootHistoryLimit states of the tree ago, can still move the note, whatever
\* was appended since; the current root is always one of the accepted ones, and
\* each accepted root is of another state of the tree (remember_current_root,
\* accepts_root, NoteMerkleTree::proof, MerkleProof::verify).
THEOREM WitnessesLast == Spec => []RecentWitnessesAccepted
<1>1. CommittedState => RecentWitnessesAccepted
  <2> SUFFICES ASSUME CommittedState PROVE RecentWitnessesAccepted
    OBVIOUS
  <2> DEFINE ledger == state.ledger
             margin == ledger.margin
             tree == margin.note_tree
             count == Len(tree.leaves)
             recent == {at \in 0 .. count : accepts_root(margin, WalletTree(ledger, at).cached_root)}
  <2>1. /\ SoundLedger(ledger) /\ SoundMargin(margin) /\ SoundValue(ledger)
        /\ Committed(tree)
    BY DEF CommittedState, ValueState, SoundState, SoundLedger
  <2>2. ASSUME NEW at \in 0 .. count
        PROVE  WalletTree(ledger, at).cached_root = RootOver(tree.leaves, at)
    <3> DEFINE t == WalletTree(ledger, at)
    <3>1. t = AppendAll(EmptyTree, SubSeq(tree.leaves, 1, at))
      BY DEF WalletTree
    <3> HIDE DEF t
    <3>2. t.cached_root = RootOver(tree.leaves, at)
      BY <2>1, <3>1, PrefixTree
    <3> QED BY <3>2 DEF t
  <2>3. recent = Recent(margin)
    BY <2>2 DEF Recent
  <2>4. count \in recent /\ Cardinality(recent) = Len(margin.accepted_roots)
    BY <2>1, <2>3, RecentAre
  <2>5. ASSUME NEW at \in recent, NEW i \in UnspentIndices(ledger) \cap 0 .. at - 1,
               NEW fee \in 0 .. UnspentOpening(ledger, i).collateral,
               NEW leverage \in 1 .. PolicyOf(ledger, Leaf(tree, i).market_id).maximum_leverage,
               NEW blinding \in Blindings,
               MayMove(ledger, i, fee, Moved(UnspentOpening(ledger, i), fee, leverage, blinding))
        PROVE  LedgerSpendAccepted(ledger,
                  SelfTransfer(ledger, at, i, fee,
                               Moved(UnspentOpening(ledger, i), fee, leverage, blinding)))
    <3>1. at \in Recent(margin)
      BY <2>3
    <3> QED BY <2>1, <2>5, <3>1, TransferAccepted
  <2> QED BY <2>4, <2>5 DEF RecentWitnessesAccepted
<1> QED BY <1>1, CommittedInit, CommittedNext, PTL DEF Spec

=============================================================================
