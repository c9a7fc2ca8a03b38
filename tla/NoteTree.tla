------------------------------ MODULE NoteTree ------------------------------
(***************************************************************************)
(* The append-only Merkle tree of note commitments (shielded_margin.rs).   *)
(* Hashes are symbolic and collision free: a hash is the tuple of what was *)
(* hashed, with its domain.  The tree keeps its leaves and a cache of the  *)
(* inner nodes on every path appended so far; the root is maintained       *)
(* incrementally and never recomputed from the leaves.                     *)
(***************************************************************************)
EXTENDS Naturals, Sequences, SequencesExt

CONSTANT MERKLE_DEPTH

ASSUME DepthAssumption == MERKLE_DEPTH \in Nat \ {0}

Heights == 0 .. MERKLE_DEPTH

(* 1 << height: the leaves under a node at a height. *)
span[height \in Heights] == IF height = 0 THEN 1 ELSE 2 * span[height - 1]

merkle_capacity == span[MERKLE_DEPTH]

(* The nodes of the tree at a height count from zero. *)
Indices(height) == 0 .. span[MERKLE_DEPTH - height] - 1

merkle_leaf_hash(note) == <<"leaf", note>>

merkle_node_hash(left, right) == <<"node", left, right>>

merkle_zero_hashes[height \in Heights] ==
    IF height = 0 THEN <<"empty">>
    ELSE merkle_node_hash(merkle_zero_hashes[height - 1],
                          merkle_zero_hashes[height - 1])

EmptyTree == [leaves |-> <<>>,
              nodes |-> <<>>,
              cached_root |-> merkle_zero_hashes[MERKLE_DEPTH]]

contains(tree, commitment) ==
    \E i \in DOMAIN tree.leaves : tree.leaves[i].commitment = commitment

(* The note at a leaf index; indices count from zero. *)
Leaf(tree, index) == tree.leaves[index + 1]

LeafIndices(tree) == 0 .. Len(tree.leaves) - 1

(* The ancestor of a leaf at a height: its index is halved at each step.   *)
Ancestor(leaf_index, height) ==
    LET index[h \in Heights] ==
            IF h = 0 THEN leaf_index ELSE index[h - 1] \div 2
    IN  index[height]

(* The hash over a child: its sibling is empty on the right, or cached on  *)
(* the left by an earlier append.                                          *)
HashOver(tree, height, index, child) ==
    IF index % 2 = 0
    THEN merkle_node_hash(child, merkle_zero_hashes[height])
    ELSE merkle_node_hash(tree.nodes[<<height, index - 1>>], child)

cache_append_path(tree, leaf_hash, leaf_index) ==
    LET current[height \in Heights] ==
            IF height = 0 THEN leaf_hash
            ELSE HashOver(tree, height - 1, Ancestor(leaf_index, height - 1),
                          current[height - 1])
        path == {<<height, Ancestor(leaf_index, height)>> : height \in Heights}
    IN  [tree EXCEPT
            !.nodes = [p \in path \cup DOMAIN @ |->
                          IF p \in path THEN current[p[1]] ELSE @[p]],
            !.cached_root = current[MERKLE_DEPTH]]

CanAppend(tree, note) ==
    /\ ~ contains(tree, note.commitment)
    /\ Len(tree.leaves) < merkle_capacity

append(tree, note) ==
    LET cached == cache_append_path(tree, merkle_leaf_hash(note),
                                    Len(tree.leaves))
    IN  [cached EXCEPT !.leaves = Append(@, note)]

AppendAll(tree, notes) == FoldLeft(append, tree, notes)

Sibling(index) == IF index % 2 = 0 THEN index + 1 ELSE index - 1

proof(tree, leaf_index) ==
    LET At(height) == <<height, Sibling(Ancestor(leaf_index, height))>>
    IN  [leaf_index |-> leaf_index,
         siblings |->
            [k \in 1 .. MERKLE_DEPTH |->
                IF At(k - 1) \in DOMAIN tree.nodes THEN tree.nodes[At(k - 1)]
                ELSE merkle_zero_hashes[k - 1]]]

HashWith(sibling, index, child) ==
    IF index % 2 = 0 THEN merkle_node_hash(child, sibling)
    ELSE merkle_node_hash(sibling, child)

RootOfProof(merkle_proof, note) ==
    LET current[height \in Heights] ==
            IF height = 0 THEN merkle_leaf_hash(note)
            ELSE HashWith(merkle_proof.siblings[height],
                          Ancestor(merkle_proof.leaf_index, height - 1),
                          current[height - 1])
    IN  current[MERKLE_DEPTH]

\* Mutant: does not bound the leaf index.
verify_any_index(merkle_proof, note, expected_root) ==
    /\ Len(merkle_proof.siblings) = MERKLE_DEPTH
    /\ RootOfProof(merkle_proof, note) = expected_root

verify(merkle_proof, note, expected_root) ==
    /\ Len(merkle_proof.siblings) = MERKLE_DEPTH
    /\ merkle_proof.leaf_index \in 0 .. merkle_capacity - 1
    /\ RootOfProof(merkle_proof, note) = expected_root

(* The root of the first leaf_count leaves, from the cache of the whole    *)
(* tree: a full subtree is read, an empty one is zero, a partial one is    *)
(* computed from its halves.                                               *)
PrefixLevel(tree, leaf_count, height, below) ==
    [index \in Indices(height) |->
        IF leaf_count <= index * span[height]
        THEN merkle_zero_hashes[height]
        ELSE IF leaf_count >= (index + 1) * span[height]
        THEN tree.nodes[<<height, index>>]
        ELSE merkle_node_hash(below[2 * index], below[2 * index + 1])]

prefix_subtree_root(tree, leaf_count) ==
    LET subtree[height \in Heights] ==
            IF height = 0 THEN PrefixLevel(tree, leaf_count, 0, <<>>)
            ELSE PrefixLevel(tree, leaf_count, height, subtree[height - 1])
    IN  subtree[MERKLE_DEPTH][0]

root_at_leaf_count(tree, leaf_count) ==
    IF leaf_count = Len(tree.leaves) THEN tree.cached_root
    ELSE prefix_subtree_root(tree, leaf_count)

-----------------------------------------------------------------------------
(* Reference: the nodes and the root over a list of notes, padded with     *)
(* empty leaves.                                                           *)
LeafLevel(leaves) ==
    [index \in Indices(0) |->
        IF index < Len(leaves) THEN merkle_leaf_hash(leaves[index + 1])
        ELSE merkle_zero_hashes[0]]

NodeLevel(height, below) ==
    [index \in Indices(height) |->
        merkle_node_hash(below[2 * index], below[2 * index + 1])]

ReferenceNodes(leaves) ==
    LET level[height \in Heights] ==
            IF height = 0 THEN LeafLevel(leaves)
            ELSE NodeLevel(height, level[height - 1])
    IN  level

ReferenceRoot(leaves) == ReferenceNodes(leaves)[MERKLE_DEPTH][0]

=============================================================================
