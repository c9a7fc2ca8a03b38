----------------------------- MODULE StateStore -----------------------------
(***************************************************************************)
(* The durable state of one node: the redb tables of store.rs and the      *)
(* entity encoding of state_commitment.rs.                                 *)
(*                                                                         *)
(* An engine state is cut into entities, one per key (EntityKey).  A       *)
(* commit writes only the entities that changed, together with the nodes   *)
(* of a Jellyfish Merkle tree over all of them, whose root is the          *)
(* application hash.  Only the current version of the tree is kept: every  *)
(* commit must remove exactly the nodes it made stale, or the tree leaks   *)
(* or dangles.  Opening the store rebuilds the state from the entities and *)
(* refuses it unless two independently derived roots agree.                *)
(*                                                                         *)
(* A Merkle root identifies the contents it was computed from, so a root   *)
(* is modelled as the function from keys to values itself; the tree is     *)
(* modelled with two levels, a root node and one leaf per key.             *)
(***************************************************************************)
EXTENDS Integers, Sequences, FiniteSets

CONSTANTS
    Families,     \* the OrdMap fields of EngineState: "accounts", "markets", ...
    Ids,          \* keys of those maps
    Values,       \* what an entity may hold
    Notes,        \* public notes of the shielded ledger
    Nullifiers,   \* spent-note markers
    None,         \* Option::None
    Deleted,      \* the value of a mutation that removes its key
    GenesisStates,\* the states InitChain may build from a genesis file
    MaxHeight,    \* bound: blocks
    MaxNotes,     \* bound: shielded notes
    MaxTouched,   \* bound: entities one block changes
    MaxFaults     \* bound: crashes, failed writes and failed starts

VARIABLES
    disk,       \* the four tables: entities, nodes, values, metadata
    txn,        \* None, or the redb write transaction under way
    committed,  \* ChainRuntime.committed: None or [state, root]
    pending,    \* ChainRuntime.pending: None or [state, root]
    running,    \* FALSE while the process is down
    failed,     \* None, or the error a call of the store returned
    faults,     \* crashes and failed writes so far
    durable     \* history: the state of the last transaction that committed

vars == <<disk, txn, committed, pending, running, failed, faults, durable>>

-----------------------------------------------------------------------------
(* Engine states. *)

\* The partial maps of a family.
Maps == UNION {[D -> Values] : D \in SUBSET Ids}

\* A shielded ledger: its notes in leaf order and the nullifiers spent.
Ledgers == [notes : UNION {[1..n -> Notes] : n \in 0..MaxNotes},
            spent : SUBSET Nullifiers]

\* What a block leaves behind.  The scalar fields of EngineState are the
\* height, the event log is one entity.
States == [height  : 0..MaxHeight,
           log     : Values,
           maps    : {m \in [Families -> Maps] :
                         DOMAIN m["markets"] = DOMAIN m["books"]},
           keySet  : Values \cup {None},
           ledger  : Ledgers \cup {None}]

ASSUME StoreAssumption ==
    /\ {"markets", "books"} \subseteq Families
    /\ {"shielded_note", "shielded_nullifier"} \cap Families = {}
    /\ None \notin Values \cup Ledgers
    /\ GenesisStates \subseteq {s \in States : s.height = 0}
    /\ MaxHeight \in Nat /\ MaxNotes \in Nat
    /\ MaxTouched \in Nat /\ MaxFaults \in Nat

-----------------------------------------------------------------------------
(* Entities (state_commitment.rs). *)

MetaKey == <<"meta">>
LogKey == <<"event_log">>
KeySetKey == <<"private_order_key_set">>
HeaderKey == <<"shielded_header">>
MapKey(f, i) == <<f, i>>
NoteKey(i) == <<"shielded_note", i>>
NullifierKey(n) == <<"shielded_nullifier", n>>

\* The persistence header names the note count and the root over the notes.
HeaderOf(ledger) == [count |-> Len(ledger.notes), root |-> ledger.notes]

MapKeys(s) == UNION {{MapKey(f, i) : i \in DOMAIN s.maps[f]} : f \in Families}
LedgerKeys(s) ==
    IF s.ledger = None
    THEN {}
    ELSE {HeaderKey} \cup {NoteKey(i) : i \in 1..Len(s.ledger.notes)}
                     \cup {NullifierKey(n) : n \in s.ledger.spent}

EntityKeys(s) == {MetaKey, LogKey} \cup MapKeys(s) \cup LedgerKeys(s)
                    \cup (IF s.keySet = None THEN {} ELSE {KeySetKey})

\* canonical_encode of the entity under key k.
EntityValue(s, k) ==
    CASE k = MetaKey                     -> s.height
      [] k = LogKey                      -> s.log
      [] k = KeySetKey                   -> s.keySet
      [] k = HeaderKey                   -> HeaderOf(s.ledger)
      [] k[1] = "shielded_note"          -> s.ledger.notes[k[2]]
      [] k[1] = "shielded_nullifier"     -> TRUE
      [] OTHER                           -> s.maps[k[1]][k[2]]

\* all_entities: every key of the state with its value.
all_entities(s) == [k \in EntityKeys(s) |-> EntityValue(s, k)]

\* Nothing is encoded as the absence of a value, and None is neither a state
\* nor a record of one.
ASSUME EncodingAssumption ==
    \A s \in States :
        /\ \A k \in EntityKeys(s) : EntityValue(s, k) # Deleted
        /\ None # s /\ None # [state |-> s, root |-> all_entities(s)]
        /\ \A v \in 0..MaxHeight : None # [version |-> v, root |-> all_entities(s)]

\* Mutant: an entry that disappears is not written.
NoRemovals(prev, next, f) ==
    LET old == prev.maps[f]
        new == next.maps[f]
    IN  [k \in {MapKey(f, i) : i \in {j \in DOMAIN new :
                    j \notin DOMAIN old \/ new[j] # old[j]}} |-> new[k[2]]]

\* push_map_diff for one family: additions, updates and removals.
push_map_diff(prev, next, f) ==
    LET old == prev.maps[f]
        new == next.maps[f]
        added   == {i \in DOMAIN new : i \notin DOMAIN old}
        updated == {i \in DOMAIN new \cap DOMAIN old : new[i] # old[i]}
        removed == DOMAIN old \ DOMAIN new
    IN  [k \in {MapKey(f, i) : i \in added \cup updated \cup removed} |->
            IF k[2] \in removed THEN Deleted ELSE new[k[2]]]

\* The ledger may only grow: push_shielded_diff refuses anything else.
ShieldedAppendOnly(prev, next) ==
    (prev # None /\ next # None) =>
        /\ Len(next.notes) >= Len(prev.notes)
        /\ SubSeq(next.notes, 1, Len(prev.notes)) = prev.notes
        /\ prev.spent \subseteq next.spent

\* push_shielded_diff: the complete ledger when it appears, deletions when it
\* disappears, and otherwise the notes appended, the nullifiers added and the
\* header when it changed.
push_shielded_diff(prev, next) ==
    LET before == LedgerKeys(prev)
        after == LedgerKeys(next)
        kept == IF prev.ledger # None /\ next.ledger # None
                   /\ HeaderOf(prev.ledger) # HeaderOf(next.ledger)
                THEN {HeaderKey} ELSE {}
    IN  [k \in (after \ before) \cup (before \ after) \cup kept |->
            IF k \in after THEN EntityValue(next, k) ELSE Deleted]

\* An entity that is written when its value differs.
ScalarDiff(prev, next, k) ==
    IF k \in EntityKeys(prev) /\ k \in EntityKeys(next)
       /\ EntityValue(prev, k) = EntityValue(next, k)
    THEN <<>>
    ELSE [j \in {k} \cap (EntityKeys(prev) \cup EntityKeys(next)) |->
            IF j \in EntityKeys(next) THEN EntityValue(next, j) ELSE Deleted]

\* g overrides f.
Merge(f, g) == [k \in DOMAIN f \cup DOMAIN g |->
                   IF k \in DOMAIN g THEN g[k] ELSE f[k]]

\* Mutant: a change of the private-order key set is forgotten.
SkipKeySet(prev, next) ==
    IF prev = None
    THEN all_entities(next)
    ELSE LET maps == {push_map_diff(prev, next, f) : f \in Families}
         IN  Merge(Merge(ScalarDiff(prev, next, MetaKey), ScalarDiff(prev, next, LogKey)),
                   Merge([k \in UNION {DOMAIN d : d \in maps} |->
                            (CHOOSE d \in maps : k \in DOMAIN d)[k]],
                         push_shielded_diff(prev, next)))

\* state_mutations: everything when there is no previous state, else the
\* difference, field by field.
state_mutations(prev, next) ==
    IF prev = None
    THEN all_entities(next)
    ELSE LET maps == {push_map_diff(prev, next, f) : f \in Families}
             mapDiff == [k \in UNION {DOMAIN d : d \in maps} |->
                            (CHOOSE d \in maps : k \in DOMAIN d)[k]]
             scalars == Merge(ScalarDiff(prev, next, MetaKey),
                          Merge(ScalarDiff(prev, next, LogKey),
                                ScalarDiff(prev, next, KeySetKey)))
         IN  Merge(scalars, Merge(mapDiff, push_shielded_diff(prev, next)))

-----------------------------------------------------------------------------
(* Reading a state back (decode_state). *)

\* The families, the ledger and the scalars found among the entities.
DecodedMaps(e) ==
    [f \in Families |->
        [i \in {j \in Ids : MapKey(f, j) \in DOMAIN e} |-> e[MapKey(f, i)]]]
NoteIndexes(e) == {i \in 1..MaxNotes : NoteKey(i) \in DOMAIN e}
SpentMarkers(e) == {n \in Nullifiers : NullifierKey(n) \in DOMAIN e}

\* rebuild_from_persistence: the notes are exactly the header's count and give
\* the header's root.
LedgerIntact(e) ==
    IF HeaderKey \in DOMAIN e
    THEN /\ NoteIndexes(e) = 1..e[HeaderKey].count
         /\ [i \in NoteIndexes(e) |-> e[NoteKey(i)]] = e[HeaderKey].root
    ELSE NoteIndexes(e) = {} /\ SpentMarkers(e) = {}

\* decode_state succeeds on these entities.
Decodable(e) ==
    /\ {MetaKey, LogKey} \subseteq DOMAIN e
    /\ DOMAIN DecodedMaps(e)["markets"] = DOMAIN DecodedMaps(e)["books"]
    /\ LedgerIntact(e)

decode_state(e) ==
    [height |-> e[MetaKey],
     log    |-> e[LogKey],
     maps   |-> DecodedMaps(e),
     keySet |-> IF KeySetKey \in DOMAIN e THEN e[KeySetKey] ELSE None,
     ledger |-> IF HeaderKey \in DOMAIN e
                THEN [notes |-> [i \in NoteIndexes(e) |-> e[NoteKey(i)]],
                      spent |-> SpentMarkers(e)]
                ELSE None]

-----------------------------------------------------------------------------
(* The Merkle tree over the entities. *)

\* compute_state_root: the root over all entities, from an empty tree.
compute_state_root(s) == all_entities(s)

RootKey(v) == <<v, <<"root">>>>
LeafKey(v, k) == <<v, k>>

\* The leaf a root node points to.
Child(root, k) == LeafKey(root.children[k], k)

\* put_value_set of the jmt crate: the nodes a batch writes and the ones it
\* makes stale.  An empty batch copies the root and reports nothing stale.
put_value_set(nodes, mutations, v) ==
    LET old == IF v > 0 THEN nodes[RootKey(v - 1)]
                        ELSE [children |-> <<>>, hash |-> <<>>]
        gone == {k \in DOMAIN mutations : mutations[k] = Deleted}
        put  == DOMAIN mutations \ gone
        keys == (DOMAIN old.children \ gone) \cup put
        root == [children |-> [k \in keys |-> IF k \in put THEN v
                                              ELSE old.children[k]],
                 hash     |-> [k \in keys |-> IF k \in put THEN mutations[k]
                                              ELSE old.hash[k]]]
    IN  [root  |-> root.hash,
         nodes |-> [n \in {RootKey(v)} \cup {LeafKey(v, k) : k \in put} |->
                      IF n = RootKey(v) THEN root ELSE mutations[n[2]]],
         stale |-> {Child(old, k) : k \in DOMAIN mutations \cap DOMAIN old.children}
                     \cup (IF DOMAIN mutations # {} /\ v > 0
                           THEN {RootKey(v - 1)} ELSE {})]

\* Removing keys from a table.
Without(table, keys) == [k \in DOMAIN table \ keys |-> table[k]]

\* Mutant: stale leaves stay in the node table.
KeepStale(nodes, update, v) == Without(Merge(nodes, update.nodes), {RootKey(v - 1)})

\* write_tree_update: new nodes in, stale nodes out, and the previous root
\* out even when the update did not report it; values keep the latest only.
WrittenNodes(nodes, update, v) ==
    Without(Merge(nodes, update.nodes), update.stale \cup {RootKey(v - 1)})
WrittenValues(values, mutations, v) ==
    LET gone == {k \in DOMAIN mutations : mutations[k] = Deleted}
    IN  Without(Merge(values, [k \in DOMAIN mutations |->
                                  [version |-> v, value |-> mutations[k]]]), gone)

\* The stale index must name nodes that exist.
StaleIndexOk(nodes, update) ==
    update.stale \subseteq DOMAIN nodes \cup DOMAIN update.nodes

\* build_update: the version to write and the update, from the metadata on
\* disk and the state in memory.
Initialized == disk.metadata # None
VersionToWrite == IF Initialized THEN disk.metadata.version + 1 ELSE 0
BuildRefused(prev) == Initialized # (prev # None)
build_update(prev, next) ==
    put_value_set(disk.nodes, state_mutations(prev, next), VersionToWrite)

-----------------------------------------------------------------------------
(* load_state and the process. *)

EmptyDisk == [entities |-> <<>>, nodes |-> <<>>, values |-> <<>>,
              metadata |-> None]

\* load_state finds metadata and entities, or neither, and both derivations of
\* the root give the stored one.
Loadable(d) ==
    \/ d.metadata = None /\ DOMAIN d.entities = {}
    \/ /\ d.metadata # None
       /\ Decodable(d.entities)
       /\ compute_state_root(decode_state(d.entities)) = d.metadata.root
       /\ RootKey(d.metadata.version) \in DOMAIN d.nodes
       /\ d.nodes[RootKey(d.metadata.version)].hash = d.metadata.root

load_state(d) == IF d.metadata = None THEN None
                 ELSE [state |-> decode_state(d.entities),
                       root  |-> d.metadata.root]

Init ==
    /\ disk = EmptyDisk
    /\ txn = None
    /\ committed = None /\ pending = None
    /\ running = FALSE /\ failed = None
    /\ faults = 0
    /\ durable = None

Idle == running /\ txn = None /\ failed = None

\* ChainRuntime::open: load_state, then the hash is checked once more.
Open ==
    /\ ~running
    /\ IF Loadable(disk)
       THEN /\ running' = TRUE
            /\ committed' = load_state(disk)
            /\ UNCHANGED failed
       ELSE /\ failed' = "load_state"
            /\ UNCHANGED <<running, committed>>
    /\ UNCHANGED <<disk, txn, pending, faults, durable>>

\* The process dies: memory and the write transaction are gone.
Crash ==
    /\ running /\ faults < MaxFaults
    /\ faults' = faults + 1
    /\ running' = FALSE
    /\ txn' = None /\ committed' = None /\ pending' = None /\ failed' = None
    /\ UNCHANGED <<disk, durable>>

\* A write transaction: the tables as they will be, and the steps left.
Steps == <<"entities", "nodes", "values", "metadata">>
Begin(kind, state, v, mutations, update, base) ==
    [kind |-> kind, state |-> state, version |-> v, mutations |-> mutations,
     update |-> update, tables |-> base, step |-> 1]

\* InitChain on an empty store persists the genesis state.
BeginGenesis ==
    /\ Idle /\ committed = None
    /\ \E s \in GenesisStates :
          IF BuildRefused(None)
          THEN failed' = "build_update" /\ UNCHANGED txn
          ELSE /\ txn' = Begin("genesis", s, VersionToWrite,
                               state_mutations(None, s), build_update(None, s), disk)
               /\ UNCHANGED failed
    /\ UNCHANGED <<disk, committed, pending, running, faults, durable>>

\* The states a block can produce from s: it never adds or drops a market or
\* the ledger, and the ledger only grows.
Successors(s) ==
    {t \in {u \in States : u.height = s.height + 1} :
        /\ DOMAIN t.maps["markets"] = DOMAIN s.maps["markets"]
        /\ s.ledger = None <=> t.ledger = None
        /\ ShieldedAppendOnly(s.ledger, t.ledger)
        /\ Cardinality(DOMAIN state_mutations(s, t)) <= MaxTouched}

\* FinalizeBlock: execute the block and preview the root it will have.
FinalizeBlock ==
    /\ Idle /\ committed # None
    /\ \E t \in Successors(committed.state) :
          IF BuildRefused(committed.state)
             \/ ~ShieldedAppendOnly(committed.state.ledger, t.ledger)
          THEN failed' = "preview_state_root" /\ UNCHANGED pending
          ELSE /\ pending' = [state |-> t,
                              root  |-> build_update(committed.state, t).root]
               /\ UNCHANGED failed
    /\ UNCHANGED <<disk, txn, committed, running, faults, durable>>

\* Commit: open the write transaction for the pending state.
BeginCommit ==
    /\ Idle /\ pending # None /\ committed # None
    /\ IF BuildRefused(committed.state)
       THEN failed' = "build_update" /\ UNCHANGED txn
       ELSE /\ txn' = Begin("commit", pending.state, VersionToWrite,
                            state_mutations(committed.state, pending.state),
                            build_update(committed.state, pending.state), disk)
            /\ UNCHANGED failed
    /\ UNCHANGED <<disk, committed, pending, running, faults, durable>>

\* replace_state: a verified snapshot replaces a store that holds no block;
\* every table starts empty and the tree restarts at version zero.
BeginReplace ==
    /\ Idle /\ pending = None
    /\ committed # None => committed.state.height = 0
    /\ \E g \in GenesisStates : \E s \in Successors(g) :
          txn' = Begin("replace", s, 0, all_entities(s),
                       put_value_set(<<>>, all_entities(s), 0),
                       EmptyDisk)
    /\ UNCHANGED <<disk, committed, pending, running, failed, faults, durable>>

\* The table each step of the transaction fills.
Staged(t) ==
    CASE Steps[t.step] = "entities" ->
            [t.tables EXCEPT !.entities =
                Without(Merge(@, t.mutations),
                        {k \in DOMAIN t.mutations : t.mutations[k] = Deleted})]
      [] Steps[t.step] = "nodes" ->
            [t.tables EXCEPT !.nodes = WrittenNodes(@, t.update, t.version)]
      [] Steps[t.step] = "values" ->
            [t.tables EXCEPT !.values = WrittenValues(@, t.mutations, t.version)]
      [] Steps[t.step] = "metadata" ->
            [t.tables EXCEPT !.metadata = [version |-> t.version,
                                           root |-> t.update.root]]

\* One table is written inside the transaction; nothing is visible yet.
Stage ==
    /\ txn # None /\ txn.step <= Len(Steps)
    /\ IF Steps[txn.step] = "nodes" /\ ~StaleIndexOk(txn.tables.nodes, txn.update)
       THEN txn' = None /\ failed' = "stale index"
       ELSE /\ txn' = [txn EXCEPT !.tables = Staged(txn), !.step = @ + 1]
            /\ UNCHANGED failed
    /\ UNCHANGED <<disk, committed, pending, running, faults, durable>>

\* The write fails before it commits: redb drops the transaction, the caller
\* keeps its pending block and may commit again.
WriteFails ==
    /\ txn # None /\ faults < MaxFaults
    /\ faults' = faults + 1
    /\ txn' = None
    /\ UNCHANGED <<disk, committed, pending, running, failed, durable>>

\* write.commit(): the tables become visible at once and the runtime adopts
\* the state, provided the root is the one FinalizeBlock announced.
CommitWrite ==
    /\ txn # None /\ txn.step > Len(Steps)
    /\ disk' = txn.tables
    /\ durable' = txn.state
    /\ txn' = None
    /\ IF txn.kind = "commit" /\ txn.update.root # pending.root
       THEN failed' = "StateHashMismatch" /\ UNCHANGED <<committed, pending>>
       ELSE /\ committed' = [state |-> txn.state, root |-> txn.update.root]
            /\ pending' = None
            /\ UNCHANGED failed
    /\ UNCHANGED <<running, faults>>

Next ==
    \/ Open \/ Crash
    \/ BeginGenesis \/ FinalizeBlock \/ BeginCommit \/ BeginReplace
    \/ Stage \/ WriteFails \/ CommitWrite

Spec == Init /\ [][Next]_vars

-----------------------------------------------------------------------------
(* Properties. *)

TypeOK ==
    /\ disk.metadata = None \/ disk.metadata.version \in 0..MaxHeight
    /\ committed = None \/ committed.state \in States
    /\ pending = None \/ pending.state \in States
    /\ durable = None \/ durable \in States
    /\ running \in BOOLEAN /\ faults \in 0..MaxFaults
    /\ txn = None \/ txn.step \in 1..5

\* Whatever point the process dies at, the tables on disk open again and give
\* exactly the state whose transaction committed last: load_state never meets
\* entities, nodes and metadata of different commits, nor an incremental write
\* that differs from the full encoding; and no call of the store has returned
\* an error that the store itself caused.
RecoversDurableState ==
    /\ TypeOK /\ failed = None
    /\ Loadable(disk)
    /\ IF durable = None THEN disk.metadata = None
                         ELSE load_state(disk).state = durable

\* The value table the tree reads agrees with the entities, key by key, and
\* no value is newer than the version of the store.
ValuesMatchEntities ==
    /\ DOMAIN disk.values = DOMAIN disk.entities
    /\ \A k \in DOMAIN disk.values :
          /\ disk.values[k].value = disk.entities[k]
          /\ disk.values[k].version <= disk.metadata.version

\* Current-only storage: the node table holds the root of the current version
\* and the leaves it points to, and nothing else; nothing leaks and nothing
\* dangles, through updates, deletions and empty updates, and the values the
\* tree reads are those of the entities.
NodesAreCurrentTree ==
    /\ ValuesMatchEntities
    /\ disk.metadata # None =>
          LET root == disk.nodes[RootKey(disk.metadata.version)]
          IN  DOMAIN disk.nodes =
                  {RootKey(disk.metadata.version)}
                    \cup {Child(root, k) : k \in DOMAIN root.children}

\* The root FinalizeBlock announces, computed from the difference to the last
\* block, is the root a node computes that encodes the whole state from
\* nothing, as an importer of a snapshot does.
PreviewIsStateRoot ==
    pending # None => pending.root = compute_state_root(pending.state)
=============================================================================
