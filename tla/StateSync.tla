------------------------------ MODULE StateSync ------------------------------
(***************************************************************************)
(* State sync: a node that holds the chain serves its state in chunks      *)
(* (StateSnapshotExport), a new node rebuilds it (StateSnapshotImport) and *)
(* adopts it only when the application hash is the one its light client    *)
(* verified.  state_sync.rs and the four snapshot handlers of              *)
(* consensus.rs.                                                           *)
(*                                                                         *)
(* A body stands for the canonical bytes of a state.  Hashes identify what *)
(* they are taken of: a chunk hash is the chunk, an application hash is    *)
(* the state a body decodes to.  The network keeps every descriptor and    *)
(* chunk that was ever sent, so answers arrive late, twice or in another   *)
(* order; Forged and Garbage are what peers send that no node exported.    *)
(*                                                                         *)
(* CometBFT's syncer is external.  The handlers may be called in any order *)
(* (nothing in them relies on another), but what the syncer goes on to do  *)
(* follows from their answers: it offers, it applies, or it has ended,     *)
(* after the last chunk or an Abort, and then stays so until a restart.    *)
(***************************************************************************)
EXTENDS Integers, Sequences, FiniteSets

CONSTANTS
    Nodes,       \* the nodes; every one may serve and, while empty, import
    Servers,     \* the ones that start with the first block committed
    ChainId,     \* the chain's id
    SizeOf,      \* SizeOf[h]: bytes of the state at height h
    ChunkBytes,  \* STATE_SNAPSHOT_CHUNK_BYTES
    MaxBytes,    \* MAX_STATE_SNAPSHOT_BYTES
    Forged,      \* descriptors no node exported
    Garbage,     \* chunks no node exported
    None,
    MaxHeight,   \* bound: blocks of the chain
    MaxOffers,   \* bound: forged or unasked-for offers, snapshots given up early
    MaxFaults    \* bound: crashes and failed writes

ASSUME SyncAssumption ==
    /\ Servers \subseteq Nodes
    /\ ChainId \in STRING
    /\ MaxHeight \in Nat \ {0}
    /\ ChunkBytes \in Nat \ {0}
    /\ MaxBytes \in Nat
    /\ \A h \in 0..MaxHeight : SizeOf[h] \in 1..MaxBytes

VARIABLES
    committed,   \* [Nodes -> body or None]
    pending,     \* [Nodes -> body or None]
    disk,        \* [Nodes -> body or None]: what the store holds
    running,     \* [Nodes -> BOOLEAN]
    exports,     \* [Nodes -> <<current, previous>>], bodies or None
    import,      \* [Nodes -> None or the import under way]
    reply,       \* [Nodes -> the last answer to an offer or a chunk]
    syncer,      \* [Nodes -> "offering", "applying" or "ended"]: CometBFT's, external
    failed,      \* nodes whose replace_state failed since they started
    listed,      \* descriptors sent by ListSnapshots
    offers,      \* what MaxOffers bounds, so far
    faults       \* crashes and failed writes so far

vars == <<committed, pending, disk, running, exports, import, reply, syncer,
          failed, listed, offers, faults>>

-----------------------------------------------------------------------------
(* Bodies, chunks and descriptors. *)

\* The state of the chain at height h; a tag other than 0 is another content.
Canon(h) == [chain |-> ChainId, height |-> h, size |-> SizeOf[h],
             canonical |-> TRUE, tag |-> 0]

\* What a chunk hash is taken of: a slice of some body, or no bytes at all.
Bodies == [chain : STRING, height : Nat, size : Nat, canonical : BOOLEAN, tag : Nat]
NoChunk == [body |-> None, index |-> 0, len |-> 0]
AnyChunk == [body : Bodies, index : Nat, len : Nat] \cup {NoChunk}

\* Peers may put anything into a descriptor, but CometBFT hands the application
\* an offer only with the hash its light client verified for that height: a
\* height the chain has.
ASSUME ForgedAssumption ==
    \A d \in Forged : d.height \in 0..MaxHeight /\ d.metadata.hashes \in Seq(AnyChunk)

\* compute_app_hash of the state a body decodes to: bytes that are not in
\* canonical form decode to the same state.
AppHash(b) == [b EXCEPT !.canonical = TRUE]

SmallerOf(a, b) == IF a < b THEN a ELSE b
ChunkCount(size) == (size + ChunkBytes - 1) \div ChunkBytes

\* The i-th slice of a body, counted from zero.
Chunk(b, i) == [body |-> b, index |-> i,
                len |-> SmallerOf(b.size - i * ChunkBytes, ChunkBytes)]
Chunks(b) == [i \in 1..ChunkCount(b.size) |-> Chunk(b, i - 1)]

Metadata(b) == [schema |-> 1, chain |-> b.chain, height |-> b.height,
                appHash |-> AppHash(b), bytes |-> b.size,
                chunkBytes |-> ChunkBytes, hashes |-> Chunks(b)]

\* StateSnapshotExport::create; None for a state it refuses.
Descriptor(b) == [height |-> b.height, format |-> 1, chunks |-> ChunkCount(b.size),
                  hash |-> <<Metadata(b), Chunks(b)>>, metadata |-> Metadata(b)]
Exportable(b) == b.height > 0 /\ b.size \in 1..MaxBytes

\* validate_metadata.
MetadataOk(meta, chunks) ==
    /\ meta.schema = 1
    /\ meta.height > 0
    /\ meta.bytes \in 1..MaxBytes
    /\ meta.chunkBytes = ChunkBytes
    /\ ChunkCount(meta.bytes) = Len(meta.hashes)
    /\ ChunkCount(meta.bytes) = chunks

\* StateSnapshotImport::from_offer, after the format check.
OfferOk(d, lightHash) ==
    /\ MetadataOk(d.metadata, d.chunks)
    /\ d.height = d.metadata.height
    /\ d.metadata.appHash = lightHash

NewImport(d, lightHash) ==
    [metadata |-> d.metadata, hash |-> d.hash, appHash |-> lightHash,
     chunks |-> <<>>]

\* expected_index and chunk_count.
Expected(imp) == Len(imp.chunks)
Count(imp) == Len(imp.metadata.hashes)
expected_chunk_len(meta, i) == SmallerOf(meta.bytes - i * ChunkBytes, ChunkBytes)

\* apply_chunk accepts this chunk at this index.
ChunkInOrder(imp, i) == i = Expected(imp) /\ i < Count(imp)

ChunkOk(imp, i, c) ==
    /\ c.len = expected_chunk_len(imp.metadata, i)
    /\ c = imp.metadata.hashes[i + 1]

\* finalize: the chunks make up one body, whose snapshot hash, canonical
\* form, identity and application hash are all checked.
Assembled(imp) == imp.chunks[1].body
\* Mutant: the bytes need not be the canonical encoding of what they decode to.
FinalizesAnyEncoding(imp) ==
    LET b == Assembled(imp)
    IN  /\ imp.chunks = Chunks(b)
        /\ <<imp.metadata, imp.chunks>> = imp.hash
        /\ b.chain = imp.metadata.chain /\ b.height = imp.metadata.height
        /\ AppHash(b) = imp.appHash

Finalizes(imp) ==
    LET b == Assembled(imp)
    IN  /\ imp.chunks = Chunks(b)
        /\ <<imp.metadata, imp.chunks>> = imp.hash
        /\ b.canonical
        /\ b.chain = imp.metadata.chain /\ b.height = imp.metadata.height
        /\ AppHash(b) = imp.appHash

-----------------------------------------------------------------------------
Answer(result, refetch) == [result |-> result, refetch |-> refetch]
NoAnswer == Answer("none", {})

\* A process that starts without the chain's blocks is given snapshots.
Starts(n) == IF n \in Servers THEN "ended" ELSE "offering"

\* A handler's answer, and the syncer's phase after it.
Says(n, result, refetch, phase) ==
    /\ reply' = [reply EXCEPT ![n] = Answer(result, refetch)]
    /\ syncer' = [syncer EXCEPT ![n] = IF @ = "ended" THEN @ ELSE phase]

Init ==
    /\ committed = [n \in Nodes |-> IF n \in Servers THEN Canon(1) ELSE None]
    /\ disk = committed
    /\ pending = [n \in Nodes |-> None]
    /\ running = [n \in Nodes |-> TRUE]
    /\ exports = [n \in Nodes |-> <<None, None>>]
    /\ import = [n \in Nodes |-> None]
    /\ reply = [n \in Nodes |-> NoAnswer]
    /\ syncer = [n \in Nodes |-> Starts(n)]
    /\ failed = {} /\ listed = {}
    /\ offers = 0 /\ faults = 0

HeightOf(b) == IF b = None THEN 0 ELSE b.height
HasBlocks(n) == HeightOf(committed[n]) > 0

\* InitChain persists the genesis state; an import for this chain survives.
InitChain(n) ==
    /\ running[n] /\ committed[n] = None
    /\ committed' = [committed EXCEPT ![n] = Canon(0)]
    /\ disk' = [disk EXCEPT ![n] = Canon(0)]
    /\ import' = IF import[n] # None /\ import[n].metadata.chain = ChainId
                 THEN import ELSE [import EXCEPT ![n] = None]
    /\ UNCHANGED <<pending, running, exports, reply, syncer, failed, listed,
                   offers, faults>>

\* FinalizeBlock and Commit of the next block of the chain.
FinalizeBlock(n) ==
    /\ running[n] /\ committed[n] # None
    /\ committed[n].height < MaxHeight
    /\ pending' = [pending EXCEPT ![n] = Canon(committed[n].height + 1)]
    /\ UNCHANGED <<committed, disk, running, exports, import, reply, syncer,
                   failed, listed, offers, faults>>

Commit(n) ==
    /\ running[n] /\ pending[n] # None
    /\ disk' = [disk EXCEPT ![n] = pending[n]]
    /\ committed' = [committed EXCEPT ![n] = pending[n]]
    /\ pending' = [pending EXCEPT ![n] = None]
    /\ UNCHANGED <<running, exports, import, reply, syncer, failed, listed,
                   offers, faults>>

\* Mutant: a new export replaces the only one.
ListNewestOnly(n) ==
    /\ running[n] /\ HasBlocks(n) /\ Exportable(committed[n])
    /\ exports' = [exports EXCEPT ![n] = <<committed[n], None>>]
    /\ listed' = listed \cup {Descriptor(committed[n])}
    /\ UNCHANGED <<committed, pending, disk, running, import, reply, syncer,
                   failed, offers, faults>>

\* list_snapshots: a new export when the committed state moved on; the one it
\* replaces is kept for peers that are still fetching it.
ListSnapshots(n) ==
    /\ running[n] /\ HasBlocks(n) /\ Exportable(committed[n])
    /\ exports' = IF exports[n][1] = committed[n]
                  THEN exports
                  ELSE [exports EXCEPT ![n] = <<committed[n], exports[n][1]>>]
    /\ listed' = listed \cup {Descriptor(committed[n])}
    /\ UNCHANGED <<committed, pending, disk, running, import, reply, syncer,
                   failed, offers, faults>>

\* load_chunk of the first export that has this height, else an empty chunk.
Loaded(n, h, i) ==
    LET have == {k \in 1..2 : exports[n][k] # None /\ exports[n][k].height = h
                              /\ i < ChunkCount(exports[n][k].size)}
    IN  IF have = {} THEN NoChunk
        ELSE Chunk(exports[n][CHOOSE k \in have : \A j \in have : k <= j], i)

\* What the network may deliver for a chunk request: any chunk that was ever
\* served, early or late, an empty answer, or something no node sent.
Deliverable ==
    UNION {{[index |-> i, chunk |-> Chunk(Canon(d.height), i)] :
               i \in 0..(d.chunks - 1)} : d \in listed}
      \cup {[index |-> i, chunk |-> NoChunk] : i \in 0..1}
      \cup Garbage

\* Mutant: any snapshot that is not acceptable ends the state sync.
OfferAborts(n, d) ==
    IF /\ pending[n] = None /\ ~HasBlocks(n)
       /\ d.format = 1 /\ OfferOk(d, AppHash(Canon(d.height)))
       /\ committed[n] # None => committed[n].chain = d.metadata.chain
    THEN "accept" ELSE "abort"

\* What offer_snapshot answers.  The light client verified the application
\* hash of the offered height.
OfferAnswer(n, d) ==
    IF pending[n] # None \/ HasBlocks(n) THEN "abort"
    ELSE IF d.format # 1 THEN "reject_format"
    ELSE IF /\ OfferOk(d, AppHash(Canon(d.height)))
            /\ committed[n] # None => committed[n].chain = d.metadata.chain
    THEN "accept" ELSE "reject"

\* The import after an offer: a second one may follow while the first import
\* is under way.
ImportAfterOffer(n, d) ==
    CASE OfferAnswer(n, d) = "abort" -> None
      [] OfferAnswer(n, d) = "accept" -> NewImport(d, AppHash(Canon(d.height)))
      [] OTHER -> import[n]

\* RejectFormat bars every snapshot of the format, the servers' one included.
AfterOffer(d, answer) ==
    CASE answer = "accept" -> "applying"
      [] answer = "abort" \/ (answer = "reject_format" /\ d.format = 1) -> "ended"
      [] OTHER -> "offering"

\* No server has the chunk the import waits for.
Awaited(imp) == imp.metadata.hashes[Expected(imp) + 1]
Stalled(n) == import[n] # None =>
    \A m \in Nodes : Loaded(m, import[n].metadata.height, Expected(import[n]))
                        # Awaited(import[n])

\* offer_snapshot.  Offers the syncer makes of what a server listed are not
\* counted.
OfferSnapshot(n, d) ==
    /\ running[n]
    /\ IF d \in listed /\ syncer[n] = "offering" THEN UNCHANGED offers
       ELSE offers < MaxOffers /\ offers' = offers + 1
    /\ import' = [import EXCEPT ![n] = ImportAfterOffer(n, d)]
    /\ Says(n, OfferAnswer(n, d), {}, AfterOffer(d, OfferAnswer(n, d)))
    /\ UNCHANGED <<committed, pending, disk, running, exports, failed, listed, faults>>

\* The syncer waits no longer for a chunk and rejects the snapshot.  Without a
\* server that has the chunk this is not counted.
GiveUp(n) ==
    /\ running[n] /\ syncer[n] = "applying"
    /\ \/ Stalled(n) /\ UNCHANGED offers
       \/ ~Stalled(n) /\ offers < MaxOffers /\ offers' = offers + 1
    /\ syncer' = [syncer EXCEPT ![n] = "offering"]
    /\ UNCHANGED <<committed, pending, disk, running, exports, import, reply,
                   failed, listed, faults>>

\* The import gives up its slot.
DropImport(n) == import' = [import EXCEPT ![n] = None]

\* A chunk that is out of order, or is not the one the metadata announces, is
\* asked for again; the import stays as it is.
RetryChunk(n, i, c) ==
    /\ import[n] # None
    /\ ~ChunkInOrder(import[n], i) \/ ~ChunkOk(import[n], i, c)
    /\ Says(n, "retry", {IF ChunkInOrder(import[n], i) THEN i ELSE Expected(import[n])},
            syncer[n])
    /\ UNCHANGED <<committed, disk, pending, exports, import, failed, faults>>

\* The next chunk, and it is not the last.
With(imp, c) == [imp EXCEPT !.chunks = Append(@, c)]
AcceptChunk(n, i, c) ==
    /\ import[n] # None
    /\ ChunkInOrder(import[n], i) /\ ChunkOk(import[n], i, c)
    /\ i + 1 < Count(import[n])
    /\ import' = [import EXCEPT ![n] = With(@, c)]
    /\ Says(n, "accept", {}, syncer[n])
    /\ UNCHANGED <<committed, disk, pending, exports, failed, faults>>

\* A node without a block, or with this chain's genesis, takes the state.
MayReplace(n, b) ==
    /\ pending[n] = None /\ ~HasBlocks(n)
    /\ committed[n] # None => committed[n].chain = b.chain

\* The last chunk: the body is verified and replaces the state of a node that
\* has no block yet.  Every other outcome drops the import.
LastChunk(n, i, c) ==
    /\ import[n] # None
    /\ ChunkInOrder(import[n], i) /\ ChunkOk(import[n], i, c)
    /\ i + 1 = Count(import[n])
    /\ DropImport(n)
    /\ LET imp == With(import[n], c)
           b == Assembled(imp)
       IN  \/ /\ ~Finalizes(imp)
              /\ Says(n, "reject_snapshot", {}, "offering")
              /\ UNCHANGED <<committed, disk, pending, exports, failed, faults>>
           \/ /\ Finalizes(imp)
              /\ ~MayReplace(n, b)
              /\ Says(n, "abort", {}, "ended")
              /\ UNCHANGED <<committed, disk, pending, exports, failed, faults>>
           \/ /\ Finalizes(imp)
              /\ MayReplace(n, b)
              /\ faults < MaxFaults          \* replace_state fails
              /\ faults' = faults + 1
              /\ failed' = failed \cup {n}
              /\ Says(n, "abort", {}, "ended")
              /\ UNCHANGED <<committed, disk, pending, exports>>
           \/ /\ Finalizes(imp)
              /\ MayReplace(n, b)
              /\ disk' = [disk EXCEPT ![n] = b]
              /\ committed' = [committed EXCEPT ![n] = b]
              /\ exports' = [exports EXCEPT ![n] = <<None, None>>]
              /\ Says(n, "accept", {}, "ended")
              /\ UNCHANGED <<pending, failed, faults>>

\* Without an import the whole snapshot is asked for again.
NoImport(n) ==
    /\ import[n] = None
    /\ Says(n, "retry_snapshot", {}, "offering")
    /\ UNCHANGED <<committed, disk, pending, exports, import, failed, faults>>

\* apply_snapshot_chunk with what the network delivers.  A chunk asked for at
\* one index is delivered under that index.
ApplySnapshotChunk(n, a) ==
    /\ running[n]
    /\ \/ NoImport(n)
       \/ RetryChunk(n, a.index, a.chunk)
       \/ AcceptChunk(n, a.index, a.chunk)
       \/ LastChunk(n, a.index, a.chunk)
    /\ UNCHANGED <<running, listed, offers>>

\* The process dies and opens its store again: exports, the import and the
\* pending block are gone.  It is no fault when an operator does this to a
\* node whose state sync has failed.
Crash(n) ==
    /\ running[n]
    /\ IF n \in failed THEN UNCHANGED faults
       ELSE faults < MaxFaults /\ faults' = faults + 1
    /\ running' = [running EXCEPT ![n] = FALSE]
    /\ committed' = [committed EXCEPT ![n] = None]
    /\ pending' = [pending EXCEPT ![n] = None]
    /\ exports' = [exports EXCEPT ![n] = <<None, None>>]
    /\ import' = [import EXCEPT ![n] = None]
    /\ reply' = [reply EXCEPT ![n] = NoAnswer]
    /\ syncer' = [syncer EXCEPT ![n] = Starts(n)]
    /\ failed' = failed \ {n}
    /\ UNCHANGED <<disk, listed, offers>>

Restart(n) ==
    /\ ~running[n]
    /\ running' = [running EXCEPT ![n] = TRUE]
    /\ committed' = [committed EXCEPT ![n] = disk[n]]
    /\ UNCHANGED <<pending, disk, exports, import, reply, syncer, failed,
                   listed, offers, faults>>

Next == \E n \in Nodes :
    \/ InitChain(n) \/ FinalizeBlock(n) \/ Commit(n)
    \/ ListSnapshots(n) \/ GiveUp(n)
    \/ \E d \in listed \cup Forged : OfferSnapshot(n, d)
    \/ \E a \in Deliverable : ApplySnapshotChunk(n, a)
    \/ Crash(n) \/ Restart(n)

Spec == Init /\ [][Next]_vars

\* A node that is down comes up, a pending block is committed, a server lists
\* its state.  A syncer does what the answers tell it to: while it offers, it
\* is given what a server lists now; while it applies, it fetches the chunk it
\* was told to fetch again, else the next one, from a server that has it; it
\* does not wait for good for a chunk nobody has.  Once ended it does nothing.
\* CometBFT offers no snapshot twice: the last of this bounded chain stands
\* for those of later blocks.
OfferAgain(n) ==
    /\ syncer[n] = "offering"
    /\ \E m \in Nodes :
          /\ exports[m][1] # None
          /\ OfferSnapshot(n, Descriptor(exports[m][1]))
Wanted(n) == IF reply[n].refetch = {} THEN {Expected(import[n])} ELSE reply[n].refetch
ApplyNext(n) ==
    /\ syncer[n] = "applying" /\ import[n] # None
    /\ \E m \in Nodes, i \in Wanted(n) :
          LET c == Loaded(m, import[n].metadata.height, i)
          IN  c # NoChunk /\ ApplySnapshotChunk(n, [index |-> i, chunk |-> c])
Fairness ==
    \A n \in Nodes :
        /\ WF_vars(Restart(n)) /\ WF_vars(Commit(n)) /\ WF_vars(ListSnapshots(n))
        /\ WF_vars(Stalled(n) /\ GiveUp(n))
        /\ SF_vars(OfferAgain(n)) /\ SF_vars(ApplyNext(n))

LiveSpec == Spec /\ Fairness

-----------------------------------------------------------------------------
(* Properties. *)

TypeOK ==
    \A n \in Nodes :
        /\ committed[n] = None \/ committed[n].height \in 0..MaxHeight
        /\ pending[n] = None \/ pending[n].height \in 1..MaxHeight
        /\ running[n] \in BOOLEAN
        /\ import[n] = None \/ Expected(import[n]) <= Count(import[n])

\* What an import holds is a proper prefix of the announced chunks: nothing
\* twice, nothing out of order, and never a complete set that no later call
\* could finish or drop.
ImportIsProperPrefix ==
    \A n \in Nodes : import[n] # None =>
        /\ Expected(import[n]) < Count(import[n])
        /\ import[n].chunks = SubSeq(import[n].metadata.hashes, 1, Expected(import[n]))

\* Whatever peers send, in whatever order, the state a node adopts is the
\* state of the chain at its height, byte for byte: forged bodies, foreign
\* chains, and bytes that merely decode to the right state never get in, an
\* import never mixes chunks, and a node that runs has in memory what it would
\* load from its store (apply_snapshot_chunk, SnapshotImport::finalize).
AdoptsOnlyTheChain ==
    /\ TypeOK /\ ImportIsProperPrefix
    /\ \A n \in Nodes :
          /\ running[n] => committed[n] = disk[n]
          /\ \A b \in {committed[n], disk[n]} \ {None} : b = Canon(b.height)

\* A node that serves the current state also still serves the export before
\* it, so a download survives the server's next listing.
PreviousExportSurvives ==
    [][\A n \in Nodes :
          (running'[n] /\ exports[n][1] # None /\ committed'[n] # None
             /\ exports'[n] # <<None, None>>) =>
            exports[n][1] \in {exports'[n][1], exports'[n][2]}]_exports

\* No snapshot ever replaces a committed block, though blocks may be committed
\* between the offer and the last chunk: what is durable only moves forward,
\* and by exactly one block once there is one.
BlocksAreNeverReplaced ==
    [][\A n \in Nodes : HeightOf(disk[n]) > 0 =>
          HeightOf(disk'[n]) \in {HeightOf(disk[n]), HeightOf(disk[n]) + 1}]_disk

\* Neither side of a sync loses what it has: the server the export that is
\* being downloaded, the importer its blocks (list_snapshots, apply_snapshot_chunk).
NothingIsLost == PreviousExportSurvives /\ BlocksAreNeverReplaced

\* Every node ends up with blocks: no sequence of bad offers, bad chunks, chunks
\* that never come, crashes and expired exports makes the handlers end the
\* state sync, or ask for what is of no use, before the node has the chain.
\* Only a failed write does: the answer is Abort, and the node must be started
\* again (offer_snapshot, apply_snapshot_chunk).
SyncCompletes == \A n \in Nodes : <>[](HeightOf(disk[n]) > 0 \/ n \in failed)
=============================================================================
