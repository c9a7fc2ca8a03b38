--------------------------- MODULE StateSyncProofs ---------------------------
(***************************************************************************)
(* What state sync promises, for every set of nodes, every size of state   *)
(* and chunk, every bound, and whatever descriptors and chunks peers send. *)
(* The inductive invariant says what an import under way may hold: a       *)
(* proper prefix of the chunks its descriptor announces, and the           *)
(* application hash of the chain at the announced height.                  *)
(***************************************************************************)
EXTENDS StateSync, SequenceTheorems, TLAPS

States == {Canon(h) : h \in 0..MaxHeight}
OrNone(S) == S \cup {None}

\* An import under way: typed, a proper prefix, and bound to the hash of the
\* chain at the height it announces.
ImportOk(imp) ==
    /\ imp = [metadata |-> imp.metadata, hash |-> imp.hash,
              appHash |-> imp.appHash, chunks |-> imp.chunks]
    /\ imp.metadata.height \in 0..MaxHeight
    /\ imp.metadata.bytes \in Nat \ {0}
    /\ imp.metadata.hashes \in Seq(AnyChunk)
    /\ imp.appHash = AppHash(Canon(imp.metadata.height))
    /\ imp.chunks \in Seq(AnyChunk)
    /\ Len(imp.chunks) < Len(imp.metadata.hashes)
    /\ imp.chunks = SubSeq(imp.metadata.hashes, 1, Len(imp.chunks))
    /\ imp.chunks # <<>> => imp.chunks[1].body \in Bodies

\* The types of the variables, as far as the proofs need them.
Typed ==
    /\ committed \in [Nodes -> OrNone(States)]
    /\ disk \in [Nodes -> OrNone(States)]
    /\ pending \in [Nodes -> OrNone(States)]
    /\ running \in [Nodes -> BOOLEAN]
    /\ exports \in [Nodes -> OrNone(States) \X OrNone(States)]
    /\ DOMAIN import = Nodes /\ import = [n \in Nodes |-> import[n]]
    /\ listed \subseteq {Descriptor(b) : b \in States}

\* A process that is down holds nothing.
DownHoldsNothing ==
    \A n \in Nodes : ~running[n] =>
        committed[n] = None /\ pending[n] = None /\ import[n] = None

\* In memory is what the store holds, and a pending block is the next one.
MemoryFollowsDisk ==
    \A n \in Nodes :
        /\ running[n] => committed[n] = disk[n]
        /\ pending[n] # None =>
              committed[n] # None /\ pending[n].height = committed[n].height + 1

ImportsOk == \A n \in Nodes : import[n] # None => ImportOk(import[n])

\* The inductive invariant.
IInv == Typed /\ DownHoldsNothing /\ MemoryFollowsDisk /\ ImportsOk

-----------------------------------------------------------------------------
(* Bodies, chunks and descriptors. *)

\* A body of the chain is the chain's state at its height.
LEMMA StateFacts ==
    /\ \A h \in 0..MaxHeight : Canon(h) \in States /\ Canon(h).height = h
                              /\ Canon(h).chain = ChainId /\ Canon(h).canonical
    /\ \A b \in States : b.height \in 0..MaxHeight /\ b = Canon(b.height) /\ b \in Bodies
<1>1. ASSUME NEW h \in 0..MaxHeight
      PROVE  /\ Canon(h).height = h /\ Canon(h).chain = ChainId
             /\ Canon(h).canonical /\ Canon(h) \in Bodies
  <2>1. SizeOf[h] \in Nat /\ h \in Nat
    BY SyncAssumption
  <2>2. Canon(h).height = h /\ Canon(h).chain = ChainId /\ Canon(h).canonical
    BY DEF Canon
  <2>3. Canon(h) \in Bodies
    BY <2>1, SyncAssumption DEF Canon, Bodies
  <2> QED BY <2>2, <2>3
<1> QED BY <1>1 DEF States

\* The application hash of a body in canonical form identifies it.
LEMMA CanonicalHash ==
    ASSUME NEW b \in Bodies, b.canonical
    PROVE  AppHash(b) = b
BY DEF AppHash, Bodies

\* A body that is not empty has a first chunk, and no chunk is empty.
LEMMA ChunkCounts ==
    ASSUME NEW size \in Nat \ {0}
    PROVE  /\ ChunkCount(size) \in Nat \ {0}
           /\ \A i \in 0..(ChunkCount(size) - 1) : size - i * ChunkBytes >= 1
<1>1. ChunkCount(size) \in Nat \ {0}
  BY SyncAssumption DEF ChunkCount
<1>2. ASSUME NEW i \in 0..(ChunkCount(size) - 1)
      PROVE  size - i * ChunkBytes >= 1
  <2> DEFINE q == ChunkCount(size)
  <2>1. q * ChunkBytes <= size + ChunkBytes - 1
    BY SyncAssumption DEF ChunkCount
  <2>2. (i + 1) * ChunkBytes <= q * ChunkBytes
    BY <1>1, SyncAssumption
  <2>3. (i + 1) * ChunkBytes = i * ChunkBytes + ChunkBytes
    BY SyncAssumption
  <2> QED BY <2>1, <2>2, <2>3, <1>1, SyncAssumption
<1> QED BY <1>1, <1>2

\* The chunks of a body make up a sequence of chunks.
LEMMA ChunksTyped ==
    ASSUME NEW b \in States
    PROVE  Chunks(b) \in Seq(AnyChunk)
<1>1. b \in Bodies /\ b.size \in Nat \ {0}
  BY StateFacts, SyncAssumption DEF Canon
<1>2. ChunkCount(b.size) \in Nat
  BY <1>1, ChunkCounts
<1>3. ASSUME NEW i \in 1..ChunkCount(b.size)
      PROVE  Chunk(b, i - 1) \in AnyChunk
  <2>1. b.size - (i - 1) * ChunkBytes >= 1
    BY <1>1, <1>2, ChunkCounts
  <2>2. (i - 1) * ChunkBytes \in Int
    BY <1>2, SyncAssumption
  <2>3. SmallerOf(b.size - (i - 1) * ChunkBytes, ChunkBytes) \in Nat
    BY <1>1, <2>1, <2>2, SyncAssumption DEF SmallerOf
  <2>4. i - 1 \in Nat
    BY <1>2
  <2> QED BY <1>1, <2>3, <2>4 DEF Chunk, AnyChunk
<1> QED BY <1>2, <1>3 DEF Chunks

\* Every descriptor a node is offered announces a height of the chain and a
\* list of chunks.
LEMMA OfferedDescriptors ==
    ASSUME NEW d, listed \subseteq {Descriptor(b) : b \in States},
           d \in listed \cup Forged
    PROVE  d.height \in 0..MaxHeight /\ d.metadata.hashes \in Seq(AnyChunk)
<1>1. CASE d \in Forged
  BY <1>1, ForgedAssumption
<1>2. CASE d \in listed
  <2>1. PICK b \in States : d = Descriptor(b)
    BY <1>2
  <2> QED BY <2>1, StateFacts, ChunksTyped DEF Descriptor, Metadata
<1> QED BY <1>1, <1>2

-----------------------------------------------------------------------------
(* What an import may hold. *)

\* An accepted offer starts an import that holds nothing yet.
LEMMA OfferStarts ==
    ASSUME NEW d, d.height \in 0..MaxHeight, d.metadata.hashes \in Seq(AnyChunk),
           OfferOk(d, AppHash(Canon(d.height)))
    PROVE  ImportOk(NewImport(d, AppHash(Canon(d.height))))
<1> DEFINE imp == NewImport(d, AppHash(Canon(d.height)))
<1>1. /\ imp.metadata = d.metadata /\ imp.chunks = <<>>
      /\ imp.appHash = AppHash(Canon(d.metadata.height))
      /\ imp = [metadata |-> imp.metadata, hash |-> imp.hash,
                appHash |-> imp.appHash, chunks |-> imp.chunks]
  BY DEF NewImport, OfferOk
<1>2. d.metadata.bytes \in Nat \ {0} /\ d.metadata.height \in 0..MaxHeight
  BY SyncAssumption DEF OfferOk, MetadataOk
<1>3. Len(d.metadata.hashes) > 0
  BY <1>2, ChunkCounts DEF OfferOk, MetadataOk
<1>4. <<>> = SubSeq(d.metadata.hashes, 1, 0) /\ <<>> \in Seq(AnyChunk) /\ Len(<<>>) = 0
  OBVIOUS
<1> QED BY <1>1, <1>2, <1>3, <1>4 DEF ImportOk

\* The next chunk extends the prefix; the first one belongs to a body.
LEMMA NextChunk ==
    ASSUME NEW imp, ImportOk(imp), NEW i, NEW c,
           ChunkInOrder(imp, i), ChunkOk(imp, i, c)
    PROVE  /\ With(imp, c) = [metadata |-> imp.metadata, hash |-> imp.hash,
                              appHash |-> imp.appHash, chunks |-> Append(imp.chunks, c)]
           /\ Append(imp.chunks, c) \in Seq(AnyChunk)
           /\ Len(Append(imp.chunks, c)) = i + 1 /\ i \in Nat
           /\ Append(imp.chunks, c) = SubSeq(imp.metadata.hashes, 1, i + 1)
           /\ Append(imp.chunks, c)[1].body \in Bodies
<1> DEFINE cs == Append(imp.chunks, c)
<1>1. /\ i = Len(imp.chunks) /\ i \in Nat /\ i + 1 \in 1..Len(imp.metadata.hashes)
      /\ c = imp.metadata.hashes[i + 1] /\ c \in AnyChunk
  BY DEF ImportOk, ChunkInOrder, ChunkOk, Expected, Count
<1>2. With(imp, c) = [metadata |-> imp.metadata, hash |-> imp.hash,
                      appHash |-> imp.appHash, chunks |-> cs]
  <2>1. imp = [metadata |-> imp.metadata, hash |-> imp.hash,
               appHash |-> imp.appHash, chunks |-> imp.chunks]
    BY DEF ImportOk
  <2> QED BY <2>1 DEF With
<1>3. cs \in Seq(AnyChunk) /\ Len(cs) = i + 1
  BY <1>1 DEF ImportOk
<1>4. cs = SubSeq(imp.metadata.hashes, 1, i + 1)
  BY <1>1 DEF ImportOk
<1>5. cs[1].body \in Bodies
  <2>1. CASE imp.chunks # <<>>
    BY <2>1, <1>1 DEF ImportOk
  <2>2. CASE imp.chunks = <<>>
    <3>1. i = 0 /\ cs[1] = c
      BY <2>2, <1>1
    <3>2. c.len = SmallerOf(imp.metadata.bytes - 0 * ChunkBytes, ChunkBytes)
      BY <3>1 DEF ChunkOk, expected_chunk_len
    <3>3. c.len >= 1
      BY <3>2, SyncAssumption DEF ImportOk, SmallerOf
    <3>4. c # NoChunk
      BY <3>3 DEF NoChunk
    <3> QED BY <3>1, <3>4, <1>1 DEF AnyChunk
  <2> QED BY <2>1, <2>2
<1> QED BY <1>1, <1>2, <1>3, <1>4, <1>5

\* The heart of the matter: chunks that finalize are the state of the chain
\* at the announced height, whatever the descriptor said (finalize checks the
\* canonical form, the identity and the application hash).
LEMMA FinalizedIsTheChain ==
    ASSUME NEW imp, ImportOk(imp), NEW i, NEW c,
           ChunkInOrder(imp, i), ChunkOk(imp, i, c), Finalizes(With(imp, c))
    PROVE  /\ Assembled(With(imp, c)) = Canon(imp.metadata.height)
           /\ Assembled(With(imp, c)) \in States
<1> DEFINE b == Assembled(With(imp, c))
           h == imp.metadata.height
<1>1. With(imp, c).appHash = AppHash(Canon(h)) /\ b \in Bodies
  <2>1. /\ With(imp, c) = [metadata |-> imp.metadata, hash |-> imp.hash,
                          appHash |-> imp.appHash, chunks |-> Append(imp.chunks, c)]
        /\ Append(imp.chunks, c)[1].body \in Bodies
    BY NextChunk, Zenon
  <2>2. imp.appHash = AppHash(Canon(h))
    BY DEF ImportOk
  <2> QED BY <2>1, <2>2 DEF Assembled
<1>2. b.canonical /\ AppHash(b) = AppHash(Canon(h))
  BY <1>1 DEF Finalizes
<1>3. h \in 0..MaxHeight
  BY DEF ImportOk
<1>4. AppHash(b) = b
  BY <1>1, <1>2, CanonicalHash
<1>5. AppHash(Canon(h)) = Canon(h)
  BY <1>3, StateFacts, CanonicalHash
<1>6. b = Canon(h)
  BY <1>2, <1>4, <1>5
<1>7. Canon(h) \in States
  BY <1>3, StateFacts
<1> QED BY <1>6, <1>7

-----------------------------------------------------------------------------
(* The inductive invariant. *)

\* Every initial state satisfies the inductive invariant.
LEMMA InitInvariant == Init => IInv
<1> SUFFICES ASSUME Init PROVE IInv
  OBVIOUS
<1>1. Canon(1) \in States
  BY StateFacts, SyncAssumption
<1>2. Typed
  BY <1>1 DEF Init, Typed, OrNone
<1>3. DownHoldsNothing /\ MemoryFollowsDisk /\ ImportsOk
  BY DEF Init, DownHoldsNothing, MemoryFollowsDisk, ImportsOk
<1> QED BY <1>2, <1>3 DEF IInv

\* What an offer leaves in the import's slot is nothing, the import that was
\* there, or one that holds no chunk yet.
LEMMA OfferLeaves ==
    ASSUME IInv, NEW n \in Nodes, NEW d \in listed \cup Forged,
           ImportAfterOffer(n, d) # None
    PROVE  ImportOk(ImportAfterOffer(n, d))
<1>1. d.height \in 0..MaxHeight /\ d.metadata.hashes \in Seq(AnyChunk)
  BY OfferedDescriptors DEF IInv, Typed
<1>2. \/ ImportAfterOffer(n, d) = import[n]
      \/ /\ OfferOk(d, AppHash(Canon(d.height)))
         /\ ImportAfterOffer(n, d) = NewImport(d, AppHash(Canon(d.height)))
  BY DEF ImportAfterOffer, OfferAnswer
<1>3. CASE ImportAfterOffer(n, d) = import[n]
  BY <1>3 DEF IInv, ImportsOk
<1>4. CASE /\ OfferOk(d, AppHash(Canon(d.height)))
           /\ ImportAfterOffer(n, d) = NewImport(d, AppHash(Canon(d.height)))
  BY <1>1, <1>4, OfferStarts
<1> QED BY <1>2, <1>3, <1>4

\* A chunk that is not the last one leaves an import that is still a proper
\* prefix.
LEMMA AcceptLeaves ==
    ASSUME NEW imp, ImportOk(imp), NEW i, NEW c,
           ChunkInOrder(imp, i), ChunkOk(imp, i, c), i + 1 < Count(imp)
    PROVE  ImportOk(With(imp, c))
<1> DEFINE cs == Append(imp.chunks, c)
<1>1. /\ With(imp, c) = [metadata |-> imp.metadata, hash |-> imp.hash,
                         appHash |-> imp.appHash, chunks |-> cs]
      /\ cs \in Seq(AnyChunk) /\ Len(cs) = i + 1
      /\ cs = SubSeq(imp.metadata.hashes, 1, i + 1)
      /\ cs[1].body \in Bodies
  BY NextChunk, Zenon
<1>2. /\ imp.metadata.height \in 0..MaxHeight
      /\ imp.metadata.bytes \in Nat \ {0}
      /\ imp.metadata.hashes \in Seq(AnyChunk)
      /\ imp.appHash = AppHash(Canon(imp.metadata.height))
  BY DEF ImportOk
<1> HIDE DEF cs
<1>3. /\ With(imp, c).metadata = imp.metadata /\ With(imp, c).hash = imp.hash
      /\ With(imp, c).appHash = imp.appHash /\ With(imp, c).chunks = cs
  BY <1>1
<1>4. Len(cs) < Len(imp.metadata.hashes)
  BY <1>1 DEF Count
<1> QED BY <1>1, <1>2, <1>3, <1>4 DEF ImportOk

\* What the last chunk may do to the importer: its state is adopted, and then
\* it is the chain's, or nothing but the import's slot and the fault counter
\* changes.
LEMMA LastChunkLeaves ==
    ASSUME IInv, NEW n \in Nodes, NEW i, NEW c, LastChunk(n, i, c)
    PROVE  /\ import' = [import EXCEPT ![n] = None]
           /\ pending' = pending
           /\ \/ committed' = committed /\ disk' = disk /\ exports' = exports
              \/ /\ pending[n] = None /\ ~HasBlocks(n)
                 /\ \E b \in States : /\ committed' = [committed EXCEPT ![n] = b]
                                      /\ disk' = [disk EXCEPT ![n] = b]
                 /\ exports' = [exports EXCEPT ![n] = <<None, None>>]
<1> DEFINE b == Assembled(With(import[n], c))
<1>1. ImportOk(import[n])
  BY DEF IInv, ImportsOk, LastChunk
<1>2. Finalizes(With(import[n], c)) => b \in States
  BY <1>1, FinalizedIsTheChain DEF LastChunk
<1> QED BY <1>2 DEF LastChunk, DropImport, MayReplace

\* Every step preserves the inductive invariant.
LEMMA StepInvariant == IInv /\ [Next]_vars => IInv'
<1> SUFFICES ASSUME IInv, [Next]_vars PROVE IInv'
  OBVIOUS
<1> USE DEF IInv
<1>1. ASSUME NEW n \in Nodes, InitChain(n) PROVE IInv'
  <2>1. Canon(0) \in States
    BY StateFacts, SyncAssumption
  <2>2. Typed'
    BY <1>1, <2>1 DEF InitChain, Typed, OrNone
  <2>3. DownHoldsNothing' /\ MemoryFollowsDisk'
    BY <1>1 DEF InitChain, Typed, DownHoldsNothing, MemoryFollowsDisk
  <2>4. ImportsOk'
    BY <1>1 DEF InitChain, Typed, ImportsOk
  <2> QED BY <2>2, <2>3, <2>4
<1>2. ASSUME NEW n \in Nodes, FinalizeBlock(n) PROVE IInv'
  <2> DEFINE h == committed[n].height + 1
  <2>1. committed[n] \in States
    BY <1>2 DEF FinalizeBlock, Typed, OrNone
  <2>2. h \in 0..MaxHeight /\ Canon(h) \in States /\ Canon(h).height = h
    BY <1>2, <2>1, StateFacts, SyncAssumption DEF FinalizeBlock
  <2>3. Typed' /\ ImportsOk'
    BY <1>2, <2>2 DEF FinalizeBlock, Typed, ImportsOk, OrNone
  <2>4. DownHoldsNothing' /\ MemoryFollowsDisk'
    BY <1>2, <2>2 DEF FinalizeBlock, Typed, DownHoldsNothing, MemoryFollowsDisk
  <2> QED BY <2>3, <2>4
<1>3. ASSUME NEW n \in Nodes, Commit(n) PROVE IInv'
  <2>1. Typed' /\ ImportsOk'
    BY <1>3 DEF Commit, Typed, ImportsOk, OrNone
  <2>2. DownHoldsNothing' /\ MemoryFollowsDisk'
    BY <1>3 DEF Commit, Typed, DownHoldsNothing, MemoryFollowsDisk
  <2> QED BY <2>1, <2>2
<1>4. ASSUME NEW n \in Nodes, ListSnapshots(n) PROVE IInv'
  <2>1. committed[n] \in States
    BY <1>4 DEF ListSnapshots, HasBlocks, HeightOf, Typed, OrNone
  <2>2. Typed'
    BY <1>4, <2>1 DEF ListSnapshots, Typed, OrNone
  <2>3. DownHoldsNothing' /\ MemoryFollowsDisk' /\ ImportsOk'
    BY <1>4 DEF ListSnapshots, DownHoldsNothing, MemoryFollowsDisk, ImportsOk
  <2> QED BY <2>2, <2>3
<1>5. ASSUME NEW n \in Nodes, NEW d \in listed \cup Forged, OfferSnapshot(n, d)
      PROVE  IInv'
  <2>1. Typed'
    BY <1>5 DEF OfferSnapshot, Typed
  <2>2. DownHoldsNothing' /\ MemoryFollowsDisk'
    BY <1>5 DEF OfferSnapshot, Typed, DownHoldsNothing, MemoryFollowsDisk
  <2>3. ASSUME NEW m \in Nodes, import'[m] # None PROVE ImportOk(import'[m])
    <3>1. CASE m = n
      BY <1>5, <2>3, <3>1, OfferLeaves DEF OfferSnapshot, Typed
    <3>2. CASE m # n
      BY <1>5, <2>3, <3>2 DEF OfferSnapshot, Typed, ImportsOk
    <3> QED BY <3>1, <3>2
  <2> QED BY <2>1, <2>2, <2>3 DEF ImportsOk
<1>6. ASSUME NEW n \in Nodes, NEW a, ApplySnapshotChunk(n, a) PROVE IInv'
  <2>1. CASE NoImport(n) \/ RetryChunk(n, a.index, a.chunk)
    BY <1>6, <2>1 DEF ApplySnapshotChunk, NoImport, RetryChunk,
         Typed, DownHoldsNothing, MemoryFollowsDisk, ImportsOk
  <2>2. CASE AcceptChunk(n, a.index, a.chunk)
    <3>1. Typed' /\ DownHoldsNothing' /\ MemoryFollowsDisk'
      BY <1>6, <2>2 DEF ApplySnapshotChunk, AcceptChunk, Typed, DownHoldsNothing,
           MemoryFollowsDisk
    <3>2. ImportOk(With(import[n], a.chunk))
      BY <2>2, AcceptLeaves DEF AcceptChunk, ImportsOk
    <3>3. ImportsOk'
      BY <2>2, <3>2 DEF AcceptChunk, ImportsOk, Typed
    <3> QED BY <3>1, <3>3
  <2>3. CASE LastChunk(n, a.index, a.chunk)
    <3>1. /\ import' = [import EXCEPT ![n] = None]
          /\ pending' = pending /\ running' = running /\ listed' = listed
      BY <1>6, <2>3, LastChunkLeaves DEF ApplySnapshotChunk
    <3>2. ImportsOk'
      BY <3>1 DEF ImportsOk, Typed
    <3>3. CASE committed' = committed /\ disk' = disk /\ exports' = exports
      <4>1. Typed' /\ DownHoldsNothing' /\ MemoryFollowsDisk'
        BY <3>1, <3>3 DEF Typed, DownHoldsNothing, MemoryFollowsDisk
      <4> QED BY <3>2, <4>1
    <3>4. ASSUME pending[n] = None, NEW b \in States,
                 committed' = [committed EXCEPT ![n] = b],
                 disk' = [disk EXCEPT ![n] = b],
                 exports' = [exports EXCEPT ![n] = <<None, None>>]
          PROVE  IInv'
      <4>1. Typed'
        BY <3>1, <3>4 DEF Typed, OrNone
      <4>2. DownHoldsNothing' /\ MemoryFollowsDisk'
        BY <1>6, <3>1, <3>4 DEF ApplySnapshotChunk, Typed, DownHoldsNothing,
             MemoryFollowsDisk
      <4> QED BY <3>2, <4>1, <4>2
    <3> QED BY <2>3, <3>3, <3>4, LastChunkLeaves
  <2> QED BY <1>6, <2>1, <2>2, <2>3 DEF ApplySnapshotChunk
<1>7. ASSUME NEW n \in Nodes, Crash(n) PROVE IInv'
  <2>1. Typed'
    BY <1>7 DEF Crash, Typed, OrNone
  <2>2. DownHoldsNothing' /\ MemoryFollowsDisk' /\ ImportsOk'
    BY <1>7 DEF Crash, Typed, DownHoldsNothing, MemoryFollowsDisk, ImportsOk
  <2> QED BY <2>1, <2>2
<1>8. ASSUME NEW n \in Nodes, Restart(n) PROVE IInv'
  <2>1. Typed' /\ ImportsOk'
    BY <1>8 DEF Restart, Typed, ImportsOk
  <2>2. DownHoldsNothing' /\ MemoryFollowsDisk'
    BY <1>8 DEF Restart, Typed, DownHoldsNothing, MemoryFollowsDisk
  <2> QED BY <2>1, <2>2
<1>9. ASSUME NEW n \in Nodes, GiveUp(n) PROVE IInv'
  BY <1>9 DEF GiveUp, Typed, DownHoldsNothing, MemoryFollowsDisk, ImportsOk
<1>10. CASE UNCHANGED vars
  BY <1>10 DEF vars, Typed, DownHoldsNothing, MemoryFollowsDisk, ImportsOk
<1> QED BY <1>1, <1>2, <1>3, <1>4, <1>5, <1>6, <1>7, <1>8, <1>9, <1>10 DEF Next

\* Every reachable state satisfies the inductive invariant.
LEMMA Invariance == Spec => []IInv
BY InitInvariant, StepInvariant, PTL DEF Spec

\* Whatever descriptors and chunks peers send, in whatever order, every state a
\* node adopts is the chain's state at its height, an import never mixes,
\* skips or repeats a chunk, and memory is what the store holds
\* (apply_snapshot_chunk, SnapshotImport::finalize).
THEOREM OnlyTheChainIsAdopted == Spec => []AdoptsOnlyTheChain
<1>1. IInv => AdoptsOnlyTheChain
  <2> SUFFICES ASSUME IInv PROVE AdoptsOnlyTheChain
    OBVIOUS
  <2> USE DEF IInv
  <2>1. ASSUME NEW n \in Nodes
        PROVE  /\ committed[n] = None \/ committed[n].height \in 0..MaxHeight
               /\ pending[n] = None \/ pending[n].height \in 1..MaxHeight
    BY StateFacts, SyncAssumption DEF Typed, OrNone, MemoryFollowsDisk
  <2>2. ASSUME NEW n \in Nodes, import[n] # None
        PROVE  /\ Expected(import[n]) \in Nat /\ Count(import[n]) \in Nat
               /\ Expected(import[n]) < Count(import[n])
               /\ import[n].chunks = SubSeq(import[n].metadata.hashes, 1, Expected(import[n]))
    <3>1. /\ import[n].metadata.hashes \in Seq(AnyChunk)
          /\ import[n].chunks \in Seq(AnyChunk)
          /\ Len(import[n].chunks) < Len(import[n].metadata.hashes)
          /\ import[n].chunks = SubSeq(import[n].metadata.hashes, 1, Len(import[n].chunks))
      BY <2>2 DEF ImportsOk, ImportOk
    <3> QED BY <3>1 DEF Expected, Count
  <2>3. TypeOK
    BY <2>1, <2>2 DEF TypeOK, Typed
  <2>4. ImportIsProperPrefix
    BY <2>2 DEF ImportIsProperPrefix
  <2>5. ASSUME NEW n \in Nodes
        PROVE  /\ running[n] => committed[n] = disk[n]
               /\ \A b \in {committed[n], disk[n]} \ {None} : b = Canon(b.height)
    BY StateFacts DEF Typed, OrNone, MemoryFollowsDisk
  <2> QED BY <2>3, <2>4, <2>5 DEF AdoptsOnlyTheChain
<1> QED BY <1>1, Invariance, PTL

-----------------------------------------------------------------------------
(* What no step may lose. *)

\* The export that is being downloaded stays one of the two that are served.
LEMMA StepKeepsExports ==
    ASSUME IInv, Next, NEW m \in Nodes, exports'[m] # <<None, None>>
    PROVE  exports[m][1] \in {exports'[m][1], exports'[m][2]}
<1>1. ASSUME NEW n \in Nodes, ListSnapshots(n)
      PROVE  exports[m][1] \in {exports'[m][1], exports'[m][2]}
  BY <1>1 DEF ListSnapshots, IInv, Typed
<1>2. ASSUME NEW n \in Nodes, NEW a, LastChunk(n, a.index, a.chunk)
      PROVE  exports[m][1] \in {exports'[m][1], exports'[m][2]}
  BY <1>2, LastChunkLeaves DEF IInv, Typed
<1>3. ASSUME NEW n \in Nodes, Crash(n)
      PROVE  exports[m][1] \in {exports'[m][1], exports'[m][2]}
  BY <1>3 DEF Crash, IInv, Typed
<1> QED
  BY <1>1, <1>2, <1>3 DEF Next, InitChain, FinalizeBlock, Commit, OfferSnapshot, GiveUp,
       ApplySnapshotChunk, NoImport, RetryChunk, AcceptChunk, Restart

\* Durable blocks stay, or the next block is committed on top.
LEMMA StepKeepsBlocks ==
    ASSUME IInv, Next, NEW m \in Nodes, HeightOf(disk[m]) > 0
    PROVE  HeightOf(disk'[m]) \in {HeightOf(disk[m]), HeightOf(disk[m]) + 1}
<1>1. ASSUME NEW n \in Nodes, InitChain(n)
      PROVE  disk'[m] = disk[m]
  BY <1>1 DEF InitChain, HeightOf, IInv, Typed, MemoryFollowsDisk
<1>2. ASSUME NEW n \in Nodes, Commit(n)
      PROVE  HeightOf(disk'[m]) \in {HeightOf(disk[m]), HeightOf(disk[m]) + 1}
  BY <1>2 DEF Commit, HeightOf, IInv, Typed, MemoryFollowsDisk
<1>3. ASSUME NEW n \in Nodes, NEW a, ApplySnapshotChunk(n, a), LastChunk(n, a.index, a.chunk)
      PROVE  disk'[m] = disk[m]
  <2>1. running[n] /\ (~HasBlocks(n) => m # n)
    BY <1>3 DEF ApplySnapshotChunk, HasBlocks, IInv, MemoryFollowsDisk
  <2> QED BY <1>3, <2>1, LastChunkLeaves DEF IInv, Typed
<1>4. disk' = disk => HeightOf(disk'[m]) = HeightOf(disk[m])
  OBVIOUS
<1> QED
  BY <1>1, <1>2, <1>3, <1>4 DEF Next, FinalizeBlock, ListSnapshots, OfferSnapshot, GiveUp,
       ApplySnapshotChunk, NoImport, RetryChunk, AcceptChunk, Crash, Restart

\* Neither side of a sync loses what it has: a server keeps serving the export
\* it served last, and no snapshot, late chunk or crash takes a committed block
\* from the importer (list_snapshots, apply_snapshot_chunk).
THEOREM NeitherSideLoses == Spec => NothingIsLost
<1>1. IInv /\ [Next]_vars =>
        [\A n \in Nodes :
          (running'[n] /\ exports[n][1] # None /\ committed'[n] # None
             /\ exports'[n] # <<None, None>>) =>
            exports[n][1] \in {exports'[n][1], exports'[n][2]}]_exports
  BY StepKeepsExports DEF vars
<1>2. IInv /\ [Next]_vars =>
        [\A n \in Nodes : HeightOf(disk[n]) > 0 =>
          HeightOf(disk'[n]) \in {HeightOf(disk[n]), HeightOf(disk[n]) + 1}]_disk
  BY StepKeepsBlocks DEF vars
<1> QED
  BY <1>1, <1>2, Invariance, PTL
     DEF Spec, NothingIsLost, PreviousExportSurvives, BlocksAreNeverReplaced
=============================================================================
