---------------------------- MODULE MCStateSync ----------------------------
(* An instance of StateSync for TLC: one server, one empty node, bodies of *)
(* two chunks whose last one is short.                                     *)
EXTENDS StateSync

CONSTANTS server, joiner

MCSizeOf == [h \in 0..MaxHeight |-> 3]

\* A body that is not the chain's, and the chain's state in other bytes.
Other(h, chain, canonical, tag) ==
    [Canon(h) EXCEPT !.chain = chain, !.canonical = canonical, !.tag = tag]
WrongBody == Other(1, ChainId, TRUE, 1)
LooseBody == Other(1, ChainId, FALSE, 0)

\* Descriptors that claim the verified hash for another body, a foreign chain,
\* another format, and a chunk list that does not fit the size.
Claims(b) == [Descriptor(b) EXCEPT
                 !.metadata.appHash = AppHash(Canon(b.height)),
                 !.hash = <<[Metadata(b) EXCEPT !.appHash = AppHash(Canon(b.height))],
                            Chunks(b)>>]
MCForged ==
    {Claims(WrongBody), Claims(LooseBody), Claims(Other(1, "fork", TRUE, 0)),
     [Descriptor(Canon(1)) EXCEPT !.format = 2],
     [Descriptor(Canon(1)) EXCEPT !.metadata.bytes = 5]}

\* Chunks of the forged bodies, and a truncated chunk.
MCGarbage ==
    {[index |-> i, chunk |-> Chunk(b, i)] : i \in 0..1, b \in {WrongBody, LooseBody}}
      \cup {[index |-> 0, chunk |-> [Chunk(Canon(1), 0) EXCEPT !.len = 1]]}

=============================================================================
