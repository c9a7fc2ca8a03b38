--------------------------- MODULE MCChainRuntime ---------------------------
(* ChainRuntime on small instances.                                         *)
EXTENDS ChainRuntime

Order(a, n, until) ==
    [kind |-> "order", signer |-> a, nonce |-> n, valid_until |-> until,
     chain |-> "this", to |-> a, batch |-> 0, settles |-> TRUE]
Credit(a, n, to) == [Order(a, n, MaxHeight) EXCEPT !.kind = "credit", !.to = to]
Private(a, n, b) == [Order(a, n, b) EXCEPT !.kind = "private", !.batch = b]
OtherChain(tx) == [tx EXCEPT !.chain = "other"]

\* An account queues in each of two consecutive batches, the second time only
\* if the authority has topped it up while its first bond is held; the
\* authority's nonce is also used by a transaction of another chain.
MCFewTxs ==
    {Private("a", 0, 1), Credit("b", 0, "a"), Private("a", 1, 2),
     OtherChain(Credit("b", 1, "a"))}

\* One batch, with an order of the same account that waits for its settlement.
MCOneBatch == {Private("a", 0, 1), Order("a", 1, 3)}
=============================================================================
