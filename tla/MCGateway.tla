----------------------------- MODULE MCGateway -----------------------------
(* One signer with two rival transactions, the second of which expires,    *)
(* and their successor; another whose command fails after the rival's.     *)
EXTENDS Gateway

Tx(id, signer, nonce, valid_until) ==
    [id |-> id, signer |-> signer, nonce |-> nonce, valid_until |-> valid_until]

a0 == Tx("a0", "alice", 0, MaxHeight + 1)
r0 == Tx("r0", "alice", 0, 1)
a1 == Tx("a1", "alice", 1, MaxHeight + 1)
b0 == Tx("b0", "bob", 0, MaxHeight + 1)

\* One mempool holds a single transaction, the other two.
MCMempoolSize == [n \in Nodes |-> n]

MCTxs == {a0, r0, a1, b0}
MCRetried == {a0}
MCExcludes == [tx \in MCTxs |-> IF tx = b0 THEN {r0} ELSE {}]
=============================================================================
