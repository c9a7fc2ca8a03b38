---------------------------- MODULE ChainRuntime ----------------------------
(***************************************************************************)
(* The ABCI++ application of an Asteria validator (src/src/consensus.rs)   *)
(* and the consensus-visible part of the engine state it executes          *)
(* (src/src/engine.rs): account nonces, margin and bonds, the retained     *)
(* events, and the life of an encrypted private-order batch, which is      *)
(* queued by the block at height H, opened by the vote extensions of the   *)
(* block at H+1 and settled by the mandatory system transaction of the     *)
(* block at H+2.                                                           *)
(*                                                                         *)
(* CometBFT is external.  It is modelled by what it guarantees to the      *)
(* application: one block is decided per height, only after a quorum of    *)
(* validators accepted it in ProcessProposal and published precommits      *)
(* whose vote extensions the correct members of the quorum verified.       *)
(* PrepareProposal, ProcessProposal, ExtendVote and VerifyVoteExtension    *)
(* do not change the replica, so they are operators that the action        *)
(* DecideBlock evaluates.  Handlers run under the runtime's RwLock; an     *)
(* action is one handler call.                                             *)
(***************************************************************************)
EXTENDS Integers, Sequences, FiniteSets, Functions

CONSTANTS
    Validators,     \* threshold share ids, bound one-to-one to CometBFT keys
    Faulty,         \* validators that may propose and vote arbitrarily
    ShareHolders,   \* validators started with a private_validator share
    Quorum,         \* precommits that decide a block (more than 2/3 of power)
    Threshold,      \* PRIVATE_ORDER_THRESHOLD
    Signers,        \* accounts
    Authority,      \* the account that may credit others
    Balance,        \* initial_balances, in units of margin
    Txs,            \* signed transactions that clients may submit
    MaxPending,     \* MAX_PENDING_PRIVATE_ORDERS
    MaxEvents,      \* MAX_RETAINED_EVENTS
    MaxBlockTxs,    \* max_tx_bytes, in transactions
    MaxHeight,      \* bound: blocks decided in a behaviour
    MaxCrashes      \* bound: process crashes in a behaviour

Heights == 0..MaxHeight
Correct == Validators \ Faulty

\* A user transaction: a public order, the authority's credit to an account,
\* or a private order for the batch of one height.  settles says whether the
\* auction, the fills and the restored book of the order's market pass the
\* engine's margin checks two blocks later; those are not part of this module.
TxType == [kind : {"order", "credit", "private"}, signer : Signers, nonce : Nat,
           valid_until : Nat, chain : {"this", "other"}, to : Signers, batch : Nat,
           settles : BOOLEAN]

ASSUME ValidatorsAssumption ==
    /\ Validators \subseteq Nat
    /\ IsFiniteSet(Validators)
    /\ Faulty \subseteq Validators
    /\ ShareHolders \subseteq Validators

ASSUME QuorumAssumption ==
    /\ Threshold \in Nat /\ Quorum \in Nat
    /\ 0 < Threshold /\ Threshold <= Quorum
    /\ Cardinality(Faulty) < Quorum

ASSUME BoundAssumption ==
    /\ MaxHeight \in Nat /\ MaxCrashes \in Nat /\ MaxBlockTxs \in Nat
    /\ MaxPending \in Nat /\ MaxEvents \in Nat /\ Balance \in Nat

\* The genesis file lists the accounts.
ASSUME SignersAssumption == IsFiniteSet(Signers)

ASSUME TxsAssumption == Txs \subseteq TxType

VARIABLES
    chain,      \* the decided blocks (external: CometBFT's block store)
    ledger,     \* history: ledger[h+1] is the state the decided blocks 1..h define
    votes,      \* extended commit of the last decided block: validator -> extension
    up,         \* is the application process of a correct validator running
    committed,  \* ChainRuntime.committed, NoState before InitChain
    pending,    \* ChainRuntime.pending, the finalized state that awaits Commit
    disk,       \* what the redb store holds
    published,  \* height up to which this process broadcast events (0: none yet)
    crashes     \* bound: crashes so far

vars == <<chain, ledger, votes, up, committed, pending, disk, published, crashes>>
nodeVars == <<up, committed, pending, disk, published, crashes>>

-----------------------------------------------------------------------------
(***************************************************************************)
(* Engine state and transactions.                                          *)
(***************************************************************************)

\* Option::None where a state or a state root is expected.
NoState == [height |-> -1]

\* An empty vote extension; no bundle.
None == [batch |-> -1]

\* EngineState::genesis with the balances of initialize.  An absent map entry
\* is {}, 0 or NoState.
Genesis ==
    [height  |-> 0,
     nonces  |-> [a \in Signers |-> 0],         \* account_nonces
     collateral |-> [a \in Signers |-> Balance],
     reserved |-> [a \in Signers |-> 0],        \* reserved_margin
     total_credits |-> Balance * Cardinality(Signers),
     fee_vault |-> 0,
     pending |-> [b \in Heights |-> {}],        \* pending_private_orders
     bonds   |-> [b \in Heights |-> [a \in Signers |-> 0]], \* private_order_bonds
     anchors |-> [b \in Heights |-> NoState],   \* private_batch_app_hashes
     frozen  |-> {},                            \* heights with a liquidity snapshot
     events  |-> <<>>]                          \* event_log

\* The state root: injective on states, so the state stands for its own hash.
AppHash(s) == s

\* saturating_sub on block heights.
Before(h, n) == IF h > n THEN h - n ELSE 0

\* The batch whose settlement is mandatory in the block at height h.
DelayBlocks == 2
DueBatch(h) == Before(h, DelayBlocks)
BatchIsDue(s, h) == s.pending[DueBatch(h)] # {}

\* risk_snapshot of an account without positions.
Available(s, a) == s.collateral[a] - s.reserved[a]

\* private_order_fee, MIN_PRIVATE_ORDER_BOND and the reservation of a public
\* order, all one unit of margin; the amount of a credit.
Fee == 1
MinBond == 1
OrderMargin == 1
CreditAmount == 2

\* EventLog::append prunes to the newest MaxEvents events.
Record(log, e) ==
    LET longer == Append(log, e) IN
    IF Len(longer) > MaxEvents THEN Tail(longer) ELSE longer

\* Mutant: any nonce that was not used yet.
FutureNonce(s, tx, h) ==
    /\ tx.chain = "this"
    /\ tx.valid_until >= h
    /\ tx.nonce >= s.nonces[tx.signer]

ValidateTransactionState(s, tx, h) ==
    /\ tx.chain = "this"
    /\ tx.valid_until >= h
    /\ tx.nonce = s.nonces[tx.signer]

\* The command's own conditions: submit_order's margin check, the authority of
\* credit_account_state, the admission rules of queue_private_order.
CommandApplies(s, tx, h) ==
    \/ tx.kind = "order" /\ Available(s, tx.signer) >= OrderMargin
    \/ tx.kind = "credit" /\ tx.signer = Authority
    \/ /\ tx.kind = "private"
       /\ tx.batch = h
       /\ Cardinality(s.pending[h]) < MaxPending
       /\ \A queued \in s.pending[h] : queued.signer # tx.signer
       /\ Available(s, tx.signer) >= Fee + MinBond

TxApplies(s, tx, h) ==
    ValidateTransactionState(s, tx, h) /\ CommandApplies(s, tx, h)

PlaceOrder(s, tx) == [s EXCEPT !.reserved[tx.signer] = @ + OrderMargin]

CreditAccount(s, tx) == [s EXCEPT !.collateral[tx.to] = @ + CreditAmount,
                                !.total_credits = @ + CreditAmount]

\* Mutant: the bond does not leave room for the fee.
BondBeforeFee(s, tx, h) ==
    LET a == tx.signer
        bond == Available(s, a)
    IN  [s EXCEPT !.collateral[a] = @ - Fee, !.fee_vault = @ + Fee,
                  !.reserved[a] = @ + bond, !.bonds[h][a] = bond,
                  !.pending[h] = @ \cup {tx}]

\* A private order pays its fee and locks all the margin that is left.
QueuePrivateOrder(s, tx, h) ==
    LET a == tx.signer
        bond == Available(s, a) - Fee
    IN  [s EXCEPT !.collateral[a] = @ - Fee, !.fee_vault = @ + Fee,
                  !.reserved[a] = @ + bond, !.bonds[h][a] = bond,
                  !.pending[h] = @ \cup {tx}]

\* execute_verified_transaction: the command with its event, then the nonce.
ExecuteTx(s, tx, h) ==
    LET done == CASE tx.kind = "order"   -> PlaceOrder(s, tx)
                  [] tx.kind = "credit"  -> CreditAccount(s, tx)
                  [] tx.kind = "private" -> QueuePrivateOrder(s, tx, h)
    IN  [done EXCEPT !.events = Record(@, [kind |-> tx.kind, signer |-> tx.signer,
                                           nonce |-> tx.nonce]),
                     !.nonces[tx.signer] = @ + 1]

\* A failed transaction leaves the state as it was (apply_consensus_command
\* restores the clone it took), and the next one is tried.
TryTx(s, tx, h) == IF TxApplies(s, tx, h) THEN ExecuteTx(s, tx, h) ELSE s

\* The state after the signed transactions txs.  They write the accounts, the
\* event log and the batch of their own height, nothing else.
ExecuteTxs(s, txs, h) ==
    LET after[i \in 0..Len(txs)] ==
            IF i = 0 THEN s ELSE TryTx(after[i - 1], txs[i], h)
        end == after[Len(txs)]
    IN  [s EXCEPT !.nonces = end.nonces, !.events = end.events,
                  !.collateral = end.collateral, !.reserved = end.reserved,
                  !.total_credits = end.total_credits, !.fee_vault = end.fee_vault,
                  !.pending[h] = end.pending[h], !.bonds[h] = end.bonds[h]]

\* Every one of txs applies in turn (what ProcessProposal demands).
AllApply(s, txs, h) ==
    \A i \in 1..Len(txs) :
        TxApplies(ExecuteTxs(s, SubSeq(txs, 1, i - 1), h), txs[i], h)

-----------------------------------------------------------------------------
(***************************************************************************)
(* Vote extensions and decryption bundles.  An extension carries one       *)
(* decryption share per pending order and a beacon share; sound says that  *)
(* their proofs verify under the key of the validator it names.            *)
(***************************************************************************)

ExtensionOf(v, b, s, sound) ==
    [validator |-> v, batch |-> b, app_hash |-> AppHash(s),
     orders |-> s.pending[b], sound |-> sound]

\* validate_vote_extension against the batch b of state s, anchored at hash.
ExtensionValid(e, s, b, hash) ==
    /\ e.batch = b
    /\ e.app_hash = hash
    /\ e.orders = s.pending[b]
    /\ e.sound

\* ExtendVote at height h of a validator whose committed state is s.
ExtendVote(v, s, h) ==
    LET b == h - 1 IN
    IF s.height = b /\ s.pending[b] # {} /\ v \in ShareHolders
    THEN ExtensionOf(v, b, s, TRUE)
    ELSE None

\* Mutant: a vote without an extension always passes.
EmptyExtensionPasses(v, e, s, h) ==
    LET b == h - 1 IN
    /\ s.height = b
    /\ e # None => /\ s.pending[b] # {}
                   /\ e.validator = v
                   /\ ExtensionValid(e, s, b, AppHash(s))

\* VerifyVoteExtension at height h, on a vote signed by validator v.
VerifyVoteExtension(v, e, s, h) ==
    LET b == h - 1 IN
    /\ s.height = b
    /\ IF e = None THEN s.pending[b] = {}
       ELSE /\ s.pending[b] # {}
            /\ e.validator = v
            /\ ExtensionValid(e, s, b, AppHash(s))

\* aggregate_vote_extensions: the valid shares of the lowest Threshold ids,
\* among the extensions bound to the validator that signed the vote.
LowestShares(S) ==
    CHOOSE T \in SUBSET S :
        /\ Cardinality(T) = Threshold
        /\ \A t \in T, u \in S \ T : t.validator < u.validator

BoundExtensions(vs) ==
    {vs[v] : v \in {w \in DOMAIN vs : vs[w] # None /\ vs[w].validator = w}}

\* Mutant: shares are taken over without verification.
AggregateUnverified(s, b, vs) ==
    LET all == BoundExtensions(vs)
    IN  IF Cardinality(all) < Threshold THEN None
        ELSE [kind |-> "system", batch |-> b, app_hash |-> s.anchors[b],
              orders |-> s.pending[b], shares |-> LowestShares(all)]

\* Mutant: one share too many is demanded.
AggregateOneMore(s, b, vs) ==
    LET good == {e \in BoundExtensions(vs) : ExtensionValid(e, s, b, s.anchors[b])}
    IN  IF Cardinality(good) <= Threshold THEN None
        ELSE [kind |-> "system", batch |-> b, app_hash |-> s.anchors[b],
              orders |-> s.pending[b], shares |-> LowestShares(good)]

AggregateVoteExtensions(s, b, vs) ==
    LET good == {e \in BoundExtensions(vs) : ExtensionValid(e, s, b, s.anchors[b])}
    IN  IF Cardinality(good) < Threshold THEN None
        ELSE [kind |-> "system", batch |-> b, app_hash |-> s.anchors[b],
              orders |-> s.pending[b], shares |-> LowestShares(good)]

\* The accounts with a bond for batch b.
Bonded(s, b) == {a \in Signers : s.bonds[b][a] > 0}

\* The checks of execute_private_decryption_bundle and of
\* validate_and_decrypt_bundle.
BundleExecutes(s, bundle, h) ==
    LET b == bundle.batch IN
    /\ b \in Heights /\ b + DelayBlocks = h
    /\ s.pending[b] # {} /\ s.anchors[b] # NoState /\ b \in s.frozen
    /\ bundle.app_hash = s.anchors[b]
    /\ bundle.orders = s.pending[b]
    /\ Cardinality(bundle.shares) = Threshold
    /\ \A e, f \in bundle.shares : e.validator = f.validator => e = f
    /\ \A e \in bundle.shares : ExtensionValid(e, s, b, s.anchors[b])
    /\ Cardinality(Bonded(s, b)) = Cardinality(s.pending[b])
    /\ \A tx \in s.pending[b] : /\ s.bonds[b][tx.signer] >= MinBond
                                /\ s.reserved[tx.signer] >= s.bonds[b][tx.signer]
                                /\ tx.settles

\* The bonds are released, and the batch loses its orders, bonds, anchor and
\* snapshot together.
ExecuteBundle(s, bundle) ==
    LET b == bundle.batch IN
    [s EXCEPT !.reserved = [a \in Signers |-> @[a] - s.bonds[b][a]],
              !.pending[b] = {}, !.bonds[b] = [a \in Signers |-> 0],
              !.anchors[b] = NoState, !.frozen = @ \ {b},
              !.events = Record(@, [kind |-> "settled", batch |-> b])]

-----------------------------------------------------------------------------
(***************************************************************************)
(* Proposals and blocks.                                                   *)
(***************************************************************************)

IsSystem(tx) == tx.kind = "system"

\* The transactions of mempool that PrepareProposal keeps: it tries them in
\* order on a scratch state, skips those that fail and stops when full.
SelectTxs(s, h, mempool, room) ==
    LET picked[i \in 0..Len(mempool)] ==
            IF i = 0 THEN <<>>
            ELSE LET sofar == picked[i - 1] IN
                 IF /\ Len(sofar) < room
                    /\ TxApplies(ExecuteTxs(s, sofar, h), mempool[i], h)
                 THEN Append(sofar, mempool[i])
                 ELSE sofar
    IN  picked[Len(mempool)]

\* PrepareProposal of a replica whose committed state is s.  Without a bundle
\* that executes, a proposer whose batch is due proposes an empty block.
PrepareProposal(s, h, mempool, vs) ==
    LET scratch == [s EXCEPT !.height = h]
        bundle  == AggregateVoteExtensions(s, DueBatch(h), vs)
    IN  IF ~BatchIsDue(s, h) THEN SelectTxs(scratch, h, mempool, MaxBlockTxs)
        ELSE IF \/ s.anchors[DueBatch(h)] = NoState
                \/ bundle = None
                \/ MaxBlockTxs = 0
                \/ ~BundleExecutes(scratch, bundle, h) THEN <<>>
        ELSE <<bundle>> \o SelectTxs(ExecuteBundle(scratch, bundle), h, mempool,
                                     MaxBlockTxs - 1)

\* The first transaction of block is the bundle that settles the due batch.
OpensWithBundle(s, block, h) ==
    /\ block # <<>>
    /\ IsSystem(block[1])
    /\ BundleExecutes(s, block[1], h)

\* The signed transactions of the block.
Body(s, block, h) == IF BatchIsDue(s, h) THEN Tail(block) ELSE block

\* The state after the mandatory bundle, if there is one.
AfterBundle(s, base, block, h) ==
    IF BatchIsDue(s, h) THEN ExecuteBundle(base, block[1]) ELSE base

NoSystemTx(txs) == \A i \in 1..Len(txs) : ~IsSystem(txs[i])

\* Mutant: the bundle must be there, but it is not executed.
AcceptAnyBundle(s, block, h) ==
    LET scratch == [s EXCEPT !.height = h] IN
    /\ BatchIsDue(s, h) => block # <<>> /\ IsSystem(block[1]) /\ block[1].batch = DueBatch(h)
    /\ NoSystemTx(Body(s, block, h))
    /\ AllApply(AfterBundle(s, scratch, block, h), Body(s, block, h), h)

ProcessProposal(s, block, h) ==
    LET scratch == [s EXCEPT !.height = h] IN
    /\ BatchIsDue(s, h) => OpensWithBundle(scratch, block, h)
    /\ NoSystemTx(Body(s, block, h))
    /\ AllApply(AfterBundle(s, scratch, block, h), Body(s, block, h), h)

-----------------------------------------------------------------------------
(***************************************************************************)
(* FinalizeBlock.                                                          *)
(***************************************************************************)

\* The batch of height h-1 is anchored to the root that committed it.
AnchorBatch(s, h) ==
    LET b == Before(h, 1) IN
    IF s.pending[b] # {} THEN [s EXCEPT !.height = h, !.anchors[b] = AppHash(s)]
    ELSE [s EXCEPT !.height = h]

AnchorConflicts(s, h) ==
    LET b == Before(h, 1) IN
    s.pending[b] # {} /\ s.anchors[b] # NoState /\ s.anchors[b] # AppHash(s)

\* freeze_private_batch_liquidity: the snapshot of a batch that has orders.
FreezeBatch(s, h) ==
    IF s.pending[h] = {} THEN s ELSE [s EXCEPT !.frozen = @ \cup {h}]

\* The state before the freeze.
Executed(s, block, h) ==
    ExecuteTxs(AfterBundle(s, AnchorBatch(s, h), block, h), Body(s, block, h), h)

\* finalize_block returns an error, which stops the node, unless this holds.
FinalizeSucceeds(s, block, h) ==
    /\ ~AnchorConflicts(s, h)
    /\ BatchIsDue(s, h) => OpensWithBundle(AnchorBatch(s, h), block, h)
    /\ NoSystemTx(Body(s, block, h))
    /\ Executed(s, block, h).pending[h] # {} => h \notin Executed(s, block, h).frozen

FinalizeState(s, block, h) == FreezeBatch(Executed(s, block, h), h)

-----------------------------------------------------------------------------
(***************************************************************************)
(* The replicas and the chain.                                             *)
(***************************************************************************)

Init ==
    /\ chain = <<>>
    /\ ledger = <<Genesis>>
    /\ votes = [v \in {} |-> None]
    /\ up = [r \in Correct |-> TRUE]
    /\ committed = [r \in Correct |-> NoState]
    /\ pending = [r \in Correct |-> NoState]
    /\ disk = [r \in Correct |-> NoState]
    /\ published = [r \in Correct |-> 0]
    /\ crashes = 0

\* A replica whose committed state is the predecessor of height h.
InSync(h) == {r \in Correct : up[r] /\ committed[r].height = h - 1}

\* InitChain persists the genesis state; on a store that already holds it (a
\* crash before the first block), it only checks that the roots agree.
InitChain(r) ==
    /\ up[r]
    /\ committed[r] = NoState
    /\ committed' = [committed EXCEPT ![r] = Genesis]
    /\ disk' = [disk EXCEPT ![r] = Genesis]
    /\ UNCHANGED <<chain, ledger, votes, up, pending, published, crashes>>

\* What a faulty validator may attach to a vote for height h: nothing, a sound
\* share, one with broken proofs, one for another root, or one that claims
\* somebody else's identity.
FaultyExtensions(f, h) ==
    LET b == Before(h, 1) IN
    {None, ExtensionOf(f, b, ledger[h], TRUE), ExtensionOf(f, b, ledger[h], FALSE),
     ExtensionOf(f, b, ledger[1], TRUE)} \cup
    {ExtensionOf(CHOOSE v \in Correct : TRUE, b, ledger[h], FALSE)}

\* The choices of all faulty validators.
FaultyChoices(h) ==
    {fe \in [Faulty -> UNION {FaultyExtensions(f, h) : f \in Faulty}] :
        \A f \in Faulty : fe[f] \in FaultyExtensions(f, h)}

\* Enough validators have made the last block durable to decide the next one.
QuorumInSync == Cardinality(InSync(Len(chain) + 1) \cup Faulty) >= Quorum

\* The votes for the block at height h that the members of Q, and late the
\* members of L, sign; faulty validators choose their extensions (fe).
VotesOf(Q, L, fe, h) ==
    [v \in Q \cup L |-> IF v \in Faulty THEN fe[v]
                        ELSE ExtendVote(v, committed[v], h)]

\* CometBFT decides block: a quorum Q accepted it and the correct members of Q
\* verified each other's extensions.  Nobody verifies the late votes of L.
DecideBlock(block) ==
    LET h         == Len(chain) + 1
        accepting == {r \in InSync(h) : ProcessProposal(committed[r], block, h)}
    IN  /\ chain' = Append(chain, block)
        /\ UNCHANGED nodeVars
        /\ \E Q \in SUBSET (accepting \cup Faulty) :
             /\ Cardinality(Q) >= Quorum
             /\ \E L \in SUBSET ((InSync(h) \cup Faulty) \ Q), fe \in FaultyChoices(h) :
                  LET vs == VotesOf(Q, L, fe, h) IN
                  /\ \A r \in Q \ Faulty, v \in Q :
                        VerifyVoteExtension(v, vs[v], committed[r], h)
                  /\ votes' = vs
                  /\ ledger' = Append(ledger, FinalizeState(ledger[h], block, h))

Mempools == UNION {[1..n -> Txs] : n \in 0..MaxBlockTxs}

\* The proposer is correct: the block is what its PrepareProposal returns.
HonestBlocks(h) ==
    {PrepareProposal(committed[p], h, m, votes) : p \in InSync(h), m \in Mempools}

HonestRound ==
    /\ Len(chain) < MaxHeight
    /\ QuorumInSync
    /\ \E block \in HonestBlocks(Len(chain) + 1) : DecideBlock(block)

\* Bundles a faulty proposer can put together from the published shares: for
\* the right or a wrong batch or root, with too few shares or too many.
FaultyBundles ==
    {[kind |-> "system", batch |-> b, app_hash |-> AppHash(ledger[k]),
      orders |-> ledger[k].pending[b], shares |-> S] :
        b \in {Len(chain) - 1, Len(chain)} \cap Heights, k \in Len(chain)..Len(ledger),
        S \in {T \in SUBSET {votes[v] : v \in {w \in DOMAIN votes : votes[w] # None}} :
                   Cardinality(T) >= Threshold - 1}}

\* The proposer is faulty: signed transactions in any order, and a bundle or
\* none, before or after them.
FaultyRound ==
    /\ Faulty # {}
    /\ Len(chain) < MaxHeight
    /\ QuorumInSync
    /\ \/ \E m \in Mempools : DecideBlock(m)
       \/ \E x \in FaultyBundles, m \in Mempools :
            /\ Len(m) < MaxBlockTxs
            /\ DecideBlock(<<x>> \o m) \/ DecideBlock(m \o <<x>>)

\* Mutant: a second FinalizeBlock executes on the pending state.
FinalizeOnPending(r) ==
    LET h == committed[r].height + 1
        s == IF pending[r] = NoState THEN committed[r] ELSE pending[r]
    IN  /\ up[r]
        /\ committed[r] # NoState
        /\ h <= Len(chain)
        /\ pending' = [pending EXCEPT ![r] = FinalizeState(s, chain[h], h)]
        /\ UNCHANGED <<chain, ledger, votes, up, committed, disk, published, crashes>>

\* Mutant: a replica does not execute the blocks it missed.
FinalizeNewestOnly(r) ==
    LET h == committed[r].height + 1 IN
    /\ up[r]
    /\ committed[r] # NoState
    /\ h = Len(chain)
    /\ FinalizeSucceeds(committed[r], chain[h], h)
    /\ pending' = [pending EXCEPT ![r] = FinalizeState(committed[r], chain[h], h)]
    /\ UNCHANGED <<chain, ledger, votes, up, committed, disk, published, crashes>>

\* Mutant: the events go out before the state is persisted.
PublishEarly(r) ==
    LET h == committed[r].height + 1 IN
    /\ up[r]
    /\ committed[r] # NoState
    /\ h <= Len(chain)
    /\ FinalizeSucceeds(committed[r], chain[h], h)
    /\ pending' = [pending EXCEPT ![r] = FinalizeState(committed[r], chain[h], h)]
    /\ published' = [published EXCEPT ![r] = h]
    /\ UNCHANGED <<chain, ledger, votes, up, committed, disk, crashes>>

\* FinalizeBlock always starts from the committed state, so CometBFT may call
\* it again after a crash of its own; an error would stop the replica.
FinalizeBlock(r) ==
    LET h == committed[r].height + 1 IN
    /\ up[r]
    /\ committed[r] # NoState
    /\ h <= Len(chain)
    /\ FinalizeSucceeds(committed[r], chain[h], h)
    /\ pending' = [pending EXCEPT ![r] = FinalizeState(committed[r], chain[h], h)]
    /\ UNCHANGED <<chain, ledger, votes, up, committed, disk, published, crashes>>

\* Commit persists, then publishes the new events and advances.
Commit(r) ==
    /\ up[r]
    /\ pending[r] # NoState
    /\ disk' = [disk EXCEPT ![r] = pending[r]]
    /\ published' = [published EXCEPT ![r] = pending[r].height]
    /\ committed' = [committed EXCEPT ![r] = pending[r]]
    /\ pending' = [pending EXCEPT ![r] = NoState]
    /\ UNCHANGED <<chain, ledger, votes, up, crashes>>

\* The process dies and loses its memory.
Stop(r) ==
    /\ up[r]
    /\ crashes < MaxCrashes
    /\ crashes' = crashes + 1
    /\ up' = [up EXCEPT ![r] = FALSE]
    /\ committed' = [committed EXCEPT ![r] = NoState]
    /\ pending' = [pending EXCEPT ![r] = NoState]
    /\ published' = [published EXCEPT ![r] = 0]
    /\ UNCHANGED <<chain, ledger, votes>>

Crash(r) == Stop(r) /\ UNCHANGED disk

\* The crash hits between the store's write and the rest of the handler.
CrashInCommit(r) ==
    /\ pending[r] # NoState
    /\ Stop(r)
    /\ disk' = [disk EXCEPT ![r] = pending[r]]

\* Mutant: InitChain overwrites a store that has a state.
CrashOverStore(r) ==
    /\ Stop(r)
    /\ disk' = [disk EXCEPT ![r] = Genesis]

CrashInInitChain(r) ==
    /\ committed[r] = NoState
    /\ Stop(r)
    /\ disk' = [disk EXCEPT ![r] = Genesis]

\* ChainRuntime::open loads the store.
Open(r) ==
    /\ ~up[r]
    /\ up' = [up EXCEPT ![r] = TRUE]
    /\ committed' = [committed EXCEPT ![r] = disk[r]]
    /\ UNCHANGED <<chain, ledger, votes, pending, disk, published, crashes>>

Next ==
    \/ HonestRound
    \/ FaultyRound
    \/ \E r \in Correct :
         \/ InitChain(r) \/ FinalizeBlock(r) \/ Commit(r)
         \/ Crash(r) \/ CrashInCommit(r) \/ CrashInInitChain(r) \/ Open(r)

Spec == Init /\ [][Next]_vars

-----------------------------------------------------------------------------
(***************************************************************************)
(* Properties.                                                             *)
(***************************************************************************)

\* The last decided state.
Tip == ledger[Len(ledger)]

\* Type correctness of the replica and chain variables.
TypeOK ==
    /\ Len(ledger) = Len(chain) + 1
    /\ Len(chain) <= MaxHeight
    /\ DOMAIN votes \subseteq Validators
    /\ up \in [Correct -> BOOLEAN]
    /\ \A r \in Correct :
         /\ disk[r].height \in -1..Len(chain)
         /\ committed[r].height \in -1..Len(chain)
         /\ pending[r].height \in -1..Len(chain)
         /\ published[r] \in 0..Len(chain)
    /\ crashes \in 0..MaxCrashes

\* Every replica computes, keeps and recovers exactly the state that the
\* decided blocks define, whatever it crashed in the middle of: the state in
\* memory, the finalized state and the state on disk are all the ledger's, and
\* a running replica has in memory what it has on disk.
IsLedgerState(s) == s = NoState \/ (s.height \in 0..Len(chain) /\ s = ledger[s.height + 1])

Agreement ==
    \A r \in Correct :
        /\ IsLedgerState(disk[r]) /\ IsLedgerState(committed[r]) /\ IsLedgerState(pending[r])
        /\ up[r] => committed[r] = disk[r]
        /\ pending[r] # NoState => pending[r].height = committed[r].height + 1

\* finalize_block never returns an error for a decided block, so no replica
\* stops on a block the others accepted.
DecidedBlocksFinalize ==
    \A h \in 1..Len(chain) : FinalizeSucceeds(ledger[h], chain[h], h)

\* A batch queued at height H is in the state until H+1 and is gone from H+2
\* on; its snapshot lives exactly as long, its anchor from H+1 on.
BatchLifecycleOf(s) ==
    \A b \in Heights :
        /\ s.pending[b] # {} => b \in {s.height - 1, s.height} /\ b > 0
        /\ b \in s.frozen <=> s.pending[b] # {}
        /\ s.anchors[b] # NoState <=> (s.pending[b] # {} /\ b < s.height)

BatchLifecycle == \A i \in 1..Len(ledger) : BatchLifecycleOf(ledger[i])

\* The bonds of a batch are those of the accounts with an order in it, one
\* order each, so the settlement's bond checks cannot fail.
BondsMatchOrders ==
    \A b \in Heights :
        /\ Bonded(Tip, b) = {tx.signer : tx \in Tip.pending[b]}
        /\ Cardinality(Bonded(Tip, b)) = Cardinality(Tip.pending[b])

\* No account has reserved more than it owns, and its reservation covers its
\* bonds in any two batches: release_margin never underflows.
ReservationsHold ==
    \A a \in Signers :
        /\ Available(Tip, a) >= 0
        /\ \A b, c \in Heights :
              b # c => Tip.bonds[b][a] + Tip.bonds[c][a] <= Tip.reserved[a]

\* The money of the pending batches is where it should be: the bonds of a batch
\* are those of the accounts with an order in it, one each; collateral and fees
\* add up to what was credited; no account has reserved more than it owns; and
\* its reservation covers its bonds in all the batches in flight, so that
\* settling them one after the other never underflows in release_margin.
MarginAddsUp ==
    /\ BondsMatchOrders /\ ReservationsHold
    /\ Tip.fee_vault + SumFunctionOnSet(Tip.collateral, Signers) = Tip.total_credits
    /\ \A a \in Signers :
         SumFunctionOnSet([b \in Heights |-> Tip.bonds[b][a]], Heights)
            <= Tip.reserved[a]

\* The root a batch is anchored to is the root of the block that committed it,
\* the one the validators' shares are bound to.
AnchorIsBatchRoot ==
    \A i \in 1..Len(ledger) : \A b \in Heights :
        ledger[i].anchors[b] # NoState =>
            b < i /\ ledger[i].anchors[b] = AppHash(ledger[b + 1])

\* The commit that precedes the settlement of a batch always carries enough
\* valid shares for any proposer to open it.
DueBatchCanBeOpened ==
    LET b == DueBatch(Len(chain) + 1) IN
    BatchIsDue(Tip, Len(chain) + 1) =>
        Cardinality({v \in DOMAIN votes :
            /\ votes[v] # None
            /\ votes[v].validator = v
            /\ ExtensionValid(votes[v], Tip, b, Tip.anchors[b])}) >= Threshold

\* A committed batch runs its course: it lives for two blocks, is anchored to
\* the block that committed it, and the commit before its mandatory settlement
\* lets any proposer open it, whatever faulty validators attach to their votes
\* (finalize_block, verify_vote_extension, aggregate_vote_extensions).
BatchesSound == BatchLifecycle /\ AnchorIsBatchRoot /\ DueBatchCanBeOpened

\* What a correct proposer proposes, every correct replica at that height
\* accepts: no round led by a correct proposer is lost to the application.
HonestProposalAccepted ==
    LET h == Len(chain) + 1 IN
    h <= MaxHeight =>
        \A block \in HonestBlocks(h), r \in InSync(h) :
            ProcessProposal(committed[r], block, h)

\* The retained events of account a's transactions.
EventsOf(log, a) == {i \in 1..Len(log) : log[i].kind # "settled" /\ log[i].signer = a}

\* No transaction takes effect twice: the retained events of an account are
\* those of its last transactions, in nonce order and without gaps.
EachNonceOnce(log, nonces) ==
    \A a \in Signers : \A i \in EventsOf(log, a) :
        /\ log[i].nonce < nonces[a]
        /\ \A j \in EventsOf(log, a) : i < j => log[i].nonce < log[j].nonce
        /\ \A n \in log[i].nonce..(nonces[a] - 1) :
              \E j \in EventsOf(log, a) : log[j].nonce = n

NoReplay == EachNonceOnce(Tip.events, Tip.nonces)

\* Subscribers never see an event of a state that is not on disk.
PublishedIsDurable ==
    \A r \in Correct : published[r] > 0 => published[r] <= disk[r].height

\* What the store holds never goes back to an earlier height.
DiskNeverRegresses ==
    [][\A r \in Correct : disk'[r].height >= disk[r].height]_disk

-----------------------------------------------------------------------------
(***************************************************************************)
(* Liveness.  CometBFT keeps running rounds with correct proposers, keeps  *)
(* delivering decided blocks, and an operator restarts stopped processes.  *)
(***************************************************************************)

Fairness ==
    /\ WF_vars(HonestRound)
    /\ \A r \in Correct :
         /\ WF_vars(InitChain(r)) /\ WF_vars(Open(r))
         /\ WF_vars(FinalizeBlock(r)) /\ WF_vars(Commit(r))

FairSpec == Spec /\ Fairness

\* A committed batch is settled (its successor heights are within the bound).
BatchesSettle ==
    []<>(\A b \in 1..(MaxHeight - DelayBlocks) : Tip.pending[b] = {})

\* Every correct replica makes every decided block durable.
ReplicasCatchUp == []<>(\A r \in Correct : disk[r].height = Len(chain))
=============================================================================
