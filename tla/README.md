# Asteria in TLA+

Asteria is a perpetual-DEX application chain.  CometBFT orders transactions; the
Asteria process behind each validator is a deterministic state machine reached
through ABCI++ (`src/src/consensus.rs`).  It executes signed commands and private
order batches on one `EngineState` (`src/src/engine.rs`) and keeps it in a redb
store (`src/src/store.rs`).  This directory models that system, checks it with
TLC and proves with TLAPS the central properties of its replication, its store, its
state sync, its shielded ledger, its mempools and event feed, and of the way its
validators generate keys.

Paths below are relative to `src/src/` unless they start with `src/`.

## 1. The system's parts

| Part | State | Operations | What makes it correct |
| --- | --- | --- | --- |
| ABCI++ runtime (`consensus.rs`) | committed and pending state, mempool reservations, transaction cache, snapshot import | InitChain, CheckTx, PrepareProposal, ProcessProposal, ExtendVote, VerifyVoteExtension, FinalizeBlock, Commit, state-sync handlers | replicas agree; what was accepted finalizes; a crash neither loses nor repeats a block |
| Private batch protocol (`private_protocol.rs`) | none of its own; anchors, pending orders and bonds are in the engine state | build, validate and aggregate vote extensions; open a batch with a bundle | a batch committed at H is opened from the votes of H+1 and settled at H+2, whatever faulty validators send |
| Trading engine (`engine.rs`, `account.rs`, `domain.rs`) | accounts, positions, reservations, books, mark prices, funding index and pool, fee vault, insurance fund, batches, nonces | the ten commands of `apply_consensus_command`, freezing and settling a batch | reservations, positions, funding and assets add up; nobody trades on margin he does not have |
| Order book (`orderbook.rs`) | price levels, orders | execute, cancel, take, restore, batch fill | price-time priority, uncrossed book, reservations released exactly once |
| Batch auction (`batch_auction.rs`, `private_market.rs`) | none | clear a batch at one price | never fails; volume, price, priority, limits and pro-rata shares as promised |
| Store and commitment (`store.rs`, `state_commitment.rs`) | entities, tree nodes, tree values and metadata in redb | preview, commit, replace, open | one atomic write per block; exactly the current tree is kept; incremental and full roots agree |
| Event log (`event.rs`) | retained events, hash links | append, prune, verify, read after a number | only durable events are published; a reader sees gaps and can resume |
| State sync (`state_sync.rs`) | exports, the snapshot being imported | list, serve, offer, apply chunk, finish | an import is complete and authentic or has no effect |
| Shielded ledger (`shielded_margin.rs`, `shielded_protocol.rs`) | note tree, nullifiers, accepted roots, market policy, accounting totals | configure, deposit, spend, rebuild from the store | no note is spent twice, nothing is minted, positions net out |
| DKG transport (`dkg_transport.rs`) | endorsement guards, transcripts, inboxes, replay guards | seal, endorse, certify, accept, open | one outcome per sender; nobody is blamed for what he did not do; correct messages get in |
| DKG ceremony (`dkg_ceremony.rs`, `threshold_dkg.rs`) | journal, coordinator record, provider secrets | start, recover, rounds one and two, finalize, abort | nothing leaves unrecorded; a ceremony ends, and completes only with the certified key |
| Viewing keys (`viewing_key.rs`) | root, epoch, retention | seal, open, rotate, recover | a sealed opening opens in its place, during its window |
| Cryptography (`private_order.rs`, `zk_*.rs`) | none | - | assumed |
| Gateway, node (`api.rs`, `node.rs`) | requests in progress | broadcast, health, events, websocket | answers are true; what it admits can be executed |
| Tools (`bin/`) | none that the chain depends on | - | - |

How they interact: CometBFT calls the runtime's handlers one at a time (a
`RwLock` serialises them).  The runtime calls the engine for every transaction
and at the end of a block, the engine calls the book and the auction, and Commit
calls the store and then the event broadcast.  Validators meet only through
proposals, votes and vote extensions, except in a key ceremony, which uses its own
envelopes and runs beside the chain.  A gateway shares the committed snapshot with
the runtime of its process and reaches CometBFT by RPC.

What is hard here: a crash between the store's write and the answer to Commit; a
block that ProcessProposal accepts and FinalizeBlock refuses, because they run on
slightly different states; a mandatory transaction that cannot be built or that
fails, which stops the chain; frozen orders that are away while prices, funding
and the live book move on; many partial releases of one reservation; a
liquidation that changes four kinds of balances at once; an auction whose
all-or-nothing orders make the search for a volume non-monotone; a ceremony whose
secrets, journal and messages are three things that fail separately; senders that
tell two stories; spends on roots that are no longer current; and requests that
time out while their transaction is decided.  `PROJECT.json` lists each hazard at its line with the properties that would catch it.

## 2. Modules

| Module | Models | State |
| --- | --- | --- |
| `ChainRuntime` | `consensus.rs`, `private_protocol.rs`, the part of the engine state that replication depends on | decided chain and votes (CometBFT, external), `up`, `committed`, `pending`, `disk`, `published` per replica |
| `ChainRuntimeProofs` | theorems about `ChainRuntime` | |
| `Domain` | sides, steps and rates of `domain.rs`; ordered folds | none |
| `Margin` | `account.rs`, price bands and reservations of `engine.rs` | none (operators) |
| `OrderBook` | `orderbook.rs` | none (operators on a set of orders) |
| `BatchAuction` | `batch_auction.rs`, `private_market.rs` | none (operators on a set of orders) |
| `Exchange` | the commands of `engine.rs`, freezing and settling; composes the three above | `st`, the engine state; `moves`, a bound |
| `StateStore` | `store.rs`, `state_commitment.rs` | `disk` (four tables), `txn`, `committed`, `pending`, `running`, `failed` |
| `StateStoreProofs` | theorems about `StateStore` | |
| `StateSync` | `state_sync.rs`, the snapshot handlers of `consensus.rs` | per node `committed`, `pending`, `disk`, `exports`, `import`, the last `reply`; `syncer` and the network (CometBFT, external) |
| `StateSyncProofs` | theorems about `StateSync` | |
| `DkgWire` | envelopes, endorsements, certificates and their checks, replay guard | none (operators) |
| `DkgBroadcast` | round one on the wire with endorsements; composes `DkgWire` | `sealed`, `guard`, `saved`, `published`, `transcript`, `seen`, ... |
| `ConsistentBroadcast` | what round one promises (abstract) | `chosen`, `delivered` |
| `DkgInbox` | round two's inbox and the plain transcript; composes `DkgWire` | `inbox`, `plaintexts`, `broadcasts`, replay guards |
| `DkgTransport` | the collectors of both rounds; composes `DkgBroadcast` and `DkgInbox` | `covered`, the collector a behaviour is about |
| `DkgBroadcastProofs` | theorems about `DkgBroadcast` and `DkgTransport` | |
| `ThresholdDkg` | the parts of a key generation in `threshold_dkg.rs` | none (operators) |
| `DkgCeremony` | `dkg_ceremony.rs`; composes `DkgWire` and `ThresholdDkg` | `journal`, `coordinator`, `provider`, `finalizing`, what left the validator |
| `DkgCeremonyProofs` | theorems about `DkgCeremony` | |
| `NoteTree` | the incremental Merkle tree of `shielded_margin.rs` | none (operators) |
| `ShieldedLedger` | `shielded_margin.rs`, `shielded_protocol.rs`, the shielded commands of `engine.rs`; composes `NoteTree` | `state`, `deposited` |
| `ShieldedLedgerProofs` | theorems about `NoteTree` and `ShieldedLedger` | |
| `EventFeed` | `event.rs`, publication in `consensus.rs`, event endpoints of `api.rs` | logs, `channel`, `position`, what the subscriber got |
| `EventFeedProofs` | theorems about `EventFeed` | |
| `Gateway` | CheckTx and Commit of `consensus.rs`, broadcast and lookup of `api.rs` | chain, `mempool`, `reservations`, `waiting`, `told` |
| `GatewayProofs` | theorems about `Gateway` | |
| `MC*` | instances; `MCBatchAuction` also holds reference definitions | |

### ChainRuntime

One action per handler call that changes a replica (`InitChain`,
`FinalizeBlock`, `Commit`), per crash (`Crash`, `CrashInCommit` and
`CrashInInitChain`, which die after the store's write and before the rest) and
per restart (`Open`).  Handlers that change nothing (PrepareProposal,
ProcessProposal, ExtendVote, VerifyVoteExtension) are operators.  CometBFT is
external: `HonestRound` and `FaultyRound` decide a block that a quorum accepts,
of which the correct members verified each other's extensions; the commit also
carries late votes nobody verified, as in CometBFT.  Faulty validators
choose blocks, bundles and extensions freely, except that they cannot forge
another validator's share.

The state of the engine is cut down to nonces, collateral, reservations, bonds,
batches, anchors and events.  Whether a settlement passes the engine's own
checks is an attribute of a private order (`settles`); all runs of this module set
it to true, and `Exchange` models what it stands for.  The state root is
injective, so a state is its own root.  Proposals are built from arbitrary
sequences of transactions: that includes everything CheckTx would have kept out.
InitChain on a store that already holds the genesis state only compares hashes
and is a stuttering step.  The code's error paths of Commit (a store that cannot
write) are left out: the process cannot continue from them.

### Domain, Margin, OrderBook, BatchAuction

The book is a set of orders whose `id` is the sequence number the engine gave
them; `(price, id)` is their place in the queues.  `Execute` is the matching
loop with self-trade prevention and proportional releases.  The auction is
translated operator by operator, with one integer per id (`prio`) in place of
the hash of beacon and id.  Decimals are integers.  Division is integer division,
and the instances of `Exchange` use prices, quantities and rates for which every
division that occurs is exact, as a 28-digit decimal is for realistic values;
the auction's divisions, which do round in the code, round in the model.

### Exchange

The state is one record like `EngineState`, a command is a function on it that
carries `ok`, and an action takes the result only if `ok`: that is
`apply_consensus_command`, which restores the previous state on an error.
`EndBlock` is the freezing at the end of a block followed by the system
transaction that opens the next one; if it fails the action is disabled, because
ProcessProposal rejects every block without that transaction.  One market;
oracle observations are represented by their weighted median; signatures,
nonces, trades, statistics and overflow checks are left out; the shielded ledger
and events have modules of their own.

### StateStore, StateSync

A root is the contents it was computed from, a tree has a root node and one leaf
per key.  `StateStore` splits a commit into the writes of its redb transaction:
entities, tree, metadata, and the commit that makes them visible at once.  A
`Crash` or `WriteFails` may come between any two.  Opening rebuilds the state from the
entities and compares both roots, as `load_state` does.

`StateSync` has nodes that may each serve and, while empty, import.  The network
keeps every descriptor and chunk ever sent; `Forged` and `Garbage` are what no
node exported.  CometBFT's part is external.  The handlers are called in any
order, because nothing in them relies on another; but `syncer` follows their answers as
CometBFT's state-sync reactor does.  An accepted offer makes it fetch chunks, a rejected
one offer another snapshot, and the last chunk, an Abort or the rejection of format 1 end
it until the process is started again.  Which chunk it asks for is what `refetch_chunks`
of the last answer says, if anything.

### DkgWire, DkgBroadcast, ConsistentBroadcast, DkgInbox, DkgTransport

A signature is the name of the key that made it, a digest is what it is taken of,
a ciphertext is its plaintext with the key and associated data it was made for.
`form` stands for the structural checks (version, sizes, zero identifiers).
Endorsing, saving the guard and publishing are separate actions, because the
library leaves the saving to its caller and says when it has to happen.  Faulty
validators endorse everything and sign two broadcasts under one message id.

`ConsistentBroadcast` is the promise: one outcome per sender, chosen once, a
correct sender's own message, and what collectors deliver.  `DkgBroadcast` is
shown to implement it.  `delivered` is the transcripts; `chosen` of a sender is
the envelope of it that is decided, that is, valid and backed by a quorum whose
correct members have published their endorsements, and `None` until there is one.

`DkgTransport` puts the certified transcripts of round one and the inbox of round
two beside each other.  They share the wire format and no state, so a behaviour
covers one of them; `covered` says which.

### ThresholdDkg, DkgCeremony

A package names its sender, session and secret; a group key is the packages it
was computed from.  Each coordinator call is one action with its provider call
and its journal write, successful or failed; `finalize` is two, because it
writes twice.  Several processes may share the journal.  A provider survives its
coordinator when that is taken apart, and is lost in a crash.  A behaviour follows
one of the plans of `Plans`: what the network holds, how many processes and
providers there are, and which faults may happen.

### NoteTree, ShieldedLedger

Hashes are tuples.  A spend carries its statement and the transparent witness that
the code checks; deviations from an honest spend (another chain or ledger, another
signer, inflated values, a leaf index beyond its path, forged paths, replays) are
inputs of the run.  `IsSpend` says what any command carries: values of the code's
types, and signatures of owners in `Signing`, because nobody signs for the others.
A command that fails leaves the state as it was (`engine.rs:641`).

### EventFeed, Gateway

`EventFeed` follows an event from execution through pruning, Commit, the bounded
channel and the websocket to a reader.  A block may have more events than the log
retains.  `committed.all` keeps every event for reference, and `started` is the sequence
number the process started with: what was committed before, it does not send.

`Gateway` has two validators' CheckTx, external mempools with gossip and rechecks,
requests that time out and requests that are repeated.  An answer of the RPC is a
record with the transaction it is about and the codes of CheckTx and of the execution.
It may be about another transaction than the one that was sent, and a refusal by CheckTx
comes with the default result code, which is success.  `validate_broadcast_response` makes
the checks of the code on it, `told` is the last client that was told of success, and
a lookup (`transaction_by_hash`) compares both hashes.

## 3. Runs

| Run | Question | Result |
| --- | --- | --- |
| `chain_runtime` | do replicas agree, and does every accepted block finalize, with a faulty validator and a crash? | holds |
| `chain_runtime_live` | is every committed batch settled and every block made durable? | holds |
| `batch_auction` | is the outcome of the auction the one that is promised? | holds |
| `exchange` | do reservations, positions and assets add up, and does a due batch settle? | holds |
| `settlement_underwater` | can a committed batch always be settled? | finding 1 |
| `state_store` | does the store open to the last durable state after any crash or failed write? | holds |
| `state_sync` | does an empty node end up with the chain's state and nothing else? | holds |
| `dkg_transport` | is round one a consistent broadcast, are reports of equivocation backed, do correct messages arrive? | holds |
| `ceremony` | is whatever left a validator in its journal, and is a completed key the certified one? | holds |
| `shielded_ledger` | is value conserved, is a ledger read from the store the same ledger, do witnesses last? | holds |
| `gateway` | are answers true, is what a mempool holds executable, is a repeated transaction decided? | holds |
| `event_feed` | does the feed show every gap, is what is retained sent, and does a subscriber catch up? | holds |

Bounds and why they are enough:

- `chain_runtime`: four validators with quorum and threshold three are the
  deployment of `src/README.md`; the faulty one has the lowest share id, the one
  aggregation picks first.  Four blocks hold two overlapping batches and both
  settlements.  The account's balance suffices for one bond, so its second order
  depends on a credit that comes while the first bond is held; three events are
  retained, so that pruning happens; a transaction of another chain uses a nonce of
  this one.  One crash per behaviour hits any replica in any step.
- `chain_runtime_live`: one validator has no share, so settling needs each of
  the others.  Weak fairness of rounds led by correct proposers, of delivering
  decided blocks (FinalizeBlock, Commit), of InitChain and of restarting a
  stopped process: CometBFT does the first three, an operator or supervisor the
  last.  Crashes and faulty rounds are not fair.
- `batch_auction`: thirteen shapes of participants (limit and market, FOK, IOC
  and resting, both sides, sizes that do not divide each other), up to four of
  them, two reference prices and two priorities; the protection prices lie on
  both sides of every limit price.  Every batch is also cleared with one round for
  the FOK search (`Hurried`), which four orders exhaust; with the code's 4n+8 rounds
  batches this small never do, larger ones may.
- `exchange` has two plans.  On a trading day three accounts place up to seven orders
  of nine kinds, with two price moves, funding and a credit: enough for a position, a
  price move and a liquidation that leaves bad debt with a social loss.  Liquidations,
  bad debt covered by each of the three sources, funding with pending payments,
  reduce-only orders overtaken by fills and self-trades all occur.  On a batch day four
  blocks hold two overlapping batches; three public orders and one price move suffice
  for partial fills, frozen orders that are dropped or come back crossing, invalid and
  unreadable private orders.
- `state_store`: three families of entities with one key, a note and a nullifier cover
  every kind of entity, insertion, change and deletion, with and without a shielded
  ledger; two blocks make nodes stale, and one fault hits any write.
- `state_sync`: a server, an empty node, bodies of two chunks of which the last is
  short, two heights so that an export is replaced while it is fetched, descriptors
  that claim the verified hash for another body, a foreign chain, another format and a
  chunk list that does not fit.  One fault hits any step; starting a node again
  whose write failed is not counted.  Fairness is that of CometBFT's reactor and follows the
  handlers' answers: while `syncer` is offering, the node is given what a server lists
  now; while it is applying, the wanted chunk is fetched from a server that has it
  (both strong, because a server that is down for a while has nothing to give); a snapshot
  whose chunk nobody has is given up; pending blocks are committed, and a stopped node is
  restarted.  Once `syncer` has ended nothing is fair: the answer to a failed write is
  Abort, CometBFT only logs it, and an operator has to restart the node, so
  `SyncCompletes` leaves that case out (`failed`), and no other.  CometBFT offers no
  snapshot twice; the chain of the instance ends, and its last snapshot stands for
  those of later blocks.  `MaxOffers` bounds forged offers, offers nobody waits for,
  and snapshots given up although a server has the chunk.
- `dkg_transport`: four validators with quorum three are fixed in the code; one is
  faulty, the most a quorum of three tolerates, and one crash hits any step between
  signing, saving and publishing.  Each deviation of a round-two message occurs once,
  and the replay guard has room for as many messages as there are senders, so that a
  wasted entry would show.  Weak fairness is of one action per round: something a
  correct validator can do (seal, endorse, save, publish, hear a correct broadcast)
  happens.  A crash is not fair.
- `ceremony` has three plans: two processes that race on one journal with a crash and a
  failed write; one process that is restarted or taken apart, with conflicting
  certificates and mixed shares; a refresh with two failed writes and no crash.  Three
  time steps pass each phase's deadline; a second provider is a lost one replaced.
  `CeremonyEnds` is about the refresh, whose process lives on.  It assumes that time
  passes, that the coordinator is called again, and that a write succeeds in the end:
  the code checks deadlines only when it is called.
- `shielded_ledger`: three deposits and spends of one and two notes, with a history of
  two roots so that roots expire.  The tree has eight leaves and does not fill up.  A
  wallet moves a note to itself at every fee and leverage, blinded one of two ways.
- `gateway`: two nodes, two rivals of one signer of which one expires, their successor,
  and a transaction of another signer whose command fails after one of them.  One
  mempool holds two transactions, the other one, so that CheckTx reserves for
  transactions that find no room.  Proposers take turns and a client's repeated
  request is admitted again and again until decided (strong fairness); Commit and
  timeouts are weakly fair.
- `event_feed`: three retained events, a channel of two, blocks of up to four
  sequence numbers (orders use some without an event), so that a block may prune its
  own events; the subscriber's task is weakly fair, its connection is not.
- All bounds (`MaxHeight`, `MaxCrashes`, `MaxOrders`, a plan's `orders`, `moves`,
  `crashes` and `failures`, ...) are guards, so behaviours end at them:
  `CHECK_DEADLOCK FALSE`, except where a module can always take a step.

What the deeper properties say:

- `DecidedBlocksFinalize`: FinalizeBlock anchors the newest batch before it
  executes the bundle, ProcessProposal does not; the difference must not matter.
- `BatchesSound` and `HonestProposalAccepted`: empty or broken extensions can neither
  keep a due batch closed nor get an honest proposal rejected.
- `OutcomeIsBest`: FOK orders never cost the divisible orders volume, over all
  prices and not only the candidates.
- `AuditHealthy`: what `audit_state` reports as healthy, in every reachable state.
- `WaitingOrdersSound`: the book is uncrossed even after frozen orders come back,
  reduce-only orders fit into the position together, and the larger reservation taken
  when an order is frozen is enough for every price the oracle may publish until then.
- `MarginHolds`: no fill, liquidation or social loss takes an account's margin
  below zero.  Accounts with a reduce-only order next to an ordinary one of the same
  side are excluded; observation 3 says why.
- `DueBatchSettles`: a due batch settles if its reference price is a multiple of
  the tick, no frozen remainder is below the minimum quantity, and no account of a
  live order has negative margin.  The last premise is finding 1, the others are
  observations 1 and 2.
- `NodesAreCurrentTree`: neither a leaked nor a dangling node after any sequence
  of commits, replacements and faults.
- `NothingIsLost`: a peer that started to fetch an export can finish although a newer
  one was listed meanwhile, and no snapshot replaces a block that was committed between
  the offer and the last chunk.
- `CertificatesAgree`, `IsConsistentBroadcast`: what saving the guard before publishing
  an endorsement is for.
- `NothingLeavesUnrecorded`: a recovered or second process cannot contradict a
  message that is already out.
- `ValueConserved`: the accounting's total is the collateral of notes whose nullifier is
  unpublished; an aliased index or a stale root would break it.
- `AnswersAreTrue`: who is told of success finds his transaction in the state
  committed at that node, and no reservation for the used nonce is left there to refuse his
  next one.  It needs the gateway's check of CheckTx's code, because a refusal has a
  successful result, and the clearing of reservations by Commit.
- `SyncCompletes`: only a failed write makes the handlers end a state sync, and
  `refetch_chunks` names the chunk that is missing.
- `PublishedAfterCommit`: everything sent is committed, and everything committed and
  still retained has been sent, unless it is older than the process.
- `MempoolIsExecutable`: what a level node would propose passes FinalizeBlock's
  checks of nonce and expiry, and holds no two transactions of one signer.
- `RecentWitnessesAccepted`: appends and the cut of the root history between taking a
  witness and using it cost a wallet nothing while the root is accepted.

## 4. Findings

1. `settlement_underwater`: `restore_private_batch_orders` checks the margin of
   every account with a live or restored order (`engine.rs:1330`).  A price move
   against an account whose order rests in the live book fails the check, and
   the mandatory transaction with it.  Until the state changes the batch cannot
   be settled, and without the transaction no block can change the state.
   `src/README.md:52`: "Once committed at `H`, a batch is not silently deleted by
   a timeout; it must be finalized by its valid mandatory `H+2` system
   transaction."

### Observations without a run

Read off the code while modelling it.  Where one limits a property, the property
says so; none of them is claimed by a run.

1. The reference price of a batch must be a multiple of the tick
   (`private_market.rs:209`), the oracle's median need not be.  Same consequence as
   finding 1; a premise of `DueBatchSettles`.
2. A resting order filled down to less than `min_quantity` is an error in the auction
   (`private_market.rs:365`).  Only with `min_quantity` above `quantity_step`; a
   premise of `DueBatchSettles`.
3. `src/docs/PRIVACY_PERFORMANCE.md:141` says "Post-fill risk is checked
   atomically."; `liquidate_account` has no such check (`engine.rs:2449`).  A maker
   whose ordinary and reduce-only orders are both filled by one liquidation opens a
   position without margin; `MarginHolds` leaves that case out.
4. `endorse_broadcast` asks its guard before it checks the signature
   (`dkg_transport.rs:1271`), so a damaged copy or a broadcast of an earlier session
   makes it report a sender who "equivocated with two signed transport messages"
   (`dkg_transport.rs:1810`).  `ReportsAreBacked` is about the collectors, which
   verify first.
5. "Every mutating method must be idempotent" (`dkg_ceremony.rs:421`); the software
   provider's `begin_round1` and `advance_round2` refuse a repeated call
   (`dkg_ceremony.rs:1347`), so one failed journal write costs the ceremony.
6. "a crash after entering it is resumed by asking the provider to repeat an idempotent
   `part3` operation" (`dkg_ceremony.rs:39`); `restore_checkpoint` refuses a provider
   that has already done so (`dkg_ceremony.rs:1317`).
7. A timeout "atomically quarantines provider and leaves tombstone" (the test at
   `dkg_ceremony.rs:1729`), unless the provider is completed, which `quarantine` refuses
   (`dkg_ceremony.rs:1511`).
8. `restore_checkpoint` compares the kind of the secret state and not the secrets
   (`dkg_ceremony.rs:1317`).  A process that lost the race for round one and is taken
   apart can recover with its own secrets and complete with a key that is not the
   transcript's.  The racing plan of `ceremony` therefore takes no process apart.
9. Renumbering the access counter of the transaction cache leaves a stale entry in
   the recency index (`consensus.rs:254`).  It takes 2^64 accesses.
10. Commit sends what the log of the new state has after the last committed sequence
    number (`consensus.rs:906`), and that log is pruned with every event
    (`event.rs:124`).  Of a block with more than `MAX_RETAINED_EVENTS` events the first
    are never sent, against `src/README.md:261`: "Live events published after commit".
    The blocks of `event_feed` include such ones; `PublishedAfterCommit` is about what
    is retained, and `LinksShowGaps` says that a client can see the gap.
11. `GET /v1/events` without parameters returns the oldest retained events
    (`api.rs:810`), against "Most recent" in `src/README.md:260`.

## 5. Proofs

### ChainRuntimeProofs

`ChainRuntimeProofs` proves nine theorems for every set of validators, transactions
and bounds.  Six are about replication: `TypeCorrect`, `ReplicasAgree` (`Agreement`), `DecidedFinalize`
(`DecidedBlocksFinalize`), `CommittedBatchesSound` (`BatchesSound`),
`EventsAreDurable` (`PublishedIsDurable`) and `StoreIsMonotone`
(`DiskNeverRegresses`).

Assumptions (the named ASSUMEs of `ChainRuntime`): finitely many validators and
accounts, fewer faulty ones than a quorum, a threshold no larger than a quorum, bounds that
are natural numbers.  The model itself assumes an injective state root and shares
that only their holder can make.

The argument is one inductive invariant, `Inv`:

- `ChainInv`: the chain and the ledger of its states have corresponding lengths,
  and the ledger starts at genesis;
- `LedgerInv`: every ledger state is well-formed, has its height and the
  two-block life cycle of batches, and the next one is what FinalizeBlock
  computes from it and its block;
- `ReplicaInv`: memory, pending and disk of a replica are ledger states in the
  right order of heights, a stopped replica has nothing in memory, and what was
  published is durable;
- `DecidedBlocksFinalize`, `AnchorIsBatchRoot` and `DueBatchCanBeOpened`
  themselves.

None of the listed properties is inductive alone.  Agreement needs FinalizeBlock
to succeed on decided blocks, which needs that acceptance by a correct replica
implies finalization (`AcceptedFinalizes`), which needs the life cycle of batches
(the anchor FinalizeBlock writes is never the one the bundle reads), which needs
the effect of every transaction on the fields concerned (`TxsEffect`,
`BundleEffect`, `FreezeEffect`).  A quorum has a correct member
(`QuorumHasCorrect`), and that member's acceptance and verification count for
all, because correct replicas at a height have the same state.

Three are about what the blocks do to accounts, bonds, nonces and events:
`NoTransactionTwice` (`NoReplay`), `HonestBlocksAccepted` (`HonestProposalAccepted`)
and `BondsAreHeld` (`MarginAddsUp`).

The inductive invariant is `Inv` together with `Sound(Tip)`, which says of the last
ledger state:

- `LogSound`: an account's events have the last of its nonces, each once, in order
  and up to the current one, with pruning of the oldest;
- `BatchSound`: the orders of a batch have different signers, and exactly these have
  a bond in it;
- `Covered`: a reservation is at least the sum of an account's bonds in any two
  batches.  This is inductive only with the life cycle of batches (`TwoLive`): what is
  left when a batch is released must cover the one other that can be live;
- `Solvent`: a reservation is at most the collateral;
- `Balanced`: the collateral of all accounts and the fees are what was credited.

A private order reserves all that is left, so a top-up between two orders is what makes
the second bond possible, and `Covered` has to hold through it.  That the reservation
covers the bonds of all batches together, which `MarginAddsUp` states as a sum, follows
from `Covered` and `TwoLive`: at most two of the summands are not zero (`SumOfTwo`).  A
faulty proposer decides which transactions are tried, but `ProcessProposal` takes no
bundle behind the first place, so the body of a decided block consists of client
transactions (`FaultyBody`).

`HonestBlocksAccepted` needs more than an invariant of states: that the lowest
`Threshold` of the usable vote extensions exist whatever else is in the commit
(`LowestExist`, `AggregateFacts`, from the part of `BatchesSound` about votes), that the
bundle made of them executes on the replica's scratch state (`BondedCount`,
`Covered`), and that each transaction PrepareProposal picks applies after those before it
(`PickedApply`).  It has two hypotheses.  Every order passes the margin checks at the
settlement (`settles`): where one does not, no block can be accepted, which is what
`settlement_underwater` shows.  A block has room for the bundle (`MaxBlockTxs > 0`):
without room PrepareProposal returns an empty block, which ProcessProposal refuses while
a batch is due.

### DkgBroadcastProofs

`DkgBroadcastProofs` proves `TypeCorrect`, `EndorsementsGuarded`,
`NoConflictingCertificates` (`CertificatesAgree`), `TranscriptAgreement`,
`Refinement` (`IsConsistentBroadcast`) and, of `DkgTransport`, `CollectorsSound`
(`ReportsAreBacked`) for any set of validators, senders, collectors and envelopes.
Assumptions (the ASSUMEs of `DkgBroadcast`): speakers and endorsers are correct validators,
envelopes that verify and that no correct validator sealed are of faulty senders,
any two quorums have a correct validator in common, and `None` is no envelope.

The inductive invariant `IInv` has four parts: types; `GuardsSound`, that a
guard holds verified envelopes of the subject they are stored under, and memory
never forgets what storage holds; `PublishedSaved`, that what was published
is in storage; and `TranscriptsBacked`, that an accepted envelope has a quorum of
endorsers behind it.  Agreement alone is not inductive: it needs that a correct
validator in two quorums endorsed one envelope, which needs its guard, which after a
crash is what storage holds.

For the refinement the outcome of a sender must never be taken back.  `Backed(e)`, a
quorum whose correct members have published endorsements of `e` (the faulty ones
endorse everything), only grows, because what is published stays published
(`BackedLasts`).  It belongs to at most one envelope of a sender (`BackedAgree`, by
the guards of the correct validator that two quorums share), and a certificate implies
it (`CertifiedIsBacked`).  Every action then maps to a choice, a delivery or a stutter:
only `Publish` can choose, only `Accept` delivers, and a crash loses a transcript,
which the abstract specification allows a collector to do.

`CollectorsSound` also assumes, of `DkgInbox`, that an envelope a correct validator did
not seal in this session does not open as its message, and that a replay guard has room
for one key of each validator (`TransportAssumption`, `CapacityAssumption`).  Its
invariant says that what a collector holds was in the network, opens, and is stored under
its sender and recipient (`InboxHeld`, `BroadcastsHeld`), and that a replay guard holds
exactly the keys of what was accepted (`GuardsMatch`).  A report is then backed by the
envelope held and the one just received; a complete inbox is counted from its entries;
and a guard with room for every validator is full only when the sender is already in it.

### StateSyncProofs

`OnlyTheChainIsAdopted` (`AdoptsOnlyTheChain`) and `NeitherSideLoses` (`NothingIsLost`),
for any nodes, sizes of state and chunk, and bounds.  Assumptions: sizes and heights
are natural numbers, and what peers forge (`ForgedAssumption`) is a descriptor of some
height of the chain with any list of chunk hashes: CometBFT hands over an offer only
with the application hash its light client verified.

The invariant: a process that is down holds nothing; memory is what the store holds and
a pending block is the next one; and an import under way (`ImportOk`) has the
application hash of the chain at its height and a proper prefix of the chunks its
descriptor lists, the first of which is of a body.  That prefix is what makes the last chunk
decisive: with it the chunks are a whole body, and `finalize` compares its canonical
form, identity and hash (`FinalizedIsTheChain`).  `NeitherSideLoses` is an action property: an
export moves from current to previous and no further while it is fetched, and a
snapshot is adopted only where nothing was committed.

### StateStoreProofs

`StoreRecovers` (`RecoversDurableState`), `NothingLeaksOrDangles` (`NodesAreCurrentTree`)
and `PreviewIsExact` (`PreviewIsStateRoot`), for any families, keys, values and notes.
Assumptions: the families of maps are not the ledger's kinds of entity, and nothing is
encoded as the absence of a value (`StoreAssumption`, `EncodingAssumption`).  That the
ledger only grows from block to block, on which `push_shielded_diff` relies, is part of
the model (`Successors`) and checked by the code.

The invariant says what the tables hold of a state (`DiskHolds`: its entities, their
latest values, exactly one version of the tree, its root in the metadata), what
memory holds (`MemoryHolds`), and for a transaction what its tables hold
after the steps it has taken (`TxnOk`).  The work is in the algebra: `state_mutations`
covers exactly the keys that change (`MutationsCover`, from the families, the scalars
and the append-only ledger), such mutations turn the old entities into the new ones
(`MutationsTurn`), and a tree update with its stale index leaves the current tree
(`TreeWritten`).

### DkgCeremonyProofs

`JournalPrecedesNetwork` (`NothingLeavesUnrecorded`) and `CompletesAsCertified`
(`CompletionIsCertified`), for any validators, processes, deadlines and plans.
`PlanAssumption` says what a plan may be: its processes are processes, nobody else signs
with this validator's key, and a coordinator is taken apart only where one process
runs, because of observation 8.

The invariant has seven parts.  What has left is recorded, in the phase it
belongs to (`OnRecord`).  A provider's endorsement guard is never behind the record of
its coordinator (`GuardAhead`): it is changed before the journal is written, so a failed
write leaves it ahead.  A provider whose coordinator is up to date, or that could be recovered,
holds the secrets the journal speaks of (`Secrets`), which is the hard part: the
compare-and-swap tells an overtaken process that its record is stale, but its provider
has changed already.  The rest says that only processes of the plan hold anything (`Typed`, `Holding`), that
no coordinator is ahead of the journal or apart from it (`NoFork`), and
`CompletionIsCertified` itself.

### GatewayProofs

`ClientsAreToldTheTruth` (`AnswersAreTrue`) and `MempoolsStayExecutable`
(`MempoolIsExecutable`), for any nodes, transactions, sizes of mempools and conflicts
between commands.  The assumptions are types.  For each node (`PoolOf`): the pool keeps to its
size, every transaction in it holds its signer's reservation, no signer has two, and
the next block on what the node has committed can execute each.  Executability alone is not
inductive: admission looks at reservations and not at the pool, so that an
evicted or unadmitted reservation must block and never let pass.

A true answer stays true because what a node has executed only grows (`Truth`,
`TruthKept`), and a reservation is always for the nonce its signer is expected to use next
(`Current`): CheckTx admits no other, and Commit drops them all before the rechecks.  That
an answer is true when it is given is `SuccessIsTrue`: of the answers the RPC may give,
those that pass the gateway's checks are about the transaction that was sent and are no
refusals.

### ShieldedLedgerProofs

`LedgerRebuilds` (`RebuildReproducesLedger`), `LedgerConservesValue` (`ValueConserved`) and
`WitnessesLast` (`RecentWitnessesAccepted`), for every depth of the tree, history of roots,
policies, deposits and spends.  Assumptions: the depth and the limits are positive (`DepthAssumption`,
`LedgerAssumption`), amounts of commands are of the code's types (`CommandAssumption` and
the guard `IsSpend`), and hashes are symbolic.  Nothing is assumed of what spends claim:
inputs, paths, indices, openings, nullifiers and fees are arbitrary.

The tree.  `Cached` says that the cache holds the reference node of every address on an
appended path; it is kept because the left sibling of a path was on an earlier one and
everything to the right is empty (`PathIs`, `Around`, `AppendCached`).  From it the cached
root and every prefix read from the cache are the roots of the reference tree
(`RootIs`, `PrefixRootIs`), a path verifies its own leaf (`PathComplete`), and whatever
verifies under the root of a prefix is the leaf at its index (`PathSound`).  All of it is
by induction over heights, with the recursive functions unfolded once each (`SpanIs`,
`AncestorIs`, `LevelsAre`).

The store.  `SoundState` adds that accepted roots are those of increasing prefixes, the
last of the whole tree (`Counted`), that spent nullifiers are those of leaves
(`SpentLeaves`), that commitments differ and that every note has a policy.  Then the
checks of `rebuild_from_persistence` pass and what they rebuild is the ledger
(`PrefixesOrdered`, `FewNullifiers`, `SoundRebuilds`).

The value.  `ValueState` adds that the collateral and the positions of the live notes are
what is accounted for, that live notes have their margin, and that the statements
deposited are of notes in the tree (`SoundValue`, `SoundDeposits`).  A step consumes a
set of live notes and adds new leaves (`Live`, `Consumed`, `NewLeaves`), so a sum over the
live notes changes by the notes consumed and added (`SumMoves`).  A spend consumes exactly
what its witness opens because an accepted root fixes leaf and index (`AnchorSound`), the
nullifier is derived from both, and the statement's nullifiers differ from each other and
from the spent ones (`SpendConsumes`).  A deposit is counted once because its commitment
is new to the tree (`BackingAdded`).  Margins are rounded up in the code and exact in the
property (`CeilDiv`, `RequiredMargins`).

The witnesses.  Two states of the tree never have the same root, since a root fixes every
leaf below it and which subtrees are empty (`RootsDiffer`); so the accepted roots, which
`Counted` has as roots of growing prefixes, are those of exactly as many states of the tree
(`AcceptedAre`, `RecentAre`).  A path taken from the tree of that state still verifies under
its root, and the leaf, its policy and its nullifier have not changed since.
`CommittedState` adds that every leaf commits to its opening and holds collateral: a spend
that claims a leaf must open it.  With the invariants of the value, which keep the
accounting from underflow (`CollateralCovers`), every check of a transfer to oneself passes
(`TransferIs`, `TransferAccepted`).  Its hypotheses (`MayMove`) are what the wallet
chooses: the fee, what is left for the margin, and a commitment not yet in a tree with room.

### EventFeedProofs

`GapsAreShown` (`LinksShowGaps`) and `RetainedEventsAreSent` (`PublishedAfterCommit`),
for any number of retained events and any channel, page and block, blocks that make
more events than are retained included.  The assumptions are types.

The invariant: a state's events are a chain, increasing and each linked to the one
before (`Chain`), its log is what pruning leaves of it (`Good`), the pending state
follows on the committed one with new events only (`Extends`), and the channel
and the subscriber have increasing parts of the committed history, what is still to be
received being newer than what has been (`Read`).  Every committed event that is newer than
the start of the process and still retained is in the channel (`Fresh`): a block's retained
events are those of its log above the last committed number, which Commit sends
(`Published`), and what is retained of earlier blocks was retained before
(`StillRetained`).  Pruning after every append is pruning
once (`AppendToPruned`), and a page of an increasing log is a contiguous part of it
(`AfterFacts`).

### Only model-checked

Liveness, because fairness and ENABLED are outside the prover: `BatchesSettle`,
`ReplicasCatchUp`, `SyncCompletes`, `CorrectMessagesArrive`, `CeremonyEnds`,
`RetriedIsDecided`, `SubscriberCatchesUp`.  The properties of `BatchAuction`
(`ClearingSucceeds`, `OutcomeIsBest`, `PricesRespected`, `AllocationsFair`) and of
`Exchange` (`AuditHealthy`, `WaitingOrdersSound`, `MarginHolds`, `DueBatchSettles`): they
are about what ordered folds over books and batches compute, with several quantities
carried at once and divisions in between.

Loops over a sequence or a tree are recursive functions in the modules with proofs.  What
such a function computes is proved by induction over sets (`Induction`, from the
well-foundedness of the naturals): the library's induction theorems take an operator and
are of no use here.  Sums over finite sets, which the community modules define by a fold,
are given their laws the same way (`SetInduction`, `SumRemoved`).

## 6. Not modelled, and the plan

Not modelled for good:

- constraint systems and proofs (`zk_*.rs`), group arithmetic and the encryption of
  orders (`threshold_dkg.rs`, `private_order.rs`): the models assume ideal ones;
- canonical encodings and hashes: injective.  Structural checks of envelopes,
  snapshots and deposits are one flag each;
- viewing keys (`viewing_key.rs`): the sequential key ring of a wallet, on whose state
  nothing else depends;
- the cache of verified transactions of `consensus.rs`: it saves the repeated
  verification of a signature and decides nothing;
- the readiness report, endpoints that only read the committed state, operator
  authentication, process wiring, command-line tools and deployment: pure I/O;
- the production profile's demand for a sound proof system
  (`ensure_proof_security`): a start-up check on a compile-time choice;
- a full note tree: the code's tree has 2^32 leaves, the instance's eight, and no
  behaviour of the run fills them.

Next, in this order:

1. An abstract ledger (a sequence of states, one atomic step per block) that
   `ChainRuntime` implements, checked with TLC and proved.
2. The oracle's observations and weighted median as operators.
3. Theorems about `Exchange`: what a single command does to one account's
   reservation, with the laws of sums that `ShieldedLedgerProofs` and
   `ChainRuntimeProofs` already have.
