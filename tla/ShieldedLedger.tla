--------------------------- MODULE ShieldedLedger ---------------------------
(***************************************************************************)
(* The shielded margin ledger (shielded_margin.rs, shielded_protocol.rs)   *)
(* and the three commands of the engine that drive it (engine.rs).         *)
(*                                                                         *)
(* A note commits to its owner, its collateral and its position.  The      *)
(* deposit authority creates notes against backing; a spend consumes notes *)
(* that some accepted root contains, by publishing their nullifiers, and   *)
(* creates others.  Nothing public says which notes a spend consumed: that *)
(* every note is spent at most once, that no collateral appears and that   *)
(* no position is created rests on the checks of the spend alone.          *)
(*                                                                         *)
(* Commitments and nullifiers are symbolic hashes, signatures are records  *)
(* of who signed what, and the proof is the transparent witness that the   *)
(* code checks.                                                            *)
(***************************************************************************)
EXTENDS NoteTree, Integers, FiniteSets, FiniteSetsExt

CONSTANTS
    ChainDomain,        \* the domain of this chain
    LedgerId,           \* the identifier of this ledger
    DepositAuthority,   \* the key that signs deposits
    Zero,               \* the all-zero identifier or key
    Signing,            \* the owners that sign; nobody signs for the others
    RootHistoryLimit,   \* how many roots stay accepted (64 in the code)
    MaxSpendNotes,      \* inputs and outputs of one spend (64 in the code)
    BasisPoints,        \* the denominator of a margin rate (10000)
    MaxDecimal,         \* the largest amount of a Decimal of the engine
    GenesisPolicies,    \* the markets the genesis file registers
    Policies,           \* policies an administrator may register
    Deposits,           \* deposits that may be submitted
    Spends(_),          \* spends that may be submitted to a ledger
    Blindings           \* what a wallet may blind a note with

ASSUME LedgerAssumption ==
    /\ RootHistoryLimit \in Nat \ {0}
    /\ MaxSpendNotes \in Nat \ {0}
    /\ BasisPoints \in Nat \ {0}
    /\ MaxDecimal \in Nat

VARIABLES
    state,      \* the engine's shielded ledger and the totals it feeds
    deposited   \* history: the deposit statements that were accepted

vars == <<state, deposited>>

-----------------------------------------------------------------------------
(* Notes. *)

Commitment(opening, market_id, collateral_asset) ==
    <<"note", market_id, collateral_asset, opening>>

PublicNote(market_id, collateral_asset, commitment) ==
    [market_id |-> market_id, collateral_asset |-> collateral_asset,
     commitment |-> commitment]

validate_basic(note) == note.market_id # Zero /\ note.collateral_asset # Zero

derive_nullifier(note, opening, leaf_index) ==
    <<"nullifier", note, leaf_index, opening.nullifier_key>>

-----------------------------------------------------------------------------
(* What a submitted command carries: values of the types of the code, and  *)
(* signatures of owners that sign.                                         *)

IsPolicy(policy) ==
    /\ policy.mark_price \in Nat
    /\ policy.price_scale \in Nat
    /\ policy.minimum_initial_margin_bps \in Nat
    /\ policy.maximum_leverage \in Nat
    /\ policy.minimum_fee \in Nat

IsOpening(opening) ==
    /\ opening.collateral \in Nat
    /\ opening.position \in Int
    /\ opening.leverage \in Nat

IsList(list) == list \in Seq(Range(list))

IsSpend(spend) ==
    LET statement == spend.statement
        witness == spend.proof
    IN  /\ statement.fee \in Nat
        /\ IsList(statement.nullifiers)
        /\ IsList(statement.output_commitments)
        /\ IsList(witness.inputs)
        /\ \A input \in Range(witness.inputs) :
              /\ IsOpening(input.opening)
              /\ input.authorization_signature.signer \in Signing
        /\ IsList(witness.output_openings)
        /\ \A opening \in Range(witness.output_openings) : IsOpening(opening)

ASSUME CommandAssumption ==
    /\ IsList(GenesisPolicies)
    /\ \A policy \in Policies \cup Range(GenesisPolicies) : IsPolicy(policy)
    /\ \A deposit \in Deposits : deposit.statement.backing_amount \in Nat

-----------------------------------------------------------------------------
(* The margin policy of a market. *)

ValidPolicy(policy) ==
    /\ validate_basic(policy)
    /\ policy.mark_price > 0
    /\ policy.price_scale > 0
    /\ policy.minimum_initial_margin_bps <= BasisPoints
    /\ policy.maximum_leverage > 0

policy_hash(policy) == <<"policy", policy>>

checked_ceil_div(numerator, denominator) ==
    numerator \div denominator
        + (IF numerator % denominator = 0 THEN 0 ELSE 1)

unsigned_abs(position) == IF position < 0 THEN -position ELSE position

LeverageAllowed(policy, opening) ==
    opening.leverage \in 1 .. policy.maximum_leverage

required_margin(policy, opening) ==
    LET notional == checked_ceil_div(
                        unsigned_abs(opening.position) * policy.mark_price,
                        policy.price_scale)
    IN  Max({checked_ceil_div(notional, opening.leverage),
             checked_ceil_div(notional * policy.minimum_initial_margin_bps,
                              BasisPoints)})

-----------------------------------------------------------------------------
(* What a spend says in public, and the witness that proves it. *)

validate_public(statement, policy) ==
    /\ ValidPolicy(policy)
    /\ policy.market_id = statement.market_id
    /\ policy.collateral_asset = statement.collateral_asset
    /\ statement.policy_hash = policy_hash(policy)
    /\ Len(statement.nullifiers) \in 1 .. MaxSpendNotes
    /\ Len(statement.output_commitments) \in 1 .. MaxSpendNotes
    /\ statement.fee >= policy.minimum_fee
    /\ IsInjective(statement.output_commitments)
    /\ IsInjective(statement.nullifiers)

verify_owner_authorization(owner, message, signature) ==
    signature = [signer |-> owner, message |-> message]

InputProven(statement, witness, nullifier) ==
    LET note == witness.note
        opening == witness.opening
    IN  /\ validate_basic(note)
        /\ note.market_id = statement.market_id
        /\ note.collateral_asset = statement.collateral_asset
        /\ note.commitment = Commitment(opening, note.market_id,
                                        note.collateral_asset)
        /\ verify(witness.merkle_proof, note, statement.anchor_root)
        /\ nullifier = derive_nullifier(note, opening,
                                        witness.merkle_proof.leaf_index)
        /\ verify_owner_authorization(opening.owner, statement,
                                      witness.authorization_signature)
        /\ opening.collateral > 0

OutputProven(statement, policy, opening, commitment) ==
    /\ commitment = Commitment(opening, statement.market_id,
                               statement.collateral_asset)
    /\ opening.collateral > 0
    /\ LeverageAllowed(policy, opening)
    /\ opening.collateral >= required_margin(policy, opening)

CollateralOf(openings) ==
    SumFunction([i \in DOMAIN openings |-> openings[i].collateral])

PositionOf(openings) ==
    SumFunction([i \in DOMAIN openings |-> openings[i].position])

(* TransparentWitnessVerifier *)
SpendProofVerifies(statement, policy, witness) ==
    LET inputs == witness.inputs
        outputs == witness.output_openings
        opened == [i \in DOMAIN inputs |-> inputs[i].opening]
    IN  /\ validate_public(statement, policy)
        /\ Len(inputs) = Len(statement.nullifiers)
        /\ Len(outputs) = Len(statement.output_commitments)
        /\ IsInjective([i \in DOMAIN inputs |-> inputs[i].note.commitment])
        /\ \A i \in DOMAIN inputs :
              InputProven(statement, inputs[i], statement.nullifiers[i])
        /\ \A i \in DOMAIN outputs :
              OutputProven(statement, policy, outputs[i],
                           statement.output_commitments[i])
        /\ CollateralOf(opened) = CollateralOf(outputs) + statement.fee
        /\ PositionOf(opened) = PositionOf(outputs)

-----------------------------------------------------------------------------
(* ShieldedMarginState: the tree, the nullifiers and the accepted roots. *)

NewMarginState ==
    [note_tree |-> EmptyTree,
     spent_nullifiers |-> {},
     accepted_roots |-> <<EmptyTree.cached_root>>]

accepts_root(margin, root) == root \in Range(margin.accepted_roots)

\* Mutant: pops the newest root instead of the oldest.
remember_oldest_roots(margin) ==
    LET root == margin.note_tree.cached_root
        grown == Append(margin.accepted_roots, root)
    IN  [margin EXCEPT
            !.accepted_roots =
                SubSeq(grown, 1, Min({Len(grown), RootHistoryLimit}))]

remember_current_root(margin) ==
    LET root == margin.note_tree.cached_root
        grown == IF Last(margin.accepted_roots) = root
                 THEN margin.accepted_roots
                 ELSE Append(margin.accepted_roots, root)
        excess == Max({0, Len(grown) - RootHistoryLimit})
    IN  [margin EXCEPT
            !.accepted_roots = SubSeq(grown, excess + 1, Len(grown))]

append_deposit_commitment(margin, note) ==
    remember_current_root([margin EXCEPT !.note_tree = append(@, note)])

SpendAccepted(margin, spend, policy) ==
    LET statement == spend.statement
        outputs == Range(statement.output_commitments)
    IN  /\ validate_public(statement, policy)
        /\ Range(statement.nullifiers) \cap margin.spent_nullifiers = {}
        /\ accepts_root(margin, statement.anchor_root)
        /\ \A c \in outputs : ~ contains(margin.note_tree, c)
        /\ Len(margin.note_tree.leaves) + Len(statement.output_commitments)
              <= merkle_capacity
        /\ SpendProofVerifies(statement, policy, spend.proof)

\* Mutant: remembers the root before the outputs are appended.
apply_spend_early_root(margin, statement) ==
    LET NoteOf(commitment) ==
            PublicNote(statement.market_id, statement.collateral_asset,
                       commitment)
        notes == [i \in DOMAIN statement.output_commitments |->
                     NoteOf(statement.output_commitments[i])]
    IN  [remember_current_root(margin) EXCEPT
            !.note_tree = AppendAll(@, notes),
            !.spent_nullifiers = @ \cup Range(statement.nullifiers)]

apply_spend(margin, statement) ==
    LET NoteOf(commitment) ==
            PublicNote(statement.market_id, statement.collateral_asset,
                       commitment)
        notes == [i \in DOMAIN statement.output_commitments |->
                     NoteOf(statement.output_commitments[i])]
    IN  remember_current_root(
            [margin EXCEPT
                !.note_tree = AppendAll(@, notes),
                !.spent_nullifiers = @ \cup Range(statement.nullifiers)])

-----------------------------------------------------------------------------
(* ShieldedLedger: policies and accounting around the margin state. *)

Registered(ledger, market_id) ==
    \E p \in ledger.policies : p.market_id = market_id

PolicyOf(ledger, market_id) ==
    CHOOSE p \in ledger.policies : p.market_id = market_id

register_market(ledger, policy) ==
    IF ValidPolicy(policy) /\ ~ Registered(ledger, policy.market_id)
    THEN [ok |-> TRUE,
          ledger |-> [ledger EXCEPT !.policies = @ \cup {policy}]]
    ELSE [ok |-> FALSE, ledger |-> ledger]

(* TransparentDepositVerifier *)
DepositProofVerifies(statement, opening) ==
    /\ statement.note.commitment =
          Commitment(opening, statement.note.market_id,
                     statement.note.collateral_asset)
    /\ opening.collateral = statement.backing_amount
    /\ opening.position = 0
    /\ opening.leverage = 1
    /\ opening.nullifier_key # Zero
    /\ opening.blinding # Zero

verify_authority_signature(authority, message, signature) ==
    signature = [signer |-> authority, message |-> message]

DepositAccepted(ledger, deposit) ==
    LET statement == deposit.statement
        note == statement.note
    IN  /\ statement.chain_domain = ChainDomain
        /\ statement.ledger_id = LedgerId
        /\ statement.backing_amount > 0
        /\ Registered(ledger, note.market_id)
        /\ PolicyOf(ledger, note.market_id).collateral_asset
              = note.collateral_asset
        /\ verify_authority_signature(DepositAuthority, statement,
                                      deposit.authority_signature)
        /\ DepositProofVerifies(statement, deposit.opening)
        /\ validate_basic(note)
        /\ CanAppend(ledger.margin.note_tree, note)

authority_deposit(ledger, deposit) ==
    IF DepositAccepted(ledger, deposit)
    THEN [ok |-> TRUE,
          ledger |->
             [ledger EXCEPT
                !.margin = append_deposit_commitment(@, deposit.statement.note),
                !.shielded_collateral = @ + deposit.statement.backing_amount]]
    ELSE [ok |-> FALSE, ledger |-> ledger]

LedgerSpendAccepted(ledger, spend) ==
    LET statement == spend.statement
    IN  /\ statement.chain_domain = ChainDomain
        /\ statement.ledger_id = LedgerId
        /\ Registered(ledger, statement.market_id)
        /\ ledger.shielded_collateral >= statement.fee
        /\ SpendAccepted(ledger.margin, spend,
                         PolicyOf(ledger, statement.market_id))

ledger_spend(ledger, spend) ==
    IF LedgerSpendAccepted(ledger, spend)
    THEN [ok |-> TRUE,
          ledger |-> [ledger EXCEPT
                        !.margin = apply_spend(@, spend.statement),
                        !.shielded_collateral = @ - spend.statement.fee,
                        !.fee_total = @ + spend.statement.fee]]
    ELSE [ok |-> FALSE, ledger |-> ledger]

EmptyLedger == [policies |-> {}, margin |-> NewMarginState,
                shielded_collateral |-> 0, fee_total |-> 0]

(* What the state store keeps of a ledger, and the ledger read back. *)
persistence_parts(ledger) ==
    [policies |-> ledger.policies,
     notes |-> ledger.margin.note_tree.leaves,
     spent_nullifiers |-> ledger.margin.spent_nullifiers,
     note_count |-> Len(ledger.margin.note_tree.leaves),
     nullifier_count |-> Cardinality(ledger.margin.spent_nullifiers),
     current_root |-> ledger.margin.note_tree.cached_root,
     accepted_roots |-> ledger.margin.accepted_roots,
     shielded_collateral |-> ledger.shielded_collateral,
     fee_total |-> ledger.fee_total,
     total_backing |-> ledger.shielded_collateral + ledger.fee_total]

(* The accepted roots are roots of growing prefixes of the notes. *)
OrderedPrefixes(roots, notes) ==
    LET prefix_root ==
            [k \in 0 .. Len(notes) |->
                AppendAll(EmptyTree, SubSeq(notes, 1, k)).cached_root]
    IN  \E count \in [DOMAIN roots -> 0 .. Len(notes)] :
            /\ \A i \in DOMAIN roots : prefix_root[count[i]] = roots[i]
            /\ \A i, j \in DOMAIN roots : i < j => count[i] < count[j]

Rebuildable(parts) ==
    LET rebuilt == AppendAll(EmptyTree, parts.notes)
        commitments == [i \in DOMAIN parts.notes |-> parts.notes[i].commitment]
    IN  /\ parts.shielded_collateral + parts.fee_total = parts.total_backing
        /\ \A p \in parts.policies : ValidPolicy(p)
        /\ IsInjective(commitments)
        /\ Len(parts.notes) = parts.note_count
        /\ rebuilt.cached_root = parts.current_root
        /\ Cardinality(parts.spent_nullifiers) = parts.nullifier_count
        /\ parts.nullifier_count <= parts.note_count
        /\ Len(parts.accepted_roots) \in 1 .. RootHistoryLimit
        /\ Last(parts.accepted_roots) = parts.current_root
        /\ OrderedPrefixes(parts.accepted_roots, parts.notes)
        /\ \A note \in Range(parts.notes) :
              \E p \in parts.policies :
                  /\ p.market_id = note.market_id
                  /\ p.collateral_asset = note.collateral_asset

rebuild_from_persistence(parts) ==
    [policies |-> parts.policies,
     margin |-> [note_tree |-> AppendAll(EmptyTree, parts.notes),
                 spent_nullifiers |-> parts.spent_nullifiers,
                 accepted_roots |-> parts.accepted_roots],
     shielded_collateral |-> parts.shielded_collateral,
     fee_total |-> parts.fee_total]

-----------------------------------------------------------------------------
(* The engine's commands.  A command works on the state in place and may   *)
(* fail after it changed the ledger: a total that leaves the Decimal range *)
(* is noticed only then.                                                   *)

configure_shielded_market(current, policy) ==
    LET result == register_market(current.ledger, policy)
    IN  [ok |-> result.ok,
         state |-> [current EXCEPT !.ledger = result.ledger]]

shielded_deposit(current, deposit) ==
    LET result == authority_deposit(current.ledger, deposit)
        credits == current.total_credits + deposit.statement.backing_amount
        applied == [current EXCEPT !.ledger = result.ledger]
    IN  IF ~ result.ok \/ credits > MaxDecimal
        THEN [ok |-> FALSE, state |-> applied]
        ELSE [ok |-> TRUE,
              state |-> [applied EXCEPT !.total_credits = credits]]

shielded_spend(current, spend) ==
    LET result == ledger_spend(current.ledger, spend)
        vault == current.fee_vault + spend.statement.fee
        applied == [current EXCEPT !.ledger = result.ledger]
    IN  IF ~ result.ok \/ vault > MaxDecimal
        THEN [ok |-> FALSE, state |-> applied]
        ELSE [ok |-> TRUE, state |-> [applied EXCEPT !.fee_vault = vault]]

(* A command that failed leaves the state as it was before it. *)
AfterCommand(previous, result) ==
    IF result.ok THEN result.state ELSE previous

ConfigureShieldedMarket(policy) ==
    /\ state' = AfterCommand(state, configure_shielded_market(state, policy))
    /\ UNCHANGED deposited

ShieldedDeposit(deposit) ==
    LET result == shielded_deposit(state, deposit)
    IN  /\ state' = AfterCommand(state, result)
        /\ deposited' = IF result.ok THEN deposited \cup {deposit.statement}
                        ELSE deposited

ShieldedSpend(spend) ==
    /\ IsSpend(spend)
    /\ state' = AfterCommand(state, shielded_spend(state, spend))
    /\ UNCHANGED deposited

-----------------------------------------------------------------------------
(* The genesis file registers its markets in order; a second policy for a  *)
(* market is an invalid genesis file.                                      *)
build_shielded_development_ledger ==
    FoldLeft(LAMBDA ledger, policy : register_market(ledger, policy).ledger,
             EmptyLedger, GenesisPolicies)

Init ==
    /\ state = [ledger |-> build_shielded_development_ledger,
                total_credits |-> 0, fee_vault |-> 0]
    /\ deposited = {}

Next ==
    \/ \E policy \in Policies : ConfigureShieldedMarket(policy)
    \/ \E deposit \in Deposits : ShieldedDeposit(deposit)
    \/ \E spend \in Spends(state.ledger) : ShieldedSpend(spend)

Spec == Init /\ [][Next]_vars

-----------------------------------------------------------------------------
(* Properties *)

(* The opening a commitment hides. *)
Opening(note) == note.commitment[4]

NullifierAt(tree, index) ==
    derive_nullifier(Leaf(tree, index), Opening(Leaf(tree, index)), index)

UnspentIndices(ledger) ==
    {i \in LeafIndices(ledger.margin.note_tree) :
        NullifierAt(ledger.margin.note_tree, i)
            \notin ledger.margin.spent_nullifiers}

UnspentOpening(ledger, i) == Opening(Leaf(ledger.margin.note_tree, i))

TypeOK ==
    LET ledger == state.ledger
    IN  /\ state.total_credits \in 0 .. MaxDecimal
        /\ state.fee_vault \in 0 .. MaxDecimal
        /\ ledger.shielded_collateral \in Nat
        /\ ledger.fee_total \in Nat
        /\ Len(ledger.margin.note_tree.leaves) <= merkle_capacity
        /\ Len(ledger.margin.accepted_roots) \in 1 .. RootHistoryLimit
        /\ \A p, q \in ledger.policies : p.market_id = q.market_id => p = q

(* The collateral the ledger accounts for is the collateral of the notes   *)
(* nobody has spent: no spend, on an old anchor or replayed, with a        *)
(* repeated input or with another leaf index for the same note, consumes a *)
(* note twice or creates more than it consumed (apply_spend).              *)
CollateralIsUnspentNotes ==
    state.ledger.shielded_collateral =
        SumFunctionOnSet(
            [i \in LeafIndices(state.ledger.margin.note_tree) |->
                UnspentOpening(state.ledger, i).collateral],
            UnspentIndices(state.ledger))

(* All collateral and fees come from deposits the authority signed for     *)
(* this ledger, each counted once (authority_deposit_inner).               *)
BackingConserved ==
    /\ state.ledger.shielded_collateral + state.ledger.fee_total =
          SumFunction([d \in deposited |-> d.backing_amount])
    /\ \A d \in deposited : /\ d.chain_domain = ChainDomain
                             /\ d.ledger_id = LedgerId

(* The engine's audit balances: credits are what the ledger holds plus the *)
(* fees it paid into the vault, also after a command that failed halfway   *)
(* (audit_state, apply_command).                                           *)
AuditBalances ==
    state.total_credits = state.ledger.shielded_collateral + state.fee_vault

(* Positions are only exchanged between notes: in every market the notes   *)
(* that are not spent hold as much long as short.                          *)
PositionsNet ==
    \A p \in state.ledger.policies :
        SumFunctionOnSet(
            [i \in LeafIndices(state.ledger.margin.note_tree) |->
                UnspentOpening(state.ledger, i).position],
            {i \in UnspentIndices(state.ledger) :
                Leaf(state.ledger.margin.note_tree, i).market_id
                    = p.market_id}) = 0

(* Every note carries the margin of its market's policy, exactly and not   *)
(* rounded: its notional divided by its leverage, and the minimum rate of  *)
(* its notional (required_margin).                                         *)
NotesMargined ==
    \A i \in UnspentIndices(state.ledger) :
        LET o == UnspentOpening(state.ledger, i)
            p == PolicyOf(state.ledger,
                          Leaf(state.ledger.margin.note_tree, i).market_id)
            scaled_notional == unsigned_abs(o.position) * p.mark_price
        IN  /\ o.leverage \in 1 .. p.maximum_leverage
            /\ o.collateral * o.leverage * p.price_scale >= scaled_notional
            /\ o.collateral * BasisPoints * p.price_scale
                  >= scaled_notional * p.minimum_initial_margin_bps

(* Only the owner of a note can spend it: no note of an owner who signs    *)
(* nothing is ever spent (verify_owner_authorization).                     *)
UnsignedNotesUnspent ==
    \A i \in LeafIndices(state.ledger.margin.note_tree) :
        UnspentOpening(state.ledger, i).owner \notin Signing
            => i \in UnspentIndices(state.ledger)

(* Value is neither minted nor lost: what the ledger accounts for is what  *)
(* the unspent notes hold and what the authority deposited, the engine's   *)
(* audit balances, positions net out, notes keep their margin and nobody   *)
(* spends a note of another (authority_deposit, spend, apply_command).     *)
ValueConserved ==
    /\ TypeOK
    /\ CollateralIsUnspentNotes /\ BackingConserved /\ AuditBalances
    /\ PositionsNet /\ NotesMargined /\ UnsignedNotesUnspent

(* The incremental tree is the Merkle tree of its leaves: its root, the    *)
(* root of every prefix read from the cache, and every path it hands out   *)
(* agree with the tree computed from scratch.                              *)
TreeMatchesReference ==
    LET tree == state.ledger.margin.note_tree
    IN  /\ \A k \in 0 .. Len(tree.leaves) :
              root_at_leaf_count(tree, k)
                  = ReferenceRoot(SubSeq(tree.leaves, 1, k))
        /\ \A i, j \in LeafIndices(tree) :
              verify(proof(tree, i), Leaf(tree, j), tree.cached_root) <=> i = j

(* A ledger written to the state store is accepted when it is read back,   *)
(* and is the ledger that was written: the caches that are not stored are  *)
(* rebuilt as they were, and they are those of the Merkle tree of the      *)
(* leaves (rebuild_from_persistence, cache_append_path).                   *)
RebuildReproducesLedger ==
    LET parts == persistence_parts(state.ledger)
    IN  /\ TreeMatchesReference
        /\ Rebuildable(parts)
        /\ rebuild_from_persistence(parts) = state.ledger

(* What a wallet makes of its note: the tree when the ledger had its first *)
(* `at` notes gives it the witness, and the note moves to its owner.       *)
WalletTree(ledger, at) ==
    AppendAll(EmptyTree, SubSeq(ledger.margin.note_tree.leaves, 1, at))

Moved(opening, fee, leverage, blinding) ==
    [owner |-> opening.owner, nullifier_key |-> opening.nullifier_key,
     collateral |-> opening.collateral - fee, position |-> opening.position,
     leverage |-> leverage, blinding |-> blinding]

SelfTransfer(ledger, at, i, fee, moved) ==
    LET tree == WalletTree(ledger, at)
        note == Leaf(tree, i)
        market == note.market_id
        asset == note.collateral_asset
        statement ==
            [chain_domain |-> ChainDomain,
             ledger_id |-> LedgerId,
             anchor_root |-> tree.cached_root,
             market_id |-> market,
             collateral_asset |-> asset,
             policy_hash |-> policy_hash(PolicyOf(ledger, market)),
             nullifiers |-> <<NullifierAt(tree, i)>>,
             output_commitments |-> <<Commitment(moved, market, asset)>>,
             fee |-> fee]
    IN  [statement |-> statement,
         proof |->
            [inputs |->
                <<[note |-> note, opening |-> Opening(note),
                   merkle_proof |-> proof(tree, i),
                   authorization_signature |->
                      [signer |-> Opening(note).owner, message |-> statement]]>>,
             output_openings |-> <<moved>>]]

(* The tree has room, the fee is paid, the moved note keeps its margin and *)
(* is not in the tree.                                                     *)
MayMove(ledger, i, fee, moved) ==
    LET tree == ledger.margin.note_tree
        note == Leaf(tree, i)
        policy == PolicyOf(ledger, note.market_id)
    IN  /\ fee >= policy.minimum_fee
        /\ moved.collateral > 0
        /\ moved.collateral >= required_margin(policy, moved)
        /\ CanAppend(tree,
              PublicNote(note.market_id, note.collateral_asset,
                 Commitment(moved, note.market_id, note.collateral_asset)))

(* The roots of the last states that changed the tree stay usable: a       *)
(* wallet that took its witness at any accepted root that holds its note   *)
(* can still move the note to itself, whatever was appended since, at any  *)
(* leverage its market allows (accepts_root, remember_current_root, proof).*)
RecentWitnessesAccepted ==
    LET ledger == state.ledger
        count == Len(ledger.margin.note_tree.leaves)
        recent == {at \in 0 .. count :
                      accepts_root(ledger.margin,
                                   WalletTree(ledger, at).cached_root)}
        MarketOf(i) == Leaf(ledger.margin.note_tree, i).market_id
    IN  /\ count \in recent
        /\ Cardinality(recent) = Len(ledger.margin.accepted_roots)
        /\ \A at \in recent : \A i \in UnspentIndices(ledger) \cap 0 .. at - 1 :
              \A fee \in 0 .. UnspentOpening(ledger, i).collateral,
                 leverage \in 1 .. PolicyOf(ledger, MarketOf(i)).maximum_leverage,
                 blinding \in Blindings :
                 LET moved == Moved(UnspentOpening(ledger, i), fee, leverage, blinding)
                 IN  MayMove(ledger, i, fee, moved) =>
                        LedgerSpendAccepted(ledger,
                            SelfTransfer(ledger, at, i, fee, moved))
=============================================================================
