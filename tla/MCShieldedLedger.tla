-------------------------- MODULE MCShieldedLedger --------------------------
(***************************************************************************)
(* Instances of the shielded ledger.  Deposits and spends are drawn from   *)
(* small sets that hold what an honest wallet submits and, for each check  *)
(* of the code, what that check has to refuse.                             *)
(***************************************************************************)
EXTENDS ShieldedLedger

CONSTANTS
    Depositing,   \* the openings that are deposited, by name
    OutputLists,  \* the outputs of spends, by name
    Deviations    \* the ways a deposit or a spend may deviate from an honest one

M1 == "m1"
M2 == "m2"
Asset(market) == IF market = M1 THEN "usd" ELSE "eur"

Policy(market, mark_price, minimum_fee) ==
    [market_id |-> market, collateral_asset |-> Asset(market),
     mark_price |-> mark_price, price_scale |-> 2,
     minimum_initial_margin_bps |-> 8, maximum_leverage |-> 2,
     minimum_fee |-> minimum_fee]

MCGenesisPolicies == <<Policy(M1, 3, 1)>>

(* Another market, and a laxer policy for a market that has one. *)
MCPolicies == {Policy(M2, 3, 1), Policy(M1, 1, 0)}

Note(owner, collateral, position, leverage) ==
    [owner |-> owner, nullifier_key |-> owner, collateral |-> collateral,
     position |-> position, leverage |-> leverage, blinding |-> "b1"]

(* Carol never signs. *)
DepositOpening(name) ==
    CASE name = "alice" -> Note("alice", 4, 0, 1)
      [] name = "bob"   -> Note("bob", 3, 0, 1)
      [] name = "carol" -> Note("carol", 2, 0, 1)
      [] name = "small" -> Note("bob", 1, 0, 1)

Deposit(opening, market, deviation) ==
    LET opened == CASE deviation = "long" -> [opening EXCEPT !.position = 1]
                    [] deviation = "blinding" ->
                          [opening EXCEPT !.blinding = Zero]
                    [] OTHER -> opening
        statement ==
            [chain_domain |->
                IF deviation = "chain" THEN "other" ELSE ChainDomain,
             ledger_id |-> IF deviation = "ledger" THEN "other" ELSE LedgerId,
             note |-> PublicNote(market, Asset(market),
                          Commitment(opened, market, Asset(market))),
             backing_amount |-> IF deviation = "inflated"
                                THEN opened.collateral + 1
                                ELSE opened.collateral]
    IN  [statement |-> statement,
         opening |-> opened,
         authority_signature |->
            [signer |-> IF deviation = "signer" THEN "bob"
                        ELSE DepositAuthority,
             message |-> statement]]

MCDeposits ==
    {Deposit(DepositOpening(name), M1, deviation) :
        name \in Depositing, deviation \in Deviations \cup {"none"}}
    \cup {Deposit(DepositOpening("small"), M2, "none")}

Outputs(name) ==
    CASE name = "keep"  -> <<Note("alice", 3, 0, 1)>>
      [] name = "pay"   -> <<Note("bob", 2, 0, 2)>>
      [] name = "trade" -> <<Note("alice", 3, 1, 2), Note("bob", 3, -1, 2)>>
      [] name = "close" -> <<Note("alice", 5, 0, 1)>>
      [] name = "open"  -> <<Note("alice", 2, 1, 1)>>
      [] name = "thin"  -> <<Note("alice", 5, 1, 2), Note("bob", 1, -1, 2)>>
      [] name = "twice" -> <<Note("bob", 1, 0, 1), Note("bob", 1, 0, 1)>>
      [] name = "steep" -> <<Note("bob", 2, 0, 3)>>

-----------------------------------------------------------------------------
(* A tree the spender made up, with a note that was never deposited. *)
ForgedTree ==
    AppendAll(EmptyTree,
        <<PublicNote(M1, Asset(M1),
             Commitment(Note("bob", 9, 0, 1), M1, Asset(M1)))>>)

Spend(ledger, inputs, at, outputs, fee, deviation) ==
    LET tree == IF deviation = "forged" THEN ForgedTree
                ELSE WalletTree(ledger, at)
        market == IF deviation = "market" THEN M2 ELSE M1
        notes == [i \in DOMAIN inputs |-> Leaf(tree, inputs[i])]
        Opened(i) == IF deviation = "inflated"
                     THEN [Opening(notes[i]) EXCEPT !.collateral = @ + 1]
                     ELSE Opening(notes[i])
        index(i) == IF deviation = "alias"
                    THEN inputs[i] + merkle_capacity ELSE inputs[i]
        statement ==
            [chain_domain |->
                IF deviation = "chain" THEN "other" ELSE ChainDomain,
             ledger_id |-> IF deviation = "ledger" THEN "other" ELSE LedgerId,
             anchor_root |-> IF deviation = "path"
                             THEN ledger.margin.note_tree.cached_root
                             ELSE tree.cached_root,
             market_id |-> market,
             collateral_asset |-> Asset(market),
             policy_hash |-> policy_hash(IF deviation = "policy"
                                         THEN Policy(M1, 1, 0)
                                         ELSE Policy(market, 3, 1)),
             nullifiers |-> [i \in DOMAIN inputs |->
                 derive_nullifier(notes[i], Opened(i), index(i))],
             output_commitments |-> [i \in DOMAIN outputs |->
                 Commitment(outputs[i], market, Asset(market))],
             fee |-> fee]
        Signature(owner) ==
            [signer |-> IF owner \in Signing THEN owner ELSE "bob",
             message |-> IF deviation = "message"
                         THEN [statement EXCEPT !.fee = 0] ELSE statement]
    IN  [statement |-> statement,
         proof |->
            [inputs |-> [i \in DOMAIN inputs |->
                [note |-> notes[i],
                 opening |-> Opened(i),
                 merkle_proof |->
                    [proof(tree, inputs[i]) EXCEPT !.leaf_index = index(i)],
                 authorization_signature |->
                    Signature(Opening(notes[i]).owner)]],
             output_openings |-> outputs]]

(* One or two notes; a note may be named twice. *)
InputLists(count) ==
    {<<i>> : i \in 0 .. count - 1}
    \cup {<<i, j>> : i, j \in 0 .. count - 1}

MCSpends(ledger) ==
    LET count == Len(ledger.margin.note_tree.leaves)
        honest == UNION {
            {Spend(ledger, inputs, at, Outputs(name), fee, "none") :
                inputs \in InputLists(at), name \in OutputLists,
                fee \in 0 .. 1} : at \in 0 .. count}
        deviating ==
            {Spend(ledger, <<i>>, count, Outputs(name), 1, deviation) :
                i \in 0 .. count - 1, name \in OutputLists,
                deviation \in Deviations \ {"forged", "path"}}
        stale_path == UNION {
            {Spend(ledger, <<i>>, at, Outputs("keep"), 1, "path") :
                i \in 0 .. at - 1} : at \in 0 .. count}
        forged == {Spend(ledger, <<0>>, 1, <<Note("bob", 8, 0, 1)>>, 1,
                         "forged")}
    IN  honest \cup deviating \cup stale_path \cup forged
=============================================================================
