------------------------------ MODULE Gateway ------------------------------
(***************************************************************************)
(* A signed transaction on its way into a block: the gateway's broadcast   *)
(* and lookup (api.rs), CheckTx with its one reservation per signer, and   *)
(* Commit, which drops the reservations (consensus.rs).                    *)
(*                                                                         *)
(* CometBFT's mempool is external.  It admits what CheckTx accepts while   *)
(* it has room, gossips it, and after a Commit removes the block's         *)
(* transactions and checks the others again, in order, before any new one. *)
(* It may find itself full only after CheckTx has answered.                *)
(***************************************************************************)
EXTENDS Naturals, Sequences, SequencesExt, FiniteSets

CONSTANTS
    Nodes,          \* validators, each with a gateway
    Txs,            \* transactions, signed records [signer, nonce, valid_until]
    Excludes,       \* Excludes[tx]: transactions after which tx's command fails
    Retried,        \* transactions whose clients repeat them
    MempoolSize,    \* MempoolSize[n]: transactions the mempool of n holds
    MaxHeight,      \* bound: later heights are not told apart
    MaxCrashes,     \* bound: restarts of a node
    None            \* no reservation, nothing told

ASSUME GatewayAssumption ==
    /\ Txs \subseteq [id : STRING, signer : STRING, nonce : Nat, valid_until : Nat]
    /\ Excludes \in [Txs -> SUBSET Txs]
    /\ Retried \subseteq Txs
    /\ MempoolSize \in [Nodes -> Nat \ {0}]
    /\ MaxHeight \in Nat
    /\ None \notin Txs

Signers == {tx.signer : tx \in Txs}

VARIABLES
    latest,         \* the chain's newest state: height and executed txs
    previous,       \* the state one block earlier
    behind,         \* nodes that have yet to commit the newest block
    mempool,        \* each node's mempool, external
    reservations,   \* mempool_reservations of each node
    waiting,        \* requests whose answer is outstanding: <<tx, node>>
    told,           \* the last success a client was told of, <<tx, node>>
    crashes

vars == <<latest, previous, behind, mempool, reservations, waiting, told,
          crashes>>

Committed(n) == IF n \in behind THEN previous ELSE latest

-----------------------------------------------------------------------------
NoReservations == [s \in Signers |-> None]

ExpectedNonce(s, signer) == Cardinality({tx \in s.executed : tx.signer = signer})

validate_transaction_state(s, tx, height) ==
    /\ tx.valid_until >= height
    /\ tx.nonce = ExpectedNonce(s, tx.signer)

CommandApplies(s, tx) == s.executed \cap Excludes[tx] = {}

Applies(s, tx, height) ==
    validate_transaction_state(s, tx, height) /\ CommandApplies(s, tx)

execute_verified_transaction(s, tx) == [s EXCEPT !.executed = @ \cup {tx}]

(* One reservation per signer, for one transaction. *)
Conflicts(reserved, tx) == reserved[tx.signer] \notin {None, tx}

\* Mutant: the transaction is checked for the height already committed.
check_tx_now(s, reserved, tx) ==
    /\ Applies(s, tx, s.height)
    /\ ~ Conflicts(reserved, tx)

check_tx(s, reserved, tx) ==
    /\ Applies(s, tx, s.height + 1)
    /\ ~ Conflicts(reserved, tx)

(* prepare_proposal executes what it is offered and skips what fails. *)
prepare_proposal(s, offered) ==
    LET scratch[i \in 0 .. Len(offered)] ==
            IF i = 0 THEN s
            ELSE IF Applies(scratch[i - 1], offered[i], s.height + 1)
                 THEN execute_verified_transaction(scratch[i - 1], offered[i])
                 ELSE scratch[i - 1]
    IN  scratch[Len(offered)]

(* An answer of the RPC to a broadcast names a transaction and has two     *)
(* codes.  The one that CheckTx refused has the default result, which is   *)
(* success.  ProcessProposal accepts no block with a failing transaction,  *)
(* so one that was delivered has succeeded.                                *)
Refusal(tx) == [hash |-> tx, check_tx |-> "error", tx_result |-> "ok"]
Delivery(tx) == [hash |-> tx, check_tx |-> "ok", tx_result |-> "ok"]

\* Mutant: the result code is taken for the answer.
validate_result_only(tx, response) ==
    response.hash = tx /\ response.tx_result = "ok"

validate_broadcast_response(tx, response) ==
    /\ response.hash = tx
    /\ response.check_tx = "ok"
    /\ response.tx_result = "ok"

(* The lookup: the answer has a hash and the bytes of a transaction.       *)
validate_transaction(tx, response) ==
    response.hash = tx /\ response.tx = response.hash

-----------------------------------------------------------------------------
Genesis == [height |-> 0, executed |-> {}]

Init ==
    /\ latest = Genesis
    /\ previous = Genesis
    /\ behind = {}
    /\ mempool = [n \in Nodes |-> <<>>]
    /\ reservations = [n \in Nodes |-> NoReservations]
    /\ waiting = {}
    /\ told = None
    /\ crashes = 0

(* CheckTx at node n and, unless the mempool filled up meanwhile, admission. *)
CheckTx(n, tx) ==
    /\ check_tx(Committed(n), reservations[n], tx)
    /\ reservations' = [reservations EXCEPT ![n][tx.signer] = tx]
    /\ mempool' = IF Len(mempool[n]) < MempoolSize[n]
                  THEN [mempool EXCEPT ![n] = Append(@, tx)] ELSE mempool

(* broadcast: broadcast_tx_commit checks the transaction and waits for it  *)
(* to be committed.  A request that finds its transaction in the mempool   *)
(* already is an error of the RPC and changes nothing.                     *)
BroadcastAdmitted(tx, n) ==
    /\ \A w \in waiting : w[1] # tx
    /\ tx \notin Range(mempool[n])
    /\ CheckTx(n, tx)
    /\ waiting' = waiting \cup {<<tx, n>>}
    /\ UNCHANGED <<latest, previous, behind, told, crashes>>

(* What the RPC of n may answer a broadcast with: what is true of some     *)
(* transaction, not necessarily of the one that was sent.                  *)
MayAnswer(n, response) ==
    \/ /\ response = Delivery(response.hash)
       /\ response.hash \in Committed(n).executed
    \/ /\ response = Refusal(response.hash)
       /\ ~ check_tx(Committed(n), reservations[n], response.hash)

TakenForSuccess(tx, n) ==
    \E t \in Txs : \E response \in {Delivery(t), Refusal(t)} :
        validate_broadcast_response(tx, response) /\ MayAnswer(n, response)

(* The request is answered when CheckTx refuses it.  Nothing changes unless *)
(* the gateway takes the answer for a success ...                          *)
BroadcastRefused(tx, n) ==
    /\ TakenForSuccess(tx, n)
    /\ ~ check_tx(Committed(n), reservations[n], tx)
    /\ told' = <<tx, n>>
    /\ UNCHANGED <<latest, previous, behind, mempool, reservations, waiting,
                   crashes>>

(* ... or after the node has committed the transaction. *)
BroadcastAnswered(tx, n) ==
    /\ <<tx, n>> \in waiting
    /\ TakenForSuccess(tx, n)
    /\ waiting' = waiting \ {<<tx, n>>}
    /\ told' = <<tx, n>>
    /\ UNCHANGED <<latest, previous, behind, mempool, reservations, crashes>>

(* broadcast_timeout, an error of the RPC, or an answer that is not taken  *)
(* for a success: the client does not learn the outcome.                   *)
BroadcastTimeout(tx, n) ==
    /\ <<tx, n>> \in waiting
    /\ waiting' = waiting \ {<<tx, n>>}
    /\ UNCHANGED <<latest, previous, behind, mempool, reservations, told, crashes>>

(* The client asks what became of a transaction.  The answer may be about  *)
(* another, in its hash or in its bytes.                                   *)
transaction_by_hash(tx, n) ==
    /\ \E hash \in Txs, found \in Committed(n).executed :
          validate_transaction(tx, [hash |-> hash, tx |-> found])
    /\ told' = <<tx, n>>
    /\ UNCHANGED <<latest, previous, behind, mempool, reservations, waiting,
                   crashes>>

(* CometBFT passes a transaction on to another node. *)
Gossip(m, n, tx) ==
    /\ tx \in Range(mempool[m]) \ Range(mempool[n])
    /\ CheckTx(n, tx)
    /\ UNCHANGED <<latest, previous, behind, waiting, told, crashes>>

(* A block of n's proposal is decided.  No node is more than one behind.   *)
DecideBlock(n) ==
    LET decided == prepare_proposal(latest, mempool[n])
        height == IF latest.height < MaxHeight THEN latest.height + 1
                  ELSE MaxHeight
    IN  /\ behind = {}
        /\ previous' = latest
        /\ latest' = [decided EXCEPT !.height = height]
        /\ behind' = Nodes
        /\ UNCHANGED <<mempool, reservations, waiting, told, crashes>>

(* Recheck: CheckTx for what the block did not take, in the mempool's order. *)
Recheck(s, txs) ==
    LET checked[i \in 0 .. Len(txs)] ==
            IF i = 0 THEN [pool |-> <<>>, reserved |-> NoReservations]
            ELSE IF /\ txs[i] \notin s.executed
                    /\ check_tx(s, checked[i - 1].reserved, txs[i])
                 THEN [pool |-> Append(checked[i - 1].pool, txs[i]),
                       reserved |-> [checked[i - 1].reserved EXCEPT ![txs[i].signer] = txs[i]]]
                 ELSE checked[i - 1]
    IN  checked[Len(txs)]

\* Mutant: the reservations outlive the block.
CommitKeepsReservations(n) ==
    LET checked == Recheck(latest, mempool[n])
    IN  /\ n \in behind
        /\ behind' = behind \ {n}
        /\ mempool' = [mempool EXCEPT ![n] = checked.pool]
        /\ UNCHANGED <<latest, previous, reservations, waiting, told, crashes>>

Commit(n) ==
    LET checked == Recheck(latest, mempool[n])
    IN  /\ n \in behind
        /\ behind' = behind \ {n}
        /\ reservations' = [reservations EXCEPT ![n] = checked.reserved]
        /\ mempool' = [mempool EXCEPT ![n] = checked.pool]
        /\ UNCHANGED <<latest, previous, waiting, told, crashes>>

(* The process dies with its mempool, its reservations and its requests,   *)
(* whose outcome their clients do not learn.                               *)
Crash(n) ==
    /\ crashes < MaxCrashes
    /\ crashes' = crashes + 1
    /\ mempool' = [mempool EXCEPT ![n] = <<>>]
    /\ reservations' = [reservations EXCEPT ![n] = NoReservations]
    /\ waiting' = {w \in waiting : w[2] # n}
    /\ UNCHANGED <<latest, previous, behind, told>>

Next ==
    \/ \E n \in Nodes : DecideBlock(n) \/ Commit(n) \/ Crash(n)
    \/ \E tx \in Txs, n \in Nodes :
          \/ BroadcastAdmitted(tx, n) \/ BroadcastRefused(tx, n)
          \/ BroadcastAnswered(tx, n) \/ BroadcastTimeout(tx, n)
          \/ transaction_by_hash(tx, n)
          \/ \E m \in Nodes : Gossip(m, n, tx)

(* CometBFT decides a block after every commit, proposers take turns,      *)
(* requests time out, and some clients repeat what was not answered.       *)
Fairness ==
    \A n \in Nodes :
        /\ SF_vars(DecideBlock(n))
        /\ WF_vars(Commit(n))
        /\ \A tx \in Txs : WF_vars(BroadcastTimeout(tx, n))
        /\ \A tx \in Retried : SF_vars(BroadcastAdmitted(tx, n))

Spec == Init /\ [][Next]_vars /\ Fairness

-----------------------------------------------------------------------------
TypeOK ==
    /\ latest.height \in 0 .. MaxHeight /\ latest.executed \subseteq Txs
    /\ previous.executed \subseteq latest.executed
    /\ behind \subseteq Nodes
    /\ \A n \in Nodes : /\ Range(mempool[n]) \subseteq Txs
                         /\ Len(mempool[n]) <= MempoolSize[n]
    /\ \A n \in Nodes, s \in Signers :
          reservations[n][s] \in {None} \cup {tx \in Txs : tx.signer = s}
    /\ waiting \subseteq Txs \X Nodes
    /\ told \in {None} \cup (Txs \X Nodes)

(* A client that a gateway tells of success can rely on it there, whatever *)
(* CheckTx refused, the RPC mixed up, timed out or was asked again: its    *)
(* transaction is in the state the gateway reads from, and from then on no *)
(* reservation for a nonce that is used up refuses its next one, through   *)
(* blocks, gossip, rechecks and crashes (validate_broadcast_response,      *)
(* transaction_by_hash, check_tx, commit).                                 *)
AnswersAreTrue ==
    told # None =>
        LET tx == told[1]
            s == Committed(told[2])
            reserved == reservations[told[2]][tx.signer]
        IN  /\ tx \in s.executed
            /\ reserved # None => reserved.nonce = ExpectedNonce(s, tx.signer)

(* What a mempool holds can be executed by the next block: expired,        *)
(* consumed and overtaken transactions leave it at every Commit, and it    *)
(* never holds two transactions of one signer, of which a block could take *)
(* only one, however they reached the node: by its gateway, by gossip or   *)
(* over a recheck (check_tx, commit).                                      *)
MempoolIsExecutable ==
    /\ TypeOK
    /\ \A n \in Nodes :
          /\ \A tx \in Range(mempool[n]) :
                Applies(Committed(n), tx, Committed(n).height + 1)
          /\ \A i, j \in DOMAIN mempool[n] :
                i # j => mempool[n][i].signer # mempool[n][j].signer

(* A reservation whose transaction was lost does not keep its signer out:  *)
(* a valid transaction that its client repeats is executed, or a rival     *)
(* uses its nonce, or it stops being valid.                                *)
RetriedIsDecided ==
    \A tx \in Retried : []<> ~ Applies(latest, tx, latest.height + 1)
=============================================================================
