------------------------------- MODULE Exchange -------------------------------
(***************************************************************************)
(* The trading engine (engine.rs) of one market: accounts, the live order  *)
(* book, the oracle's mark price, funding, liquidation, and the private    *)
(* batches from the queueing of their orders over the freezing of resting  *)
(* liquidity to the settlement two blocks later.                           *)
(*                                                                         *)
(* The engine's state is one record, as in the code, and every command is  *)
(* a function on it whose result carries ok: apply_consensus_command       *)
(* restores the previous state when a command fails, so an action takes    *)
(* the result only when it is ok.                                          *)
(*                                                                         *)
(* Left out because nothing below depends on it: events and trades,        *)
(* fees_paid and the PnL totals of a position, nonces and signatures (see  *)
(* ChainRuntime), the shielded ledger, overflow checks.                    *)
(***************************************************************************)
EXTENDS Margin, OrderBook, BatchAuction

CONSTANTS
    Accounts,          \* the funded accounts, numbers in the order of their ids
    InitialMark,       \* the mark price at genesis
    MaxLeverage,       \* max_leverage
    PrivateOrderFee,   \* private_order_fee
    MinPrivateBond,    \* MIN_PRIVATE_ORDER_BOND
    SafetyEpsilon,     \* SOCIAL_LOSS_SAFETY_EPSILON
    OraclePrices,      \* medians the authority may publish
    Plans              \* what may happen in a behaviour, and its bounds:
                       \*   balances: of the accounts at genesis
                       \*   intents, payloads: public and private orders, per account
                       \*   rates, credits: funding rates and credits of the authority
                       \*   orders: bound on orders ever accepted
                       \*   moves: bound on oracle, funding and credit commands
                       \*   height: bound on blocks

ASSUME AccountsAssumption ==
    /\ Accounts \subseteq Nat /\ IsFiniteSet(Accounts)
    /\ \A p \in Plans : p.balances \in [Accounts -> Nat]
    /\ InitialMark \in Nat \ {0}

VARIABLES
    st,      \* EngineState
    moves,   \* oracle, funding and credit commands so far, to bound them
    plan     \* the plan of this behaviour

vars == <<st, moves, plan>>

Delay == 2    \* PRIVATE_ORDER_DECRYPTION_DELAY_BLOCKS

\* The mark price a market records for a batch that is not frozen yet.
NotFrozen == 0

Genesis(balances) ==
    [accounts |-> [a \in Accounts |-> [collateral |-> balances[a], reserved |-> 0,
                                       position |-> Flat]],
     book |-> {}, mark |-> InitialMark, fundingIndex |-> 0, fundingPool |-> 0,
     feeVault |-> 0, insuranceFund |-> 0,
     totalCredits |-> MapThenSumSet(LAMBDA a : balances[a], Accounts),
     batches |-> <<>>, sequence |-> 0, height |-> 1, ok |-> TRUE]

-----------------------------------------------------------------------------
(* Small steps that commands are made of *)

Fail(s) == [s EXCEPT !.ok = FALSE]

Require(s, condition) == [s EXCEPT !.ok = @ /\ condition]

Available(s, a) == AvailableMargin(s.accounts[a], s.mark, s.fundingIndex)

AtRisk(s, a) == LiquidationRisk(s.accounts[a], s.mark, s.fundingIndex)

ReserveMargin(s, a, amount) == [s EXCEPT !.accounts[a].reserved = @ + amount]

\* release_margin: releasing more than is reserved is an error.
ReleaseMargin(s, a, amount) ==
    Require([s EXCEPT !.accounts[a].reserved = @ - amount],
            s.accounts[a].reserved >= amount)

ReleaseOrder(s, o) == ReleaseMargin(s, o.account, o.reserved)

ReleaseOrders(s, orders) ==
    FoldInOrder(ReleaseOrder, s, orders, LAMBDA o1, o2 : o1.id < o2.id)

\* Takes resting orders out of the book and releases their reservations.
CancelOrders(s, orders) == ReleaseOrders([s EXCEPT !.book = @ \ orders], orders)

\* settle_account_funding
SettleFunding(s, a) ==
    LET payment == PendingFunding(s.accounts[a], s.fundingIndex)
    IN [s EXCEPT !.accounts[a].collateral = @ - payment,
                 !.accounts[a].position.fundingIndex = s.fundingIndex,
                 !.fundingPool = @ + payment]

\* The rest of apply_fill_to_account once funding is settled.
FillSettled(s, a, side, quantity, price, leverage, fee) ==
    LET p == s.accounts[a].position
    IN [s EXCEPT !.accounts[a].position = ApplyFill(p, side, quantity, price, leverage),
                 !.accounts[a].collateral = @ + RealizedPnl(p, side, quantity, price) - fee,
                 !.feeVault = @ + fee]

\* apply_fill_to_account
ApplyFillToAccount(s, a, side, quantity, price, leverage, feeRate) ==
    FillSettled(SettleFunding(s, a), a, side, quantity, price, leverage,
                Portion(quantity * price, feeRate))

\* One fill of apply_execution: both releases, then the maker, then the taker.
ApplyTrade(s, f) ==
    ApplyFillToAccount(
      ApplyFillToAccount(
        ReleaseMargin(ReleaseMargin(s, f.maker, f.makerRelease), f.taker, f.takerRelease),
        f.maker, -f.side, f.quantity, f.price, f.makerLeverage, MakerFeeRate),
      f.taker, f.side, f.quantity, f.price, f.takerLeverage, TakerFeeRate)

\* apply_execution
ApplyExecution(s, x) ==
    FoldLeft(ApplyTrade,
             ReleaseMargin([s EXCEPT !.book = x.book], x.order.account, x.released), x.fills)

\* The accounts a command must look at again after an execution.
Affected(x) == {x.order.account} \cup {x.fills[i].maker : i \in DOMAIN x.fills}

(***************************************************************************)
(* reconcile_reduce_only_orders: oldest first, as long as the orders still *)
(* fit into the position; the others are cancelled.                        *)
(***************************************************************************)
ReconcileReduceOnly(s, a) ==
    LET quantity == s.accounts[a].position.quantity
        orders == {o \in s.book : o.account = a /\ o.reduceOnly}
        visit(acc, o) == IF quantity # 0 /\ o.side = -Sign(quantity) /\ o.remaining <= acc.left
                         THEN [acc EXCEPT !.left = @ - o.remaining]
                         ELSE [acc EXCEPT !.cancel = @ \cup {o}]
        seen == FoldInOrder(visit, [left |-> Abs(quantity), cancel |-> {}], orders,
                            LAMBDA o1, o2 : o1.id < o2.id)
    IN CancelOrders(s, seen.cancel)

ReconcileAll(s, accounts) ==
    FoldInOrder(ReconcileReduceOnly, s, accounts, LAMBDA a, b : a < b)

\* ensure_account_has_nonnegative_available_margin, for several accounts.
EnsureSolvent(s, accounts) == Require(s, \A a \in accounts : Available(s, a) >= 0)

ReservationOf(o, mark) ==
    RequiredReservation(o.side, o.remaining, o.price, o.leverage, o.reduceOnly, mark)

-----------------------------------------------------------------------------
(* Commands *)

FrozenOrders(s) == UNION {s.batches[h].frozen : h \in DOMAIN s.batches}

\* The part of validate_order about reduce-only orders.
ReduceOnlyValid(s, a, i) ==
    LET quantity == s.accounts[a].position.quantity
        others == {o \in s.book : o.account = a /\ o.side = i.side /\ o.reduceOnly}
    IN /\ quantity # 0 /\ i.side = -Sign(quantity)
       /\ i.quantity + MapThenSumSet(LAMBDA o : o.remaining, others) <= Abs(quantity)

\* validate_order, against a mark price.
ValidOrder(s, a, i, mark) ==
    /\ i.quantity >= MinQuantity /\ i.leverage \in 1 .. MaxLeverage
    /\ IF i.market THEN i.tif # "Gtc"
       ELSE i.price > 0 /\ Aligned(i.price) /\ InBand(i.price, mark)
    /\ i.reduceOnly => ReduceOnlyValid(s, a, i)

\* effective_limit_price
EffectiveLimitPrice(i, mark) ==
    IF ~i.market THEN i.price ELSE IF i.side = Buy THEN UpperBand(mark) ELSE LowerBand(mark)

NewOrder(s, a, i) ==
    LET limit == EffectiveLimitPrice(i, s.mark)
    IN [id |-> s.sequence + 1, account |-> a, client |-> i.client, side |-> i.side,
        price |-> limit, remaining |-> i.quantity, leverage |-> i.leverage,
        reduceOnly |-> i.reduceOnly, rests |-> ~i.market /\ i.tif = "Gtc",
        reserved |-> RequiredReservation(i.side, i.quantity, limit, i.leverage,
                                         i.reduceOnly, s.mark)]

\* The admission checks of submit_order.
Acceptable(s, a, i, order) ==
    /\ ValidOrder(s, a, i, s.mark)
    /\ \A o \in s.book \cup FrozenOrders(s) : ~(o.account = a /\ o.client = i.client)
    /\ Available(s, a) >= order.reserved
    /\ i.tif = "Fok" => CanFullyFill(s.book, i.side, order.price, i.quantity, a)

\* What follows an execution: fills, then reduce-only orders, then margin.
Executed(s, x) == EnsureSolvent(ReconcileAll(ApplyExecution(s, x), Affected(x)), Affected(x))

\* submit_order
SubmitOrder(s, a, i) ==
    LET order == NewOrder(s, a, i)
    IN IF ~Acceptable(s, a, i, order) THEN Fail(s)
       ELSE Executed(ReserveMargin([s EXCEPT !.sequence = @ + 1], a, order.reserved),
                     Execute(s.book, order))

\* Command::CancelOrder: an order frozen into a batch is locked.
CancelOrder(s, o) == IF o \in s.book THEN CancelOrders(s, {o}) ELSE Fail(s)

\* credit_account_state
CreditAccount(s, a, amount) ==
    [s EXCEPT !.accounts[a].collateral = @ + amount, !.totalCredits = @ + amount]

(***************************************************************************)
(* Command::PublishOraclePrice: the price must stay in the band around the *)
(* reference price of every frozen batch; resting orders outside the new   *)
(* band, or reserved too little for the new price, are cancelled.          *)
(***************************************************************************)
PublishOraclePrice(s, price) ==
    LET t == [s EXCEPT !.mark = price]
        stale == {o \in s.book : ~InBand(o.price, price) \/ o.reserved < ReservationOf(o, price)}
    IN IF \A h \in DOMAIN s.batches :
            s.batches[h].reference # NotFrozen => InBand(price, s.batches[h].reference)
       THEN CancelOrders(t, stale) ELSE Fail(s)

\* apply_funding_state: only the market's index moves; positions pay later.
ApplyFunding(s, rate) == [s EXCEPT !.fundingIndex = @ + Portion(s.mark, rate)]

-----------------------------------------------------------------------------
(* Liquidation *)

\* What an account can lose to others' bad debt without being at risk itself.
Capacity(s, a) ==
    LET acct == s.accounts[a]
        maintenance == MaintenanceRequirement(acct, s.mark)
        protected == IF maintenance > acct.position.margin THEN maintenance
                     ELSE acct.position.margin
    IN Equity(acct, s.mark, s.fundingIndex) - protected - acct.reserved - SafetyEpsilon

\* A bug: the debt is written off without anyone paying for it.
WriteOffDebt(s, debtor) ==
    [s EXCEPT !.accounts[debtor].collateral = 0, !.insuranceFund = 0]

\* The order in which accounts pay, and what is left to one of them.
PaysBefore(s, a, b) ==
    \/ Capacity(s, a) > Capacity(s, b)
    \/ Capacity(s, a) = Capacity(s, b) /\ a < b

Levy(s, payers, social, a) ==
    LET paid == MapThenSumSet(LAMBDA b : Capacity(s, b), {b \in payers : PaysBefore(s, b, a)})
    IN IF paid >= social THEN 0 ELSE Least(Capacity(s, a), social - paid)

\* The debt paid by the insurance fund, the fee vault and the levies, if these
\* suffice and leave no payer at risk.
PayDebt(s, debtor, insured, fees, levies) ==
    LET debt == -s.accounts[debtor].collateral
        paid == [s EXCEPT !.insuranceFund = @ - insured, !.feeVault = @ - fees,
                          !.accounts = [a \in Accounts |->
                             [@[a] EXCEPT !.collateral =
                                IF a = debtor THEN 0 ELSE IF a \in DOMAIN levies THEN @ - levies[a] ELSE @]]]
    IN Require(paid,
               /\ s.insuranceFund >= 0 /\ s.feeVault >= 0
               /\ insured + fees + MapThenSumSet(LAMBDA a : levies[a], DOMAIN levies) = debt
               /\ \A a \in DOMAIN levies :
                     levies[a] > 0 => ~AtRisk(paid, a) /\ Available(paid, a) >= SafetyEpsilon)

(***************************************************************************)
(* cover_bad_debt: the insurance fund, the fee vault, then the accounts    *)
(* with the largest capacity; all of it or an error.                       *)
(***************************************************************************)
CoverBadDebt(s, debtor) ==
    LET debt == -s.accounts[debtor].collateral
        insured == Least(s.insuranceFund, debt)
        fees == Least(s.feeVault, debt - insured)
        payers == {a \in Accounts \ {debtor} : Capacity(s, a) > 0}
    IN PayDebt(s, debtor, insured, fees,
               [a \in payers |-> Levy(s, payers, debt - insured - fees, a)])

\* The order liquidate_account sends against the live book.
LiquidationOrder(s, a) ==
    LET quantity == s.accounts[a].position.quantity
    IN [id |-> s.sequence + 1, account |-> a, client |-> 0, side |-> -Sign(quantity),
        price |-> IF quantity > 0 THEN LowerBand(s.mark) ELSE UpperBand(s.mark),
        remaining |-> Abs(quantity), leverage |-> 1, reduceOnly |-> TRUE, reserved |-> 0,
        rests |-> FALSE]

LiquidationPenalty(fills) ==
    MapThenSumSet(LAMBDA i : Portion(fills[i].quantity * fills[i].price, LiquidationPenaltyRate),
                  DOMAIN fills)

ChargePenalty(s, a, penalty) ==
    [s EXCEPT !.accounts[a].collateral = @ - penalty, !.insuranceFund = @ + penalty]

CoverIfClosed(s, a) ==
    IF s.accounts[a].position.quantity = 0 /\ s.accounts[a].collateral < 0
    THEN CoverBadDebt(s, a) ELSE s

LiquidateWith(s, a, x) ==
    LET traded == ApplyExecution([s EXCEPT !.sequence = @ + 1], x)
    IN IF x.fills = <<>> THEN Fail(s)
       ELSE CoverIfClosed(ReconcileAll(ChargePenalty(traded, a, LiquidationPenalty(x.fills)),
                                       Affected(x)), a)

(***************************************************************************)
(* liquidate_account: what the book gives, a penalty to the insurance      *)
(* fund, and the bad debt once the position is gone.                       *)
(***************************************************************************)
Liquidate(s, a) ==
    IF ~AtRisk(s, a) \/ s.accounts[a].position.quantity = 0 THEN Fail(s)
    ELSE LiquidateWith(s, a, Execute(s.book, LiquidationOrder(s, a)))

-----------------------------------------------------------------------------
(* Private batches *)

Batch(s, h) ==
    IF h \in DOMAIN s.batches THEN s.batches[h]
    ELSE [orders |-> <<>>, bonds |-> <<>>, reference |-> NotFrozen, frozen |-> {}]

\* queue_private_order: whatever margin is left becomes the bond.
QueuePrivateOrder(s, a, payload) ==
    LET b == Batch(s, s.height)
        bond == Available(s, a) - PrivateOrderFee
        queued == [b EXCEPT !.orders = @ @@ (a :> payload), !.bonds = @ @@ (a :> bond)]
    IN IF a \in DOMAIN b.orders \/ bond < MinPrivateBond THEN Fail(s)
       ELSE [s EXCEPT !.accounts[a].collateral = @ - PrivateOrderFee,
                      !.accounts[a].reserved = @ + bond,
                      !.feeVault = @ + PrivateOrderFee,
                      !.batches = (s.height :> queued) @@ @]

\* A bug: a frozen order is reserved for today's mark price only.
ReservedForToday(o, mark) == ReservationOf(o, mark)

\* frozen_order_reservation: enough for any mark price in the band.
FrozenReservation(o, mark) == ReservationOf(o, WorstMark(o.side, mark))

\* One order of freeze_private_batch_liquidity: into the batch if its account
\* can pay for the larger reservation, else it stays in the live book.
FreezeOrder(acc, o) ==
    LET s == acc.s
        required == FrozenReservation(o, s.mark)
        topUp == IF required > o.reserved THEN required - o.reserved ELSE 0
    IN IF o.reduceOnly \/ (topUp > 0 /\ Available(s, o.account) < topUp) THEN acc
       ELSE [s |-> ReserveMargin([s EXCEPT !.book = @ \ {o}], o.account, topUp),
             frozen |-> acc.frozen \cup {[o EXCEPT !.reserved = @ + topUp]}]

\* freeze_private_batch_liquidity, at the end of the block.
FreezeBatch(s) ==
    LET recorded(acc) == [acc.s EXCEPT !.batches[s.height].reference = s.mark,
                                       !.batches[s.height].frozen = acc.frozen]
    IN IF s.height \notin DOMAIN s.batches THEN s
       ELSE recorded(FoldInOrder(FreezeOrder, [s |-> s, frozen |-> {}], s.book,
                                 LAMBDA o1, o2 : o1.id < o2.id))

\* A bug: margin is checked at the reference price, not at the worst one.
ValidAtReference(s, a, payload, reference) ==
    LET i == payload.intent
        limit == EffectiveLimitPrice(i, reference)
    IN /\ payload.decrypts /\ ValidOrder(s, a, i, reference)
       /\ Available(s, a) >= RequiredReservation(i.side, i.quantity, limit, i.leverage,
                                                 i.reduceOnly, reference)

\* private_participant: an order that decrypts but is invalid, or that its
\* account cannot pay for at the worst mark price, takes no part.
ParticipantValid(s, a, payload, reference) ==
    LET i == payload.intent
        limit == EffectiveLimitPrice(i, reference)
    IN /\ payload.decrypts /\ ValidOrder(s, a, i, reference)
       /\ Available(s, a) >= RequiredReservation(i.side, i.quantity, limit, i.leverage,
                                                 i.reduceOnly, WorstMark(i.side, reference))

PrivateParticipant(a, i) ==
    [id |-> -a, private |-> TRUE, side |-> i.side, market |-> i.market, price |-> i.price,
     tif |-> i.tif, quantity |-> i.quantity, account |-> a, leverage |-> i.leverage]

PublicParticipant(o) ==
    [id |-> o.id, private |-> FALSE, side |-> o.side, market |-> FALSE, price |-> o.price,
     tif |-> "Gtc", quantity |-> o.remaining, account |-> o.account, leverage |-> o.leverage]

\* One allocation of settle_private_market; acc is [s, escrow].
SettleAllocation(acc, p, got, price) ==
    LET s == acc.s
        o == CHOOSE e \in acc.escrow : e.id = p.id
        rest == IF o.remaining = got[p.id] THEN {} ELSE {Filled(o, got[p.id])}
        release == ProportionalRelease(o.reserved, o.remaining, got[p.id])
        fill(t, feeRate) == ApplyFillToAccount(t, p.account, p.side, got[p.id], price,
                                               p.leverage, feeRate)
    IN IF p.private THEN [acc EXCEPT !.s = fill(s, TakerFeeRate)]
       ELSE [s |-> fill(ReleaseMargin(s, o.account, release), MakerFeeRate),
             escrow |-> (acc.escrow \ {o}) \cup rest]

Settled(acc, accounts) == [acc EXCEPT !.s = EnsureSolvent(ReconcileAll(acc.s, accounts), accounts)]

\* settle_private_market: the allocations in the order of their ids.
SettleOutcome(s, escrow, participants, c) ==
    LET filled == {p \in participants : c.got[p.id] > 0}
    IN IF ~c.ok THEN [s |-> Fail(s), escrow |-> escrow]
       ELSE Settled(FoldInOrder(LAMBDA acc, p : SettleAllocation(acc, p, c.got, c.price),
                                [s |-> s, escrow |-> escrow], filled, LAMBDA p, q : p.id < q.id),
                    {p.account : p \in filled})

\* clear_private_batch and settle_private_market for the valid participants.
SettlePrivateMarket(s, escrow, participants, reference, beacon) ==
    SettleOutcome(s, escrow, participants,
                  ClearPrivateBatch(participants, reference,
                                    [i \in {p.id : p \in participants} |-> beacon * i]))

\* One order of restore_private_batch_orders executes again; acc is [s, affected].
Restored(acc, x) == [s |-> ApplyExecution(acc.s, x), affected |-> acc.affected \cup Affected(x)]

RestoreOrder(acc, o) == Restored(acc, Execute(acc.s.book, o))

CheckRestored(acc) == EnsureSolvent(ReconcileAll(acc.s, acc.affected), acc.affected)

(***************************************************************************)
(* restore_private_batch_orders: frozen orders that still fit the mark     *)
(* price lose the excess reservation and, with the live orders, execute    *)
(* again in the order of their sequence numbers.                           *)
(***************************************************************************)
RestoreOrders(s, escrow) ==
    LET keeps(o) == InBand(o.price, s.mark) /\ o.reserved >= ReservationOf(o, s.mark)
        dropped == {o \in escrow : ~keeps(o)}
        excess(o) == o.reserved - ReservationOf(o, s.mark)
        kept == {[o EXCEPT !.reserved = ReservationOf(o, s.mark)] : o \in escrow \ dropped}
        adjusted == FoldInOrder(LAMBDA t, o : ReleaseMargin(t, o.account, excess(o)),
                                ReleaseOrders(s, dropped), escrow \ dropped,
                                LAMBDA o1, o2 : o1.id < o2.id)
    IN CheckRestored(FoldInOrder(RestoreOrder,
                                 [s |-> [adjusted EXCEPT !.book = {}], affected |-> {}],
                                 s.book \cup kept, LAMBDA o1, o2 : o1.id < o2.id))

ReleaseBonds(s, bonds) ==
    FoldInOrder(LAMBDA t, a : ReleaseMargin(t, a, bonds[a]), s, DOMAIN bonds, LAMBDA a, b : a < b)

\* The private orders that take part.
ValidPrivate(s, b) == {a \in DOMAIN b.orders : ParticipantValid(s, a, b.orders[a], b.reference)}

\* The frozen orders remove_ineligible_frozen_orders cancels.
Ineligible(s, b) == {o \in b.frozen : Available(s, o.account) < 0}

\* An account trades by its private order or by its frozen ones, not by both.
Participants(b, private, escrow) ==
    {PrivateParticipant(a, b.orders[a].intent) : a \in private}
    \cup {PublicParticipant(o) : o \in {e \in escrow : e.account \notin private}}

ClearBatchOf(s, b, private, escrow, beacon) ==
    IF private = {} THEN [s |-> s, escrow |-> escrow]
    ELSE SettlePrivateMarket(s, escrow, Participants(b, private, escrow), b.reference, beacon)

\* What follows the release of the bonds: who takes part is decided first.
ClearUnbonded(s, b, beacon) ==
    LET out == Ineligible(s, b)
    IN ClearBatchOf(ReleaseOrders(s, out), b, ValidPrivate(s, b), b.frozen \ out, beacon)

ForgetBatch(s, h) == [s EXCEPT !.batches = [k \in DOMAIN s.batches \ {h} |-> s.batches[k]]]

CloseBatch(acc, h) == ForgetBatch(RestoreOrders(acc.s, acc.escrow), h)

(***************************************************************************)
(* execute_private_decryption_bundle, the mandatory system transaction of  *)
(* the block two after the batch's own.                                    *)
(***************************************************************************)
SettleBatch(s, h, beacon) ==
    CloseBatch(ClearUnbonded(ReleaseBonds(s, s.batches[h].bonds), s.batches[h], beacon), h)

OpenBlock(s, due, beacon) ==
    IF due \in DOMAIN s.batches THEN SettleBatch(s, due, beacon) ELSE s

\* The end of a block and the system transaction that opens the next one.
NextBlock(s, beacon) ==
    OpenBlock([FreezeBatch(s) EXCEPT !.height = s.height + 1], s.height + 1 - Delay, beacon)

-----------------------------------------------------------------------------
(* The state machine *)

Init == plan \in Plans /\ st = Genesis(plan.balances) /\ moves = 0

\* apply_consensus_command: a command that fails leaves the state alone.
Apply(result) == result.ok /\ st' = result

PlaceOrderCommand ==
    /\ st.sequence < plan.orders
    /\ \E a \in Accounts : \E i \in plan.intents[a] : Apply(SubmitOrder(st, a, i))
    /\ UNCHANGED <<moves, plan>>

CancelOrderCommand ==
    /\ \E o \in st.book : Apply(CancelOrder(st, o))
    /\ UNCHANGED <<moves, plan>>

LiquidateCommand ==
    /\ st.sequence < plan.orders
    /\ \E a \in Accounts : Apply(Liquidate(st, a))
    /\ UNCHANGED <<moves, plan>>

SubmitPrivateOrderCommand ==
    /\ st.height + Delay <= plan.height
    /\ \E a \in Accounts : \E p \in plan.payloads[a] : Apply(QueuePrivateOrder(st, a, p))
    /\ UNCHANGED <<moves, plan>>

CreditAccountCommand ==
    /\ moves < plan.moves /\ moves' = moves + 1 /\ UNCHANGED plan
    /\ \E a \in Accounts, amount \in plan.credits : Apply(CreditAccount(st, a, amount))

PublishOracleCommand ==
    /\ moves < plan.moves /\ moves' = moves + 1 /\ UNCHANGED plan
    /\ \E price \in OraclePrices \ {st.mark} : Apply(PublishOraclePrice(st, price))

ApplyFundingCommand ==
    /\ moves < plan.moves /\ moves' = moves + 1 /\ UNCHANGED plan
    /\ \E rate \in plan.rates : Apply(ApplyFunding(st, rate))

\* A block whose system transaction fails is never decided.
EndBlock ==
    /\ st.height < plan.height
    /\ \E beacon \in {1, -1} : Apply(NextBlock(st, beacon))
    /\ UNCHANGED <<moves, plan>>

Next ==
    \/ PlaceOrderCommand \/ CancelOrderCommand \/ LiquidateCommand
    \/ SubmitPrivateOrderCommand \/ CreditAccountCommand
    \/ PublishOracleCommand \/ ApplyFundingCommand \/ EndBlock

Spec == Init /\ [][Next]_vars

-----------------------------------------------------------------------------
(* What audit_state calls healthy, and what the risk checks promise *)

SumOf(f(_)) == MapThenSumSet(f, Accounts)

(***************************************************************************)
(* audit_state reports a healthy state: the margin an account has reserved *)
(* is what its orders in the live book, its orders frozen into batches and *)
(* its bonds account for, so no fill, cancellation, freeze or restore      *)
(* leaks or releases twice; positions cancel out, and so do the funding    *)
(* payments settled so far and those still pending, although every account *)
(* settles at another time; equity, fees and insurance add up to what was  *)
(* ever credited.                                                          *)
(***************************************************************************)
ReservationsConsistent ==
    \A a \in Accounts :
      LET mine == {o \in st.book \cup FrozenOrders(st) : o.account = a}
          bonded == {h \in DOMAIN st.batches : a \in DOMAIN st.batches[h].bonds}
      IN st.accounts[a].reserved = MapThenSumSet(LAMBDA o : o.reserved, mine)
                                   + MapThenSumSet(LAMBDA h : st.batches[h].bonds[a], bonded)

PositionsBalance ==
    /\ SumOf(LAMBDA a : st.accounts[a].position.quantity) = 0
    /\ st.fundingPool + SumOf(LAMBDA a : PendingFunding(st.accounts[a], st.fundingIndex)) = 0

AssetsConserved ==
    SumOf(LAMBDA a : Equity(st.accounts[a], st.mark, st.fundingIndex))
    + st.feeVault + st.insuranceFund = st.totalCredits

AuditHealthy == ReservationsConsistent /\ PositionsBalance /\ AssetsConserved

(***************************************************************************)
(* Orders that wait stay sound while everything around them moves: the     *)
(* live book is never crossed, not even after frozen orders come back; the *)
(* resting reduce-only orders of an account fit into its position          *)
(* together; and whatever the oracle has published since a batch was       *)
(* frozen, its orders are reserved well enough for the current mark price. *)
(***************************************************************************)
BookNotCrossed ==
    \A bid, ask \in st.book : (bid.side = Buy /\ ask.side = Sell) => bid.price < ask.price

ReduceOnlyFits ==
    \A a \in Accounts :
      LET quantity == st.accounts[a].position.quantity
          orders == {o \in st.book : o.account = a /\ o.reduceOnly}
      IN /\ \A o \in orders : o.side = -Sign(quantity)
         /\ MapThenSumSet(LAMBDA o : o.remaining, orders) <= Abs(quantity)

FrozenOrdersCovered ==
    \A o \in FrozenOrders(st) : o.reserved >= ReservationOf(o, st.mark)

WaitingOrdersSound == BookNotCrossed /\ ReduceOnlyFits /\ FrozenOrdersCovered

\* A reduce-only order rests beside an ordinary one of the same side: one taker
\* may fill both, and the reduce-only one then opens a position.
MayOverfill(a) ==
    \E o1, o2 \in st.book : /\ o1.account = a /\ o2.account = a /\ o1.side = o2.side
                            /\ o1.reduceOnly /\ ~o2.reduceOnly

(***************************************************************************)
(* Post-fill risk: while the mark price and the funding index stand still, *)
(* no command and no settlement takes the available margin of an account   *)
(* below zero that is not at risk already.  The code checks it after an    *)
(* order and after a settlement.  After a liquidation it does not: neither *)
(* the makers nor those who pay for bad debt lose margin they do not have, *)
(* unless their own reduce-only orders can overfill.                       *)
(***************************************************************************)
MarginHolds ==
    [][(st'.mark = st.mark /\ st'.fundingIndex = st.fundingIndex) =>
         \A a \in Accounts :
           (Available(st, a) >= 0 /\ ~AtRisk(st, a) /\ ~MayOverfill(a)) => Available(st', a) >= 0]_vars

Due == st.height + 1 - Delay

Settles == \A beacon \in {1, -1} : NextBlock(st, beacon).ok

(***************************************************************************)
(* A committed batch must be finalized by its mandatory system transaction *)
(* two blocks later: when it is due there is such a transaction.  Without  *)
(* one no further block can be decided.                                    *)
(***************************************************************************)
CommittedBatchSettles == Due \in DOMAIN st.batches => Settles

(***************************************************************************)
(* What does hold of it: a due batch can be settled when its reference     *)
(* price is a multiple of the tick, no frozen remainder is below the       *)
(* minimum quantity and the accounts of the live orders have no negative   *)
(* margin once the bonds are released, whatever happened to the prices and *)
(* to the accounts of the batch since it was committed.                    *)
(***************************************************************************)
DueBatchSettles ==
    (/\ Due \in DOMAIN st.batches /\ Aligned(st.batches[Due].reference)
     /\ \A o \in st.batches[Due].frozen : o.remaining >= MinQuantity
     /\ \A o \in st.book : Available(ReleaseBonds(st, st.batches[Due].bonds), o.account) >= 0)
    => Settles
=============================================================================
