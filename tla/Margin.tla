-------------------------------- MODULE Margin --------------------------------
(***************************************************************************)
(* The arithmetic of positions and margin: account.rs and the reservation  *)
(* formulas of engine.rs.  A position is [quantity, entry, margin,         *)
(* fundingIndex] with a signed quantity; an account is [collateral,        *)
(* reserved, position].  Decimal division is modelled by integer division; *)
(* the instances use prices for which it is exact.                         *)
(***************************************************************************)
EXTENDS Domain

CONSTANTS
    TakerFeeRate,             \* taker_fee_rate
    MakerFeeRate,             \* maker_fee_rate
    MaintenanceMarginRatio,   \* maintenance_margin_ratio
    LiquidationPenaltyRate    \* liquidation_penalty_rate

ASSUME RatesAssumption ==
    /\ TakerFeeRate \in 0 .. RateUnit /\ MakerFeeRate \in 0 .. RateUnit
    /\ MaintenanceMarginRatio \in 0 .. RateUnit /\ LiquidationPenaltyRate \in 0 .. RateUnit

Flat == [quantity |-> 0, entry |-> 0, margin |-> 0, fundingIndex |-> 0]

Portion(amount, rate) == (amount * rate) \div RateUnit

(***************************************************************************)
(* Position::apply_fill: a fill in the direction of the position averages  *)
(* the entry price; one against it releases margin in proportion, and      *)
(* beyond it opens a position the other way at the fill's price.           *)
(***************************************************************************)
ApplyFill(p, side, quantity, price, leverage) ==
    LET held == Abs(p.quantity)
        next == p.quantity + side * quantity
    IN CASE p.quantity = 0 \/ Sign(p.quantity) = side ->
              [p EXCEPT !.quantity = next, !.margin = @ + (quantity * price) \div leverage,
                        !.entry = (held * p.entry + quantity * price) \div (held + quantity)]
         [] next = 0 -> [p EXCEPT !.quantity = 0, !.entry = 0, !.margin = 0]
         [] Sign(next) = side ->
              [p EXCEPT !.quantity = next, !.entry = price,
                        !.margin = (Abs(next) * price) \div leverage]
         [] OTHER -> [p EXCEPT !.quantity = next, !.margin = @ - (@ * quantity) \div held]

\* PositionUpdate::realized_pnl
RealizedPnl(p, side, quantity, price) ==
    IF p.quantity = 0 \/ Sign(p.quantity) = side THEN 0
    ELSE Least(Abs(p.quantity), quantity) * (price - p.entry) * Sign(p.quantity)

-----------------------------------------------------------------------------
(* Account::risk_snapshot, at a mark price and a market funding index *)

PendingFunding(acct, index) == acct.position.quantity * (index - acct.position.fundingIndex)

Equity(acct, mark, index) ==
    acct.collateral + acct.position.quantity * (mark - acct.position.entry)
    - PendingFunding(acct, index)

MaintenanceRequirement(acct, mark) ==
    Portion(Abs(acct.position.quantity) * mark, MaintenanceMarginRatio)

AvailableMargin(acct, mark, index) ==
    Equity(acct, mark, index) - acct.position.margin - acct.reserved

LiquidationRisk(acct, mark, index) ==
    /\ Equity(acct, mark, index) <= MaintenanceRequirement(acct, mark)
    /\ acct.position.margin > 0

-----------------------------------------------------------------------------
(* Price bands and reservations *)

\* mark_price_band
LowerBand(mark) == Portion(mark, RateUnit - SlippageLimit)
UpperBand(mark) == Portion(mark, RateUnit + SlippageLimit)

InBand(price, mark) == LowerBand(mark) <= price /\ price <= UpperBand(mark)

\* The mark price within the band that makes a fill of this side worst.
WorstMark(side, mark) == IF side = Buy THEN LowerBand(mark) ELSE UpperBand(mark)

\* A bug: no order reserves an opening margin.
WithoutOpeningMargin(side, quantity, limit, leverage, reduceOnly, mark) ==
    LET adverse == side * (limit - mark)
    IN Portion(quantity * limit, TakerFeeRate) + (IF adverse > 0 THEN quantity * adverse ELSE 0)

(***************************************************************************)
(* required_order_reservation: opening margin, the taker fee, and what a   *)
(* fill at the limit price would lose against the mark price.              *)
(***************************************************************************)
RequiredReservation(side, quantity, limit, leverage, reduceOnly, mark) ==
    LET opening == IF reduceOnly THEN 0 ELSE (quantity * limit) \div leverage
        adverse == side * (limit - mark)
    IN opening + Portion(quantity * limit, TakerFeeRate)
       + (IF adverse > 0 THEN quantity * adverse ELSE 0)
=============================================================================
