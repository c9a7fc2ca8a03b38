-------------------------------- MODULE Domain --------------------------------
(***************************************************************************)
(* What the modules of the exchange share: sides, the market's steps and   *)
(* rates (MarketConfig of domain.rs) and ordered folds over sets.  Prices  *)
(* and amounts are integers in one unit, rates integers over RateUnit,     *)
(* quantities integers in lots (quantity_step).                            *)
(***************************************************************************)
EXTENDS Integers, Sequences, FiniteSets, FiniteSetsExt, SequencesExt

CONSTANTS
    TickSize,       \* tick_size, in price units
    MinQuantity,    \* min_quantity, in lots
    RateUnit,
    SlippageLimit   \* market_slippage_limit

ASSUME MarketAssumption ==
    /\ TickSize \in Nat \ {0} /\ MinQuantity \in Nat \ {0}
    /\ RateUnit \in Nat \ {0} /\ SlippageLimit \in 0 .. RateUnit - 1

\* Side::sign: a signed comparison then serves both sides.
Buy == 1
Sell == -1

Abs(x) == IF x < 0 THEN -x ELSE x
Sign(x) == IF x > 0 THEN 1 ELSE IF x < 0 THEN -1 ELSE 0
Least(x, y) == IF x <= y THEN x ELSE y

\* crosses: o may trade at a price no worse than its own.
Crosses(o, price) == o.side * (o.price - price) >= 0

\* Exact multiples of the tick, the only prices decimal_to_units converts.
Aligned(price) == price % TickSize = 0

\* Folds op over the elements of S, from the one before all others on.
FoldInOrder(op(_, _), base, S, before(_, _)) ==
    MapThenFoldSet(LAMBDA x, acc : op(acc, x), base, LAMBDA x : x,
                   LAMBDA R : CHOOSE x \in R : \A y \in R \ {x} : before(y, x), S)
=============================================================================
