----------------------------- MODULE BatchAuction -----------------------------
(***************************************************************************)
(* The uniform-price auction that settles a private batch: clear_batch of  *)
(* batch_auction.rs and its decimal adapter clear_private_batch of         *)
(* private_market.rs, as operators on sets of orders.                      *)
(*                                                                         *)
(* A participant (private_market.rs, BatchParticipant) is a record         *)
(*   [id, private, side, market, price, tif, quantity]                     *)
(* whose price is meaningless for a market order.  An auction order has    *)
(*   [id, side, market, price, fok, quantity]                              *)
(* with prices in ticks; the price of a market order is its protection     *)
(* price.                                                                  *)
(*                                                                         *)
(* The order of ids by allocation_priority (a hash of the beacon and the   *)
(* id) is an argument, prio: an injective function from ids to numbers.    *)
(* Quantities are in lots.  The u64/u128 overflow checks are left out:     *)
(* every value the engine admits is far below them.                        *)
(***************************************************************************)
EXTENDS Domain

CONSTANTS
    RoundFactor,    \* rounds allowed to the FOK search: RoundFactor * orders
    RoundBase       \* + RoundBase; the code has 4 and 8

ASSUME BudgetAssumption == RoundFactor \in Nat /\ RoundBase \in Nat

\* The clearing price of a batch that does not match: Option::None.
NoPrice == 0

TotalQuantity(orders) == MapThenSumSet(LAMBDA o : o.quantity, orders)

\* What got, a function from ids, gives a set of orders in all.
TotalGot(got, orders) == MapThenSumSet(LAMBDA o : got[o.id], orders)

\* got with the values of given, a function from a set of orders.
Give(got, given) ==
    [i \in DOMAIN got |-> IF \E o \in DOMAIN given : o.id = i
                          THEN given[CHOOSE o \in DOMAIN given : o.id = i]
                          ELSE got[i]]

-----------------------------------------------------------------------------
(* Which orders trade at a price, and in which order *)

\* eligible_indices
Eligible(orders, side, price) == {o \in orders : o.side = side /\ Crosses(o, price)}

\* price_group: market orders form one group whatever their protection price.
SameGroup(o1, o2) == o1.market = o2.market /\ (o1.market \/ o1.price = o2.price)

\* economic_priority: market orders come first, then the better limit price.
EconomicallyBefore(o1, o2) ==
    \/ o1.market /\ ~o2.market
    \/ ~o1.market /\ ~o2.market /\ o1.side * (o1.price - o2.price) > 0

-----------------------------------------------------------------------------
(***************************************************************************)
(* Allocation within one side.  acc is [got, left, ok]: the lots given to  *)
(* every id, what is left of the target, and whether every checked step    *)
(* has succeeded.                                                          *)
(***************************************************************************)

(***************************************************************************)
(* allocate_pro_rata: every order its share rounded down, and one lot more *)
(* for the first orders by priority until the lots lost to rounding are    *)
(* distributed; it is an error if one pass does not distribute them all.   *)
(***************************************************************************)
AllocateProRata(acc, ioc, prio) ==
    LET total == TotalQuantity(ioc)
        share(o) == (o.quantity * acc.left) \div total
        remainder == acc.left - MapThenSumSet(share, ioc)
        room == {o \in ioc : share(o) < o.quantity}
        ahead(o) == Cardinality({r \in room : prio[r.id] < prio[o.id]})
        bonus(o) == IF o \in room /\ ahead(o) < remainder THEN 1 ELSE 0
    IN CASE ioc = {} \/ acc.left = 0 -> acc
         [] total <= acc.left ->
              [acc EXCEPT !.got = Give(@, [o \in ioc |-> o.quantity]), !.left = @ - total]
         [] OTHER ->
              [got  |-> Give(acc.got, [o \in ioc |-> share(o) + bonus(o)]),
               left |-> 0,
               ok   |-> acc.ok /\ remainder <= Cardinality(room)]

\* One FOK order of a group that does not fit as a whole.
AllocateFok(acc, o) ==
    IF o.quantity <= acc.left
    THEN [acc EXCEPT !.got[o.id] = o.quantity, !.left = @ - o.quantity]
    ELSE acc

\* A bug: the time in force is forgotten and everybody shares.
FokSharesToo(acc, group, prio) == AllocateProRata(acc, group, prio)

\* allocate_group: everyone if all fit, else FOK orders that fit, then the rest.
AllocateGroup(acc, group, prio) ==
    IF TotalQuantity(group) <= acc.left
    THEN [acc EXCEPT !.got = Give(@, [o \in group |-> o.quantity]),
                     !.left = @ - TotalQuantity(group)]
    ELSE LET fok == {o \in group : o.fok}
             afterFok == FoldInOrder(AllocateFok, acc, fok,
                                     LAMBDA o1, o2 : prio[o1.id] < prio[o2.id])
         IN AllocateProRata(afterFok, group \ fok, prio)

\* allocate_side: the groups in economic priority, until the target is used up.
AllocateSide(eligible, target, prio) ==
    LET groups == {{o2 \in eligible : SameGroup(o1, o2)} : o1 \in eligible}
        step(acc, group) == IF acc.left = 0 THEN acc ELSE AllocateGroup(acc, group, prio)
    IN FoldInOrder(step,
                   [got |-> [i \in {o.id : o \in eligible} |-> 0], left |-> target, ok |-> TRUE],
                   groups,
                   LAMBDA g1, g2 : \E o1 \in g1, o2 \in g2 : EconomicallyBefore(o1, o2))

-----------------------------------------------------------------------------
(* One candidate price *)

\* The allocations of both sides put together; other orders get nothing.
BothSides(orders, buys, sells, b, s) ==
    [got |-> [i \in {o.id : o \in orders} |-> IF i \in DOMAIN b.got THEN b.got[i]
                                             ELSE IF i \in DOMAIN s.got THEN s.got[i] ELSE 0],
     lots |-> Least(TotalGot(b.got, buys), TotalGot(s.got, sells)),
     ok |-> b.ok /\ s.ok]

AllocateBoth(orders, buys, sells, target, prio) ==
    BothSides(orders, buys, sells,
              AllocateSide(buys, target, prio), AllocateSide(sells, target, prio))

NoMatch(orders, price, imbalance) ==
    [price |-> price, matched |-> 0, imbalance |-> imbalance,
     got |-> [i \in {o.id : o \in orders} |-> 0], ok |-> TRUE]

Matched(price, target, imbalance, both) ==
    [price |-> price, matched |-> target, imbalance |-> imbalance, got |-> both.got, ok |-> both.ok]

MatchAt(orders, price, buys, sells, target, imbalance, prio) ==
    Matched(price, target, imbalance, AllocateBoth(orders, buys, sells, target, prio))

\* A bug: a search that runs out of rounds clears nothing.
FallbackMatchesNothing(orders, price, buys, sells, imbalance, prio) ==
    NoMatch(orders, price, imbalance)

\* evaluate_ioc_fallback: without the FOK orders one round is enough.
EvaluateIocFallback(orders, price, buys, sells, imbalance, prio) ==
    LET iocBuys == {o \in buys : ~o.fok}
        iocSells == {o \in sells : ~o.fok}
        target == Least(TotalQuantity(iocBuys), TotalQuantity(iocSells))
    IN IF target = 0 THEN NoMatch(orders, price, imbalance)
       ELSE MatchAt(orders, price, iocBuys, iocSells, target, imbalance, prio)

\* The search ran out of rounds.
Exhausted == -1

\* The first target of the search that a round reproduces, 0, or Exhausted.
SearchTarget(orders, buys, sells, start, prio) ==
    LET search[rounds \in Nat, target \in 0 .. start] ==
            LET go(next) == IF next \in {0, target} THEN next ELSE search[rounds - 1, next]
            IN IF rounds = 0 THEN Exhausted
               ELSE go(AllocateBoth(orders, buys, sells, target, prio).lots)
    IN IF start = 0 THEN 0 ELSE search[RoundFactor * Cardinality(orders) + RoundBase, start]

OutcomeFor(found, orders, price, buys, sells, imbalance, prio) ==
    CASE found = Exhausted -> EvaluateIocFallback(orders, price, buys, sells, imbalance, prio)
      [] found = 0 -> NoMatch(orders, price, imbalance)
      [] OTHER -> MatchAt(orders, price, buys, sells, found, imbalance, prio)

(***************************************************************************)
(* evaluate_candidate.  FOK orders that do not fit lower the target, and a *)
(* lower target changes which ones fit: the search repeats until a round   *)
(* reproduces its target, for a bounded number of rounds.                  *)
(***************************************************************************)
EvaluateCandidate(orders, price, prio) ==
    LET buys == Eligible(orders, Buy, price)
        sells == Eligible(orders, Sell, price)
        start == Least(TotalQuantity(buys), TotalQuantity(sells))
        imbalance == Abs(TotalQuantity(buys) - TotalQuantity(sells))
    IN OutcomeFor(SearchTarget(orders, buys, sells, start, prio),
                  orders, price, buys, sells, imbalance, prio)

\* CandidateOutcome::is_better_than
IsBetterThan(c1, c2, reference) ==
    LET far(c) == Abs(c.price - reference)
    IN \/ c1.matched > c2.matched
       \/ /\ c1.matched = c2.matched
          /\ \/ c1.imbalance < c2.imbalance
             \/ c1.imbalance = c2.imbalance /\ far(c1) < far(c2)
             \/ c1.imbalance = c2.imbalance /\ far(c1) = far(c2) /\ c1.price < c2.price

\* The prices clear_batch tries.
Candidates(orders, reference) == {reference} \cup {o.price : o \in {o \in orders : ~o.market}}

KeepBest(best, c, reference) ==
    LET better == c.matched > 0 /\ (best.matched = 0 \/ IsBetterThan(c, best, reference))
    IN [(IF better THEN c ELSE best) EXCEPT !.ok = best.ok /\ c.ok]

\* clear_batch: the prices in ascending order, the best match so far kept; an
\* error in one candidate fails the whole batch.
ClearBatch(orders, reference, prio) ==
    LET none == NoMatch(orders, NoPrice, 0)
    IN FoldInOrder(LAMBDA best, price : KeepBest(best, EvaluateCandidate(orders, price, prio), reference),
                   none, Candidates(orders, reference), LAMBDA p, q : p < q)

-----------------------------------------------------------------------------
(* The adapter of private_market.rs *)

\* A bug: both protection prices are rounded down.
ProtectionRoundedDown(reference, side) ==
    (reference * (RateUnit + side * SlippageLimit)) \div RateUnit

\* market_protection_price: rounded towards the reference price on both sides.
MarketProtectionPrice(reference, side) ==
    LET scaled == reference * (RateUnit + side * SlippageLimit)
    IN IF side = Buy THEN scaled \div RateUnit
       ELSE (scaled + RateUnit - 1) \div RateUnit

\* What to_auction_order accepts (leverage and limit prices were validated when
\* the order was admitted).
Admissible(p) ==
    /\ p.quantity >= MinQuantity
    /\ ~p.market => Aligned(p.price)
    /\ p.private => p.tif # "Gtc"

\* to_auction_order: a resting public order takes part as IOC.
ToAuctionOrder(p, reference) ==
    [id |-> p.id, side |-> p.side, market |-> p.market, fok |-> p.tif = "Fok",
     quantity |-> p.quantity,
     price |-> IF p.market THEN MarketProtectionPrice(reference, p.side)
               ELSE p.price \div TickSize]

\* The loop of pair_fills: the first open buy against the first open sell.
PairStep(acc) ==
    LET b == Head(acc.buys)
        s == Head(acc.sells)
        lots == Least(b.lots, s.lots)
        rest(q) == IF q[1].lots = lots THEN Tail(q) ELSE [q EXCEPT ![1].lots = @ - lots]
    IN [buys |-> rest(acc.buys), sells |-> rest(acc.sells),
        fills |-> Append(acc.fills, [buy |-> b.id, sell |-> s.id, lots |-> lots])]

\* A bug: the longer order's rest is forgotten with the shorter one.
PairOnePerOrder(orders, got) ==
    LET queue(side) == FoldInOrder(LAMBDA q, o : Append(q, [id |-> o.id, lots |-> got[o.id]]),
                                   <<>>, {o \in orders : o.side = side /\ got[o.id] > 0},
                                   LAMBDA o1, o2 : o1.id < o2.id)
        b == queue(Buy)
        s == queue(Sell)
        n == Least(Len(b), Len(s))
    IN [buys |-> <<>>, sells |-> <<>>,
        fills |-> [k \in 1 .. n |-> [buy |-> b[k].id, sell |-> s[k].id,
                                     lots |-> Least(b[k].lots, s[k].lots)]]]

\* pair_fills: buys and sells in the order of their ids.
PairFills(orders, got) ==
    LET queue(side) == FoldInOrder(LAMBDA q, o : Append(q, [id |-> o.id, lots |-> got[o.id]]),
                                   <<>>, {o \in orders : o.side = side /\ got[o.id] > 0},
                                   LAMBDA o1, o2 : o1.id < o2.id)
        pair[n \in 0 .. Cardinality(orders)] ==
            IF n = 0 THEN [buys |-> queue(Buy), sells |-> queue(Sell), fills |-> <<>>]
            ELSE LET acc == pair[n - 1]
                 IN IF acc.buys = <<>> \/ acc.sells = <<>> THEN acc ELSE PairStep(acc)
    IN pair[Cardinality(orders)]

\* The adapter's own checks of the auction's result: FokNotAtomic,
\* AllocationConservation and FillConservation.
Consistent(orders, c, paired) ==
    /\ \A o \in orders : o.fok => c.got[o.id] \in {0, o.quantity}
    /\ \A side \in {Buy, Sell} : TotalGot(c.got, {o \in orders : o.side = side}) = c.matched
    /\ paired.buys = <<>> /\ paired.sells = <<>>

PrivateOutcome(orders, c, paired) ==
    IF c.ok /\ Consistent(orders, c, paired)
    THEN [ok |-> TRUE, price |-> c.price * TickSize, matched |-> c.matched,
          imbalance |-> c.imbalance, got |-> c.got, fills |-> paired.fills]
    ELSE [ok |-> FALSE]

PairOutcome(orders, c) == PrivateOutcome(orders, c, PairFills(orders, c.got))

\* clear_private_batch: [ok |-> FALSE] for any error, else the outcome.
ClearPrivateBatch(participants, reference, prio) ==
    LET ticks == reference \div TickSize
        orders == {ToAuctionOrder(p, ticks) : p \in participants}
    IN IF Aligned(reference) /\ \A p \in participants : Admissible(p)
       THEN PairOutcome(orders, ClearBatch(orders, ticks, prio)) ELSE [ok |-> FALSE]
=============================================================================
