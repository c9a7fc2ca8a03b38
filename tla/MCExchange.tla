------------------------------ MODULE MCExchange ------------------------------
(***************************************************************************)
(* Instances of Exchange.  Prices are multiples of 3000 and rates hundredths*)
(* so that every division the runs meet is exact.                          *)
(***************************************************************************)
EXTENDS Exchange

Intent(client, side, price, tif, quantity, leverage, reduceOnly) ==
    [client |-> client, side |-> side, market |-> FALSE, price |-> price, tif |-> tif,
     quantity |-> quantity, leverage |-> leverage, reduceOnly |-> reduceOnly]

MarketIntent(client, side, tif, quantity, leverage, reduceOnly) ==
    [Intent(client, side, NoPrice, tif, quantity, leverage, reduceOnly) EXCEPT !.market = TRUE]

MCBalances == (1 :> 4500) @@ (2 :> 9000) @@ (3 :> 24500)

\* Trading: account 1 takes risk, 2 trades against it, 3 makes the market.
TradingIntents ==
    (1 :> {Intent(1, Buy, 15000, "Gtc", 2, 10, FALSE),
           Intent(2, Sell, 18000, "Gtc", 1, 10, TRUE),
           Intent(3, Sell, 15000, "Gtc", 2, 10, FALSE),
           MarketIntent(4, Sell, "Ioc", 1, 1, TRUE)}) @@
    (2 :> {Intent(1, Sell, 15000, "Gtc", 2, 10, FALSE),
           Intent(2, Buy, 12000, "Gtc", 1, 10, TRUE),
           Intent(3, Buy, 15000, "Fok", 2, 10, FALSE)}) @@
    (3 :> {Intent(1, Buy, 12000, "Gtc", 2, 1, FALSE),
           Intent(2, Sell, 18000, "Gtc", 1, 1, FALSE)})

\* Private batches: fewer public orders, and private ones of every outcome.
BatchBalances == (1 :> 12000) @@ (2 :> 17000) @@ (3 :> 45000)

BatchIntents ==
    (1 :> {Intent(1, Buy, 15000, "Gtc", 2, 10, FALSE),
           Intent(2, Sell, 18000, "Gtc", 2, 10, TRUE),
           Intent(3, Buy, 12000, "Gtc", 2, 10, FALSE)}) @@
    (2 :> {Intent(1, Sell, 15000, "Gtc", 2, 10, FALSE)}) @@
    (3 :> {Intent(1, Buy, 12000, "Gtc", 2, 1, FALSE)})

Sealed(intent) == [decrypts |-> TRUE, intent |-> intent]
Unreadable(intent) == [decrypts |-> FALSE, intent |-> intent]

BatchPayloads ==
    (1 :> {Sealed(MarketIntent(8, Sell, "Ioc", 1, 1, TRUE)),
           Sealed(Intent(8, Sell, 12000, "Ioc", 1, 10, FALSE))}) @@
    (2 :> {Sealed(Intent(8, Sell, 12000, "Fok", 1, 10, FALSE))}) @@
    (3 :> {Unreadable(MarketIntent(8, Buy, "Ioc", 1, 1, FALSE)),
           Sealed(MarketIntent(8, Buy, "Ioc", 1, 1, FALSE))})

Plan(balances, intents, payloads, rates, credits, bounds) ==
    [balances |-> balances, intents |-> intents, payloads |-> payloads, rates |-> rates,
     credits |-> credits, orders |-> bounds[1], moves |-> bounds[2], height |-> bounds[3]]

NoPayloads == [a \in Accounts |-> {}]

\* Long trading within one block, and short trading around two overlapping
\* batches.
MCPlans ==
    {Plan(MCBalances, TradingIntents, NoPayloads, {1}, {9000}, <<7, 2, 1>>),
     Plan(BatchBalances, BatchIntents, BatchPayloads, {}, {}, <<3, 1, 4>>)}

\* One batch and one move of the price or of funding.
OneBatch == {Plan(BatchBalances, BatchIntents, BatchPayloads, {1}, {}, <<3, 1, 3>>)}
=============================================================================
