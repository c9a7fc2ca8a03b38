---------------------------- MODULE GatewayProofs ----------------------------
(***************************************************************************)
(* What holds of the way of a transaction into a block for every set of    *)
(* nodes and transactions: what a client is told is true where it asked,   *)
(* and what a mempool holds the next block can execute.                    *)
(***************************************************************************)
EXTENDS Gateway, WellFoundedInduction, TLAPS

(***************************************************************************)
(* Induction over the naturals, for sets.                                  *)
(***************************************************************************)

LEMMA Induction ==
  ASSUME NEW S, 0 \in S, \A i \in Nat : i \in S => i + 1 \in S
  PROVE  Nat \subseteq S
<1> DEFINE R == OpToRel(<, Nat)
<1> SUFFICES ASSUME Nat \ S # {} PROVE FALSE OBVIOUS
<1>1. IsWellFoundedOn(R, Nat) BY NatLessThanWellFounded
<1>2. \A i, j \in Nat : i < j => <<i, j>> \in R BY DEF OpToRel
<1> HIDE DEF R
<1>3. PICK m \in Nat \ S : \A i \in Nat \ S : ~(<<i, m>> \in R) BY <1>1, WFMin
<1>4. m # 0 /\ m - 1 \in Nat /\ m - 1 < m BY <1>3
<1>5. m - 1 \in S BY <1>2, <1>3, <1>4
<1> QED BY <1>3, <1>4, <1>5

(***************************************************************************)
(* The two folds, as recursive functions.                                  *)
(***************************************************************************)

\* What prepare_proposal has after i of the transactions it is offered.
ScratchStep(s, offered, f, i) ==
    IF i = 0 THEN s
    ELSE IF Applies(f[i - 1], offered[i], s.height + 1)
         THEN execute_verified_transaction(f[i - 1], offered[i])
         ELSE f[i - 1]

LEMMA ScratchExists ==
  ASSUME NEW s, NEW offered, Len(offered) \in Nat
  PROVE  \E f : /\ f = [i \in 0 .. Len(offered) |-> ScratchStep(s, offered, f, i)]
                /\ prepare_proposal(s, offered) = f[Len(offered)]
<1> DEFINE S == {n \in Nat : \E f : f = [i \in 0 .. n |-> ScratchStep(s, offered, f, i)]}
<1>1. 0 \in S
  <2> DEFINE f == [i \in 0 .. 0 |-> s]
  <2>1. f = [i \in 0 .. 0 |-> ScratchStep(s, offered, f, i)] BY DEF ScratchStep
  <2> QED BY <2>1
<1>2. ASSUME NEW n \in Nat, n \in S PROVE n + 1 \in S
  <2>1. PICK f : f = [i \in 0 .. n |-> ScratchStep(s, offered, f, i)] BY <1>2
  <2> DEFINE g == [i \in 0 .. n + 1 |->
                     IF i = n + 1 THEN ScratchStep(s, offered, f, n + 1) ELSE f[i]]
  <2>2. ASSUME NEW i \in 0 .. n + 1 PROVE g[i] = ScratchStep(s, offered, g, i)
    <3>1. CASE i = n + 1 BY <3>1 DEF ScratchStep
    <3>2. CASE i # n + 1
      <4>1. i \in 0 .. n /\ g[i] = f[i] BY <3>2
      <4>2. f[i] = ScratchStep(s, offered, f, i) BY <2>1, <4>1
      <4>3. i # 0 => i - 1 \in 0 .. n /\ g[i - 1] = f[i - 1] BY <4>1
      <4> QED BY <4>1, <4>2, <4>3 DEF ScratchStep
    <3> QED BY <3>1, <3>2
  <2>3. g = [i \in 0 .. n + 1 |-> ScratchStep(s, offered, g, i)]
    <3>1. g = [i \in 0 .. n + 1 |-> g[i]] OBVIOUS
    <3> HIDE DEF g
    <3> QED BY <2>2, <3>1
  <2> HIDE DEF g
  <2> QED BY <2>3
<1> HIDE DEF S
<1>3. Len(offered) \in S BY <1>1, <1>2, Induction
<1> DEFINE F == CHOOSE f : f = [i \in 0 .. Len(offered) |-> ScratchStep(s, offered, f, i)]
<1>4. F = [i \in 0 .. Len(offered) |-> ScratchStep(s, offered, F, i)] BY <1>3 DEF S
<1>5. prepare_proposal(s, offered) = F[Len(offered)] BY DEF prepare_proposal, ScratchStep
<1> QED BY <1>4, <1>5

\* A proposal executes some of what it is offered and takes nothing back.
LEMMA ProposalExtends ==
  ASSUME NEW s \in [height : Nat, executed : SUBSET Txs], NEW offered \in Seq(Txs)
  PROVE  /\ prepare_proposal(s, offered) \in [height : Nat, executed : SUBSET Txs]
         /\ s.executed \subseteq prepare_proposal(s, offered).executed
<1>0. Len(offered) \in Nat OBVIOUS
<1>1. PICK f : /\ f = [i \in 0 .. Len(offered) |-> ScratchStep(s, offered, f, i)]
               /\ prepare_proposal(s, offered) = f[Len(offered)]
  BY <1>0, ScratchExists
<1> DEFINE Good(i) == i \in 0 .. Len(offered) =>
                         /\ f[i] \in [height : Nat, executed : SUBSET Txs]
                         /\ s.executed \subseteq f[i].executed
           S == {i \in Nat : Good(i)}
<1>2. 0 \in S BY <1>0, <1>1 DEF ScratchStep
<1>3. ASSUME NEW i \in Nat, i \in S PROVE i + 1 \in S
  <2> SUFFICES ASSUME i + 1 \in 0 .. Len(offered) PROVE Good(i + 1) OBVIOUS
  <2>1. i \in 0 .. Len(offered) /\ i + 1 # 0 /\ (i + 1) - 1 = i BY <1>0
  <2>2. f[i + 1] = ScratchStep(s, offered, f, i + 1) BY <1>1
  <2>3. f[i] \in [height : Nat, executed : SUBSET Txs] /\ s.executed \subseteq f[i].executed
    BY <1>3, <2>1
  <2>4. offered[i + 1] \in Txs BY <1>0, <2>1
  <2>5. f[i + 1] = f[i] \/ f[i + 1] = execute_verified_transaction(f[i], offered[i + 1])
    BY <2>1, <2>2 DEF ScratchStep
  <2> QED BY <2>3, <2>4, <2>5 DEF execute_verified_transaction
<1> HIDE DEF Good
<1>4. Len(offered) \in S BY <1>0, <1>2, <1>3, Induction
<1> QED BY <1>0, <1>1, <1>4 DEF Good

\* What the recheck has after i of the transactions that are left.
Unchecked == [pool |-> <<>>, reserved |-> NoReservations]

Passes(s, txs, f, i) ==
    txs[i] \notin s.executed /\ check_tx(s, f[i - 1].reserved, txs[i])

RecheckStep(s, txs, f, i) ==
    IF i = 0 THEN Unchecked
    ELSE IF Passes(s, txs, f, i)
         THEN [pool |-> Append(f[i - 1].pool, txs[i]),
               reserved |-> [f[i - 1].reserved EXCEPT ![txs[i].signer] = txs[i]]]
         ELSE f[i - 1]

LEMMA RecheckExists ==
  ASSUME NEW s, NEW txs, Len(txs) \in Nat
  PROVE  \E f : /\ f = [i \in 0 .. Len(txs) |-> RecheckStep(s, txs, f, i)]
                /\ Recheck(s, txs) = f[Len(txs)]
<1> DEFINE S == {n \in Nat : \E f : f = [i \in 0 .. n |-> RecheckStep(s, txs, f, i)]}
<1>1. 0 \in S
  <2> DEFINE f == [i \in 0 .. 0 |-> Unchecked]
  <2>1. f = [i \in 0 .. 0 |-> RecheckStep(s, txs, f, i)] BY DEF RecheckStep
  <2> QED BY <2>1
<1>2. ASSUME NEW n \in Nat, n \in S PROVE n + 1 \in S
  <2>1. PICK f : f = [i \in 0 .. n |-> RecheckStep(s, txs, f, i)] BY <1>2
  <2> DEFINE g == [i \in 0 .. n + 1 |->
                     IF i = n + 1 THEN RecheckStep(s, txs, f, n + 1) ELSE f[i]]
  <2>2. ASSUME NEW i \in 0 .. n + 1 PROVE g[i] = RecheckStep(s, txs, g, i)
    <3>1. CASE i = n + 1
      <4>1. g[i] = RecheckStep(s, txs, f, n + 1) /\ g[n] = f[n] BY <3>1
      <4>2. i - 1 = n /\ i # 0 BY <3>1
      <4> HIDE DEF g
      <4> QED BY <3>1, <4>1, <4>2 DEF RecheckStep, Passes
    <3>2. CASE i # n + 1
      <4>1. i \in 0 .. n /\ g[i] = f[i] BY <3>2
      <4>2. f[i] = RecheckStep(s, txs, f, i) BY <2>1, <4>1
      <4>3. i # 0 => i - 1 \in 0 .. n /\ g[i - 1] = f[i - 1] BY <4>1
      <4> QED BY <4>1, <4>2, <4>3 DEF RecheckStep, Passes
    <3> QED BY <3>1, <3>2
  <2>3. g = [i \in 0 .. n + 1 |-> RecheckStep(s, txs, g, i)]
    <3>1. g = [i \in 0 .. n + 1 |-> g[i]] OBVIOUS
    <3> HIDE DEF g
    <3> QED BY <2>2, <3>1
  <2> HIDE DEF g
  <2> QED BY <2>3
<1> HIDE DEF S
<1>3. Len(txs) \in S BY <1>1, <1>2, Induction
<1> DEFINE F == CHOOSE f : f = [i \in 0 .. Len(txs) |-> RecheckStep(s, txs, f, i)]
<1>4. F = [i \in 0 .. Len(txs) |-> RecheckStep(s, txs, F, i)] BY <1>3 DEF S
<1>5. Recheck(s, txs) = F[Len(txs)] BY DEF Recheck, RecheckStep, Unchecked, Passes
<1> QED BY <1>4, <1>5

Reservations == {r \in [Signers -> Txs \cup {None}] :
                    \A signer \in Signers : r[signer] \in {None} \cup {tx \in Txs : tx.signer = signer}}

\* Every transaction of the pool holds its signer's reservation.
Held(pool, reserved) == \A j \in DOMAIN pool : reserved[pool[j].signer] = pool[j]

\* No two transactions of one signer.
Apart(pool) == \A i, j \in DOMAIN pool : i # j => pool[i].signer # pool[j].signer

\* The next block on s can execute every transaction of the pool by itself.
Executable(s, pool) == \A j \in DOMAIN pool : Applies(s, pool[j], s.height + 1)

\* No reservation is for a nonce other than the next one on s.
Current(s, reserved) ==
    \A signer \in Signers : reserved[signer] # None =>
        reserved[signer].nonce = ExpectedNonce(s, signer)

LEMMA SignerOf == \A tx \in Txs : tx.signer \in Signers
BY DEF Signers

\* CheckTx accepts tx on top of a pool that is as it should be.
LEMMA Admits ==
  ASSUME NEW s, NEW pool \in Seq(Txs), NEW reserved \in Reservations,
         Held(pool, reserved), Apart(pool), Executable(s, pool), Current(s, reserved),
         NEW tx \in Txs, check_tx(s, reserved, tx),
         \A j \in DOMAIN pool : pool[j] # tx
  PROVE  LET r == [reserved EXCEPT ![tx.signer] = tx]
             q == Append(pool, tx)
         IN  /\ r \in Reservations /\ q \in Seq(Txs) /\ Len(q) = Len(pool) + 1
             /\ Held(pool, r) /\ Held(q, r) /\ Apart(q) /\ Executable(s, q)
             /\ Current(s, r)
<1> DEFINE r == [reserved EXCEPT ![tx.signer] = tx]
           q == Append(pool, tx)
<1>1. tx.signer \in Signers BY SignerOf
<1>2. reserved[tx.signer] \in {None, tx} BY DEF check_tx, Conflicts
<1>3. \A j \in DOMAIN pool : pool[j] \in Txs /\ pool[j] # None /\ pool[j].signer \in Signers
  BY SignerOf, GatewayAssumption
<1>4. \A j \in DOMAIN pool : pool[j].signer # tx.signer BY <1>2, <1>3 DEF Held
<1>5. /\ q \in Seq(Txs) /\ Len(q) = Len(pool) + 1
      /\ \A j \in DOMAIN q : IF j = Len(pool) + 1 THEN q[j] = tx
                             ELSE j \in DOMAIN pool /\ q[j] = pool[j]
  OBVIOUS
<1>6. r \in [Signers -> Txs \cup {None}] BY <1>1 DEF Reservations
<1>7. \A signer \in Signers : r[signer] = IF signer = tx.signer THEN tx ELSE reserved[signer]
  BY <1>1 DEF Reservations
<1> HIDE DEF r, q
<1>8. r \in Reservations BY <1>6, <1>7 DEF Reservations
<1>9. Held(pool, r) BY <1>3, <1>4, <1>7 DEF Held
<1>10. Held(q, r) BY <1>1, <1>3, <1>5, <1>7, <1>9 DEF Held
<1>11. Apart(q)
  <2> SUFFICES ASSUME NEW i \in DOMAIN q, NEW j \in DOMAIN q, i # j
               PROVE  q[i].signer # q[j].signer
    BY DEF Apart
  <2>1. CASE i = Len(pool) + 1 BY <1>4, <1>5, <2>1
  <2>2. CASE j = Len(pool) + 1 BY <1>4, <1>5, <2>2
  <2>3. CASE i # Len(pool) + 1 /\ j # Len(pool) + 1 BY <1>5, <2>3 DEF Apart
  <2> QED BY <2>1, <2>2, <2>3
<1>12. Executable(s, q) BY <1>5 DEF Executable, check_tx
<1>13. Current(s, r)
  <2>1. tx.nonce = ExpectedNonce(s, tx.signer)
    BY DEF check_tx, Applies, validate_transaction_state
  <2> QED BY <1>7, <2>1 DEF Current
<1> QED BY <1>5, <1>8, <1>9, <1>10, <1>11, <1>12, <1>13 DEF r, q

\* What a recheck leaves.
LEMMA RecheckFacts ==
  ASSUME NEW s, NEW txs \in Seq(Txs), Apart(txs)
  PROVE  LET c == Recheck(s, txs)
         IN  /\ c.pool \in Seq(Txs) /\ Len(c.pool) <= Len(txs)
             /\ c.reserved \in Reservations
             /\ Held(c.pool, c.reserved) /\ Apart(c.pool) /\ Executable(s, c.pool)
             /\ Current(s, c.reserved)
<1>0. Len(txs) \in Nat OBVIOUS
<1>1. PICK f : /\ f = [i \in 0 .. Len(txs) |-> RecheckStep(s, txs, f, i)]
               /\ Recheck(s, txs) = f[Len(txs)]
  BY <1>0, RecheckExists
<1> DEFINE Sound1(c, i) == /\ c.pool \in Seq(Txs) /\ Len(c.pool) <= i
                           /\ c.reserved \in Reservations
                           /\ \A j \in DOMAIN c.pool : \E k \in 1 .. i : c.pool[j] = txs[k]
           Sound2(c) == /\ Held(c.pool, c.reserved) /\ Apart(c.pool)
                        /\ Executable(s, c.pool) /\ Current(s, c.reserved)
           Good(i) == i \in 0 .. Len(txs) => Sound1(f[i], i) /\ Sound2(f[i])
           S == {i \in Nat : Good(i)}
<1>2. 0 \in S
  <2>1. f[0] = Unchecked BY <1>0, <1>1 DEF RecheckStep
  <2>2. NoReservations \in Reservations BY DEF NoReservations, Reservations
  <2>3. /\ Unchecked.pool = <<>> /\ Unchecked.reserved = NoReservations
    BY DEF Unchecked
  <2>4. Sound1(f[0], 0) BY <2>1, <2>2, <2>3
  <2>5. Sound2(f[0])
    BY <2>1, <2>3 DEF Held, Apart, Executable, Current, NoReservations
  <2> QED BY <2>4, <2>5
<1>3. ASSUME NEW i \in Nat, i \in S PROVE i + 1 \in S
  <2> SUFFICES ASSUME i + 1 \in 0 .. Len(txs) PROVE Sound1(f[i + 1], i + 1) /\ Sound2(f[i + 1])
    OBVIOUS
  <2> DEFINE c == f[i]
             tx == txs[i + 1]
  <2>1. i \in 0 .. Len(txs) /\ i + 1 # 0 /\ (i + 1) - 1 = i BY <1>0
  <2>2. Sound1(c, i) /\ Sound2(c) BY <1>3, <2>1
  <2>3. tx \in Txs BY <1>0, <2>1
  <2>4. f[i + 1] = IF Passes(s, txs, f, i + 1)
                   THEN [pool |-> Append(c.pool, tx),
                         reserved |-> [c.reserved EXCEPT ![tx.signer] = tx]]
                   ELSE c
    BY <1>1, <2>1 DEF RecheckStep
  <2>5. CASE ~Passes(s, txs, f, i + 1)
    <3>1. f[i + 1] = c BY <2>4, <2>5
    <3>2. Sound1(c, i + 1) BY <2>2
    <3> QED BY <2>2, <3>1, <3>2
  <2>6. CASE Passes(s, txs, f, i + 1)
    <3> DEFINE q == Append(c.pool, tx)
               r == [c.reserved EXCEPT ![tx.signer] = tx]
    <3>1. f[i + 1].pool = q /\ f[i + 1].reserved = r BY <2>4, <2>6
    <3>2. check_tx(s, c.reserved, tx) BY <2>1, <2>6 DEF Passes
    <3>3. \A j \in DOMAIN c.pool : c.pool[j] # tx
      <4> SUFFICES ASSUME NEW j \in DOMAIN c.pool PROVE c.pool[j] # tx OBVIOUS
      <4>1. PICK k \in 1 .. i : c.pool[j] = txs[k] BY <2>2
      <4>2. k \in DOMAIN txs /\ i + 1 \in DOMAIN txs /\ k # i + 1 BY <1>0, <2>1
      <4>3. txs[k].signer # txs[i + 1].signer BY <4>2 DEF Apart
      <4> QED BY <4>1, <4>3
    <3>4. /\ r \in Reservations /\ q \in Seq(Txs) /\ Len(q) = Len(c.pool) + 1
          /\ Held(q, r) /\ Apart(q) /\ Executable(s, q) /\ Current(s, r)
      <4> HIDE DEF c, tx
      <4> QED BY <2>2, <2>3, <3>2, <3>3, Admits
    <3>5. \A j \in DOMAIN q : \E k \in 1 .. i + 1 : q[j] = txs[k]
      <4> SUFFICES ASSUME NEW j \in DOMAIN q PROVE \E k \in 1 .. i + 1 : q[j] = txs[k] OBVIOUS
      <4>1. CASE j = Len(c.pool) + 1
        <5>1. q[j] = txs[i + 1] BY <2>2, <4>1
        <5> QED BY <5>1
      <4>2. CASE j # Len(c.pool) + 1
        <5>1. j \in DOMAIN c.pool /\ q[j] = c.pool[j] BY <2>2, <4>2
        <5>2. PICK k \in 1 .. i : c.pool[j] = txs[k] BY <2>2, <5>1
        <5>3. k \in 1 .. i + 1 OBVIOUS
        <5> QED BY <5>1, <5>2, <5>3
      <4> QED BY <4>1, <4>2
    <3>6. Len(q) <= i + 1 BY <2>2, <3>4
    <3> HIDE DEF q, r
    <3> QED BY <3>1, <3>4, <3>5, <3>6
  <2> QED BY <2>5, <2>6
<1> HIDE DEF Good
<1>4. Len(txs) \in S BY <1>0, <1>2, <1>3, Induction
<1> QED BY <1>0, <1>1, <1>4 DEF Good

(***************************************************************************)
(* The inductive invariant.                                                *)
(***************************************************************************)

States == [height : Nat, executed : SUBSET Txs]

Typed ==
    /\ latest \in States /\ previous \in States
    /\ latest.height \in 0 .. MaxHeight
    /\ previous.executed \subseteq latest.executed
    /\ behind \subseteq Nodes
    /\ mempool \in [Nodes -> Seq(Txs)]
    /\ reservations \in [Nodes -> Reservations]
    /\ waiting \subseteq Txs \X Nodes
    /\ told \in {None} \cup (Txs \X Nodes)

\* The mempool of n is as it should be: its size is kept, each transaction in
\* it holds its signer's reservation, no signer has two, the next block on what
\* n has committed can execute each, and no reservation is out of date.
PoolOf(n) ==
    /\ Len(mempool[n]) <= MempoolSize[n]
    /\ Held(mempool[n], reservations[n])
    /\ Apart(mempool[n])
    /\ Executable(Committed(n), mempool[n])
    /\ Current(Committed(n), reservations[n])

\* What a gateway told of is in the state it reads from.
Truth == told # None => told[1] \in Committed(told[2]).executed

IInv == Typed /\ Truth /\ \A n \in Nodes : PoolOf(n)

LEMMA InitInvariant == Init => IInv
<1> SUFFICES ASSUME Init PROVE IInv OBVIOUS
<1>1. Genesis \in States /\ Genesis.height \in 0 .. MaxHeight
  BY GatewayAssumption DEF Genesis, States
<1>2. NoReservations \in Reservations BY DEF NoReservations, Reservations
<1>3. mempool \in [Nodes -> Seq(Txs)] BY DEF Init
<1>4. Typed BY <1>1, <1>2, <1>3 DEF Init, Typed
<1>5. \A n \in Nodes : PoolOf(n)
  <2> SUFFICES ASSUME NEW n \in Nodes PROVE PoolOf(n) OBVIOUS
  <2>1. mempool[n] = <<>> BY DEF Init
  <2>2. MempoolSize[n] \in Nat BY GatewayAssumption
  <2>3. Current(Committed(n), reservations[n])
    BY DEF Init, Current, NoReservations
  <2> QED BY <2>1, <2>2, <2>3 DEF PoolOf, Held, Apart, Executable
<1>6. Truth BY DEF Init, Truth
<1> QED BY <1>4, <1>5, <1>6 DEF IInv

\* The states of the chain only grow, and so does what a node has committed.
LEMMA TruthKept ==
  ASSUME IInv, told' = told,
         \A n \in Nodes : Committed(n).executed \subseteq Committed(n)'.executed
  PROVE  Truth'
BY DEF IInv, Typed, Truth

\* CheckTx at n, and the admission that may follow it.
LEMMA CheckTxKeeps ==
  ASSUME IInv, NEW n \in Nodes, NEW tx \in Txs, CheckTx(n, tx),
         tx \notin Range(mempool[n]),
         UNCHANGED <<latest, previous, behind, told>>,
         waiting' \subseteq Txs \X Nodes
  PROVE  IInv'
<1> DEFINE pool == mempool[n]
           r == [reservations[n] EXCEPT ![tx.signer] = tx]
           q == Append(pool, tx)
<1>1. /\ pool \in Seq(Txs) /\ reservations[n] \in Reservations /\ PoolOf(n)
      /\ MempoolSize[n] \in Nat
  BY GatewayAssumption DEF IInv, Typed
<1>2. \A j \in DOMAIN pool : pool[j] # tx BY DEF Range
<1>3. check_tx(Committed(n), reservations[n], tx) BY DEF CheckTx
<1>4. /\ r \in Reservations /\ q \in Seq(Txs) /\ Len(q) = Len(pool) + 1
      /\ Held(pool, r) /\ Held(q, r) /\ Apart(q) /\ Executable(Committed(n), q)
      /\ Current(Committed(n), r)
  <2> HIDE DEF pool
  <2> QED BY <1>1, <1>2, <1>3, Admits DEF PoolOf, pool
<1>5. reservations' = [reservations EXCEPT ![n] = r] BY DEF CheckTx
<1>6. mempool' = IF Len(pool) < MempoolSize[n] THEN [mempool EXCEPT ![n] = q] ELSE mempool
  BY DEF CheckTx
<1>7. \A m \in Nodes : Committed(m)' = Committed(m) BY DEF Committed
<1> HIDE DEF r, q
<1>8. Typed' BY <1>4, <1>5, <1>6 DEF IInv, Typed
<1>9. ASSUME NEW m \in Nodes PROVE PoolOf(m)'
  <2>1. CASE m # n
    <3>1. mempool'[m] = mempool[m] /\ reservations'[m] = reservations[m]
      BY <1>5, <1>6, <2>1 DEF IInv, Typed
    <3>2. PoolOf(m) BY DEF IInv
    <3> QED BY <1>7, <3>1, <3>2 DEF PoolOf
  <2>2. CASE m = n
    <3>1. reservations'[n] = r BY <1>5 DEF IInv, Typed
    <3>2. CASE Len(pool) < MempoolSize[n]
      <4>1. mempool'[n] = q BY <1>6, <3>2 DEF IInv, Typed
      <4>2. Len(q) <= MempoolSize[n] BY <1>1, <1>4, <3>2
      <4> QED BY <1>4, <1>7, <2>2, <3>1, <4>1, <4>2 DEF PoolOf
    <3>3. CASE ~(Len(pool) < MempoolSize[n])
      <4>1. mempool'[n] = pool BY <1>6, <3>3
      <4> QED BY <1>1, <1>4, <1>7, <2>2, <3>1, <4>1 DEF PoolOf
    <3> QED BY <3>2, <3>3
  <2> QED BY <2>1, <2>2
<1>10. Truth' BY <1>7, TruthKept
<1> QED BY <1>8, <1>9, <1>10 DEF IInv

\* A step that leaves chain, mempools and reservations alone.
LEMMA PoolsUntouched ==
  ASSUME IInv, UNCHANGED <<latest, previous, behind, mempool, reservations>>,
         waiting' \subseteq Txs \X Nodes, told' \in {None} \cup (Txs \X Nodes),
         told' = told \/ told'[1] \in Committed(told'[2]).executed
  PROVE  IInv'
<1>1. \A n : Committed(n)' = Committed(n) BY DEF Committed
<1>2. Typed' BY DEF IInv, Typed
<1>3. Truth' BY <1>1 DEF IInv, Truth
<1>4. \A n \in Nodes : PoolOf(n)' BY <1>1 DEF IInv, PoolOf
<1> QED BY <1>2, <1>3, <1>4 DEF IInv

\* An answer that the gateway takes for a success is about a transaction that
\* its node has executed: a refusal never is.
LEMMA SuccessIsTrue ==
  ASSUME NEW tx, NEW n, TakenForSuccess(tx, n)
  PROVE  tx \in Committed(n).executed
<1>1. PICK t \in Txs :
         \E response \in {Delivery(t), Refusal(t)} :
            validate_broadcast_response(tx, response) /\ MayAnswer(n, response)
  BY DEF TakenForSuccess
<1>2. PICK response \in {Delivery(t), Refusal(t)} :
         validate_broadcast_response(tx, response) /\ MayAnswer(n, response)
  BY <1>1
<1>3. response.hash = tx /\ response.check_tx = "ok"
  BY <1>2 DEF validate_broadcast_response
<1>4. response # Refusal(response.hash) BY <1>3 DEF Refusal
<1> QED BY <1>2, <1>3, <1>4 DEF MayAnswer

LEMMA DecideBlockKeeps ==
  ASSUME IInv, NEW n \in Nodes, DecideBlock(n)
  PROVE  IInv'
<1> DEFINE decided == prepare_proposal(latest, mempool[n])
           height == IF latest.height < MaxHeight THEN latest.height + 1 ELSE MaxHeight
<1>1. latest \in States /\ mempool[n] \in Seq(Txs) BY DEF IInv, Typed
<1>2. decided \in States /\ latest.executed \subseteq decided.executed
  BY <1>1, ProposalExtends DEF States
<1>3. /\ behind = {} /\ previous' = latest /\ latest' = [decided EXCEPT !.height = height]
      /\ behind' = Nodes
      /\ UNCHANGED <<mempool, reservations, waiting, told>>
  BY DEF DecideBlock
<1>4. height \in 0 .. MaxHeight BY GatewayAssumption DEF IInv, Typed
<1> HIDE DEF decided, height
<1>5. /\ latest' \in States /\ latest'.height \in 0 .. MaxHeight
      /\ latest.executed \subseteq latest'.executed
  BY <1>2, <1>3, <1>4 DEF States
<1>6. Typed' BY <1>1, <1>3, <1>5 DEF IInv, Typed
<1>7. \A m \in Nodes : Committed(m)' = Committed(m) BY <1>3 DEF Committed
<1>8. \A m \in Nodes : PoolOf(m)' BY <1>3, <1>7 DEF IInv, PoolOf
<1>9. Truth' BY <1>3, <1>7, TruthKept
<1> QED BY <1>6, <1>8, <1>9 DEF IInv

LEMMA CommitKeeps ==
  ASSUME IInv, NEW n \in Nodes, Commit(n)
  PROVE  IInv'
<1> DEFINE c == Recheck(latest, mempool[n])
<1>1. mempool[n] \in Seq(Txs) /\ PoolOf(n) /\ MempoolSize[n] \in Nat
  BY GatewayAssumption DEF IInv, Typed
<1>2. /\ c.pool \in Seq(Txs) /\ Len(c.pool) <= Len(mempool[n])
      /\ c.reserved \in Reservations
      /\ Held(c.pool, c.reserved) /\ Apart(c.pool) /\ Executable(latest, c.pool)
      /\ Current(latest, c.reserved)
  BY <1>1, RecheckFacts DEF PoolOf
<1>3. /\ behind' = behind \ {n}
      /\ reservations' = [reservations EXCEPT ![n] = c.reserved]
      /\ mempool' = [mempool EXCEPT ![n] = c.pool]
      /\ UNCHANGED <<latest, previous, waiting, told>>
  BY DEF Commit
<1> HIDE DEF c
<1>4. Typed' BY <1>2, <1>3 DEF IInv, Typed
<1>5. ASSUME NEW m \in Nodes PROVE PoolOf(m)'
  <2>1. CASE m # n
    <3>1. mempool'[m] = mempool[m] /\ reservations'[m] = reservations[m]
      BY <1>3, <2>1 DEF IInv, Typed
    <3>2. Committed(m)' = Committed(m) BY <1>3, <2>1 DEF Committed
    <3>3. PoolOf(m) BY DEF IInv
    <3> QED BY <3>1, <3>2, <3>3 DEF PoolOf
  <2>2. CASE m = n
    <3>1. mempool'[n] = c.pool /\ reservations'[n] = c.reserved
      BY <1>3 DEF IInv, Typed
    <3>2. Committed(n)' = latest BY <1>3 DEF Committed
    <3>3. Len(c.pool) <= MempoolSize[n] BY <1>1, <1>2 DEF PoolOf
    <3> QED BY <1>2, <2>2, <3>1, <3>2, <3>3 DEF PoolOf
  <2> QED BY <2>1, <2>2
<1>6. Truth'
  <2>1. ASSUME NEW m \in Nodes
        PROVE  Committed(m).executed \subseteq Committed(m)'.executed
    <3>1. Committed(m)' = Committed(m) \/ Committed(m)' = latest
      BY <1>3 DEF Committed
    <3>2. Committed(m).executed \subseteq latest.executed
      BY DEF Committed, IInv, Typed
    <3> QED BY <3>1, <3>2
  <2> QED BY <1>3, <2>1, TruthKept
<1> QED BY <1>4, <1>5, <1>6 DEF IInv

LEMMA CrashKeeps ==
  ASSUME IInv, NEW n \in Nodes, Crash(n)
  PROVE  IInv'
<1>1. /\ mempool' = [mempool EXCEPT ![n] = <<>>]
      /\ reservations' = [reservations EXCEPT ![n] = NoReservations]
      /\ waiting' \subseteq waiting
      /\ UNCHANGED <<latest, previous, behind, told>>
  BY DEF Crash
<1>2. NoReservations \in Reservations BY DEF NoReservations, Reservations
<1>3. Typed' BY <1>1, <1>2 DEF IInv, Typed
<1>4. \A m \in Nodes : Committed(m)' = Committed(m) BY <1>1 DEF Committed
<1>5. ASSUME NEW m \in Nodes PROVE PoolOf(m)'
  <2>1. CASE m # n
    <3>1. mempool'[m] = mempool[m] /\ reservations'[m] = reservations[m]
      BY <1>1, <2>1 DEF IInv, Typed
    <3>2. PoolOf(m) BY DEF IInv
    <3> QED BY <1>4, <3>1, <3>2 DEF PoolOf
  <2>2. CASE m = n
    <3>1. mempool'[n] = <<>> BY <1>1 DEF IInv, Typed
    <3>2. MempoolSize[n] \in Nat BY GatewayAssumption
    <3>3. reservations'[n] = NoReservations BY <1>1 DEF IInv, Typed
    <3>4. Current(Committed(n)', NoReservations) BY DEF Current, NoReservations
    <3> QED BY <2>2, <3>1, <3>2, <3>3, <3>4 DEF PoolOf, Held, Apart, Executable
  <2> QED BY <2>1, <2>2
<1>6. Truth' BY <1>1, <1>4, TruthKept
<1> QED BY <1>3, <1>5, <1>6 DEF IInv

LEMMA NextInvariant == IInv /\ [Next]_vars => IInv'
<1> SUFFICES ASSUME IInv, [Next]_vars PROVE IInv' OBVIOUS
<1>1. CASE UNCHANGED vars
  <2>1. \A n : Committed(n)' = Committed(n) BY <1>1 DEF vars, Committed
  <2> QED BY <1>1, <2>1 DEF vars, IInv, Typed, Truth, PoolOf
<1>2. ASSUME NEW n \in Nodes, DecideBlock(n) \/ Commit(n) \/ Crash(n) PROVE IInv'
  BY <1>2, DecideBlockKeeps, CommitKeeps, CrashKeeps
<1>3. ASSUME NEW tx \in Txs, NEW n \in Nodes, BroadcastAdmitted(tx, n) PROVE IInv'
  BY <1>3, CheckTxKeeps DEF BroadcastAdmitted, IInv, Typed
<1>4. ASSUME NEW tx \in Txs, NEW n \in Nodes, BroadcastTimeout(tx, n) PROVE IInv'
  BY <1>4, PoolsUntouched DEF BroadcastTimeout, IInv, Typed
<1>5. ASSUME NEW tx \in Txs, NEW n \in Nodes,
             BroadcastRefused(tx, n) \/ BroadcastAnswered(tx, n)
      PROVE  IInv'
  <2>1. TakenForSuccess(tx, n) /\ told' = <<tx, n>>
    BY <1>5 DEF BroadcastRefused, BroadcastAnswered
  <2>2. waiting' \subseteq Txs \X Nodes
    BY <1>5 DEF BroadcastRefused, BroadcastAnswered, IInv, Typed
  <2>3. told' \in Txs \X Nodes /\ told'[1] \in Committed(told'[2]).executed
    BY <2>1, SuccessIsTrue
  <2> QED BY <1>5, <2>2, <2>3, PoolsUntouched DEF BroadcastRefused, BroadcastAnswered
<1>6. ASSUME NEW tx \in Txs, NEW n \in Nodes, transaction_by_hash(tx, n)
      PROVE  IInv'
  <2>1. told' = <<tx, n>> /\ tx \in Committed(n).executed
    BY <1>6 DEF transaction_by_hash, validate_transaction
  <2>2. waiting' \subseteq Txs \X Nodes BY <1>6 DEF transaction_by_hash, IInv, Typed
  <2>3. told' \in Txs \X Nodes /\ told'[1] \in Committed(told'[2]).executed
    BY <2>1
  <2> QED BY <1>6, <2>2, <2>3, PoolsUntouched DEF transaction_by_hash
<1>7. ASSUME NEW tx \in Txs, NEW n \in Nodes, NEW m \in Nodes, Gossip(m, n, tx) PROVE IInv'
  BY <1>7, CheckTxKeeps DEF Gossip, IInv, Typed
<1> QED BY <1>1, <1>2, <1>3, <1>4, <1>5, <1>6, <1>7 DEF Next

LEMMA InvariantHolds == Spec => []IInv
BY InitInvariant, NextInvariant, PTL DEF Spec

(***************************************************************************)
(* The theorems.                                                           *)
(***************************************************************************)

\* A client that is told of success finds its transaction in the state of the
\* gateway that told it, and no used-up nonce holds its next one back there,
\* whatever was refused, timed out, mixed up or asked again, and through blocks,
\* gossip, rechecks and crashes (validate_broadcast_response,
\* transaction_by_hash, check_tx, commit).
THEOREM ClientsAreToldTheTruth == Spec => []AnswersAreTrue
<1>1. IInv => AnswersAreTrue
  <2> SUFFICES ASSUME IInv, told # None PROVE AnswersAreTrue
    BY DEF AnswersAreTrue
  <2>1. told[1] \in Txs /\ told[2] \in Nodes BY DEF IInv, Typed
  <2>2. told[1].signer \in Signers BY <2>1, SignerOf
  <2>3. Current(Committed(told[2]), reservations[told[2]]) BY <2>1 DEF IInv, PoolOf
  <2>4. told[1] \in Committed(told[2]).executed BY DEF IInv, Truth
  <2> QED BY <2>2, <2>3, <2>4 DEF AnswersAreTrue, Current
<1> QED BY <1>1, InvariantHolds, PTL

\* What a mempool holds the next block can execute, one transaction per signer,
\* however it reached the node and whatever was decided since (check_tx, commit).
THEOREM MempoolsStayExecutable == Spec => []MempoolIsExecutable
<1>1. IInv => MempoolIsExecutable
  <2> SUFFICES ASSUME IInv PROVE MempoolIsExecutable OBVIOUS
  <2>1. \A n \in Nodes : mempool[n] \in Seq(Txs) /\ PoolOf(n) BY DEF IInv, Typed
  <2>2. \A n \in Nodes : Range(mempool[n]) \subseteq Txs BY <2>1 DEF Range
  <2>3. \A n \in Nodes, s \in Signers :
           reservations[n][s] \in {None} \cup {tx \in Txs : tx.signer = s}
    BY DEF IInv, Typed, Reservations
  <2>4. TypeOK BY <2>1, <2>2, <2>3 DEF IInv, Typed, States, PoolOf, TypeOK
  <2>5. \A n \in Nodes :
           /\ \A tx \in Range(mempool[n]) :
                 Applies(Committed(n), tx, Committed(n).height + 1)
           /\ \A i, j \in DOMAIN mempool[n] :
                 i # j => mempool[n][i].signer # mempool[n][j].signer
    BY <2>1 DEF PoolOf, Executable, Apart, Range
  <2> QED BY <2>4, <2>5 DEF MempoolIsExecutable
<1> QED BY <1>1, InvariantHolds, PTL

=============================================================================
