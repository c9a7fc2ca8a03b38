---------------------------- MODULE MCStateStore ----------------------------
(* An instance of StateStore for TLC: two map families with one market, one *)
(* further family whose only entry comes and goes, and a shielded ledger.   *)
EXTENDS StateStore, TLC

CONSTANTS i1, u, w, n1, f1

MCFamilies == {"accounts", "markets", "books"}

\* Two chains: a plain one and one with a shielded development ledger.
MCGenesis ==
    {[height |-> 0, log |-> u,
      maps |-> [f \in MCFamilies |-> IF f = "accounts" THEN <<>> ELSE [i \in {i1} |-> u]],
      keySet |-> None, ledger |-> l] : l \in {None, [notes |-> <<>>, spent |-> {}]}}
=============================================================================
