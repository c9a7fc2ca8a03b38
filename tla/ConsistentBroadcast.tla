------------------------- MODULE ConsistentBroadcast -------------------------
(***************************************************************************)
(* What round one of the key ceremony promises: every sender's broadcast   *)
(* has at most one outcome, every collector that delivers something from   *)
(* that sender delivers this outcome, and the outcome of a correct sender  *)
(* is what it broadcast.                                                   *)
(***************************************************************************)
CONSTANTS
    Senders,      \* the validators that broadcast
    Collectors,   \* the validators that collect
    Outcomes,     \* what a broadcast may deliver
    MayChoose(_, _),  \* MayChoose(s, x): x is a possible outcome of s's broadcast
    None

VARIABLES
    chosen,       \* [Senders -> Outcomes or None]
    delivered     \* [Collectors -> [Senders -> Outcomes or None]]

Init ==
    /\ chosen = [s \in Senders |-> None]
    /\ delivered = [c \in Collectors |-> [s \in Senders |-> None]]

\* The outcome of s's broadcast is fixed, once.
Choose(s) ==
    /\ chosen[s] = None
    /\ \E x \in Outcomes : MayChoose(s, x) /\ chosen' = [chosen EXCEPT ![s] = x]
    /\ UNCHANGED delivered

\* A collector delivers the outcome of s's broadcast.
Deliver(c, s) ==
    /\ chosen[s] # None
    /\ delivered' = [delivered EXCEPT ![c] = [@ EXCEPT ![s] = chosen[s]]]
    /\ UNCHANGED chosen

\* A collector loses its transcript.
Forget(c) ==
    /\ delivered' = [delivered EXCEPT ![c] = [s \in Senders |-> None]]
    /\ UNCHANGED chosen

Next ==
    \/ \E s \in Senders : Choose(s)
    \/ \E c \in Collectors : Forget(c) \/ \E s \in Senders : Deliver(c, s)

Spec == Init /\ [][Next]_<<chosen, delivered>>
=============================================================================
