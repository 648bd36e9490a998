----------------------------- MODULE TradeBook ------------------------------
(***************************************************************************)
(* What a book of trade cycles promises: an id stands for one trade at a   *)
(* time.  While it is open it gets smaller and smaller until it is over,   *)
(* and only then may its id be entered again.                              *)
(***************************************************************************)
EXTENDS Naturals

CONSTANT Uxids

VARIABLE cycles

Cycle == [state : {"none", "open", "over"}, left : Nat]

Enters(c, d) == c.state # "open" /\ d.state = "open" /\ d.left > 0
Reduces(c, d) == c.state = "open" /\ d.state = "open" /\ 0 < d.left /\ d.left < c.left
Finishes(c, d) == c.state = "open" /\ d.state = "over" /\ d.left = 0

Init == cycles = [u \in Uxids |-> [state |-> "none", left |-> 0]]

\* One step may move several cycles: a bar is applied to all of them.
Next ==
    /\ cycles' \in [Uxids -> Cycle]
    /\ \A u \in Uxids :
        \/ cycles'[u] = cycles[u]
        \/ Enters(cycles[u], cycles'[u])
        \/ Reduces(cycles[u], cycles'[u])
        \/ Finishes(cycles[u], cycles'[u])

Spec == Init /\ [][Next]_cycles
=============================================================================
