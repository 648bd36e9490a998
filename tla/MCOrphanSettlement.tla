-------------------------- MODULE MCOrphanSettlement --------------------------
(***************************************************************************)
(* OrphanSettlement with two pairs: two stacked cycles of one, which may   *)
(* be exchanged, and one of the other.                                     *)
(***************************************************************************)
EXTENDS OrphanSettlement, TLC

CONSTANTS first, second, other

ThreeCycles == {first, second, other}
PairOfCycle == [c \in ThreeCycles |-> IF c = other THEN "q" ELSE "p"]
Exchangeable == {first, second}
Exchanged == Permutations(Exchangeable)

\* Everything runs; one pair is retired; its strategy does not load; no table.
AllDeployments ==
    {[loaded |-> Pairs, declared |-> {Pairs}],
     [loaded |-> Pairs \ {"p"}, declared |-> {Pairs \ {"p"}}],
     [loaded |-> Pairs \ {"p"}, declared |-> {Pairs}],
     [loaded |-> Pairs \ {"p"}, declared |-> {}]}

===============================================================================
