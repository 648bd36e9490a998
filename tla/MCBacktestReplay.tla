-------------------------- MODULE MCBacktestReplay --------------------------
(* BacktestReplay for TLC.  One of three strategies is replayed, chosen at  *)
(* the start; the constants of the configuration are those of the first.    *)
EXTENDS BacktestReplay
VARIABLE strategy

\* A stop at the price, below it, and on the side of the profit.
AllStops == -1..2

\* Enters once, and leaves everything to the bracket.
Bracketing == INSTANCE BacktestReplay WITH MaxEntries <- 1, MaxIntents <- 1
\* Stacks two cycles or enters one under the id of another, names sizes, on its
\* terminal closes too, and closes what the bracket closes and what is over.
Closing == INSTANCE BacktestReplay
    WITH BaseRisk <- 2, MaxRisk <- 0, DynamicRisk <- FALSE, Risks <- {}, MaxQuantity <- 4,
         Prices <- {1, 3, 4}, MaxBars <- 2, MaxIntents <- 2, Stops <- {2},
         Proposals <- {2, 6}, CloseActions <- {"TP1", "TP2"}, HalfSpread <- 0
\* Stacks two cycles into a weekend, and leaves a rest of one behind.
Weekending == INSTANCE BacktestReplay
    WITH BaseRisk <- 2, MaxRisk <- 0, DynamicRisk <- FALSE, Risks <- {}, MaxQuantity <- 4,
         Prices <- {1, 3}, MaxBars <- 2, MaxIntents <- 2, Stops <- {1},
         Proposals <- {2}, CloseActions <- {"TP1", "FLAT"}, Weekends <- TRUE

ReplayInit == Init /\ strategy \in {"bracketing", "closing", "weekending"}
ReplayNext ==
    /\ UNCHANGED strategy
    /\ \/ strategy = "bracketing" /\ Bracketing!Next
       \/ strategy = "closing" /\ Closing!Next
       \/ strategy = "weekending" /\ Weekending!Next
Replay == ReplayInit /\ [][ReplayNext]_<<vars, strategy>>
=============================================================================
