------------------------------ MODULE MCTickBars ------------------------------
(* TickBars for TLC: what may go wrong is chosen once, at the start.           *)
(*   "late"     quotes of two timeframes are handed over out of order          *)
(*   "crash"    the service of two timeframes dies at any instant              *)
(*   "faults"   one timeframe with a failed call, a crash, a flush, a socket   *)
(*              that drops and a slow start                                    *)
EXTENDS TickBars

CONSTANTS Fast, Slow
VARIABLE trouble

Lengths == [tf \in Timeframes |-> IF tf = Slow THEN 4 ELSE 2]
FastLength == [tf \in {Fast} |-> 2]

Late == INSTANCE TickBars WITH MaxCrashes <- 0, LateQuotes <- TRUE
Faulty == INSTANCE TickBars
    WITH Timeframes <- {Fast}, Length <- FastLength, Horizon <- 4, MaxTicks <- 2,
         MaxFaults <- 1, MaxFlushes <- 1,
         StartTakesTime <- TRUE, SocketGaps <- TRUE, LateQuotes <- TRUE

TroubledInit ==
    \/ trouble \in {"late", "crash"} /\ TicksInit
    \/ trouble = "faults" /\ Faulty!TicksInit
TroubledNext ==
    /\ UNCHANGED trouble
    /\ \/ trouble = "late" /\ Late!TicksNext
       \/ trouble = "crash" /\ TicksNext
       \/ trouble = "faults" /\ Faulty!TicksNext
Troubled == TroubledInit /\ [][TroubledNext]_<<tickVars, trouble>>

===============================================================================
