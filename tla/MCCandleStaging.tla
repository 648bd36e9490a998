-------------------------- MODULE MCCandleStaging --------------------------
(* CandleStaging for TLC.  What may go wrong around the service is chosen   *)
(* once, at the start: one kind of trouble at a time.                       *)
EXTENDS CandleStaging
VARIABLE trouble

Failing == INSTANCE CandleStaging WITH RedisFails <- TRUE, Attempts <- 1
Restarting == INSTANCE CandleStaging WITH Crashes <- TRUE, Attempts <- 1
Resending == INSTANCE CandleStaging WITH Resends <- TRUE, Crashes <- TRUE
Moving == INSTANCE CandleStaging WITH VendorMoves <- TRUE, Batches <- TRUE, MaxReplays <- 0
Operated == INSTANCE CandleStaging
              WITH OperatorFlushes <- TRUE, OperatorAsks <- TRUE, Attempts <- 1,
                   MaxPublished <- 1, MaxReplays <- 0

Troubles == {"failing", "restarting", "resending", "moving", "operated"}

TroubledInit == Init /\ trouble \in Troubles
TroubledNext ==
    /\ UNCHANGED trouble
    /\ \/ trouble = "failing" /\ Failing!Next
       \/ trouble = "restarting" /\ Restarting!Next
       \/ trouble = "resending" /\ Resending!Next
       \/ trouble = "moving" /\ Moving!Next /\ Len(published') < MaxPublished
       \/ trouble = "operated" /\ Operated!Next /\ now' < MaxTime
Troubled == TroubledInit /\ [][TroubledNext]_<<vars, trouble>>
=============================================================================
