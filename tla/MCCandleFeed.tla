---------------------------- MODULE MCCandleFeed ----------------------------
(* CandleFeed for TLC.  What may go wrong around the runner is chosen once,  *)
(* at the start.                                                             *)
EXTENDS CandleFeed
VARIABLE trouble

\* The runner dies between any two steps, or Redis fails it between two bars, and
\* decisions are skipped while the pair is paused.
Dying == INSTANCE CandleFeed WITH Crashes <- TRUE
Failing == INSTANCE CandleFeed WITH RedisFails <- TRUE, Gates <- TRUE
\* The mark is lost, or the window is flushed, and the runner dies.
Spoiling == INSTANCE CandleFeed
              WITH Crashes <- TRUE, MarkFails <- TRUE, Flushes <- TRUE

TroubledInit == Init /\ trouble \in {"dying", "failing", "spoiling"}
TroubledNext ==
    /\ UNCHANGED trouble
    /\ \/ trouble = "dying" /\ Dying!Next
       \/ trouble = "failing" /\ Failing!Next
       \/ trouble = "spoiling" /\ Spoiling!Next /\ now' =< MaxTime \div 2
Troubled == TroubledInit /\ [][TroubledNext]_<<vars, trouble>>
=============================================================================
