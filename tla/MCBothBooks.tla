----------------------------- MODULE MCBothBooks -----------------------------
(* SignalDelivery for TLC.  One run holds three books, one of them chosen   *)
(* at the start: a live pair whose three commands open, reduce and close a  *)
(* position; a live pair whose one entry is retried against a clock, with   *)
(* two copies of it under way; and a paper book of two pairs whose mapping  *)
(* changes between starts.  Behind a row that a scan passed over, the live  *)
(* pair stages RowsBeside more.                                             *)
EXTENDS MCSignalDelivery
CONSTANTS RetriedRows, PaperRows, RowsBeside
VARIABLE kind

Paper == INSTANCE SignalDelivery
           WITH IsPaper <- TRUE, SlotChoices <- {{p1}, {p1, p2}}
Live == INSTANCE SignalDelivery WITH MaxCopies <- 1

BookInit ==
    /\ kind \in {"live", "retry", "paper"}
    /\ IF kind = "paper" THEN Paper!Init ELSE Init
BookNext ==
    /\ UNCHANGED kind
    /\ \/ /\ kind = "live" /\ Live!Next /\ UNCHANGED <<now, paused>>
          /\ \A i \in overtaken' : nextId' <= i + RowsBeside + 1
       \/ kind = "retry" /\ Next /\ nextId' =< RetriedRows + 1
       \/ kind = "paper" /\ Paper!Next /\ UNCHANGED now /\ nextId' =< PaperRows + 1
EveryBook == BookInit /\ [][BookNext]_<<vars, kind>>

-----------------------------------------------------------------------------
\* The live book alone, under the fairness of its retry loop.
LiveInit == kind = "live" /\ Init
LiveNext == kind = "live" /\ Next /\ UNCHANGED kind
LiveBook ==
    /\ LiveInit /\ [][LiveNext]_<<vars, kind>>
    /\ Fairness
=============================================================================
