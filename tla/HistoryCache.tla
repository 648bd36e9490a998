---------------------------- MODULE HistoryCache ----------------------------
(***************************************************************************)
(* The parquet file of one series (qte_shared/history_cache.py) and the    *)
(* processes that share it without a lock: an ingestion service that warms *)
(* its window (backfill.py), an operator's download (downloader.py) and a  *)
(* backtest that only reads (data_store.py).                               *)
(*                                                                         *)
(* A bar is the day it belongs to; its values are left out.  A file is     *)
(* written in place: whoever reads during a write, or after the writer     *)
(* died in it, finds a file that does not read.                            *)
(***************************************************************************)
EXTENDS Integers, FiniteSetsExt

CONSTANTS LastDay,
          Requests,     \* the ranges asked for, as [from, to]
          Warmers, Downloaders, Readers,   \* the processes
          Tolerance,    \* COVERAGE_TOLERANCE_DAYS
          Production,   \* use_cache_by_default() is off
          HasParquet,   \* pyarrow is installed
          MaxAsks       \* bound

VARIABLES file,      \* [state |-> "absent", "whole", "broken" or "torn", bars |-> days]
          work,      \* what each process is doing
          asks,
          saved,     \* history: the days a finished write has put in the file
          clean,     \* history: no writer replaced, died writing, overlapped another, or
                     \* took a file that reads for one that does not
          replies    \* history: what a process was last given, and by whom

vars == <<file, work, asks, saved, clean, replies>>

Procs == Warmers \cup Downloaders
Idle == [at |-> "idle", kind |-> "none", range |-> 0, got |-> {}, base |-> {}]
Between(days, from, to) == {d \in days : d >= from /\ d <= to}

Init == /\ file = [state |-> "absent", bars |-> {}]
        /\ work = [p \in Procs |-> Idle] /\ asks = 0
        /\ saved = {} /\ clean = TRUE
        /\ replies = [p \in Procs \cup Readers |-> "none"]

-----------------------------------------------------------------------------
(* HistoryCache and the functions beside it.                               *)

\* load without a range: a file that does not read is no bars at all.
Held == IF HasParquet /\ file.state = "whole" THEN file.bars ELSE {}

covers(bars, r) == /\ bars # {}
                   /\ Min(bars) <= r.from + Tolerance
                   /\ Max(bars) >= r.to - Tolerance

MayUseCache(kind) == kind = "warm" /\ ~Production

\* What a write starts from: everything on disk, or nothing for a replacement.
BugBase(w) == IF w.kind = "replace" THEN {} ELSE Between(Held, w.range.from, w.range.to)
Base(w) == IF w.kind = "replace" THEN {} ELSE Held

merge_frames(existing, incoming) == existing \cup incoming

-----------------------------------------------------------------------------
Others(p) == {q \in Procs \ {p} : work[q].at \in {"loaded", "writing"}}
\* A reply names the kind of request the cache answered, or who answered else.
Finish(p, reply) == /\ work' = [work EXCEPT ![p] = Idle]
                    /\ replies' = [replies EXCEPT ![p] = reply]

\* A download exists to fetch and to write: it never reads the cache and is
\* refused where it could not write.
MayAsk(p) == IF p \in Warmers THEN {"warm", "topUp"}
             ELSE IF HasParquet THEN {"merge", "replace"} ELSE {}

\* fetch_history: the cache when it may answer, the vendor otherwise, which is also
\* asked when the read of the cache raises.
Ask(p, kind, r) ==
  /\ work[p].at = "idle" /\ asks < MaxAsks /\ asks' = asks + 1
  /\ kind \in MayAsk(p)
  /\ \E reads \in BOOLEAN :
       IF reads /\ MayUseCache(kind) /\ covers(Between(Held, r.from, r.to), r)
       THEN Finish(p, kind)
       ELSE /\ work' = [work EXCEPT ![p] = [Idle EXCEPT !.at = "asked", !.kind = kind,
                                                        !.range = r]]
            /\ UNCHANGED replies
  /\ UNCHANGED <<file, saved, clean>>

\* A vendor that caps its answers stops early and does not say so.
Answer(p) ==
  /\ work[p].at = "asked"
  /\ \E upTo \in (work[p].range.from - 1)..work[p].range.to :
       LET got == Between(0..LastDay, work[p].range.from, upTo)
       IN IF got = {} \/ ~HasParquet
          THEN Finish(p, IF p \in Warmers THEN "vendor" ELSE "refused")
          ELSE /\ work' = [work EXCEPT ![p].at = "answered", ![p].got = got]
               /\ UNCHANGED replies
  /\ UNCHANGED <<file, asks, saved, clean>>

VendorRaises(p) == /\ work[p].at = "asked" /\ Finish(p, "refused")
                   /\ UNCHANGED <<file, asks, saved, clean>>

\* _write: read what is there ...
Load(p) == /\ work[p].at = "answered"
           /\ work' = [work EXCEPT ![p].at = "loaded", ![p].base = Base(work[p])]
           /\ clean' = (clean /\ Others(p) = {} /\ work[p].kind # "replace")
           /\ UNCHANGED <<file, asks, saved, replies>>

\* ... which may raise although the file is whole, and then counts as no bars ...
LoadFails(p) == /\ work[p].at = "answered" /\ work[p].kind # "replace"
                /\ work' = [work EXCEPT ![p].at = "loaded", ![p].base = {}]
                /\ clean' = FALSE
                /\ UNCHANGED <<file, asks, saved, replies>>

\* ... open the file for writing ...
OpenFile(p) == /\ work[p].at = "loaded"
               /\ work' = [work EXCEPT ![p].at = "writing"]
               /\ file' = [state |-> IF \E q \in Procs : work[q].at = "writing"
                                     THEN "torn" ELSE "broken", bars |-> {}]
               /\ UNCHANGED <<asks, saved, clean, replies>>

\* ... and write the union.  Two writers of one file may leave neither's.
CloseFile(p) ==
  /\ work[p].at = "writing"
  /\ LET union == merge_frames(work[p].base, work[p].got)
     IN /\ \/ file' = [state |-> "whole", bars |-> union]
           \/ file.state # "broken" /\ file' = [state |-> "torn", bars |-> {}]
        /\ saved' = IF work[p].kind = "replace" THEN union ELSE saved \cup union
  /\ Finish(p, "vendor")
  /\ UNCHANGED <<asks, clean>>

\* to_parquet raises, disk full: the cache is lost, the frame is not.
WriteFails(p) == /\ work[p].at = "writing"
                 /\ clean' = FALSE
                 /\ Finish(p, IF p \in Warmers THEN "vendor" ELSE "refused")
                 /\ UNCHANGED <<file, asks, saved>>

Dies(p) == /\ work[p].at # "idle"
           /\ clean' = (clean /\ work[p].at # "writing")
           /\ Finish(p, "none")
           /\ UNCHANGED <<file, asks, saved>>

\* load_history of a backtest: the one reader that does not go on without.
Replay(b) == /\ replies' = [replies EXCEPT ![b] = IF file.state = "whole" THEN "bars"
                                                  ELSE "refused"]
             /\ UNCHANGED <<file, work, asks, saved, clean>>

Next == \/ \E p \in Procs : \/ \E kind \in {"warm", "topUp", "merge", "replace"},
                                   r \in Requests : Ask(p, kind, r)
                            \/ Answer(p) \/ VendorRaises(p) \/ Load(p) \/ LoadFails(p)
                            \/ OpenFile(p) \/ CloseFile(p) \/ WriteFails(p) \/ Dies(p)
        \/ \E b \in Readers : Replay(b)

Spec == Init /\ [][Next]_vars

-----------------------------------------------------------------------------
(* A bar that was saved stays saved.  Unless an operator replaced the      *)
(* file, a writer died in it, two writers overlapped or a writer could not *)
(* read what it was to merge with, every day any finished write has put    *)
(* there is there whenever the file reads: a narrow or a short answer      *)
(* never shortens the archive.  And a top-up, which asks for just the days *)
(* a cached file cannot hold, is never answered from it.                   *)
ArchiveOnlyGrows ==
  /\ clean /\ (\A p \in Procs : work[p].at # "writing") =>
        saved = (IF file.state = "whole" THEN file.bars ELSE {})
  /\ \A p \in Warmers : replies[p] # "topUp"
=============================================================================
