--------------------------- MODULE CandleStaging ---------------------------
(***************************************************************************)
(* How closed bars of one series reach Redis and the bus.                  *)
(*                                                                         *)
(* Bars are named by their bucket: 1, 2, ...; bucket t is complete once    *)
(* now >= t.  A closed bar is retained in memory, staged (appended to the  *)
(* window and to the outbox by one Lua script, unless the watermark says   *)
(* the bucket has been seen), published from the head of the outbox and    *)
(* then popped.  Beside that path the service merges vendor history into   *)
(* the window: it reads the window, decides which bars changed, reads the  *)
(* window and the watermark again and swaps the merged window in if the    *)
(* watermark has not moved.                                                *)
(*                                                                         *)
(* The processing lock serialises the handler of live bars, the flush loop *)
(* and warm-up batches; the history loop, the gap fill and the operator's  *)
(* flush run beside it.                                                    *)
(***************************************************************************)
EXTENDS Naturals, Sequences, FiniteSets

CONSTANTS
    MaxTime,            \* buckets that complete in a run
    Limit,              \* QTE_REDIS__CANDLE_HISTORY, the bars a window keeps
    Attempts,           \* tries of one merge
    MaxPublished,       \* publishes in a run, a repeated one included; closes
                        \* queued when a window is flushed
    MaxReplays,         \* bars the feed delivers again, in a run
    RedisFails,         \* a Redis command may fail, before or after it ran
    Resends,            \* retry_on_timeout: a command whose answer is late is sent again
    Crashes,            \* the service may die and restart
    VendorMoves,        \* the vendor may go away, and come back
    OperatorFlushes,    \* /flush may be used
    OperatorAsks,       \* /warmup may be used
    Batches             \* an ingester that replays its window in batches

ASSUME BoundsAssumption ==
    /\ MaxTime \in Nat \ {0} /\ Limit \in Nat \ {0} /\ Attempts \in Nat \ {0}
    /\ MaxPublished \in Nat /\ MaxReplays \in Nat
ASSUME SwitchesAssumption ==
    {RedisFails, Resends, Crashes, VendorMoves, OperatorFlushes, OperatorAsks, Batches}
        \subseteq BOOLEAN

VARIABLES
    now,        \* complete buckets
    feed,       \* the newest bar the feed has delivered, and its replays so far
    live,       \* the live bar whose handler runs, and how far it is
    emitting,   \* what the holder of the processing lock is doing
    retained,   \* _retired_candles, in order of retirement
    owed,       \* _history_owed holds the series
    merge,      \* task -> the merge it is in the middle of
    loop,       \* the history loop runs, or waits to be woken
    wake,       \* _history_wake is set
    offline,    \* _vendor_offline
    window,     \* Redis: the history list, oldest first
    staged,     \* Redis: the staging watermark
    outbox,     \* Redis: closes not acknowledged yet, oldest first
    published,  \* history: the events that went out, in order
    flushed,    \* history: an operator has emptied the window
    resent      \* history: the client has sent a pop of the outbox twice

redisVars == <<window, staged, outbox>>
liveVars == <<live, emitting, retained>>
loopVars == <<loop, wake, offline>>
memVars == <<liveVars, owed, merge, loopVars>>
history == <<flushed, resent>>
vars == <<now, feed, memVars, redisVars, published, history>>

Times == 1..MaxTime
Bar(t, by) == [t |-> t, by |-> by]
Bars == [t : Times, by : {"live", "vendor"}]
Elements(s) == {s[i] : i \in DOMAIN s}
TimesOf(w) == {w[i].t : i \in DOMAIN w}
Newest(w) == IF w = <<>> THEN 0 ELSE w[Len(w)].t

\* The history loop, the gap fill ahead of a live bar, the operator's /warmup
\* and a warm-up batch.
Mergers == {"loop", "gap", "asked", "batch"}
NoMerge == [step |-> "idle", bars |-> {}, tries |-> 0, seen |-> <<>>, mark |-> 0]
NoLive == [step |-> "none", t |-> 0]

Init ==
    /\ now = 0
    /\ feed = [heard |-> 0, replays |-> 0]
    /\ live = NoLive
    /\ emitting = "no"
    /\ retained = <<>>
    /\ owed = FALSE
    /\ merge = [m \in Mergers |-> NoMerge]
    /\ loop = "runs"
    /\ wake = FALSE
    /\ offline = FALSE
    /\ window = <<>>
    /\ staged = 0
    /\ outbox = <<>>
    /\ published = <<>>
    /\ flushed = FALSE
    /\ resent = FALSE

\* The bars a merge starts from: a whole answer of the vendor.
Fetched(bars) == [NoMerge EXCEPT !.step = "fetched", !.bars = bars]

\* LTRIM: the newest Limit bars
Trim(w) == IF Len(w) > Limit THEN SubSeq(w, Len(w) - Limit + 1, Len(w)) ELSE w

\* A bucket ends.
BucketEnds ==
    /\ now < MaxTime
    /\ now' = now + 1
    /\ UNCHANGED <<feed, memVars, redisVars, published>>

(***************************************************************************)
(* The live path.                                                          *)
(***************************************************************************)

\* _handle_closed_bar: the feed delivers a complete bar, in order but perhaps
\* with bars missing; after a reconnect it replays old ones.  A bar that does not
\* follow the newest stored one has the bars before it fetched first, unless
\* that was tried within the cooldown.
BarArrives(t) ==
    /\ live = NoLive
    /\ t <= now
    /\ IF t > feed.heard
       THEN feed' = [feed EXCEPT !.heard = t]
       ELSE /\ feed.replays < MaxReplays
            /\ feed' = [feed EXCEPT !.replays = @ + 1]
    /\ \/ live' = [step |-> "ready", t |-> t] /\ UNCHANGED merge
       \/ /\ window = <<>> \/ t > Newest(window) + 1
          /\ live' = [step |-> "gap", t |-> t]
          /\ merge' = [merge EXCEPT !["gap"] = Fetched(1..(t - 1))]
    /\ UNCHANGED <<now, emitting, retained, owed, loopVars, redisVars, published>>

\* The gap fill has ended, one way or the other.
GapFilled ==
    /\ live.step = "gap"
    /\ merge["gap"].step = "idle"
    /\ live' = [live EXCEPT !.step = "ready"]
    /\ UNCHANGED <<now, feed, emitting, retained, owed, merge, loopVars, redisVars, published>>

\* The holder of the processing lock goes on, or leaves; the handler of a live bar
\* ends with it.
Emits(step) == emitting' = step /\ UNCHANGED live
Leaves == emitting' = "no" /\ live' = IF live.step = "emit" THEN NoLive ELSE live

\* _emit_candles([candle]): the bar is retained before the first await.
Retain ==
    /\ live.step = "ready"
    /\ emitting = "no"
    /\ emitting' = "stage"
    /\ retained' = IF live.t \in Elements(retained) THEN retained
                   ELSE Append(retained, live.t)
    /\ live' = [live EXCEPT !.step = "emit"]
    /\ UNCHANGED <<now, feed, owed, merge, loopVars, redisVars, published>>

\* _flush_loop: what an earlier failure left is tried again, and so is the
\* outbox.
FlushCycle ==
    /\ emitting = "no"
    /\ emitting' = "stage"
    /\ UNCHANGED <<now, feed, live, retained, owed, merge, loopVars, redisVars, published>>

BugStageAlways(t) ==
    /\ window' = Trim(Append(window, Bar(t, "live")))
    /\ outbox' = Append(outbox, t)
    /\ staged' = t

\* STAGE_CLOSED_CANDLE: nothing at or behind the watermark is staged again.
StageScript(t) ==
    IF staged >= t
    THEN UNCHANGED redisVars
    ELSE /\ window' = Trim(Append(window, Bar(t, "live")))
         /\ outbox' = Append(outbox, t)
         /\ staged' = t

\* The bar is forgotten once Redis has acknowledged it, duplicate or not; the
\* acknowledgement may be lost after the script has run.
Stage ==
    /\ emitting = "stage"
    /\ retained # <<>>
    /\ \/ /\ StageScript(Head(retained))
          /\ retained' = Tail(retained)
          /\ Emits("stage")
       \/ /\ RedisFails
          /\ Leaves
          /\ UNCHANGED retained
          /\ \/ StageScript(Head(retained))
             \/ UNCHANGED redisVars
    /\ UNCHANGED <<now, feed, owed, merge, loopVars, published>>

\* _drain_candle_outbox starts once everything retained is staged.
Drain ==
    /\ emitting = "stage"
    /\ retained = <<>>
    /\ emitting' = "drain"
    /\ UNCHANGED <<now, feed, live, retained, owed, merge, loopVars, redisVars, published>>

BugAckFirst ==
    /\ emitting = "drain"
    /\ outbox # <<>>
    /\ Len(published) < MaxPublished
    /\ outbox' = Tail(outbox)
    /\ \/ /\ published' = Append(published, Head(outbox))
          /\ Emits("drain")
       \/ Leaves /\ UNCHANGED published
    /\ UNCHANGED <<now, feed, retained, owed, merge, loopVars, window, staged>>

\* _drain_candle_outbox: the head is read and published; the publish may fail.
Publish ==
    /\ emitting = "drain"
    /\ outbox # <<>>
    /\ \/ /\ Len(published) < MaxPublished
          /\ published' = Append(published, Head(outbox))
          /\ Emits("ack")
       \/ Leaves /\ UNCHANGED published
    /\ UNCHANGED <<now, feed, retained, owed, merge, loopVars, redisVars>>

\* ack_pending_candle: LPOP.
Ack ==
    /\ emitting = "ack"
    /\ \/ /\ Emits("drain")
          /\ outbox' = Tail(outbox)
       \/ /\ RedisFails
          /\ Leaves
          /\ outbox' \in {outbox, Tail(outbox)}
    /\ UNCHANGED <<now, feed, retained, owed, merge, loopVars, window, staged, published>>

\* It takes whatever is at the head, so a command that the client sends twice, the
\* first having run, takes two bars.
AckTwice ==
    /\ Resends
    /\ emitting = "ack"
    /\ Emits("drain")
    /\ outbox' = SubSeq(outbox, 3, Len(outbox))
    /\ UNCHANGED <<now, feed, retained, owed, merge, loopVars, window, staged, published>>

Drained ==
    /\ emitting = "drain"
    /\ outbox = <<>>
    /\ Leaves
    /\ UNCHANGED <<now, feed, retained, owed, merge, loopVars, redisVars, published>>

(***************************************************************************)
(* Vendor history.                                                         *)
(***************************************************************************)

Idle(m) == merge[m].step = "idle"
MergeIs(m, rec) == merge' = [merge EXCEPT ![m] = rec]
EndOfMerge(m) == MergeIs(m, NoMerge)

\* What a finished request leaves owed: _warm_series and _warmup_on_request drop
\* the series, a warm-up batch never looks.
Settled(m) == owed' = (owed /\ m = "batch")

\* What a failed one leaves: the gap fill hands the series to the loop, the loop
\* keeps what it has, and nobody else does anything.
Unsettled(m) ==
    /\ owed' = (owed \/ m = "gap")
    /\ wake' = (wake \/ (m = "gap" /\ ~offline'))

\* _history_loop, nothing to do: the event is cleared and waited for.
LoopWaits ==
    /\ loop = "runs"
    /\ Idle("loop")
    /\ ~owed \/ offline
    /\ loop' = "waits"
    /\ wake' = FALSE
    /\ UNCHANGED <<now, feed, liveVars, owed, merge, offline, redisVars, published>>

LoopWakes ==
    /\ loop = "waits"
    /\ wake
    /\ loop' = "runs"
    /\ UNCHANGED <<now, feed, liveVars, owed, merge, wake, offline, redisVars, published>>

\* The vendor returns every bucket that was complete when it was asked; a window
\* that is full and current is not asked for, unless the operator does it.
Request(m) ==
    /\ Idle(m)
    /\ \/ m = "loop" /\ loop = "runs" /\ owed /\ ~offline
       \/ m = "asked" /\ OperatorAsks
    /\ IF m = "loop" /\ Len(window) = Limit /\ Newest(window) = now
       THEN Settled(m) /\ UNCHANGED merge
       ELSE MergeIs(m, Fetched(1..now)) /\ UNCHANGED owed
    /\ UNCHANGED <<now, feed, liveVars, loopVars, redisVars, published>>

\* HistoryOffline: nobody answers.
VendorIsGone(m) ==
    /\ VendorMoves
    /\ merge[m].step = "fetched"
    /\ EndOfMerge(m)
    /\ offline' = (offline \/ m # "asked")
    /\ Unsettled(m)
    /\ UNCHANGED <<now, feed, liveVars, loop, redisVars, published>>

\* A terminal that is not ready yet.
VendorRefuses(m) ==
    /\ VendorMoves
    /\ merge[m].step = "fetched"
    /\ EndOfMerge(m)
    /\ UNCHANGED offline
    /\ Unsettled(m)
    /\ UNCHANGED <<now, feed, liveVars, loop, redisVars, published>>

\* _handle_vendor_online: every window of the vendor is checked again.
VendorOnline ==
    /\ VendorMoves
    /\ offline' = FALSE
    /\ owed' = TRUE
    /\ wake' = TRUE
    /\ UNCHANGED <<now, feed, liveVars, merge, loop, redisVars, published>>

\* _merge_candles: of the fetched bars those are kept back that Redis holds as
\* this engine built them.
ChangedBars(fetched) ==
    {t \in fetched : \A i \in DOMAIN window : window[i].t = t => window[i].by = "vendor"}

Choose(m) ==
    /\ merge[m].step = "fetched"
    /\ LET changed == ChangedBars(merge[m].bars) IN
        IF changed \subseteq TimesOf(window)
        THEN EndOfMerge(m) /\ Settled(m)            \* nothing new
        ELSE /\ MergeIs(m, [merge[m] EXCEPT !.step = "chosen", !.bars = changed])
             /\ UNCHANGED owed
    /\ UNCHANGED <<now, feed, liveVars, loopVars, redisVars, published>>

\* merge_history_candles, one attempt: the window and the watermark are read in
\* one transaction.
ReadWindow(m) ==
    /\ merge[m].step = "chosen"
    /\ MergeIs(m, [merge[m] EXCEPT !.step = "read", !.seen = window, !.mark = staged])
    /\ UNCHANGED <<now, feed, liveVars, owed, loopVars, redisVars, published>>

\* merged.update(incoming): the incoming bar wins a tie
Merged(seen, incoming) ==
    {Bar(t, "vendor") : t \in incoming} \cup {b \in Elements(seen) : b.t \notin incoming}

IsSeries(w) == \A i, j \in DOMAIN w : i < j => w[i].t < w[j].t

\* sorted(merged)
InOrder(bars) ==
    {w \in [1..Cardinality(bars) -> bars] : IsSeries(w) /\ Elements(w) = bars}

BugBlindSwap(mark) == TRUE

\* MERGE_HISTORY_CANDLES: the swap happens only if nothing was staged since.
Unmoved(mark) == staged = mark

SwapScript(mm) ==
    /\ \E w \in InOrder(Merged(mm.seen, mm.bars)) : window' = Trim(w)
    /\ \E newest \in mm.bars :
        /\ \A t \in mm.bars : t <= newest
        /\ staged' = IF mm.mark < newest THEN newest ELSE mm.mark

\* The batch is merged with the processing lock held.
BatchEnds(m) == emitting' = IF m = "batch" THEN "no" ELSE emitting

Swapped(m) ==
    /\ merge[m].step = "read"
    /\ Unmoved(merge[m].mark)
    /\ SwapScript(merge[m])
    /\ EndOfMerge(m)
    /\ Settled(m)
    /\ BatchEnds(m)
    /\ UNCHANGED <<now, feed, live, retained, loopVars, outbox, published>>

TriesAgain(mm) == mm.tries + 1 < Attempts

\* A close was staged in between, or the script is sent twice and does not know
\* its own watermark: read again, and give up after the last attempt.
NotSwapped(m) ==
    /\ merge[m].step = "read"
    /\ \/ ~Unmoved(merge[m].mark) /\ UNCHANGED <<window, staged>>
       \/ Resends /\ Unmoved(merge[m].mark) /\ SwapScript(merge[m]) /\ staged' # staged
    /\ UNCHANGED offline
    /\ IF TriesAgain(merge[m])
       THEN /\ MergeIs(m, [merge[m] EXCEPT !.step = "chosen", !.tries = @ + 1])
            /\ UNCHANGED <<emitting, owed, wake>>
       ELSE EndOfMerge(m) /\ Unsettled(m) /\ BatchEnds(m)
    /\ UNCHANGED <<now, feed, live, retained, loop, outbox, published>>

\* The merge raises, although its script may have run.
SwapFails(m) ==
    /\ RedisFails
    /\ merge[m].step = "read"
    /\ \/ Unmoved(merge[m].mark) /\ SwapScript(merge[m])
       \/ UNCHANGED <<window, staged>>
    /\ EndOfMerge(m)
    /\ UNCHANGED offline
    /\ Unsettled(m)
    /\ BatchEnds(m)
    /\ UNCHANGED <<now, feed, live, retained, loop, outbox, published>>

\* _handle_warmup_bar, the last bar of a batch: the buffered bars are merged.
BatchComplete ==
    /\ Batches
    /\ emitting = "no"
    /\ now > 0
    /\ emitting' = "batch"
    /\ MergeIs("batch", [Fetched(1..now) EXCEPT !.step = "chosen"])
    /\ UNCHANGED <<now, feed, live, retained, owed, loopVars, redisVars, published>>

(***************************************************************************)
(* The operator and restarts.                                              *)
(***************************************************************************)

\* _flush_on_request, discard_candle_state: the window and its watermark go, the
\* outbox stays, the series is owed.
Flush ==
    /\ OperatorFlushes
    /\ window # <<>>
    /\ Len(outbox) <= MaxPublished
    /\ window' = <<>>
    /\ staged' = 0
    /\ owed' = TRUE
    /\ UNCHANGED <<now, feed, liveVars, merge, loopVars, outbox, published>>

\* The service dies and starts again: it drains the outbox before it listens,
\* and asks for the history it may have missed.
Crash ==
    /\ Crashes
    /\ live' = NoLive
    /\ emitting' = "drain"
    /\ retained' = <<>>
    /\ owed' = TRUE
    /\ merge' = [m \in Mergers |-> NoMerge]
    /\ loop' = "runs"
    /\ wake' = FALSE
    /\ offline' = FALSE
    /\ UNCHANGED <<now, feed, redisVars, published>>

Merge(m) ==
    \/ VendorIsGone(m) \/ VendorRefuses(m)
    \/ Choose(m) \/ ReadWindow(m) \/ Swapped(m) \/ NotSwapped(m) \/ SwapFails(m)

Step ==
    \/ BucketEnds
    \/ \E t \in Times : BarArrives(t)
    \/ GapFilled \/ Retain \/ FlushCycle \/ Stage \/ Drain \/ Publish \/ Ack \/ Drained
    \/ LoopWaits \/ LoopWakes \/ VendorOnline \/ BatchComplete
    \/ \E m \in {"loop", "asked"} : Request(m)
    \/ \E m \in Mergers : Merge(m)
    \/ Crash

Next ==
    \/ Step /\ UNCHANGED history
    \/ Flush /\ flushed' = TRUE /\ UNCHANGED resent
    \/ AckTwice /\ resent' = TRUE /\ UNCHANGED flushed

Spec == Init /\ [][Next]_vars

(***************************************************************************)
(* Properties.                                                             *)
(***************************************************************************)

\* The window is a series: one bar per bucket, oldest first, and none newer than the
\* watermark that keeps duplicates out.
WindowIsSeries == IsSeries(window) /\ Newest(window) <= staged

\* What goes out never goes back in time; a repeat is the same bar again.
EventsAdvance ==
    /\ \A i, j \in DOMAIN published : i < j => published[i] <= published[j]
    /\ \A i, j \in DOMAIN outbox : i < j => outbox[i] < outbox[j]
    /\ \A t \in Elements(published), u \in Elements(outbox) : t <= u

\* The window stays a series (stage_closed_candle, merge_history_candles), and what
\* goes out never goes back in time, until an operator empties the window: its watermark
\* goes too, and a bar the feed replays is announced a second time.
HistoryIsOrdered == WindowIsSeries /\ (~flushed => EventsAdvance)

\* A close that reached the window by the live path has been published or is still
\* queued (_drain_candle_outbox: "deleting before publish and losing a strategy decision
\* is never allowed"): no crash, failed publish, lost acknowledgement, flush or history
\* merge loses it, until the client sends a pop twice and takes a close nobody published.
ClosesAreAnnounced ==
    ~resent => \A b \in Elements(window) :
                    b.by = "live" => b.t \in Elements(outbox) \cup Elements(published)

\* The bar of bucket t is in the window, or newer bars fill it.
Covers(w, t) == t \in TimesOf(w) \/ (Len(w) = Limit /\ t < w[1].t)

\* A bar the live path has staged leaves the window only because newer bars fill it: a
\* history merge never costs a close that was staged while it ran
\* (merge_history_candles: "no live close is ever lost").
KeepsCloses == \A b \in Elements(window) : b.by = "live" => Covers(window', b.t)

\* A close leaves memory only once Redis has accepted it or one after it; a
\* restart, which goes straight to draining, is the one exception.
KeepsRetained ==
    \A t \in Elements(retained) \ Elements(retained') : t <= staged' \/ emitting' = "drain"

\* A close leaves memory only once Redis has accepted it, and the window only because newer
\* bars fill it, until an operator empties the window, when a merge that read it before may
\* find the watermark it remembers.
ClosesAreKept == [][KeepsRetained /\ (~flushed' => KeepsCloses)]_vars
=============================================================================
