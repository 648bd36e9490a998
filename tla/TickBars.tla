------------------------------- MODULE TickBars -------------------------------
(***************************************************************************)
(* How the ticks of one symbol become closed bars: the resampler builds a  *)
(* bar per timeframe, a later tick or the clock retires it, a bar that was *)
(* only partly heard is completed from vendor history, and the result is   *)
(* staged in Redis.  The bar under way is kept in Redis too, so that a     *)
(* restart resumes it.                                                     *)
(*                                                                         *)
(* A price is named by the instant it was quoted at, and a bar by the set  *)
(* of instants it heard.  What the service does while the clock shows now  *)
(* is done between the instants now and now + 1.  Staging is one call that *)
(* succeeds or fails; its retries, the window and the outbox behind it are *)
(* CandleStaging's.                                                        *)
(***************************************************************************)
EXTENDS Integers, FiniteSets, FiniteSetsExt

CONSTANTS
    Timeframes,
    Length,             \* of a bucket, per timeframe
    Horizon,            \* bound: instants in a run
    MaxTicks,           \* bound: quotes in a run
    MaxCrashes,         \* bound: deaths of the service
    MaxFaults,          \* bound: calls of Redis or NATS that fail
    MaxFlushes,         \* bound: /flush
    StartTakesTime,     \* the clock runs while the service starts
    SocketGaps,         \* the socket opens late, or drops and comes back
    LateQuotes          \* quotes may be handed over out of order

ASSUME TickBarsAssumption ==
    /\ Length \in [Timeframes -> Nat \ {0}]
    /\ {Horizon, MaxTicks, MaxCrashes, MaxFaults, MaxFlushes} \subseteq Nat
    /\ {StartTakesTime, SocketGaps, LateQuotes} \subseteq BOOLEAN

Instants == 0..Horizon
Never == -1             \* before every bucket
NoBar == [at |-> Never, heard |-> {}, last |-> Never, partial |-> FALSE]
NoFlush == [left |-> {}, moment |-> Never]

VARIABLES
    clock, quotes,        \* the clock, and the instants at which the market quoted
    service,            \* "down", "starting" (before the feeds are opened), "up"
    listening,          \* the socket is open
    flying,             \* quotes on the socket, not handled yet
    missed,             \* quotes that never reached the service
    builders,           \* _builders: the bar under way, per timeframe
    lastClosed,         \* _last_closed
    joined,             \* _joined_at
    retired,            \* _retired_candles, with their flags
    holder, step,       \* who has the processing lock, and how far it is
    inHand,             \* the quote that its holder folds
    unsaved,            \* bars that its holder has still to persist
    failed,             \* a call of its holder failed
    flushing,           \* the /flush under way
    openBar,            \* Redis: the bar under way
    mark,               \* Redis: the staging watermark
    closes,             \* the bars staged
    kept,               \* quotes of the bar under way whose handler succeeded
    silent, deaf,       \* instants that the clock reached with the service down, the socket closed
    crashes, faults, flushes    \* for the bounds

market == <<clock, quotes>>
socket == <<listening, flying, missed>>
resampler == <<builders, lastClosed, joined>>
lock == <<holder, step, inHand, unsaved, failed>>
redis == <<openBar, mark, closes>>
past == <<kept, silent, deaf>>
counts == <<crashes, faults, flushes>>
tickVars == <<market, service, socket, resampler, retired, lock, flushing, redis, past, counts>>

Bucket(t, tf) == t - (t % Length[tf])
End(at, tf) == at + Length[tf]
InBucket(at, tf) == at..(End(at, tf) - 1)
\* a moment after the instant now, and before the next
Moment == clock + 1

TicksInit ==
    /\ clock = 0 /\ quotes = {}
    /\ service = "down" /\ listening = FALSE /\ flying = {} /\ missed = {}
    /\ builders = [tf \in Timeframes |-> NoBar]
    /\ lastClosed = [tf \in Timeframes |-> Never]
    /\ joined = Never
    /\ retired = {}
    /\ holder = "nobody" /\ step = "idle" /\ inHand = Never /\ unsaved = {} /\ failed = FALSE
    /\ flushing = NoFlush
    /\ openBar = [tf \in Timeframes |-> NoBar]
    /\ mark = [tf \in Timeframes |-> Never]
    /\ closes = {}
    /\ kept = [tf \in Timeframes |-> {}]
    /\ silent = {} /\ deaf = {}
    /\ crashes = 0 /\ faults = 0 /\ flushes = 0

(* The clock moves on, and the market may quote. *)
TimePasses ==
    /\ clock < Horizon
    /\ service = "starting" => StartTakesTime
    /\ clock' = clock + 1
    /\ \/ UNCHANGED <<quotes, flying, missed>>
       \/ /\ Cardinality(quotes) < MaxTicks
          /\ quotes' = quotes \cup {clock'}
          /\ IF listening THEN flying' = flying \cup {clock'} /\ UNCHANGED missed
                          ELSE missed' = missed \cup {clock'} /\ UNCHANGED flying
    /\ silent' = IF service = "down" THEN silent \cup {clock'} ELSE silent
    /\ deaf' = IF service = "up" /\ ~listening THEN deaf \cup {clock'} ELSE deaf
    /\ UNCHANGED <<service, listening, resampler, retired, lock, flushing, redis, kept, counts>>

-----------------------------------------------------------------------------
(* The resampler                                                           *)

\* the timeframes whose bar a quote at t goes into, and those whose bar it closes
BugReopens(t) ==
    {tf \in Timeframes : builders[tf] = NoBar \/ Bucket(t, tf) >= builders[tf].at}
Takes(t) ==
    {tf \in Timeframes : /\ Bucket(t, tf) > lastClosed[tf]
                         /\ builders[tf] = NoBar \/ Bucket(t, tf) >= builders[tf].at}
Closing(t) ==
    {tf \in Takes(t) : builders[tf] # NoBar /\ Bucket(t, tf) > builders[tf].at}

\* _open_builder: a bucket that opened before the service listened is partial
Opened(at) == [NoBar EXCEPT !.at = at, !.partial = joined # Never /\ at < joined]

Folded(bar, t) == [bar EXCEPT !.heard = @ \cup {t}, !.last = t]

\* _retire, and what _emit_candles retains of it
Retired(tf, current) ==
    [tf |-> tf, at |-> builders[tf].at, heard |-> builders[tf].heard, last |-> builders[tf].last,
     partial |-> builders[tf].partial, whole |-> ~builders[tf].partial, current |-> current,
     repaired |-> FALSE]
Retire(tfs, current) ==
    /\ retired' = retired \cup {Retired(tf, current) : tf \in tfs}
    /\ lastClosed' = [tf \in Timeframes |-> IF tf \in tfs THEN builders[tf].at
                                                          ELSE lastClosed[tf]]
BugEndsLate == {tf \in Timeframes : builders[tf] # NoBar /\ clock > End(builders[tf].at, tf) + Length[tf]}
Ended == {tf \in Timeframes : builders[tf] # NoBar /\ clock >= End(builders[tf].at, tf)}

-----------------------------------------------------------------------------
(* Emitting: whole bars are staged first, then partial ones are completed  *)

Emitting == step \in {"before", "after"}
Release == holder' = "nobody" /\ step' = "idle" /\ inHand' = Never /\ unsaved' = {}
           /\ failed' = FALSE

\* stage_closed_candle: a bar at or behind the watermark is ignored; the open bar that
\* it closes goes with it
StageBar(bar) ==
    IF bar.at <= mark[bar.tf] THEN UNCHANGED redis
    ELSE /\ mark' = [mark EXCEPT ![bar.tf] = bar.at]
         /\ openBar' = IF openBar[bar.tf].at = bar.at THEN [openBar EXCEPT ![bar.tf] = NoBar]
                                                      ELSE openBar
         /\ closes' = closes \cup {bar}

WholeOnes == {bar \in retired : ~bar.partial}

\* the bars of one emission are of different series, and go in any order
StageNext ==
    /\ Emitting
    /\ \E bar \in WholeOnes : StageBar(bar) /\ retired' = retired \ {bar}
    /\ UNCHANGED <<market, service, socket, resampler, lock, flushing, past, counts>>

\* merge_partial_bar: the vendor heard every quote of the bucket; the close is the engine's
\* while it listened at the end of the bucket
BugKeepsTheClose(bar) ==
    [bar EXCEPT !.heard = @ \cup (quotes \cap InBucket(bar.at, bar.tf)), !.repaired = TRUE]
Completed(bar) ==
    LET vendor == quotes \cap InBucket(bar.at, bar.tf)
    IN [bar EXCEPT !.heard = @ \cup vendor, !.repaired = TRUE,
                   !.last = IF bar.current THEN @ ELSE Max(vendor)]

(* A repair asks the vendor; a bar that cannot be completed goes out as it was built. *)
RepairNext ==
    /\ Emitting /\ WholeOnes = {}
    /\ \E bar \in retired : \E sent \in {bar, Completed(bar)} :
          retired' = (retired \ {bar}) \cup {[sent EXCEPT !.partial = FALSE]}
    /\ UNCHANGED <<market, service, socket, resampler, lock, flushing, redis, past, counts>>

(* The last bar is out. *)
EmitEnds ==
    /\ Emitting /\ retired = {}
    /\ \/ step = "before" /\ step' = "work" /\ UNCHANGED <<holder, inHand, unsaved, failed>>
       \/ /\ step = "after" /\ holder = "tick"
          /\ step' = "persist"
          /\ unsaved' = {tf \in Timeframes : builders[tf] # NoBar}
          /\ UNCHANGED <<holder, inHand, failed>>
       \/ step = "after" /\ holder = "clock" /\ Release
       \/ step = "after" /\ holder = "start" /\ step' = "backfill"
          /\ UNCHANGED <<holder, inHand, unsaved, failed>>
    /\ UNCHANGED <<market, service, socket, resampler, retired, flushing, redis, past, counts>>

Dies ==
    /\ service' = "down" /\ listening' = FALSE /\ flying' = {} /\ missed' = missed \cup flying
    /\ builders' = [tf \in Timeframes |-> NoBar]
    /\ lastClosed' = [tf \in Timeframes |-> Never]
    /\ joined' = Never /\ retired' = {} /\ flushing' = NoFlush
    /\ Release

(* A call fails: the bars not staged stay retired.  A quote is given up if its turn had
   not come, a flush cycle ends, and a start is abandoned. *)
EmitFails ==
    /\ Emitting /\ retired # {} /\ faults < MaxFaults
    /\ faults' = faults + 1
    /\ \/ /\ holder = "start" /\ Dies
       \/ /\ holder = "tick" /\ step = "after"
          /\ step' = "persist" /\ failed' = TRUE
          /\ unsaved' = {tf \in Timeframes : builders[tf] # NoBar}
          /\ UNCHANGED <<service, socket, resampler, retired, holder, inHand, flushing>>
       \/ /\ holder = "clock" \/ (holder = "tick" /\ step = "before")
          /\ Release
          /\ UNCHANGED <<service, socket, resampler, retired, flushing>>
    /\ UNCHANGED <<market, redis, past, crashes, flushes>>

-----------------------------------------------------------------------------
(* Ticks and the clock                                                     *)

(* _handle_tick: what an earlier failure left retired goes first. *)
TickTaken(t) ==
    /\ service = "up" /\ holder = "nobody" /\ t \in flying
    /\ LateQuotes \/ \A u \in flying : t <= u
    /\ flying' = flying \ {t}
    /\ holder' = "tick" /\ inHand' = t /\ step' = "before"
    /\ UNCHANGED <<market, service, listening, missed, resampler, retired, unsaved, failed,
                   flushing, redis, past, counts>>

(* add_tick, for every timeframe. *)
Fold ==
    /\ holder = "tick" /\ step = "work"
    /\ Retire(Closing(inHand), TRUE)
    /\ builders' = [tf \in Timeframes |->
          IF tf \notin Takes(inHand) THEN builders[tf]
          ELSE LET at == Bucket(inHand, tf)
               IN Folded(IF builders[tf].at = at THEN builders[tf] ELSE Opened(at), inHand)]
    /\ step' = "after"
    /\ UNCHANGED <<market, service, socket, joined, holder, inHand, unsaved, failed, flushing,
                   redis, past, counts>>

BugPersistsNone(tf) ==
    /\ step = "persist" /\ tf \in unsaved
    /\ openBar' = [openBar EXCEPT ![tf] = IF @.at = builders[tf].at THEN @ ELSE builders[tf]]
    /\ unsaved' = unsaved \ {tf}
    /\ UNCHANGED <<market, service, socket, resampler, retired, holder, step, inHand, failed,
                   flushing, mark, closes, past, counts>>

Persist(tf) ==
    /\ step = "persist" /\ tf \in unsaved
    /\ openBar' = [openBar EXCEPT ![tf] = builders[tf]]
    /\ unsaved' = unsaved \ {tf}
    /\ UNCHANGED <<market, service, socket, resampler, retired, holder, step, inHand, failed,
                   flushing, mark, closes, past, counts>>

(* The handler ends; only one without a failure has handled its quote. *)
TickDone ==
    /\ step = "persist" /\ unsaved = {}
    /\ kept' = IF failed THEN kept
               ELSE [tf \in Timeframes |-> IF Bucket(inHand, tf) = builders[tf].at
                                           THEN kept[tf] \cup {inHand} ELSE kept[tf]]
    /\ Release
    /\ UNCHANGED <<market, service, socket, resampler, retired, flushing, redis, silent,
                   deaf, counts>>

(* set_last_tick, or a write of an open bar, fails. *)
TickFails ==
    /\ holder = "tick" /\ (step = "work" \/ unsaved # {})
    /\ faults < MaxFaults
    /\ faults' = faults + 1
    /\ Release
    /\ UNCHANGED <<market, service, socket, resampler, retired, flushing, redis, past, crashes,
                   flushes>>

(* _flush_loop: a cycle that has something to do. *)
ClockTurns ==
    /\ service = "up" /\ holder = "nobody"
    /\ retired # {} \/ Ended # {}
    /\ holder' = "clock" /\ step' = "before"
    /\ UNCHANGED <<market, service, socket, resampler, retired, inHand, unsaved, failed, flushing,
                   redis, past, counts>>

(* _close_ended_bars *)
CloseEnded ==
    /\ holder = "clock" /\ step = "work"
    /\ Retire(Ended, TRUE)
    /\ builders' = [tf \in Timeframes |-> IF tf \in Ended THEN NoBar ELSE builders[tf]]
    /\ step' = "after"
    /\ UNCHANGED <<market, service, socket, joined, holder, inHand, unsaved, failed, flushing,
                   redis, past, counts>>

-----------------------------------------------------------------------------
(* Start, stop, and the socket                                             *)

(* The bars under way are restored, partial; those whose bucket has ended are retired at
   once, with the vendor's close. *)
Start ==
    /\ service = "down"
    /\ service' = "starting"
    /\ LET restored == {tf \in Timeframes : openBar[tf] # NoBar}
           over == {tf \in restored : clock >= End(openBar[tf].at, tf)}
           Bar(tf) == [openBar[tf] EXCEPT !.partial = TRUE]
       IN /\ builders' = [tf \in Timeframes |-> IF tf \in restored \ over THEN Bar(tf) ELSE NoBar]
          /\ lastClosed' = [tf \in Timeframes |-> IF tf \in over THEN openBar[tf].at ELSE Never]
          /\ retired' = {[tf |-> tf, at |-> Bar(tf).at, heard |-> Bar(tf).heard,
                           last |-> Bar(tf).last, partial |-> TRUE, whole |-> FALSE,
                           current |-> FALSE, repaired |-> FALSE] : tf \in over}
    /\ holder' = "start" /\ step' = "after"
    /\ UNCHANGED <<market, socket, joined, inHand, unsaved, failed, flushing, redis, past, counts>>

\* the newest bar that the vendor has of a series; "today" without the bucket under way
VendorNewest(tf) ==
    Max({Never} \cup {Bucket(t, tf) : t \in {t \in quotes : clock >= End(Bucket(t, tf), tf)}})

(* The backfill stores the buckets that have ended, of the series it is served for. *)
Backfill ==
    /\ holder = "start" /\ step = "backfill"
    /\ \E served \in SUBSET Timeframes :
          mark' = [tf \in Timeframes |->
              IF tf \in served THEN Max({mark[tf], VendorNewest(tf)}) ELSE mark[tf]]
    /\ step' = "join"
    /\ UNCHANGED <<market, service, socket, resampler, retired, holder, inHand, unsaved, failed,
                   flushing, openBar, closes, past, counts>>

(* mark_joined, and the feeds are started. *)
Join ==
    /\ holder = "start" /\ step = "join"
    /\ service' = "up" /\ joined' = Moment
    /\ listening' \in {TRUE, ~SocketGaps}
    /\ Release
    /\ UNCHANGED <<market, flying, missed, builders, lastClosed, retired, flushing, redis, past,
                   counts>>

SocketOpens ==
    /\ service = "up" /\ ~listening
    /\ listening' = TRUE
    /\ UNCHANGED <<market, service, flying, missed, resampler, retired, lock, flushing, redis,
                   past, counts>>

SocketDrops ==
    /\ SocketGaps /\ listening
    /\ listening' = FALSE
    /\ UNCHANGED <<market, service, flying, missed, resampler, retired, lock, flushing, redis,
                   past, counts>>

Killed ==
    /\ service # "down" /\ crashes < MaxCrashes
    /\ crashes' = crashes + 1
    /\ Dies
    /\ UNCHANGED <<market, redis, past, faults, flushes>>

-----------------------------------------------------------------------------
(* The operator's /flush, beside the processing lock                       *)

FlushAsked ==
    /\ service = "up" /\ flushing = NoFlush /\ flushes < MaxFlushes
    /\ flushes' = flushes + 1
    /\ flushing' = [left |-> Timeframes, moment |-> Moment]
    /\ UNCHANGED <<market, service, socket, resampler, retired, lock, redis, past, crashes,
                   faults>>

(* discard_candle_state *)
FlushDiscards(tf) ==
    /\ tf \in flushing.left
    /\ flushing' = [flushing EXCEPT !.left = @ \ {tf}]
    /\ openBar' = [openBar EXCEPT ![tf] = NoBar]
    /\ mark' = [mark EXCEPT ![tf] = Never]
    /\ kept' = [kept EXCEPT ![tf] = {}]
    /\ UNCHANGED <<market, service, socket, resampler, retired, lock, closes, silent, deaf,
                   counts>>

FlushJoins ==
    /\ flushing # NoFlush /\ flushing.left = {}
    /\ joined' = flushing.moment
    /\ flushing' = NoFlush
    /\ UNCHANGED <<market, service, socket, builders, lastClosed, retired, lock, redis, past, counts>>

-----------------------------------------------------------------------------
Emission == StageNext \/ RepairNext \/ EmitEnds
Handles == Fold \/ (\E tf \in Timeframes : Persist(tf)) \/ TickDone
FlushLoop == ClockTurns \/ CloseEnded

TicksNext ==
    \/ TimePasses
    \/ Emission \/ EmitFails
    \/ (\E t \in Instants : TickTaken(t)) \/ Handles \/ TickFails
    \/ FlushLoop
    \/ Start \/ Backfill \/ Join \/ Killed
    \/ SocketOpens \/ SocketDrops
    \/ FlushAsked \/ (\E tf \in Timeframes : FlushDiscards(tf)) \/ FlushJoins

TicksSpec == TicksInit /\ [][TicksNext]_tickVars

(* The flush loop turns at every interval, and whoever has the lock goes on. *)
FairTicks == TicksSpec /\ WF_tickVars(Emission) /\ WF_tickVars(Handles) /\ WF_tickVars(FlushLoop)
                 /\ WF_tickVars(Start \/ Backfill \/ Join)

-----------------------------------------------------------------------------
(* Properties                                                              *)

(* resampler.py: "the bar is spent: strategies have acted on it".  A bar is only ever
   staged ahead of every bar staged before it, in its series: no late quote, no restart, no
   failed call and no flush brings a bucket back. *)
StagesForward ==
    [][\A bar \in closes' \ closes, old \in closes :
          bar.tf = old.tf => bar.at > old.at]_tickVars

Quotes(bar) == quotes \cap InBucket(bar.at, bar.tf)

(* What is staged is what the market did.  A bar that goes out as whole has missed no
   quote of its bucket (resampler.py: partial is "built from only part of its bucket"),
   except while its socket was closed, which nothing notices; and a completed one whose
   bucket ended while the service was down closes at the last quote of the bucket
   (repair.py: "from the vendor when it was not"). *)
IsTrue(bar) ==
    /\ bar.whole => Quotes(bar) \cap missed \subseteq deaf
    /\ bar.repaired /\ End(bar.at, bar.tf) \in silent => bar.last = Max(Quotes(bar))
StagedBarsAreTrue == [][\A bar \in closes' \ closes : IsTrue(bar)]_tickVars

(* A quote whose handler succeeded is in Redis from then on, in a bar under way or behind
   the watermark: a restart resumes the bar instead of losing it (settings.py,
   persist_open_candles).  A failed call can break it, and so can a flush beside the
   handler: README. *)
QuotesSurvive ==
    faults = 0 /\ flushes = 0 =>
        \A tf \in DOMAIN kept : \A t \in kept[tf] :
            Bucket(t, tf) <= mark[tf] \/ t \in openBar[tf].heard
================================================================================
