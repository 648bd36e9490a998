---------------------------- MODULE HistoryRequests ----------------------------
(***************************************************************************)
(* The history of every series of a vendor that is another process (the    *)
(* MT5 ingester): asked for over NATS request-reply (history.py,           *)
(* protocol.py), by the start of ingestion (backfill.py), the history      *)
(* loop, a live bar that finds a gap and an operator (service.py).  The    *)
(* vendor announces itself on a connection of its own, which may drop; a   *)
(* request that nobody answers stops the loop until it is announced.       *)
(*                                                                         *)
(* What a merge does to one window beside the live path is CandleStaging.  *)
(* Here a window is how much it holds, whether its newest bar is the last  *)
(* one the vendor closed, and whether bars are missing inside.             *)
(***************************************************************************)
EXTENDS Integers, FiniteSets

CONSTANTS
    Series,         \* the subscriptions of the vendor
    NotServed,      \* those it refuses for good
    Attempts,       \* history_attempts
    Probe,          \* history_offline_probe_interval is set
    MaxEvents       \* bound: outages, losses of the watch, live bars and commands

VARIABLES
    vendor,     \* "down" or "up"
    watch,      \* "none", "listening" or "dropped"
    pending,    \* announcements and reconnects the service has yet to handle
    window,     \* series -> [held, current, hole]
    owed,       \* _history_owed
    offline,    \* _vendor_offline
    wake,       \* _history_wake
    loop,       \* [at, todo]: where the boot or the history loop is
    request,    \* caller -> the request it waits for, or NoRequest
    cooling,    \* series whose gap was asked for a short while ago
    late,       \* series an answer from before the last announcement was used for
    flushed,    \* series flushed since the last announcement
    used        \* events so far

historyVars == <<vendor, watch, pending, window, owed, offline, wake, loop, request, cooling,
                 late, flushed, used>>

Callers == {"loop", "bar", "operator"}
NoRequest == [reply |-> "nobody"]
Waits(c) == request[c] # NoRequest
Event == used < MaxEvents /\ used' = used + 1

-----------------------------------------------------------------------------
(* One request: _ask.  A reply is read when the connection it came on has  *)
(* been closed: much may happen between the answer and its use.            *)

\* _backfill_one: a window that is full and current is not asked for, unless
\* by hand.
NeedsAsking(w) == ~(w.held = "target" /\ w.current)

NewRequest(s, forced) ==
    [s |-> s, reply |-> "none", attempt |-> 1, old |-> FALSE, fresh |-> TRUE,
     whole |-> forced \/ window[s].held # "target"]

\* decode_history_reply and the errors of the request.  "later" is a refusal
\* for now, an unusable reply or no reply to the last attempt.
Answers(c) ==
    IF vendor = "down" THEN {"silence"}
    ELSE IF request[c].s \in NotServed THEN {"never"}
    ELSE {"bars", "later"}

Reply(c) ==
    /\ Waits(c) /\ request[c].reply = "none"
    /\ \E answer \in Answers(c) : request' = [request EXCEPT ![c].reply = answer]
    /\ UNCHANGED <<vendor, watch, pending, window, owed, offline, wake, loop, cooling, late,
                   flushed, used>>

TimesOut(c) ==
    /\ Waits(c) /\ request[c].reply = "none"
    /\ request' = IF request[c].attempt < Attempts
                  THEN [request EXCEPT ![c].attempt = @ + 1]
                  ELSE [request EXCEPT ![c].reply = "later"]
    /\ UNCHANGED <<vendor, watch, pending, window, owed, offline, wake, loop, cooling, late,
                   flushed, used>>

Answered(c) == Waits(c) /\ request[c].reply # "none"
Settles(c) == request[c].reply \in {"bars", "never"}

\* A merge of bars from before an outage leaves the window behind; a top-up
\* does not look inside it.
Merged(c) ==
    IF request[c].reply # "bars" THEN window
    ELSE [window EXCEPT ![request[c].s] =
            [held |-> "target", current |-> request[c].fresh,
             hole |-> @.hole /\ ~request[c].whole]]

\* The use of an answer given before the vendor last came up.
TakesOld(c) ==
    late' = IF ~request[c].old THEN late
            ELSE CASE request[c].reply = "silence" /\ c # "operator" -> Series
                   [] Settles(c) -> late \cup {request[c].s}
                   [] OTHER -> late

-----------------------------------------------------------------------------
(* The start: watch_online, then HistoryBackfiller.run.                    *)

Init ==
    /\ vendor \in {"down", "up"}
    /\ watch \in {"none", "listening"}
    /\ pending = 0
    /\ window \in [Series -> {[held |-> "none", current |-> FALSE, hole |-> FALSE],
                              [held |-> "target", current |-> FALSE, hole |-> FALSE]}]
    /\ owed = {} /\ offline = FALSE /\ wake = FALSE
    /\ loop = [at |-> "boot", todo |-> Series, unwarmed |-> {}]
    /\ request = [c \in Callers |-> NoRequest]
    /\ cooling = {} /\ late = {} /\ flushed = {}
    /\ used = 0

\* The run goes on with todo, or hands what it could not warm to the loop.
BootGoesOn(todo, unwarmed, silent) ==
    IF todo # {}
    THEN /\ loop' = [at |-> "boot", todo |-> todo, unwarmed |-> unwarmed]
         /\ UNCHANGED <<owed, offline>>
    ELSE /\ loop' = [at |-> "starting", todo |-> {}, unwarmed |-> {}]
         /\ owed' = owed \cup unwarmed
         /\ offline' = (offline \/ silent)

\* backfill_series of the next series: one that needs nothing is settled.
BootAsks(s) ==
    /\ loop.at = "boot" /\ ~Waits("loop") /\ s \in loop.todo
    /\ IF NeedsAsking(window[s])
       THEN /\ request' = [request EXCEPT !["loop"] = NewRequest(s, FALSE)]
            /\ UNCHANGED <<owed, offline, loop>>
       ELSE /\ BootGoesOn(loop.todo \ {s}, loop.unwarmed, FALSE)
            /\ UNCHANGED request
    /\ UNCHANGED <<vendor, watch, pending, window, wake, cooling, late, flushed, used>>

\* Silence ends the asking: the rest would hear the same, and is owed with it.
BootTakes ==
    /\ loop.at = "boot" /\ Answered("loop")
    /\ LET q == request["loop"]
           rest == loop.todo \ {q.s}
       IN  CASE q.reply = "silence" -> BootGoesOn({}, loop.unwarmed \cup loop.todo, TRUE)
             [] q.reply = "later" -> BootGoesOn(rest, loop.unwarmed \cup {q.s}, FALSE)
             [] OTHER -> BootGoesOn(rest, loop.unwarmed, FALSE)
    /\ window' = Merged("loop")
    /\ TakesOld("loop")
    /\ request' = [request EXCEPT !["loop"] = NoRequest]
    /\ UNCHANGED <<vendor, watch, pending, wake, cooling, flushed, used>>

\* start, once the feeds are open.
LoopStarts ==
    /\ loop.at = "starting"
    /\ wake' = (wake \/ (owed # {} /\ ~offline))
    /\ loop' = [loop EXCEPT !.at = "top"]
    /\ UNCHANGED <<vendor, watch, pending, window, owed, offline, request, cooling, late,
                   flushed, used>>

-----------------------------------------------------------------------------
(* _history_loop: three waits, then a pass over what is owed.              *)

Waiting ==
    CASE owed = {} -> "idle"
      [] owed # {} /\ offline -> "silent"
      [] owed # {} /\ ~offline /\ wake -> "woken"
      [] OTHER -> "pausing"

LoopTop ==
    /\ loop.at = "top"
    /\ loop' = [loop EXCEPT !.at = Waiting]
    /\ wake' = (wake /\ Waiting = "pausing")
    /\ UNCHANGED <<vendor, watch, pending, window, owed, offline, request, cooling, late,
                   flushed, used>>

Passes ==
    /\ \/ loop.at \in {"idle", "silent"} /\ wake
       \/ loop.at = "silent" /\ Probe
       \/ loop.at \in {"woken", "pausing"}
    /\ loop' = [loop EXCEPT !.at = "pass", !.todo = owed]
    /\ UNCHANGED <<vendor, watch, pending, window, owed, offline, wake, request, cooling, late,
                   flushed, used>>

\* _warm_series of the next series of the pass, which ends when nobody answers.
PassAsks(s) ==
    /\ loop.at = "pass" /\ ~Waits("loop") /\ s \in loop.todo
    /\ IF NeedsAsking(window[s])
       THEN /\ request' = [request EXCEPT !["loop"] = NewRequest(s, FALSE)]
            /\ UNCHANGED <<owed, loop>>
       ELSE /\ owed' = owed \ {s}
            /\ loop' = [loop EXCEPT !.todo = IF offline THEN {} ELSE @ \ {s}]
            /\ UNCHANGED request
    /\ UNCHANGED <<vendor, watch, pending, window, offline, wake, cooling, late, flushed, used>>

PassTakes ==
    /\ loop.at = "pass" /\ Answered("loop")
    /\ LET q == request["loop"] IN
         /\ offline' = (offline \/ q.reply = "silence")
         /\ owed' = IF Settles("loop") THEN owed \ {q.s} ELSE owed
         /\ loop' = [loop EXCEPT !.todo = IF offline' THEN {} ELSE @ \ {q.s}]
         /\ window' = Merged("loop")
    /\ TakesOld("loop")
    /\ request' = [request EXCEPT !["loop"] = NoRequest]
    /\ UNCHANGED <<vendor, watch, pending, wake, cooling, flushed, used>>

PassDone ==
    /\ loop.at = "pass" /\ loop.todo = {} /\ ~Waits("loop")
    /\ loop' = [loop EXCEPT !.at = "top"]
    /\ UNCHANGED <<vendor, watch, pending, window, owed, offline, wake, request, cooling, late,
                   flushed, used>>

-----------------------------------------------------------------------------
(* A live bar: _fill_gap_before, then it is staged with what there is.     *)

Staged(w) == {[held |-> IF w.held = "none" THEN "some" ELSE h, current |-> TRUE,
               hole |-> w.hole \/ (w.held # "none" /\ ~w.current)] :
                 h \in {w.held} \cup (IF w.held = "some" THEN {"target"} ELSE {})}

Runs == loop.at # "boot"

LiveBar(s) ==
    /\ Runs /\ vendor = "up" /\ ~Waits("bar")
    /\ Event
    /\ IF (window[s].held # "none" /\ window[s].current) \/ s \in cooling
       THEN /\ \E w \in Staged(window[s]) : window' = [window EXCEPT ![s] = w]
            /\ UNCHANGED <<request, cooling>>
       ELSE /\ request' = [request EXCEPT !["bar"] = NewRequest(s, FALSE)]
            /\ cooling' = cooling \cup {s}
            /\ UNCHANGED window
    /\ UNCHANGED <<vendor, watch, pending, owed, offline, wake, loop, late, flushed>>

BarTakes ==
    /\ Answered("bar")
    /\ LET q == request["bar"] IN
         /\ offline' = (offline \/ q.reply = "silence")
         /\ owed' = IF Settles("bar") THEN owed \ {q.s} ELSE owed \cup {q.s}
         /\ wake' = (wake \/ (~Settles("bar") /\ ~offline'))
         /\ \E w \in Staged(Merged("bar")[q.s]) : window' = [window EXCEPT ![q.s] = w]
    /\ TakesOld("bar")
    /\ request' = [request EXCEPT !["bar"] = NoRequest]
    /\ UNCHANGED <<vendor, watch, pending, loop, cooling, flushed, used>>

Cools(s) ==
    /\ s \in cooling /\ cooling' = cooling \ {s}
    /\ UNCHANGED <<vendor, watch, pending, window, owed, offline, wake, loop, request, late,
                   flushed, used>>

-----------------------------------------------------------------------------
(* The control plane: _warmup_on_request, forced, and _flush_on_request.   *)

Warmup(s) ==
    /\ Runs /\ ~Waits("operator")
    /\ Event
    /\ request' = [request EXCEPT !["operator"] = NewRequest(s, TRUE)]
    /\ UNCHANGED <<vendor, watch, pending, window, owed, offline, wake, loop, cooling, late,
                   flushed>>

\* Every failure is reported the same; only bars settle the series here.
WarmupTakes ==
    /\ Answered("operator")
    /\ LET q == request["operator"]
       IN  owed' = IF q.reply = "bars" THEN owed \ {q.s} ELSE owed
    /\ window' = Merged("operator")
    /\ TakesOld("operator")
    /\ request' = [request EXCEPT !["operator"] = NoRequest]
    /\ UNCHANGED <<vendor, watch, pending, offline, wake, loop, cooling, flushed, used>>

Flush(s) ==
    /\ Runs /\ Event
    /\ window' = [window EXCEPT ![s] = [held |-> "none", current |-> FALSE, hole |-> FALSE]]
    /\ owed' = owed \cup {s} /\ cooling' = cooling \ {s} /\ flushed' = flushed \cup {s}
    /\ UNCHANGED <<vendor, watch, pending, offline, wake, loop, request, late>>

-----------------------------------------------------------------------------
(* The vendor and its announcement.                                        *)

\* It closes bars nobody hears while it is down.
GoesDown ==
    /\ vendor = "up" /\ Event
    /\ vendor' = "down"
    /\ \E missed \in SUBSET Series :
         window' = [s \in Series |-> [window[s] EXCEPT !.current = @ /\ s \notin missed]]
    /\ request' = [c \in Callers |-> IF Answered(c) THEN [request[c] EXCEPT !.fresh = FALSE]
                                                    ELSE request[c]]
    /\ UNCHANGED <<watch, pending, owed, offline, wake, loop, cooling, late, flushed>>

ComesUp ==
    /\ vendor = "down" /\ vendor' = "up"
    /\ pending' = IF watch = "listening" THEN pending + 1 ELSE pending
    /\ request' = [c \in Callers |-> IF Answered(c) THEN [request[c] EXCEPT !.old = TRUE]
                                                    ELSE request[c]]
    /\ UNCHANGED <<watch, window, owed, offline, wake, loop, cooling, late, flushed, used>>

WatchDrops ==
    /\ watch = "listening" /\ Event
    /\ watch' = "dropped" /\ pending' = 0
    /\ UNCHANGED <<vendor, window, owed, offline, wake, loop, request, cooling, late, flushed>>

\* The reconnect hook asks as an announcement would.
WatchReturns ==
    /\ watch = "dropped" /\ watch' = "listening" /\ pending' = pending + 1
    /\ UNCHANGED <<vendor, window, owed, offline, wake, loop, request, cooling, late, flushed,
                   used>>

\* A slip the docstring of the handler warns of: only what was owed already.
BugQueued == owed

\* _handle_vendor_online: every planned series is checked.
Queued == Series

VendorOnline ==
    /\ pending > 0 /\ pending' = pending - 1
    /\ offline' = FALSE /\ owed' = Queued /\ wake' = TRUE
    /\ late' = {} /\ flushed' = {}
    /\ UNCHANGED <<vendor, watch, window, loop, request, cooling, used>>

Next ==
    \/ BootTakes \/ LoopStarts \/ LoopTop \/ Passes \/ PassTakes \/ PassDone
    \/ BarTakes \/ WarmupTakes
    \/ GoesDown \/ ComesUp \/ WatchDrops \/ WatchReturns \/ VendorOnline
    \/ \E s \in Series : BootAsks(s) \/ PassAsks(s) \/ LiveBar(s) \/ Cools(s) \/ Warmup(s) \/ Flush(s)
    \/ \E c \in Callers : Reply(c) \/ TimesOut(c)

Spec == Init /\ [][Next]_historyVars

-----------------------------------------------------------------------------
(* Nothing is under way and nothing will wake the loop.                    *)
Quiet ==
    /\ loop.at \in {"idle", "silent"} /\ ~wake /\ pending = 0
    /\ \A c \in Callers : ~Waits(c)

(* When the service has come to rest with the vendor up and listened to,   *)
(* the newest bar of every series it serves is the last one the vendor     *)
(* closed, whatever came and went, unless an answer from before the last   *)
(* announcement was used after it, or the window was flushed and nothing   *)
(* has woken the loop since (service.py _history_loop, _warm_series).      *)
RestsCaughtUp ==
    Quiet /\ vendor = "up" /\ watch = "listening" =>
        \A s \in Series \ (NotServed \cup late \cup flushed) : window[s].current
================================================================================
