---------------------------- MODULE SimulatorHub ----------------------------
(***************************************************************************)
(* The market simulator of a development stack and the feed attached to    *)
(* it.  Control connections send commands (control.py) that place bars and *)
(* ticks on one series per symbol (hub.py, bars.py); random walks publish  *)
(* in the background; the feed of the ingestion service receives what is   *)
(* published while it is attached (feed.py), and its resampler makes bars  *)
(* of it.  Every publish awaits a socket, so the commands of two           *)
(* connections, the walks and the clock interleave between any two ticks.  *)
(***************************************************************************)
EXTENDS Integers, Sequences, SequencesExt

CONSTANTS
    Symbols,
    Sessions,       \* control connections
    Rows,           \* runs of bars a command may ask for
    Prices,         \* prices of single ticks and first prices of walks
    Stamps,         \* explicit times of ticks and explicit anchors
    Bucket,         \* length of a bar, a multiple of 4
    MaxBars,        \* MAX_BARS, the bars of one command
    Step,           \* market time between two ticks of a walk
    WalkTicks,      \* bound on the ticks of a walk
    ClockStep,      \* granularity of the wall clock
    None,           \* a time before every other: nothing was sent yet
    MaxNow, MaxCommands, MaxTasks, MaxDrops    \* bounds

VARIABLES
    now,
    hub,        \* per symbol: last price, last tick's time, cursor (None if unset)
    link,       \* the feed's socket as the hub sees it
    open,       \* per symbol: the bar ingestion holds open
    session,    \* the command each connection is in the middle of; a run of bars
                \* carries the candles its watcher has seen, by open time
    names,      \* the generator registered for a symbol, 0 if none
    tasks,      \* the walks: [symbol, state, moment, price, left]
    behind,     \* symbols whose series went on past what the hub remembers
    used        \* commands and drops so far

simVars == <<now, hub, link, open, session, names, tasks, behind, used>>

Later(a, b) == IF a >= b THEN a ELSE b
Floor(t) == t - (t % Bucket)
Idle == [op |-> "idle"]

-----------------------------------------------------------------------------
(* bars.py: a row [open, high, low, close] placed at a time.               *)

Path(row) == IF row.close >= row.open
             THEN <<row.open, row.low, row.high, row.close>>
             ELSE <<row.open, row.high, row.low, row.close>>
Offsets == <<0, Bucket \div 4, Bucket \div 2, Bucket - 1>>

BarTicks(at, row) == [i \in 1..4 |-> [ts |-> at + Offsets[i], price |-> Path(row)[i]]]
SealTick(at, row) == [ts |-> at + Bucket, price |-> row.close]

ExpectedCandle(at, row) == [at |-> at, open |-> row.open, high |-> row.high,
                            low |-> row.low, close |-> row.close, ticks |-> 4]

LastOpen(c) == c.at + (Len(c.rows) - 1) * Bucket
RunOf(c) == {ExpectedCandle(c.at + (i - 1) * Bucket, c.rows[i]) : i \in DOMAIN c.rows}

Past == [mode |-> "past"]
Forward == [mode |-> "next"]
At(t) == [mode |-> "at", at |-> t]

\* anchor_open_times: the first of a run of n bars.
FirstOpen(n, anchor, cursor) ==
    CASE anchor.mode = "past" -> Floor(now) - n * Bucket
      [] anchor.mode = "next" -> IF cursor = None THEN Floor(now)
                                 ELSE Later(cursor + Bucket, Floor(now))
      [] anchor.mode = "at" -> Floor(anchor.at)

-----------------------------------------------------------------------------
(* What ingestion makes of a tick it receives.                             *)

\* No bar is open; what is before or in the spent bucket has gone out.
NoBar(spent) == [at |-> None, spent |-> spent]

Fold(bar, t) == [bar EXCEPT !.close = t.price, !.ticks = @ + 1,
                            !.high = Later(@, t.price),
                            !.low = IF t.price < @ THEN t.price ELSE @]

Resampled(bar, t) ==
    LET at == Floor(t.ts)
        opened == [at |-> at, open |-> t.price, high |-> t.price, low |-> t.price,
                   close |-> t.price, ticks |-> 1]
    IN  IF at > (IF bar.at = None THEN bar.spent ELSE bar.at) THEN opened
        ELSE IF at = bar.at THEN Fold(bar, t)
        ELSE bar

Closes(bar, t) == IF bar.at # None /\ Floor(t.ts) > bar.at THEN {bar} ELSE {}

-----------------------------------------------------------------------------
(* hub.publish: the memory of the series, then every client that wants the *)
(* tick; a client whose socket has failed is dropped.                      *)

Received == link \in {"attached", "subscribed"}

\* FlowWatcher._on_candle: the later candle of a bucket takes its place.
Seen(c, bars) == {b \in c.seen : \A n \in bars : n.at # b.at} \cup bars

\* The watchers of s see bars; a run that somebody else reaches into is no
\* longer clean.
Watched(s, by, bars) ==
    [k \in Sessions |->
        IF session[k].op = "bars" /\ session[k].s = s
        THEN [session[k] EXCEPT !.seen = Seen(session[k], bars),
                                !.clean = @ /\ k = by]
        ELSE session[k]]

\* by is the connection whose command publishes, None for a walk.
Publish(s, t, cursor, by) ==
    /\ hub' = [hub EXCEPT ![s] = [last |-> t.price, ts |-> t.ts, cursor |-> cursor]]
    /\ open' = IF Received THEN [open EXCEPT ![s] = Resampled(@, t)] ELSE open
    /\ link' = IF link = "dead" THEN "down" ELSE link
    /\ behind' = IF t.ts < hub[s].ts THEN behind \cup {s} ELSE behind

\* What a publish of t lets the watchers of s see.
OnPublish(s, t, by) == Watched(s, by, IF Received THEN Closes(open[s], t) ELSE {})

AdvanceCursor(s, at) == IF hub[s].cursor = None \/ at > hub[s].cursor THEN at ELSE hub[s].cursor

\* A slip in _series_end: the cursor alone, without the loose ticks.
BugSeriesEnd(s) == hub[s].cursor

\* _series_end: the last bucket anything was sent into.
SeriesEnd(s) == IF hub[s].ts = None THEN hub[s].cursor
                                    ELSE Later(hub[s].cursor, Floor(hub[s].ts))
-----------------------------------------------------------------------------
NewHub == [s \in Symbols |-> [last |-> None, ts |-> None, cursor |-> None]]
NoTask == [symbol |-> None, state |-> "none", moment |-> 0, price |-> 0, left |-> 0]

Init == /\ now = 0
        /\ hub = NewHub
        /\ link = "down"
        /\ open = [s \in Symbols |-> NoBar(None)]
        /\ session = [k \in Sessions |-> Idle]
        /\ names = [s \in Symbols |-> 0]
        /\ tasks = [i \in 1..MaxTasks |-> NoTask]
        /\ behind = {}
        /\ used = [commands |-> 0, drops |-> 0]

Clock == /\ now < MaxNow /\ now' = now + ClockStep
         /\ UNCHANGED <<hub, link, open, session, names, tasks, behind, used>>

\* The wall-clock flush of ingestion closes a bar whose bucket is over, in the
\* middle of a run too: a run whose bar it cuts is no longer clean.
Flush(s) ==
    /\ open[s].at # None /\ now >= open[s].at + Bucket
    /\ open' = [open EXCEPT ![s] = NoBar(open[s].at)]
    /\ session' = [k \in Sessions |-> LET c == session[k] IN
           IF c.op = "bars" /\ c.s = s
           THEN [c EXCEPT !.seen = Seen(c, {open[s]}),
                          !.clean = @ /\ (open[s].at < c.at \/ open[s] \in RunOf(c))]
           ELSE c]
    /\ UNCHANGED <<now, hub, link, names, tasks, behind, used>>

(* The feed: SimulatorLiveFeed._run and SimulatorServer._serve_stream.     *)

Unclean == [k \in Sessions |-> IF session[k].op = "bars"
                               THEN [session[k] EXCEPT !.clean = FALSE] ELSE session[k]]

Attach == /\ link = "down" /\ link' = "attached"
          /\ UNCHANGED <<now, hub, open, session, names, tasks, behind, used>>

Subscribe == /\ link = "attached" /\ link' = "subscribed"
             /\ UNCHANGED <<now, hub, open, session, names, tasks, behind, used>>

Drop == /\ Received /\ used.drops < MaxDrops
        /\ link' \in {"down", "dead"}
        /\ used' = [used EXCEPT !.drops = @ + 1]
        /\ session' = Unclean
        /\ UNCHANGED <<now, hub, open, names, tasks, behind>>

-----------------------------------------------------------------------------
(* Commands: SimulatorServer._on_control_frame and dispatch.  A connection *)
(* handles one command at a time.                                          *)

Begin(k) == /\ session[k] = Idle /\ used.commands < MaxCommands
            /\ used' = [used EXCEPT !.commands = @ + 1]

\* _tick, with the time of the command or _next_moment.
NextMoment(s) == IF hub[s].ts = None THEN now ELSE Later(now, hub[s].ts + 1)

Tick(k, s) == /\ Begin(k)
              /\ \E p \in Prices, at \in Stamps \cup {NextMoment(s)} :
                    LET t == [ts |-> at, price |-> p] IN
                    /\ Publish(s, t, hub[s].cursor, k)
                    /\ session' = OnPublish(s, t, k)
              /\ UNCHANGED <<now, names, tasks>>

\* _bars up to its first await: the run is placed on the clock.  later are
\* the rows of the batches the command line has still to send.
Placed(s, rows, anchor, later, seal, clean) ==
    LET n == Len(rows)
        first == FirstOpen(n, anchor, IF anchor.mode = "next" THEN SeriesEnd(s) ELSE None)
    IN  [op |-> "bars", s |-> s, at |-> first, rows |-> rows, sent |-> 0,
         seal |-> seal /\ later = <<>>, sealing |-> seal, later |-> later, clean |-> clean,
         seen |-> {}, asked |-> {}]

Batch(rows) == SubSeq(rows, 1, IF Len(rows) > MaxBars THEN MaxBars ELSE Len(rows))
AfterBatch(rows) == SubSeq(rows, MaxBars + 1, Len(rows))

\* _first_open_time: "past" is where the whole run ends.
FirstAnchor(anchor, n) == IF anchor.mode = "past" /\ n > MaxBars
                          THEN At(FirstOpen(n, anchor, None)) ELSE anchor

Bars(k, s) ==
    /\ Begin(k)
    /\ \E rows \in Rows, seal \in BOOLEAN,
          anchor \in {Past, Forward} \cup {At(t) : t \in Stamps} :
          session' = [session EXCEPT ![k] =
              Placed(s, Batch(rows), FirstAnchor(anchor, Len(rows)), AfterBatch(rows), seal,
                     /\ anchor.mode = "next" /\ seal /\ link = "subscribed" /\ s \notin behind
                     /\ \A j \in Sessions \ {k} : session[j] = Idle)]
    /\ UNCHANGED <<now, hub, link, open, names, tasks, behind>>

\* One publish of the run; the fourth tick of a bar moves the cursor.
PlayTick(k) ==
    LET c == session[k]
        i == (c.sent \div 4) + 1
        at == c.at + (i - 1) * Bucket
        t == BarTicks(at, c.rows[i])[(c.sent % 4) + 1]
    IN  /\ c.op = "bars" /\ c.sent < 4 * Len(c.rows)
        /\ Publish(c.s, t, IF c.sent % 4 = 3 THEN AdvanceCursor(c.s, at)
                                             ELSE hub[c.s].cursor, k)
        /\ session' = [OnPublish(c.s, t, k) EXCEPT ![k].sent = @ + 1]
        /\ UNCHANGED <<now, names, tasks, used>>

\* The seal of the last batch, or the answer to a batch that has none: the
\* command line sends the next one right after it.
Answered(k) ==
    LET c == session[k]
    IN  IF c.later = <<>> THEN Idle
        ELSE [Placed(c.s, Batch(c.later), At(LastOpen(c) + Bucket),
                     AfterBatch(c.later), c.sealing, c.clean)
              EXCEPT !.seen = c.seen, !.asked = c.asked \cup RunOf(c)]

Finish(k) ==
    LET c == session[k]
        t == SealTick(LastOpen(c), Last(c.rows))
    IN  /\ c.op = "bars" /\ c.sent = 4 * Len(c.rows)
        /\ IF c.seal
           THEN /\ Publish(c.s, t, AdvanceCursor(c.s, t.ts), k)
                /\ session' = [OnPublish(c.s, t, k) EXCEPT ![k] = Answered(k)]
           ELSE /\ session' = [session EXCEPT ![k] = Answered(k)]
                /\ UNCHANGED <<hub, open, link, behind>>
        /\ UNCHANGED <<now, names, tasks, used>>

-----------------------------------------------------------------------------
(* Generators: stop_generators pops each name, cancels its task and waits  *)
(* for it; the done callback of a task pops its name whoever holds it.     *)

WalkPrice(s, p) == IF p # None THEN p ELSE hub[s].last

\* _walk and _stop and _reset, up to the first generator they stop.
Walk(k, s) == /\ Begin(k)
              /\ \E p \in Prices \cup {None} :
                    /\ WalkPrice(s, p) # None
                    /\ session' = [session EXCEPT ![k] =
                           [op |-> "walk", s |-> s, price |-> WalkPrice(s, p),
                            targets |-> {s}, waits |-> 0]]
              /\ UNCHANGED <<now, hub, link, open, names, tasks, behind>>

StopAll(k, op) ==
    /\ Begin(k)
    /\ session' = [session EXCEPT ![k] =
           [op |-> op, targets |-> {s \in Symbols : names[s] # 0}, waits |-> 0]]
    /\ UNCHANGED <<now, hub, link, open, names, tasks, behind>>

Stopping(k) == session[k].op \in {"walk", "stop", "reset"}
Waited(k) == session[k].waits # 0 => tasks[session[k].waits].state = "over"

\* One name popped: a task that has ended already is not waited for.
StopOne(k, s) ==
    /\ Stopping(k) /\ Waited(k) /\ s \in session[k].targets
    /\ LET i == names[s]
           runs == i # 0 /\ tasks[i].state = "running"
       IN  /\ tasks' = IF runs THEN [tasks EXCEPT ![i].state = "cancelled"] ELSE tasks
           /\ session' = [session EXCEPT ![k].targets = @ \ {s},
                                         ![k].waits = IF runs THEN i ELSE 0]
    /\ names' = [names EXCEPT ![s] = 0]
    /\ UNCHANGED <<now, hub, link, open, behind, used>>

\* The done callback, after a cancellation or at the end of a walk.
Ended(i) == /\ tasks[i].state \in {"cancelled", "finished"}
            /\ tasks' = [tasks EXCEPT ![i].state = "over"]
            /\ names' = [names EXCEPT ![tasks[i].symbol] = 0]
            /\ UNCHANGED <<now, hub, link, open, session, behind, used>>

Stopped(k) == Stopping(k) /\ Waited(k) /\ session[k].targets = {}

\* _walk after its wait: the task starts where the series is now.
WalkStarts(k) ==
    /\ Stopped(k) /\ session[k].op = "walk"
    /\ \E i \in 1..MaxTasks :
          /\ tasks[i].state = "none" /\ \A j \in 1..(i - 1) : tasks[j].state # "none"
          /\ LET c == session[k] IN
                /\ tasks' = [tasks EXCEPT ![i] =
                       [symbol |-> c.s, state |-> "running", price |-> c.price,
                        left |-> WalkTicks,
                        moment |-> IF hub[c.s].ts = None THEN now
                                   ELSE Later(now, hub[c.s].ts + Step)]]
                /\ names' = [names EXCEPT ![c.s] = i]
    /\ session' = [session EXCEPT ![k] = Idle]
    /\ UNCHANGED <<now, hub, link, open, behind, used>>

StopDone(k) == /\ Stopped(k) /\ session[k].op = "stop"
               /\ session' = [session EXCEPT ![k] = Idle]
               /\ UNCHANGED <<now, hub, link, open, names, tasks, behind, used>>

\* hub.reset: the memory of the series goes, what ingestion holds stays.
ResetDone(k) == /\ Stopped(k) /\ session[k].op = "reset"
                /\ hub' = NewHub
                /\ behind' = behind \cup {s \in Symbols : hub[s].ts # None}
                /\ session' = [session EXCEPT ![k] = Idle]
                /\ UNCHANGED <<now, link, open, names, tasks, used>>

\* One tick of a walk; the last one ends the coroutine.
WalkTick(i) ==
    LET w == tasks[i]
    IN  /\ w.state = "running" /\ w.left > 0
        /\ \E p \in Prices :
              LET t == [ts |-> w.moment, price |-> p] IN
              /\ Publish(w.symbol, t, hub[w.symbol].cursor, None)
              /\ session' = OnPublish(w.symbol, t, None)
              /\ tasks' = [tasks EXCEPT ![i] =
                     [w EXCEPT !.price = p, !.left = @ - 1,
                               !.moment = Later(now, @ + Step),
                               !.state = IF w.left = 1 THEN "finished" ELSE @]]
        /\ UNCHANGED <<now, names, used>>

\* The simulator is stopped and started again; ingestion goes on.
Restart == /\ used.drops < MaxDrops
           /\ hub' = NewHub /\ link' = "down"
           /\ session' = [k \in Sessions |-> Idle]
           /\ names' = [s \in Symbols |-> 0]
           /\ tasks' = [i \in 1..MaxTasks |->
                  IF tasks[i].state = "none" THEN tasks[i] ELSE [tasks[i] EXCEPT !.state = "over"]]
           /\ behind' = behind \cup {s \in Symbols : hub[s].ts # None}
           /\ used' = [used EXCEPT !.drops = @ + 1]
           /\ UNCHANGED <<now, open>>

Next == \/ Clock \/ Attach \/ Subscribe \/ Drop \/ Restart
        \/ \E s \in Symbols : Flush(s)
        \/ \E k \in Sessions :
              \/ \E s \in Symbols : Tick(k, s) \/ Bars(k, s) \/ Walk(k, s) \/ StopOne(k, s)
              \/ PlayTick(k) \/ Finish(k)
              \/ StopAll(k, "stop") \/ StopAll(k, "reset")
              \/ WalkStarts(k) \/ StopDone(k) \/ ResetDone(k)
        \/ \E i \in 1..MaxTasks : WalkTick(i) \/ Ended(i)

Spec == Init /\ [][Next]_simVars
-----------------------------------------------------------------------------
(* What the command line verifies: when a sealed run of bars, placed at    *)
(* "next" on a series the hub has kept track of, ends with the feed        *)
(* attached all along, nobody else on the symbol and no bar of it cut by   *)
(* the wall clock, ingestion has closed each of its bars exactly as it was *)
(* asked for, whatever was sent before and however many commands the run   *)
(* took (bars.py, control.py, verify.py).                                  *)
BarsComeBack ==
    \A k \in Sessions :
          Finish(k) /\ session[k].clean /\ session[k].seal
             => LET t == SealTick(LastOpen(session[k]), Last(session[k].rows))
                IN  session[k].asked \cup RunOf(session[k])
                       \subseteq OnPublish(session[k].s, t, k)[k].seen
=============================================================================
