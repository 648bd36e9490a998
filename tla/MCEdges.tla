------------------------------- MODULE MCEdges -------------------------------
(***************************************************************************)
(* Small instances of the modules at the edges of the engine: one system,  *)
(* chosen at the start, runs alone.  They share nothing, so that one run   *)
(* checks what a run for each would.  The variables v1, v2, ... are those  *)
(* of the system that runs, in the order its module declares them; the     *)
(* others stay 0.                                                          *)
(***************************************************************************)
EXTENDS Integers, Sequences, TLC

CONSTANTS Systems,                         \* the systems that are run
          Absent, Junk, On, Off, Refused   \* model values of StrategySettings

VARIABLES system, v1, v2, v3, v4, v5, v6, v7, v8, v9, v10, v11, v12, v13, v14, v15, v16

-----------------------------------------------------------------------------
(* Two live bars, one replayed for a warm-up, and one of another version.  *)
Bar == [is_bar |-> TRUE, version |-> <<1>>, warmup_bar |-> "absent", index |-> 0,
        total |-> 0, planned |-> TRUE, span |-> 1]
FourDocuments == <<Bar, [Bar EXCEPT !.warmup_bar = "true", !.index = 1, !.total = 1],
                   [Bar EXCEPT !.version = <<2>>], Bar>>

(* Strategies that fit, take too few arguments or leave a hook abstract;   *)
(* repositories that offer one or two, switch one off, state a market      *)
(* policy, one that reads or one that does not, have no manifest or two.   *)
Base == [abstract |-> {"entry", "exit"}, defines |-> {"on_candle_closed", "re_stop"}]
Good == [layers |-> <<[abstract |-> {}, defines |-> {"entry", "exit"}], Base>>,
         attributes |-> TRUE, arity |-> "fits", named |-> TRUE, timeframe |-> TRUE,
         warmup |-> 2, history |-> 3, constructs |-> TRUE, symbols |-> {"X"}]
Misfit == [Good EXCEPT !.arity = "short"]
Half == [Good EXCEPT !.layers = <<[abstract |-> {}, defines |-> {"entry"}], Base>>]
Window == [unknown |-> FALSE, enabled |-> Absent, from |-> 5, until |-> 1, extra |-> {}]
Policy(w) == "a" :> [unknown |-> FALSE, weekend |-> w]
Rep == [manifests |-> 1, imports |-> TRUE, offers |-> "a" :> Good, switch |-> Absent,
        settings |-> Absent, loose |-> "a" :> Good]
RepositoryContents ==
    {[manifests |-> -1], Rep,
     [Rep EXCEPT !.offers = "a" :> Misfit @@ "b" :> Good],
     [Rep EXCEPT !.offers = "a" :> Half],
     [Rep EXCEPT !.offers = "b" :> Good, !.switch = {"a"}],
     [Rep EXCEPT !.switch = Junk],
     [Rep EXCEPT !.settings = Policy(Window)],
     [Rep EXCEPT !.settings = Policy([Window EXCEPT !.until = 5])],
     [Rep EXCEPT !.manifests = 0], [Rep EXCEPT !.manifests = 2]}

(* No mapping file, and one symbol with overrides of no, another or the    *)
(* strategy it maps.                                                       *)
Mapped(n, p) == [symbols |-> "X" :> [enabled |-> TRUE, names |-> n, params |-> p],
                 names |-> {"a"}, defaults |-> [z \in {} |-> 0]]
MappingTables ==
    {Absent, Mapped({}, [z \in {} |-> 0]),
     Mapped({"b"}, "b" :> [flat |-> On, warmup |-> Absent]),
     Mapped({"a"}, "a" :> [flat |-> On, warmup |-> 3])}

Rises == [open |-> 1, high |-> 2, low |-> 1, close |-> 2]
Falls == [open |-> 2, high |-> 2, low |-> 1, close |-> 1]

(* A live book of two providers, the simulator, the simulator beside a     *)
(* provider, and one provider; bars from before state was stamped.         *)
SomeScopes ==
    {[environment |-> "prod", mode |-> "live", providers |-> {"mt5", "binance"}],
     [environment |-> "dev", mode |-> "dev", providers |-> {"simulator"}],
     [environment |-> "dev", mode |-> "dev", providers |-> {"simulator", "mt5"}],
     [environment |-> "dev", mode |-> "live", providers |-> {"mt5"}]}
OldBars == {[symbol |-> "x", by |-> "unknown", closes |-> 0],
            [symbol |-> "x", by |-> "mt5", closes |-> 2]}

(* Two cycles of one pair; Redis behind the table; one id on two pairs,    *)
(* in Redis or across Redis and the table.                                 *)
Cycle(p, u, o) == [pair |-> p, uxid |-> u, old |-> o]
SomeBooks ==
    {[redis |-> {Cycle("a", 1, TRUE), Cycle("a", 2, TRUE)}, table |-> {Cycle("b", 3, TRUE)}],
     [redis |-> {Cycle("a", 1, TRUE)}, table |-> {Cycle("a", 1, TRUE), Cycle("b", 3, FALSE)}],
     [redis |-> {Cycle("a", 1, TRUE), Cycle("b", 1, TRUE)}, table |-> {Cycle("a", 1, TRUE)}],
     [redis |-> {Cycle("a", 1, TRUE)}, table |-> {Cycle("z", 1, TRUE)}]}

ThreeCycles == [c1 |-> [strategy |-> <<"a">>, symbol |-> <<"X">>],
                c2 |-> [strategy |-> <<"a", "b">>, symbol |-> <<"X">>],
                c3 |-> [strategy |-> <<"a">>, symbol |-> <<"Y">>]]

RegimeOutcomes ==
    [a |-> {[on |-> <<"raises", "enters">>, fillable |-> TRUE]},
     b |-> {[on |-> <<"raises", "junk">>, fillable |-> TRUE],
            [on |-> <<"declines", "raises">>, fillable |-> TRUE],
            [on |-> <<"enters", "junk">>, fillable |-> FALSE]}]

-----------------------------------------------------------------------------
Messages == INSTANCE CycleMessages
    WITH Rows <- 3, Capacity <- 1, MaxBlocks <- 1, MaxTroubles <- 1, MaxRepeats <- 1,
         Chats <- <<"b", "p">>,
         outbox <- v1, notifier <- v2, updates <- v3, worker <- v4, cycle <- v5,
         posts <- v6, excuses <- v7, troubles <- v8
Errors == INSTANCE ErrorForwarding
    WITH Errors <- {"a", "b"}, SendPath <- {"sink"}, Chats <- <<"p", "q">>,
         QueueCapacity <- 1, Window <- 2, Active <- TRUE, Announces <- TRUE,
         MaxNow <- 2, MaxErrors <- 3,
         life <- v1, attached <- v2, taking <- v3, recent <- v4, calls <- v5,
         queue <- v6, sending <- v7, now <- v8, started <- v9, telling <- v10,
         told <- v11, closes <- v12, errors <- v13, logged <- v14, sent <- v15,
         dropped <- v16
Stream == INSTANCE IngesterFeed
    WITH Documents <- FourDocuments, JetStream <- TRUE, MaxPending <- 2,
         FetchBatch <- 3, Accepted <- {<<1, 0, 0>>}, HasWarmupSink <- TRUE,
         MaxBreaks <- 1, MaxStops <- 1,
         published <- v1, unacked <- v2, inFlight <- v3, receiver <- v4, inbox <- v5,
         handling <- v6, handed <- v7, refused <- v8, spilled <- v9, unheard <- v10,
         breaks <- v11, stops <- v12
Core == INSTANCE IngesterFeed
    WITH Documents <- FourDocuments, JetStream <- FALSE, MaxPending <- 2,
         FetchBatch <- 3, Accepted <- {<<1, 0, 0>>}, HasWarmupSink <- TRUE,
         MaxBreaks <- 1, MaxStops <- 1,
         published <- v1, unacked <- v2, inFlight <- v3, receiver <- v4, inbox <- v5,
         handling <- v6, handed <- v7, refused <- v8, spilled <- v9, unheard <- v10,
         breaks <- v11, stops <- v12
Mounts == INSTANCE StrategyMounts
    WITH Repos <- {1, 2}, Skipped <- {}, Mode <- "error", Week <- 7, MaxEdits <- 1,
         Contents <- RepositoryContents, Tables <- MappingTables,
         contents <- v1, table <- v2, record <- v3, engine <- v4, stale <- v5,
         slots <- v6, edits <- v7
Simulator == INSTANCE SimulatorHub
    WITH Symbols <- {"X"}, Sessions <- {1}, Rows <- {<<Falls, Rises>>}, Prices <- {1},
         Stamps <- {9}, Bucket <- 4, None <- -9, MaxBars <- 1, Step <- 2, WalkTicks <- 1,
         MaxNow <- 4, ClockStep <- 4, MaxCommands <- 2, MaxTasks <- 1, MaxDrops <- 1,
         now <- v1, hub <- v2, link <- v3, open <- v4, session <- v5, names <- v6,
         tasks <- v7, behind <- v8, used <- v9
History == INSTANCE HistoryRequests
    WITH Series <- {"a", "b"}, NotServed <- {"b"}, Attempts <- 1, Probe <- FALSE,
         MaxEvents <- 2,
         vendor <- v1, watch <- v2, pending <- v3, window <- v4, owed <- v5,
         offline <- v6, wake <- v7, loop <- v8, request <- v9, cooling <- v10,
         late <- v11, flushed <- v12, used <- v13
Archive == INSTANCE HistoryCache
    WITH LastDay <- 4, Requests <- {[from |-> 0, to |-> 3], [from |-> 2, to |-> 4]},
         Warmers <- {"ingestion"}, Downloaders <- {"download"}, Readers <- {"backtest"},
         Tolerance <- 1, Production <- FALSE, HasParquet <- TRUE, MaxAsks <- 2,
         file <- v1, work <- v2, asks <- v3, saved <- v4, clean <- v5, replies <- v6
Guard == INSTANCE StateGuard
    WITH Symbols <- {"x", "y"}, Scopes <- SomeScopes, Legacy <- OldBars, MaxNow <- 1,
         MaxBars <- 2, MaxCrashes <- 2,
         now <- v1, scope <- v2, plan <- v3, ticks <- v4, closed <- v5, opened <- v6,
         outbox <- v7, writer <- v8, phase <- v9, loose <- v10, made <- v11,
         crashes <- v12
Flush == INSTANCE StaleFlush
    WITH Pairs <- {"a", "b"}, Worlds <- SomeBooks, Modes <- {"off", "warn", "close"},
         Stored <- [a |-> <<1, 1, 2, 3>>, b |-> <<>>], Decided <- [a |-> 3, b |-> 0],
         Now <- 3, AllowFuture <- FALSE, MaxStarts <- 2,
         phase <- v1, mode <- v2, redis <- v3, table <- v4, book <- v5, todo <- v6,
         sending <- v7, unsure <- v8, rows <- v9, starts <- v10
Bot == INSTANCE OperatorBot
    WITH Users <- {1, 2}, Operators <- {1}, TooLong <- {}, PerPage <- 1,
         MaxMessages <- 1, MaxPresses <- 3, MaxFaults <- 1, Cycles <- ThreeCycles,
         Symbols <- {<<"X">>},
         open <- v1, ended <- v2, runner <- v3, blocked <- v4, messages <- v5,
         flats <- v6, reading <- v7, closedBy <- v8, windows <- v9, presses <- v10,
         faults <- v11
Drill == INSTANCE DemoDrill
    WITH Mounted <- {"a", "z"}, Broken <- {}, MaxFaults <- 1, Drills <- {1, 2},
         Loaded <- <<"a", "b">>, SymbolsOf <- [a |-> <<"X">>, b |-> <<"Y", "X">>],
         Regimes <- <<"up", "down">>, MayDo <- RegimeOutcomes,
         drill <- v1, lock <- v2, wire <- v3, cards <- v4, faults <- v5

-----------------------------------------------------------------------------
(* A system that has k variables leaves those from k + 1 on at 0.          *)
Zero6 == v6 = 0 /\ v7 = 0 /\ v8 = 0 /\ v9 = 0 /\ v10 = 0 /\ v11 = 0 /\ v12 = 0 /\ v13 = 0 /\
          v14 = 0 /\ v15 = 0 /\ v16 = 0
Zero7 == v7 = 0 /\ v8 = 0 /\ v9 = 0 /\ v10 = 0 /\ v11 = 0 /\ v12 = 0 /\ v13 = 0 /\ v14 = 0 /\
          v15 = 0 /\ v16 = 0
Zero8 == v8 = 0 /\ v9 = 0 /\ v10 = 0 /\ v11 = 0 /\ v12 = 0 /\ v13 = 0 /\ v14 = 0 /\ v15 = 0 /\ v16 = 0
Zero9 == v9 = 0 /\ v10 = 0 /\ v11 = 0 /\ v12 = 0 /\ v13 = 0 /\ v14 = 0 /\ v15 = 0 /\ v16 = 0
Zero10 == v10 = 0 /\ v11 = 0 /\ v12 = 0 /\ v13 = 0 /\ v14 = 0 /\ v15 = 0 /\ v16 = 0
Zero11 == v11 = 0 /\ v12 = 0 /\ v13 = 0 /\ v14 = 0 /\ v15 = 0 /\ v16 = 0
Zero12 == v12 = 0 /\ v13 = 0 /\ v14 = 0 /\ v15 = 0 /\ v16 = 0
Zero13 == v13 = 0 /\ v14 = 0 /\ v15 = 0 /\ v16 = 0
Zero14 == v14 = 0 /\ v15 = 0 /\ v16 = 0
Rest6 == <<v6, v7, v8, v9, v10, v11, v12, v13, v14, v15, v16>>
Rest7 == <<v7, v8, v9, v10, v11, v12, v13, v14, v15, v16>>
Rest8 == <<v8, v9, v10, v11, v12, v13, v14, v15, v16>>
Rest9 == <<v9, v10, v11, v12, v13, v14, v15, v16>>
Rest10 == <<v10, v11, v12, v13, v14, v15, v16>>
Rest11 == <<v11, v12, v13, v14, v15, v16>>
Rest12 == <<v12, v13, v14, v15, v16>>
Rest13 == <<v13, v14, v15, v16>>
Rest14 == <<v14, v15, v16>>
all == <<system, v1, v2, v3, v4, v5, v6, v7, v8, v9, v10, v11, v12, v13, v14, v15, v16>>

Init ==
    /\ system \in Systems
    /\ CASE system = "messages" -> Messages!Init /\ Zero9
         [] system = "errors" -> Errors!Init
         [] system = "stream" -> Stream!Init /\ Zero13
         [] system = "core" -> Core!Init /\ Zero13
         [] system = "mounts" -> Mounts!Init /\ Zero8
         [] system = "simulator" -> Simulator!Init /\ Zero10
         [] system = "history" -> History!Init /\ Zero14
         [] system = "archive" -> Archive!Init /\ Zero7
         [] system = "guard" -> Guard!Init /\ Zero13
         [] system = "flush" -> Flush!Init /\ Zero11
         [] system = "bot" -> Bot!Init /\ Zero12
         [] system = "drill" -> Drill!Init /\ Zero6

Next ==
    /\ UNCHANGED system
    /\ \/ system = "messages" /\ Messages!Next /\ UNCHANGED Rest9
       \/ system = "errors" /\ Errors!Next
       \/ system = "stream" /\ Stream!Next /\ UNCHANGED Rest13
       \/ system = "core" /\ Core!Next /\ UNCHANGED Rest13
       \/ system = "mounts" /\ Mounts!Next /\ UNCHANGED Rest8
       \/ system = "simulator" /\ Simulator!Next /\ UNCHANGED Rest10
       \/ system = "history" /\ History!Next /\ UNCHANGED Rest14
       \/ system = "archive" /\ Archive!Next /\ UNCHANGED Rest7
       \/ system = "guard" /\ Guard!Next /\ UNCHANGED Rest13
       \/ system = "flush" /\ Flush!Next /\ UNCHANGED Rest11
       \/ system = "bot" /\ Bot!Next /\ UNCHANGED Rest12
       \/ system = "drill" /\ Drill!Next /\ UNCHANGED Rest6

Spec == Init /\ [][Next]_all

-----------------------------------------------------------------------------
(* A chat gets a second message of a cycle only for a cause and no message *)
(* shows an action twice (telegram_notify.py).  No error is kept from an   *)
(* operator but by a send that failed or a queue that was full, neither    *)
(* for more than a window, none comes twice within it (telegram_errors.py) *)
(* and what the chats are sent of a service's start and end is true of it  *)
(* (service_status.py).                                                    *)
ChatsHearOnce ==
    /\ system = "messages" => Messages!SecondMessageHasACause /\ Messages!ActionsShowOnce
    /\ system = "errors" => Errors!ErrorsAreHeardOnce /\ Errors!DownFollowsUp

(* No bar of the ingester's is lost between its stream and ingestion, or   *)
(* handed over out of order, unless a call broke off (mt5/feed.py).        *)
EveryBarIsSomewhere ==
    /\ system = "stream" => Stream!EveryBarIsSomewhere /\ Stream!InOrderUnlessBroken
    /\ system = "core" => Core!EveryBarIsSomewhere

(* A runner runs no strategy that its repository or the audit of this      *)
(* start keeps out (plugin_loader.py, preflight.py).                       *)
RunsWhatIsFit == [][system = "mounts" => Mounts!RunsWhatIsFit]_all

(* Every bar a simulator command asked for comes back out of ingestion as  *)
(* it was asked for (qte_simulator/verify.py).                             *)
BarsComeBack == [][system = "simulator" => Simulator!BarsComeBack]_all

(* When the history requests come to rest, every window is as new as the   *)
(* vendor's (service.py _history_loop).                                    *)
RestsCaughtUp == system = "history" => History!RestsCaughtUp

(* Days saved in the parquet archive stay saved (history_cache.py).        *)
ArchiveOnlyGrows == system = "archive" => Archive!ArchiveOnlyGrows

(* A start is safe: ingestion builds on bars of its own market only        *)
(* (state_guard.py), and the runner closes at most once what it may close  *)
(* and trades no book in which two pairs hold one cycle id (runner.py      *)
(* _flush_stale_positions).                                                *)
StartsAreSafe ==
    [][/\ system = "guard" => Guard!BuildsOnItsOwn
       /\ system = "flush" => Flush!FlushIsSafe']_all

(* What an operator asked for is what happens, and what he is told is what *)
(* happened: /flat closes the scope of the question he answered, paging    *)
(* through /closed misses nothing (qte_bot), and the report of a drill is  *)
(* true, with the cards of two drills apart (demo_signal.py).              *)
OperatorIsAnswered ==
    /\ system = "bot" => Bot!FlatIsWhatWasAsked /\ Bot!PagesMissNothing
    /\ system = "drill" => Drill!ReportIsTrue /\ Drill!DrillsDoNotMix
=============================================================================
