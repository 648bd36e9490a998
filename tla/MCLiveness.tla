------------------------------ MODULE MCLiveness ------------------------------
(***************************************************************************)
(* What must happen in the end, in four systems: one of them, chosen at    *)
(* the start, runs alone, under the fairness that its module justifies.    *)
(* The variables of the others stay 0.                                     *)
(*   "feed"      CandleFeed: Redis fails between two bars                  *)
(*   "weekend"   EntryGates: two pairs and a clock that runs into a window *)
(*               that wraps the week                                       *)
(*   "switches"  OperatorSwitches: two changes of the shadow mode          *)
(*   "ticks"     TickBars: a quiet market, failed calls and a crash        *)
(***************************************************************************)
EXTENDS Integers, FiniteSets

CONSTANT Systems    \* the systems that are run

VARIABLES
    system,
    now, mark,      \* of whichever system has one
    stored, sent, phase, startedAt, buffer, job, decisions, spoiled,
    newest, task, open, built, entriesInFlight, uncertain, outbox, ticks, decided, late,
    storedMode, storedGate, chats, bus, up, sinkMode, runnerGate, tasks, control, sync,
    gateCommands, modeCommands, bars, starts, paused, gated, since, blind,
    quotes, service, listening, flying, missed, builders, lastClosed, joined, retired,
    holder, step, inHand, unsaved, failed, flushing, openBar, closes, kept, silent,
    deaf, crashes, faults, flushes

ofFeed == <<stored, sent, phase, startedAt, buffer, job, decisions, spoiled>>
ofGates == <<newest, task, open, built, entriesInFlight, uncertain, outbox, ticks, decided,
             late>>
ofSwitches == <<storedMode, storedGate, chats, bus, up, sinkMode, runnerGate, tasks, control,
                sync, gateCommands, modeCommands, bars, starts, paused, gated, since, blind>>
ofTicks == <<quotes, service, listening, flying, missed, builders, lastClosed, joined, retired,
             holder, step, inHand, unsaved, failed, flushing, openBar, closes, kept, silent,
             deaf, crashes, faults, flushes>>
feedVars == <<now, mark, ofFeed>>
gatesVars == <<now, ofGates>>
switchesVars == ofSwitches
ticksVars == <<now, mark, ofTicks>>
all == <<system, now, mark, ofFeed, ofGates, ofSwitches, ofTicks>>

NoFeed ==
    /\ stored = 0 /\ sent = 0 /\ phase = 0 /\ startedAt = 0 /\ buffer = 0 /\ job = 0
    /\ decisions = 0 /\ spoiled = 0
NoGates ==
    /\ newest = 0 /\ task = 0 /\ open = 0 /\ built = 0 /\ entriesInFlight = 0 /\ uncertain = 0
    /\ outbox = 0 /\ ticks = 0 /\ decided = 0 /\ late = 0
NoSwitches ==
    /\ storedMode = 0 /\ storedGate = 0 /\ chats = 0 /\ bus = 0 /\ up = 0 /\ sinkMode = 0
    /\ runnerGate = 0 /\ tasks = 0 /\ control = 0 /\ sync = 0 /\ gateCommands = 0
    /\ modeCommands = 0 /\ bars = 0 /\ starts = 0 /\ paused = 0 /\ gated = 0 /\ since = 0
    /\ blind = 0
NoTicks ==
    /\ quotes = 0 /\ service = 0 /\ listening = 0 /\ flying = 0 /\ missed = 0 /\ builders = 0
    /\ lastClosed = 0 /\ joined = 0 /\ retired = 0 /\ holder = 0 /\ step = 0 /\ inHand = 0
    /\ unsaved = 0 /\ failed = 0 /\ flushing = 0 /\ openBar = 0 /\ closes = 0 /\ kept = 0
    /\ silent = 0 /\ deaf = 0 /\ crashes = 0 /\ faults = 0 /\ flushes = 0

Feed == INSTANCE CandleFeed
    WITH MaxTime <- 3, Window <- 2, Warmup <- 1, MaxAge <- 1, InitialMarks <- {0},
         MaxDecisions <- 3, MarkFails <- FALSE, RedisFails <- TRUE, Gates <- TRUE,
         Crashes <- FALSE, Flushes <- FALSE
Gates == INSTANCE EntryGates
    WITH Pairs <- {"p", "q"}, CyclesPerPair <- 1, Ceiling <- 2, MaxEntries <- 1,
         Week <- 4, FlatFrom <- 3, FlatUntil <- 1, MaxTime <- 3, StartTime <- 1,
         MaxTicks <- 1, MaxCloses <- 0, Ambiguous <- FALSE
Switches == INSTANCE OperatorSwitches
    WITH Pairs <- {"gold"}, Names <- {}, NamesOf <- [p \in {"gold"} |-> {}], Chats <- {1},
         Configured <- FALSE, MaxGateCommands <- 0, MaxModeCommands <- 2, MaxBars <- 1,
         MaxStarts <- 1, ReadsMayFail <- FALSE
Ticks == INSTANCE TickBars
    WITH Timeframes <- {"fast"}, Length <- [tf \in {"fast"} |-> 2], Horizon <- 4,
         clock <- now, MaxTicks <- 2, MaxCrashes <- 1, MaxFaults <- 1, MaxFlushes <- 0,
         StartTakesTime <- TRUE, SocketGaps <- FALSE, LateQuotes <- FALSE

Init ==
    /\ system \in Systems
    /\ CASE system = "feed" -> Feed!Init /\ NoGates /\ NoSwitches /\ NoTicks
         [] system = "weekend" -> Gates!Init /\ NoFeed /\ NoSwitches /\ NoTicks /\ mark = 0
         [] system = "switches" ->
              Switches!Init /\ NoFeed /\ NoGates /\ NoTicks /\ now = 0 /\ mark = 0
         [] system = "ticks" -> Ticks!TicksInit /\ NoFeed /\ NoGates /\ NoSwitches

Next ==
    /\ UNCHANGED system
    /\ \/ system = "feed" /\ Feed!Next /\ UNCHANGED <<ofGates, ofSwitches, ofTicks>>
       \/ system = "weekend" /\ Gates!Next /\ UNCHANGED <<mark, ofFeed, ofSwitches, ofTicks>>
       \/ system = "switches" /\ Switches!Next
                              /\ UNCHANGED <<now, mark, ofFeed, ofGates, ofTicks>>
       \/ system = "ticks" /\ Ticks!TicksNext /\ UNCHANGED <<ofFeed, ofGates, ofSwitches>>

FairFeed ==
    /\ WF_feedVars(system = "feed" /\ Feed!Start)
    /\ WF_feedVars(system = "feed" /\ Feed!Restore)
    /\ WF_feedVars(system = "feed" /\ Feed!SyncPass)
    /\ SF_feedVars(system = "feed" /\ Feed!Feed)
    /\ WF_feedVars(system = "feed" /\ Feed!RecordDecided)
    /\ WF_feedVars(system = "feed" /\ Feed!Decide)
    /\ SF_feedVars(system = "feed" /\ Feed!Done)
FairGates ==
    /\ WF_gatesVars(system = "weekend" /\ Gates!ClockTicks)
    /\ \A p \in {"p", "q"} :
        /\ WF_gatesVars(system = "weekend" /\ Gates!Emits(p))
        /\ WF_gatesVars(system = "weekend" /\ Gates!Sweep(p))
        /\ SF_gatesVars(system = "weekend" /\ Gates!Accepted(p))
FairSwitches ==
    /\ WF_switchesVars(system = "switches" /\ Switches!SyncAnswered)
    /\ WF_switchesVars(system = "switches" /\ Switches!SyncTaken)
    /\ WF_switchesVars(system = "switches" /\ Switches!ControlAnswered)
    /\ WF_switchesVars(system = "switches" /\ Switches!ControlTaken)
    /\ WF_switchesVars(system = "switches" /\ Switches!Works("gold"))
FairTicks ==
    /\ WF_ticksVars(system = "ticks" /\ Ticks!Emission)
    /\ WF_ticksVars(system = "ticks" /\ Ticks!Handles)
    /\ WF_ticksVars(system = "ticks" /\ Ticks!FlushLoop)
    /\ WF_ticksVars(system = "ticks" /\ (Ticks!Start \/ Ticks!Backfill \/ Ticks!Join))

Spec == Init /\ [][Next]_all /\ FairFeed /\ FairGates /\ FairSwitches /\ FairTicks

-----------------------------------------------------------------------------
\* Every stored bar gets into the runner's window, or is older than all of it, although
\* every message is lost and syncs break off.
StoredBarsArrive ==
    \A t \in 1..3 :
        (system = "feed" /\ t \in stored)
            ~> (system = "feed" /\ \/ t \in buffer
                                   \/ Cardinality(buffer) = 2 /\ \A u \in buffer : t < u)

\* A book that stays in the weekly window ends flat: no bar is needed, since the sweep
\* closes what the bars left, and no tick opens anything again (_weekend_flat_loop).
WeekendEndsFlat ==
    <>[](system = "weekend" /\ Gates!Covers(now)) => <>[](system = "weekend" /\ open = {})

\* A runner that goes on running ends with the mode that is stored, with no broadcast:
\* the history loop reads it again and again, and no late answer stays.
ModeReachesTheRunner ==
    \A m \in {"on", "off"} :
        <>[](system = "switches" /\ up /\ Switches!Effective(storedMode) = m)
            => <>[](system = "switches" /\ sinkMode = m)

\* A bucket that has ended is staged without waiting for another quote, and after any
\* calls that fail (_flush_loop).
EndedBarsAreStaged ==
    \A at \in 0..4 :
        (system = "ticks" /\ service = "up" /\ builders["fast"].at = at /\ now >= at + 2)
            ~> (system = "ticks" /\ (service = "down" \/ at <= mark["fast"]))
===============================================================================
