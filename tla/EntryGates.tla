------------------------------ MODULE EntryGates ------------------------------
(***************************************************************************)
(* What may open a position and what must close one: the ceiling of the    *)
(* account over all pairs together (_emit, _account_is_full) and the       *)
(* weekly window in which a market is shut (WeekendFlatPolicy, the drop of *)
(* entries in _feed_candle_serialized and _on_tick_message, the flatten at *)
(* the end of a bar, and the sweep of _weekend_flat_loop).                 *)
(*                                                                         *)
(* The work of a pair runs under its slot's lock; the pairs interleave at  *)
(* every await.  A delivery is two steps, its staging and its answer: what *)
(* happens between them is SignalDelivery's.  Time is an integer; a bar    *)
(* lasts one unit and is named by its open time.                           *)
(***************************************************************************)
EXTENDS Integers, FiniteSets

CONSTANTS
    Pairs,          \* the (strategy, symbol) pairs, one slot each
    CyclesPerPair,  \* bound: entries a pair ever builds
    Ceiling,        \* QTE_ACCOUNT__MAX_OPEN_POSITIONS, 0 for none
    MaxEntries,     \* bound: entries in one result of a strategy
    Week, FlatFrom, FlatUntil,  \* the weekly window, in units of a week
    MaxTime,        \* bound: the clock stops here
    StartTime,      \* the clock when the slots are warm
    MaxTicks,       \* bound: ticks delivered
    MaxCloses,      \* bound: closes a strategy decides
    Ambiguous       \* a delivery may end without an answer, or without its row

ASSUME EntryGatesAssumption ==
    /\ IsFiniteSet(Pairs)
    /\ CyclesPerPair \in Nat /\ Ceiling \in Nat /\ MaxEntries \in Nat
    /\ Week \in Nat \ {0} /\ FlatFrom \in 0..(Week - 1) /\ FlatUntil \in 0..(Week - 1)
    /\ FlatFrom # FlatUntil
    /\ MaxTime \in Nat /\ StartTime \in Nat /\ MaxTicks \in Nat /\ MaxCloses \in Nat
    /\ Ambiguous \in BOOLEAN

Uxids == Pairs \X (1..CyclesPerPair)
PairOf(u) == u[1]
NoUxid == <<>>
NoRow == [kind |-> "none", uxid |-> NoUxid]

\* a coroutine: where it is, the moment it decides at, what prompted it, the intents
\* still to emit, and the one that is emitted
Task(pc, moment, from, entries, closes) ==
    [pc |-> pc, moment |-> moment, from |-> from, entries |-> entries, closes |-> closes,
     kind |-> "none", uxid |-> NoUxid]
Idle == Task("idle", 0, "none", 0, {})

VARIABLES
    now,                \* the wall clock
    newest,             \* open time of the newest bar in each slot's buffer
    task,               \* the coroutine that holds each slot's lock
    open,               \* the cycles of all factories
    built,              \* the uxids factories have handed out
    entriesInFlight,    \* _entries_in_flight
    uncertain,          \* _uncertain_pairs
    outbox,             \* each pair's unfinished delivery
    ticks, decided,     \* for the bounds: ticks and closes so far
    late                \* for the properties: entries the recovery has committed

vars == <<now, newest, task, open, built, entriesInFlight, uncertain, outbox, ticks,
          decided, late>>
book == <<open, built>>
bounds == <<ticks, decided>>

OpenCycles(p) == {u \in open : PairOf(u) = p}

\* the moment is inside [from, until), folded on the week
CoversIn(from, until, moment) == (moment - from) % Week < (until - from) % Week
Covers(moment) == CoversIn(FlatFrom, FlatUntil, moment)

Init ==
    /\ now = StartTime
    /\ newest = [p \in Pairs |-> StartTime - 1]
    /\ task = [p \in Pairs |-> Idle]
    /\ open = {} /\ built = {}
    /\ entriesInFlight = 0
    /\ uncertain = {}
    /\ outbox = [p \in Pairs |-> NoRow]
    /\ ticks = 0 /\ decided = 0
    /\ late = {}

ClockTicks ==
    /\ now < MaxTime
    /\ now' = now + 1
    /\ UNCHANGED <<newest, task, book, entriesInFlight, uncertain, outbox, bounds, late>>

-----------------------------------------------------------------------------
(* Deciding                                                                *)

\* what a strategy asks for: some of its open cycles closed, and some entries
Results(p) == {r \in [entries : 0..MaxEntries, closes : SUBSET OpenCycles(p)] :
                  decided + Cardinality(r.closes) <= MaxCloses}

Decide(p, moment, from, r) ==
    /\ task' = [task EXCEPT ![p] = Task("next", moment, from, r.entries, r.closes)]
    /\ decided' = decided + Cardinality(r.closes)

(* A bar that opened at o is fed.  The gate and the clock see its open time. *)
BarCloses(p, o) ==
    /\ task[p].pc = "idle"
    /\ o > newest[p]
    /\ newest' = [newest EXCEPT ![p] = o]
    /\ \/ p \in uncertain /\ UNCHANGED <<task, decided>>
       \/ p \notin uncertain /\ \E r \in Results(p) : Decide(p, o, "bar", r)
    /\ UNCHANGED <<now, book, entriesInFlight, uncertain, outbox, ticks, late>>

TickArrives(p) ==
    /\ task[p].pc = "idle" /\ p \notin uncertain
    /\ ticks < MaxTicks
    /\ ticks' = ticks + 1
    /\ \E r \in Results(p) : Decide(p, now, "tick", r)
    /\ UNCHANGED <<now, newest, book, entriesInFlight, uncertain, outbox, late>>

BugSweepReadsBars(p) ==
    /\ task[p].pc = "idle" /\ p \notin uncertain
    /\ Covers(newest[p])
    /\ OpenCycles(p) # {}
    /\ task' = [task EXCEPT ![p] = Task("next", now, "sweep", 0, OpenCycles(p))]
    /\ UNCHANGED <<now, newest, book, entriesInFlight, uncertain, outbox, bounds, late>>

(* The sweep reads the wall clock: it is for the moments no bar comes. *)
Sweep(p) ==
    /\ task[p].pc = "idle" /\ p \notin uncertain
    /\ Covers(now)
    /\ OpenCycles(p) # {}
    /\ task' = [task EXCEPT ![p] = Task("next", now, "sweep", 0, OpenCycles(p))]
    /\ UNCHANGED <<now, newest, book, entriesInFlight, uncertain, outbox, bounds, late>>

-----------------------------------------------------------------------------
(* Emitting, one intent after the other                                    *)

TakeClose(p) ==
    /\ task[p].pc = "next"
    /\ \E u \in task[p].closes :
          task' = [task EXCEPT ![p].pc = "emit", ![p].kind = "close", ![p].uxid = u,
                               ![p].closes = @ \ {u}]
    /\ UNCHANGED <<now, newest, book, entriesInFlight, uncertain, outbox, bounds, late>>

\* an entry is not emitted while the market of its pair is shut
MarketIsShut(p) == Covers(task[p].moment)

BugBookOnly == Ceiling > 0 /\ Cardinality(open) >= Ceiling
AccountIsFull == Ceiling > 0 /\ Cardinality(open) + entriesInFlight >= Ceiling

DropEntry(p) ==
    /\ task[p].pc = "next" /\ task[p].entries > 0
    /\ MarketIsShut(p) \/ AccountIsFull
    /\ task' = [task EXCEPT ![p].entries = @ - 1]
    /\ UNCHANGED <<now, newest, book, entriesInFlight, uncertain, outbox, bounds, late>>

(* The count and the reservation are one step: no await is between them. *)
AdmitEntry(p) ==
    /\ task[p].pc = "next" /\ task[p].entries > 0
    /\ ~MarketIsShut(p) /\ ~AccountIsFull
    /\ entriesInFlight' = entriesInFlight + 1
    /\ task' = [task EXCEPT ![p].pc = "emit", ![p].kind = "entry", ![p].uxid = NoUxid,
                            ![p].entries = @ - 1]
    /\ UNCHANGED <<now, newest, book, uncertain, outbox, bounds, late>>

\* the end of a result: a bar inside the window flattens what is left of its pair
EndOfResult(p) ==
    /\ task[p].pc = "next" /\ task[p].entries = 0 /\ task[p].closes = {}
    /\ task' = [task EXCEPT ![p] =
          IF task[p].from = "bar" /\ MarketIsShut(p)
          THEN Task("next", task[p].moment, "flat", 0, OpenCycles(p))
          ELSE Idle]
    /\ UNCHANGED <<now, newest, book, entriesInFlight, uncertain, outbox, bounds, late>>

BugReleaseOnAnswer(p) ==
    /\ entriesInFlight' = IF task[p].kind = "entry" /\ task[p].pc # "emit"
                          THEN entriesInFlight - 1 ELSE entriesInFlight
    /\ task' = [task EXCEPT ![p].pc = "next", ![p].kind = "none", ![p].uxid = NoUxid]

\* _emit's finally: an entry gives its reservation back, however it ended
Release(p) ==
    /\ entriesInFlight' = IF task[p].kind = "entry" THEN entriesInFlight - 1 ELSE entriesInFlight
    /\ task' = [task EXCEPT ![p].pc = "next", ![p].kind = "none", ![p].uxid = NoUxid]

\* the cycle the factory builds the intent for: a new one for an entry, and the one a
\* close names, open or not
Buildable(p) == IF task[p].kind = "entry" THEN {u \in Uxids \ built : PairOf(u) = p}
                                          ELSE {task[p].uxid}

(* The pair is uncertain, or the factory refuses the intent (here: the bound). *)
DropIntent(p) ==
    /\ task[p].pc = "emit"
    /\ p \in uncertain \/ Buildable(p) = {}
    /\ Release(p)
    /\ UNCHANGED <<now, newest, book, uncertain, outbox, bounds, late>>

(* The row is in the outbox; the pair is uncertain until it is answered. *)
Stage(p) ==
    /\ task[p].pc = "emit" /\ p \notin uncertain
    /\ \E u \in Buildable(p) :
          /\ task' = [task EXCEPT ![p].pc = "answer", ![p].uxid = u]
          /\ built' = built \cup {u}
          /\ outbox' = [outbox EXCEPT ![p] = [kind |-> task[p].kind, uxid |-> u]]
    /\ uncertain' = uncertain \cup {p}
    /\ UNCHANGED <<now, newest, open, entriesInFlight, bounds, late>>

(* stage_signal fails; its row may be there all the same. *)
StageFails(p) ==
    /\ Ambiguous
    /\ task[p].pc = "emit" /\ p \notin uncertain
    /\ \E u \in Buildable(p) :
          /\ built' = built \cup {u}
          /\ \/ outbox' = [outbox EXCEPT ![p] = [kind |-> task[p].kind, uxid |-> u]]
             \/ UNCHANGED outbox
    /\ uncertain' = uncertain \cup {p}
    /\ Release(p)
    /\ UNCHANGED <<now, newest, open, bounds, late>>

\* the factory's book after the commit of a cycle's entry or close
Committed(row) == IF row.kind = "entry" THEN open \cup {row.uxid} ELSE open \ {row.uxid}

(* The broker took it: the book is changed, the writes that follow are awaits. *)
Accepted(p) ==
    /\ task[p].pc = "answer"
    /\ open' = Committed(outbox[p])
    /\ task' = [task EXCEPT ![p].pc = "recorded"]
    /\ UNCHANGED <<now, newest, built, entriesInFlight, uncertain, outbox, bounds, late>>

Settled(p) == /\ outbox' = [outbox EXCEPT ![p] = NoRow]
              /\ uncertain' = uncertain \ {p}

Recorded(p) ==
    /\ task[p].pc = "recorded"
    /\ \/ Settled(p)
       \/ Ambiguous /\ UNCHANGED <<outbox, uncertain>>
    /\ Release(p)
    /\ UNCHANGED <<now, newest, book, bounds, late>>

(* The broker refused it. *)
Refused(p) ==
    /\ task[p].pc = "answer"
    /\ Settled(p)
    /\ Release(p)
    /\ UNCHANGED <<now, newest, book, bounds, late>>

(* No answer, or the send was held back: the row and the doubt stay. *)
Unanswered(p) ==
    /\ Ambiguous
    /\ task[p].pc = "answer"
    /\ Release(p)
    /\ UNCHANGED <<now, newest, book, uncertain, outbox, bounds, late>>

-----------------------------------------------------------------------------
(* _recover_pending_deliveries takes a pair's row under the slot's lock    *)

RecoverAccepted(p) ==
    /\ task[p].pc = "idle" /\ p \in uncertain /\ outbox[p] # NoRow
    /\ open' = Committed(outbox[p])
    /\ late' = IF outbox[p].kind = "entry" /\ outbox[p].uxid \notin open
               THEN late \cup {outbox[p].uxid} ELSE late
    /\ Settled(p) \/ UNCHANGED <<outbox, uncertain>>
    /\ UNCHANGED <<now, newest, task, built, entriesInFlight, bounds>>

\* the row was refused, or there never was one
RecoverNothing(p) ==
    /\ task[p].pc = "idle" /\ p \in uncertain
    /\ outbox[p].uxid \notin open \/ outbox[p].kind # "entry"
    /\ Settled(p)
    /\ UNCHANGED <<now, newest, task, book, entriesInFlight, bounds, late>>

(* A new process: the factories' books come from the stores, the doubts from the
   outbox, and no entry is in flight. *)
Restart ==
    /\ Ambiguous
    /\ task' = [p \in Pairs |-> Idle]
    /\ entriesInFlight' = 0
    /\ uncertain' = {p \in Pairs : outbox[p] # NoRow}
    /\ UNCHANGED <<now, newest, book, outbox, bounds, late>>

Emits(p) ==
    \/ TakeClose(p) \/ DropEntry(p) \/ AdmitEntry(p) \/ EndOfResult(p)
    \/ DropIntent(p) \/ Stage(p) \/ StageFails(p)
    \/ Accepted(p) \/ Recorded(p) \/ Refused(p) \/ Unanswered(p)

Recovers(p) == RecoverAccepted(p) \/ RecoverNothing(p)

Next ==
    \/ ClockTicks
    \/ \E p \in Pairs :
          \/ \E o \in StartTime..(now - 1) : BarCloses(p, o)
          \/ TickArrives(p) \/ Sweep(p) \/ Emits(p) \/ Recovers(p)
    \/ Restart

Spec == Init /\ [][Next]_vars

(* The event loop runs every coroutine on; the sweep comes back at every interval;
   a broker that is sent a close again and again takes it in the end. *)
Fairness ==
    /\ WF_vars(ClockTicks)
    /\ \A p \in Pairs : WF_vars(Emits(p)) /\ WF_vars(Sweep(p)) /\ SF_vars(Accepted(p))

FairSpec == Spec /\ Fairness

-----------------------------------------------------------------------------
(* Properties                                                              *)

Rows == {NoRow} \cup [kind : {"entry", "close"}, uxid : Uxids]
Tasks == [pc : {"idle", "next", "emit", "answer", "recorded"}, moment : Nat,
          from : {"none", "bar", "tick", "sweep", "flat"}, entries : 0..MaxEntries,
          closes : SUBSET Uxids, kind : {"none", "entry", "close"},
          uxid : {NoUxid} \cup Uxids]

(* Every variable keeps its kind: the clock and the newest bars are integers, a task
   is a record of its fields, the books and the outbox hold cycles of known pairs,
   and the count of entries in flight never falls below zero. *)
TypeOK ==
    /\ now \in Nat
    /\ newest \in [Pairs -> Int]
    /\ task \in [Pairs -> Tasks]
    /\ open \subseteq Uxids /\ built \subseteq Uxids /\ late \subseteq Uxids
    /\ entriesInFlight \in Nat
    /\ uncertain \subseteq Pairs
    /\ outbox \in [Pairs -> Rows]
    /\ ticks \in Nat /\ decided \in Nat

(* However the pairs interleave, the engine's book never holds more cycles than the
   ceiling, the entries aside that were without an answer and that the recovery of
   the outbox has brought in since: the entries in flight are counted until they
   are in the book (_emit, _account_is_full). *)
OnlyRecoveriesOverfill == Ceiling > 0 => Cardinality(open \ late) <= Ceiling

(* No reservation outlives its entry: when no pair has work, none is left that would
   refuse entries for good (the finally of _emit). *)
ReservationsReturn == (\A p \in Pairs : task[p].pc = "idle") => entriesInFlight = 0

================================================================================
