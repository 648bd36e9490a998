--------------------------- MODULE OrphanSettlement ---------------------------
(***************************************************************************)
(* Stored cycles that no strategy slot drives any more.  A start settles   *)
(* those the mapping table has retired (_settle_orphan_positions), and the *)
(* operator's /flat closes any of them (_flat_on_request); both go through *)
(* _flatten_orphan_cycle, a second path to the outbox and to the broker    *)
(* next to the slots' own, which SignalDelivery is about.                  *)
(*                                                                         *)
(* Here a command of a slot is one step (SlotEnters, SlotCloses, and the   *)
(* scan's ResolveEntry and Resolve), which ends in any state its delivery  *)
(* can leave behind: an entry, too, may stay in doubt while the broker     *)
(* holds its cycle.  The book is a live one; a cycle is closed by one      *)
(* command.                                                                *)
(***************************************************************************)
EXTENDS Naturals, FiniteSets

CONSTANTS
    Pairs,          \* the (strategy, symbol) pairs
    Cycles,         \* the trade cycles of a run
    PairOf,         \* the pair of each cycle
    MaxCommands,    \* bound: closes ever staged
    MayHang,        \* bound: the cycles whose entry may stay in doubt
    Deployments,    \* what a start may find: [loaded, declared]
    Mode,           \* close_orphan_positions: "off", "warn", "close"
    OperatorFlat,   \* the operator uses /flat
    RecordMayBeCut  \* a process may die, or a store fail, while a confirmed close is
                    \* recorded and its cycle cleared

ASSUME OrphanAssumption ==
    /\ PairOf \in [Cycles -> Pairs]
    /\ MaxCommands \in Nat /\ MayHang \subseteq Cycles
    /\ Mode \in {"off", "warn", "close"}
    /\ Deployments \subseteq [loaded : SUBSET Pairs, declared : SUBSET SUBSET Pairs]
    /\ OperatorFlat \in BOOLEAN /\ RecordMayBeCut \in BOOLEAN

Ids == 1..MaxCommands
NoId == 0

VARIABLES
    entry,      \* table signals: the status of each cycle's entry
    opened,     \* cycles whose entry the broker took
    rows,       \* table signals: the closes staged so far
    taken,      \* closes the broker acted on
    net,        \* closes on their way to the broker
    stored,     \* table open_positions
    cached,     \* Redis cycles
    mode,       \* "down", "recover", "settle", "up"
    slots,      \* the pairs driven by a slot
    declared,   \* _declared_pairs: {} for no table, {S} for one with the pairs S
    book,       \* the cycles of the slots' factories
    uncertain,  \* _uncertain_pairs
    work,       \* the coroutine in _flatten_orphan_cycle, or its caller
    hasty,      \* cycles /flat went for while their entry was in doubt, for the
                \* properties
    cut         \* the record of a confirmed close was cut short, for the properties

vars == <<entry, opened, rows, taken, net, stored, cached, mode, slots, declared,
          book, uncertain, work, hasty, cut>>
entries == <<entry, opened>>
stores == <<stored, cached>>
history == <<hasty, cut>>
runner == <<mode, slots, declared, book>>

NoRow == [cycle |-> NoId, status |-> "none", by |-> "none"]
IdleWork == [pc |-> "idle", by |-> "none", todo |-> {}, cycle |-> NoId, id |-> NoId,
             out |-> "none", marked |-> TRUE]

Unfinished == {"prepared", "unknown", "sent_pending"}
Staged == {k \in Ids : rows[k].status # "none"}
InDoubt == {k \in Ids : rows[k].status \in Unfinished}
RowPair(k) == PairOf[rows[k].cycle]
Closed(c) == \E k \in taken : rows[k].cycle = c
AtBroker == {c \in opened : ~Closed(c)}
NextId == Cardinality(Staged) + 1

\* The cycles whose entry is in doubt, and the pairs with an unfinished row.
Entering == {c \in Cycles : entry[c] \in Unfinished}
InDoubtPairs == {RowPair(k) : k \in InDoubt} \cup {PairOf[c] : c \in Entering}

Init ==
    /\ entry = [c \in Cycles |-> "none"]
    /\ opened = {} /\ taken = {} /\ net = {} /\ stored = {} /\ cached = {}
    /\ rows = [k \in Ids |-> NoRow]
    /\ mode = "down"
    /\ slots = {} /\ declared = {} /\ book = {} /\ uncertain = {}
    /\ work = IdleWork
    /\ hasty = {}
    /\ cut = FALSE

-----------------------------------------------------------------------------
(* The slots' own commands                                                 *)

Stage(k, c, status, by) ==
    rows' = [rows EXCEPT ![k] = [cycle |-> c, status |-> status, by |-> by]]

Enters(c, status) == entry' = [entry EXCEPT ![c] = status]

\* An entry that is confirmed and recorded, one that stays in doubt, and one that is
\* accepted and recorded in part: in the book, then in Redis, then in the table.  A
\* refused one leaves nothing behind.
SlotEnters(c) ==
    LET p == PairOf[c] IN
    /\ mode = "up"
    /\ p \in slots \ uncertain
    /\ entry[c] = "none"
    /\ \/ /\ Enters(c, "sent")
          /\ opened' = opened \cup {c} /\ book' = book \cup {c}
          /\ stored' = stored \cup {c} /\ cached' = cached \cup {c}
          /\ UNCHANGED uncertain
       \/ /\ c \in MayHang
          /\ Enters(c, "prepared") \/ Enters(c, "unknown")
          /\ uncertain' = uncertain \cup {p}
          /\ UNCHANGED <<opened, stores, book>>
       \/ /\ c \in MayHang
          /\ Enters(c, "sent_pending")
          /\ opened' = opened \cup {c} /\ book' = book \cup {c}
          /\ cached' \in {cached, cached \cup {c}}
          /\ stored' \in {stored, stored \cup (cached' \cap {c})}
          /\ uncertain' = uncertain \cup {p}
    /\ UNCHANGED <<rows, taken, net, mode, slots, declared, work, history>>

\* The recovery scan and an entry in doubt of a pair that has a slot: an accepted one
\* is recorded, an open one is sent again, one refused at its first sending is over.
ResolveEntry(c) ==
    LET p == PairOf[c] IN
    /\ mode \in {"recover", "up"}
    /\ c \in Entering
    /\ p \in slots
    /\ \/ /\ Enters(c, "sent")
          /\ opened' = opened \cup {c} /\ book' = book \cup {c}
          /\ stored' = stored \cup {c} /\ cached' = cached \cup {c}
       \/ /\ entry[c] = "prepared"
          /\ Enters(c, "unknown") \/ Enters(c, "failed")
          /\ UNCHANGED <<opened, stores, book>>
    /\ UNCHANGED <<rows, taken, net, mode, slots, declared, work, history>>
    /\ uncertain' = IF p \in InDoubtPairs' THEN uncertain ELSE uncertain \ {p}

\* A close that is confirmed and recorded, one that is refused, one that stays in
\* doubt, and one that is accepted but not yet recorded everywhere.
SlotCloses(c) ==
    LET p == PairOf[c]
        k == NextId
    IN  /\ mode = "up"
        /\ p \in slots \ uncertain
        /\ c \in book
        /\ k \in Ids
        /\ \/ /\ Stage(k, c, "sent", "slot")
              /\ taken' = taken \cup {k}
              /\ stored' = stored \ {c} /\ cached' = cached \ {c} /\ book' = book \ {c}
              /\ UNCHANGED <<net, uncertain>>
           \/ /\ Stage(k, c, "failed", "slot")
              /\ UNCHANGED <<taken, net, stored, cached, book, uncertain>>
           \/ /\ \/ Stage(k, c, "prepared", "slot") /\ UNCHANGED <<taken, net>>
                 \/ Stage(k, c, "unknown", "slot") /\ net' \in {net, net \cup {k}}
                    /\ taken' = taken
              /\ uncertain' = uncertain \cup {p}
              /\ UNCHANGED <<stored, cached, book>>
           \/ /\ Stage(k, c, "sent_pending", "slot")
              /\ taken' = taken \cup {k}
              /\ book' = book \ {c}
              /\ cached' \in {cached, cached \ {c}}
              /\ uncertain' = uncertain \cup {p}
              /\ UNCHANGED <<net, stored>>
        /\ UNCHANGED <<entries, mode, slots, declared, work, history>>

\* The recovery scan settles a row of a pair that has a slot: an accepted one is
\* recorded, an open one is sent again, a refused one is over; the entry of its pair, an
\* older row, comes first.
Resolve(k) ==
    LET c == rows[k].cycle
        p == RowPair(k)
    IN  /\ mode \in {"recover", "up"}
        /\ k \in InDoubt
        /\ p \in slots
        /\ \A j \in InDoubt : RowPair(j) = p => k <= j
        /\ \A e \in Entering : PairOf[e] # p
        /\ \/ /\ rows' = [rows EXCEPT ![k].status = "sent"]
              /\ taken' = taken \cup {k}
              /\ stored' = stored \ {c} /\ cached' = cached \ {c} /\ book' = book \ {c}
           \/ /\ rows[k].status = "prepared"
              /\ rows' = [rows EXCEPT ![k].status = "failed"]
              /\ UNCHANGED <<taken, stored, cached, book>>
        /\ uncertain' = IF \E j \in InDoubt \ {k} : RowPair(j) = p
                        THEN uncertain ELSE uncertain \ {p}
        /\ UNCHANGED <<entries, net, mode, slots, declared, work, history>>

\* A scan blocks the pair of every unfinished row, whether a slot drives it or not.
ScanBlocks ==
    /\ mode = "up"
    /\ uncertain' = uncertain \cup InDoubtPairs
    /\ UNCHANGED <<entries, rows, taken, net, stores, runner, work, history>>

-----------------------------------------------------------------------------
(* Starting                                                                *)

BugCacheOnly(p) == {c \in cached : PairOf[c] = p}

\* _restore_position: Redis first, Postgres if it holds nothing for the pair.
RestoredOf(p) ==
    LET inCache == {c \in cached : PairOf[c] = p}
    IN  IF inCache # {} THEN inCache ELSE {c \in stored : PairOf[c] = p}

\* start, _build_slots: the mapping table and the strategies that load.
Boot(d) ==
    /\ mode = "down"
    /\ mode' = "recover"
    /\ slots' = d.loaded
    /\ declared' = d.declared
    /\ book' = UNION {RestoredOf(p) : p \in d.loaded}
    /\ cached' = cached \cup book'
    /\ UNCHANGED <<entries, rows, taken, net, stored, uncertain, work, history>>

\* _orphan_positions; list_open answers an empty list if it cannot be read.
Orphans == {c \in stored : PairOf[c] \notin slots}

\* The outbox has been scanned; the settlement reads the table.
Recovered ==
    /\ mode = "recover"
    /\ mode' = "settle"
    /\ uncertain' = InDoubtPairs
    /\ \E listed \in {Orphans, {}} :
        work' = [IdleWork EXCEPT !.pc = "next", !.by = "settle", !.todo = listed]
    /\ UNCHANGED <<entries, rows, taken, net, stores, slots, declared, book, history>>

\* A control message {action: "flat"}; its slots are closed as SlotCloses does.
FlatOnRequest(scope) ==
    /\ OperatorFlat
    /\ mode = "up"
    /\ work.pc = "idle"
    /\ \E listed \in {{c \in Orphans : PairOf[c] \in scope}, {}} :
        work' = [IdleWork EXCEPT !.pc = "next", !.by = "flat", !.todo = listed]
    /\ UNCHANGED <<entries, rows, taken, net, stores, runner, uncertain, history>>

WorkDone ==
    /\ work.pc = "next"
    /\ work.todo = {}
    /\ work' = IdleWork
    /\ mode' = "up"
    /\ UNCHANGED <<entries, rows, taken, net, stores, slots, declared, book, uncertain,
                   history>>

-----------------------------------------------------------------------------
(* One orphan                                                              *)

\* The callers' next orphan
Return == [work EXCEPT !.pc = "next", !.cycle = NoId, !.id = NoId, !.out = "none",
                       !.marked = TRUE]

BugForgetsDoubt(c) ==
    Mode = "close" /\ \E table \in declared : PairOf[c] \notin table

\* _settle_orphan_positions: retired by a mapping table that was read, to be closed,
\* and without a delivery of its own in doubt.
Settles(c) ==
    /\ Mode = "close"
    /\ \E table \in declared : PairOf[c] \notin table
    /\ PairOf[c] \notin uncertain

\* A cycle that is only reported, or that _flatten_orphan_cycle refuses before it
\* stages anything: paused delivery, no timeframe, no payload.
Leave(c) ==
    /\ work.pc = "next"
    /\ c \in work.todo
    /\ work' = [work EXCEPT !.todo = @ \ {c}]
    /\ UNCHANGED <<entries, rows, taken, net, stores, runner, uncertain, history>>

Take(c) ==
    /\ work.pc = "next"
    /\ c \in work.todo
    /\ work.by = "settle" => Settles(c)
    /\ NextId \in Ids
    /\ work' = [work EXCEPT !.pc = "stage", !.todo = @ \ {c}, !.cycle = c]
    /\ hasty' = IF work.by = "flat" /\ c \in Entering THEN hasty \cup {c} ELSE hasty
    /\ UNCHANGED <<entries, rows, taken, net, stores, runner, uncertain, cut>>

StageCommit ==
    /\ work.pc = "stage"
    /\ NextId \in Ids
    /\ Stage(NextId, work.cycle, "prepared", work.by)
    /\ work' = [work EXCEPT !.pc = "mark", !.id = NextId]
    /\ UNCHANGED <<entries, taken, net, stores, runner, uncertain, history>>

\* Staging or the mark before the send failed, whether it committed or not, or live
\* delivery was paused: nothing is sent.
StopsBeforeSend ==
    /\ \/ work.pc = "stage" /\ rows' = rows
       \/ work.pc = "mark" /\ \E s \in {"prepared", "unknown"} :
             rows' = [rows EXCEPT ![work.id].status = s]
       \/ work.pc = "send" /\ rows' = rows
    /\ work' = Return
    /\ UNCHANGED <<entries, taken, net, stores, runner, uncertain, history>>

MarkUnknown ==
    /\ work.pc = "mark"
    /\ rows' = [rows EXCEPT ![work.id].status = "unknown"]
    /\ work' = [work EXCEPT !.pc = "send"]
    /\ UNCHANGED <<entries, taken, net, stores, runner, uncertain, history>>

Send ==
    /\ work.pc = "send"
    /\ net' = net \cup {work.id}
    /\ work' = [work EXCEPT !.pc = "sending"]
    /\ UNCHANGED <<entries, rows, taken, stores, runner, uncertain, history>>

\* The broker's answer, or none in time.
SendReturns ==
    /\ work.pc = "sending"
    /\ \E out \in {"sent", "failed", "unknown"} :
        /\ out = "sent" => work.id \in taken
        /\ out = "failed" => work.id \notin taken \cup net
        /\ work' = [work EXCEPT !.out = out,
                      !.pc = IF out = "sent" THEN "checkpoint" ELSE "final"]
    /\ UNCHANGED <<entries, rows, taken, net, stores, runner, uncertain, history>>

\* mark_delivery, which may fail with or without effect; both marks are tried.
Mark(status, pc) ==
    \E ok \in IF work.out = "sent" /\ ~RecordMayBeCut THEN {TRUE} ELSE BOOLEAN :
        /\ rows' \in {[rows EXCEPT ![work.id].status = status]}
                     \cup (IF ok THEN {} ELSE {rows})
        /\ work' = [work EXCEPT !.pc = pc, !.marked = @ /\ ok]
        /\ cut' = (cut \/ (work.out = "sent" /\ ~ok))

Checkpoint ==
    /\ work.pc = "checkpoint"
    /\ Mark("sent_pending", "final")
    /\ UNCHANGED <<entries, taken, net, stores, runner, uncertain, hasty>>

Finalise ==
    /\ work.pc = "final"
    /\ Mark(work.out, "decide")
    /\ UNCHANGED <<entries, taken, net, stores, runner, uncertain, hasty>>

BugClearsInDoubt ==
    /\ work.pc = "decide"
    /\ work' = IF work.marked THEN [work EXCEPT !.pc = "redis"] ELSE Return
    /\ UNCHANGED <<entries, rows, taken, net, stores, runner, uncertain, history>>

\* Local state goes only after a confirmed close whose outbox row is marked.
Decide ==
    /\ work.pc = "decide"
    /\ work' = IF work.out = "sent" /\ work.marked THEN [work EXCEPT !.pc = "redis"]
               ELSE Return
    /\ UNCHANGED <<entries, rows, taken, net, stores, runner, uncertain, history>>

ClearCached ==
    /\ work.pc = "redis"
    /\ cached' = cached \ {work.cycle}
    /\ work' = [work EXCEPT !.pc = "table"]
    /\ UNCHANGED <<entries, rows, taken, net, stored, runner, uncertain, history>>

ClearStored ==
    /\ work.pc = "table"
    /\ stored' = stored \ {work.cycle}
    /\ work' = Return
    /\ UNCHANGED <<entries, rows, taken, net, cached, runner, uncertain, history>>

\* positions.clear reports a failure, with or without effect.
ClearFails ==
    /\ RecordMayBeCut
    /\ work.pc = "table"
    /\ stored' \in {stored, stored \ {work.cycle}}
    /\ work' = Return
    /\ cut' = TRUE
    /\ UNCHANGED <<entries, rows, taken, net, cached, runner, uncertain, hasty>>

-----------------------------------------------------------------------------
(* The environment                                                         *)

\* A crash, an ownership that was lost, or Redis that raises while a cycle is cleared.
Crash ==
    /\ mode # "down"
    /\ RecordMayBeCut \/ work.pc \notin {"decide", "redis", "table"}
    /\ mode' = "down"
    /\ slots' = {} /\ book' = {} /\ uncertain' = {} /\ declared' = {}
    /\ work' = IdleWork
    /\ cut' = (cut \/ (work.pc \in {"decide", "redis", "table"} /\ work.out = "sent"))
    /\ UNCHANGED <<entries, rows, taken, net, stores, hasty>>

RedisFlushed ==
    /\ mode = "down"
    /\ cached' = {}
    /\ UNCHANGED <<entries, rows, taken, net, stored, runner, uncertain, work, history>>

BrokerTakes(k) ==
    /\ k \in net
    /\ net' = net \ {k}
    /\ taken' = taken \cup {k}
    /\ UNCHANGED <<entries, rows, stores, runner, uncertain, work, history>>

\* An entry of which no answer came, taken at last.
EntryTaken(c) ==
    /\ entry[c] = "unknown"
    /\ opened' = opened \cup {c}
    /\ UNCHANGED <<entry, rows, taken, net, stores, runner, uncertain, work, history>>

\* Refused by the broker, or lost on the way.
BrokerLoses(k) ==
    /\ k \in net
    /\ net' = net \ {k}
    /\ UNCHANGED <<entries, rows, taken, stores, runner, uncertain, work, history>>

-----------------------------------------------------------------------------
Slots == \/ \E c \in Cycles : SlotEnters(c) \/ ResolveEntry(c) \/ SlotCloses(c)
         \/ \E k \in Ids : Resolve(k)
         \/ ScanBlocks
Callers == \/ \E d \in Deployments : Boot(d)
           \/ Recovered \/ WorkDone
           \/ \E scope \in SUBSET Pairs : FlatOnRequest(scope)
           \/ \E c \in Cycles : Leave(c) \/ Take(c)
Flatten == \/ StageCommit \/ StopsBeforeSend \/ MarkUnknown \/ Send \/ SendReturns
           \/ Checkpoint \/ Finalise \/ Decide
           \/ ClearCached \/ ClearStored \/ ClearFails
Environment == \/ Crash \/ RedisFlushed
               \/ \E c \in Cycles : EntryTaken(c)
               \/ \E k \in Ids : BrokerTakes(k) \/ BrokerLoses(k)

Next == Slots \/ Callers \/ Flatten \/ Environment

Spec == Init /\ [][Next]_vars

-----------------------------------------------------------------------------
(* Properties                                                              *)

RowType == [cycle : Cycles \cup {NoId},
            status : {"none", "sent", "failed"} \cup Unfinished,
            by : {"none", "slot", "settle", "flat"}]
WorkType == [pc : {"idle", "next", "stage", "mark", "send", "sending", "checkpoint",
                   "final", "decide", "redis", "table"},
             by : {"none", "settle", "flat"}, todo : SUBSET Cycles,
             cycle : Cycles \cup {NoId}, id : Ids \cup {NoId},
             out : {"none", "sent", "failed", "unknown"}, marked : BOOLEAN]

TypeOK ==
    /\ entry \in [Cycles -> {"none", "sent", "failed"} \cup Unfinished]
    /\ opened \subseteq Cycles /\ hasty \subseteq Cycles /\ stored \subseteq Cycles
    /\ cached \subseteq Cycles /\ book \subseteq Cycles
    /\ rows \in [Ids -> RowType]
    /\ taken \subseteq Ids /\ net \subseteq Ids
    /\ mode \in {"down", "recover", "settle", "up"}
    /\ slots \subseteq Pairs /\ uncertain \subseteq Pairs
    /\ declared \subseteq SUBSET Pairs /\ cut \in BOOLEAN
    /\ work \in WorkType

\* "A book that forgot a position the broker still carries is worse than one that
\* still shows it" (docs/architecture.md): whatever the broker holds is in the table, or
\* an unfinished row of the outbox names it, which recovery will record.
NothingForgotten == AtBroker \subseteq stored \cup Entering

\* _settle_orphan_positions, "a second command against one cycle whose first one may
\* already have reached the broker": as long as the operator closes nothing by hand, no
\* cycle has two closes in doubt.  With /flat one may: _flat_on_request does not ask.
OneCloseInDoubt ==
    \A j, k \in InDoubt : rows[j].cycle = rows[k].cycle => j = k
SettlesOnce == (\A k \in Staged : rows[k].by # "flat") => OneCloseInDoubt

\* A pair that is driven again has the broker's cycles in its book, whatever was done
\* to it while it was nobody's, by a settlement or by /flat; unless the record of a
\* confirmed close was cut short.  A cycle that /flat, which does not ask, closed while
\* its own entry was in doubt comes back when that entry is resolved, although the
\* broker holds it no more.
BookMatchesBroker ==
    mode = "up" =>
        \A p \in slots \ uncertain :
            LET held == {c \in book : PairOf[c] = p}
                carried == {c \in AtBroker : PairOf[c] = p}
            IN  carried \subseteq held /\ held \subseteq carried \cup hasty
BooksMatchBroker == ~cut => BookMatchesBroker
=============================================================================
