--------------------------- MODULE SignalDelivery ---------------------------
(***************************************************************************)
(* The strategy runner's delivery path: how one trade command travels from *)
(* an intent through the durable outbox (table "signals" in Postgres) to   *)
(* the broker, and from the broker's answer back into the position book,   *)
(* Redis and Postgres.                                                     *)
(*                                                                         *)
(* Concurrency.  Every handler of a (strategy, symbol) pair runs under the *)
(* pair's asyncio lock, and so does the recovery scan while it works on a  *)
(* row of that pair: task[p] is the coroutine holding the lock of p and    *)
(* task[p].pc = "idle" means that the lock is free.  The steps of a        *)
(* coroutine are its awaits; the code between two awaits is one step.      *)
(*                                                                         *)
(* Delivery ids are numbered in the order of "created_at", which Postgres  *)
(* takes when the inserting transaction starts, before it commits.  The    *)
(* cycle (signal_uxid) an entry opens is named by the entry's own id.      *)
(*                                                                         *)
(* Limits.  One runner (RunnerOwnership is about two); losing ownership is *)
(* a Crash here.  Rows with the legacy status "pending", rows whose        *)
(* transport changed and rows of another namespace are not created.        *)
(***************************************************************************)
EXTENDS Naturals, FiniteSets

CONSTANTS
    Pairs,              \* the (strategy, symbol) pairs ever mapped
    SlotChoices,        \* the sets of pairs a start may find mapped
    MaxRows,            \* bound: rows the outbox ever holds
    PageSize,           \* rows of one page of the recovery scan
    IsPaper,            \* the state scope is a paper book
    Transport,          \* "nats" or "http"
    RetryMaxAge,        \* delivery_retry_max_age
    DedupWindow,        \* how long the broker remembers a delivery id
    MaxLag,             \* longest time from the age check to the broker
    MaxTime,            \* bound: the clock
    MaxCopies           \* bound: copies of one command in the network

Ids == 1..MaxRows
NoId == 0
Times == 0..MaxTime
Never == MaxTime + 1

ASSUME PairAssumption == "none" \notin Pairs /\ SlotChoices \subseteq SUBSET Pairs
ASSUME BoundAssumption ==
    /\ MaxRows \in Nat
    /\ PageSize \in Nat \ {0}
    /\ MaxTime \in Nat
    /\ MaxCopies \in Nat \ {0}
ASSUME ModeAssumption ==
    /\ IsPaper \in BOOLEAN
    /\ Transport \in {"nats", "http"}
\* "It must leave room for the publish timeout and network latency"
\* (docs/architecture.md): the horizon plus the lag fits in the window.
ASSUME HorizonAssumption ==
    /\ RetryMaxAge \in Nat
    /\ MaxLag \in Nat
    /\ DedupWindow \in Nat
    /\ RetryMaxAge > 0 => RetryMaxAge + MaxLag =< DedupWindow

Actions == {"entry", "tp1", "close"}
Unfinished == {"prepared", "unknown", "sent_pending", "shadow_pending"}
Final == {"sent", "shadow", "failed"}
Outcomes == {"none", "unknown"} \cup Final
Accepted == {"sent", "shadow"}

\* What an entry buys, in units: a TP1 takes one, a close the rest.
Full == 2
NoPosition == [remaining |-> 0, applied |-> {}]
Position == [remaining : 0..Full, applied : SUBSET Ids]

VARIABLES
    \* Postgres
    status,       \* status[i]: delivery_status of row i, "none" without a row
    command,      \* command[i]: what row i orders
    created,      \* created[i]: created_at
    pgPositions,  \* table open_positions, by cycle
    \* Redis
    redisPositions, \* hash cycle:<strategy>, by cycle
    paused,       \* flag shadow_mode of a live book
    \* the runner's memory
    mode,         \* "down", "boot" or "up"
    slots,        \* self.slots
    book,         \* SignalFactory._book, by cycle
    uncertain,    \* _uncertain_pairs
    unconfirmed,  \* _unconfirmed_staging
    pending,      \* _pending_results
    task,         \* the holder of each pair's lock
    scan,         \* the coroutine in _recover_pending_deliveries
    nextId,       \* the next created_at
    \* the network and the broker (external)
    net,          \* net[i]: copies of command i on their way
    reply,        \* the broker's answer to the attempt that waits for one
    takenAt,      \* when the broker last stored id i, or Never
    executed,     \* how often the broker executed i
    \* time
    now,
    checked,      \* checked[i]: when the attempt under way was allowed
    \* history: what went wrong earlier, read by properties only
    overtaken,    \* rows committed behind the last look of a running scan
    halfSeeded,   \* pairs whose cache was seeded again in part
    stranded      \* blocked pairs a scan resolved and then did not release

durable == <<status, command, created, pgPositions>>
cache == <<redisPositions, paused>>
life == <<mode, slots>>
doubt == <<uncertain, unconfirmed>>
memory == <<life, book, doubt, pending, task, scan>>
broker == <<net, reply, takenAt, executed>>
clock == <<now, checked>>
history == <<overtaken, halfSeeded, stranded>>
vars == <<durable, cache, memory, nextId, broker, clock, history>>

NoCommand == [pair |-> "none", action |-> "none", cycle |-> NoId]
IdleTask == [pc |-> "idle", by |-> "none", id |-> NoId, out |-> "none",
             ambiguous |-> FALSE]
IdleScan == [pc |-> "idle", cursor |-> NoId, page |-> {}, row |-> NoId,
             blocked |-> {}, resolved |-> {}]
EmptyBook == [c \in Ids |-> NoPosition]

PairOf(i) == command[i].pair
CyclesOf(p) == {c \in Ids : PairOf(c) = p}

-----------------------------------------------------------------------------
(* The position book: SignalFactory.commit and OpenPosition.apply_close.   *)

(* Definitions named Bug... are plausible mistakes; each would break one   *)
(* of the properties, and none is used by the specification.               *)
BugUnclampedClose(pos, action, i) ==
    LET left == IF action = "tp1" THEN pos.remaining - 1 ELSE pos.remaining - Full
    IN  IF left = 0 THEN NoPosition
        ELSE [remaining |-> left, applied |-> pos.applied \cup {i}]

\* The size left after a close-side action took its share.
ApplyClose(pos, action, i) ==
    LET left == IF action = "tp1" /\ pos.remaining > 0
                THEN pos.remaining - 1 ELSE 0
    IN  IF left = 0 THEN NoPosition
        ELSE [remaining |-> left, applied |-> pos.applied \cup {i}]

BugCommitReplays(b, i) ==
    LET c == command[i].cycle
    IN  IF command[i].action = "entry"
        THEN [b EXCEPT ![c] = [remaining |-> Full, applied |-> {i}]]
        ELSE IF b[c] = NoPosition THEN b
        ELSE [b EXCEPT ![c] = ApplyClose(b[c], command[i].action, i)]

\* An entry already in the book, a close of an unknown cycle and a close
\* that was already applied are no-ops: recovery may replay any of them.
Commit(b, i) ==
    LET c == command[i].cycle
    IN  CASE command[i].action = "entry" /\ b[c] = NoPosition ->
                [b EXCEPT ![c] = [remaining |-> Full, applied |-> {i}]]
          [] command[i].action # "entry" /\ b[c] # NoPosition
                 /\ i \notin b[c].applied ->
                [b EXCEPT ![c] = ApplyClose(b[c], command[i].action, i)]
          [] OTHER -> b

BugCacheOnly(p) == redisPositions

\* Redis first; Postgres when Redis holds nothing for the pair.
RestoredFrom(p) ==
    IF \E c \in CyclesOf(p) : redisPositions[c] # NoPosition
    THEN redisPositions ELSE pgPositions

-----------------------------------------------------------------------------
Init ==
    /\ status = [i \in Ids |-> "none"]
    /\ command = [i \in Ids |-> NoCommand]
    /\ created = [i \in Ids |-> 0]
    /\ pgPositions = EmptyBook
    /\ redisPositions = EmptyBook
    /\ paused = FALSE
    /\ mode = "down"
    /\ slots = {}
    /\ book = EmptyBook
    /\ uncertain = {}
    /\ unconfirmed = {}
    /\ pending = [i \in Ids |-> "none"]
    /\ task = [p \in Pairs |-> IdleTask]
    /\ scan = IdleScan
    /\ nextId = 1
    /\ net = [i \in Ids |-> 0]
    /\ reply = [i \in Ids |-> "none"]
    /\ takenAt = [i \in Ids |-> Never]
    /\ executed = [i \in Ids |-> 0]
    /\ now = 0
    /\ checked = [i \in Ids |-> 0]
    /\ overtaken = {}
    /\ halfSeeded = {}
    /\ stranded = {}

-----------------------------------------------------------------------------
BugAlwaysUnblocks(p, ok) ==
    /\ task' = [task EXCEPT ![p] = IdleTask]
    /\ uncertain' = uncertain \ {p}
    /\ scan' = IF task[p].by = "handler" THEN scan
               ELSE [scan EXCEPT !.pc = IF scan.page = {} THEN "query" ELSE "page",
                                 !.row = NoId, !.resolved = @ \cup {p}]

(* The end of a coroutine's work on a row, with the value it returns.  A   *)
(* handler unblocks its pair when _finish_delivery returned True; the scan *)
(* files the pair under resolved or blocked and goes on.                   *)
Return(p, ok) ==
    /\ task' = [task EXCEPT ![p] = IdleTask]
    /\ \/ /\ task[p].by = "handler"
          /\ uncertain' = IF ok THEN uncertain \ {p} ELSE uncertain
          /\ scan' = scan
       \/ /\ task[p].by = "scan"
          /\ uncertain' = uncertain
          /\ scan' = [scan EXCEPT
                        !.pc = IF scan.page = {} THEN "query" ELSE "page",
                        !.row = NoId,
                        !.resolved = IF ok THEN @ \cup {p} ELSE @,
                        !.blocked = IF ok THEN @ ELSE @ \cup {p}]

Goto(p, pc) == task' = [task EXCEPT ![p].pc = pc]

(* _emit_intent up to stage_signal: the pair is not blocked and live       *)
(* delivery is not paused.  A close may name any cycle of the pair, also   *)
(* one that is over or never opened: the factory builds it all the same.   *)
(* The transaction starts, taking created_at.                              *)
EmitIntent(p, action, c) ==
    /\ mode = "up"
    /\ p \in slots
    /\ task[p].pc = "idle"
    /\ IsPaper \/ ~paused
    /\ p \notin uncertain
    /\ nextId \in Ids
    /\ IF action = "entry" THEN c = nextId ELSE c \in CyclesOf(p)
    /\ command' = [command EXCEPT
                     ![nextId] = [pair |-> p, action |-> action, cycle |-> c]]
    /\ created' = [created EXCEPT ![nextId] = now]
    /\ checked' = [checked EXCEPT ![nextId] = now]
    /\ nextId' = nextId + 1
    /\ task' = [task EXCEPT ![p] = [IdleTask EXCEPT !.pc = "stage",
                                      !.by = "handler", !.id = nextId]]
    /\ UNCHANGED <<status, pgPositions, cache, life, book, doubt, pending, scan,
                   broker, now, history>>

\* A scan looks for rows beyond its cursor until it found none.
LooksBeyond(i) == scan.pc # "end" /\ i > scan.cursor

\* The insert commits; stage_signal has not returned yet.
StageCommit(p) ==
    LET i == task[p].id
    IN  /\ task[p].pc = "stage"
        /\ status' = [status EXCEPT ![i] = "prepared"]
        /\ Goto(p, "staged")
        /\ overtaken' = IF scan.pc = "idle" \/ LooksBeyond(i) THEN overtaken
                        ELSE overtaken \cup {i}
        /\ UNCHANGED <<command, created, pgPositions, cache, life, book, doubt,
                       pending, scan, nextId, broker, clock, halfSeeded, stranded>>

\* stage_signal returned an id: the pair is blocked until the row is final.
StageReturned(p) ==
    /\ task[p].pc = "staged"
    /\ uncertain' = uncertain \cup {p}
    /\ Goto(p, "mark")
    /\ UNCHANGED <<durable, cache, life, book, unconfirmed, pending, scan,
                   nextId, broker, clock, history>>

\* stage_signal returned None, whether the insert committed or not.
StageFailed(p) ==
    /\ task[p].pc \in {"stage", "staged"}
    /\ uncertain' = uncertain \cup {p}
    /\ unconfirmed' = unconfirmed \cup {p}
    /\ task' = [task EXCEPT ![p] = IdleTask]
    /\ UNCHANGED <<durable, cache, life, book, pending, scan, nextId, broker,
                   clock, history>>

-----------------------------------------------------------------------------
(* _send_staged_signal                                                     *)

\* A paper book never calls the broker.
SendShadow(p) ==
    /\ task[p].pc = "mark"
    /\ IsPaper
    /\ task' = [task EXCEPT ![p].pc = "checkpoint", ![p].out = "shadow"]
    /\ pending' = [pending EXCEPT ![task[p].id] = "shadow"]
    /\ UNCHANGED <<durable, cache, life, book, doubt, scan, nextId, broker,
                   clock, history>>

\* Live delivery is paused, or Redis cannot tell: nothing is sent.
SendWithheld(p) ==
    /\ task[p].pc \in {"mark", "send"}
    /\ ~IsPaper
    /\ Return(p, FALSE)
    /\ UNCHANGED <<durable, cache, life, book, unconfirmed, pending, nextId,
                   broker, clock, history>>

\* "unknown" is on record before the command crosses the broker boundary.
MarkUnknown(p) ==
    /\ task[p].pc = "mark" /\ ~IsPaper /\ ~paused
    /\ status' = [status EXCEPT ![task[p].id] = "unknown"]
    /\ Goto(p, "send")
    /\ UNCHANGED <<command, created, pgPositions, cache, life, book, doubt,
                   pending, scan, nextId, broker, clock, history>>

\* The request leaves for the broker.
Send(p) ==
    LET i == task[p].id
    IN  /\ task[p].pc = "send" /\ ~paused
        /\ net[i] < MaxCopies
        /\ net' = [net EXCEPT ![i] = @ + 1]
        /\ reply' = [reply EXCEPT ![i] = "none"]
        /\ Goto(p, "sending")
        /\ UNCHANGED <<durable, cache, life, book, doubt, pending, scan, nextId,
                       takenAt, executed, clock, history>>

\* What BrokerSink.send may report: a timeout at any moment, and any other
\* error as "failed".  Over HTTP that includes the reset connection or the
\* gateway's 5xx that hides an accepted command.
Results(i) ==
    {"unknown"}
    \cup (IF reply[i] = "ack" THEN {"sent"} ELSE {})
    \cup (IF reply[i] = "nack" \/ (reply[i] = "ack" /\ Transport = "http")
          THEN {"failed"} ELSE {})

\* A refused retry of an ambiguous attempt is still ambiguous.
Outcome(p, result) ==
    IF result = "failed" /\ task[p].ambiguous THEN "unknown" ELSE result

\* The result reaches _finish_delivery, which keeps a definite one in memory.
SendReturns(p) ==
    /\ task[p].pc = "sending"
    /\ \E result \in Results(task[p].id) :
         LET out == Outcome(p, result)
         IN  /\ task' = [task EXCEPT ![p].out = out,
                          ![p].pc = IF out \in Accepted THEN "checkpoint" ELSE "final"]
             /\ pending' = IF out = "unknown" THEN pending
                           ELSE [pending EXCEPT ![task[p].id] = out]
    /\ UNCHANGED <<durable, cache, life, book, doubt, scan, nextId, broker,
                   clock, history>>

-----------------------------------------------------------------------------
(* _finish_delivery                                                        *)

PendingStatus(out) == IF out = "sent" THEN "sent_pending" ELSE "shadow_pending"

\* The acceptance is checkpointed, then the book takes the transition.
Checkpoint(p) ==
    LET i == task[p].id
    IN  /\ task[p].pc = "checkpoint"
        /\ status' = [status EXCEPT ![i] = PendingStatus(task[p].out)]
        /\ book' = Commit(book, i)
        /\ Goto(p, "redis")
        /\ UNCHANGED <<command, created, pgPositions, cache, life, doubt,
                       pending, scan, nextId, broker, clock, history>>

\* _track_cycle writes the cycle, as the book has it, to Redis ...
Tracked(p, store) ==
    LET c == command[task[p].id].cycle IN [store EXCEPT ![c] = book[c]]
TrackRedis(p) ==
    /\ task[p].pc = "redis"
    /\ redisPositions' = Tracked(p, redisPositions)
    /\ Goto(p, "postgres")
    /\ UNCHANGED <<durable, paused, life, book, doubt, pending, scan, nextId,
                   broker, clock, history>>

\* ... and then to Postgres.
TrackPostgres(p) ==
    /\ task[p].pc = "postgres"
    /\ pgPositions' = Tracked(p, pgPositions)
    /\ Goto(p, "final")
    /\ UNCHANGED <<status, command, created, cache, life, book, doubt, pending,
                   scan, nextId, broker, clock, history>>

\* Either write may fail, with or without taking effect.
TrackFailed(p) ==
    /\ \/ /\ task[p].pc = "redis"
          /\ redisPositions' \in {redisPositions, Tracked(p, redisPositions)}
          /\ pgPositions' = pgPositions
       \/ /\ task[p].pc = "postgres"
          /\ redisPositions' = redisPositions
          /\ pgPositions' \in {pgPositions, Tracked(p, pgPositions)}
    /\ Return(p, FALSE)
    /\ UNCHANGED <<status, command, created, paused, life, book, unconfirmed,
                   pending, nextId, broker, clock, history>>

\* The row's last update.  An ambiguous outcome leaves the pair blocked.
Finalise(p) ==
    LET i == task[p].id
        out == task[p].out
    IN  /\ task[p].pc = "final"
        /\ status' = [status EXCEPT ![i] = out]
        /\ pending' = IF out = "unknown" THEN pending
                      ELSE [pending EXCEPT ![i] = "none"]
        /\ Return(p, out # "unknown")
        /\ UNCHANGED <<command, created, pgPositions, cache, life, book,
                       unconfirmed, nextId, broker, clock, history>>

\* mark_delivery reported a failure; the update may have committed all the same.
MarkFailed(p) ==
    LET mark == CASE task[p].pc = "mark" -> "unknown"
                  [] task[p].pc = "checkpoint" -> PendingStatus(task[p].out)
                  [] OTHER -> task[p].out
    IN  /\ task[p].pc \in {"mark", "checkpoint", "final"}
        /\ task[p].pc = "mark" => ~IsPaper /\ ~paused
        /\ status' \in {status, [status EXCEPT ![task[p].id] = mark]}
        /\ Return(p, FALSE)
        /\ UNCHANGED <<command, created, pgPositions, cache, life, book,
                       unconfirmed, pending, nextId, broker, clock, history>>

-----------------------------------------------------------------------------
(* _recover_pending_deliveries: once while booting, then every             *)
(* delivery_retry_interval.                                                *)

ScanStart ==
    /\ mode \in {"boot", "up"}
    /\ scan.pc = "idle"
    /\ scan' = [IdleScan EXCEPT !.pc = "query"]
    /\ UNCHANGED <<durable, cache, life, book, doubt, pending, task, nextId,
                   broker, clock, history>>

\* pending_deliveries(after_cursor, include_ids): the oldest unfinished rows
\* beyond the cursor, at most PageSize of them.
BugForgetsAccepted == {i \in Ids : /\ i > scan.cursor
                                   /\ status[i] \in {"prepared", "unknown"}}
Backlog == {i \in Ids : /\ i > scan.cursor
                        /\ status[i] # "none"
                        /\ status[i] \in Unfinished \/ pending[i] # "none"}
FirstPage(S) == {i \in S : Cardinality({j \in S : j < i}) < PageSize}

\* The database takes the snapshot; the answer is still on its way.
ScanQuery ==
    /\ scan.pc = "query"
    /\ \/ /\ Backlog = {}
          /\ scan' = [scan EXCEPT !.pc = "end"]
       \/ \E last \in FirstPage(Backlog) :
             /\ \A i \in FirstPage(Backlog) : i =< last
             /\ scan' = [scan EXCEPT !.pc = "page", !.page = FirstPage(Backlog),
                                    !.cursor = last]
    /\ UNCHANGED <<durable, cache, life, book, doubt, pending, task, nextId,
                   broker, clock, history>>

\* A query that raises ends the pass without unblocking anything; while
\* booting it ends the process.
ScanQueryFailed ==
    /\ scan.pc = "query"
    /\ mode = "up"
    /\ scan' = IdleScan
    /\ stranded' = stranded \cup (scan.resolved \cap uncertain)
    /\ UNCHANGED <<durable, cache, life, book, doubt, pending, task, nextId,
                   broker, clock, overtaken, halfSeeded>>

\* The next row of the page: its pair is blocked, and is skipped if an older
\* row of it was not resolved or if no slot drives it.
ScanVisit ==
    /\ scan.pc = "page"
    /\ \E i \in scan.page :
         LET p == PairOf(i)
         IN  /\ \A j \in scan.page : i =< j
             /\ uncertain' = uncertain \cup {p}
             /\ IF p \in slots /\ p \notin scan.blocked
                THEN scan' = [scan EXCEPT !.pc = "lock", !.row = i, !.page = @ \ {i}]
                ELSE scan' = [scan EXCEPT
                                !.pc = IF scan.page = {i} THEN "query" ELSE "page",
                                !.page = @ \ {i}, !.blocked = @ \cup {p}]
    /\ UNCHANGED <<durable, cache, life, book, unconfirmed, pending, task,
                   nextId, broker, clock, history>>

\* _recover_delivery, once the pair's lock is held: the row is read again and
\* the work that is left on it is chosen.  A known outcome goes straight to
\* _finish_delivery, which keeps it in memory.
BugNoHorizon(i) == TRUE
Retriable(i) ==
    \/ IsPaper
    \/ status[i] = "prepared"
    \/ RetryMaxAge > 0 /\ now - created[i] < RetryMaxAge

BugForgetsResult(i) ==
    CASE status[i] = "sent_pending" -> "sent"
      [] status[i] = "shadow_pending" -> "shadow"
      [] OTHER -> "none"

KnownOutcome(i) ==
    CASE pending[i] # "none" -> pending[i]
      [] pending[i] = "none" /\ status[i] = "sent_pending" -> "sent"
      [] pending[i] = "none" /\ status[i] = "shadow_pending" -> "shadow"
      [] OTHER -> "none"

RecoveryTask(i) ==
    LET out == KnownOutcome(i)
    IN  [pc |-> IF out = "none" THEN "mark"
                ELSE IF out \in Accepted THEN "checkpoint" ELSE "final",
         by |-> "scan", id |-> i, out |-> out,
         ambiguous |-> status[i] = "unknown"]

ScanLock ==
    LET i == scan.row
        p == PairOf(i)
    IN  /\ scan.pc = "lock"
        /\ task[p].pc = "idle"
        /\ KnownOutcome(i) # "none" \/ (status[i] \notin Final /\ Retriable(i))
        /\ task' = [task EXCEPT ![p] = RecoveryTask(i)]
        /\ scan' = [scan EXCEPT !.pc = "row"]
        /\ pending' = IF KnownOutcome(i) = "none" THEN pending
                      ELSE [pending EXCEPT ![i] = KnownOutcome(i)]
        /\ checked' = IF KnownOutcome(i) = "none"
                      THEN [checked EXCEPT ![i] = now] ELSE checked
        /\ UNCHANGED <<durable, cache, life, book, doubt, nextId, broker, now, history>>

\* Nothing to do: the handler finished the row after the snapshot, or the row
\* may not be retried, or reading it again raised.
ScanSkip ==
    LET i == scan.row
        p == PairOf(i)
        settled == status[i] \in Final /\ pending[i] = "none"
    IN  /\ scan.pc = "lock"
        /\ task[p].pc = "idle"
        /\ \E ok \in {settled, FALSE} :
             /\ scan' = [scan EXCEPT
                           !.pc = IF scan.page = {} THEN "query" ELSE "page",
                           !.row = NoId,
                           !.resolved = IF ok THEN @ \cup {p} ELSE @,
                           !.blocked = IF ok THEN @ ELSE @ \cup {p}]
             /\ stranded' = IF settled /\ ~ok THEN stranded \cup ({p} \cap uncertain)
                            ELSE stranded
        /\ UNCHANGED <<durable, cache, life, book, doubt, pending, task, nextId,
                       broker, clock, overtaken, halfSeeded>>

BugKeepsUnconfirmed == scan.resolved \ scan.blocked
Released == (scan.resolved \cup unconfirmed) \ scan.blocked

\* The empty page arrived: resolved pairs and pairs whose staging was in doubt
\* are released, unless a row of theirs is still open.
ScanEnd ==
    /\ scan.pc = "end"
    /\ uncertain' = uncertain \ Released
    /\ unconfirmed' = {}
    /\ scan' = IdleScan
    /\ mode' = "up"
    /\ stranded' = stranded \ Released
    /\ UNCHANGED <<durable, cache, slots, book, pending, task, nextId, broker,
                   clock, overtaken, halfSeeded>>

-----------------------------------------------------------------------------
(* Starting, stopping and the environment                                  *)

\* start(): the slots are built and every pair's cycles restored, the cache
\* being seeded again from the table where it was empty.
Boot ==
    /\ mode = "down"
    /\ mode' = "boot"
    /\ slots' \in SlotChoices
    /\ book' = [c \in Ids |-> IF PairOf(c) \in slots'
                              THEN RestoredFrom(PairOf(c))[c] ELSE NoPosition]
    /\ redisPositions' = [c \in Ids |-> IF PairOf(c) \in slots' THEN book'[c]
                                        ELSE redisPositions[c]]
    /\ UNCHANGED <<durable, paused, doubt, pending, task, scan, nextId, broker,
                   clock, history>>

\* A start that dies, or loses Redis, between two set_open_position calls of
\* _restore_position has seeded only some of the pair's cycles.
BootCut(p) ==
    /\ mode = "down"
    /\ \A c \in CyclesOf(p) : redisPositions[c] = NoPosition
    /\ \E seeded \in SUBSET CyclesOf(p) :
         /\ redisPositions' = [c \in Ids |-> IF c \in seeded THEN pgPositions[c]
                                            ELSE redisPositions[c]]
         /\ halfSeeded' = IF /\ \E c \in seeded : pgPositions[c] # NoPosition
                             /\ \E c \in CyclesOf(p) \ seeded : pgPositions[c] # NoPosition
                          THEN halfSeeded \cup {p} ELSE halfSeeded
    /\ UNCHANGED <<durable, paused, memory, nextId, broker, clock, overtaken, stranded>>

\* The process ends at any await; what it kept in memory is gone.
Crash ==
    /\ mode # "down"
    /\ mode' = "down"
    /\ slots' = {}
    /\ book' = EmptyBook
    /\ uncertain' = {}
    /\ unconfirmed' = {}
    /\ pending' = [i \in Ids |-> "none"]
    /\ task' = [p \in Pairs |-> IdleTask]
    /\ scan' = IdleScan
    /\ stranded' = {}
    /\ UNCHANGED <<durable, cache, nextId, broker, clock, overtaken, halfSeeded>>

\* The cache is re-provisioned between two runs of the runner.
RedisFlushed ==
    /\ mode = "down"
    /\ redisPositions' = EmptyBook
    /\ UNCHANGED <<durable, paused, memory, nextId, broker, clock, history>>

\* qte-control shadow on|off, stored in Redis.
SetShadow ==
    /\ ~IsPaper
    /\ paused' = ~paused
    /\ UNCHANGED <<durable, redisPositions, memory, nextId, broker, clock, history>>

\* The broker (or the JetStream stream in front of it) stores a command and
\* acts on it, unless it remembers the delivery id.
BrokerTakes(i) ==
    /\ net[i] > 0
    /\ net' = [net EXCEPT ![i] = @ - 1]
    /\ reply' = [reply EXCEPT ![i] = "ack"]
    /\ IF takenAt[i] # Never /\ now - takenAt[i] < DedupWindow
       THEN UNCHANGED <<takenAt, executed>>
       ELSE /\ takenAt' = [takenAt EXCEPT ![i] = now]
            /\ executed' = [executed EXCEPT ![i] = @ + 1]
    /\ UNCHANGED <<durable, cache, memory, nextId, clock, history>>

BrokerRefuses(i) ==
    /\ net[i] > 0
    /\ net' = [net EXCEPT ![i] = @ - 1]
    /\ reply' = [reply EXCEPT ![i] = "nack"]
    /\ UNCHANGED <<durable, cache, memory, nextId, takenAt, executed, clock, history>>

NetworkLoses(i) ==
    /\ net[i] > 0
    /\ net' = [net EXCEPT ![i] = @ - 1]
    /\ UNCHANGED <<durable, cache, memory, nextId, reply, takenAt, executed,
                   clock, history>>

\* An attempt that was allowed reaches the broker, or is lost, within MaxLag.
UnderWay(i) ==
    \/ net[i] > 0
    \/ \E p \in Pairs : task[p].id = i /\ task[p].pc \in {"stage", "staged", "mark", "send"}
Tick ==
    /\ now < MaxTime
    /\ \A i \in Ids : UnderWay(i) => now - checked[i] < MaxLag
    /\ now' = now + 1
    /\ UNCHANGED <<durable, cache, memory, nextId, broker, checked, history>>

-----------------------------------------------------------------------------
Handler(p) == \E action \in Actions, c \in Ids : EmitIntent(p, action, c)
Progress(p) ==
    \/ StageCommit(p) \/ StageReturned(p)
    \/ SendShadow(p) \/ MarkUnknown(p) \/ Send(p) \/ SendReturns(p)
    \/ Checkpoint(p) \/ TrackRedis(p) \/ TrackPostgres(p) \/ Finalise(p)
Fault(p) ==
    \/ StageFailed(p) \/ SendWithheld(p) \/ TrackFailed(p) \/ MarkFailed(p)
Scanning ==
    \/ ScanStart \/ ScanQuery \/ ScanVisit \/ ScanLock \/ ScanSkip \/ ScanEnd
Broker == \E i \in Ids : BrokerTakes(i) \/ BrokerRefuses(i) \/ NetworkLoses(i)

Next ==
    \/ \E p \in Pairs : Handler(p) \/ Progress(p) \/ Fault(p)
    \/ Scanning \/ ScanQueryFailed
    \/ \E p \in Pairs : BootCut(p)
    \/ Boot \/ Crash \/ RedisFlushed \/ SetShadow
    \/ Broker
    \/ Tick

Spec == Init /\ [][Next]_vars

(* Fairness.  The retry loop runs for as long as the process does and a    *)
(* supervisor restarts it; a step that a fault or a crash can pre-empt is  *)
(* not pre-empted every time.  Nothing is asked of the broker, of the      *)
(* strategy or of the operator.                                            *)
Fairness ==
    /\ WF_vars(Boot)
    /\ SF_vars(ScanStart) /\ SF_vars(ScanQuery) /\ SF_vars(ScanVisit)
    /\ SF_vars(ScanLock) /\ SF_vars(ScanEnd) /\ WF_vars(ScanSkip)
    /\ \A p \in Pairs :
        /\ SF_vars(StageCommit(p)) /\ SF_vars(StageReturned(p))
        /\ SF_vars(SendShadow(p)) /\ SF_vars(MarkUnknown(p)) /\ SF_vars(Send(p))
        /\ SF_vars(SendReturns(p)) /\ SF_vars(Checkpoint(p)) /\ SF_vars(TrackRedis(p))
        /\ SF_vars(TrackPostgres(p)) /\ SF_vars(Finalise(p))

FairSpec == Spec /\ Fairness

-----------------------------------------------------------------------------
(* Properties                                                              *)

CommandType == [pair : Pairs \cup {"none"}, action : Actions \cup {"none"},
                cycle : Ids \cup {NoId}]
PhaseType == {"idle", "stage", "staged", "mark", "send", "sending", "checkpoint",
              "redis", "postgres", "final"}
TaskType == [pc : PhaseType, by : {"none", "handler", "scan"},
             id : Ids \cup {NoId}, out : Outcomes, ambiguous : BOOLEAN]
ScanType == [pc : {"idle", "query", "page", "lock", "row", "end"},
             cursor : Ids \cup {NoId}, page : SUBSET Ids, row : Ids \cup {NoId},
             blocked : SUBSET Pairs, resolved : SUBSET Pairs]

\* Every variable keeps its type: in particular no cycle's remaining size
\* leaves 0..Full whatever is replayed.
TypeOK ==
    /\ status \in [Ids -> {"none"} \cup Unfinished \cup Final]
    /\ command \in [Ids -> CommandType]
    /\ created \in [Ids -> Times]
    /\ pgPositions \in [Ids -> Position]
    /\ redisPositions \in [Ids -> Position]
    /\ paused \in BOOLEAN
    /\ mode \in {"down", "boot", "up"}
    /\ slots \in SUBSET Pairs
    /\ book \in [Ids -> Position]
    /\ uncertain \in SUBSET Pairs
    /\ unconfirmed \in SUBSET Pairs
    /\ pending \in [Ids -> {"none"} \cup Final]
    /\ task \in [Pairs -> TaskType]
    /\ scan \in ScanType
    /\ nextId \in Ids \cup {MaxRows + 1}
    /\ net \in [Ids -> Nat]
    /\ reply \in [Ids -> {"none", "ack", "nack"}]
    /\ takenAt \in [Ids -> Times \cup {Never}]
    /\ executed \in [Ids -> Nat]
    /\ now \in Times
    /\ checked \in [Ids -> Times]
    /\ overtaken \in SUBSET Ids
    /\ halfSeeded \in SUBSET Pairs
    /\ stranded \in SUBSET Pairs

\* A row still "prepared" never reached the network: this is why recovery may
\* send it whatever its age, without the deduplication horizon.
PreparedNeverSent ==
    \A i \in Ids : status[i] \in {"none", "prepared"} =>
        net[i] = 0 /\ takenAt[i] = Never /\ executed[i] = 0

\* The broker acts at most once on a command, however often it is retried and
\* however late a copy arrives.
AtMostOnce == \A i \in Ids : executed[i] =< 1

\* "failed" is only written about a command the broker does not hold and will
\* not get; the strategy is free to issue another one.
FailedMeansNotExecuted ==
    \A i \in Ids : status[i] = "failed" => executed[i] = 0 /\ net[i] = 0

Outstanding(i) == status[i] \in Unfinished

\* _emit_intent, "Do not create a second command until a successful outbox scan
\* proves whether this pair has an unfinished row": a pair has a second one only
\* beside a row that a scan could not see, since it was committed behind the
\* scan's cursor or after its last, empty page.
OneOutstanding ==
    \A i, j \in Ids : i < j /\ Outstanding(i) /\ Outstanding(j) /\ PairOf(i) = PairOf(j)
                       => i \in overtaken

\* What was done for a cycle, as a position: a live command is done when the
\* broker executes it, one of a paper book when it is recorded as accepted.
Happened(i) == status[i] \in {"shadow", "shadow_pending"} \/ executed[i] > 0
BrokerPosition(c) ==
    LET done == {i \in Ids : command[i].cycle = c /\ Happened(i)}
        tp1s == {i \in done : command[i].action = "tp1"}
    IN  IF \/ c \notin done
           \/ \E i \in done : command[i].action = "close"
           \/ Cardinality(tp1s) >= Full
        THEN NoPosition
        ELSE [remaining |-> Full - Cardinality(tp1s), applied |-> done]

\* No scan passed over a row of the pair, and no start died seeding its cache.
Sound(p) == p \notin halfSeeded /\ \A i \in overtaken : PairOf(i) # p

\* A pair that may decide again has the broker's position in its book: no ghost
\* cycle, no forgotten one, no close applied twice or not at all.
BookMatchesBroker ==
    \A p \in slots :
        Sound(p) /\ mode = "up" /\ p \notin uncertain /\ task[p].pc = "idle" =>
            \A c \in CyclesOf(p) : book[c] = BrokerPosition(c)

\* What a start would restore for a pair without unfinished rows is what the
\* broker holds, also when the cache was re-provisioned.
RestartForgetsNothing ==
    \A p \in Pairs :
        Sound(p) /\ (\A i \in CyclesOf(p) : ~Outstanding(i)) =>
            \A c \in CyclesOf(p) : RestoredFrom(p)[c] = BrokerPosition(c)

\* Live or on paper: what a pair that may decide again has in memory, and what
\* _restore_position would bring back for a pair without unfinished rows, is
\* what the broker, or the paper record, holds for it, unless a scan passed over
\* a row of the pair or a start died while it seeded the pair's cache.
BooksAreTrue == BookMatchesBroker /\ RestartForgetsNothing

\* A row once accepted, or once refused, is never anything else again.
KeepsOutcome(i) ==
    /\ status[i] \in {"sent_pending", "sent"} =>
           status'[i] \in {"sent_pending", "sent"}
    /\ status[i] \in {"shadow_pending", "shadow"} =>
           status'[i] \in {"shadow_pending", "shadow"}
    /\ status[i] = "failed" => status'[i] = "failed"
KeepsOutcomes == \A i \in Ids : KeepsOutcome(i)
OutcomeIsStable == [][KeepsOutcomes]_vars

\* "Accepted rows only retry local persistence; they never resend to the
\* broker": a command leaves only while its row says "unknown" and the runner
\* knows no result for it.
SendsOnlyUnknown ==
    \A i \in Ids : net'[i] > net[i] => status[i] = "unknown" /\ pending[i] = "none"
NeverResendAccepted == [][SendsOnlyUnknown]_vars

\* An acceptance that was checkpointed is eventually recorded as final, through
\* any number of crashes and failed writes: the retry loop loses no row.
AcceptedIsRecorded ==
    \A i \in Ids : status[i] \in {"sent_pending", "shadow_pending"} ~> status[i] \in Accepted

\* A pair never stays blocked for ever for want of a scan: again and again it
\* may decide, unless live delivery is paused, one of its rows is ambiguous and
\* so waits for the operator, or a scan that had settled its last row failed
\* before it released the pair.  Until the next restart only a scan that finds
\* another row of the pair would release it then.
PairResumes ==
    \A p \in Pairs :
        []<>( \/ mode = "up" /\ p \notin uncertain /\ task[p].pc = "idle"
              \/ paused \/ p \in stranded
              \/ \E i \in Ids : PairOf(i) = p /\ status[i] = "unknown" )
=============================================================================
