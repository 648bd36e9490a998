----------------------------- MODULE CandleFeed -----------------------------
(***************************************************************************)
(* How closed bars reach one strategy.                                     *)
(*                                                                         *)
(* Bars are named by the bucket they close: 1, 2, ...  Redis holds those   *)
(* that ingestion has stored; the bus tells the runner of some of them,    *)
(* late, twice or not at all.  A slot keeps a window of bars in memory and *)
(* a mark in Redis, the newest bar it was fed.  With the slot's lock held, *)
(* three callers bring it up to date: the replay at start, the message     *)
(* handler and the periodic synchronisation.  Each reads the window of     *)
(* Redis, merges what is old into memory and feeds what is new, one bar at *)
(* a time: append, record the mark, decide.                                *)
(***************************************************************************)
EXTENDS Naturals, Sequences, FiniteSets

CONSTANTS
    MaxTime,        \* buckets that end in a run
    Window,         \* history_window(): bars in memory, and read from Redis
    Warmup,         \* bars a strategy needs before it decides
    MaxAge,         \* QTE_RUNNER__CATCH_UP_MAX_AGE, in buckets
    InitialMarks,   \* marks an earlier feed may have left, 0 for none
    MaxDecisions,   \* decisions in a run
    MarkFails,      \* the mark may not be written
    RedisFails,     \* a sync may break off
    Gates,          \* /prevent may skip a decision
    Crashes,        \* the runner may die
    Flushes         \* the operator may drop the window

ASSUME BoundsAssumption ==
    /\ MaxTime \in Nat \ {0} /\ Window \in Nat \ {0} /\ Warmup \in Nat
    /\ MaxAge \in Nat /\ MaxDecisions \in Nat
    \* no mark, or one that a simulator running ahead of the clock has left
    /\ InitialMarks \subseteq {0, MaxTime + 1}
ASSUME SwitchesAssumption ==
    {MarkFails, RedisFails, Gates, Crashes, Flushes} \subseteq BOOLEAN

VARIABLES
    now,        \* buckets that have ended
    stored,     \* Redis: the bars of the series
    mark,       \* Redis: the newest bar the slot was fed, 0 for none
    sent,       \* the bars the bus may deliver
    phase,      \* the runner: "down", "booting", "catchup", "up"
    startedAt,  \* _history_started_at
    buffer,     \* the slot's window
    job,        \* what the holder of the slot's lock is doing
    decisions,  \* history: what the strategy was asked, in order
    spoiled     \* history: a mark was not written, or the window was flushed

redisVars == <<stored, mark>>
runnerVars == <<phase, startedAt, buffer, job>>
vars == <<now, redisVars, sent, runnerVars, decisions, spoiled>>

Times == 1..MaxTime

NoJob == [step |-> "idle", todo |-> {}, bar |-> 0, decide |-> FALSE, seen |-> {}]

TypeOK ==
    /\ now \in 0..MaxTime
    /\ stored \subseteq 1..now
    /\ mark \in (1..now) \cup InitialMarks
    /\ sent \subseteq 1..now
    /\ phase \in {"down", "booting", "catchup", "up"}
    /\ startedAt \in 0..now
    /\ buffer \subseteq 1..now
    /\ job \in [step : {"idle", "next", "mark", "decide"}, todo : SUBSET (1..now),
                bar : 0..now, decide : BOOLEAN, seen : SUBSET (1..now)]
    /\ decisions \in Seq([t : Times, frame : SUBSET Times, seen : SUBSET Times])
    /\ spoiled \in BOOLEAN

Init ==
    /\ now = 0
    /\ stored = {}
    /\ mark \in InitialMarks
    /\ sent = {}
    /\ phase = "down"
    /\ startedAt = 0
    /\ buffer = {}
    /\ job = NoJob
    /\ decisions = <<>>
    /\ spoiled = FALSE

(***************************************************************************)
(* Ingestion and the bus.                                                  *)
(***************************************************************************)

\* A bucket ends.  Its bar is staged and will be published, or ingestion is down.
BucketEnds ==
    /\ now < MaxTime
    /\ now' = now + 1
    /\ \/ stored' = stored \cup {now + 1} /\ sent' = sent \cup {now + 1}
       \/ UNCHANGED <<stored, sent>>
    /\ UNCHANGED <<mark, runnerVars, decisions, spoiled>>

\* Vendor history fills a hole, with buckets that have ended.
Backfill(t) ==
    /\ t \in (1..now) \ stored
    /\ stored' = stored \cup {t}
    /\ UNCHANGED <<now, mark, sent, runnerVars, decisions, spoiled>>

\* /flush: the window goes, the mark stays.
FlushWindow ==
    /\ Flushes
    /\ stored' = {}
    /\ spoiled' = TRUE
    /\ UNCHANGED <<now, mark, sent, runnerVars, decisions>>

(***************************************************************************)
(* The window.                                                             *)
(***************************************************************************)

\* deque(maxlen=Window), lrange(-Window, -1): the newest Window bars
Newest(S) == {t \in S : Cardinality({u \in S : u > t}) < Window}

\* The bar is newer than everything in the slot's window.
Advances(t) == \A u \in buffer : u < t

BugFutureLine == mark

\* _decided_open_time: a mark ahead of the clock was left by a feed that ran
\* ahead of it, so the line is drawn at the age limit instead.
Line == IF mark <= now THEN mark
        ELSE IF now > MaxAge THEN now - MaxAge ELSE 0
HasLine == mark # 0

(***************************************************************************)
(* Start.                                                                  *)
(***************************************************************************)

Start ==
    /\ phase = "down"
    /\ phase' = "booting"
    /\ startedAt' = now
    /\ UNCHANGED <<now, redisVars, sent, buffer, job, decisions, spoiled>>

\* _restore_state takes what the slot had been fed, _subscribe follows; every slot
\* lock is held from here until the replay has ended.
Restore ==
    /\ phase = "booting"
    /\ phase' = "catchup"
    /\ buffer' = {t \in Newest(stored) : HasLine => t <= Line}
    /\ UNCHANGED <<now, redisVars, sent, startedAt, job, decisions, spoiled>>

(***************************************************************************)
(* Synchronisation with the lock held.                                     *)
(***************************************************************************)

BugIgnoresOld(read, live) ==
    /\ buffer' = buffer
    /\ job' = [NoJob EXCEPT !.step = "next", !.seen = read,
                            !.todo = {t \in read : Advances(t)} \cup live]

\* _sync_history: the bars read are merged below the newest one fed, and fed
\* above it.  A slot that was never fed anything takes the bars that closed
\* before the runner started as history.
Sync(read, live) ==
    LET old == IF buffer # {} THEN {t \in read : ~Advances(t)}
               ELSE IF HasLine THEN {t \in read : t <= Line}
               ELSE {t \in read : t <= startedAt}
    IN  /\ buffer' = Newest(buffer \cup old)
        /\ job' = [NoJob EXCEPT !.step = "next", !.seen = read,
                                !.todo = (read \ old) \cup live]

\* _catch_up and _history_sync_loop
SyncPass ==
    /\ phase \in {"catchup", "up"}
    /\ job = NoJob
    /\ Sync(Newest(stored), {})
    /\ UNCHANGED <<now, redisVars, sent, phase, startedAt, decisions, spoiled>>

BugNoSync(t) ==
    /\ phase = "up"
    /\ job = NoJob
    /\ t \in sent
    /\ Advances(t)
    /\ job' = [NoJob EXCEPT !.step = "next", !.todo = {t}, !.seen = Newest(stored) \cap 1..(t-1)]
    /\ UNCHANGED <<now, redisVars, sent, phase, startedAt, buffer, decisions, spoiled>>

\* _feed_candle: the read is bounded by the bar of the message, which is fed last.
Message(t) ==
    /\ phase = "up"
    /\ job = NoJob
    /\ t \in sent
    /\ Advances(t)
    /\ Sync({u \in Newest(stored) : u < t}, {t})
    /\ UNCHANGED <<now, redisVars, sent, phase, startedAt, decisions, spoiled>>

\* _feed_if_current, _feed_candle_serialized: the oldest bar to feed is appended
\* unless it does not advance; a bar past the age limit is kept as history.
Feed ==
    /\ job.step = "next"
    /\ \E t \in job.todo :
        /\ \A u \in job.todo : t <= u
        /\ LET current == now - t <= MaxAge IN
            IF current /\ ~Advances(t)
            THEN /\ job' = [job EXCEPT !.todo = @ \ {t}]
                 /\ UNCHANGED buffer
            ELSE /\ buffer' = Newest(buffer \cup {t})
                 /\ job' = [job EXCEPT !.todo = @ \ {t}, !.step = "mark",
                                       !.bar = t, !.decide = current]
    /\ UNCHANGED <<now, redisVars, sent, phase, startedAt, decisions, spoiled>>

\* The strategy is consulted if the window is warm.
WillDecide == job.decide /\ Cardinality(buffer) >= Warmup

Continue == job' = [job EXCEPT !.step = "next"]

BugDecidesFirst ==
    /\ job.step = "mark"
    /\ IF WillDecide /\ Len(decisions) < MaxDecisions
       THEN /\ decisions' = Append(decisions, [t |-> job.bar, frame |-> buffer, seen |-> job.seen])
            /\ job' = [job EXCEPT !.decide = FALSE]
            /\ UNCHANGED mark
       ELSE /\ mark' = job.bar
            /\ Continue
            /\ UNCHANGED decisions
    /\ UNCHANGED <<now, stored, sent, phase, startedAt, buffer, spoiled>>

\* _record_decided comes before the decision, and never raises.
RecordDecided ==
    /\ job.step = "mark"
    /\ \/ mark' = job.bar /\ UNCHANGED spoiled
       \/ MarkFails /\ UNCHANGED mark /\ spoiled' = TRUE
    /\ IF WillDecide THEN job' = [job EXCEPT !.step = "decide"] ELSE Continue
    /\ UNCHANGED <<now, stored, sent, phase, startedAt, buffer, decisions>>

\* on_candle_closed with the window, unless the pair is paused.
Decide ==
    /\ job.step = "decide"
    /\ \/ /\ Len(decisions) < MaxDecisions
          /\ decisions' = Append(decisions,
                                 [t |-> job.bar, frame |-> buffer, seen |-> job.seen])
       \/ /\ Gates \/ Len(decisions) = MaxDecisions
          /\ UNCHANGED decisions
    /\ Continue
    /\ UNCHANGED <<now, redisVars, sent, phase, startedAt, buffer, spoiled>>

\* Nothing is left: the lock is released, and after the replay the runner is up.
Done ==
    /\ job.step = "next"
    /\ job.todo = {}
    /\ job' = NoJob
    /\ phase' = "up"
    /\ UNCHANGED <<now, redisVars, sent, startedAt, buffer, decisions, spoiled>>

\* The ownership check or a read fails between two bars; a failed replay ends the
\* start.
BreakOff ==
    /\ RedisFails
    /\ job.step = "next"
    /\ job' = NoJob
    /\ phase' = IF phase = "catchup" THEN "down" ELSE phase
    /\ buffer' = IF phase = "catchup" THEN {} ELSE buffer
    /\ UNCHANGED <<now, redisVars, sent, startedAt, decisions, spoiled>>

Crash ==
    /\ Crashes
    /\ phase # "down"
    /\ phase' = "down"
    /\ buffer' = {}
    /\ job' = NoJob
    /\ UNCHANGED <<now, redisVars, sent, startedAt, decisions, spoiled>>

Next ==
    \/ BucketEnds \/ FlushWindow
    \/ \E t \in Times : Backfill(t) \/ Message(t)
    \/ Start \/ Restore \/ SyncPass
    \/ Feed \/ RecordDecided \/ Decide \/ Done \/ BreakOff
    \/ Crash

Spec == Init /\ [][Next]_vars

(***************************************************************************)
(* Properties.                                                             *)
(***************************************************************************)

\* Decisions go forward: no bar is decided twice or behind a newer one, whatever
\* messages arrive and wherever the runner dies ("so no bar is decided on twice
\* or behind a newer one", start), as long as _record_decided reaches Redis and
\* nobody flushes the window.  After a flush and a restart the slot has a mark and
\* no bars, and _feed_candle, which compares with the bars only, takes a late
\* message of a decided bar.
Forward == \A i, j \in DOMAIN decisions : i < j => decisions[i].t < decisions[j].t
DecisionsAdvance == ~spoiled => Forward

\* A decision that has been made is covered by the mark, so that the next start
\* does not make it again.
DecisionsAreMarked ==
    ~spoiled => \A i \in DOMAIN decisions : decisions[i].t <= mark

\* The window a decision is made on has no hole: it holds its own bar and, of the
\* bars read before it and the bars it holds, the newest ones.
FramesAreWhole ==
    \A i \in DOMAIN decisions : LET d == decisions[i] IN
        /\ d.t \in d.frame
        /\ \A u \in d.frame : u <= d.t
        /\ {u \in Newest(d.frame \cup d.seen) : u <= d.t} \subseteq d.frame

\* A bar newer than the mark enters the window only by being fed, so that the
\* strategy is asked about it unless it is too old; with a mark ahead of the clock
\* that is every bar within the age limit (_catch_up, _decided_open_time).
MissedClosesAreFed ==
    [][\A t \in buffer' \ buffer :
        /\ Advances(t)
        /\ IF mark <= now THEN 0 < mark /\ mark < t ELSE now < t + MaxAge
        => job'.step = "mark" /\ job'.bar = t]_vars

(***************************************************************************)
(* Liveness: the tasks run, and Redis works again at some point.           *)
(***************************************************************************)
Fairness ==
    /\ WF_vars(Start) /\ WF_vars(Restore) /\ WF_vars(SyncPass)
    /\ SF_vars(Feed) /\ WF_vars(RecordDecided) /\ WF_vars(Decide) /\ SF_vars(Done)

FairSpec == Spec /\ Fairness
=============================================================================
