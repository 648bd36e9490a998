-------------------------- MODULE CandleFeedProofs --------------------------
(***************************************************************************)
(* For every window, age limit and number of bars: while the mark is       *)
(* written and nobody flushes the window, no restart, lost or repeated     *)
(* message makes the strategy decide a bar twice or behind a newer one.    *)
(* Whatever is flushed or fails, a decision sees a window without a hole,  *)
(* and no missed close becomes history unfed.                              *)
(*                                                                         *)
(* Below it the two ways that bars come in: the history requests, which    *)
(* leave a service at rest caught up (HistoryRequests), and the stream of  *)
(* the MT5 ingester, which loses no bar and keeps the order                *)
(* (IngesterFeed).  At the end the feed of a development stack, which      *)
(* gives back the bars that a simulator was told to make (SimulatorHub).   *)
(***************************************************************************)
EXTENDS CandleFeed, FiniteSetTheorems, Integers, TLAPS

CONSTANTS Series, NotServed, Attempts, Probe, MaxEvents
VARIABLES vendor, watch, pending, window, owed, offline, wake, loop, request, cooling, late,
          flushed, used
Requests == INSTANCE HistoryRequests

CONSTANTS Documents, JetStream, MaxPending, FetchBatch, Accepted, HasWarmupSink, MaxBreaks, MaxStops
VARIABLES published, unacked, inFlight, receiver, inbox, handling, handed, refused, spilled,
          unheard, breaks, stops
Stream == INSTANCE IngesterFeed

CONSTANTS Symbols, Sessions, Rows, Prices, Stamps, Bucket, MaxBars, Step, WalkTicks, ClockStep,
          None, MaxNow, MaxCommands, MaxTasks, MaxDrops
VARIABLES utc, hub, link, open, session, names, tasks, behind, uses
Sim == INSTANCE SimulatorHub WITH now <- utc, used <- uses

(***************************************************************************)
(* The inductive invariant.                                                *)
(***************************************************************************)

\* The mark was left by the slot itself, and not by a feed ahead of the clock.
Real == mark \in 1..now

\* What is decided is marked, and what is marked or sent is in Redis.
MarkCovers ==
    /\ \A i \in DOMAIN decisions : Real /\ decisions[i].t <= mark
    /\ Real => mark \in stored
    /\ sent \subseteq stored

Newer(m, S) == \A u \in S : u <= m

\* Redis has a newest bar.
StoredHasNewest == stored # {} => \E m \in stored : Newer(m, stored)

\* Nothing is in memory before the window is restored.
Empty == phase \in {"down", "booting"} => buffer = {} /\ job = NoJob

\* A window that is not empty reaches up to the mark, and a runner that has been
\* fed has a window.
WindowReachesMark ==
    Real => /\ buffer # {} => \E m \in buffer : mark <= m /\ Newer(m, buffer)
            /\ phase = "up" => buffer # {}
            /\ job # NoJob => buffer # {} \/ job.todo # {}

\* What is still to be fed is newer than the window and than the mark.
TodoIsNew ==
    /\ job.todo \subseteq stored
    /\ \A t \in job.todo : Advances(t) /\ (Real => mark < t)

\* The bar in hand is the newest of the window; the mark follows it before the
\* decision.
InHand ==
    /\ job.step = "mark" =>
        /\ job.bar \in stored \cap buffer /\ Newer(job.bar, buffer)
        /\ Real => mark < job.bar
        /\ \A t \in job.todo : job.bar < t
    /\ job.step = "decide" =>
        /\ mark = job.bar /\ Real
        /\ \A i \in DOMAIN decisions : decisions[i].t < job.bar

IInv ==
    /\ TypeOK
    /\ MarkCovers
    /\ StoredHasNewest
    /\ Empty
    /\ WindowReachesMark
    /\ TodoIsNew
    /\ InHand
    /\ Forward

LEMMA InitType == Init => TypeOK
<1>1. Init => decisions \in Seq([t : Times, frame : SUBSET Times, seen : SUBSET Times])
  BY DEF Init
<1>2. ASSUME Init
      PROVE  job \in [step : {"idle", "next", "mark", "decide"}, todo : SUBSET (1..now),
                      bar : 0..now, decide : BOOLEAN, seen : SUBSET (1..now)]
  BY <1>2 DEF Init, NoJob
<1>3. ASSUME Init
      PROVE  /\ now \in 0..MaxTime /\ startedAt \in 0..now /\ mark \in InitialMarks
             /\ stored = {} /\ sent = {} /\ buffer = {}
             /\ phase = "down" /\ spoiled = FALSE
  BY <1>3, BoundsAssumption DEF Init
<1>. QED  BY <1>1, <1>2, <1>3 DEF TypeOK

LEMMA InitIInv == Init => IInv
<1>1. Init => ~Real
  BY BoundsAssumption DEF Init, Real
<1>2. Init => Forward /\ DOMAIN decisions = {}
  BY DEF Init, Forward
<1>. QED
  BY <1>1, <1>2, InitType
  DEF Init, IInv, MarkCovers, StoredHasNewest, Empty, WindowReachesMark,
      TodoIsNew, InHand, NoJob

(***************************************************************************)
(* The newest bars of a window.                                            *)
(***************************************************************************)

LEMMA BarsAreFinite ==
  ASSUME NEW n \in Nat, NEW S \in SUBSET (1..n)
  PROVE  IsFiniteSet(S)
<1>1. IsFiniteSet(1..n)
  BY FS_Interval
<1>. QED  BY <1>1, FS_Subset

\* The newest bar is kept.
LEMMA NewestKeepsTop ==
  ASSUME NEW n \in Nat, NEW S \in SUBSET (1..n), NEW m \in S, Newer(m, S)
  PROVE  m \in Newest(S)
<1>1. \A u \in S : ~(u > m)
  BY DEF Newer
<1>2. {u \in S : u > m} = {}
  BY <1>1
<1>. QED  BY <1>2, FS_EmptySet, BoundsAssumption DEF Newest

\* With a bar, every newer bar is kept.
LEMMA NewestIsUpward ==
  ASSUME NEW n \in Nat, NEW S \in SUBSET (1..n),
         NEW x \in Newest(S), NEW y \in S, x <= y
  PROVE  y \in Newest(S)
<1> DEFINE Above(t) == {u \in S : u > t}
<1>0. x \in 1..n /\ y \in 1..n
  BY DEF Newest
<1>1. Above(x) \in SUBSET S /\ Above(y) \in SUBSET Above(x)
  <2>1. \A u \in S : u > y => u > x
    BY <1>0
  <2>2. Above(y) \subseteq Above(x)
    BY <2>1
  <2>. QED  BY <2>2
<1>2. IsFiniteSet(Above(x)) /\ IsFiniteSet(Above(y))
  BY <1>1, BarsAreFinite
<1>3. Cardinality(Above(y)) <= Cardinality(Above(x))
  BY <1>1, <1>2, FS_Subset
<1>4. Cardinality(Above(x)) \in Nat /\ Cardinality(Above(y)) \in Nat
  BY <1>2, FS_CardinalityType
<1>5. Cardinality(Above(x)) < Window
  BY DEF Newest
<1>6. Cardinality(Above(y)) < Window
  BY <1>3, <1>4, <1>5, BoundsAssumption
<1>. QED  BY <1>6 DEF Newest

LEMMA NewestIsSubset == \A S : Newest(S) \subseteq S
  BY DEF Newest

(***************************************************************************)
(* Ingestion.                                                              *)
(***************************************************************************)

\* Only the bars of Redis and the bus change, and none is lost.
Ingestion ==
    /\ now' \in {now, now + 1} /\ now' <= MaxTime
    /\ stored \subseteq stored' /\ stored' \subseteq 1..now'
    /\ sent \subseteq sent' /\ sent' \subseteq stored'
    /\ UNCHANGED <<mark, runnerVars, decisions, spoiled>>

LEMMA IngestionKeeps ==
  ASSUME IInv, Ingestion, StoredHasNewest'
  PROVE  IInv'
<1> USE BoundsAssumption DEF IInv, Ingestion, runnerVars
<1>1. TypeOK'
  BY DEF TypeOK
<1>2. Real' = Real
  BY DEF Real, TypeOK, Times
<1>3. MarkCovers'
  BY <1>2 DEF MarkCovers
<1>4. Empty' /\ Forward'
  BY DEF Empty, Forward, NoJob
<1>5. WindowReachesMark'
  BY <1>2 DEF WindowReachesMark, Newer, NoJob
<1>6. TodoIsNew'
  BY <1>2 DEF TodoIsNew, Advances
<1>7. InHand'
  BY <1>2 DEF InHand, Newer
<1>. QED  BY <1>1, <1>3, <1>4, <1>5, <1>6, <1>7

LEMMA BucketEndsKeeps == ASSUME IInv, BucketEnds PROVE IInv'
<1>1. Ingestion
  <2>1. /\ now' = now + 1 /\ now' <= MaxTime /\ now \in Nat
        /\ UNCHANGED <<mark, runnerVars, decisions, spoiled>>
    BY BoundsAssumption DEF BucketEnds, IInv, TypeOK
  <2>2. /\ stored \subseteq 1..now' /\ sent \subseteq stored
    BY <2>1 DEF IInv, TypeOK, MarkCovers
  <2>3. \/ stored' = stored \cup {now'} /\ sent' = sent \cup {now'}
        \/ stored' = stored /\ sent' = sent
    BY <2>1 DEF BucketEnds
  <2>4. stored \cup {now'} \subseteq 1..now'
    BY <2>1, <2>2
  <2>. QED  BY <2>1, <2>2, <2>3, <2>4 DEF Ingestion
<1>2. StoredHasNewest'
  <2>1. CASE UNCHANGED stored
    BY <2>1 DEF IInv, StoredHasNewest, Newer
  <2>2. CASE stored' = stored \cup {now + 1}
    <3>1. Newer(now + 1, stored')
      BY <2>2 DEF IInv, TypeOK, Newer
    <3>. QED  BY <2>2, <3>1 DEF StoredHasNewest
  <2>. QED  BY <2>1, <2>2 DEF BucketEnds
<1>. QED  BY <1>1, <1>2, IngestionKeeps

LEMMA BackfillKeeps == ASSUME IInv, NEW t \in Times, Backfill(t) PROVE IInv'
<1>1. Ingestion
  <2>1. /\ now' = now /\ stored' = stored \cup {t} /\ t \in 1..now
        /\ UNCHANGED <<mark, sent, runnerVars, decisions, spoiled>>
    BY DEF Backfill
  <2>2. /\ now \in Nat /\ now <= MaxTime
        /\ stored \subseteq 1..now /\ sent \subseteq stored
    BY BoundsAssumption DEF IInv, TypeOK, MarkCovers
  <2>3. stored' \subseteq 1..now' /\ stored \subseteq stored' /\ sent' = sent
    BY <2>1, <2>2
  <2>. QED  BY <2>1, <2>2, <2>3 DEF Ingestion
<1>2. StoredHasNewest'
  <2>0. stored' = stored \cup {t} /\ t \in Nat /\ stored \subseteq Nat
    BY DEF Backfill, IInv, TypeOK, Times
  <2>1. CASE Newer(t, stored)
    BY <2>0, <2>1 DEF StoredHasNewest, Newer
  <2>2. CASE ~Newer(t, stored)
    <3>1. PICK m \in stored : Newer(m, stored)
      BY <2>2 DEF IInv, StoredHasNewest, Newer
    <3>2. t <= m
      BY <2>0, <2>2, <3>1 DEF Newer
    <3>3. Newer(m, stored')
      BY <2>0, <3>1, <3>2 DEF Newer
    <3>. QED  BY <2>0, <3>3 DEF StoredHasNewest
  <2>. QED  BY <2>1, <2>2
<1>. QED  BY <1>1, <1>2, IngestionKeeps

(***************************************************************************)
(* Start and synchronisation.                                              *)
(***************************************************************************)

LEMMA StartKeeps == ASSUME IInv, Start PROVE IInv'
  BY DEF IInv, Start, redisVars, TypeOK, MarkCovers, StoredHasNewest, Empty,
         WindowReachesMark, TodoIsNew, InHand, Forward, Real, Newer,
         NoJob, Advances

LEMMA RestoreKeeps == ASSUME IInv, Restore PROVE IInv'
<1> USE BoundsAssumption DEF IInv, Restore, redisVars
<1>0. job = NoJob /\ job' = NoJob /\ stored \in SUBSET (1..now) /\ now \in Nat
  BY DEF Empty, TypeOK
<1>1. TypeOK'
  BY NewestIsSubset DEF TypeOK
<1>2. MarkCovers' /\ StoredHasNewest' /\ Empty' /\ Forward'
  BY <1>0 DEF MarkCovers, StoredHasNewest, Newer, Empty, Forward, Real
<1>3. WindowReachesMark'
  <2>1. SUFFICES ASSUME Real, buffer' # {}
                 PROVE  \E m \in buffer' : mark <= m /\ Newer(m, buffer')
    BY <1>0 DEF WindowReachesMark, Real, Newer
  <2>2. HasLine /\ Line = mark
    BY <1>0, <2>1 DEF HasLine, Line, Real
  <2>3. PICK t \in Newest(stored) : t <= mark
    BY <2>1, <2>2
  <2>4. mark \in Newest(stored)
    BY <1>0, <2>1, <2>3, NewestIsUpward DEF MarkCovers
  <2>5. mark \in buffer' /\ Newer(mark, buffer')
    BY <2>2, <2>4, <2>1 DEF Newer, Real
  <2>6. mark <= mark
    BY <1>0, <2>1 DEF Real
  <2>. QED  BY <2>5, <2>6
<1>4. TodoIsNew' /\ InHand'
  BY <1>0 DEF TodoIsNew, InHand, NoJob
<1>. QED  BY <1>1, <1>2, <1>3, <1>4

\* Whatever is read and whatever is fed on top of it: a synchronisation keeps the
\* invariant if a slot that has been fed has a window, or is replayed.
LEMMA SyncKeeps ==
  ASSUME IInv, NEW read \in SUBSET stored, NEW live \in SUBSET stored,
         Sync(read, live), job = NoJob, phase \in {"catchup", "up"},
         UNCHANGED <<now, redisVars, sent, phase, startedAt, decisions, spoiled>>,
         \A t \in live : \A u \in buffer \cup read : u < t,
         Real /\ buffer = {} =>
            /\ phase = "catchup" /\ live = {} /\ read # {}
            /\ (\E t \in read : t <= mark) => mark \in read
  PROVE  IInv'
<1> DEFINE old == IF buffer # {} THEN {t \in read : ~Advances(t)}
                  ELSE IF HasLine THEN {t \in read : t <= Line}
                  ELSE {t \in read : t <= startedAt}
           all == buffer \cup old
<1>0. /\ now \in Nat /\ stored \subseteq 1..now /\ buffer \subseteq 1..now
      /\ mark \in Int /\ Line \in Int /\ startedAt \in Int
      /\ old \subseteq read /\ all \in SUBSET (1..now)
  <2>1. /\ now \in Nat /\ stored \subseteq 1..now /\ buffer \subseteq 1..now
        /\ mark \in Int /\ startedAt \in Int
    BY BoundsAssumption DEF IInv, TypeOK
  <2>2. Line \in Int
    BY <2>1, BoundsAssumption DEF Line
  <2>3. old \subseteq read
    OBVIOUS
  <2>. QED  BY <2>1, <2>2, <2>3
<1>1. /\ buffer' = Newest(all)
      /\ job' = [NoJob EXCEPT !.step = "next", !.seen = read,
                              !.todo = (read \ old) \cup live]
  BY DEF Sync
<1>2. /\ job'.step = "next" /\ job'.todo = (read \ old) \cup live
      /\ job'.seen = read /\ job'.bar = 0 /\ job'.decide = FALSE
      /\ job' \in [step : {"idle", "next", "mark", "decide"}, todo : SUBSET (1..now),
                   bar : 0..now, decide : BOOLEAN, seen : SUBSET (1..now)]
  <2>1. job' = [step |-> "next", todo |-> (read \ old) \cup live, bar |-> 0,
                decide |-> FALSE, seen |-> read]
    BY <1>1 DEF NoJob
  <2>2. (read \ old) \cup live \in SUBSET (1..now) /\ read \in SUBSET (1..now)
    BY <1>0
  <2>. QED  BY <1>0, <2>1, <2>2
<1>3. buffer' \subseteq all
  BY <1>1, NewestIsSubset
<1>4. TypeOK'
  BY <1>0, <1>2, <1>3 DEF IInv, TypeOK, redisVars
<1>5. Real' = Real /\ MarkCovers' /\ StoredHasNewest' /\ Empty' /\ Forward'
  BY DEF IInv, redisVars, MarkCovers, StoredHasNewest, Newer, Empty,
         Forward, Real
<1>6. InHand'
  BY <1>2 DEF InHand
<1>7. \A t \in job'.todo : \A u \in all : u < t
  <2>1. \A t \in read \ old : \A u \in all : u < t
    <3>1. CASE buffer # {}
      BY <3>1, <1>0 DEF Advances
    <3>2. CASE buffer = {}
      BY <3>2, <1>0
    <3>. QED  BY <3>1, <3>2
  <2>. QED  BY <2>1, <1>0, <1>2
<1>8. CASE Real /\ buffer # {}
  <2>1. PICK m \in buffer : mark <= m /\ Newer(m, buffer)
    BY <1>8 DEF IInv, WindowReachesMark
  <2>2. Newer(m, all)
    BY <2>1, <1>0, <1>8 DEF Newer, Advances
  <2>3. m \in buffer' /\ Newer(m, buffer')
    BY <2>1, <2>2, <1>0, <1>1, <1>3, NewestKeepsTop DEF Newer
  <2>4. WindowReachesMark'
    BY <2>1, <2>3, <1>5 DEF WindowReachesMark, redisVars
  <2>5. TodoIsNew'
    BY <1>0, <1>2, <1>3, <1>5, <1>7, <2>1 DEF TodoIsNew, Advances, redisVars
  <2>. QED  BY <1>4, <1>5, <1>6, <2>4, <2>5 DEF IInv
<1>9. CASE Real /\ buffer = {}
  <2>1. HasLine /\ Line = mark /\ all = old /\ old = {t \in read : t <= mark}
    BY <1>9, <1>0 DEF HasLine, Line, Real
  <2>2. ASSUME old # {} PROVE WindowReachesMark'
    <3>1. mark \in old /\ Newer(mark, all)
      BY <2>1, <2>2, <1>9, <1>0 DEF Newer
    <3>2. mark \in buffer' /\ Newer(mark, buffer')
      BY <2>1, <3>1, <1>0, <1>1, <1>3, NewestKeepsTop DEF Newer
    <3>3. mark' = mark /\ mark <= mark
      BY <1>0 DEF redisVars
    <3>. QED  BY <3>2, <3>3 DEF WindowReachesMark, Newer
  <2>3. ASSUME old = {} PROVE WindowReachesMark'
    <3>1. buffer' = {}
      BY <2>1, <2>3, <1>3
    <3>2. read # {} /\ phase' = "catchup"
      BY <1>9
    <3>3. job'.todo # {}
      BY <2>3, <3>2, <1>2
    <3>. QED  BY <3>1, <3>2, <3>3 DEF WindowReachesMark
  <2>4. WindowReachesMark'
    BY <2>2, <2>3
  <2>5. \A t \in job'.todo : t \in read /\ mark < t
    BY <1>0, <1>2, <1>9, <2>1
  <2>6. TodoIsNew'
    BY <1>0, <1>3, <1>5, <1>7, <2>5 DEF TodoIsNew, Advances, redisVars
  <2>. QED  BY <1>4, <1>5, <1>6, <2>4, <2>6 DEF IInv
<1>10. CASE ~Real
  <2>1. WindowReachesMark'
    BY <1>10, <1>5 DEF WindowReachesMark
  <2>2. TodoIsNew'
    BY <1>0, <1>2, <1>3, <1>5, <1>7, <1>10 DEF TodoIsNew, Advances, redisVars
  <2>. QED  BY <1>4, <1>5, <1>6, <2>1, <2>2 DEF IInv
<1>. QED  BY <1>8, <1>9, <1>10

LEMMA SyncPassKeeps == ASSUME IInv, SyncPass PROVE IInv'
<1>1. Newest(stored) \in SUBSET stored /\ stored \in SUBSET (1..now) /\ now \in Nat
  BY NewestIsSubset, BoundsAssumption DEF IInv, TypeOK
<1>2. /\ Sync(Newest(stored), {}) /\ job = NoJob /\ phase \in {"catchup", "up"}
      /\ UNCHANGED <<now, redisVars, sent, phase, startedAt, decisions, spoiled>>
  BY DEF SyncPass
<1>3. ASSUME Real, buffer = {}
      PROVE  /\ phase = "catchup" /\ Newest(stored) # {}
             /\ (\E t \in Newest(stored) : t <= mark) => mark \in Newest(stored)
  <2>1. phase = "catchup" /\ mark \in stored
    BY <1>2, <1>3 DEF IInv, WindowReachesMark, MarkCovers
  <2>2. PICK m \in stored : Newer(m, stored)
    BY <2>1 DEF IInv, StoredHasNewest
  <2>3. m \in Newest(stored)
    BY <1>1, <2>2, NewestKeepsTop
  <2>4. (\E t \in Newest(stored) : t <= mark) => mark \in Newest(stored)
    BY <1>1, <2>1, NewestIsUpward
  <2>. QED  BY <2>1, <2>3, <2>4
<1> DEFINE read == Newest(stored)
           live == {}
<1>4. /\ read \in SUBSET stored /\ live \in SUBSET stored
      /\ \A t \in live : \A u \in buffer \cup read : u < t
      /\ Real /\ buffer = {} =>
            /\ phase = "catchup" /\ live = {} /\ read # {}
            /\ (\E t \in read : t <= mark) => mark \in read
  BY <1>1, <1>3
<1>5. Sync(read, live)
  BY <1>2
<1>. HIDE DEF read, live
<1>. QED  BY <1>2, <1>4, <1>5, SyncKeeps

LEMMA MessageKeeps == ASSUME IInv, NEW t \in Times, Message(t) PROVE IInv'
<1> DEFINE read == {u \in Newest(stored) : u < t}
<1>1. read \in SUBSET stored /\ {t} \in SUBSET stored
  BY NewestIsSubset DEF Message, IInv, MarkCovers
<1>2. /\ Sync(read, {t}) /\ job = NoJob /\ phase = "up"
      /\ UNCHANGED <<now, redisVars, sent, phase, startedAt, decisions, spoiled>>
      /\ \A u \in buffer \cup read : u < t
  BY DEF Message, Advances
<1>3. ~(Real /\ buffer = {})
  BY <1>2 DEF IInv, WindowReachesMark
<1>. HIDE DEF read
<1>. QED  BY <1>1, <1>2, <1>3, SyncKeeps

(***************************************************************************)
(* One bar at a time.                                                      *)
(***************************************************************************)

LEMMA FeedKeeps == ASSUME IInv, Feed PROVE IInv'
<1> USE DEF IInv
<1>1. PICK t \in job.todo :
        /\ \A u \in job.todo : t <= u
        /\ LET current == now - t <= MaxAge IN
            IF current /\ ~Advances(t)
            THEN job' = [job EXCEPT !.todo = @ \ {t}] /\ UNCHANGED buffer
            ELSE /\ buffer' = Newest(buffer \cup {t})
                 /\ job' = [job EXCEPT !.todo = @ \ {t}, !.step = "mark",
                                       !.bar = t, !.decide = current]
  BY DEF Feed
<1>2. /\ now \in Nat /\ t \in 1..now /\ t \in stored /\ Advances(t)
      /\ buffer \cup {t} \in SUBSET (1..now) /\ job.todo \in SUBSET (1..now)
      /\ (now - t <= MaxAge) \in BOOLEAN
  BY <1>1, BoundsAssumption DEF TodoIsNew, TypeOK
<1>3. /\ buffer' = Newest(buffer \cup {t})
      /\ job' = [job EXCEPT !.todo = @ \ {t}, !.step = "mark",
                            !.bar = t, !.decide = (now - t <= MaxAge)]
  BY <1>1, <1>2
<1>4. /\ job'.step = "mark" /\ job'.bar = t /\ job'.todo = job.todo \ {t}
      /\ job' \in [step : {"idle", "next", "mark", "decide"}, todo : SUBSET (1..now),
                   bar : 0..now, decide : BOOLEAN, seen : SUBSET (1..now)]
  <2>1. /\ job.seen \in SUBSET (1..now) /\ job.todo \ {t} \in SUBSET (1..now)
        /\ t \in 0..now
    BY <1>2 DEF TypeOK
  <2>2. job' = [step |-> "mark", todo |-> job.todo \ {t}, bar |-> t,
                decide |-> (now - t <= MaxAge), seen |-> job.seen]
    BY <1>3 DEF TypeOK
  <2>. QED  BY <1>2, <2>1, <2>2
<1>5. UNCHANGED <<now, stored, mark, sent, phase, startedAt, decisions, spoiled>>
  BY DEF Feed, redisVars
<1>6. Newer(t, buffer \cup {t})
  BY <1>2 DEF Newer, Advances
<1>7. buffer' \subseteq buffer \cup {t} /\ t \in buffer' /\ Newer(t, buffer')
  BY <1>2, <1>3, <1>6, NewestKeepsTop, NewestIsSubset DEF Newer
<1>8. TypeOK'
  BY <1>2, <1>4, <1>5, <1>7 DEF TypeOK
<1>9. Real' = Real /\ MarkCovers' /\ StoredHasNewest' /\ Forward'
  BY <1>5 DEF MarkCovers, StoredHasNewest, Newer, Forward, Real
<1>10. phase \notin {"down", "booting"} /\ Empty'
  BY <1>5 DEF Empty, Feed, NoJob
<1>11. Real => mark < t
  BY DEF TodoIsNew
<1>12. WindowReachesMark'
  BY <1>2, <1>5, <1>7, <1>9, <1>11 DEF WindowReachesMark, Real
<1>13. \A u \in job'.todo : t < u
  BY <1>1, <1>2, <1>4
<1>14. TodoIsNew'
  BY <1>2, <1>4, <1>5, <1>7, <1>9, <1>13 DEF TodoIsNew, Advances, Newer
<1>15. InHand'
  BY <1>2, <1>4, <1>5, <1>7, <1>9, <1>11, <1>13 DEF InHand
<1>. QED  BY <1>8, <1>9, <1>10, <1>12, <1>14, <1>15

LEMMA DecisionTimes ==
  ASSUME IInv
  PROVE  \A i \in DOMAIN decisions : decisions[i].t \in Nat
<1> DEFINE D == [t : Times, frame : SUBSET Times, seen : SUBSET Times]
<1>1. decisions \in Seq(D)
  BY DEF IInv, TypeOK
<1>2. \A i \in DOMAIN decisions : decisions[i] \in D
  <2>. HIDE DEF D
  <2>. QED  BY <1>1
<1>3. Times \subseteq Nat
  BY BoundsAssumption DEF Times
<1>. QED  BY <1>2, <1>3

LEMMA RecordDecidedKeeps ==
  ASSUME IInv, RecordDecided, ~spoiled'
  PROVE  IInv'
<1> USE DEF IInv
<1>1. /\ job.step = "mark" /\ mark' = job.bar
      /\ job' = [job EXCEPT !.step = "decide"] \/ job' = [job EXCEPT !.step = "next"]
      /\ UNCHANGED <<now, stored, sent, phase, startedAt, buffer, decisions, spoiled>>
  BY DEF RecordDecided, Continue
<1>2. /\ now \in Nat /\ job.bar \in 1..now /\ job.bar \in stored \cap buffer
      /\ Newer(job.bar, buffer)
      /\ Real => mark < job.bar
      /\ \A t \in job.todo : job.bar < t
  BY <1>1, BoundsAssumption DEF InHand, TypeOK
<1>3. job'.todo = job.todo /\ job'.bar = job.bar /\ job'.step \in {"decide", "next"}
  BY <1>1 DEF TypeOK
<1>4. TypeOK'
  BY <1>1, <1>2 DEF TypeOK
<1>5. Real'
  BY <1>1, <1>2 DEF Real
<1>6. \A i \in DOMAIN decisions : decisions[i].t < job.bar
  <2>1. TAKE i \in DOMAIN decisions
  <2>2. Real /\ decisions[i].t <= mark /\ decisions[i].t \in Nat
    BY DecisionTimes DEF MarkCovers
  <2>. QED  BY <1>2, <2>2 DEF Real
<1>7. MarkCovers'
  <2>1. \A i \in DOMAIN decisions : decisions[i].t <= job.bar
    BY <1>2, <1>6, DecisionTimes
  <2>. QED  BY <1>1, <1>2, <1>5, <2>1 DEF MarkCovers
<1>8. StoredHasNewest' /\ Empty' /\ Forward'
  BY <1>1 DEF StoredHasNewest, Newer, Empty, NoJob, Forward
<1>9. WindowReachesMark'
  BY <1>1, <1>2 DEF WindowReachesMark, Newer
<1>10. TodoIsNew'
  BY <1>1, <1>2, <1>3 DEF TodoIsNew, Advances
<1>11. InHand'
  BY <1>1, <1>3, <1>5, <1>6 DEF InHand
<1>. QED  BY <1>4, <1>7, <1>8, <1>9, <1>10, <1>11

LEMMA DecideKeeps == ASSUME IInv, Decide PROVE IInv'
<1> USE DEF IInv
<1>1. /\ job.step = "decide" /\ job' = [job EXCEPT !.step = "next"]
      /\ UNCHANGED <<now, stored, mark, sent, phase, startedAt, buffer, spoiled>>
  BY DEF Decide, Continue, redisVars
<1>2. /\ now \in Nat /\ mark = job.bar /\ Real
      /\ \A i \in DOMAIN decisions : decisions[i].t < mark
  BY <1>1, BoundsAssumption DEF InHand, TypeOK
<1>3. job'.todo = job.todo /\ job'.step = "next"
  BY <1>1 DEF TypeOK
<1>4. /\ Real' = Real
      /\ StoredHasNewest' /\ Empty' /\ WindowReachesMark' /\ TodoIsNew' /\ InHand'
  BY <1>1, <1>2, <1>3
  DEF Real, StoredHasNewest, Newer, Empty, NoJob, WindowReachesMark, TodoIsNew,
      Advances, InHand
<1>5. CASE UNCHANGED decisions
  <2>1. TypeOK'
    BY <1>1, <1>5 DEF TypeOK
  <2>. QED  BY <1>1, <1>4, <1>5, <2>1 DEF MarkCovers, Forward
<1>6. CASE decisions' = Append(decisions,
                               [t |-> job.bar, frame |-> buffer, seen |-> job.seen])
  <2> DEFINE d == [t |-> job.bar, frame |-> buffer, seen |-> job.seen]
  <2>1. d \in [t : Times, frame : SUBSET Times, seen : SUBSET Times]
    BY <1>1, <1>2, BoundsAssumption DEF TypeOK, Times, Real
  <2>2. /\ decisions \in Seq([t : Times, frame : SUBSET Times, seen : SUBSET Times])
        /\ Len(decisions) \in Nat
        /\ decisions' = Append(decisions, d)
    BY <1>6 DEF TypeOK
  <2>3. /\ DOMAIN decisions' = 1..(Len(decisions) + 1)
        /\ DOMAIN decisions = 1..Len(decisions)
        /\ \A i \in DOMAIN decisions : decisions'[i] = decisions[i]
        /\ decisions'[Len(decisions) + 1] = d
    BY <2>1, <2>2
  <2>4. d.t = mark
    BY <1>2
  <2>. HIDE DEF d
  <2>5. TypeOK'
    <3>1. decisions' \in Seq([t : Times, frame : SUBSET Times, seen : SUBSET Times])
      BY <2>1, <2>2
    <3>2. job' \in [step : {"idle", "next", "mark", "decide"}, todo : SUBSET (1..now),
                    bar : 0..now, decide : BOOLEAN, seen : SUBSET (1..now)]
      BY <1>1 DEF TypeOK
    <3>. QED  BY <1>1, <3>1, <3>2 DEF TypeOK
  <2>6. MarkCovers'
    BY <1>1, <1>2, <1>4, <2>2, <2>3, <2>4 DEF MarkCovers, Real
  <2>7. Forward'
    BY <1>2, <2>2, <2>3, <2>4 DEF Forward
  <2>. QED  BY <1>4, <2>5, <2>6, <2>7
<1>. QED  BY <1>5, <1>6 DEF Decide

LEMMA DoneKeeps == ASSUME IInv, Done PROVE IInv'
<1>1. /\ job.step = "next" /\ job.todo = {} /\ job' = NoJob /\ phase' = "up"
      /\ UNCHANGED <<now, stored, mark, sent, startedAt, buffer, decisions, spoiled>>
  BY DEF Done, redisVars
<1>2. job # NoJob
  BY <1>1 DEF NoJob
<1>3. TypeOK'
  BY <1>1, BoundsAssumption DEF IInv, TypeOK, NoJob
<1>4. Real => buffer # {}
  BY <1>1, <1>2 DEF IInv, WindowReachesMark
<1>. QED
  BY <1>1, <1>3, <1>4
  DEF IInv, MarkCovers, StoredHasNewest, Newer, Empty, WindowReachesMark,
      TodoIsNew, InHand, Forward, Real, NoJob

\* The runner goes, or one of its synchronisations breaks off.
Dropped ==
    /\ job' = NoJob
    /\ \/ phase' = phase /\ buffer' = buffer /\ phase \notin {"catchup"}
       \/ phase' = "down" /\ buffer' = {}
    /\ UNCHANGED <<now, stored, mark, sent, startedAt, decisions, spoiled>>

LEMMA DroppedKeeps == ASSUME IInv, Dropped PROVE IInv'
<1>1. TypeOK'
  <2>1. now \in Nat /\ now' = now
    BY BoundsAssumption DEF IInv, TypeOK, Dropped
  <2>2. NoJob \in [step : {"idle", "next", "mark", "decide"}, todo : SUBSET (1..now),
                   bar : 0..now, decide : BOOLEAN, seen : SUBSET (1..now)]
    BY <2>1 DEF NoJob
  <2>. QED  BY <2>1, <2>2 DEF IInv, TypeOK, Dropped
<1>2. MarkCovers' /\ StoredHasNewest' /\ Empty' /\ Forward' /\ Real' = Real
  BY DEF IInv, Dropped, MarkCovers, StoredHasNewest, Newer, Empty,
         Forward, Real
<1>3. WindowReachesMark'
  BY <1>2 DEF IInv, Dropped, WindowReachesMark, Newer
<1>4. TodoIsNew' /\ InHand'
  BY DEF Dropped, TodoIsNew, InHand, NoJob
<1>. QED  BY <1>1, <1>2, <1>3, <1>4 DEF IInv

LEMMA BreakOffKeeps == ASSUME IInv, BreakOff PROVE IInv'
<1>1. Dropped
  BY DEF BreakOff, Dropped, redisVars
<1>. QED  BY <1>1, DroppedKeeps

LEMMA CrashKeeps == ASSUME IInv, Crash PROVE IInv'
<1>1. Dropped
  BY DEF Crash, Dropped, redisVars
<1>. QED  BY <1>1, DroppedKeeps

(***************************************************************************)
(* Steps.                                                                  *)
(***************************************************************************)

\* Until a mark is lost or the window flushed, the invariant holds; neither is ever
\* taken back.
LEMMA NextKeeps ==
  ASSUME IInv, [Next]_vars, ~spoiled'
  PROVE  IInv'
<1>1. CASE UNCHANGED vars
  BY <1>1
  DEF vars, redisVars, runnerVars, IInv, TypeOK, MarkCovers, StoredHasNewest,
      Newer, Empty, WindowReachesMark, TodoIsNew, InHand, Forward,
      Real, Advances
<1>2. CASE Next
  <2>1. CASE FlushWindow
    BY <2>1 DEF FlushWindow
  <2>. QED
    BY <1>2, <2>1, BucketEndsKeeps, BackfillKeeps, MessageKeeps, StartKeeps,
       RestoreKeeps, SyncPassKeeps, FeedKeeps, RecordDecidedKeeps, DecideKeeps,
       DoneKeeps, BreakOffKeeps, CrashKeeps
    DEF Next
<1>. QED  BY <1>1, <1>2

LEMMA SpoiledStays == ASSUME [Next]_vars, spoiled PROVE spoiled'
  BY DEF Next, vars, BucketEnds, FlushWindow, Backfill, Message, Start, Restore,
         SyncPass, Feed, RecordDecided, Decide, Done, BreakOff, Crash

LEMMA FeedInvariant == Spec => [](~spoiled => IInv)
<1>1. Init => (~spoiled => IInv)
  BY InitIInv
<1>2. (~spoiled => IInv) /\ [Next]_vars => (~spoiled => IInv)'
  BY NextKeeps, SpoiledStays
<1>. QED  BY <1>1, <1>2, PTL DEF Spec

(***************************************************************************)
(* Types, whatever happens.                                                *)
(***************************************************************************)

JobType == [step : {"idle", "next", "mark", "decide"}, todo : SUBSET (1..now),
            bar : 0..now, decide : BOOLEAN, seen : SUBSET (1..now)]

TypeInv ==
    /\ TypeOK
    /\ job.step \in {"mark", "decide"} => job.bar \in 1..now

LEMMA SyncType ==
  ASSUME TypeInv, NEW read \in SUBSET (1..now), NEW live \in SUBSET (1..now),
         Sync(read, live),
         UNCHANGED <<now, redisVars, sent, phase, startedAt, decisions, spoiled>>
  PROVE  TypeInv'
<1> DEFINE old == IF buffer # {} THEN {t \in read : ~Advances(t)}
                  ELSE IF HasLine THEN {t \in read : t <= Line}
                  ELSE {t \in read : t <= startedAt}
<1>0. now \in Nat /\ old \subseteq read /\ buffer \in SUBSET (1..now)
  BY BoundsAssumption DEF TypeInv, TypeOK
<1>1. /\ buffer' = Newest(buffer \cup old)
      /\ job' = [step |-> "next", todo |-> (read \ old) \cup live, bar |-> 0,
                 decide |-> FALSE, seen |-> read]
  BY DEF Sync, NoJob
<1>2. buffer' \subseteq 1..now
  BY <1>0, <1>1, NewestIsSubset
<1>3. (read \ old) \cup live \in SUBSET (1..now)
  BY <1>0
<1>. HIDE DEF old
<1>4. job' \in JobType /\ job'.step = "next"
  BY <1>0, <1>1, <1>3 DEF JobType
<1>. QED  BY <1>2, <1>4 DEF TypeInv, TypeOK, JobType, redisVars

LEMMA FeedType == ASSUME TypeInv, Feed PROVE TypeInv'
<1>1. PICK t \in job.todo :
        \/ job' = [job EXCEPT !.todo = @ \ {t}] /\ UNCHANGED buffer
        \/ /\ buffer' = Newest(buffer \cup {t})
           /\ job' = [job EXCEPT !.todo = @ \ {t}, !.step = "mark",
                                 !.bar = t, !.decide = (now - t <= MaxAge)]
  BY DEF Feed
<1>2. /\ now \in Nat /\ job \in JobType /\ t \in 1..now
      /\ buffer \in SUBSET (1..now) /\ job.step = "next"
  BY BoundsAssumption DEF TypeInv, TypeOK, JobType, Feed
<1>3. buffer' \subseteq 1..now
  BY <1>1, <1>2, NewestIsSubset
<1>4. (now - t <= MaxAge) \in BOOLEAN
  OBVIOUS
<1>5. job' \in JobType /\ (job'.step \in {"mark", "decide"} => job'.bar \in 1..now)
  <2>1. CASE job' = [job EXCEPT !.todo = @ \ {t}]
    BY <1>2, <2>1 DEF JobType
  <2>2. CASE job' = [job EXCEPT !.todo = @ \ {t}, !.step = "mark",
                                !.bar = t, !.decide = (now - t <= MaxAge)]
    <3>1. job.todo \ {t} \in SUBSET (1..now) /\ job.seen \in SUBSET (1..now) /\ t \in 0..now
      BY <1>2 DEF JobType
    <3>2. job' = [step |-> "mark", todo |-> job.todo \ {t}, bar |-> t,
                  decide |-> (now - t <= MaxAge), seen |-> job.seen]
      BY <1>2, <2>2 DEF JobType
    <3>. QED  BY <1>2, <1>4, <3>1, <3>2 DEF JobType
  <2>. QED  BY <1>1, <2>1, <2>2
<1>. QED  BY <1>3, <1>5 DEF Feed, TypeInv, TypeOK, JobType, redisVars

LEMMA MarkType == ASSUME TypeInv, RecordDecided PROVE TypeInv'
<1>1. /\ now \in Nat /\ job \in JobType /\ job.bar \in 1..now
  BY BoundsAssumption DEF TypeInv, TypeOK, JobType, RecordDecided
<1>2. /\ mark' \in {mark, job.bar} /\ spoiled' \in {spoiled, TRUE}
      /\ job' = [job EXCEPT !.step = "decide"] \/ job' = [job EXCEPT !.step = "next"]
  BY DEF RecordDecided, Continue
<1>3. job' \in JobType /\ job'.bar = job.bar
  BY <1>1, <1>2 DEF JobType
<1>. QED  BY <1>1, <1>2, <1>3 DEF RecordDecided, TypeInv, TypeOK, JobType

LEMMA DecideType == ASSUME TypeInv, Decide PROVE TypeInv'
<1> DEFINE d == [t |-> job.bar, frame |-> buffer, seen |-> job.seen]
           D == [t : Times, frame : SUBSET Times, seen : SUBSET Times]
<1>1. /\ now \in Nat /\ now <= MaxTime /\ job \in JobType /\ job.bar \in 1..now
      /\ buffer \in SUBSET (1..now) /\ job.seen \in SUBSET (1..now)
      /\ decisions \in Seq(D)
  BY BoundsAssumption DEF TypeInv, TypeOK, JobType, Decide
<1>2. 1..now \subseteq Times
  BY <1>1, BoundsAssumption DEF Times
<1>3. d \in D
  BY <1>1, <1>2
<1>4. decisions' = decisions \/ decisions' = Append(decisions, d)
  BY DEF Decide
<1>. HIDE DEF d, D
<1>5. decisions' \in Seq(D)
  BY <1>1, <1>3, <1>4
<1>6. job' = [job EXCEPT !.step = "next"]
  BY DEF Decide, Continue
<1>7. job' \in JobType /\ job'.step = "next"
  BY <1>1, <1>6 DEF JobType
<1>. QED  BY <1>5, <1>7 DEF Decide, TypeInv, TypeOK, JobType, redisVars, D

LEMMA OtherType ==
  ASSUME TypeInv,
         BucketEnds \/ FlushWindow \/ (\E t \in Times : Backfill(t))
            \/ Start \/ Restore \/ Done \/ BreakOff \/ Crash \/ UNCHANGED vars
  PROVE  TypeInv'
<1>0. now \in Nat /\ now <= MaxTime /\ MaxTime \in Nat /\ NoJob \in JobType
  BY BoundsAssumption DEF TypeInv, TypeOK, JobType, NoJob
<1>1. CASE BucketEnds
  <2>1. now' = now + 1 /\ now' <= MaxTime /\ 1..now \subseteq 1..now' /\ now' \in 1..now'
    BY <1>0, <1>1 DEF BucketEnds
  <2>2. job \in JobType' /\ job' = job
    BY <1>0, <1>1, <2>1 DEF BucketEnds, runnerVars, TypeInv, TypeOK, JobType
  <2>3. /\ mark \in (1..now') \cup InitialMarks /\ startedAt \in 0..now'
        /\ buffer \subseteq 1..now' /\ sent \subseteq 1..now' /\ stored \subseteq 1..now'
        /\ (job.step \in {"mark", "decide"} => job.bar \in 1..now')
    BY <1>0, <2>1 DEF TypeInv, TypeOK
  <2>4. stored' \subseteq 1..now' /\ sent' \subseteq 1..now'
    BY <1>1, <2>1, <2>3 DEF BucketEnds
  <2>5. /\ now' \in 0..MaxTime
        /\ UNCHANGED <<mark, phase, startedAt, buffer, job, decisions, spoiled>>
    BY <1>0, <1>1, <2>1 DEF BucketEnds, runnerVars
  <2>. QED  BY <2>2, <2>3, <2>4, <2>5 DEF TypeInv, TypeOK, JobType
<1>2. CASE FlushWindow \/ (\E t \in Times : Backfill(t))
  BY <1>0, <1>2 DEF FlushWindow, Backfill, runnerVars, TypeInv, TypeOK
<1>3. CASE Start
  BY <1>0, <1>3 DEF Start, redisVars, TypeInv, TypeOK
<1>4. CASE Restore
  BY <1>0, <1>4, NewestIsSubset DEF Restore, redisVars, TypeInv, TypeOK
<1>5. CASE Done \/ BreakOff \/ Crash
  <2>1. job' = NoJob /\ job' \in JobType /\ NoJob.step = "idle"
    BY <1>0, <1>5 DEF Done, BreakOff, Crash, NoJob
  <2>2. phase' \in {"down", "booting", "catchup", "up"} /\ buffer' \in {buffer, {}}
    BY <1>5 DEF Done, BreakOff, Crash, TypeInv, TypeOK
  <2>3. UNCHANGED <<now, redisVars, sent, startedAt, decisions, spoiled>>
    BY <1>5 DEF Done, BreakOff, Crash
  <2>. QED  BY <1>0, <2>1, <2>2, <2>3 DEF redisVars, TypeInv, TypeOK, JobType
<1>6. CASE UNCHANGED vars
  BY <1>6 DEF vars, redisVars, runnerVars, TypeInv, TypeOK
<1>. QED  BY <1>1, <1>2, <1>3, <1>4, <1>5, <1>6

LEMMA NextType == ASSUME TypeInv, [Next]_vars PROVE TypeInv'
<1>0. Newest(stored) \in SUBSET (1..now) /\ sent \in SUBSET (1..now)
  <2>1. stored \subseteq 1..now /\ sent \subseteq 1..now /\ Newest(stored) \subseteq stored
    BY NewestIsSubset DEF TypeInv, TypeOK
  <2>. QED  BY <2>1
<1>1. ASSUME SyncPass PROVE TypeInv'
  BY <1>0, <1>1, SyncType DEF SyncPass
<1>2. ASSUME NEW t \in Times, Message(t) PROVE TypeInv'
  <2> DEFINE read == {u \in Newest(stored) : u < t}
  <2>1. read \in SUBSET (1..now) /\ {t} \in SUBSET (1..now)
    BY <1>0, <1>2 DEF Message
  <2>2. /\ Sync(read, {t})
        /\ UNCHANGED <<now, redisVars, sent, phase, startedAt, decisions, spoiled>>
    BY <1>2 DEF Message
  <2>. HIDE DEF read
  <2>. QED  BY <2>1, <2>2, SyncType
<1>. QED
  BY <1>1, <1>2, FeedType, MarkType, DecideType, OtherType DEF Next

(***************************************************************************)
(* The theorems.                                                           *)
(***************************************************************************)

\* Every variable keeps its type: the runner holds and marks only bars whose
\* bucket has ended.
THEOREM FeedTypeCorrect == Spec => []TypeOK
<1>1. Init => TypeInv
  BY InitType DEF Init, TypeInv, NoJob
<1>2. TypeInv /\ [Next]_vars => TypeInv'
  BY NextType
<1>3. TypeInv => TypeOK
  BY DEF TypeInv
<1>. QED  BY <1>1, <1>2, <1>3, PTL DEF Spec

\* Decisions go forward whatever the bus delivers and wherever the runner dies,
\* as long as _record_decided reaches Redis and nobody flushes the window.
THEOREM DecisionsGoForward == Spec => []DecisionsAdvance
<1>1. (~spoiled => IInv) => DecisionsAdvance
  BY DEF IInv, DecisionsAdvance
<1>. QED  BY <1>1, FeedInvariant, PTL

\* Every decision that was made is covered by the mark in Redis.
THEOREM DecisionsMarked == Spec => []DecisionsAreMarked
<1>1. (~spoiled => IInv) => DecisionsAreMarked
  BY DEF IInv, MarkCovers, DecisionsAreMarked
<1>. QED  BY <1>1, FeedInvariant, PTL

(***************************************************************************)
(* The windows the strategy decides on, whatever is lost or flushed.       *)
(***************************************************************************)

\* The k newest bars of a set.
TopOf(S, k) == {t \in S : Cardinality({u \in S : u > t}) < k}

\* Of enough bars, there are k newest ones: a fact about numbers that follows one
\* ended bucket at a time, as the steps of the feed do.
WindowsFill ==
    \A k \in Nat, S \in SUBSET (1..now) :
        Cardinality(S) >= k => Cardinality(TopOf(S, k)) >= k

\* While bars are fed: those still to come are newer than the window, and one that
\* was read and is neither in the window nor to come is older than a full window.
Whole ==
    job.step # "idle" =>
        /\ \A t \in job.todo : Advances(t)
        /\ \A u \in job.seen \ (buffer \cup job.todo) :
              Cardinality(buffer) >= Window /\ \A v \in buffer : u < v
        /\ job.step \in {"mark", "decide"} => job.bar \in buffer /\ Newer(job.bar, buffer)

FrameInv == WindowsFill /\ Empty /\ Whole /\ FramesAreWhole

\* With a bar newer than all others, one more of the others is among the newest.
LEMMA TopGrows ==
  ASSUME NEW n \in Nat, NEW S \in SUBSET (1..n), NEW k \in Nat
  PROVE  TopOf(S \cup {n + 1}, k + 1) = TopOf(S, k) \cup {n + 1}
<1> DEFINE All == S \cup {n + 1}
           Above(t) == {u \in S : u > t}
<1>1. {u \in All : u > n + 1} = {}
  <2>1. \A u \in All : ~(u > n + 1)
    OBVIOUS
  <2>. QED  BY <2>1
<1>2. n + 1 \in TopOf(All, k + 1)
  BY <1>1, FS_EmptySet DEF TopOf
<1>3. ASSUME NEW t \in S PROVE t \in TopOf(All, k + 1) <=> t \in TopOf(S, k)
  <2>1. {u \in All : u > t} = Above(t) \cup {n + 1} /\ n + 1 \notin Above(t)
    OBVIOUS
  <2>2. IsFiniteSet(Above(t)) /\ Cardinality(Above(t)) \in Nat
    <3>1. Above(t) \in SUBSET (1..n)
      OBVIOUS
    <3>. QED  BY <3>1, BarsAreFinite, FS_CardinalityType
  <2>3. Cardinality({u \in All : u > t}) = Cardinality(Above(t)) + 1
    BY <2>1, <2>2, FS_AddElement
  <2>. QED  BY <2>2, <2>3 DEF TopOf
<1>4. \A t : t \in TopOf(All, k + 1) => t \in All
  BY DEF TopOf
<1>5. \A t : t \in TopOf(S, k) => t \in S
  BY DEF TopOf
<1>. QED  BY <1>2, <1>3, <1>4, <1>5

LEMMA WindowsFillGrows ==
  ASSUME WindowsFill, now \in Nat, now' \in {now, now + 1}
  PROVE  WindowsFill'
<1>1. CASE now' = now
  BY <1>1 DEF WindowsFill
<1>2. CASE now' = now + 1
  <2> SUFFICES ASSUME NEW k \in Nat, NEW S \in SUBSET (1..(now + 1)), Cardinality(S) >= k
               PROVE  Cardinality(TopOf(S, k)) >= k
    BY <1>2 DEF WindowsFill, TopOf
  <2>1. now + 1 \in Nat /\ TopOf(S, k) \in SUBSET (1..(now + 1))
    <3>1. \A t \in TopOf(S, k) : t \in 1..(now + 1)
      BY DEF TopOf
    <3>. QED  BY <3>1
  <2>2. IsFiniteSet(TopOf(S, k)) /\ Cardinality(TopOf(S, k)) \in Nat
    BY <2>1, BarsAreFinite, FS_CardinalityType
  <2>3. CASE k = 0
    BY <2>2, <2>3
  <2>4. CASE now + 1 \notin S
    <3>1. S \in SUBSET (1..now)
      BY <2>4
    <3>. QED  BY <3>1 DEF WindowsFill
  <2>5. CASE k # 0 /\ now + 1 \in S
    <3> DEFINE R == S \ {now + 1}
               j == k - 1
    <3>1. R \in SUBSET (1..now) /\ S = R \cup {now + 1} /\ now + 1 \notin R
      BY <2>5
    <3>2. j \in Nat /\ k = j + 1
      BY <2>5
    <3>3. IsFiniteSet(R) /\ Cardinality(R) \in Nat
      BY <3>1, BarsAreFinite, FS_CardinalityType
    <3> HIDE DEF R, j
    <3>4. Cardinality(S) = Cardinality(R) + 1
      BY <3>1, <3>3, FS_AddElement
    <3>5. Cardinality(R) >= j
      BY <3>2, <3>3, <3>4
    <3>6. Cardinality(TopOf(R, j)) >= j
      BY <3>1, <3>2, <3>5 DEF WindowsFill
    <3>7. TopOf(S, k) = TopOf(R, j) \cup {now + 1}
      BY <3>1, <3>2, TopGrows
    <3>8. TopOf(R, j) \in SUBSET (1..now) /\ now + 1 \notin TopOf(R, j)
      BY <3>1 DEF TopOf
    <3>9. IsFiniteSet(TopOf(R, j)) /\ Cardinality(TopOf(R, j)) \in Nat
      BY <3>8, BarsAreFinite, FS_CardinalityType
    <3>10. Cardinality(TopOf(S, k)) = Cardinality(TopOf(R, j)) + 1
      BY <3>7, <3>8, <3>9, FS_AddElement
    <3>. QED  BY <3>2, <3>6, <3>9, <3>10
  <2>. QED  BY <2>3, <2>4, <2>5
<1>. QED  BY <1>1, <1>2

\* What a window of the newest bars leaves out is older than a full window.
LEMMA LeftOutIsOld ==
  ASSUME TypeOK, WindowsFill, NEW S \in SUBSET (1..now), NEW u \in S, u \notin Newest(S)
  PROVE  Cardinality(Newest(S)) >= Window /\ \A v \in Newest(S) : u < v
<1>0. now \in Nat /\ Window \in Nat
  BY BoundsAssumption DEF TypeOK
<1>1. IsFiniteSet(S) /\ IsFiniteSet({v \in S : v > u})
  <2>1. {v \in S : v > u} \in SUBSET (1..now)
    OBVIOUS
  <2>. QED  BY <1>0, <2>1, BarsAreFinite
<1>2. Cardinality({v \in S : v > u}) <= Cardinality(S)
  <2>1. {v \in S : v > u} \subseteq S
    OBVIOUS
  <2>. QED  BY <1>1, <2>1, FS_Subset
<1>3. Cardinality(S) \in Nat /\ Cardinality({v \in S : v > u}) \in Nat
  BY <1>1, FS_CardinalityType
<1>4. Cardinality(S) >= Window
  BY <1>0, <1>2, <1>3 DEF Newest
<1>5. Cardinality(TopOf(S, Window)) >= Window
  BY <1>0, <1>4 DEF WindowsFill
<1>6. \A v \in Newest(S) : u < v
  <2> SUFFICES ASSUME NEW v \in Newest(S), v <= u PROVE FALSE
    BY <1>0 DEF Newest
  <2>. QED  BY <1>0, NewestIsUpward
<1>. QED  BY <1>5, <1>6 DEF TopOf, Newest

LEMMA SyncIsWhole ==
  ASSUME TypeOK, WindowsFill, NEW read \in SUBSET (1..now), NEW live \in SUBSET (1..now),
         Sync(read, live), \A t \in live : \A u \in buffer \cup read : u < t
  PROVE  Whole'
<1> DEFINE old == IF buffer # {} THEN {t \in read : ~Advances(t)}
                  ELSE IF HasLine THEN {t \in read : t <= Line}
                  ELSE {t \in read : t <= startedAt}
           all == buffer \cup old
<1>0. /\ now \in Nat /\ buffer \subseteq 1..now /\ mark \in Int /\ startedAt \in Int
      /\ old \subseteq read /\ all \in SUBSET (1..now)
  <2>1. /\ now \in Nat /\ buffer \subseteq 1..now /\ mark \in Int /\ startedAt \in Int
    BY BoundsAssumption DEF TypeOK
  <2>2. old \subseteq read
    OBVIOUS
  <2>. QED  BY <2>1, <2>2
<1>1. Line \in Int
  BY <1>0, BoundsAssumption DEF Line
<1>2. /\ buffer' = Newest(all)
      /\ job' = [step |-> "next", todo |-> (read \ old) \cup live, bar |-> 0,
                 decide |-> FALSE, seen |-> read]
  BY DEF Sync, NoJob
<1>3. \A t \in (read \ old) \cup live : \A u \in all : u < t
  <2>1. CASE buffer # {}
    BY <2>1, <1>0 DEF Advances
  <2>2. CASE buffer = {}
    BY <2>2, <1>0, <1>1
  <2>. QED  BY <2>1, <2>2
<1>4. \A t \in job'.todo : Advances(t)'
  BY <1>2, <1>3, NewestIsSubset DEF Advances
<1>5. ASSUME NEW u \in job'.seen \ (buffer' \cup job'.todo)
      PROVE  Cardinality(buffer') >= Window /\ \A v \in buffer' : u < v
  <2>1. u \in all /\ u \notin Newest(all)
    BY <1>2, <1>5
  <2>. HIDE DEF all
  <2>. QED  BY <1>0, <1>2, <2>1, LeftOutIsOld
<1>6. job'.step = "next"
  BY <1>2
<1>. QED  BY <1>4, <1>5, <1>6 DEF Whole

LEMMA FeedIsWhole ==
  ASSUME TypeOK, WindowsFill, Whole, Feed
  PROVE  Whole'
<1>1. PICK t \in job.todo :
        /\ \A u \in job.todo : t <= u
        /\ LET current == now - t <= MaxAge IN
            IF current /\ ~Advances(t)
            THEN job' = [job EXCEPT !.todo = @ \ {t}] /\ UNCHANGED buffer
            ELSE /\ buffer' = Newest(buffer \cup {t})
                 /\ job' = [job EXCEPT !.todo = @ \ {t}, !.step = "mark",
                                       !.bar = t, !.decide = current]
  BY DEF Feed
<1>2. /\ now \in Nat /\ Window \in Nat \ {0} /\ t \in 1..now /\ Advances(t)
      /\ buffer \in SUBSET (1..now) /\ buffer \cup {t} \in SUBSET (1..now)
      /\ job.todo \in SUBSET (1..now) /\ job.seen \in SUBSET (1..now) /\ job.step = "next"
  BY <1>1, BoundsAssumption DEF TypeOK, Whole, Feed
<1>3. /\ buffer' = Newest(buffer \cup {t})
      /\ job' = [job EXCEPT !.todo = @ \ {t}, !.step = "mark",
                            !.bar = t, !.decide = (now - t <= MaxAge)]
  BY <1>1, <1>2
<1>4. /\ job'.step = "mark" /\ job'.bar = t /\ job'.todo = job.todo \ {t}
      /\ job'.seen = job.seen
  BY <1>3 DEF TypeOK
<1>5. Newer(t, buffer \cup {t})
  BY <1>2 DEF Newer, Advances
<1>6. buffer' \subseteq buffer \cup {t} /\ t \in buffer' /\ Newer(t, buffer')
  BY <1>2, <1>3, <1>5, NewestKeepsTop, NewestIsSubset DEF Newer
<1>7. \A u \in job'.todo : Advances(u)'
  BY <1>1, <1>2, <1>4, <1>6 DEF Advances, Newer
<1>8. ASSUME NEW u \in job'.seen \ (buffer' \cup job'.todo)
      PROVE  Cardinality(buffer') >= Window /\ \A v \in buffer' : u < v
  <2>1. CASE u \in buffer
    BY <1>2, <1>3, <1>8, <2>1, LeftOutIsOld
  <2>2. CASE u \notin buffer
    <3>1. u \in job.seen \ (buffer \cup job.todo) /\ u \in 1..now
      BY <1>2, <1>4, <1>6, <1>8, <2>2
    <3>2. Cardinality(buffer) >= Window /\ \A v \in buffer : u < v
      BY <1>2, <3>1 DEF Whole
    <3>3. IsFiniteSet(buffer) /\ Cardinality(buffer) \in Nat
      BY <1>2, BarsAreFinite, FS_CardinalityType
    <3>4. PICK w \in buffer : TRUE
      <4>1. Cardinality(buffer) # 0
        BY <1>2, <3>2, <3>3
      <4>. QED  BY <4>1, FS_EmptySet
    <3>5. u < t
      <4>1. u < w /\ w < t
        BY <1>2, <3>2, <3>4 DEF Advances
      <4>2. u \in Nat /\ w \in Nat /\ t \in Nat
        BY <1>2, <3>1, <3>4
      <4>. QED  BY <4>1, <4>2
    <3>6. Cardinality(buffer \cup {t}) >= Window
      <4>1. Cardinality(buffer \cup {t}) \in {Cardinality(buffer), Cardinality(buffer) + 1}
        BY <3>3, FS_AddElement
      <4>2. Window \in Nat
        BY <1>2
      <4>. QED  BY <3>2, <3>3, <4>1, <4>2
    <3>7. Cardinality(TopOf(buffer \cup {t}, Window)) >= Window
      BY <1>2, <3>6 DEF WindowsFill
    <3>. QED  BY <1>3, <1>6, <3>2, <3>5, <3>7 DEF TopOf, Newest
  <2>. QED  BY <2>1, <2>2
<1>. QED  BY <1>4, <1>6, <1>7, <1>8 DEF Whole

LEMMA NextIsWhole ==
  ASSUME TypeOK, WindowsFill, Empty, Whole, [Next]_vars
  PROVE  Whole'
<1>0. now \in Nat /\ stored \in SUBSET (1..now)
  BY BoundsAssumption DEF TypeOK
<1>1. CASE SyncPass
  <2> DEFINE read == Newest(stored)
             live == {}
  <2>1. read \in SUBSET (1..now) /\ live \in SUBSET (1..now)
    BY <1>0, NewestIsSubset
  <2>2. Sync(read, live) /\ \A t \in live : \A u \in buffer \cup read : u < t
    BY <1>1 DEF SyncPass
  <2>. HIDE DEF read, live
  <2>. QED  BY <2>1, <2>2, SyncIsWhole
<1>2. ASSUME NEW t \in Times, Message(t) PROVE Whole'
  <2> DEFINE read == {u \in Newest(stored) : u < t}
  <2>1. read \in SUBSET (1..now) /\ {t} \in SUBSET (1..now)
    BY <1>0, <1>2, NewestIsSubset DEF Message, TypeOK
  <2>2. Sync(read, {t}) /\ \A u \in buffer \cup read : u < t
    BY <1>2 DEF Message, Advances
  <2>. HIDE DEF read
  <2>. QED  BY <2>1, <2>2, SyncIsWhole
<1>3. CASE Feed
  BY <1>3, FeedIsWhole
<1>4. CASE RecordDecided \/ Decide
  <2>1. /\ buffer' = buffer /\ job.step \in {"mark", "decide"}
        /\ job' \in {[job EXCEPT !.step = "next"], [job EXCEPT !.step = "decide"]}
    BY <1>4 DEF RecordDecided, Decide, Continue
  <2>2. /\ job'.todo = job.todo /\ job'.seen = job.seen /\ job'.bar = job.bar
        /\ job'.step \in {"next", "decide"}
    BY <2>1 DEF TypeOK
  <2>. QED  BY <2>1, <2>2 DEF Whole, Advances, Newer
<1>5. CASE Done \/ BreakOff \/ Crash
  BY <1>5 DEF Done, BreakOff, Crash, Whole, NoJob
<1>6. CASE Restore
  BY <1>6 DEF Restore, Empty, Whole, NoJob
<1>7. CASE (\E t \in Times : Backfill(t)) \/ BucketEnds \/ FlushWindow \/ Start \/ UNCHANGED vars
  BY <1>7 DEF Backfill, BucketEnds, FlushWindow, Start, vars, runnerVars, Whole, Advances, Newer
<1>. QED  BY <1>1, <1>2, <1>3, <1>4, <1>5, <1>6, <1>7 DEF Next

LEMMA NextIsEmpty == ASSUME TypeOK, Empty, [Next]_vars PROVE Empty'
<1>1. CASE Feed \/ RecordDecided \/ Decide \/ Done \/ BreakOff
  <2>1. job.step # "idle"
    BY <1>1 DEF Feed, RecordDecided, Decide, Done, BreakOff
  <2>2. phase \notin {"down", "booting"}
    BY <2>1 DEF Empty, NoJob
  <2>3. CASE BreakOff
    BY <2>2, <2>3 DEF BreakOff, Empty
  <2>4. CASE ~BreakOff
    BY <1>1, <2>2, <2>4 DEF Feed, RecordDecided, Decide, Done, Empty
  <2>. QED  BY <2>3, <2>4
<1>2. CASE BucketEnds \/ FlushWindow \/ Start \/ Restore \/ SyncPass \/ Crash \/ UNCHANGED vars
  BY <1>2 DEF BucketEnds, FlushWindow, Start, Restore, SyncPass, Crash, vars, runnerVars, Empty,
     NoJob
<1>3. CASE \E t \in Times : Backfill(t) \/ Message(t)
  BY <1>3 DEF Backfill, Message, runnerVars, Empty, NoJob
<1>. QED  BY <1>1, <1>2, <1>3 DEF Next

LEMMA NextKeepsFrames ==
  ASSUME TypeOK, Whole, FramesAreWhole, [Next]_vars
  PROVE  FramesAreWhole'
<1>1. CASE UNCHANGED decisions
  BY <1>1 DEF FramesAreWhole, Newest
<1>2. CASE Decide
  <2> DEFINE d == [t |-> job.bar, frame |-> buffer, seen |-> job.seen]
  <2>1. /\ job.bar \in buffer /\ Newer(job.bar, buffer)
        /\ \A t \in job.todo : Advances(t)
        /\ \A u \in job.seen \ (buffer \cup job.todo) :
              Cardinality(buffer) >= Window /\ \A v \in buffer : u < v
    BY <1>2 DEF Decide, Whole
  <2>2. /\ now \in Nat /\ now <= MaxTime /\ Window \in Nat
        /\ buffer \in SUBSET (1..now) /\ job.seen \in SUBSET (1..now)
    BY BoundsAssumption DEF TypeOK
  <2>3. ASSUME NEW u \in Newest(buffer \cup job.seen), u <= job.bar
        PROVE  u \in buffer
    <3> SUFFICES ASSUME u \notin buffer PROVE FALSE
      OBVIOUS
    <3>1. u \in job.seen /\ u \in 1..now /\ job.bar \in 1..now
      BY <2>1, <2>2, <2>3 DEF Newest
    <3>2. u \notin job.todo
      <4>1. SUFFICES ASSUME u \in job.todo PROVE FALSE
        OBVIOUS
      <4>2. job.bar < u
        BY <2>1, <4>1 DEF Advances
      <4>. QED  BY <2>3, <3>1, <4>2
    <3>3. Cardinality(buffer) >= Window /\ \A v \in buffer : u < v
      BY <2>1, <3>1, <3>2
    <3> DEFINE Above == {v \in buffer \cup job.seen : v > u}
    <3>4. Above \in SUBSET (1..now) /\ buffer \subseteq Above
      BY <2>2, <3>1, <3>3
    <3>5. Cardinality(Above) < Window
      BY <2>3 DEF Newest
    <3>6. IsFiniteSet(Above) /\ IsFiniteSet(buffer)
      BY <2>2, <3>4, BarsAreFinite
    <3> HIDE DEF Above
    <3>7. Cardinality(buffer) <= Cardinality(Above)
      BY <3>4, <3>6, FS_Subset
    <3>8. Cardinality(Above) \in Nat /\ Cardinality(buffer) \in Nat
      BY <3>6, FS_CardinalityType
    <3>. QED  BY <2>2, <3>3, <3>5, <3>7, <3>8
  <2>4. /\ d.t \in d.frame /\ \A u \in d.frame : u <= d.t
        /\ {u \in Newest(d.frame \cup d.seen) : u <= d.t} \subseteq d.frame
    BY <2>1, <2>3 DEF Newer
  <2>5. CASE decisions' = Append(decisions, d)
    <3>1. d \in [t : Times, frame : SUBSET Times, seen : SUBSET Times]
      <4>1. 1..now \subseteq Times
        BY <2>2, BoundsAssumption DEF Times
      <4>2. /\ buffer \in SUBSET Times /\ job.seen \in SUBSET Times
            /\ job.bar \in Times
        <5>1. buffer \subseteq Times /\ job.seen \subseteq Times
          BY <2>2, <4>1
        <5>. QED  BY <2>1, <5>1
      <4>. QED  BY <4>2
    <3>2. /\ decisions \in Seq([t : Times, frame : SUBSET Times, seen : SUBSET Times])
          /\ Len(decisions) \in Nat
      BY DEF TypeOK
    <3>. HIDE DEF d
    <3>3. /\ DOMAIN decisions' = 1..(Len(decisions) + 1)
          /\ DOMAIN decisions = 1..Len(decisions)
          /\ \A i \in DOMAIN decisions : decisions'[i] = decisions[i]
          /\ decisions'[Len(decisions) + 1] = d
      BY <2>5, <3>1, <3>2
    <3>4. ASSUME NEW i \in DOMAIN decisions', NEW e, e = decisions'[i]
          PROVE  /\ e.t \in e.frame /\ \A u \in e.frame : u <= e.t
                 /\ {u \in Newest(e.frame \cup e.seen) : u <= e.t} \subseteq e.frame
      <4>1. CASE i = Len(decisions) + 1
        BY <2>4, <3>3, <3>4, <4>1
      <4>2. CASE i # Len(decisions) + 1
        <5>1. i \in DOMAIN decisions /\ e = decisions[i]
          BY <3>2, <3>3, <3>4, <4>2
        <5>. QED  BY <5>1 DEF FramesAreWhole
      <4>. QED  BY <4>1, <4>2
    <3>. QED  BY <3>4 DEF FramesAreWhole, Newest
  <2>. QED  BY <1>1, <1>2, <2>5 DEF Decide
<1>3. [Next]_vars => UNCHANGED decisions \/ Decide
  BY DEF Next, vars, BucketEnds, FlushWindow, Backfill, Message, Start, Restore, SyncPass,
     Feed, RecordDecided, Done, BreakOff, Crash
<1>. QED  BY <1>1, <1>2, <1>3

LEMMA NextCountsOn == ASSUME TypeOK, [Next]_vars PROVE now \in Nat /\ now' \in {now, now + 1}
<1>1. now \in Nat
  BY BoundsAssumption DEF TypeOK
<1>2. now' = now + 1 \/ now' = now
  BY DEF Next, vars, BucketEnds, FlushWindow, Backfill, Message, Start, Restore, SyncPass,
     Feed, RecordDecided, Decide, Done, BreakOff, Crash
<1>. QED  BY <1>1, <1>2

\* A bar that enters a window and is newer than it: only Feed brings one, unless there
\* was no window and the bar is behind the line.
LEMMA EntersBehindTheLine ==
  ASSUME TypeOK, NEW read \in SUBSET (1..now), NEW t \in read,
         HasLine => t <= Line, HasLine \/ mark = 0
  PROVE  ~IF mark <= now THEN 0 < mark /\ mark < t ELSE now < t + MaxAge
<1>1. now \in Nat /\ MaxAge \in Nat /\ mark \in Nat /\ t \in 1..now
  BY BoundsAssumption DEF TypeOK
<1>2. CASE mark = 0
  BY <1>1, <1>2
<1>3. CASE mark # 0 /\ mark <= now
  BY <1>1, <1>3 DEF HasLine, Line
<1>4. CASE ~(mark <= now)
  BY <1>1, <1>4 DEF HasLine, Line
<1>. QED  BY <1>2, <1>3, <1>4

FedStep ==
    \A t \in buffer' \ buffer :
        /\ Advances(t)
        /\ IF mark <= now THEN 0 < mark /\ mark < t ELSE now < t + MaxAge
        => job'.step = "mark" /\ job'.bar = t

LEMMA SyncFeeds ==
  ASSUME TypeOK, NEW read \in SUBSET (1..now), NEW live, Sync(read, live)
  PROVE  FedStep
<1> DEFINE old == IF buffer # {} THEN {t \in read : ~Advances(t)}
                  ELSE IF HasLine THEN {t \in read : t <= Line}
                  ELSE {t \in read : t <= startedAt}
<1>1. \A t \in buffer' \ buffer : t \in old /\ t \in read
  BY NewestIsSubset DEF Sync
<1>2. ASSUME NEW t \in buffer' \ buffer, Advances(t)
      PROVE  ~IF mark <= now THEN 0 < mark /\ mark < t ELSE now < t + MaxAge
  <2>1. buffer = {}
    BY <1>1, <1>2
  <2>2. HasLine => t <= Line
    BY <1>1, <1>2, <2>1
  <2>3. t \in read /\ (HasLine \/ mark = 0)
    BY <1>1, <1>2 DEF HasLine
  <2>. QED  BY <2>2, <2>3, EntersBehindTheLine
<1>. QED  BY <1>2 DEF FedStep

LEMMA NextFeeds == ASSUME TypeOK, Empty, [Next]_vars PROVE FedStep
<1>0. now \in Nat /\ stored \in SUBSET (1..now) /\ Newest(stored) \in SUBSET (1..now)
  <2>1. now \in Nat /\ stored \in SUBSET (1..now)
    BY BoundsAssumption DEF TypeOK
  <2>. QED  BY <2>1, NewestIsSubset
<1>1. CASE buffer' \subseteq buffer
  BY <1>1 DEF FedStep
<1>2. CASE Restore
  <2>1. ASSUME NEW t \in buffer'
        PROVE  ~IF mark <= now THEN 0 < mark /\ mark < t ELSE now < t + MaxAge
    <3>1. t \in Newest(stored) /\ (HasLine => t <= Line)
      BY <1>2, <2>1 DEF Restore
    <3>. QED  BY <1>0, <3>1, EntersBehindTheLine DEF HasLine
  <2>. QED  BY <2>1 DEF FedStep
<1>3. CASE SyncPass
  BY <1>0, <1>3, SyncFeeds DEF SyncPass
<1>4. ASSUME NEW t \in Times, Message(t) PROVE FedStep
  <2> DEFINE read == {u \in Newest(stored) : u < t}
  <2>1. read \in SUBSET (1..now) /\ Sync(read, {t})
    BY <1>0, <1>4 DEF Message
  <2>. HIDE DEF read
  <2>. QED  BY <2>1, SyncFeeds
<1>5. CASE Feed
  <2>1. PICK t \in job.todo :
          \/ UNCHANGED buffer
          \/ /\ buffer' = Newest(buffer \cup {t})
             /\ job' = [job EXCEPT !.todo = @ \ {t}, !.step = "mark",
                                   !.bar = t, !.decide = (now - t <= MaxAge)]
    BY <1>5 DEF Feed
  <2>2. CASE UNCHANGED buffer
    BY <2>2 DEF FedStep
  <2>3. CASE /\ buffer' = Newest(buffer \cup {t})
             /\ job' = [job EXCEPT !.todo = @ \ {t}, !.step = "mark",
                                   !.bar = t, !.decide = (now - t <= MaxAge)]
    <3>1. \A u \in buffer' \ buffer : u = t
      BY <2>3, NewestIsSubset
    <3>2. job'.step = "mark" /\ job'.bar = t
      BY <2>3 DEF TypeOK
    <3>. QED  BY <3>1, <3>2 DEF FedStep
  <2>. QED  BY <2>1, <2>2, <2>3
<1>6. (\/ BucketEnds \/ FlushWindow \/ Start \/ RecordDecided \/ Decide \/ Done \/ BreakOff
       \/ Crash \/ UNCHANGED vars \/ \E t \in Times : Backfill(t))
         => buffer' \subseteq buffer
  BY DEF BucketEnds, FlushWindow, Start, RecordDecided, Decide, Done, BreakOff, Crash, vars,
     runnerVars, Backfill
<1>. QED  BY <1>1, <1>2, <1>3, <1>4, <1>5, <1>6 DEF Next

LEMMA FrameInvariant == Spec => []FrameInv
<1>1. Init => FrameInv
  <2> SUFFICES ASSUME Init PROVE FrameInv
    OBVIOUS
  <2>1. WindowsFill
    <3> SUFFICES ASSUME NEW k \in Nat, NEW S \in SUBSET (1..0), Cardinality(S) >= k
                 PROVE  Cardinality(TopOf(S, k)) >= k
      BY DEF Init, WindowsFill, TopOf
    <3>1. S = {}
      OBVIOUS
    <3>2. TopOf(S, k) = {}
      BY <3>1 DEF TopOf
    <3>. QED  BY <3>1, <3>2
  <2>2. Empty /\ Whole /\ FramesAreWhole
    BY DEF Init, Empty, Whole, FramesAreWhole, NoJob
  <2>. QED  BY <2>1, <2>2 DEF FrameInv
<1>2. TypeOK /\ FrameInv /\ [Next]_vars => FrameInv'
  BY WindowsFillGrows, NextCountsOn, NextIsEmpty, NextIsWhole, NextKeepsFrames DEF FrameInv
<1>. QED  BY <1>1, <1>2, FeedTypeCorrect, PTL DEF Spec

\* Every decision was made on a window without a hole: it ends with the bar decided and
\* holds the newest of what had been read and fed, whatever was lost, repeated or flushed.
THEOREM FramesWhole == Spec => []FramesAreWhole
<1>1. FrameInv => FramesAreWhole
  BY DEF FrameInv
<1>. QED  BY <1>1, FrameInvariant, PTL

\* No close newer than the mark slips into the window as history: it is fed, and the
\* strategy is asked about it unless it is too old.
THEOREM MissedFed == Spec => MissedClosesAreFed
<1>1. TypeOK /\ FrameInv /\ [Next]_vars => [FedStep]_vars
  BY NextFeeds DEF FrameInv
<1>2. Spec => [][FedStep]_vars
  BY <1>1, FeedTypeCorrect, FrameInvariant, PTL DEF Spec
<1>. QED  BY <1>2 DEF MissedClosesAreFed, FedStep

-----------------------------------------------------------------------------
(* The history requests, for any vendor: whatever order outages,           *)
(* announcements, answers and losses come in, a service at rest is caught  *)
(* up (service.py _history_loop, backfill.py).  A series that is behind is *)
(* on the list, or the start has yet to put it there, from the moment the  *)
(* last announcement is handled; and the loop sleeps only over an empty    *)
(* list or a vendor that it found silent.                                  *)
Replies == {"none", "silence", "never", "later", "bars"}
Request == [s : Series, reply : Replies, attempt : Int, old : BOOLEAN, fresh : BOOLEAN,
            whole : BOOLEAN]
HistoryWindow == [held : {"none", "some", "target"}, current : BOOLEAN, hole : BOOLEAN]
LoopPlaces == {"boot", "starting", "top", "idle", "silent", "woken", "pausing", "pass"}

RequestsTypeOK ==
    /\ vendor \in {"down", "up"}
    /\ watch \in {"none", "listening", "dropped"}
    /\ pending \in Nat
    /\ window \in [Series -> HistoryWindow]
    /\ owed \in SUBSET Series
    /\ offline \in BOOLEAN
    /\ wake \in BOOLEAN
    /\ loop \in [at : LoopPlaces, todo : SUBSET Series, unwarmed : SUBSET Series]
    /\ request \in [Requests!Callers -> {Requests!NoRequest} \cup Request]
    /\ cooling \in SUBSET Series
    /\ late \in SUBSET Series
    /\ flushed \in SUBSET Series

\* The service has handled every announcement of a vendor that is up.
Heard == vendor = "up" /\ watch = "listening" /\ pending = 0

\* A series that the loop will ask for: on its list, or met by the start.
OnTheList(s) == s \in owed \/ (loop.at = "boot" /\ s \in loop.todo \cup loop.unwarmed)
Behind(s) == s \in Series \ (NotServed \cup late \cup flushed) /\ ~window[s].current
BehindIsListed == Heard => \A s \in Series : Behind(s) => OnTheList(s)

\* Silence that is believed of a vendor that came up since is an old answer's.
OfflineIsLate == Heard /\ offline => Series \subseteq late

\* An answer that no longer tells how things are is marked as old.
AnswerIsSound(c) ==
    Requests!Waits(c) =>
        /\ request[c].reply = "none" => request[c].fresh
        /\ vendor = "up" /\ (request[c].reply = "silence" \/ ~request[c].fresh) => request[c].old
        /\ request[c].reply = "never" => request[c].s \in NotServed
AnswersAreSound == \A c \in Requests!Callers : AnswerIsSound(c)

\* The loop sleeps without a timer only for these reasons.
SleepsWithReason ==
    ~wake => /\ loop.at = "idle" /\ ~offline => owed \subseteq flushed
             /\ loop.at = "silent" => offline

RequestsInv ==
    /\ RequestsTypeOK
    /\ BehindIsListed /\ OfflineIsLate /\ AnswersAreSound /\ SleepsWithReason

-----------------------------------------------------------------------------
LEMMA RequestsStart == Requests!Init => RequestsInv
<1> SUFFICES ASSUME Requests!Init PROVE RequestsInv
  OBVIOUS
<1>1. window \in [Series -> HistoryWindow]
  <2> DEFINE fresh == {[held |-> "none", current |-> FALSE, hole |-> FALSE],
                       [held |-> "target", current |-> FALSE, hole |-> FALSE]}
  <2>1. window \in [Series -> fresh] BY DEF Requests!Init
  <2>2. fresh \subseteq HistoryWindow BY DEF HistoryWindow
  <2> QED BY <2>1, <2>2
<1>2. RequestsTypeOK BY <1>1 DEF Requests!Init, RequestsTypeOK, LoopPlaces
<1>3. \A c \in Requests!Callers : ~Requests!Waits(c) BY DEF Requests!Init, Requests!Waits
<1>4. \A s \in Series : OnTheList(s) BY DEF Requests!Init, OnTheList
<1>5. AnswersAreSound BY <1>3 DEF AnswersAreSound, AnswerIsSound
<1> QED BY <1>2, <1>4, <1>5 DEF Requests!Init, RequestsInv, BehindIsListed, OfflineIsLate,
        SleepsWithReason

(* A request that is made is not answered yet. *)
LEMMA AskedRequest ==
    ASSUME NEW s \in Series, NEW forced \in BOOLEAN
    PROVE  /\ Requests!NewRequest(s, forced) \in Request
           /\ Requests!NewRequest(s, forced).reply = "none"
           /\ Requests!NewRequest(s, forced).fresh
BY DEF Requests!NewRequest, Request, Replies

(* Only the request of its caller changes, and the answers of the others stay sound while *)
(* the vendor stays as it is.                                                             *)
LEMMA OtherAnswers ==
    ASSUME AnswersAreSound, request \in [Requests!Callers -> {Requests!NoRequest} \cup Request],
           UNCHANGED vendor, NEW c \in Requests!Callers, NEW r,
           request' = [request EXCEPT ![c] = r], AnswerIsSound(c)'
    PROVE  AnswersAreSound'
<1> SUFFICES ASSUME NEW d \in Requests!Callers, d # c PROVE AnswerIsSound(d)'
  BY DEF AnswersAreSound
<1> QED BY DEF AnswersAreSound, AnswerIsSound, Requests!Waits

LEMMA AsksKeep ==
    ASSUME RequestsInv, NEW s \in Series, NEW forced \in BOOLEAN, NEW c \in Requests!Callers,
           request' = [request EXCEPT ![c] = Requests!NewRequest(s, forced)], UNCHANGED vendor
    PROVE  /\ AnswersAreSound'
           /\ request' \in [Requests!Callers -> {Requests!NoRequest} \cup Request]
<1> DEFINE r == Requests!NewRequest(s, forced)
<1>1. r \in Request /\ r.reply = "none" /\ r.fresh BY AskedRequest
<1> HIDE DEF r
<1>2. request' = [request EXCEPT ![c] = r] BY DEF r
<1>3. AnswerIsSound(c)'
  BY <1>1, <1>2 DEF AnswerIsSound, RequestsInv, RequestsTypeOK
<1>4. AnswersAreSound' BY <1>2, <1>3, OtherAnswers DEF RequestsInv, RequestsTypeOK
<1> QED BY <1>1, <1>2, <1>4 DEF RequestsInv, RequestsTypeOK

LEMMA TakesKeep ==
    ASSUME RequestsInv, NEW c \in Requests!Callers,
           request' = [request EXCEPT ![c] = Requests!NoRequest], UNCHANGED vendor
    PROVE  /\ AnswersAreSound'
           /\ request' \in [Requests!Callers -> {Requests!NoRequest} \cup Request]
<1>1. AnswerIsSound(c)'
  BY DEF AnswerIsSound, Requests!Waits, RequestsInv, RequestsTypeOK
<1>2. AnswersAreSound' BY <1>1, OtherAnswers DEF RequestsInv, RequestsTypeOK
<1> QED BY <1>2 DEF RequestsInv, RequestsTypeOK

(* What an answer that is used leaves: the window of its series is as new as the vendor's, *)
(* or the series is not served, or late.                                                   *)
LEMMA AnswerUsed ==
    ASSUME RequestsInv, NEW c \in Requests!Callers, Requests!Answered(c), Requests!TakesOld(c)
    PROVE  /\ request[c] \in Request
           /\ Requests!Merged(c) \in [Series -> HistoryWindow]
           /\ \A s \in Series : s # request[c].s => Requests!Merged(c)[s] = window[s]
           /\ ~Requests!Settles(c) => Requests!Merged(c) = window
           /\ late \subseteq late' /\ late' \in SUBSET Series
           /\ vendor = "up" /\ Requests!Settles(c) =>
                \/ Requests!Merged(c)[request[c].s].current
                \/ request[c].s \in NotServed \cup late'
           /\ vendor = "up" /\ request[c].reply = "silence" /\ c # "operator" => Series \subseteq late'
<1>1. request[c] \in Request
  BY DEF Requests!Answered, Requests!Waits, RequestsInv, RequestsTypeOK
<1>2. Requests!Merged(c) \in [Series -> HistoryWindow]
  BY <1>1 DEF Requests!Merged, RequestsInv, RequestsTypeOK, HistoryWindow, Request
<1>3. \A s \in Series : s # request[c].s => Requests!Merged(c)[s] = window[s]
  BY <1>1 DEF Requests!Merged, RequestsInv, RequestsTypeOK
<1>4. ~Requests!Settles(c) => Requests!Merged(c) = window
  BY DEF Requests!Merged, Requests!Settles
<1>5. late \subseteq late' /\ late' \in SUBSET Series
  BY <1>1 DEF Requests!TakesOld, RequestsInv, RequestsTypeOK, Request
<1>6. ASSUME vendor = "up", Requests!Settles(c)
      PROVE  \/ Requests!Merged(c)[request[c].s].current
             \/ request[c].s \in NotServed \cup late'
  <2>1. AnswerIsSound(c) /\ Requests!Waits(c)
    BY DEF RequestsInv, AnswersAreSound, Requests!Answered
  <2>2. CASE request[c].reply = "never" BY <2>1, <2>2 DEF AnswerIsSound
  <2>3. CASE request[c].reply = "bars" /\ request[c].fresh
    <3>1. Requests!Merged(c)[request[c].s].current = request[c].fresh
      BY <1>1, <2>3 DEF Requests!Merged, RequestsInv, RequestsTypeOK, Request
    <3> QED BY <3>1, <2>3
  <2>4. CASE request[c].reply = "bars" /\ ~request[c].fresh
    BY <1>6, <2>1, <2>4 DEF AnswerIsSound, Requests!TakesOld, Requests!Settles
  <2> QED BY <1>6, <2>2, <2>3, <2>4 DEF Requests!Settles
<1>7. vendor = "up" /\ request[c].reply = "silence" /\ c # "operator" => Series \subseteq late'
  <2> SUFFICES ASSUME vendor = "up", request[c].reply = "silence", c # "operator"
               PROVE  Series \subseteq late'
    OBVIOUS
  <2>1. request[c].old BY DEF RequestsInv, AnswersAreSound, AnswerIsSound, Requests!Answered
  <2> QED BY <2>1 DEF Requests!TakesOld, Requests!Settles
<1> QED BY <1>1, <1>2, <1>3, <1>4, <1>5, <1>6, <1>7

-----------------------------------------------------------------------------
LEMMA ReplyKeeps ==
    ASSUME RequestsInv, NEW c \in Requests!Callers, Requests!Reply(c)
    PROVE  RequestsInv'
<1>1. request[c] \in Request
  BY DEF Requests!Reply, Requests!Waits, RequestsInv, RequestsTypeOK
<1>2. PICK answer \in Requests!Answers(c) : request' = [request EXCEPT ![c].reply = answer]
  BY DEF Requests!Reply
<1>3. answer \in Replies BY <1>2 DEF Requests!Answers, Replies
<1>4. request' = [request EXCEPT ![c] = [request[c] EXCEPT !.reply = answer]]
  BY <1>2 DEF RequestsInv, RequestsTypeOK
<1>5. [request[c] EXCEPT !.reply = answer] \in Request BY <1>1, <1>3 DEF Request
<1>6. RequestsTypeOK' BY <1>4, <1>5 DEF RequestsInv, RequestsTypeOK, Requests!Reply
<1>7. AnswerIsSound(c)'
  <2>1. request'[c] = [request[c] EXCEPT !.reply = answer]
    BY <1>4 DEF RequestsInv, RequestsTypeOK
  <2>2. answer = "silence" => vendor # "up" BY <1>2 DEF Requests!Answers
  <2>3. answer = "never" => request[c].s \in NotServed BY <1>2 DEF Requests!Answers
  <2>4. request'[c].reply = answer /\ request'[c].s = request[c].s
        /\ request'[c].old = request[c].old /\ request'[c].fresh = request[c].fresh
    BY <2>1, <1>1 DEF Request
  <2> QED BY <2>2, <2>3, <2>4 DEF AnswerIsSound, AnswersAreSound, RequestsInv, Requests!Reply
<1>8. AnswersAreSound' BY <1>4, <1>7, OtherAnswers DEF RequestsInv, RequestsTypeOK, Requests!Reply
<1> QED BY <1>6, <1>8 DEF RequestsInv, Requests!Reply, BehindIsListed, Heard, Behind, OnTheList,
        OfflineIsLate, SleepsWithReason

LEMMA TimesOutKeeps ==
    ASSUME RequestsInv, NEW c \in Requests!Callers, Requests!TimesOut(c)
    PROVE  RequestsInv'
<1>1. request[c] \in Request /\ Requests!Waits(c)
  BY DEF Requests!TimesOut, Requests!Waits, RequestsInv, RequestsTypeOK
<1>2. PICK r \in Request :
        /\ request' = [request EXCEPT ![c] = r]
        /\ r.reply \in {"none", "later"} /\ r.fresh = request[c].fresh
  <2>1. CASE request[c].attempt < Attempts
    <3>1. request' = [request EXCEPT ![c] = [request[c] EXCEPT !.attempt = @ + 1]]
      BY <2>1 DEF Requests!TimesOut, RequestsInv, RequestsTypeOK
    <3>2. [request[c] EXCEPT !.attempt = @ + 1] \in Request BY <1>1 DEF Request
    <3>3. request[c].reply = "none" BY DEF Requests!TimesOut
    <3> QED BY <1>1, <3>1, <3>2, <3>3 DEF Request
  <2>2. CASE ~(request[c].attempt < Attempts)
    <3>1. request' = [request EXCEPT ![c] = [request[c] EXCEPT !.reply = "later"]]
      BY <2>2 DEF Requests!TimesOut, RequestsInv, RequestsTypeOK
    <3>2. [request[c] EXCEPT !.reply = "later"] \in Request BY <1>1 DEF Request, Replies
    <3> QED BY <1>1, <3>1, <3>2 DEF Request
  <2> QED BY <2>1, <2>2
<1>3. RequestsTypeOK' BY <1>2 DEF RequestsInv, RequestsTypeOK, Requests!TimesOut
<1>4. request[c].fresh
  BY <1>1 DEF RequestsInv, AnswersAreSound, AnswerIsSound, Requests!TimesOut
<1>5. AnswerIsSound(c)' BY <1>2, <1>4 DEF AnswerIsSound, RequestsInv, RequestsTypeOK
<1>6. AnswersAreSound'
  BY <1>2, <1>5, OtherAnswers DEF RequestsInv, RequestsTypeOK, Requests!TimesOut
<1> QED BY <1>3, <1>6 DEF RequestsInv, Requests!TimesOut, BehindIsListed, Heard, Behind,
        OnTheList, OfflineIsLate, SleepsWithReason

-----------------------------------------------------------------------------
(* The start. *)

(* A start that goes on with todo keeps a series on the list if it keeps it at all. *)
LEMMA StartGoesOn ==
    ASSUME RequestsInv, loop.at = "boot", NEW todo \in SUBSET Series, NEW unwarmed \in SUBSET Series,
           NEW silent \in BOOLEAN, Requests!BootGoesOn(todo, unwarmed, silent)
    PROVE  /\ loop' \in [at : LoopPlaces, todo : SUBSET Series, unwarmed : SUBSET Series]
           /\ owed' \in SUBSET Series /\ offline' \in BOOLEAN
           /\ loop'.at \in {"boot", "starting"}
           /\ offline' => offline \/ silent
           /\ \A s \in Series : s \in owed \cup todo \cup unwarmed => OnTheList(s)'
BY DEF Requests!BootGoesOn, RequestsInv, RequestsTypeOK, OnTheList, LoopPlaces

LEMMA BootAsksKeeps ==
    ASSUME RequestsInv, NEW s \in Series, Requests!BootAsks(s)
    PROVE  RequestsInv'
<1>1. CASE Requests!NeedsAsking(window[s])
  <2>1. request' = [request EXCEPT !["loop"] = Requests!NewRequest(s, FALSE)]
        /\ UNCHANGED <<owed, offline, loop, vendor>>
    BY <1>1 DEF Requests!BootAsks
  <2>2. "loop" \in Requests!Callers BY DEF Requests!Callers
  <2>3. /\ AnswersAreSound'
        /\ request' \in [Requests!Callers -> {Requests!NoRequest} \cup Request]
    BY <2>1, <2>2, AsksKeep
  <2> QED BY <2>1, <2>3 DEF Requests!BootAsks, RequestsInv, RequestsTypeOK, BehindIsListed, Heard,
          Behind, OnTheList, OfflineIsLate, SleepsWithReason
<1>2. CASE ~Requests!NeedsAsking(window[s])
  <2> DEFINE todo == loop.todo \ {s}
  <2>1. /\ Requests!BootGoesOn(todo, loop.unwarmed, FALSE)
        /\ loop.at = "boot" /\ UNCHANGED request
    BY <1>2 DEF Requests!BootAsks
  <2>2. todo \in SUBSET Series /\ loop.unwarmed \in SUBSET Series
    BY DEF RequestsInv, RequestsTypeOK
  <2>3. window[s].current BY <1>2 DEF Requests!NeedsAsking
  <2>4. /\ loop' \in [at : LoopPlaces, todo : SUBSET Series, unwarmed : SUBSET Series]
        /\ owed' \in SUBSET Series /\ offline' \in BOOLEAN
        /\ loop'.at \in {"boot", "starting"}
        /\ offline' => offline
        /\ \A x \in Series : x \in owed \cup todo \cup loop.unwarmed => OnTheList(x)'
    <3> HIDE DEF todo
    <3> QED BY <2>1, <2>2, StartGoesOn
  <2>5. /\ UNCHANGED <<vendor, watch, pending, window, wake, cooling, late, flushed, request>>
    BY <2>1 DEF Requests!BootAsks
  <2>6. RequestsTypeOK' BY <2>4, <2>5 DEF RequestsInv, RequestsTypeOK
  <2>7. BehindIsListed'
    BY <2>1, <2>3, <2>4, <2>5 DEF RequestsInv, BehindIsListed, Heard, Behind, OnTheList
  <2>8. OfflineIsLate' BY <2>4, <2>5 DEF RequestsInv, OfflineIsLate, Heard
  <2>9. AnswersAreSound'
    BY <2>5 DEF RequestsInv, AnswersAreSound, AnswerIsSound, Requests!Waits
  <2>10. SleepsWithReason' BY <2>4, <2>5 DEF SleepsWithReason
  <2> QED BY <2>6, <2>7, <2>8, <2>9, <2>10 DEF RequestsInv
<1> QED BY <1>1, <1>2

LEMMA BootTakesKeeps ==
    ASSUME RequestsInv, Requests!BootTakes
    PROVE  RequestsInv'
<1> DEFINE q == request["loop"]
           todo == IF q.reply = "silence" THEN {} ELSE loop.todo \ {q.s}
           unwarmed == IF q.reply = "silence" THEN loop.unwarmed \cup loop.todo
                       ELSE IF q.reply = "later" THEN loop.unwarmed \cup {q.s}
                       ELSE loop.unwarmed
           silent == q.reply = "silence"
<1>1. /\ loop.at = "boot" /\ Requests!Answered("loop") /\ Requests!TakesOld("loop")
      /\ Requests!BootGoesOn(todo, unwarmed, silent)
      /\ window' = Requests!Merged("loop")
      /\ request' = [request EXCEPT !["loop"] = Requests!NoRequest]
      /\ UNCHANGED <<vendor, watch, pending, wake, cooling, flushed>>
  BY DEF Requests!BootTakes
<1>2. "loop" \in Requests!Callers BY DEF Requests!Callers
<1>3. /\ q \in Request
      /\ window' \in [Series -> HistoryWindow]
      /\ \A s \in Series : s # q.s => window'[s] = window[s]
      /\ ~Requests!Settles("loop") => window' = window
      /\ late \subseteq late' /\ late' \in SUBSET Series
      /\ vendor = "up" /\ Requests!Settles("loop") =>
            window'[q.s].current \/ q.s \in NotServed \cup late'
      /\ vendor = "up" /\ q.reply = "silence" => Series \subseteq late'
  BY <1>1, <1>2, AnswerUsed
<1>4. todo \in SUBSET Series /\ unwarmed \in SUBSET Series /\ silent \in BOOLEAN
  BY <1>3 DEF RequestsInv, RequestsTypeOK, Request
<1>5. /\ loop' \in [at : LoopPlaces, todo : SUBSET Series, unwarmed : SUBSET Series]
      /\ owed' \in SUBSET Series /\ offline' \in BOOLEAN
      /\ loop'.at \in {"boot", "starting"}
      /\ offline' => offline \/ silent
      /\ \A s \in Series : s \in owed \cup todo \cup unwarmed => OnTheList(s)'
  <2> HIDE DEF todo, unwarmed, silent
  <2> QED BY <1>1, <1>4, StartGoesOn
<1>6. /\ AnswersAreSound'
      /\ request' \in [Requests!Callers -> {Requests!NoRequest} \cup Request]
  BY <1>1, <1>2, TakesKeep
<1>7. RequestsTypeOK' BY <1>1, <1>3, <1>5, <1>6 DEF RequestsInv, RequestsTypeOK
<1>8. BehindIsListed'
  <2> SUFFICES ASSUME Heard', NEW s \in Series, Behind(s)' PROVE OnTheList(s)'
    BY DEF BehindIsListed
  <2>1. Heard BY <1>1 DEF Heard
  <2>2. q.reply \in {"silence", "never", "later", "bars"}
    BY <1>1, <1>3 DEF Requests!Answered, Request, Replies
  <2>3. CASE s = q.s
    <3>1. ~Requests!Settles("loop") BY <1>1, <1>3, <2>1, <2>3 DEF Behind, Heard
    <3>2. q.reply \in {"silence", "later"} BY <2>2, <3>1 DEF Requests!Settles
    <3>3. q.reply # "silence" BY <1>3, <2>1 DEF Behind, Heard
    <3> QED BY <1>5, <2>3, <3>2, <3>3
  <2>4. CASE s # q.s
    <3>1. Behind(s) BY <1>1, <1>3, <2>4 DEF Behind
    <3>2. s \in owed \cup loop.todo \cup loop.unwarmed
      BY <2>1, <3>1 DEF RequestsInv, BehindIsListed, OnTheList
    <3> QED BY <1>5, <2>4, <3>2
  <2> QED BY <2>3, <2>4
<1>9. OfflineIsLate' BY <1>1, <1>3, <1>5 DEF RequestsInv, OfflineIsLate, Heard
<1>10. SleepsWithReason' BY <1>5 DEF SleepsWithReason
<1> QED BY <1>6, <1>7, <1>8, <1>9, <1>10 DEF RequestsInv

LEMMA LoopStartsKeeps ==
    ASSUME RequestsInv, Requests!LoopStarts
    PROVE  RequestsInv'
BY DEF Requests!LoopStarts, RequestsInv, RequestsTypeOK, LoopPlaces, BehindIsListed, Heard, Behind,
       OnTheList, OfflineIsLate, AnswersAreSound, AnswerIsSound, Requests!Waits, SleepsWithReason

-----------------------------------------------------------------------------
(* The loop. *)

LEMMA LoopTopKeeps ==
    ASSUME RequestsInv, Requests!LoopTop
    PROVE  RequestsInv'
<1>1. Requests!Waiting \in LoopPlaces \ {"boot"} BY DEF Requests!Waiting, LoopPlaces
<1>2. RequestsTypeOK' BY <1>1 DEF Requests!LoopTop, RequestsInv, RequestsTypeOK
<1>3. loop.at = "top" /\ loop'.at = Requests!Waiting /\ loop'.at # "boot"
  BY <1>1 DEF Requests!LoopTop, RequestsInv, RequestsTypeOK
<1>4. SleepsWithReason'
  BY <1>3 DEF Requests!LoopTop, Requests!Waiting, SleepsWithReason
<1> QED BY <1>2, <1>3, <1>4 DEF Requests!LoopTop, RequestsInv, BehindIsListed, Heard, Behind,
        OnTheList, OfflineIsLate, AnswersAreSound, AnswerIsSound, Requests!Waits

LEMMA PassesKeeps ==
    ASSUME RequestsInv, Requests!Passes
    PROVE  RequestsInv'
<1>1. loop' = [loop EXCEPT !.at = "pass", !.todo = owed] BY DEF Requests!Passes
<1>2. RequestsTypeOK' BY <1>1 DEF Requests!Passes, RequestsInv, RequestsTypeOK, LoopPlaces
<1>3. loop.at # "boot" /\ loop'.at = "pass"
  BY <1>1 DEF Requests!Passes, RequestsInv, RequestsTypeOK
<1> QED BY <1>2, <1>3 DEF Requests!Passes, RequestsInv, BehindIsListed, Heard, Behind,
        OnTheList, OfflineIsLate, AnswersAreSound, AnswerIsSound, Requests!Waits, SleepsWithReason

LEMMA PassAsksKeeps ==
    ASSUME RequestsInv, NEW s \in Series, Requests!PassAsks(s)
    PROVE  RequestsInv'
<1>1. CASE Requests!NeedsAsking(window[s])
  <2>1. request' = [request EXCEPT !["loop"] = Requests!NewRequest(s, FALSE)]
        /\ UNCHANGED <<owed, loop, vendor>>
    BY <1>1 DEF Requests!PassAsks
  <2>2. "loop" \in Requests!Callers BY DEF Requests!Callers
  <2>3. /\ AnswersAreSound'
        /\ request' \in [Requests!Callers -> {Requests!NoRequest} \cup Request]
    BY <2>1, <2>2, AsksKeep
  <2> QED BY <2>1, <2>3 DEF Requests!PassAsks, RequestsInv, RequestsTypeOK, BehindIsListed, Heard,
          Behind, OnTheList, OfflineIsLate, SleepsWithReason
<1>2. CASE ~Requests!NeedsAsking(window[s])
  <2>1. window[s].current BY <1>2 DEF Requests!NeedsAsking
  <2>2. /\ owed' = owed \ {s}
        /\ loop' = [loop EXCEPT !.todo = IF offline THEN {} ELSE @ \ {s}]
        /\ loop.at = "pass"
        /\ UNCHANGED <<vendor, watch, pending, window, offline, wake, cooling, late, flushed, request>>
    BY <1>2 DEF Requests!PassAsks
  <2>3. loop'.at = "pass"
        /\ loop' \in [at : LoopPlaces, todo : SUBSET Series, unwarmed : SUBSET Series]
    BY <2>2 DEF RequestsInv, RequestsTypeOK
  <2>4. RequestsTypeOK' BY <2>2, <2>3 DEF RequestsInv, RequestsTypeOK
  <2>5. BehindIsListed'
    BY <2>1, <2>2, <2>3 DEF RequestsInv, BehindIsListed, Heard, Behind, OnTheList
  <2> QED BY <2>2, <2>3, <2>4, <2>5 DEF RequestsInv, Heard, OfflineIsLate, AnswersAreSound,
          AnswerIsSound, Requests!Waits, SleepsWithReason
<1> QED BY <1>1, <1>2

LEMMA PassTakesKeeps ==
    ASSUME RequestsInv, Requests!PassTakes
    PROVE  RequestsInv'
<1> DEFINE q == request["loop"]
<1>1. /\ loop.at = "pass" /\ Requests!Answered("loop") /\ Requests!TakesOld("loop")
      /\ offline' = (offline \/ q.reply = "silence")
      /\ owed' = IF Requests!Settles("loop") THEN owed \ {q.s} ELSE owed
      /\ loop' = [loop EXCEPT !.todo = IF offline' THEN {} ELSE @ \ {q.s}]
      /\ window' = Requests!Merged("loop")
      /\ request' = [request EXCEPT !["loop"] = Requests!NoRequest]
      /\ UNCHANGED <<vendor, watch, pending, wake, cooling, flushed>>
  BY DEF Requests!PassTakes
<1>2. "loop" \in Requests!Callers BY DEF Requests!Callers
<1>3. /\ q \in Request
      /\ window' \in [Series -> HistoryWindow]
      /\ \A s \in Series : s # q.s => window'[s] = window[s]
      /\ ~Requests!Settles("loop") => window' = window
      /\ late \subseteq late' /\ late' \in SUBSET Series
      /\ vendor = "up" /\ Requests!Settles("loop") =>
            window'[q.s].current \/ q.s \in NotServed \cup late'
      /\ vendor = "up" /\ q.reply = "silence" => Series \subseteq late'
  BY <1>1, <1>2, AnswerUsed
<1>4. /\ AnswersAreSound'
      /\ request' \in [Requests!Callers -> {Requests!NoRequest} \cup Request]
  BY <1>1, <1>2, TakesKeep
<1>5. loop'.at = "pass"
      /\ loop' \in [at : LoopPlaces, todo : SUBSET Series, unwarmed : SUBSET Series]
  BY <1>1 DEF RequestsInv, RequestsTypeOK
<1>6. RequestsTypeOK' BY <1>1, <1>3, <1>4, <1>5 DEF RequestsInv, RequestsTypeOK
<1>7. BehindIsListed'
  <2> SUFFICES ASSUME Heard', NEW s \in Series, Behind(s)' PROVE OnTheList(s)'
    BY DEF BehindIsListed
  <2>1. Heard BY <1>1 DEF Heard
  <2>2. ~(s = q.s /\ Requests!Settles("loop")) BY <1>3, <2>1 DEF Behind, Heard
  <2>3. Behind(s) BY <1>1, <1>3, <2>2 DEF Behind
  <2> QED BY <1>1, <1>5, <2>1, <2>2, <2>3 DEF RequestsInv, BehindIsListed, OnTheList
<1>8. OfflineIsLate' BY <1>1, <1>3 DEF RequestsInv, OfflineIsLate, Heard
<1>9. SleepsWithReason' BY <1>5 DEF SleepsWithReason
<1> QED BY <1>4, <1>6, <1>7, <1>8, <1>9 DEF RequestsInv

LEMMA PassDoneKeeps ==
    ASSUME RequestsInv, Requests!PassDone
    PROVE  RequestsInv'
<1>1. loop.at = "pass" /\ loop' = [loop EXCEPT !.at = "top"] BY DEF Requests!PassDone
<1>2. RequestsTypeOK' BY <1>1 DEF Requests!PassDone, RequestsInv, RequestsTypeOK, LoopPlaces
<1>3. loop'.at = "top" BY <1>1 DEF RequestsInv, RequestsTypeOK
<1> QED BY <1>1, <1>2, <1>3 DEF Requests!PassDone, RequestsInv, BehindIsListed, Heard, Behind,
        OnTheList, OfflineIsLate, AnswersAreSound, AnswerIsSound, Requests!Waits, SleepsWithReason

-----------------------------------------------------------------------------
(* Live bars and the operator. *)

(* A bar that is staged leaves the window current. *)
LEMMA StagedWindow ==
    ASSUME NEW w \in HistoryWindow, NEW v \in Requests!Staged(w)
    PROVE  v \in HistoryWindow /\ v.current
<1> DEFINE hole == w.hole \/ (w.held # "none" /\ ~w.current)
<1>1. PICK h \in {w.held} \cup (IF w.held = "some" THEN {"target"} ELSE {}) :
        v = [held |-> IF w.held = "none" THEN "some" ELSE h, current |-> TRUE, hole |-> hole]
  BY DEF Requests!Staged
<1>2. w.held \in {"none", "some", "target"} /\ w.hole \in BOOLEAN /\ w.current \in BOOLEAN
  BY DEF HistoryWindow
<1>3. hole \in BOOLEAN BY <1>2
<1>4. (IF w.held = "none" THEN "some" ELSE h) \in {"none", "some", "target"} BY <1>2
<1> QED BY <1>1, <1>3, <1>4 DEF HistoryWindow

LEMMA LiveBarKeeps ==
    ASSUME RequestsInv, NEW s \in Series, Requests!LiveBar(s)
    PROVE  RequestsInv'
<1>1. CASE (window[s].held # "none" /\ window[s].current) \/ s \in cooling
  <2>1. PICK w \in Requests!Staged(window[s]) : window' = [window EXCEPT ![s] = w]
    BY <1>1 DEF Requests!LiveBar
  <2>2. w \in HistoryWindow /\ w.current
    BY <2>1, StagedWindow DEF RequestsInv, RequestsTypeOK
  <2>3. UNCHANGED <<vendor, watch, pending, owed, offline, wake, loop, request, cooling, late, flushed>>
    BY <1>1 DEF Requests!LiveBar
  <2>4. RequestsTypeOK' BY <2>1, <2>2, <2>3 DEF RequestsInv, RequestsTypeOK
  <2>5. \A x \in Series : window'[x].current \/ window'[x] = window[x]
    BY <2>1, <2>2 DEF RequestsInv, RequestsTypeOK
  <2> QED BY <2>3, <2>4, <2>5 DEF RequestsInv, BehindIsListed, Heard, Behind,
          OnTheList, OfflineIsLate, AnswersAreSound, AnswerIsSound, Requests!Waits, SleepsWithReason
<1>2. CASE ~((window[s].held # "none" /\ window[s].current) \/ s \in cooling)
  <2>1. /\ request' = [request EXCEPT !["bar"] = Requests!NewRequest(s, FALSE)]
        /\ cooling' = cooling \cup {s}
        /\ UNCHANGED <<vendor, watch, pending, window, owed, offline, wake, loop, late, flushed>>
    BY <1>2 DEF Requests!LiveBar
  <2>2. "bar" \in Requests!Callers BY DEF Requests!Callers
  <2>3. /\ AnswersAreSound'
        /\ request' \in [Requests!Callers -> {Requests!NoRequest} \cup Request]
    BY <2>1, <2>2, AsksKeep
  <2> QED BY <2>1, <2>3 DEF RequestsInv, RequestsTypeOK, BehindIsListed, Heard,
          Behind, OnTheList, OfflineIsLate, SleepsWithReason
<1> QED BY <1>1, <1>2

LEMMA BarTakesKeeps ==
    ASSUME RequestsInv, Requests!BarTakes
    PROVE  RequestsInv'
<1> DEFINE q == request["bar"]
           merged == Requests!Merged("bar")
<1>1. /\ Requests!Answered("bar") /\ Requests!TakesOld("bar")
      /\ offline' = (offline \/ q.reply = "silence")
      /\ owed' = IF Requests!Settles("bar") THEN owed \ {q.s} ELSE owed \cup {q.s}
      /\ wake' = (wake \/ (~Requests!Settles("bar") /\ ~offline'))
      /\ \E w \in Requests!Staged(merged[q.s]) : window' = [window EXCEPT ![q.s] = w]
      /\ request' = [request EXCEPT !["bar"] = Requests!NoRequest]
      /\ UNCHANGED <<vendor, watch, pending, loop, cooling, flushed>>
  BY DEF Requests!BarTakes
<1>2. "bar" \in Requests!Callers BY DEF Requests!Callers
<1>3. /\ q \in Request
      /\ merged \in [Series -> HistoryWindow]
      /\ late \subseteq late' /\ late' \in SUBSET Series
      /\ vendor = "up" /\ q.reply = "silence" => Series \subseteq late'
  BY <1>1, <1>2, AnswerUsed
<1>4. /\ AnswersAreSound'
      /\ request' \in [Requests!Callers -> {Requests!NoRequest} \cup Request]
  BY <1>1, <1>2, TakesKeep
<1>5. q.s \in Series BY <1>3 DEF Request
<1>6. PICK w \in HistoryWindow : w.current /\ window' = [window EXCEPT ![q.s] = w]
  <2>1. merged[q.s] \in HistoryWindow BY <1>3, <1>5
  <2> HIDE DEF merged
  <2> QED BY <1>1, <2>1, StagedWindow
<1>7. RequestsTypeOK' BY <1>1, <1>3, <1>4, <1>5, <1>6 DEF RequestsInv, RequestsTypeOK
<1>8. /\ window'[q.s].current
      /\ \A s \in Series : s # q.s => window'[s] = window[s]
  BY <1>5, <1>6 DEF RequestsInv, RequestsTypeOK
<1>9. BehindIsListed'
  BY <1>1, <1>3, <1>8 DEF RequestsInv, BehindIsListed, Heard, Behind, OnTheList
<1>10. OfflineIsLate' BY <1>1, <1>3 DEF RequestsInv, OfflineIsLate, Heard
<1>11. SleepsWithReason' BY <1>1 DEF RequestsInv, SleepsWithReason
<1> QED BY <1>4, <1>7, <1>9, <1>10, <1>11 DEF RequestsInv

LEMMA CoolsKeeps ==
    ASSUME RequestsInv, NEW s \in Series, Requests!Cools(s)
    PROVE  RequestsInv'
BY DEF Requests!Cools, RequestsInv, RequestsTypeOK, BehindIsListed, Heard, Behind, OnTheList,
       OfflineIsLate, AnswersAreSound, AnswerIsSound, Requests!Waits, SleepsWithReason

LEMMA WarmupKeeps ==
    ASSUME RequestsInv, NEW s \in Series, Requests!Warmup(s)
    PROVE  RequestsInv'
<1>1. "operator" \in Requests!Callers BY DEF Requests!Callers
<1>2. /\ AnswersAreSound'
      /\ request' \in [Requests!Callers -> {Requests!NoRequest} \cup Request]
  BY <1>1, AsksKeep DEF Requests!Warmup
<1> QED BY <1>2 DEF Requests!Warmup, RequestsInv, RequestsTypeOK, BehindIsListed, Heard, Behind,
        OnTheList, OfflineIsLate, SleepsWithReason

LEMMA WarmupTakesKeeps ==
    ASSUME RequestsInv, Requests!WarmupTakes
    PROVE  RequestsInv'
<1> DEFINE q == request["operator"]
<1>1. /\ Requests!Answered("operator") /\ Requests!TakesOld("operator")
      /\ owed' = IF q.reply = "bars" THEN owed \ {q.s} ELSE owed
      /\ window' = Requests!Merged("operator")
      /\ request' = [request EXCEPT !["operator"] = Requests!NoRequest]
      /\ UNCHANGED <<vendor, watch, pending, offline, wake, loop, cooling, flushed>>
  BY DEF Requests!WarmupTakes
<1>2. "operator" \in Requests!Callers BY DEF Requests!Callers
<1>3. /\ q \in Request
      /\ window' \in [Series -> HistoryWindow]
      /\ \A s \in Series : s # q.s => window'[s] = window[s]
      /\ ~Requests!Settles("operator") => window' = window
      /\ late \subseteq late' /\ late' \in SUBSET Series
      /\ vendor = "up" /\ Requests!Settles("operator") =>
            window'[q.s].current \/ q.s \in NotServed \cup late'
  BY <1>1, <1>2, AnswerUsed
<1>4. /\ AnswersAreSound'
      /\ request' \in [Requests!Callers -> {Requests!NoRequest} \cup Request]
  BY <1>1, <1>2, TakesKeep
<1>5. RequestsTypeOK' BY <1>1, <1>3, <1>4 DEF RequestsInv, RequestsTypeOK
<1>6. BehindIsListed'
  <2> SUFFICES ASSUME Heard', NEW s \in Series, Behind(s)' PROVE OnTheList(s)'
    BY DEF BehindIsListed
  <2>1. Heard BY <1>1 DEF Heard
  <2>2. ~(s = q.s /\ Requests!Settles("operator")) BY <1>3, <2>1 DEF Behind, Heard
  <2>3. Behind(s) BY <1>1, <1>3, <2>2 DEF Behind
  <2> QED BY <1>1, <2>1, <2>2, <2>3 DEF RequestsInv, BehindIsListed, OnTheList, Requests!Settles
<1>7. OfflineIsLate' BY <1>1, <1>3 DEF RequestsInv, OfflineIsLate, Heard
<1>8. SleepsWithReason' BY <1>1 DEF RequestsInv, SleepsWithReason
<1> QED BY <1>4, <1>5, <1>6, <1>7, <1>8 DEF RequestsInv

LEMMA HistoryFlushKeeps ==
    ASSUME RequestsInv, NEW s \in Series, Requests!Flush(s)
    PROVE  RequestsInv'
BY DEF Requests!Flush, Requests!Runs, RequestsInv, RequestsTypeOK, HistoryWindow, BehindIsListed,
       Heard, Behind, OnTheList, OfflineIsLate, AnswersAreSound, AnswerIsSound, Requests!Waits,
       SleepsWithReason

-----------------------------------------------------------------------------
(* The vendor. *)

(* A step that only marks requests keeps their type. *)
LEMMA GoesDownKeeps ==
    ASSUME RequestsInv, Requests!GoesDown
    PROVE  RequestsInv'
<1>1. PICK missed \in SUBSET Series :
        window' = [s \in Series |-> [window[s] EXCEPT !.current = @ /\ s \notin missed]]
  BY DEF Requests!GoesDown
<1>2. request' = [c \in Requests!Callers |->
                    IF Requests!Answered(c) THEN [request[c] EXCEPT !.fresh = FALSE]
                    ELSE request[c]]
  BY DEF Requests!GoesDown
<1>3. vendor' = "down"
      /\ UNCHANGED <<watch, pending, owed, offline, wake, loop, cooling, late, flushed>>
  BY DEF Requests!GoesDown
<1>4. \A c \in Requests!Callers : Requests!Answered(c) => request[c] \in Request
  BY DEF Requests!Answered, Requests!Waits, RequestsInv, RequestsTypeOK
<1>5. \A r \in Request : [r EXCEPT !.fresh = FALSE] \in Request BY DEF Request
<1>6. request' \in [Requests!Callers -> {Requests!NoRequest} \cup Request]
  BY <1>2, <1>4, <1>5 DEF RequestsInv, RequestsTypeOK
<1>7. window' \in [Series -> HistoryWindow]
  BY <1>1 DEF RequestsInv, RequestsTypeOK, HistoryWindow
<1>8. RequestsTypeOK' BY <1>3, <1>6, <1>7 DEF RequestsInv, RequestsTypeOK
<1>9. AnswersAreSound'
  <2> SUFFICES ASSUME NEW c \in Requests!Callers PROVE AnswerIsSound(c)'
    BY DEF AnswersAreSound
  <2>1. CASE Requests!Answered(c)
    <3>1. request[c] \in Request /\ request'[c] = [request[c] EXCEPT !.fresh = FALSE]
      BY <1>2, <1>4, <2>1
    <3>2. request'[c].reply = request[c].reply /\ request'[c].s = request[c].s
      BY <3>1 DEF Request
    <3> QED BY <1>3, <2>1, <3>2 DEF RequestsInv, AnswersAreSound, AnswerIsSound, Requests!Answered
  <2>2. CASE ~Requests!Answered(c)
    <3>1. request'[c] = request[c] BY <1>2, <2>2
    <3> QED BY <1>3, <3>1 DEF RequestsInv, AnswersAreSound, AnswerIsSound, Requests!Waits
  <2> QED BY <2>1, <2>2
<1> QED BY <1>3, <1>8, <1>9 DEF RequestsInv, BehindIsListed, Heard, OfflineIsLate, SleepsWithReason

LEMMA ComesUpKeeps ==
    ASSUME RequestsInv, Requests!ComesUp
    PROVE  RequestsInv'
<1>1. request' = [c \in Requests!Callers |->
                    IF Requests!Answered(c) THEN [request[c] EXCEPT !.old = TRUE]
                    ELSE request[c]]
  BY DEF Requests!ComesUp
<1>2. vendor' = "up" /\ (watch = "listening" => pending' = pending + 1)
      /\ pending' \in Nat
      /\ UNCHANGED <<watch, window, owed, offline, wake, loop, cooling, late, flushed>>
  BY DEF Requests!ComesUp, RequestsInv, RequestsTypeOK
<1>3. \A c \in Requests!Callers : Requests!Answered(c) => request[c] \in Request
  BY DEF Requests!Answered, Requests!Waits, RequestsInv, RequestsTypeOK
<1>4. \A r \in Request : [r EXCEPT !.old = TRUE] \in Request BY DEF Request
<1>5. request' \in [Requests!Callers -> {Requests!NoRequest} \cup Request]
  BY <1>1, <1>3, <1>4 DEF RequestsInv, RequestsTypeOK
<1>6. RequestsTypeOK' BY <1>2, <1>5 DEF RequestsInv, RequestsTypeOK
<1>7. AnswersAreSound'
  <2> SUFFICES ASSUME NEW c \in Requests!Callers PROVE AnswerIsSound(c)'
    BY DEF AnswersAreSound
  <2>1. CASE Requests!Answered(c)
    <3>1. request[c] \in Request /\ request'[c] = [request[c] EXCEPT !.old = TRUE]
      BY <1>1, <1>3, <2>1
    <3>2. request'[c].reply = request[c].reply /\ request'[c].s = request[c].s
          /\ request'[c].old
      BY <3>1 DEF Request
    <3> QED BY <2>1, <3>2 DEF RequestsInv, AnswersAreSound, AnswerIsSound, Requests!Answered
  <2>2. CASE ~Requests!Answered(c)
    <3>1. request'[c] = request[c] BY <1>1, <2>2
    <3> QED BY <2>2, <3>1 DEF RequestsInv, AnswersAreSound, AnswerIsSound, Requests!Answered,
            Requests!Waits
  <2> QED BY <2>1, <2>2
<1>8. ~Heard' BY <1>2 DEF Heard, RequestsInv, RequestsTypeOK
<1> QED BY <1>2, <1>6, <1>7, <1>8 DEF RequestsInv, BehindIsListed, OfflineIsLate, SleepsWithReason

LEMMA WatchKeeps ==
    ASSUME RequestsInv, Requests!WatchDrops \/ Requests!WatchReturns
    PROVE  RequestsInv'
<1>1. ~Heard'
  BY DEF Requests!WatchDrops, Requests!WatchReturns, Heard, RequestsInv, RequestsTypeOK
<1> QED BY <1>1 DEF Requests!WatchDrops, Requests!WatchReturns, RequestsInv, RequestsTypeOK,
        BehindIsListed, OfflineIsLate, AnswersAreSound, AnswerIsSound, Requests!Waits,
        SleepsWithReason

LEMMA VendorOnlineKeeps ==
    ASSUME RequestsInv, Requests!VendorOnline
    PROVE  RequestsInv'
<1>1. RequestsTypeOK'
  <2>1. pending' \in Nat BY DEF Requests!VendorOnline, RequestsInv, RequestsTypeOK
  <2>2. /\ offline' = FALSE /\ owed' = Series /\ wake' = TRUE /\ late' = {} /\ flushed' = {}
        /\ UNCHANGED <<vendor, watch, window, loop, request, cooling>>
    BY DEF Requests!VendorOnline, Requests!Queued
  <2> QED BY <2>1, <2>2 DEF RequestsInv, RequestsTypeOK
<1>2. offline' = FALSE /\ owed' = Series /\ wake' = TRUE /\ UNCHANGED <<vendor, request>>
  BY DEF Requests!VendorOnline, Requests!Queued
<1>3. AnswersAreSound'
  BY <1>2 DEF RequestsInv, AnswersAreSound, AnswerIsSound, Requests!Waits
<1> QED BY <1>1, <1>2, <1>3 DEF RequestsInv, BehindIsListed, OnTheList, OfflineIsLate,
        SleepsWithReason

-----------------------------------------------------------------------------
LEMMA RequestsStep == RequestsInv /\ [Requests!Next]_(Requests!historyVars) => RequestsInv'
<1> SUFFICES ASSUME RequestsInv, [Requests!Next]_(Requests!historyVars) PROVE RequestsInv'
  OBVIOUS
<1>1. CASE UNCHANGED Requests!historyVars
  BY <1>1 DEF Requests!historyVars, RequestsInv, RequestsTypeOK, BehindIsListed, Heard, Behind,
              OnTheList, OfflineIsLate, AnswersAreSound, AnswerIsSound, Requests!Waits,
              SleepsWithReason
<1>2. CASE \E s \in Series :
              \/ Requests!BootAsks(s) \/ Requests!PassAsks(s) \/ Requests!LiveBar(s)
              \/ Requests!Cools(s) \/ Requests!Warmup(s) \/ Requests!Flush(s)
  BY <1>2, BootAsksKeeps, PassAsksKeeps, LiveBarKeeps, CoolsKeeps, WarmupKeeps, HistoryFlushKeeps
<1>3. CASE \E c \in Requests!Callers : Requests!Reply(c) \/ Requests!TimesOut(c)
  BY <1>3, ReplyKeeps, TimesOutKeeps
<1> QED BY <1>1, <1>2, <1>3, BootTakesKeeps, LoopStartsKeeps, LoopTopKeeps, PassesKeeps,
        PassTakesKeeps, PassDoneKeeps, BarTakesKeeps, WarmupTakesKeeps, GoesDownKeeps, ComesUpKeeps,
        WatchKeeps, VendorOnlineKeeps DEF Requests!Next

(* At rest the history is caught up: when nothing is under way and nothing will wake the  *)
(* loop, every series that is served is as new as the vendor's, whatever outages, losses  *)
(* and answers came before, unless an old answer was used or it was flushed (service.py   *)
(* _history_loop, _handle_vendor_online).                                                 *)
THEOREM HistoryRestsCaughtUp == Requests!Spec => []Requests!RestsCaughtUp
<1>1. RequestsInv => Requests!RestsCaughtUp
  <2> SUFFICES ASSUME RequestsInv, Requests!Quiet, vendor = "up", watch = "listening",
                      NEW s \in Series \ (NotServed \cup late \cup flushed)
               PROVE  window[s].current
    BY DEF Requests!RestsCaughtUp
  <2>1. Heard BY DEF Heard, Requests!Quiet
  <2>2. ~offline BY <2>1 DEF RequestsInv, OfflineIsLate
  <2>3. loop.at = "idle" /\ owed \subseteq flushed
    BY <2>2 DEF Requests!Quiet, RequestsInv, SleepsWithReason
  <2>4. ~OnTheList(s) BY <2>3 DEF OnTheList
  <2> QED BY <2>1, <2>4 DEF RequestsInv, BehindIsListed, Behind
<1> QED BY <1>1, RequestsStart, RequestsStep, PTL DEF Requests!Spec

-----------------------------------------------------------------------------
(* The ingester's stream, for any messages and any number of breaks and    *)
(* stops (mt5/feed.py): no bar is lost on its way in, and without a break  *)
(* they are handed over in their order.  A message is held before it is    *)
(* acknowledged and the batch in hand is still the stream's, so that every *)
(* message is on one side at least; while nothing broke, the places a      *)
(* message passes through are in order, the oldest ahead.                  *)
Numbers == 1..published
StreamTypeOK ==
    /\ published \in Nat
    /\ unacked \in SUBSET Numbers /\ inFlight \in SUBSET Numbers
    /\ receiver \in [step : {"down", "opening", "pulling", "listening", "batch"}, batch : Seq(Numbers)]
    /\ inbox \in Seq(Numbers)
    /\ handling \in {0} \cup Numbers
    /\ handed \in Seq(Numbers)
    /\ refused \in SUBSET Numbers /\ spilled \in SUBSET Numbers /\ unheard \in SUBSET Numbers
    /\ breaks \in Nat /\ stops \in Nat

Rising(s) == \A i, j \in 1..Len(s) : i < j => s[i] < s[j]
Before(early, after) == \A m \in early, n \in after : m < n
Batch == Stream!Elements(receiver.batch)
Waiting == Stream!Elements(inbox)
AtWork == {handling} \ {0}

\* What is in the hand of the receiver has yet to be acknowledged.
BatchIsOwed ==
    /\ receiver.step = "batch" <=> receiver.batch # <<>>
    /\ Rising(receiver.batch)
    /\ Batch \subseteq inFlight

\* While nothing broke the messages pass from place to place in their order.
InSingleFile ==
    breaks = 0 /\ stops = 0 =>
        /\ Rising(handed) /\ Rising(inbox)
        /\ inFlight = Batch
        /\ Before(Stream!Elements(handed), AtWork \cup Waiting \cup Batch \cup unacked)
        /\ Before(AtWork, Waiting \cup Batch \cup unacked)
        /\ Before(Waiting, Batch \cup unacked)
        /\ Before(Batch, unacked)

\* Core NATS keeps nothing.
CoreOwesNothing == ~JetStream => unacked = {} /\ inFlight = {}

StreamInv ==
    /\ StreamTypeOK
    /\ BatchIsOwed /\ CoreOwesNothing /\ InSingleFile /\ Stream!EveryBarIsSomewhere

-----------------------------------------------------------------------------
(* Sequences of messages. *)

LEMMA MoreElements ==
    ASSUME NEW S, NEW s \in Seq(S), NEW x
    PROVE  /\ Stream!Elements(Append(s, x)) = Stream!Elements(s) \cup {x}
           /\ x \in S => Append(s, x) \in Seq(S)
<1>1. Len(Append(s, x)) = Len(s) + 1 /\ Len(s) \in Nat
  OBVIOUS
<1>2. \A i \in 1..Len(s) : Append(s, x)[i] = s[i]
  OBVIOUS
<1>3. Append(s, x)[Len(s) + 1] = x
  OBVIOUS
<1>4. Stream!Elements(Append(s, x)) \subseteq Stream!Elements(s) \cup {x}
  <2> SUFFICES ASSUME NEW i \in 1..(Len(s) + 1)
               PROVE  Append(s, x)[i] \in Stream!Elements(s) \cup {x}
    BY <1>1 DEF Stream!Elements
  <2>1. CASE i = Len(s) + 1 BY <1>3, <2>1
  <2>2. CASE i \in 1..Len(s) BY <1>2, <2>2 DEF Stream!Elements
  <2> QED BY <1>1, <2>1, <2>2
<1>5. Stream!Elements(s) \cup {x} \subseteq Stream!Elements(Append(s, x))
  <2>1. ASSUME NEW i \in 1..Len(s) PROVE s[i] \in Stream!Elements(Append(s, x))
    <3>1. i \in 1..Len(Append(s, x)) BY <1>1
    <3> QED BY <1>2, <3>1 DEF Stream!Elements
  <2>2. x \in Stream!Elements(Append(s, x))
    <3>1. Len(s) + 1 \in 1..Len(Append(s, x)) BY <1>1
    <3> QED BY <1>3, <3>1 DEF Stream!Elements
  <2> QED BY <2>1, <2>2 DEF Stream!Elements
<1> QED BY <1>4, <1>5

LEMMA FewerElements ==
    ASSUME NEW S, NEW s \in Seq(S), s # <<>>
    PROVE  /\ Head(s) \in S /\ Tail(s) \in Seq(S)
           /\ Stream!Elements(s) = {Head(s)} \cup Stream!Elements(Tail(s))
<1>1. Len(s) \in Nat \ {0} /\ Len(Tail(s)) = Len(s) - 1 /\ Head(s) = s[1] /\ Tail(s) \in Seq(S)
  OBVIOUS
<1>2. \A i \in 1..(Len(s) - 1) : Tail(s)[i] = s[i + 1]
  OBVIOUS
<1>3. Stream!Elements(s) \subseteq {Head(s)} \cup Stream!Elements(Tail(s))
  <2> SUFFICES ASSUME NEW i \in 1..Len(s), i # 1 PROVE s[i] \in Stream!Elements(Tail(s))
    BY <1>1 DEF Stream!Elements
  <2>1. i - 1 \in 1..Len(Tail(s)) /\ Tail(s)[i - 1] = s[i]
    <3>1. i - 1 \in 1..(Len(s) - 1) BY <1>1
    <3>2. Tail(s)[i - 1] = s[(i - 1) + 1] BY <1>2, <3>1
    <3>3. (i - 1) + 1 = i OBVIOUS
    <3> QED BY <1>1, <3>1, <3>2, <3>3
  <2> QED BY <2>1 DEF Stream!Elements
<1>4. Stream!Elements(Tail(s)) \subseteq Stream!Elements(s)
  <2> SUFFICES ASSUME NEW i \in 1..Len(Tail(s)) PROVE Tail(s)[i] \in Stream!Elements(s)
    BY DEF Stream!Elements
  <2>1. i + 1 \in 1..Len(s) /\ Tail(s)[i] = s[i + 1] BY <1>1, <1>2
  <2> QED BY <2>1 DEF Stream!Elements
<1>5. Head(s) \in Stream!Elements(s)
  <2>1. 1 \in 1..Len(s) BY <1>1
  <2> QED BY <1>1, <2>1 DEF Stream!Elements
<1> QED BY <1>1, <1>3, <1>4, <1>5

LEMMA ElementsAreTyped ==
    ASSUME NEW S, NEW s \in Seq(S)
    PROVE  Stream!Elements(s) \subseteq S
BY DEF Stream!Elements

LEMMA StillRising ==
    ASSUME NEW s \in Seq(Nat), NEW x \in Nat, Rising(s), \A y \in Stream!Elements(s) : y < x
    PROVE  Rising(Append(s, x))
<1> SUFFICES ASSUME NEW i \in 1..(Len(s) + 1), NEW j \in 1..(Len(s) + 1), i < j
             PROVE  Append(s, x)[i] < Append(s, x)[j]
  BY DEF Rising
<1>1. i \in 1..Len(s) /\ Append(s, x)[i] = s[i]
  OBVIOUS
<1>2. CASE j = Len(s) + 1
  <2>1. Append(s, x)[j] = x BY <1>2
  <2>2. s[i] \in Stream!Elements(s) BY <1>1 DEF Stream!Elements
  <2> QED BY <1>1, <2>1, <2>2
<1>3. CASE j \in 1..Len(s)
  <2>1. Append(s, x)[j] = s[j] BY <1>3
  <2> QED BY <1>1, <1>3, <2>1 DEF Rising
<1> QED BY <1>2, <1>3

LEMMA RestRises ==
    ASSUME NEW s \in Seq(Nat), s # <<>>, Rising(s)
    PROVE  /\ Rising(Tail(s))
           /\ \A y \in Stream!Elements(Tail(s)) : Head(s) < y
<1>1. Len(s) \in Nat \ {0} /\ Len(Tail(s)) = Len(s) - 1 /\ Head(s) = s[1]
  OBVIOUS
<1>2. \A i \in 1..Len(Tail(s)) : Tail(s)[i] = s[i + 1] /\ i + 1 \in 1..Len(s) /\ 1 < i + 1
  BY <1>1
<1>3. Rising(Tail(s))
  <2> SUFFICES ASSUME NEW i \in 1..Len(Tail(s)), NEW j \in 1..Len(Tail(s)), i < j
               PROVE  Tail(s)[i] < Tail(s)[j]
    BY DEF Rising
  <2>1. i + 1 < j + 1 BY <1>1
  <2> QED BY <1>2, <2>1 DEF Rising
<1>4. 1 \in 1..Len(s) BY <1>1
<1> QED BY <1>1, <1>2, <1>3, <1>4 DEF Rising, Stream!Elements

(* A larger count of messages keeps what is typed. *)
LEMMA NumbersGrow ==
    ASSUME published \in Nat, published' = published + 1
    PROVE  /\ Numbers \subseteq Numbers' /\ Numbers' = Numbers \cup {published'}
           /\ published' \notin Numbers /\ \A n \in Numbers : n < published'
           /\ Seq(Numbers) \subseteq Seq(Numbers')
<1>1. Numbers \subseteq Numbers' /\ Numbers' = Numbers \cup {published'} BY DEF Numbers
<1>2. published' \notin Numbers /\ \A n \in Numbers : n < published' BY DEF Numbers
<1>3. Seq(Numbers) \subseteq Seq(Numbers') BY <1>1
<1> QED BY <1>1, <1>2, <1>3

LEMMA NumbersAreNaturals == ASSUME published \in Nat PROVE Numbers \subseteq Nat /\ Seq(Numbers) \subseteq Seq(Nat)
<1>1. Numbers \subseteq Nat BY DEF Numbers
<1>2. ASSUME NEW s \in Seq(Numbers) PROVE s \in Seq(Nat)
  <2>1. s \in [1..Len(s) -> Numbers] /\ Len(s) \in Nat OBVIOUS
  <2>2. s \in [1..Len(s) -> Nat] BY <1>1, <2>1
  <2> QED BY <2>1, <2>2
<1> QED BY <1>1, <1>2

-----------------------------------------------------------------------------
LEMMA StreamStart == Stream!Init => StreamInv
<1> SUFFICES ASSUME Stream!Init PROVE StreamInv
  OBVIOUS
<1>1. receiver = [step |-> "opening", batch |-> <<>>] BY DEF Stream!Init, Stream!Opening
<1>2. StreamTypeOK BY <1>1 DEF Stream!Init, StreamTypeOK, Numbers
<1>3. Stream!Elements(<<>>) = {} BY DEF Stream!Elements
<1>4. Rising(<<>>) BY DEF Rising
<1>5. BatchIsOwed BY <1>1, <1>3, <1>4 DEF BatchIsOwed, Batch
<1>6. InSingleFile BY <1>1, <1>3, <1>4 DEF Stream!Init, InSingleFile, Before, Batch, Waiting, AtWork
<1>7. Stream!EveryBarIsSomewhere
  <2>1. 1..published = {} BY DEF Stream!Init
  <2>2. Stream!InMemory = {} BY <1>3 DEF Stream!Init, Stream!InMemory
  <2> QED BY <1>3, <2>1, <2>2 DEF Stream!Init, Stream!EveryBarIsSomewhere
<1> QED BY <1>2, <1>5, <1>6, <1>7 DEF StreamInv, CoreOwesNothing, Stream!Init

(* A step that leaves the messages where they are keeps all but the state of the link. *)
LEMMA LinkKeeps ==
    ASSUME StreamInv, UNCHANGED <<published, unacked, inFlight, inbox, handling, handed, refused,
                                  spilled, unheard, stops>>,
           receiver' \in [step : {"opening", "pulling", "listening"}, batch : {<<>>}],
           \/ breaks' = breaks /\ receiver.step # "batch"
           \/ breaks' = breaks + 1
    PROVE  StreamInv'
<1>1. receiver'.step # "batch" /\ receiver'.batch = <<>> /\ breaks' \in Nat
  BY DEF StreamInv, StreamTypeOK
<1>2. receiver' \in [step : {"down", "opening", "pulling", "listening", "batch"}, batch : Seq(Numbers)]
  <2>1. <<>> \in Seq(Numbers) OBVIOUS
  <2> QED BY <2>1
<1>3. StreamTypeOK' BY <1>1, <1>2 DEF StreamInv, StreamTypeOK, Numbers
<1>4. Stream!Elements(<<>>) = {} /\ Rising(<<>>) BY DEF Stream!Elements, Rising
<1>5. BatchIsOwed' BY <1>1, <1>4 DEF BatchIsOwed, Batch
<1>6. Batch' = {} BY <1>1, <1>4 DEF Batch
<1>7. InSingleFile'
  <2> SUFFICES ASSUME breaks' = 0, stops' = 0 PROVE InSingleFile' BY DEF InSingleFile
  <2>1. breaks = 0 /\ stops = 0 /\ receiver.step # "batch" BY DEF StreamInv, StreamTypeOK
  <2>2. Batch = {} BY <2>1, <1>4 DEF StreamInv, BatchIsOwed, Batch
  <2> QED BY <1>6, <2>1, <2>2 DEF StreamInv, InSingleFile, AtWork, Waiting, Before
<1>8. Stream!EveryBarIsSomewhere'
  BY DEF StreamInv, Stream!EveryBarIsSomewhere, Stream!InMemory, Stream!Elements
<1> QED BY <1>3, <1>5, <1>7, <1>8 DEF StreamInv, CoreOwesNothing

LEMMA ConnectKeeps ==
    ASSUME StreamInv, Stream!Connect
    PROVE  StreamInv'
<1>1. receiver' \in [step : {"opening", "pulling", "listening"}, batch : {<<>>}]
      /\ receiver.step # "batch"
  BY DEF Stream!Connect, Stream!Pulling, StreamInv, BatchIsOwed, StreamTypeOK
<1>2. breaks' = breaks \/ breaks' = breaks + 1 BY DEF Stream!Connect, Stream!Break
<1> QED BY <1>1, <1>2, LinkKeeps DEF Stream!Connect

LEMMA LinkDropsKeeps ==
    ASSUME StreamInv, Stream!LinkDrops
    PROVE  StreamInv'
<1>1. receiver' \in [step : {"opening", "pulling", "listening"}, batch : {<<>>}]
      /\ breaks' = breaks + 1
  BY DEF Stream!LinkDrops, Stream!Opening, Stream!Break
<1> QED BY <1>1, LinkKeeps DEF Stream!LinkDrops

LEMMA StreamStartKeeps ==
    ASSUME StreamInv, Stream!Start
    PROVE  StreamInv'
<1>1. receiver' \in [step : {"opening", "pulling", "listening"}, batch : {<<>>}]
      /\ receiver.step # "batch"
  BY DEF Stream!Start, Stream!Opening, Stream!Down
<1> QED BY <1>1, LinkKeeps DEF Stream!Start

LEMMA PublishKeeps ==
    ASSUME StreamInv, Stream!Publish
    PROVE  StreamInv'
<1> DEFINE new == published + 1
<1>1. published' = new /\ UNCHANGED <<inFlight, receiver, handling, handed, refused, spilled, breaks, stops>>
  BY DEF Stream!Publish
<1>2. /\ Numbers \subseteq Numbers' /\ Numbers' = Numbers \cup {new}
      /\ new \notin Numbers /\ \A n \in Numbers : n < new
      /\ Seq(Numbers) \subseteq Seq(Numbers')
  BY <1>1, NumbersGrow DEF StreamInv, StreamTypeOK
<1>3. new \in Nat /\ new \in Numbers' /\ Numbers \subseteq Nat /\ Seq(Numbers) \subseteq Seq(Nat)
  BY <1>2, NumbersAreNaturals DEF StreamInv, StreamTypeOK
<1>4. /\ unacked \subseteq Numbers /\ inFlight \subseteq Numbers /\ Batch \subseteq Numbers
      /\ Waiting \subseteq Numbers /\ AtWork \subseteq Numbers
      /\ Stream!Elements(handed) \subseteq Numbers
  <2>1. receiver.batch \in Seq(Numbers) BY DEF StreamInv, StreamTypeOK
  <2> QED BY <2>1, ElementsAreTyped DEF StreamInv, StreamTypeOK, Batch, Waiting, AtWork
<1>5. \/ unacked' = unacked \cup {new} /\ inbox' = inbox /\ unheard' = unheard
      \/ unacked' = unacked /\ inbox' = Append(inbox, new) /\ unheard' = unheard
         /\ receiver.step = "listening" /\ ~JetStream
      \/ unacked' = unacked /\ inbox' = inbox /\ unheard' = unheard \cup {new} /\ ~JetStream
  BY <1>1 DEF Stream!Publish
<1>6. Waiting' = Waiting \/ (Waiting' = Waiting \cup {new} /\ unacked' = unacked
                            /\ receiver.step = "listening" /\ ~JetStream)
  <2>1. Stream!Elements(Append(inbox, new)) = Stream!Elements(inbox) \cup {new}
    BY MoreElements DEF StreamInv, StreamTypeOK
  <2> HIDE DEF new
  <2> QED BY <1>5, <2>1 DEF Waiting
<1>7. StreamTypeOK'
  <2>1. inbox' \in Seq(Numbers')
    <3>1. inbox \in Seq(Numbers') BY <1>2 DEF StreamInv, StreamTypeOK
    <3>2. Append(inbox, new) \in Seq(Numbers') BY <1>3, <3>1
    <3> QED BY <1>5, <3>1, <3>2
  <2>2. receiver' \in [step : {"down", "opening", "pulling", "listening", "batch"}, batch : Seq(Numbers')]
    BY <1>1, <1>2 DEF StreamInv, StreamTypeOK
  <2>3. unacked' \in SUBSET Numbers' /\ unheard' \in SUBSET Numbers'
    BY <1>2, <1>3, <1>5 DEF StreamInv, StreamTypeOK
  <2> HIDE DEF new
  <2> QED BY <1>1, <1>2, <1>3, <2>1, <2>2, <2>3 DEF StreamInv, StreamTypeOK
<1>8. BatchIsOwed' BY <1>1 DEF StreamInv, BatchIsOwed, Batch
<1>9. InSingleFile'
  <2> SUFFICES ASSUME breaks = 0, stops = 0 PROVE InSingleFile' BY <1>1 DEF InSingleFile
  <2>1. Batch' = Batch /\ AtWork' = AtWork BY <1>1 DEF Batch, AtWork
  <2>2. Rising(inbox)'
    <3>1. CASE inbox' = inbox BY <3>1 DEF StreamInv, InSingleFile
    <3>2. CASE inbox' = Append(inbox, new)
      <4>1. inbox \in Seq(Nat) BY <1>3 DEF StreamInv, StreamTypeOK
      <4>2. Rising(inbox) /\ \A y \in Stream!Elements(inbox) : y < new
        BY <1>2, <1>4 DEF StreamInv, InSingleFile, Waiting
      <4> HIDE DEF new
      <4> QED BY <1>3, <3>2, <4>1, <4>2, StillRising
    <3> QED BY <1>5, <3>1, <3>2
  <2>3. Before(Waiting', Batch' \cup unacked')
    <3>1. CASE Waiting' = Waiting
      BY <1>2, <1>4, <1>5, <2>1, <3>1 DEF StreamInv, InSingleFile, Before
    <3>2. CASE Waiting' = Waiting \cup {new} /\ unacked' = unacked
               /\ receiver.step = "listening" /\ ~JetStream
      <4>1. Batch = {} BY <3>2 DEF StreamInv, BatchIsOwed, Batch, Stream!Elements
      <4>2. unacked = {} BY <3>2 DEF StreamInv, CoreOwesNothing
      <4> QED BY <2>1, <3>2, <4>1, <4>2 DEF Before
    <3> QED BY <1>6, <3>1, <3>2
  <2>4. Before(Stream!Elements(handed), AtWork \cup Waiting' \cup Batch \cup unacked')
    BY <1>2, <1>4, <1>5, <1>6 DEF StreamInv, InSingleFile, Before
  <2>5. Before(AtWork, Waiting' \cup Batch \cup unacked')
    BY <1>2, <1>4, <1>5, <1>6 DEF StreamInv, InSingleFile, Before
  <2>6. Before(Batch, unacked')
    BY <1>2, <1>4, <1>5 DEF StreamInv, InSingleFile, Before
  <2> QED BY <1>1, <2>1, <2>2, <2>3, <2>4, <2>5, <2>6 DEF StreamInv, InSingleFile
<1>10. CoreOwesNothing'
  BY <1>1, <1>5 DEF StreamInv, CoreOwesNothing, Stream!Publish
<1>11. Stream!EveryBarIsSomewhere'
  <2>1. Stream!InMemory' = Waiting' \cup AtWork /\ Stream!InMemory = Waiting \cup AtWork
    BY <1>1 DEF Stream!InMemory, Waiting, AtWork
  <2>2. Numbers = unacked \cup inFlight \cup (Waiting \cup AtWork) \cup Stream!Elements(handed)
                  \cup refused \cup spilled \cup unheard
    BY <2>1 DEF StreamInv, Stream!EveryBarIsSomewhere, Numbers
  <2>3. Numbers' = unacked' \cup inFlight' \cup (Waiting' \cup AtWork) \cup Stream!Elements(handed)
                   \cup refused \cup spilled \cup unheard'
    <3>1. Waiting' = IF inbox' = inbox THEN Waiting ELSE Waiting \cup {new}
      BY <1>5, MoreElements DEF StreamInv, StreamTypeOK, Waiting
    <3>2. inbox # Append(inbox, new)
      BY DEF StreamInv, StreamTypeOK
    <3> HIDE DEF new
    <3> QED BY <1>1, <1>2, <1>5, <2>2, <3>1, <3>2
  <2>4. JetStream => unheard' = {} BY <1>5 DEF StreamInv, Stream!EveryBarIsSomewhere
  <2> QED BY <1>1, <2>1, <2>3, <2>4 DEF StreamInv, Stream!EveryBarIsSomewhere, Numbers
<1> QED BY <1>7, <1>8, <1>9, <1>10, <1>11 DEF StreamInv

LEMMA RedeliverKeeps ==
    ASSUME StreamInv, Stream!Redeliver
    PROVE  StreamInv'
<1>1. PICK n \in inFlight \ Batch :
        inFlight' = inFlight \ {n} /\ unacked' = unacked \cup {n}
  BY DEF Stream!Redeliver, Batch
<1>2. UNCHANGED <<published, receiver, inbox, handling, handed, refused, spilled, unheard, breaks, stops>>
  BY DEF Stream!Redeliver
<1>3. StreamTypeOK' BY <1>1, <1>2 DEF StreamInv, StreamTypeOK, Numbers
<1>4. BatchIsOwed' BY <1>1, <1>2 DEF StreamInv, BatchIsOwed, Batch
<1>5. CoreOwesNothing' BY <1>1 DEF StreamInv, CoreOwesNothing
<1>6. InSingleFile' BY <1>1, <1>2 DEF StreamInv, InSingleFile
<1>7. Stream!EveryBarIsSomewhere'
  <2>1. Stream!InMemory' = Stream!InMemory /\ Stream!Elements(handed)' = Stream!Elements(handed)
    BY <1>2 DEF Stream!InMemory, Stream!Elements
  <2>2. unacked' \cup inFlight' = unacked \cup inFlight BY <1>1
  <2> QED BY <1>2, <2>1, <2>2 DEF StreamInv, Stream!EveryBarIsSomewhere
<1> QED BY <1>3, <1>4, <1>5, <1>6, <1>7 DEF StreamInv

LEMMA FetchKeeps ==
    ASSUME StreamInv, Stream!Fetch
    PROVE  StreamInv'
<1>0. PICK k \in 1..Stream!SmallerOf(FetchBatch, Stream!Room) : \E batch \in [1..k -> unacked] :
        /\ Stream!IsOldest(batch)
        /\ receiver' = [step |-> "batch", batch |-> batch]
        /\ unacked' = unacked \ Stream!Elements(batch)
        /\ inFlight' = inFlight \cup Stream!Elements(batch)
  BY DEF Stream!Fetch
<1>1. PICK batch \in [1..k -> unacked] :
        /\ Stream!IsOldest(batch)
        /\ receiver' = [step |-> "batch", batch |-> batch]
        /\ unacked' = unacked \ Stream!Elements(batch)
        /\ inFlight' = inFlight \cup Stream!Elements(batch)
  BY <1>0
<1>2. /\ receiver.step = "pulling"
      /\ UNCHANGED <<published, inbox, handling, handed, refused, spilled, unheard, breaks, stops>>
  BY DEF Stream!Fetch
<1>3. k \in Nat \ {0}
  OBVIOUS
<1>4. batch \in Seq(unacked) /\ Len(batch) = k /\ batch # <<>> BY <1>3
<1>5. unacked \subseteq Numbers BY DEF StreamInv, StreamTypeOK
<1>6. batch \in Seq(Numbers) /\ Stream!Elements(batch) \subseteq unacked
  BY <1>4, <1>5, ElementsAreTyped
<1>7. Rising(batch) /\ Before(Stream!Elements(batch), unacked \ Stream!Elements(batch))
  BY <1>1 DEF Stream!IsOldest, Rising, Before
<1>8. receiver'.step = "batch" /\ receiver'.batch = batch /\ Batch' = Stream!Elements(batch)
  BY <1>1 DEF Batch, Stream!Elements
<1>9. StreamTypeOK' BY <1>1, <1>2, <1>5, <1>6 DEF StreamInv, StreamTypeOK, Numbers
<1>10. BatchIsOwed' BY <1>1, <1>4, <1>7, <1>8 DEF BatchIsOwed
<1>11. CoreOwesNothing'
  <2>1. unacked # {} BY <1>3
  <2> QED BY <2>1 DEF StreamInv, CoreOwesNothing
<1>12. InSingleFile'
  <2> SUFFICES ASSUME breaks = 0, stops = 0 PROVE InSingleFile' BY <1>2 DEF InSingleFile
  <2>1. Batch = {} BY <1>2 DEF StreamInv, BatchIsOwed, Batch, Stream!Elements
  <2>2. Batch' \cup unacked' = unacked BY <1>1, <1>6, <1>8
  <2>3. inFlight' = Batch' BY <1>1, <1>8, <2>1 DEF StreamInv, InSingleFile
  <2>4. AtWork' = AtWork /\ Waiting' = Waiting BY <1>2 DEF AtWork, Waiting
  <2>5. Before(Batch', unacked') BY <1>1, <1>7, <1>8
  <2>6. /\ Before(Stream!Elements(handed), AtWork \cup Waiting \cup unacked)
        /\ Before(AtWork, Waiting \cup unacked) /\ Before(Waiting, unacked)
    BY <2>1 DEF StreamInv, InSingleFile
  <2>7. /\ Before(Stream!Elements(handed), AtWork \cup Waiting \cup Batch' \cup unacked')
        /\ Before(AtWork, Waiting \cup Batch' \cup unacked')
        /\ Before(Waiting, Batch' \cup unacked')
    BY <2>2, <2>6 DEF Before
  <2> QED BY <1>2, <2>3, <2>4, <2>5, <2>7 DEF StreamInv, InSingleFile
<1>13. Stream!EveryBarIsSomewhere'
  <2>1. Stream!InMemory' = Stream!InMemory /\ Stream!Elements(handed)' = Stream!Elements(handed)
    BY <1>2 DEF Stream!InMemory, Stream!Elements
  <2>2. unacked' \cup inFlight' = unacked \cup inFlight BY <1>1, <1>6
  <2> QED BY <1>2, <2>1, <2>2 DEF StreamInv, Stream!EveryBarIsSomewhere
<1> QED BY <1>9, <1>10, <1>11, <1>12, <1>13 DEF StreamInv

LEMMA HoldAndAckKeeps ==
    ASSUME StreamInv, Stream!HoldAndAck
    PROVE  StreamInv'
<1> DEFINE m == Head(receiver.batch)
           rest == Tail(receiver.batch)
<1>1. receiver.batch \in Seq(Numbers) /\ receiver.batch # <<>> /\ Rising(receiver.batch)
  BY DEF Stream!HoldAndAck, StreamInv, StreamTypeOK, BatchIsOwed
<1>2. Numbers \subseteq Nat /\ Seq(Numbers) \subseteq Seq(Nat)
  BY NumbersAreNaturals DEF StreamInv, StreamTypeOK
<1>3. /\ m \in Numbers /\ rest \in Seq(Numbers)
      /\ Batch = {m} \cup Stream!Elements(rest)
  BY <1>1, FewerElements DEF Batch
<1>4. Rising(rest) /\ \A y \in Stream!Elements(rest) : m < y
  BY <1>1, <1>2, RestRises
<1>5. Stream!Elements(rest) \subseteq Numbers /\ m \notin Stream!Elements(rest)
  <2>1. Stream!Elements(rest) \subseteq Numbers BY <1>3, ElementsAreTyped
  <2>2. m \in Nat BY <1>2, <1>3
  <2> HIDE DEF m, rest
  <2> QED BY <1>4, <2>1, <2>2
<1>6. /\ inbox' = Append(inbox, m)
      /\ UNCHANGED <<published, unacked, handling, handed, refused, spilled, unheard, stops>>
  BY DEF Stream!HoldAndAck, Stream!Taking
<1>7. Waiting' = Waiting \cup {m} /\ inbox' \in Seq(Numbers)
  <2>1. inbox \in Seq(Numbers) BY DEF StreamInv, StreamTypeOK
  <2> HIDE DEF m
  <2> QED BY <1>3, <1>6, <2>1, MoreElements DEF Waiting
<1>8. m \in inFlight /\ Stream!Elements(rest) \subseteq inFlight
  BY <1>3 DEF StreamInv, BatchIsOwed
<1>9. /\ inFlight' \in {inFlight, inFlight \ {m}}
      /\ \/ /\ breaks' = breaks /\ inFlight' = inFlight \ {m}
            /\ receiver' = Stream!AfterBatch
         \/ breaks' = breaks + 1 /\ receiver' = Stream!Opening
  BY DEF Stream!HoldAndAck, Stream!Taking, Stream!Break
<1>10. Stream!AfterBatch = IF rest = <<>> THEN Stream!Pulling
                           ELSE [step |-> "batch", batch |-> rest]
  <2>1. Len(receiver.batch) = 1 <=> rest = <<>>
    <3>1. Len(rest) = Len(receiver.batch) - 1 /\ Len(receiver.batch) \in Nat BY <1>1
    <3> HIDE DEF rest
    <3>2. rest = <<>> <=> Len(rest) = 0 BY <1>3
    <3> QED BY <3>1, <3>2
  <2>2. receiver.step = "batch" BY DEF Stream!HoldAndAck
  <2>3. [receiver EXCEPT !.batch = rest] = [step |-> "batch", batch |-> rest]
    <3>1. receiver = [step |-> "batch", batch |-> receiver.batch]
      BY <2>2 DEF StreamInv, StreamTypeOK
    <3> HIDE DEF rest
    <3> QED BY <3>1
  <2> QED BY <2>1, <2>3 DEF Stream!AfterBatch
<1>11. /\ receiver' \in [step : {"down", "opening", "pulling", "listening", "batch"}, batch : Seq(Numbers)]
       /\ receiver'.step = "batch" <=> receiver'.batch # <<>>
       /\ receiver'.batch = <<>> \/ (receiver'.batch = rest /\ breaks' = breaks)
       /\ breaks' = breaks => receiver'.batch = rest
  <2>1. <<>> \in Seq(Numbers) OBVIOUS
  <2>2. breaks # breaks + 1 BY DEF StreamInv, StreamTypeOK
  <2> HIDE DEF rest
  <2>3. CASE receiver' = Stream!Opening /\ breaks' = breaks + 1
    BY <2>1, <2>2, <2>3 DEF Stream!Opening
  <2>4. CASE receiver' = Stream!Pulling /\ rest = <<>> /\ breaks' = breaks
    BY <2>1, <2>4 DEF Stream!Pulling
  <2>5. CASE receiver' = [step |-> "batch", batch |-> rest] /\ rest # <<>> /\ breaks' = breaks
    BY <1>3, <2>5
  <2> QED BY <1>9, <1>10, <2>3, <2>4, <2>5
<1>12. Stream!Elements(<<>>) = {} /\ Rising(<<>>) BY DEF Stream!Elements, Rising
<1> HIDE DEF m, rest
<1>13. StreamTypeOK'
  <2>1. breaks' \in Nat BY <1>9 DEF StreamInv, StreamTypeOK
  <2>2. inFlight' \in SUBSET Numbers BY <1>9 DEF StreamInv, StreamTypeOK
  <2> QED BY <1>6, <1>7, <1>11, <2>1, <2>2 DEF StreamInv, StreamTypeOK, Numbers
<1>14. Batch' = {} \/ (Batch' = Stream!Elements(rest) /\ breaks' = breaks)
  BY <1>11, <1>12 DEF Batch
<1>15. BatchIsOwed'
  <2>1. Rising(receiver'.batch) BY <1>4, <1>11, <1>12
  <2>2. Batch' \subseteq inFlight' BY <1>5, <1>8, <1>9, <1>14
  <2> QED BY <1>11, <2>1, <2>2 DEF BatchIsOwed
<1>16. CoreOwesNothing' BY <1>6, <1>8 DEF StreamInv, CoreOwesNothing
<1>17. InSingleFile'
  <2> SUFFICES ASSUME breaks' = 0, stops' = 0 PROVE InSingleFile' BY DEF InSingleFile
  <2>1. breaks = 0 /\ breaks' = breaks /\ stops = 0 /\ inFlight' = inFlight \ {m}
    BY <1>6, <1>9 DEF StreamInv, StreamTypeOK
  <2>2. Batch' = Stream!Elements(rest) BY <1>11, <2>1 DEF Batch
  <2>3. inFlight' = Batch' BY <1>3, <1>5, <2>1, <2>2 DEF StreamInv, InSingleFile
  <2>4. AtWork' = AtWork /\ Stream!Elements(handed)' = Stream!Elements(handed)
    BY <1>6 DEF AtWork, Stream!Elements
  <2>5. Rising(inbox)'
    <3>1. inbox \in Seq(Nat) BY <1>2 DEF StreamInv, StreamTypeOK
    <3>2. Rising(inbox) /\ \A y \in Stream!Elements(inbox) : y < m
      BY <1>3, <2>1 DEF StreamInv, InSingleFile, Waiting, Before
    <3>3. m \in Nat BY <1>2, <1>3
    <3> QED BY <1>6, <3>1, <3>2, <3>3, StillRising
  <2>6. /\ Before(Stream!Elements(handed), AtWork \cup Waiting' \cup Batch' \cup unacked')
        /\ Before(AtWork, Waiting' \cup Batch' \cup unacked')
    BY <1>3, <1>6, <1>7, <2>1, <2>2 DEF StreamInv, InSingleFile, Before
  <2>7. Before(Waiting', Batch' \cup unacked') /\ Before(Batch', unacked')
    BY <1>3, <1>4, <1>6, <1>7, <2>1, <2>2 DEF StreamInv, InSingleFile, Before
  <2>8. Rising(handed)' BY <1>6, <2>1 DEF StreamInv, InSingleFile
  <2> QED BY <2>3, <2>4, <2>5, <2>6, <2>7, <2>8 DEF InSingleFile
<1>18. Stream!EveryBarIsSomewhere'
  <2>1. Stream!InMemory = Waiting \cup AtWork /\ Stream!InMemory' = Waiting' \cup AtWork'
    BY DEF Stream!InMemory, Waiting, AtWork
  <2>2. AtWork' = AtWork /\ Stream!Elements(handed)' = Stream!Elements(handed)
    BY <1>6 DEF AtWork, Stream!Elements
  <2>3. inFlight \cup Waiting' = inFlight' \cup Waiting' BY <1>7, <1>9
  <2>4. inFlight \cup Waiting = inFlight \cup Waiting' BY <1>7, <1>8
  <2> QED BY <1>6, <2>1, <2>2, <2>3, <2>4 DEF StreamInv, Stream!EveryBarIsSomewhere
<1> QED BY <1>13, <1>15, <1>16, <1>17, <1>18 DEF StreamInv

LEMMA TakeKeeps ==
    ASSUME StreamInv, Stream!Take
    PROVE  StreamInv'
<1> DEFINE m == Head(inbox)
           rest == Tail(inbox)
<1>1. /\ handling = 0 /\ inbox # <<>> /\ handling' = m /\ inbox' = rest
      /\ UNCHANGED <<published, unacked, inFlight, receiver, handed, refused, spilled, unheard,
                     breaks, stops>>
  BY DEF Stream!Take
<1>2. inbox \in Seq(Numbers) /\ Numbers \subseteq Nat /\ Seq(Numbers) \subseteq Seq(Nat)
  BY NumbersAreNaturals DEF StreamInv, StreamTypeOK
<1>3. m \in Numbers /\ rest \in Seq(Numbers) /\ Waiting = {m} \cup Stream!Elements(rest)
  BY <1>1, <1>2, FewerElements DEF Waiting
<1>4. Rising(inbox) => Rising(rest) /\ \A y \in Stream!Elements(rest) : m < y
  BY <1>1, <1>2, RestRises
<1> HIDE DEF m, rest
<1>5. m # 0 BY <1>3 DEF Numbers
<1>6. AtWork = {} /\ AtWork' = {m} /\ Waiting' = Stream!Elements(rest) /\ Batch' = Batch
  BY <1>1, <1>5 DEF AtWork, Waiting, Batch
<1>7. StreamTypeOK' BY <1>1, <1>3 DEF StreamInv, StreamTypeOK, Numbers
<1>8. InSingleFile'
  BY <1>1, <1>3, <1>4, <1>6 DEF StreamInv, InSingleFile, Before
<1>9. Stream!EveryBarIsSomewhere'
  <2>1. Stream!InMemory = Waiting \cup AtWork /\ Stream!InMemory' = Waiting' \cup AtWork'
    BY DEF Stream!InMemory, Waiting, AtWork
  <2>2. Stream!InMemory' = Stream!InMemory BY <1>3, <1>6, <2>1
  <2>3. Stream!Elements(handed)' = Stream!Elements(handed) BY <1>1 DEF Stream!Elements
  <2> QED BY <1>1, <2>2, <2>3 DEF StreamInv, Stream!EveryBarIsSomewhere
<1> QED BY <1>1, <1>6, <1>7, <1>8, <1>9 DEF StreamInv, BatchIsOwed, CoreOwesNothing

LEMMA HandleRawKeeps ==
    ASSUME StreamInv, Stream!HandleRaw
    PROVE  StreamInv'
<1>1. /\ handling \in Numbers /\ handling' = 0
      /\ UNCHANGED <<published, unacked, inFlight, receiver, inbox, spilled, unheard, breaks, stops>>
      /\ \/ refused' = refused \cup {handling} /\ handed' = handed
         \/ handed' = Append(handed, handling) /\ refused' = refused
  BY DEF Stream!HandleRaw, StreamInv, StreamTypeOK
<1>2. handed \in Seq(Numbers) /\ Numbers \subseteq Nat /\ Seq(Numbers) \subseteq Seq(Nat)
  BY NumbersAreNaturals DEF StreamInv, StreamTypeOK
<1>3. handed' \in Seq(Numbers) BY <1>1, <1>2
<1>4. /\ Stream!Elements(Append(handed, handling)) = Stream!Elements(handed) \cup {handling}
  BY <1>2, MoreElements
<1>5. AtWork = {handling} /\ AtWork' = {} /\ Waiting' = Waiting /\ Batch' = Batch
  BY <1>1 DEF AtWork, Waiting, Batch, Numbers
<1>6. StreamTypeOK' BY <1>1, <1>3 DEF StreamInv, StreamTypeOK, Numbers
<1>7. \/ Stream!Elements(handed)' = Stream!Elements(handed) /\ refused' = refused \cup {handling}
      \/ Stream!Elements(handed)' = Stream!Elements(handed) \cup {handling} /\ refused' = refused
  BY <1>1, <1>4 DEF Stream!Elements
<1>8. InSingleFile'
  <2> SUFFICES ASSUME breaks = 0, stops = 0 PROVE InSingleFile' BY <1>1 DEF InSingleFile
  <2>1. Rising(handed)'
    <3>1. CASE handed' = handed BY <3>1 DEF StreamInv, InSingleFile
    <3>2. CASE handed' = Append(handed, handling)
      <4>1. Rising(handed) /\ \A y \in Stream!Elements(handed) : y < handling
        BY <1>5 DEF StreamInv, InSingleFile, Before
      <4> QED BY <1>1, <1>2, <3>2, <4>1, StillRising
    <3> QED BY <1>1, <3>1, <3>2
  <2>2. Before(Stream!Elements(handed)', Waiting \cup Batch \cup unacked)
    BY <1>5, <1>7 DEF StreamInv, InSingleFile, Before
  <2>3. Before({}, Waiting \cup Batch \cup unacked) BY DEF Before
  <2>4. AtWork' \cup Waiting' \cup Batch' \cup unacked' = Waiting \cup Batch \cup unacked
    BY <1>1, <1>5
  <2> QED BY <1>1, <1>5, <2>1, <2>2, <2>3, <2>4 DEF StreamInv, InSingleFile
<1>9. Stream!EveryBarIsSomewhere'
  <2>1. Stream!InMemory = Waiting \cup AtWork /\ Stream!InMemory' = Waiting' \cup AtWork'
    BY DEF Stream!InMemory, Waiting, AtWork
  <2>2. Stream!InMemory \cup Stream!Elements(handed) \cup refused
          = Stream!InMemory' \cup Stream!Elements(handed)' \cup refused'
    BY <1>5, <1>7, <2>1
  <2> QED BY <1>1, <2>2 DEF StreamInv, Stream!EveryBarIsSomewhere
<1> QED BY <1>1, <1>5, <1>6, <1>8, <1>9 DEF StreamInv, BatchIsOwed, CoreOwesNothing

LEMMA StopKeeps ==
    ASSUME StreamInv, Stream!Stop
    PROVE  StreamInv'
<1>1. /\ stops' = stops + 1 /\ receiver' = Stream!Down /\ inbox' = <<>> /\ handling' = 0
      /\ spilled' = spilled \cup (Waiting \cup AtWork)
      /\ UNCHANGED <<published, unacked, inFlight, handed, refused, unheard, breaks>>
  <2>1. AtWork = IF handling = 0 THEN {} ELSE {handling} BY DEF AtWork
  <2> QED BY <2>1 DEF Stream!Stop, Waiting
<1>2. Waiting \subseteq Numbers /\ AtWork \subseteq Numbers
  BY ElementsAreTyped DEF StreamInv, StreamTypeOK, Waiting, AtWork
<1>3. receiver'.step = "down" /\ receiver'.batch = <<>>
      /\ receiver' \in [step : {"down", "opening", "pulling", "listening", "batch"}, batch : Seq(Numbers)]
  <2>1. <<>> \in Seq(Numbers) OBVIOUS
  <2> QED BY <1>1, <2>1 DEF Stream!Down
<1>4. stops' \in Nat /\ stops' # 0 BY <1>1 DEF StreamInv, StreamTypeOK
<1>5. inbox' \in Seq(Numbers) BY <1>1
<1>6. StreamTypeOK' BY <1>1, <1>2, <1>3, <1>4, <1>5 DEF StreamInv, StreamTypeOK, Numbers
<1>7. Stream!Elements(<<>>) = {} /\ Rising(<<>>) BY DEF Stream!Elements, Rising
<1>8. BatchIsOwed' BY <1>3, <1>7 DEF BatchIsOwed, Batch
<1>9. Stream!EveryBarIsSomewhere'
  <2>1. Stream!InMemory = Waiting \cup AtWork /\ Stream!InMemory' = {}
    BY <1>1, <1>7 DEF Stream!InMemory, Waiting, AtWork
  <2>2. Stream!Elements(handed)' = Stream!Elements(handed) BY <1>1 DEF Stream!Elements
  <2> QED BY <1>1, <1>4, <2>1, <2>2 DEF StreamInv, Stream!EveryBarIsSomewhere
<1> QED BY <1>1, <1>4, <1>6, <1>8, <1>9 DEF StreamInv, CoreOwesNothing, InSingleFile

-----------------------------------------------------------------------------
LEMMA StreamStep == StreamInv /\ [Stream!Next]_(Stream!ingesterVars) => StreamInv'
<1> SUFFICES ASSUME StreamInv, [Stream!Next]_(Stream!ingesterVars) PROVE StreamInv'
  OBVIOUS
<1>1. CASE UNCHANGED Stream!ingesterVars
  <2>1. UNCHANGED <<published, unacked, inFlight, receiver, inbox, handling, handed, refused,
                    spilled, unheard, breaks, stops>>
    BY <1>1 DEF Stream!ingesterVars
  <2>2. UNCHANGED <<Numbers, Batch, Waiting, AtWork, Stream!InMemory, Stream!Elements(handed)>>
    BY <2>1 DEF Numbers, Batch, Waiting, AtWork, Stream!InMemory, Stream!Elements
  <2>3. StreamTypeOK' BY <2>1, <2>2 DEF StreamInv, StreamTypeOK
  <2>4. BatchIsOwed' BY <2>1, <2>2 DEF StreamInv, BatchIsOwed
  <2>5. InSingleFile' BY <2>1, <2>2 DEF StreamInv, InSingleFile
  <2>6. Stream!EveryBarIsSomewhere' BY <2>1, <2>2 DEF StreamInv, Stream!EveryBarIsSomewhere
  <2> QED BY <2>1, <2>3, <2>4, <2>5, <2>6 DEF StreamInv, CoreOwesNothing
<1> QED BY <1>1, PublishKeeps, RedeliverKeeps, ConnectKeeps, LinkDropsKeeps, FetchKeeps,
        HoldAndAckKeeps, TakeKeeps, HandleRawKeeps, StopKeeps, StreamStartKeeps DEF Stream!Next

LEMMA StreamAlways == Stream!Spec => []StreamInv
BY StreamStart, StreamStep, PTL DEF Stream!Spec

(* No bar of the ingester's is lost on its way: each is owed by the stream, in memory,  *)
(* handed over or refused, but for those that a stop caught in memory and, on core      *)
(* NATS, those that met a full queue (mt5/feed.py: held first, acknowledged second).    *)
THEOREM StreamKeepsEveryBar == Stream!Spec => []Stream!EveryBarIsSomewhere
BY StreamAlways, PTL DEF StreamInv

(* While no call broke off and the process went on, each bar is handed over once and in *)
(* the order of the stream (mt5/feed.py _consume_jetstream, _process).                  *)
THEOREM StreamHandsOverInOrder == Stream!Spec => []Stream!InOrderUnlessBroken
<1>1. StreamInv => Stream!InOrderUnlessBroken
  BY DEF StreamInv, InSingleFile, Rising, Stream!InOrderUnlessBroken
<1> QED BY <1>1, StreamAlways, PTL

-----------------------------------------------------------------------------
(* The bars a simulator command asked for, for any rows, walks, stamps and *)
(* clock, and any number of connections (qte_simulator/verify.py).         *)
SoundRows == {r \in [open : Int, high : Int, low : Int, close : Int] :
                 r.low <= r.open /\ r.low <= r.close /\ r.open <= r.high /\ r.close <= r.high}

SimAssumption ==
    /\ Rows \subseteq Seq(SoundRows) \ {<<>>}
    /\ Prices \subseteq Int /\ Stamps \subseteq Nat
    /\ Bucket \in Nat \ {0} /\ MaxBars \in Nat \ {0} /\ MaxTasks \in Nat
    /\ Step \in Nat /\ WalkTicks \in Nat /\ ClockStep \in Nat
    /\ None \in Int /\ None < 0 /\ None \notin Sessions
    /\ \A rows \in Rows : None < 0 - Len(rows) * Bucket

\* The instants of the run, and those a bucket begins at.
Dates == {t \in Int : Sim!Floor(t) > None}
Starts == {t \in Int : Sim!Floor(t) = t /\ t > None}

LEMMA FloorIsMultiple ==
    ASSUME NEW B \in Nat \ {0}, NEW t \in Int
    PROVE  \E q \in Int : t - (t % B) = B * q /\ B * q <= t /\ t < B * q + B
<1>1. t % B \in 0..(B - 1) OBVIOUS
<1>2. t = B * (t \div B) + (t % B) /\ t \div B \in Int BY Z3T(30)
<1>3. B * (t \div B) \in Int BY <1>2
<1>4. t - (t % B) = B * (t \div B) /\ B * (t \div B) <= t /\ t < B * (t \div B) + B
  <2> DEFINE x == B * (t \div B)
             r == t % B
  <2>1. x \in Int /\ r \in 0..(B - 1) /\ t = x + r BY <1>1, <1>2, <1>3
  <2> HIDE DEF x, r
  <2>2. t - r = x /\ x <= t /\ t < x + B BY <2>1
  <2> QED BY <2>2 DEF x, r
<1> QED BY <1>2, <1>4

LEMMA FloorIsLast ==
    ASSUME NEW B \in Nat \ {0}, NEW q \in Int, NEW t \in Int, B * q <= t, t < B * q + B
    PROVE  t - (t % B) = B * q
<1>1. PICK p \in Int : t - (t % B) = B * p /\ B * p <= t /\ t < B * p + B
  BY FloorIsMultiple
<1>2. CASE p = q BY <1>1, <1>2
<1>3. CASE p < q
  <2>1. B * (p + 1) <= B * q BY <1>3
  <2> QED BY <1>1, <2>1
<1>4. CASE q < p
  <2>1. B * (q + 1) <= B * p BY <1>4
  <2> QED BY <1>1, <2>1
<1> QED BY <1>2, <1>3, <1>4

(* The bucket of an instant, and of one within, of the next bucket.        *)
LEMMA FloorFacts ==
    ASSUME SimAssumption, NEW t \in Int
    PROVE  /\ Sim!Floor(t) \in Int /\ Sim!Floor(t) <= t
           /\ Sim!Floor(Sim!Floor(t)) = Sim!Floor(t)
           /\ Sim!Floor(t) = t => /\ Sim!Floor(t + Bucket) = t + Bucket
                                  /\ \A o \in 0..(Bucket - 1) : Sim!Floor(t + o) = t
           /\ t \in Nat => Sim!Floor(t) \in Nat
<1>1. Bucket \in Nat \ {0} BY DEF SimAssumption
<1>2. PICK q \in Int : /\ t - (t % Bucket) = Bucket * q /\ Bucket * q <= t
                       /\ t < Bucket * q + Bucket
  BY <1>1, FloorIsMultiple
<1>3. Sim!Floor(t) = Bucket * q BY <1>2 DEF Sim!Floor
<1>4. Bucket * q \in Int BY <1>1
<1>5. Sim!Floor(Bucket * q) = Bucket * q
  <2>1. Bucket * q <= Bucket * q /\ Bucket * q < Bucket * q + Bucket BY <1>1, <1>4
  <2>2. (Bucket * q) - ((Bucket * q) % Bucket) = Bucket * q
    BY <1>1, <1>4, <2>1, FloorIsLast
  <2> QED BY <2>2 DEF Sim!Floor
<1>6. ASSUME Sim!Floor(t) = t
      PROVE  /\ Sim!Floor(t + Bucket) = t + Bucket
             /\ \A o \in 0..(Bucket - 1) : Sim!Floor(t + o) = t
  <2>1. t = Bucket * q BY <1>3, <1>6
  <2>2. Bucket * (q + 1) = t + Bucket BY <1>1, <2>1
  <2>3. Sim!Floor(t + Bucket) = t + Bucket
    <3>1. /\ q + 1 \in Int /\ t + Bucket \in Int
          /\ Bucket * (q + 1) <= t + Bucket /\ t + Bucket < Bucket * (q + 1) + Bucket
      BY <1>1, <2>2
    <3>2. (t + Bucket) - ((t + Bucket) % Bucket) = Bucket * (q + 1)
      BY <1>1, <3>1, FloorIsLast
    <3> QED BY <2>2, <3>2 DEF Sim!Floor
  <2>4. ASSUME NEW o \in 0..(Bucket - 1) PROVE Sim!Floor(t + o) = t
    <3>1. t + o \in Int /\ Bucket * q <= t + o /\ t + o < Bucket * q + Bucket
      BY <1>1, <2>1
    <3>2. (t + o) - ((t + o) % Bucket) = Bucket * q BY <1>1, <3>1, FloorIsLast
    <3> QED BY <2>1, <3>2 DEF Sim!Floor
  <2> QED BY <2>3, <2>4
<1>7. t \in Nat => q >= 0
  <2>1. q < 0 => Bucket * (q + 1) <= Bucket * 0 BY <1>1
  <2> QED BY <1>1, <1>2, <2>1
<1>8. t \in Nat => Bucket * q \in Nat BY <1>1, <1>7
<1> QED BY <1>2, <1>3, <1>4, <1>5, <1>6, <1>8

LEMMA FloorGrows ==
    ASSUME SimAssumption, NEW t \in Int, NEW u \in Int, t <= u
    PROVE  Sim!Floor(t) <= Sim!Floor(u)
<1>1. Bucket \in Nat \ {0} BY DEF SimAssumption
<1>2. PICK p \in Int : t - (t % Bucket) = Bucket * p /\ Bucket * p <= t
  BY <1>1, FloorIsMultiple
<1>3. PICK q \in Int : u - (u % Bucket) = Bucket * q /\ u < Bucket * q + Bucket
  BY <1>1, FloorIsMultiple
<1>4. q < p => Bucket * (q + 1) <= Bucket * p BY <1>1
<1>5. Bucket * p \in Int /\ Bucket * q \in Int /\ Bucket * (q + 1) = Bucket * q + Bucket BY <1>1
<1> HIDE DEF Sim!Floor
<1> QED
  <2>1. q < p => u < t BY <1>1, <1>2, <1>3, <1>4, <1>5
  <2>2. p <= q => Bucket * p <= Bucket * q BY <1>1
  <2> QED BY <1>2, <1>3, <1>5, <2>1, <2>2 DEF Sim!Floor

LEMMA TimesGoOn ==
    ASSUME SimAssumption
    PROVE  /\ Nat \subseteq Dates /\ Starts \subseteq Dates /\ None \notin Dates
           /\ \A t \in Dates : t \in Int /\ Sim!Floor(t) \in Starts
           /\ \A t \in Dates, u \in Int : t <= u => u \in Dates
           /\ \A t \in Starts : t + Bucket \in Starts /\ t > None /\ t \in Int
           /\ \A t \in Starts, o \in 0..(Bucket - 1) : t + o \in Dates /\ Sim!Floor(t + o) = t
<1>1. None \in Int /\ None < 0 /\ Bucket \in Nat \ {0} BY DEF SimAssumption
<1>2. Nat \subseteq Dates
  <2> SUFFICES ASSUME NEW t \in Nat PROVE t \in Dates OBVIOUS
  <2>1. Sim!Floor(t) \in Nat BY FloorFacts
  <2>2. Sim!Floor(t) > None BY <1>1, <2>1
  <2> QED BY <2>2 DEF Dates
<1>3. Starts \subseteq Dates BY DEF Starts, Dates
<1>4. None \notin Dates BY <1>1, FloorFacts DEF Dates
<1>5. ASSUME NEW t \in Dates PROVE t \in Int /\ Sim!Floor(t) \in Starts
  BY FloorFacts DEF Dates, Starts
<1>6. ASSUME NEW t \in Dates, NEW u \in Int, t <= u PROVE u \in Dates
  BY <1>1, <1>6, FloorGrows, FloorFacts DEF Dates
<1>7. ASSUME NEW t \in Starts PROVE t + Bucket \in Starts /\ t > None /\ t \in Int
  BY <1>1, FloorFacts DEF Starts
<1>8. ASSUME NEW t \in Starts, NEW o \in 0..(Bucket - 1)
      PROVE  t + o \in Dates /\ Sim!Floor(t + o) = t
  <2>1. t \in Int /\ Sim!Floor(t) = t /\ t > None BY DEF Starts
  <2>2. Sim!Floor(t + o) = t BY <2>1, FloorFacts
  <2>3. t + o \in Int BY <1>1, <2>1
  <2> QED BY <2>1, <2>2, <2>3 DEF Dates
<1> QED BY <1>2, <1>3, <1>4, <1>5, <1>6, <1>7, <1>8

LEMMA LaterStarts ==
    ASSUME SimAssumption, NEW t \in Starts, NEW n \in Nat
    PROVE  t + n * Bucket \in Starts /\ t <= t + n * Bucket
<1>1. Bucket \in Nat \ {0} /\ None \in Int /\ t \in Int /\ t > None BY DEF SimAssumption, Starts
<1>2. PICK q \in Int : t - (t % Bucket) = Bucket * q BY <1>1, FloorIsMultiple
<1>3. t = Bucket * q BY <1>2 DEF Starts, Sim!Floor
<1>4. Bucket * (q + n) = t + n * Bucket BY <1>1, <1>3
<1>5. n * Bucket \in Nat BY <1>1
<1>6. Sim!Floor(t + n * Bucket) = t + n * Bucket
  BY <1>1, <1>4, <1>5, FloorIsLast DEF Sim!Floor
<1> QED BY <1>1, <1>5, <1>6 DEF Starts

-----------------------------------------------------------------------------
(* What the resampler makes of the ticks of a bar.                         *)
Bars == [at : Starts, open : Int, high : Int, low : Int, close : Int, ticks : Nat]
NoBars == [at : {None}, spent : Starts \cup {None}]
Ticks == [ts : Dates, price : Int]
Front(b) == IF b.at = None THEN b.spent ELSE b.at
InOpen(b) == IF b.at = None THEN {} ELSE {b}

\* The candle of a row after the first j of its four ticks.
Part(at, row, j) ==
    [at |-> at, open |-> row.open,
     high |-> IF j >= 3 \/ (j = 2 /\ row.close < row.open) THEN row.high ELSE row.open,
     low |-> IF j >= 3 \/ (j = 2 /\ row.close >= row.open) THEN row.low ELSE row.open,
     close |-> Sim!Path(row)[j], ticks |-> j]

LEMMA BarsAreOpenOrNot ==
    ASSUME SimAssumption, NEW b \in Bars \cup NoBars
    PROVE  /\ b.at = None <=> b \in NoBars
           /\ b.at # None <=> b \in Bars
           /\ Front(b) \in Starts \cup {None}
           /\ b.at # None => Front(b) = b.at
BY TimesGoOn DEF Bars, NoBars, Front, Starts

(* One tick more into an open bar.                                         *)
LEMMA FoldedBar ==
    ASSUME SimAssumption, NEW b \in Bars, NEW t, t.price \in Int
    PROVE  /\ Sim!Fold(b, t) \in Bars
           /\ Sim!Fold(b, t).at = b.at /\ Sim!Fold(b, t).open = b.open
           /\ Sim!Fold(b, t).high = Sim!Later(b.high, t.price)
           /\ Sim!Fold(b, t).low = IF t.price < b.low THEN t.price ELSE b.low
           /\ Sim!Fold(b, t).close = t.price /\ Sim!Fold(b, t).ticks = b.ticks + 1
<1> DEFINE p == t.price
           x1 == [b EXCEPT !.close = p]
           x2 == [x1 EXCEPT !.ticks = @ + 1]
           x3 == [x2 EXCEPT !.high = Sim!Later(@, p)]
           x4 == [x3 EXCEPT !.low = IF p < @ THEN p ELSE @]
<1>1. p \in Int OBVIOUS
<1>2. Sim!Fold(b, t) = x4 BY DEF Sim!Fold
<1>3. /\ x4.at = b.at /\ x4.open = b.open /\ x4.high = Sim!Later(b.high, p)
      /\ x4.low = (IF p < b.low THEN p ELSE b.low) /\ x4.close = p /\ x4.ticks = b.ticks + 1
  BY DEF Bars
<1> HIDE DEF p
<1>4. x1 \in Bars BY <1>1 DEF Bars
<1> HIDE DEF x1
<1>5. x2 \in Bars BY <1>4 DEF Bars
<1> HIDE DEF x2
<1>6. x3 \in Bars BY <1>1, <1>5 DEF Bars, Sim!Later
<1> HIDE DEF x3
<1>7. x4 \in Bars BY <1>1, <1>6 DEF Bars
<1> HIDE DEF x4
<1> QED BY <1>2, <1>3, <1>7 DEF p

LEMMA SameBar ==
    ASSUME NEW b \in Bars, NEW c \in Bars, b.at = c.at, b.open = c.open, b.high = c.high,
           b.low = c.low, b.close = c.close, b.ticks = c.ticks
    PROVE  b = c
BY DEF Bars

LEMMA PartsGrow ==
    ASSUME SimAssumption, NEW at \in Starts, NEW row \in SoundRows
    PROVE  /\ \A j \in 1..4 : Part(at, row, j) \in Bars /\ Sim!Path(row)[j] \in Int
           /\ Part(at, row, 1) = [at |-> at, open |-> row.open, high |-> row.open,
                                  low |-> row.open, close |-> row.open, ticks |-> 1]
           /\ Sim!Path(row)[1] = row.open
           /\ \A j \in 1..3 : \A ts : Sim!Fold(Part(at, row, j), [ts |-> ts, price |-> Sim!Path(row)[j + 1]])
                                = Part(at, row, j + 1)
           /\ Part(at, row, 4) = Sim!ExpectedCandle(at, row)
<1>1. /\ row.open \in Int /\ row.high \in Int /\ row.low \in Int /\ row.close \in Int
      /\ row.low <= row.open /\ row.low <= row.close /\ row.open <= row.high /\ row.close <= row.high
  BY DEF SoundRows
<1>2. /\ Sim!Path(row)[1] = row.open
      /\ Sim!Path(row)[2] = IF row.close >= row.open THEN row.low ELSE row.high
      /\ Sim!Path(row)[3] = IF row.close >= row.open THEN row.high ELSE row.low
      /\ Sim!Path(row)[4] = row.close
  BY DEF Sim!Path
<1>3. \A j \in 1..4 : Sim!Path(row)[j] \in Int
  <2> TAKE j \in 1..4
  <2>1. j = 1 \/ j = 2 \/ j = 3 \/ j = 4 OBVIOUS
  <2> QED BY <1>1, <1>2, <2>1
<1>4. \A j \in 1..4 : Part(at, row, j) \in Bars
  BY <1>1, <1>3 DEF Part, Bars
<1>5. ASSUME NEW j \in 1..3, NEW ts
      PROVE  Sim!Fold(Part(at, row, j), [ts |-> ts, price |-> Sim!Path(row)[j + 1]])
                = Part(at, row, j + 1)
  <2> DEFINE b == Part(at, row, j)
             p == Sim!Path(row)[j + 1]
             n == Part(at, row, j + 1)
  <2>2. Sim!Later(b.high, p) = n.high /\ (IF p < b.low THEN p ELSE b.low) = n.low
    <3>1. CASE j = 1 BY <1>1, <1>2, <3>1 DEF Part, Sim!Later
    <3>2. CASE j = 2 BY <1>1, <1>2, <3>2 DEF Part, Sim!Later
    <3>3. CASE j = 3 BY <1>1, <1>2, <3>3 DEF Part, Sim!Later
    <3> QED BY <3>1, <3>2, <3>3
  <2>3. /\ n.at = b.at /\ n.open = b.open /\ n.close = p /\ n.ticks = b.ticks + 1
        /\ b \in Bars /\ n \in Bars /\ p \in Int
    BY <1>3, <1>4 DEF Part
  <2> DEFINE t == [ts |-> ts, price |-> p]
  <2>4. t.price = p OBVIOUS
  <2> HIDE DEF b, p, n, t
  <2>5. /\ Sim!Fold(b, t) \in Bars
        /\ Sim!Fold(b, t).at = n.at /\ Sim!Fold(b, t).open = n.open
        /\ Sim!Fold(b, t).high = n.high /\ Sim!Fold(b, t).low = n.low
        /\ Sim!Fold(b, t).close = n.close /\ Sim!Fold(b, t).ticks = n.ticks
    BY <2>2, <2>3, <2>4, FoldedBar
  <2>6. Sim!Fold(b, t) = n BY <2>3, <2>5, SameBar
  <2> QED BY <2>6 DEF b, p, n, t
<1>6. Part(at, row, 4) = Sim!ExpectedCandle(at, row)
  BY <1>1, <1>2 DEF Part, Sim!ExpectedCandle
<1> QED BY <1>1, <1>2, <1>3, <1>4, <1>5, <1>6 DEF Part

\* What a tick makes of a bar: the next one, one tick more, or nothing.
LEMMA ResampledBar ==
    ASSUME SimAssumption, NEW b \in Bars \cup NoBars, NEW t \in Ticks
    PROVE  /\ Sim!Resampled(b, t) \in Bars \cup NoBars
           /\ Sim!Floor(t.ts) > Front(b) =>
                 /\ Sim!Resampled(b, t)
                       = [at |-> Sim!Floor(t.ts), open |-> t.price, high |-> t.price,
                          low |-> t.price, close |-> t.price, ticks |-> 1]
                 /\ Sim!Closes(b, t) = InOpen(b)
           /\ Sim!Floor(t.ts) = b.at => Sim!Resampled(b, t) = Sim!Fold(b, t)
           /\ Sim!Floor(t.ts) <= Front(b) => Sim!Closes(b, t) = {}
           /\ Front(Sim!Resampled(b, t)) = Front(b) \/ Front(Sim!Resampled(b, t)) = Sim!Floor(t.ts)
           /\ Sim!Closes(b, t) \subseteq Bars
<1> DEFINE at == Sim!Floor(t.ts)
           o == [at |-> at, open |-> t.price, high |-> t.price, low |-> t.price,
                 close |-> t.price, ticks |-> 1]
<1>1. /\ t.ts \in Dates /\ t.price \in Int /\ at \in Starts /\ at \in Int /\ at # None /\ at > None
      /\ None \in Int
  BY TimesGoOn DEF Ticks, SimAssumption
<1>2. o \in Bars /\ o.at = at BY <1>1 DEF Bars
<1>3. /\ b.at = None <=> b \in NoBars
      /\ b.at # None <=> b \in Bars
      /\ Front(b) \in Starts \cup {None} /\ Front(b) \in Int
      /\ Front(b) = IF b.at = None THEN b.spent ELSE b.at
  BY <1>1, BarsAreOpenOrNot DEF Front, Starts
<1>4. Sim!Resampled(b, t) = IF at > Front(b) THEN o ELSE IF at = b.at THEN Sim!Fold(b, t) ELSE b
  BY <1>3 DEF Sim!Resampled
<1>5. Sim!Closes(b, t) = IF b.at # None /\ at > b.at THEN {b} ELSE {}
  BY DEF Sim!Closes
<1>6. at = b.at => b \in Bars /\ Sim!Fold(b, t) \in Bars /\ Sim!Fold(b, t).at = b.at
  BY <1>1, <1>3, FoldedBar
<1> HIDE DEF at, o
<1>7. Sim!Resampled(b, t) \in Bars \cup NoBars BY <1>2, <1>4, <1>6
<1>8. Front(Sim!Resampled(b, t)) = Front(b) \/ Front(Sim!Resampled(b, t)) = at
  <2>1. CASE at > Front(b) BY <1>1, <1>2, <1>4, <2>1 DEF Front
  <2>2. CASE ~(at > Front(b)) /\ at = b.at BY <1>1, <1>4, <1>6, <2>2 DEF Front
  <2>3. CASE ~(at > Front(b)) /\ at # b.at BY <1>4, <2>3
  <2> QED BY <2>1, <2>2, <2>3
<1>9. at > Front(b) => Sim!Closes(b, t) = InOpen(b)
  BY <1>3, <1>5 DEF InOpen
<1>10. at <= Front(b) => Sim!Closes(b, t) = {}
  BY <1>1, <1>3, <1>5
<1>11. Sim!Closes(b, t) \subseteq Bars BY <1>3, <1>5
<1>12. /\ at > Front(b) => Sim!Resampled(b, t) = o
       /\ at = b.at => Sim!Resampled(b, t) = Sim!Fold(b, t)
  BY <1>1, <1>3, <1>4
<1> QED BY <1>7, <1>8, <1>9, <1>10, <1>11, <1>12 DEF at, o

-----------------------------------------------------------------------------
(* The invariant: where the resampler stands with what the hub remembers,  *)
(* and with the run of bars that is being sent.                            *)
Hubs == [last : Int, ts : Dates \cup {None}, cursor : Starts \cup {None}]
Runs == [op : {"bars"}, s : Symbols, at : Starts, rows : Seq(SoundRows) \ {<<>>}, sent : Nat,
         seal : BOOLEAN, sealing : BOOLEAN, later : Seq(SoundRows), clean : BOOLEAN,
         seen : SUBSET Bars, asked : SUBSET Bars]
Walks == [op : {"walk"}, s : Symbols, price : Int, targets : SUBSET Symbols, waits : Nat]
Stops == [op : {"stop", "reset"}, targets : SUBSET Symbols, waits : Nat]
Tasks == [symbol : Symbols \cup {None}, state : {"none", "running", "cancelled", "finished", "over"},
          moment : Dates, price : Int, left : Int]
Commands == Runs \cup Walks \cup Stops \cup {Sim!Idle}

SimTypeOK ==
    /\ utc \in Nat
    /\ hub \in [Symbols -> Hubs]
    /\ open \in [Symbols -> Bars \cup NoBars]
    /\ session \in [Sessions -> Commands]
    /\ names \in [Symbols -> Nat]
    /\ tasks \in [1..MaxTasks -> Tasks]
    /\ \A i \in 1..MaxTasks : tasks[i].state = "running" => tasks[i].symbol \in Symbols

\* The hub knows of every bar of a series that it has kept track of.
HubRemembers ==
    \A s \in Symbols : s \notin behind =>
        \/ Front(open[s]) = None
        \/ hub[s].ts # None /\ Front(open[s]) <= Sim!Floor(hub[s].ts)

FirstOf(c, i) == {Sim!ExpectedCandle(c.at + (n - 1) * Bucket, c.rows[n]) : n \in 1..i}

\* A run of which i bars and j ticks of the next have been sent: the bars have
\* been seen or the last is still open, and the next is open as far as it got.
WholeAt(c, b, i, j) ==
    /\ i \in 0..Len(c.rows) /\ j \in 0..3 /\ c.sent = 4 * i + j
    /\ \A n \in c.seen : n.at <= Front(b) /\ (b.at # None => n.at < b.at)
    /\ IF j = 0
       THEN /\ Front(b) < c.at + i * Bucket
            /\ c.asked \cup FirstOf(c, i) \subseteq c.seen \cup InOpen(b)
       ELSE /\ i < Len(c.rows)
            /\ b = Part(c.at + i * Bucket, c.rows[i + 1], j)
            /\ c.asked \cup FirstOf(c, i) \subseteq c.seen

RunIsWhole(c, o, l) ==
    c.op = "bars" /\ c.clean =>
        /\ l = "subscribed"
        /\ c.seal => c.later = <<>>
        /\ \E i \in Nat, j \in Nat : WholeAt(c, o[c.s], i, j)

RunsAreWhole == \A k \in Sessions : RunIsWhole(session[k], open, link)

SimInv == SimTypeOK /\ HubRemembers /\ RunsAreWhole

LEMMA KindsOfCommands ==
    ASSUME NEW c \in Commands
    PROVE  /\ c.op = "bars" <=> c \in Runs
           /\ c.op = "walk" <=> c \in Walks
           /\ c.op \in {"stop", "reset"} <=> c \in Stops
           /\ c.op = "idle" <=> c = Sim!Idle
BY DEF Commands, Runs, Walks, Stops, Sim!Idle

LEMMA SimStart == SimAssumption /\ Sim!Init => SimInv
<1> SUFFICES ASSUME SimAssumption, Sim!Init PROVE SimInv OBVIOUS
<1>1. None \in Int /\ 0 \in Dates BY TimesGoOn DEF SimAssumption
<1>2. [last |-> None, ts |-> None, cursor |-> None] \in Hubs BY <1>1 DEF Hubs
<1>3. hub \in [Symbols -> Hubs] BY <1>2 DEF Sim!Init, Sim!NewHub
<1>4. Sim!NoBar(None) \in NoBars /\ Front(Sim!NoBar(None)) = None BY DEF Sim!NoBar, NoBars, Front
<1>5. open \in [Symbols -> Bars \cup NoBars] BY <1>4 DEF Sim!Init
<1>6. session \in [Sessions -> Commands] BY DEF Sim!Init, Commands
<1>7. Sim!NoTask \in Tasks /\ Sim!NoTask.state = "none" BY <1>1 DEF Sim!NoTask, Tasks
<1>8. /\ tasks \in [1..MaxTasks -> Tasks]
      /\ \A i \in 1..MaxTasks : tasks[i].state # "running"
  BY <1>7 DEF Sim!Init
<1>9. utc \in Nat /\ names \in [Symbols -> Nat] BY DEF Sim!Init
<1>10. HubRemembers BY <1>4 DEF HubRemembers, Sim!Init
<1>11. RunsAreWhole BY DEF RunsAreWhole, RunIsWhole, Sim!Init, Sim!Idle
<1> QED BY <1>3, <1>5, <1>6, <1>8, <1>9, <1>10, <1>11 DEF SimInv, SimTypeOK

-----------------------------------------------------------------------------
(* A tick that is published, by anybody.                                   *)
LEMMA WatchedCommand ==
    ASSUME SimTypeOK, NEW s, NEW by, NEW bars \in SUBSET Bars, NEW k \in Sessions
    PROVE  LET c == session[k]
               w == Sim!Watched(s, by, bars)[k]
           IN  /\ w \in Commands
               /\ ~(c.op = "bars" /\ c.s = s) => w = c
               /\ c.op = "bars" /\ c.s = s =>
                     /\ w \in Runs /\ w.s = s /\ w.at = c.at /\ w.rows = c.rows /\ w.sent = c.sent
                     /\ w.seal = c.seal /\ w.sealing = c.sealing /\ w.later = c.later
                     /\ w.asked = c.asked /\ w.seen = Sim!Seen(c, bars)
                     /\ w.clean = (c.clean /\ k = by)
<1> DEFINE c == session[k]
           w == Sim!Watched(s, by, bars)[k]
<1>1. c \in Commands BY DEF SimTypeOK
<1>2. w = IF c.op = "bars" /\ c.s = s
          THEN [c EXCEPT !.seen = Sim!Seen(c, bars), !.clean = @ /\ k = by] ELSE c
  BY DEF Sim!Watched
<1> HIDE DEF c, w
<1>3. CASE ~(c.op = "bars" /\ c.s = s) BY <1>1, <1>2, <1>3 DEF c, w
<1>4. CASE c.op = "bars" /\ c.s = s
  <2>1. c \in Runs BY <1>1, <1>4, KindsOfCommands
  <2>2. Sim!Seen(c, bars) \in SUBSET Bars BY <2>1 DEF Sim!Seen, Runs
  <2>3. (c.clean /\ k = by) \in BOOLEAN OBVIOUS
  <2> DEFINE x == [c EXCEPT !.seen = Sim!Seen(c, bars)]
             y == [x EXCEPT !.clean = (c.clean /\ k = by)]
  <2>4. x \in Runs /\ x.clean = c.clean BY <2>1, <2>2 DEF Runs
  <2>5. w = y BY <1>2, <1>4, <2>4
  <2>6. y \in Runs BY <2>3, <2>4 DEF Runs
  <2>7. /\ y.s = c.s /\ y.at = c.at /\ y.rows = c.rows /\ y.sent = c.sent
        /\ y.seal = c.seal /\ y.sealing = c.sealing /\ y.later = c.later
        /\ y.asked = c.asked /\ y.seen = Sim!Seen(c, bars) /\ y.clean = (c.clean /\ k = by)
    BY <2>1 DEF Runs
  <2> HIDE DEF x, y
  <2> QED BY <1>4, <2>5, <2>6, <2>7 DEF c, w, Commands
<1> QED BY <1>3, <1>4

\* Somebody else's tick on the symbol of a run ends its claim.
LEMMA PublishSpreads ==
    ASSUME SimAssumption, SimInv, NEW s \in Symbols, NEW t \in Ticks,
           NEW cursor \in Starts \cup {None}, NEW by, Sim!Publish(s, t, cursor, by)
    PROVE  /\ hub' \in [Symbols -> Hubs] /\ open' \in [Symbols -> Bars \cup NoBars]
           /\ HubRemembers'
           /\ link = "subscribed" => link' = "subscribed" /\ open'[s] = Sim!Resampled(open[s], t)
           /\ Sim!OnPublish(s, t, by) \in [Sessions -> Commands]
           /\ \A k \in Sessions : k # by => RunIsWhole(Sim!OnPublish(s, t, by)[k], open', link')
<1>1. /\ hub \in [Symbols -> Hubs] /\ open \in [Symbols -> Bars \cup NoBars] BY DEF SimInv, SimTypeOK
<1>2. /\ t.ts \in Dates /\ t.price \in Int /\ t.ts \in Int /\ t.ts # None
      /\ Sim!Floor(t.ts) \in Starts /\ Sim!Floor(t.ts) \in Int
      /\ None \in Int /\ Sim!Floor(t.ts) > None
  BY TimesGoOn DEF Ticks, SimAssumption, Starts
<1>3. /\ hub' = [hub EXCEPT ![s] = [last |-> t.price, ts |-> t.ts, cursor |-> cursor]]
      /\ open' = IF Sim!Received THEN [open EXCEPT ![s] = Sim!Resampled(@, t)] ELSE open
      /\ link' = IF link = "dead" THEN "down" ELSE link
      /\ behind' = IF t.ts < hub[s].ts THEN behind \cup {s} ELSE behind
  BY DEF Sim!Publish
<1>4. hub' \in [Symbols -> Hubs] BY <1>1, <1>2, <1>3 DEF Hubs
<1>5. open' \in [Symbols -> Bars \cup NoBars] BY <1>1, <1>3, ResampledBar
<1>6. \A r \in Symbols : r # s => open'[r] = open[r] /\ hub'[r] = hub[r] BY <1>1, <1>3
<1>7. /\ hub'[s].ts = t.ts
      /\ open'[s] = open[s] \/ open'[s] = Sim!Resampled(open[s], t)
  BY <1>1, <1>3
<1>8. HubRemembers'
  <2> SUFFICES ASSUME NEW r \in Symbols, r \notin behind'
               PROVE  \/ Front(open'[r]) = None
                      \/ hub'[r].ts # None /\ Front(open'[r]) <= Sim!Floor(hub'[r].ts)
    BY DEF HubRemembers
  <2>1. r \notin behind /\ (r = s => ~(t.ts < hub[s].ts)) BY <1>3
  <2>2. CASE r # s BY <1>6, <2>1, <2>2 DEF SimInv, HubRemembers
  <2>3. CASE r = s
    <3>1. Front(open[s]) \in Int /\ (Front(open[s]) = None \/ Front(open[s]) <= Sim!Floor(t.ts))
      <4>1. Front(open[s]) \in Int BY <1>1, <1>2, BarsAreOpenOrNot DEF Starts
      <4>2. hub[s].ts \in Dates \cup {None} BY <1>1 DEF Hubs
      <4>3. CASE hub[s].ts = None BY <2>1, <2>3, <4>1, <4>3 DEF SimInv, HubRemembers
      <4>4. CASE hub[s].ts # None
        <5>1. hub[s].ts \in Int /\ hub[s].ts <= t.ts BY <1>2, <2>1, <2>3, <4>2, <4>4 DEF Dates
        <5>2. Sim!Floor(hub[s].ts) <= Sim!Floor(t.ts) /\ Sim!Floor(hub[s].ts) \in Int
          BY <1>2, <5>1, FloorGrows, FloorFacts
        <5>3. Front(open[s]) = None \/ Front(open[s]) <= Sim!Floor(hub[s].ts)
          BY <2>1, <2>3 DEF SimInv, HubRemembers
        <5> QED BY <1>2, <4>1, <5>2, <5>3
      <4> QED BY <4>3, <4>4
    <3>2. \/ Front(open'[s]) = Front(open[s]) \/ Front(open'[s]) = Sim!Floor(t.ts)
      BY <1>1, <1>7, ResampledBar
    <3> QED BY <1>2, <1>7, <2>3, <3>1, <3>2
  <2> QED BY <2>2, <2>3
<1>9. link = "subscribed" => link' = "subscribed" /\ open'[s] = Sim!Resampled(open[s], t)
  BY <1>1, <1>3 DEF Sim!Received
<1> DEFINE bars == IF Sim!Received THEN Sim!Closes(open[s], t) ELSE {}
<1>10. bars \in SUBSET Bars BY <1>1, ResampledBar
<1>11. Sim!OnPublish(s, t, by) = Sim!Watched(s, by, bars) BY DEF Sim!OnPublish
<1> HIDE DEF bars
<1>12. Sim!OnPublish(s, t, by) \in [Sessions -> Commands]
  <2>1. \A k \in Sessions : Sim!Watched(s, by, bars)[k] \in Commands
    BY <1>10, WatchedCommand DEF SimInv
  <2> DEFINE f(k) == IF session[k].op = "bars" /\ session[k].s = s
                     THEN [session[k] EXCEPT !.seen = Sim!Seen(session[k], bars),
                                             !.clean = @ /\ k = by]
                     ELSE session[k]
  <2>2. Sim!Watched(s, by, bars) = [k \in Sessions |-> f(k)] BY DEF Sim!Watched
  <2> HIDE DEF f
  <2> QED BY <1>11, <2>1, <2>2
<1>13. ASSUME NEW k \in Sessions, k # by
       PROVE  RunIsWhole(Sim!OnPublish(s, t, by)[k], open', link')
  <2> DEFINE w == Sim!OnPublish(s, t, by)[k]
  <2>1. CASE session[k].op = "bars" /\ session[k].s = s
    <3>1. w.clean = (session[k].clean /\ k = by)
      BY <1>10, <1>11, <2>1, WatchedCommand DEF SimInv
    <3> HIDE DEF w
    <3>2. ~w.clean BY <1>13, <3>1
    <3> QED BY <3>2 DEF RunIsWhole, w
  <2>2. CASE ~(session[k].op = "bars" /\ session[k].s = s)
    <3>1. w = session[k] BY <1>10, <1>11, <2>2, WatchedCommand DEF SimInv
    <3>2. w.op = "bars" => w.s \in Symbols /\ open'[w.s] = open[w.s]
      BY <1>6, <2>2, <3>1, KindsOfCommands DEF SimInv, SimTypeOK, Runs
    <3>3. RunIsWhole(w, open, link) BY <3>1 DEF SimInv, RunsAreWhole
    <3> HIDE DEF w
    <3>4. RunIsWhole(w, open', link') BY <1>9, <1>3, <3>2, <3>3 DEF RunIsWhole
    <3> QED BY <3>4 DEF w
  <2> QED BY <2>1, <2>2
<1> QED BY <1>4, <1>5, <1>8, <1>9, <1>12, <1>13

LEMMA PublishedCommand ==
    ASSUME SimAssumption, SimTypeOK, NEW s \in Symbols, NEW t \in Ticks, NEW by,
           NEW k \in Sessions
    PROVE  LET c == session[k]
               w == Sim!OnPublish(s, t, by)[k]
               bars == IF Sim!Received THEN Sim!Closes(open[s], t) ELSE {}
           IN  /\ c.op # "bars" => w = c
               /\ c.op = "bars" /\ c.s = s =>
                     /\ w \in Runs /\ w.s = s /\ w.at = c.at /\ w.rows = c.rows /\ w.sent = c.sent
                     /\ w.seal = c.seal /\ w.sealing = c.sealing /\ w.later = c.later
                     /\ w.asked = c.asked /\ w.seen = Sim!Seen(c, bars)
                     /\ w.clean = (c.clean /\ k = by)
<1> DEFINE bars == IF Sim!Received THEN Sim!Closes(open[s], t) ELSE {}
<1>1. bars \in SUBSET Bars BY ResampledBar DEF SimTypeOK
<1>2. Sim!OnPublish(s, t, by) = Sim!Watched(s, by, bars) BY DEF Sim!OnPublish
<1> HIDE DEF bars
<1>3. LET c == session[k]
          w == Sim!OnPublish(s, t, by)[k]
      IN  /\ c.op # "bars" => w = c
          /\ c.op = "bars" /\ c.s = s =>
                /\ w \in Runs /\ w.s = s /\ w.at = c.at /\ w.rows = c.rows /\ w.sent = c.sent
                /\ w.seal = c.seal /\ w.sealing = c.sealing /\ w.later = c.later
                /\ w.asked = c.asked /\ w.seen = Sim!Seen(c, bars)
                /\ w.clean = (c.clean /\ k = by)
  BY <1>1, <1>2, WatchedCommand
<1> QED BY <1>3 DEF bars

LEMMA LaterOfTwo ==
    ASSUME NEW a \in Int, NEW b \in Int
    PROVE  /\ Sim!Later(a, b) \in {a, b} /\ a <= Sim!Later(a, b) /\ b <= Sim!Later(a, b)
BY DEF Sim!Later

LEMMA TickKeepsSim ==
    ASSUME SimAssumption, SimInv, NEW k \in Sessions, NEW s \in Symbols, Sim!Tick(k, s)
    PROVE  SimInv'
<1>1. session[k] = Sim!Idle /\ UNCHANGED <<utc, names, tasks>> BY DEF Sim!Tick, Sim!Begin
<1>2. PICK p \in Prices, at \in Stamps \cup {Sim!NextMoment(s)} :
          LET t == [ts |-> at, price |-> p] IN
          /\ Sim!Publish(s, t, hub[s].cursor, k) /\ session' = Sim!OnPublish(s, t, k)
  BY DEF Sim!Tick
<1> DEFINE t == [ts |-> at, price |-> p]
<1>3. hub[s] \in Hubs /\ utc \in Nat BY DEF SimInv, SimTypeOK
<1>4. Sim!NextMoment(s) \in Dates
  <2>1. utc \in Int /\ utc \in Dates BY <1>3, TimesGoOn
  <2>2. hub[s].ts # None => hub[s].ts + 1 \in Int BY <1>3 DEF Hubs, Dates
  <2>3. hub[s].ts # None => /\ utc <= Sim!Later(utc, hub[s].ts + 1)
                            /\ Sim!Later(utc, hub[s].ts + 1) \in Int
    BY <2>1, <2>2, LaterOfTwo
  <2> QED BY <2>1, <2>3, TimesGoOn DEF Sim!NextMoment
<1>5. t \in Ticks /\ hub[s].cursor \in Starts \cup {None}
  BY <1>3, <1>4, TimesGoOn DEF Ticks, Hubs, SimAssumption
<1>6. Sim!Publish(s, t, hub[s].cursor, k) /\ session' = Sim!OnPublish(s, t, k) BY <1>2
<1> HIDE DEF t
<1>7. session'[k] = Sim!Idle
  <2>1. session[k].op # "bars" BY <1>1 DEF Sim!Idle
  <2> QED BY <1>1, <1>5, <1>6, <2>1, PublishedCommand DEF SimInv
<1>8. /\ hub' \in [Symbols -> Hubs] /\ open' \in [Symbols -> Bars \cup NoBars] /\ HubRemembers'
      /\ session' \in [Sessions -> Commands]
      /\ \A j \in Sessions : j # k => RunIsWhole(session'[j], open', link')
  BY <1>5, <1>6, PublishSpreads
<1>9. RunsAreWhole'
  <2>1. RunIsWhole(session'[k], open', link') BY <1>7 DEF RunIsWhole, Sim!Idle
  <2> QED BY <1>8, <2>1 DEF RunsAreWhole
<1> QED BY <1>1, <1>8, <1>9 DEF SimInv, SimTypeOK

LEMMA WalkTickKeepsSim ==
    ASSUME SimAssumption, SimInv, NEW i \in 1..MaxTasks, Sim!WalkTick(i)
    PROVE  SimInv'
<1> DEFINE w == tasks[i]
<1>1. w \in Tasks /\ w.state = "running" /\ w.symbol \in Symbols /\ utc \in Nat
      /\ hub[w.symbol] \in Hubs /\ UNCHANGED <<utc, names>>
  BY DEF Sim!WalkTick, SimInv, SimTypeOK
<1>2. PICK p \in Prices :
          LET t == [ts |-> w.moment, price |-> p] IN
          /\ Sim!Publish(w.symbol, t, hub[w.symbol].cursor, None)
          /\ session' = Sim!OnPublish(w.symbol, t, None)
          /\ tasks' = [tasks EXCEPT ![i] =
                 [w EXCEPT !.price = p, !.left = @ - 1, !.moment = Sim!Later(utc, @ + Step),
                           !.state = IF w.left = 1 THEN "finished" ELSE @]]
  BY DEF Sim!WalkTick
<1> DEFINE t == [ts |-> w.moment, price |-> p]
<1>3. t \in Ticks /\ hub[w.symbol].cursor \in Starts \cup {None} /\ p \in Int
  BY <1>1 DEF Ticks, Hubs, Tasks, SimAssumption
<1>4. Sim!Publish(w.symbol, t, hub[w.symbol].cursor, None)
      /\ session' = Sim!OnPublish(w.symbol, t, None)
  BY <1>2
<1> HIDE DEF t
<1>5. /\ hub' \in [Symbols -> Hubs] /\ open' \in [Symbols -> Bars \cup NoBars] /\ HubRemembers'
      /\ session' \in [Sessions -> Commands]
      /\ \A j \in Sessions : j # None => RunIsWhole(session'[j], open', link')
  BY <1>1, <1>3, <1>4, PublishSpreads
<1>6. RunsAreWhole'
  BY <1>5 DEF RunsAreWhole, SimAssumption
<1>7. /\ tasks' \in [1..MaxTasks -> Tasks]
      /\ \A j \in 1..MaxTasks : tasks'[j].state = "running" => tasks'[j].symbol \in Symbols
  <2> DEFINE m == Sim!Later(utc, w.moment + Step)
             x1 == [w EXCEPT !.price = p]
             x2 == [x1 EXCEPT !.left = @ - 1]
             x3 == [x2 EXCEPT !.moment = m]
             x4 == [x3 EXCEPT !.state = IF w.left = 1 THEN "finished" ELSE @]
  <2>1. m \in Dates
    <3>1. utc \in Int /\ utc \in Dates /\ w.moment + Step \in Int
      <4>1. w.moment \in Int BY <1>1 DEF Tasks, Dates
      <4>2. utc \in Int /\ utc \in Dates BY <1>1, TimesGoOn
      <4> HIDE DEF w
      <4> QED BY <4>1, <4>2 DEF SimAssumption
    <3>2. utc <= m /\ m \in Int BY <3>1, LaterOfTwo
    <3> QED BY <3>1, <3>2, TimesGoOn
  <2>2. tasks' = [tasks EXCEPT ![i] = x4] BY <1>1, <1>2 DEF Tasks
  <2> HIDE DEF m
  <2>3. x1 \in Tasks /\ x1.symbol = w.symbol BY <1>1, <1>3 DEF Tasks
  <2> HIDE DEF x1
  <2>4. x2 \in Tasks /\ x2.symbol = w.symbol BY <2>3 DEF Tasks
  <2> HIDE DEF x2
  <2>5. x3 \in Tasks /\ x3.symbol = w.symbol BY <2>1, <2>4 DEF Tasks
  <2> HIDE DEF x3
  <2>6. x4 \in Tasks /\ x4.symbol = w.symbol BY <2>5 DEF Tasks
  <2> HIDE DEF x4, w
  <2> QED BY <1>1, <2>2, <2>6 DEF SimInv, SimTypeOK
<1> QED BY <1>1, <1>5, <1>6, <1>7 DEF SimInv, SimTypeOK

-----------------------------------------------------------------------------
(* A run of bars: its ticks, its seal, its next batch.                     *)
LEMMA TicksOfBars ==
    ASSUME SimAssumption, NEW at \in Starts, NEW row \in SoundRows, NEW j \in 0..3
    PROVE  LET t == Sim!BarTicks(at, row)[j + 1]
           IN  t \in Ticks /\ Sim!Floor(t.ts) = at /\ t.price = Sim!Path(row)[j + 1]
               /\ t = [ts |-> t.ts, price |-> Sim!Path(row)[j + 1]]
<1> DEFINE o == Sim!Offsets[j + 1]
           p == Sim!Path(row)[j + 1]
<1>1. o \in 0..(Bucket - 1)
  <2>1. Bucket \in Nat \ {0} BY DEF SimAssumption
  <2>2. Bucket \div 4 \in 0..(Bucket - 1) /\ Bucket \div 2 \in 0..(Bucket - 1) BY <2>1, Z3T(30)
  <2>3. /\ Sim!Offsets[1] = 0 /\ Sim!Offsets[2] = Bucket \div 4 /\ Sim!Offsets[3] = Bucket \div 2
        /\ Sim!Offsets[4] = Bucket - 1
    BY DEF Sim!Offsets
  <2>4. j = 0 \/ j = 1 \/ j = 2 \/ j = 3 OBVIOUS
  <2> QED BY <2>1, <2>2, <2>3, <2>4
<1>2. p \in Int
  <2>1. j + 1 \in 1..4 OBVIOUS
  <2> QED BY <2>1, PartsGrow
<1>3. Sim!BarTicks(at, row)[j + 1] = [ts |-> at + o, price |-> p] BY DEF Sim!BarTicks
<1> HIDE DEF o, p
<1>4. at + o \in Dates /\ Sim!Floor(at + o) = at BY <1>1, TimesGoOn
<1>5. [ts |-> at + o, price |-> p] \in Ticks BY <1>2, <1>4 DEF Ticks
<1> QED BY <1>3, <1>4, <1>5 DEF p

LEMMA SeenBars ==
    ASSUME SimAssumption, NEW c \in Runs, NEW b \in Bars \cup NoBars, NEW i, NEW j,
           WholeAt(c, b, i, j)
    PROVE  Sim!Seen(c, InOpen(b)) = c.seen \cup InOpen(b) /\ Sim!Seen(c, {}) = c.seen
<1>1. b.at # None => \A n \in c.seen : n.at < b.at BY DEF WholeAt
<1>2. b.at # None => \A n \in c.seen : n.at # b.at
  <2>1. \A n \in c.seen : n.at \in Int BY DEF Runs, Bars, Starts
  <2>2. b.at # None => b.at \in Int BY BarsAreOpenOrNot DEF Bars, Starts
  <2> QED BY <1>1, <2>1, <2>2
<1>3. Sim!Seen(c, {}) = c.seen BY DEF Sim!Seen
<1>4. Sim!Seen(c, InOpen(b)) = c.seen \cup InOpen(b) BY <1>2 DEF Sim!Seen, InOpen
<1> QED BY <1>3, <1>4

\* The next tick of a run that is whole.
LEMMA WholeRunGoesOn ==
    ASSUME SimAssumption, NEW c \in Runs, NEW b \in Bars \cup NoBars, NEW i \in Nat, NEW j \in Nat,
           WholeAt(c, b, i, j), i < Len(c.rows),
           NEW t, t = Sim!BarTicks(c.at + i * Bucket, c.rows[i + 1])[j + 1],
           NEW w \in Runs, w.at = c.at, w.rows = c.rows, w.asked = c.asked,
           w.sent = c.sent + 1, w.seen = Sim!Seen(c, Sim!Closes(b, t))
    PROVE  \E m \in Nat, n \in Nat : WholeAt(w, Sim!Resampled(b, t), m, n)
<1> DEFINE at == c.at + i * Bucket
           row == c.rows[i + 1]
           d == Sim!Resampled(b, t)
<1>1. /\ j \in 0..3 /\ c.sent = 4 * i + j /\ i + 1 \in 1..Len(c.rows) /\ Len(c.rows) \in Nat
      /\ c.at \in Starts /\ row \in SoundRows
  BY DEF WholeAt, Runs
<1>2. at \in Starts /\ at \in Int /\ at # None /\ at > None /\ None \in Int
  BY <1>1, LaterStarts, TimesGoOn DEF SimAssumption
<1>3. FirstOf(w, i) = FirstOf(c, i) BY DEF FirstOf
<1>4. FirstOf(w, i + 1) = FirstOf(c, i) \cup {Sim!ExpectedCandle(at, row)}
  <2>1. 1..(i + 1) = 1..i \cup {i + 1} /\ (i + 1) - 1 = i OBVIOUS
  <2> QED BY <2>1 DEF FirstOf
<1>5. w.at + i * Bucket = at /\ w.rows[i + 1] = row OBVIOUS
<1>6. w.at + (i + 1) * Bucket > at
  <2>1. Bucket \in Nat \ {0} /\ c.at \in Int BY <1>1 DEF SimAssumption, Starts
  <2>2. (i + 1) * Bucket = i * Bucket + Bucket /\ i * Bucket \in Int BY <2>1
  <2> QED BY <2>1, <2>2
<1>7. /\ t \in Ticks /\ Sim!Floor(t.ts) = at /\ t.price = Sim!Path(row)[j + 1]
      /\ t = [ts |-> t.ts, price |-> Sim!Path(row)[j + 1]]
  BY <1>1, <1>2, TicksOfBars
<1>8. Front(b) \in Int /\ (b.at # None => Front(b) = b.at)
  BY <1>2, BarsAreOpenOrNot DEF Starts
<1>9. \A n \in c.seen : n.at \in Int BY DEF Runs, Bars, Starts
<1> HIDE DEF at, row, d
<1>10. CASE j = 0
  <2>1. Front(b) < at /\ c.asked \cup FirstOf(c, i) \subseteq c.seen \cup InOpen(b)
    BY <1>10 DEF WholeAt, at
  <2>2. d = Part(at, row, 1) /\ Sim!Closes(b, t) = InOpen(b)
    <3>1. /\ Sim!Resampled(b, t) = [at |-> at, open |-> t.price, high |-> t.price,
                                     low |-> t.price, close |-> t.price, ticks |-> 1]
          /\ Sim!Closes(b, t) = InOpen(b)
      BY <1>2, <1>7, <1>8, <2>1, ResampledBar
    <3>2. t.price = row.open BY <1>1, <1>2, <1>7, <1>10, PartsGrow
    <3>3. Part(at, row, 1) = [at |-> at, open |-> row.open, high |-> row.open, low |-> row.open,
                              close |-> row.open, ticks |-> 1]
      BY <1>1, <1>2, PartsGrow
    <3> QED BY <3>1, <3>2, <3>3 DEF d
  <2>3. w.seen = c.seen \cup InOpen(b) BY <2>2, SeenBars
  <2>4. d.at = at /\ Front(d) = at BY <1>2, <2>2 DEF Part, Front
  <2>5. \A n \in w.seen : n.at < at
    BY <1>2, <1>8, <1>9, <2>1, <2>3 DEF WholeAt, InOpen
  <2>6. WholeAt(w, d, i, 1)
    <3>1. i \in 0..Len(w.rows) /\ 1 \in 0..3 /\ w.sent = 4 * i + 1 /\ i < Len(w.rows)
      BY <1>1, <1>10
    <3>2. \A n \in w.seen : n.at <= Front(d) /\ (d.at # None => n.at < d.at)
      <4>1. \A n \in w.seen : n.at \in Int BY DEF Runs, Bars, Starts
      <4> QED BY <1>2, <2>4, <2>5, <4>1
    <3>3. d = Part(w.at + i * Bucket, w.rows[i + 1], 1) BY <1>5, <2>2
    <3>4. w.asked \cup FirstOf(w, i) \subseteq w.seen BY <1>3, <2>1, <2>3
    <3> QED BY <3>1, <3>2, <3>3, <3>4 DEF WholeAt
  <2> QED BY <2>6 DEF d
<1>11. CASE j \in 1..3
  <2>1. b = Part(at, row, j) /\ c.asked \cup FirstOf(c, i) \subseteq c.seen
    BY <1>11 DEF WholeAt, at, row
  <2>2. b.at = at /\ Front(b) = at BY <1>2, <2>1 DEF Part, Front
  <2>3. d = Sim!Fold(b, t) /\ Sim!Closes(b, t) = {}
    BY <1>2, <1>7, <2>2, ResampledBar DEF d
  <2>4. d = Part(at, row, j + 1)
    BY <1>1, <1>2, <1>7, <1>11, <2>1, <2>3, PartsGrow
  <2>5. w.seen = c.seen BY <2>3, SeenBars
  <2>6. d.at = at /\ Front(d) = at BY <1>2, <2>4 DEF Part, Front
  <2>7. \A n \in w.seen : n.at < at BY <1>2, <2>2, <2>5 DEF WholeAt
  <2>8. CASE j < 3
    <3>1. j + 1 \in 1..3 /\ w.sent = 4 * i + (j + 1) BY <1>1, <1>11, <2>8
    <3>2. WholeAt(w, d, i, j + 1)
      BY <1>1, <1>2, <1>3, <1>5, <1>9, <2>1, <2>4, <2>5, <2>6, <2>7, <3>1 DEF WholeAt
    <3> QED BY <3>2 DEF d
  <2>9. CASE j = 3
    <3>1. w.sent = 4 * (i + 1) + 0 BY <1>1, <2>9
    <3>2. d = Sim!ExpectedCandle(at, row) /\ InOpen(d) = {d}
      BY <1>1, <1>2, <2>4, <2>6, <2>9, PartsGrow DEF InOpen
    <3>3. w.asked \cup FirstOf(w, i + 1) \subseteq w.seen \cup InOpen(d)
      BY <1>4, <2>1, <2>5, <3>2
    <3>4. \E m \in Nat, n \in Nat : WholeAt(w, d, m, n)
      <4>1. i + 1 \in 0..Len(w.rows) /\ 0 \in 0..3 BY <1>1
      <4>2. Front(d) < w.at + (i + 1) * Bucket BY <1>2, <1>6, <2>6
      <4>3. \A n \in w.seen : n.at <= Front(d) /\ (d.at # None => n.at < d.at)
        BY <1>2, <1>9, <2>5, <2>6, <2>7
      <4> PICK m \in Nat : m = i + 1 OBVIOUS
      <4>4. /\ m \in 0..Len(w.rows) /\ w.sent = 4 * m + 0 /\ Front(d) < w.at + m * Bucket
            /\ w.asked \cup FirstOf(w, m) \subseteq w.seen \cup InOpen(d)
        BY <3>1, <3>3, <4>1, <4>2
      <4>5. WholeAt(w, d, m, 0) BY <4>1, <4>3, <4>4 DEF WholeAt
      <4> QED BY <4>5
    <3> QED BY <3>4 DEF d
  <2> QED BY <1>11, <2>8, <2>9
<1> QED BY <1>1, <1>10, <1>11

LEMMA Quarters ==
    ASSUME NEW n \in Nat
    PROVE  /\ n \div 4 \in Nat /\ n % 4 \in 0..3 /\ n = 4 * (n \div 4) + (n % 4)
           /\ \A i \in Nat, j \in 0..3 : n = 4 * i + j => n \div 4 = i /\ n % 4 = j
OBVIOUS

LEMMA CursorsAdvance ==
    ASSUME SimTypeOK, NEW s \in Symbols, NEW at \in Starts
    PROVE  Sim!AdvanceCursor(s, at) \in Starts \cup {None}
BY DEF Sim!AdvanceCursor, SimTypeOK, Hubs

LEMMA BarsOfRuns ==
    ASSUME SimAssumption, NEW c \in Runs
    PROVE  /\ Sim!RunOf(c) = FirstOf(c, Len(c.rows)) /\ Sim!RunOf(c) \subseteq Bars
           /\ Sim!LastOpen(c) + Bucket = c.at + Len(c.rows) * Bucket
           /\ c.at + Len(c.rows) * Bucket \in Starts /\ Len(c.rows) \in Nat \ {0}
           /\ c.rows[Len(c.rows)] \in SoundRows
<1>1. /\ c.at \in Starts /\ c.at \in Int /\ c.rows \in Seq(SoundRows) /\ Len(c.rows) \in Nat \ {0}
      /\ DOMAIN c.rows = 1..Len(c.rows) /\ Bucket \in Nat \ {0}
      /\ \A n \in 1..Len(c.rows) : c.rows[n] \in SoundRows
  BY DEF Runs, Starts, SimAssumption
<1>2. Sim!RunOf(c) = FirstOf(c, Len(c.rows)) BY <1>1 DEF Sim!RunOf, FirstOf
<1>3. ASSUME NEW n \in 1..Len(c.rows)
      PROVE  Sim!ExpectedCandle(c.at + (n - 1) * Bucket, c.rows[n]) \in Bars
  <2>1. n - 1 \in Nat BY <1>1
  <2>2. c.at + (n - 1) * Bucket \in Starts BY <1>1, <2>1, LaterStarts
  <2>3. 4 \in 1..4 OBVIOUS
  <2> QED BY <1>1, <2>2, <2>3, PartsGrow
<1>4. Sim!RunOf(c) \subseteq Bars BY <1>2, <1>3 DEF FirstOf
<1>5. Sim!LastOpen(c) + Bucket = c.at + Len(c.rows) * Bucket
  <2> PICK n \in Nat : n = Len(c.rows) BY <1>1
  <2>1. (n - 1) * Bucket + Bucket = n * Bucket /\ (n - 1) * Bucket \in Int BY <1>1
  <2> QED BY <1>1, <2>1 DEF Sim!LastOpen
<1>6. c.at + Len(c.rows) * Bucket \in Starts BY <1>1, LaterStarts
<1> QED BY <1>1, <1>2, <1>4, <1>5, <1>6

LEMMA PlayTickKeepsSim ==
    ASSUME SimAssumption, SimInv, NEW k \in Sessions, Sim!PlayTick(k)
    PROVE  SimInv'
<1> DEFINE c == session[k]
           i == c.sent \div 4
           j == c.sent % 4
           at == c.at + i * Bucket
           row == c.rows[i + 1]
           t == Sim!BarTicks(at, row)[j + 1]
           cursor == IF j = 3 THEN Sim!AdvanceCursor(c.s, at) ELSE hub[c.s].cursor
           f == Sim!OnPublish(c.s, t, k)
<1>1. c \in Runs /\ c.sent < 4 * Len(c.rows) /\ Len(c.rows) \in Nat /\ UNCHANGED <<utc, names, tasks>>
  <2>1. c \in Commands BY DEF SimInv, SimTypeOK
  <2>2. c.op = "bars" /\ c.sent < 4 * Len(c.rows) /\ UNCHANGED <<utc, names, tasks>>
    BY DEF Sim!PlayTick
  <2>3. c \in Runs BY <2>1, <2>2, KindsOfCommands
  <2>4. Len(c.rows) \in Nat BY <2>3 DEF Runs
  <2> QED BY <2>2, <2>3, <2>4
<1>2. i \in Nat /\ j \in 0..3 /\ c.sent = 4 * i + j /\ (i + 1) - 1 = i
  BY <1>1, Quarters DEF Runs
<1>3. i + 1 \in 1..Len(c.rows) BY <1>1, <1>2
<1>4. Sim!Publish(c.s, t, cursor, k) /\ session' = [f EXCEPT ![k].sent = @ + 1]
  BY <1>2 DEF Sim!PlayTick
<1>5. at \in Starts /\ row \in SoundRows /\ c.s \in Symbols
  <2>1. c.at \in Starts /\ c.s \in Symbols /\ c.rows \in Seq(SoundRows) BY <1>1 DEF Runs
  <2>2. row \in SoundRows BY <1>3, <2>1
  <2> HIDE DEF i, c
  <2> QED BY <1>2, <2>1, <2>2, LaterStarts
<1>6. t \in Ticks BY <1>2, <1>5, TicksOfBars
<1>7. cursor \in Starts \cup {None} BY <1>5, CursorsAdvance DEF SimInv, SimTypeOK, Hubs
<1> HIDE DEF cursor, i, j
<1> DEFINE tick == t
<1>8. tick \in Ticks /\ tick = t BY <1>6
<1> HIDE DEF tick
<1>9. Sim!Publish(c.s, tick, cursor, k) /\ f = Sim!OnPublish(c.s, tick, k) BY <1>4, <1>8
<1>10. /\ hub' \in [Symbols -> Hubs] /\ open' \in [Symbols -> Bars \cup NoBars] /\ HubRemembers'
       /\ link = "subscribed" => link' = "subscribed" /\ open'[c.s] = Sim!Resampled(open[c.s], tick)
       /\ f \in [Sessions -> Commands]
       /\ \A o \in Sessions : o # k => RunIsWhole(f[o], open', link')
  BY <1>5, <1>7, <1>8, <1>9, PublishSpreads
<1> DEFINE bars == IF Sim!Received THEN Sim!Closes(open[c.s], tick) ELSE {}
           w == f[k]
           x == [w EXCEPT !.sent = @ + 1]
<1>11. /\ w \in Runs /\ w.s = c.s /\ w.at = c.at /\ w.rows = c.rows /\ w.sent = c.sent
       /\ w.seal = c.seal /\ w.later = c.later /\ w.asked = c.asked /\ w.seen = Sim!Seen(c, bars)
       /\ w.clean = (c.clean /\ k = k)
  <2>1. c.op = "bars" /\ SimTypeOK BY <1>1 DEF Runs, SimInv
  <2> DEFINE v == Sim!OnPublish(c.s, tick, k)[k]
  <2>2. w = v BY <1>9
  <2> HIDE DEF w, c
  <2>3. /\ v \in Runs /\ v.s = c.s /\ v.at = c.at /\ v.rows = c.rows /\ v.sent = c.sent
        /\ v.seal = c.seal /\ v.later = c.later /\ v.asked = c.asked
        /\ v.seen = Sim!Seen(c, bars) /\ v.clean = (c.clean /\ k = k)
    BY <1>5, <1>8, <2>1, PublishedCommand DEF c
  <2> HIDE DEF v, bars
  <2> QED BY <2>2, <2>3
<1> HIDE DEF w
<1>12. /\ x \in Runs /\ x.s = c.s /\ x.at = c.at /\ x.rows = c.rows /\ x.sent = c.sent + 1
       /\ x.seal = c.seal /\ x.later = c.later /\ x.asked = c.asked /\ x.seen = w.seen
       /\ x.clean = w.clean
  BY <1>11 DEF Runs
<1> HIDE DEF f, x, bars
<1>13. session' = [f EXCEPT ![k] = x] BY <1>4, <1>10 DEF w, x
<1>14. session' \in [Sessions -> Commands] /\ session'[k] = x
  BY <1>10, <1>12, <1>13 DEF Commands
<1>15. RunIsWhole(x, open', link')
  <2> SUFFICES ASSUME x.clean
               PROVE  /\ link' = "subscribed" /\ (x.seal => x.later = <<>>)
                      /\ \E m \in Nat, n \in Nat : WholeAt(x, open'[x.s], m, n)
    BY DEF RunIsWhole
  <2>1. c.clean /\ c.op = "bars" /\ RunIsWhole(c, open, link)
    <3>1. c.clean = TRUE BY <1>1, <1>11, <1>12 DEF Runs
    <3>2. c.op = "bars" BY <1>1 DEF Runs
    <3> QED BY <3>1, <3>2 DEF SimInv, RunsAreWhole
  <2>2. link = "subscribed" /\ (c.seal => c.later = <<>>) BY <2>1 DEF RunIsWhole
  <2>3. PICK m \in Nat, n \in Nat : WholeAt(c, open[c.s], m, n) BY <2>1 DEF RunIsWhole
  <2>4. m = i /\ n = j
    <3>1. n \in 0..3 /\ c.sent = 4 * m + n BY <2>3 DEF WholeAt
    <3>2. c.sent \in Nat BY <1>1 DEF Runs
    <3>3. i = c.sent \div 4 /\ j = c.sent % 4 BY DEF i, j
    <3> HIDE DEF c
    <3>4. c.sent \div 4 = m /\ c.sent % 4 = n BY <3>1, <3>2, Quarters
    <3> QED BY <3>3, <3>4
  <2>5. x.seen = Sim!Seen(c, Sim!Closes(open[c.s], tick))
    BY <1>11, <1>12, <2>2 DEF bars, Sim!Received
  <2>6. open[c.s] \in Bars \cup NoBars BY <1>5 DEF SimInv, SimTypeOK
  <2>7. tick = Sim!BarTicks(c.at + i * Bucket, c.rows[i + 1])[j + 1] /\ i < Len(c.rows)
    BY <1>1, <1>2, <1>3, <1>8
  <2> HIDE DEF c
  <2>8. \E o \in Nat, p \in Nat : WholeAt(x, Sim!Resampled(open[c.s], tick), o, p)
    <3>1. WholeAt(c, open[c.s], i, j) BY <2>3, <2>4
    <3> DEFINE b == open[c.s]
    <3>2. b \in Bars \cup NoBars /\ WholeAt(c, b, i, j) /\ x.seen = Sim!Seen(c, Sim!Closes(b, tick))
      BY <2>5, <2>6, <3>1
    <3>3. /\ x \in Runs /\ x.at = c.at /\ x.rows = c.rows /\ x.sent = c.sent + 1
          /\ x.asked = c.asked
      BY <1>12
    <3> HIDE DEF b
    <3>4. \E o \in Nat, p \in Nat : WholeAt(x, Sim!Resampled(b, tick), o, p)
      <4>1. i \in Nat /\ j \in Nat /\ c \in Runs BY <1>1, <1>2
      <4> QED BY <2>7, <3>2, <3>3, <4>1, WholeRunGoesOn, Zenon
    <3> QED BY <3>4 DEF b
  <2> QED BY <1>10, <1>12, <2>2, <2>8
<1>16. RunsAreWhole'
  <2>1. \A o \in Sessions : o # k => session'[o] = f[o] BY <1>10, <1>13
  <2> QED BY <1>10, <1>14, <1>15, <2>1 DEF RunsAreWhole
<1> QED BY <1>1, <1>10, <1>14, <1>16 DEF SimInv, SimTypeOK

-----------------------------------------------------------------------------
(* A run is placed on the clock.                                           *)
LEMMA Batches ==
    ASSUME SimAssumption, NEW rows \in Seq(SoundRows) \ {<<>>}
    PROVE  /\ Sim!Batch(rows) \in Seq(SoundRows) \ {<<>>}
           /\ Len(Sim!Batch(rows)) \in 1..Len(rows)
           /\ Sim!AfterBatch(rows) \in Seq(SoundRows)
<1>1. MaxBars \in Nat \ {0} /\ Len(rows) \in Nat \ {0} BY DEF SimAssumption
<1>2. PICK n \in 1..Len(rows) : n = IF Len(rows) > MaxBars THEN MaxBars ELSE Len(rows) BY <1>1
<1>3. SubSeq(rows, 1, n) \in Seq(SoundRows) /\ Len(SubSeq(rows, 1, n)) = n BY <1>1, <1>2
<1>4. Sim!Batch(rows) = SubSeq(rows, 1, n) BY <1>2 DEF Sim!Batch
<1>5. SubSeq(rows, MaxBars + 1, Len(rows)) \in Seq(SoundRows)
  <2>1. \A m \in (MaxBars + 1)..Len(rows) : rows[m] \in SoundRows BY <1>1
  <2> QED BY <1>1, <2>1
<1>6. SubSeq(rows, 1, n) # <<>> BY <1>2, <1>3
<1> QED BY <1>3, <1>4, <1>5, <1>6 DEF Sim!AfterBatch

LEMMA PlacedRun ==
    ASSUME SimAssumption, NEW s \in Symbols, NEW rows \in Seq(SoundRows) \ {<<>>}, NEW anchor,
           NEW later \in Seq(SoundRows), NEW seal \in BOOLEAN, NEW clean \in BOOLEAN,
           Sim!FirstOpen(Len(rows), anchor,
                         IF anchor.mode = "next" THEN Sim!SeriesEnd(s) ELSE None) \in Starts
    PROVE  LET c == Sim!Placed(s, rows, anchor, later, seal, clean)
           IN  /\ c \in Runs /\ c.s = s /\ c.rows = rows /\ c.sent = 0 /\ c.clean = clean
               /\ c.at = Sim!FirstOpen(Len(rows), anchor,
                                       IF anchor.mode = "next" THEN Sim!SeriesEnd(s) ELSE None)
               /\ c.seen = {} /\ c.asked = {} /\ (c.seal => c.later = <<>>)
<1> DEFINE first == Sim!FirstOpen(Len(rows), anchor,
                                  IF anchor.mode = "next" THEN Sim!SeriesEnd(s) ELSE None)
           c == [op |-> "bars", s |-> s, at |-> first, rows |-> rows, sent |-> 0,
                 seal |-> seal /\ later = <<>>, sealing |-> seal, later |-> later, clean |-> clean,
                 seen |-> {}, asked |-> {}]
<1>1. Sim!Placed(s, rows, anchor, later, seal, clean) = c BY DEF Sim!Placed
<1>2. first \in Starts OBVIOUS
<1>3. (seal /\ later = <<>>) \in BOOLEAN OBVIOUS
<1> HIDE DEF first
<1>4. c \in Runs BY <1>2, <1>3 DEF Runs
<1>5. /\ c.s = s /\ c.rows = rows /\ c.sent = 0 /\ c.clean = clean /\ c.at = first
      /\ c.seen = {} /\ c.asked = {} /\ c.later = later /\ c.seal = (seal /\ later = <<>>)
  OBVIOUS
<1> HIDE DEF c
<1> QED BY <1>1, <1>4, <1>5 DEF first

LEMMA SeriesEnds ==
    ASSUME SimAssumption, SimInv, NEW s \in Symbols
    PROVE  /\ Sim!SeriesEnd(s) \in Starts \cup {None}
           /\ s \notin behind => Front(open[s]) <= Sim!SeriesEnd(s)
<1>1. /\ hub[s] \in Hubs /\ open[s] \in Bars \cup NoBars /\ None \in Int
  BY DEF SimInv, SimTypeOK, SimAssumption
<1>2. Front(open[s]) \in Int /\ Front(open[s]) >= None
  BY <1>1, BarsAreOpenOrNot DEF Starts
<1>3. /\ hub[s].cursor \in Starts \cup {None} /\ hub[s].cursor \in Int /\ hub[s].cursor >= None
      /\ hub[s].ts \in Dates \cup {None}
  BY <1>1 DEF Hubs, Starts
<1>4. CASE hub[s].ts = None
  <2>1. s \notin behind => Front(open[s]) = None BY <1>4 DEF SimInv, HubRemembers
  <2> QED BY <1>2, <1>3, <1>4, <2>1 DEF Sim!SeriesEnd
<1>5. CASE hub[s].ts # None
  <2>1. Sim!Floor(hub[s].ts) \in Starts /\ Sim!Floor(hub[s].ts) \in Int
    BY <1>3, <1>5, TimesGoOn
  <2>2. PICK n : n = Sim!Later(hub[s].cursor, Sim!Floor(hub[s].ts)) OBVIOUS
  <2>3. /\ n \in {hub[s].cursor, Sim!Floor(hub[s].ts)} /\ n >= Sim!Floor(hub[s].ts) /\ n \in Int
    BY <1>3, <2>1, <2>2, LaterOfTwo
  <2>4. Sim!Floor(hub[s].ts) > None BY <2>1 DEF Starts
  <2>5. n \in Starts BY <1>1, <1>3, <2>1, <2>3, <2>4
  <2>6. Sim!SeriesEnd(s) = n BY <1>5, <2>2 DEF Sim!SeriesEnd
  <2>7. s \notin behind => Front(open[s]) <= Sim!Floor(hub[s].ts)
    BY <1>1, <1>2, <2>1, <2>4 DEF SimInv, HubRemembers
  <2> QED BY <1>2, <2>1, <2>3, <2>5, <2>6, <2>7
<1> QED BY <1>4, <1>5

\* A run at "next" begins behind every bar of a series the hub kept track of.
LEMMA NextIsBehind ==
    ASSUME SimAssumption, SimInv, NEW s \in Symbols, NEW n
    PROVE  /\ Sim!FirstOpen(n, Sim!Forward, Sim!SeriesEnd(s)) \in Starts
           /\ s \notin behind =>
                 Front(open[s]) < Sim!FirstOpen(n, Sim!Forward, Sim!SeriesEnd(s))
<1> DEFINE e == Sim!SeriesEnd(s)
           m == Sim!Floor(utc)
           first == IF e = None THEN m ELSE Sim!Later(e + Bucket, m)
<1>1. Sim!FirstOpen(n, Sim!Forward, e) = first BY DEF Sim!FirstOpen, Sim!Forward
<1>2. e \in Starts \cup {None} /\ (s \notin behind => Front(open[s]) <= e) BY SeriesEnds
<1>3. m \in Starts BY TimesGoOn DEF SimInv, SimTypeOK
<1>4. m \in Int /\ m > None /\ None \in Int /\ Bucket \in Nat \ {0}
  BY <1>3 DEF Starts, SimAssumption
<1>5. open[s] \in Bars \cup NoBars BY DEF SimInv, SimTypeOK
<1>6. Front(open[s]) \in Int BY <1>4, <1>5, BarsAreOpenOrNot DEF Starts
<1> HIDE DEF e, m
<1>7. CASE e = None BY <1>1, <1>2, <1>3, <1>4, <1>6, <1>7 DEF e
<1>8. CASE e # None
  <2>1. e \in Starts /\ e \in Int /\ e + Bucket \in Starts /\ e + Bucket \in Int
    BY <1>2, <1>8, TimesGoOn
  <2>2. PICK l : l = Sim!Later(e + Bucket, m) OBVIOUS
  <2>3. l \in {e + Bucket, m} /\ l >= e + Bucket /\ l \in Int BY <1>4, <2>1, <2>2, LaterOfTwo
  <2>4. l \in Starts BY <1>3, <2>1, <2>3
  <2>5. first = l BY <1>8, <2>2
  <2>6. s \notin behind => Front(open[s]) < l BY <1>2, <1>4, <1>6, <2>1, <2>3
  <2> QED BY <1>1, <2>4, <2>5, <2>6 DEF e
<1> QED BY <1>7, <1>8

LEMMA PastStarts ==
    ASSUME SimAssumption, SimInv, NEW rows \in Rows, NEW n \in 1..Len(rows)
    PROVE  Sim!FirstOpen(n, Sim!Past, None) \in Starts
<1>1. /\ Bucket \in Nat \ {0} /\ utc \in Nat /\ Len(rows) \in Nat /\ n \in Nat /\ None \in Int
      /\ None < 0 - Len(rows) * Bucket
  BY DEF SimAssumption, SimInv, SimTypeOK
<1>2. Sim!FirstOpen(n, Sim!Past, None) = Sim!Floor(utc) - n * Bucket
  BY DEF Sim!FirstOpen, Sim!Past
<1>3. PICK q \in Int : utc - (utc % Bucket) = Bucket * q
  <2>1. utc \in Int BY <1>1
  <2>2. \E q \in Int : /\ utc - (utc % Bucket) = Bucket * q /\ Bucket * q <= utc
                       /\ utc < Bucket * q + Bucket
    BY <1>1, <2>1, FloorIsMultiple, Zenon
  <2> QED BY <2>2, Zenon
<1>4. Sim!Floor(utc) = Bucket * q /\ Sim!Floor(utc) \in Nat
  <2>1. utc \in Int BY <1>1
  <2>2. Sim!Floor(utc) \in Nat BY <1>1, <2>1, FloorFacts, Zenon
  <2> QED BY <1>3, <2>2, Zenon DEF Sim!Floor
<1>5. PICK u \in Int : u = Bucket * q - n * Bucket BY <1>1
<1>6. Bucket * (q - n) = u BY <1>1, <1>5
<1>7. Sim!Floor(u) = u
  <2>1. q - n \in Int /\ Bucket * (q - n) <= u /\ u < Bucket * (q - n) + Bucket BY <1>1, <1>6
  <2>2. u - (u % Bucket) = Bucket * (q - n) BY <1>1, <2>1, FloorIsLast
  <2> QED BY <1>6, <2>2 DEF Sim!Floor
<1>8. n * Bucket <= Len(rows) * Bucket /\ n * Bucket \in Int /\ Len(rows) * Bucket \in Int BY <1>1
<1>9. u > None BY <1>1, <1>4, <1>5, <1>8
<1> QED BY <1>2, <1>4, <1>5, <1>7, <1>9 DEF Starts

LEMMA BarsKeepSim ==
    ASSUME SimAssumption, SimInv, NEW k \in Sessions, NEW s \in Symbols, Sim!Bars(k, s)
    PROVE  SimInv'
<1>1. UNCHANGED <<utc, hub, link, open, names, tasks, behind>> /\ session[k] = Sim!Idle
  BY DEF Sim!Bars, Sim!Begin
<1>2. PICK rows \in Rows, seal \in BOOLEAN,
           anchor \in {Sim!Past, Sim!Forward} \cup {Sim!At(t) : t \in Stamps} :
          session' = [session EXCEPT ![k] =
              Sim!Placed(s, Sim!Batch(rows), Sim!FirstAnchor(anchor, Len(rows)),
                         Sim!AfterBatch(rows), seal,
                         /\ anchor.mode = "next" /\ seal /\ link = "subscribed" /\ s \notin behind
                         /\ \A j \in Sessions \ {k} : session[j] = Sim!Idle)]
  BY DEF Sim!Bars
<1> DEFINE batch == Sim!Batch(rows)
           a == Sim!FirstAnchor(anchor, Len(rows))
           clean == /\ anchor.mode = "next" /\ seal /\ link = "subscribed" /\ s \notin behind
                    /\ \A j \in Sessions \ {k} : session[j] = Sim!Idle
           first == Sim!FirstOpen(Len(batch), a, IF a.mode = "next" THEN Sim!SeriesEnd(s) ELSE None)
           c == Sim!Placed(s, batch, a, Sim!AfterBatch(rows), seal, clean)
<1>3. rows \in Seq(SoundRows) \ {<<>>} BY DEF SimAssumption
<1>4. /\ batch \in Seq(SoundRows) \ {<<>>} /\ Len(batch) \in 1..Len(rows)
      /\ Sim!AfterBatch(rows) \in Seq(SoundRows)
  BY <1>3, Batches
<1>5. clean \in BOOLEAN OBVIOUS
<1> HIDE DEF batch, clean
<1>6. /\ first \in Starts
      /\ clean => Front(open[s]) < first /\ link = "subscribed"
  <2>1. CASE anchor = Sim!Past
    <3>1. anchor.mode = "past" BY <2>1 DEF Sim!Past
    <3>2. ~clean BY <3>1 DEF clean
    <3>3. CASE Len(rows) > MaxBars
      <4>1. a = Sim!At(Sim!FirstOpen(Len(rows), Sim!Past, None)) BY <2>1, <3>1, <3>3 DEF Sim!FirstAnchor
      <4>2. first = Sim!Floor(Sim!FirstOpen(Len(rows), Sim!Past, None))
        <5> PICK u : u = Sim!FirstOpen(Len(rows), Sim!Past, None) OBVIOUS
        <5>1. a = Sim!At(u) BY <4>1
        <5>2. Sim!FirstOpen(Len(batch), Sim!At(u), IF a.mode = "next" THEN Sim!SeriesEnd(s) ELSE None)
                = Sim!Floor(u)
          BY DEF Sim!FirstOpen, Sim!At
        <5> HIDE DEF a
        <5> QED BY <5>1, <5>2
      <4>3. Sim!FirstOpen(Len(rows), Sim!Past, None) \in Starts
        <5>1. Len(rows) \in 1..Len(rows) BY <1>4
        <5> QED BY <5>1, PastStarts
      <4> QED BY <3>2, <4>2, <4>3, TimesGoOn DEF Starts
    <3>4. CASE ~(Len(rows) > MaxBars)
      <4>1. a = Sim!Past /\ a.mode = "past" BY <2>1, <3>1, <3>4 DEF Sim!FirstAnchor
      <4>2. first = Sim!FirstOpen(Len(batch), Sim!Past, None) BY <4>1
      <4> QED BY <1>4, <3>2, <4>2, PastStarts
    <3> QED BY <3>3, <3>4
  <2>2. CASE anchor = Sim!Forward
    <3>1. anchor.mode = "next" BY <2>2 DEF Sim!Forward
    <3>2. a = Sim!Forward /\ a.mode = "next" BY <2>2, <3>1 DEF Sim!FirstAnchor
    <3>3. first = Sim!FirstOpen(Len(batch), Sim!Forward, Sim!SeriesEnd(s)) BY <3>2
    <3>4. clean => s \notin behind /\ link = "subscribed" BY DEF clean
    <3> HIDE DEF first
    <3> QED BY <3>3, <3>4, NextIsBehind
  <2>3. CASE \E t \in Stamps : anchor = Sim!At(t)
    <3>1. PICK t \in Stamps : anchor = Sim!At(t) BY <2>3
    <3>2. anchor.mode = "at" BY <3>1 DEF Sim!At
    <3>3. ~clean BY <3>2 DEF clean
    <3>4. a = Sim!At(t) BY <3>1, <3>2 DEF Sim!FirstAnchor
    <3>5. first = Sim!Floor(t) BY <3>4 DEF Sim!FirstOpen, Sim!At
    <3>6. t \in Nat BY DEF SimAssumption
    <3> QED BY <3>3, <3>5, <3>6, TimesGoOn
  <2> QED BY <2>1, <2>2, <2>3
<1>7. /\ c \in Runs /\ c.s = s /\ c.rows = batch /\ c.sent = 0 /\ c.clean = clean /\ c.at = first
      /\ c.seen = {} /\ c.asked = {} /\ (c.seal => c.later = <<>>)
  BY <1>4, <1>5, <1>6, PlacedRun
<1>8. session' = [session EXCEPT ![k] = c] BY <1>2 DEF batch, clean
<1> HIDE DEF c, first, a
<1>9. session' \in [Sessions -> Commands] /\ session'[k] = c
  BY <1>7, <1>8 DEF SimInv, SimTypeOK, Commands
<1>10. RunIsWhole(c, open, link)
  <2> SUFFICES ASSUME clean PROVE link = "subscribed" /\ \E i \in Nat, j \in Nat : WholeAt(c, open[c.s], i, j)
    BY <1>7 DEF RunIsWhole
  <2>1. Front(open[s]) < first /\ link = "subscribed" BY <1>6
  <2>2. FirstOf(c, 0) = {} BY DEF FirstOf
  <2>3. first + 0 * Bucket = first
    BY <1>6 DEF Starts, SimAssumption
  <2>4. Len(batch) \in Nat BY <1>4
  <2>5. WholeAt(c, open[c.s], 0, 0) BY <1>7, <2>1, <2>2, <2>3, <2>4 DEF WholeAt
  <2> QED BY <2>1, <2>5
<1>11. RunsAreWhole'
  BY <1>1, <1>8, <1>9, <1>10 DEF SimInv, SimTypeOK, RunsAreWhole, RunIsWhole
<1> QED BY <1>1, <1>9, <1>11 DEF SimInv, SimTypeOK, HubRemembers

-----------------------------------------------------------------------------
(* The end of a batch, and of a run.                                       *)
LEMMA AnsweredCommand ==
    ASSUME SimAssumption, SimInv, NEW k \in Sessions, session[k] \in Runs
    PROVE  LET c == session[k]
               d == Sim!Answered(k)
           IN  /\ c.later = <<>> => d = Sim!Idle
               /\ c.later # <<>> =>
                     /\ d \in Runs /\ d.s = c.s /\ d.sent = 0 /\ d.clean = c.clean
                     /\ d.at = c.at + Len(c.rows) * Bucket /\ (d.seal => d.later = <<>>)
                     /\ d.seen = c.seen /\ d.asked = c.asked \cup Sim!RunOf(c)
<1> DEFINE c == session[k]
           d == Sim!Answered(k)
           e == Sim!LastOpen(c) + Bucket
           p == Sim!Placed(c.s, Sim!Batch(c.later), Sim!At(e), Sim!AfterBatch(c.later), c.sealing, c.clean)
<1>1. /\ c.s \in Symbols /\ c.later \in Seq(SoundRows) /\ c.sealing \in BOOLEAN
      /\ c.clean \in BOOLEAN /\ c.seen \in SUBSET Bars /\ c.asked \in SUBSET Bars
  BY DEF Runs
<1>2. d = IF c.later = <<>> THEN Sim!Idle
          ELSE [p EXCEPT !.seen = c.seen, !.asked = c.asked \cup Sim!RunOf(c)]
  BY DEF Sim!Answered
<1>3. /\ e = c.at + Len(c.rows) * Bucket /\ e \in Starts /\ Sim!RunOf(c) \subseteq Bars
  BY BarsOfRuns
<1> HIDE DEF c, d, e
<1>4. ASSUME c.later # <<>>
      PROVE  /\ d \in Runs /\ d.s = c.s /\ d.sent = 0 /\ d.clean = c.clean
             /\ d.at = e /\ (d.seal => d.later = <<>>)
             /\ d.seen = c.seen /\ d.asked = c.asked \cup Sim!RunOf(c)
  <2>1. c.later \in Seq(SoundRows) \ {<<>>} BY <1>1, <1>4
  <2>2. /\ Sim!Batch(c.later) \in Seq(SoundRows) \ {<<>>}
        /\ Sim!AfterBatch(c.later) \in Seq(SoundRows)
    BY <2>1, Batches
  <2>3. Sim!FirstOpen(Len(Sim!Batch(c.later)), Sim!At(e),
                      IF Sim!At(e).mode = "next" THEN Sim!SeriesEnd(c.s) ELSE None) = e
    <3>1. Sim!Floor(e) = e BY <1>3 DEF Starts
    <3> QED BY <3>1 DEF Sim!FirstOpen, Sim!At
  <2>4. /\ p \in Runs /\ p.s = c.s /\ p.sent = 0 /\ p.clean = c.clean /\ p.at = e
        /\ (p.seal => p.later = <<>>)
    BY <1>1, <1>3, <2>2, <2>3, PlacedRun
  <2> HIDE DEF p
  <2> DEFINE x == [p EXCEPT !.seen = c.seen]
             y == [x EXCEPT !.asked = c.asked \cup Sim!RunOf(c)]
  <2>5. x \in Runs BY <1>1, <2>4 DEF Runs
  <2>6. y \in Runs
    <3>1. c.asked \cup Sim!RunOf(c) \in SUBSET Bars BY <1>1, <1>3
    <3> HIDE DEF x
    <3> QED BY <2>5, <3>1 DEF Runs
  <2>7. d = y BY <1>2, <1>4
  <2>8. /\ y.s = p.s /\ y.sent = p.sent /\ y.clean = p.clean /\ y.at = p.at /\ y.seal = p.seal
        /\ y.later = p.later /\ y.seen = c.seen /\ y.asked = c.asked \cup Sim!RunOf(c)
    BY <2>4 DEF Runs
  <2> HIDE DEF x, y
  <2> QED BY <2>4, <2>6, <2>7, <2>8
<1> QED BY <1>2, <1>3, <1>4 DEF c, d, e

\* A run of which everything has been sent.
LEMMA WholeRunIsSent ==
    ASSUME SimAssumption, NEW c \in Runs, NEW b \in Bars \cup NoBars, NEW i \in Nat, NEW j \in Nat,
           WholeAt(c, b, i, j), c.sent = 4 * Len(c.rows)
    PROVE  /\ Front(b) < c.at + Len(c.rows) * Bucket
           /\ c.asked \cup Sim!RunOf(c) \subseteq c.seen \cup InOpen(b)
           /\ \A n \in c.seen : n.at <= Front(b) /\ (b.at # None => n.at < b.at)
<1>1. j \in 0..3 /\ c.sent = 4 * i + j /\ Len(c.rows) \in Nat BY DEF WholeAt, Runs
<1>2. i = Len(c.rows) /\ j = 0 BY <1>1
<1>3. WholeAt(c, b, Len(c.rows), 0) BY <1>2
<1>4. Sim!RunOf(c) = FirstOf(c, Len(c.rows)) BY BarsOfRuns
<1> QED BY <1>3, <1>4 DEF WholeAt

LEMMA SealTicks ==
    ASSUME SimAssumption, NEW c \in Runs
    PROVE  LET t == Sim!SealTick(Sim!LastOpen(c), Sim!Last(c.rows))
           IN  /\ t \in Ticks /\ t.ts \in Starts /\ t.ts = c.at + Len(c.rows) * Bucket
               /\ Sim!Floor(t.ts) = c.at + Len(c.rows) * Bucket
<1> DEFINE e == c.at + Len(c.rows) * Bucket
           row == Sim!Last(c.rows)
<1>1. /\ Sim!LastOpen(c) + Bucket = e /\ e \in Starts /\ e \in Dates /\ Sim!Floor(e) = e
      /\ c.rows[Len(c.rows)] \in SoundRows
  BY BarsOfRuns, TimesGoOn DEF Starts
<1>2. row \in SoundRows BY <1>1 DEF Sim!Last
<1>3. Sim!SealTick(Sim!LastOpen(c), row) = [ts |-> e, price |-> row.close] BY <1>1 DEF Sim!SealTick
<1> HIDE DEF e, row
<1>4. row.close \in Int BY <1>2 DEF SoundRows
<1>5. [ts |-> e, price |-> row.close] \in Ticks BY <1>1, <1>4 DEF Ticks
<1> QED BY <1>1, <1>3, <1>5 DEF e, row

LEMMA FinishKeepsSim ==
    ASSUME SimAssumption, SimInv, NEW k \in Sessions, Sim!Finish(k)
    PROVE  SimInv'
<1> DEFINE c == session[k]
           d == Sim!Answered(k)
           t == Sim!SealTick(Sim!LastOpen(c), Sim!Last(c.rows))
           f == Sim!OnPublish(c.s, t, k)
<1>1. /\ c.op = "bars" /\ c.sent = 4 * Len(c.rows) /\ UNCHANGED <<utc, names, tasks>>
      /\ c.seal => /\ Sim!Publish(c.s, t, Sim!AdvanceCursor(c.s, t.ts), k)
                   /\ session' = [f EXCEPT ![k] = d]
      /\ ~c.seal => session' = [session EXCEPT ![k] = d] /\ UNCHANGED <<hub, open, link, behind>>
  BY DEF Sim!Finish
<1>2. c \in Runs
  <2>1. c \in Commands BY DEF SimInv, SimTypeOK
  <2> QED BY <1>1, <2>1, KindsOfCommands
<1>3. /\ c.later = <<>> => d = Sim!Idle
      /\ c.later # <<>> =>
            /\ d \in Runs /\ d.s = c.s /\ d.sent = 0 /\ d.clean = c.clean
            /\ d.at = c.at + Len(c.rows) * Bucket /\ (d.seal => d.later = <<>>)
            /\ d.seen = c.seen /\ d.asked = c.asked \cup Sim!RunOf(c)
  BY <1>2, AnsweredCommand
<1>4. /\ t \in Ticks /\ t.ts \in Starts /\ c.s \in Symbols /\ c.later \in Seq(SoundRows)
      /\ c.seal \in BOOLEAN /\ c.clean \in BOOLEAN
  BY <1>2, SealTicks DEF Runs
<1>5. c.clean => link = "subscribed" /\ (c.seal => c.later = <<>>)
                 /\ \E i \in Nat, j \in Nat : WholeAt(c, open[c.s], i, j)
  <2>1. RunIsWhole(c, open, link) BY DEF SimInv, RunsAreWhole
  <2> HIDE DEF c
  <2> QED BY <1>1, <2>1 DEF RunIsWhole
<1>6. open[c.s] \in Bars \cup NoBars BY <1>4 DEF SimInv, SimTypeOK
<1> HIDE DEF d, t, f
<1>7. d \in Commands BY <1>3 DEF Commands
<1>8. CASE c.seal
  <2>1. /\ hub' \in [Symbols -> Hubs] /\ open' \in [Symbols -> Bars \cup NoBars] /\ HubRemembers'
        /\ f \in [Sessions -> Commands]
        /\ \A o \in Sessions : o # k => RunIsWhole(f[o], open', link')
    <3>1. Sim!AdvanceCursor(c.s, t.ts) \in Starts \cup {None} BY <1>4, CursorsAdvance DEF SimInv
    <3>2. Sim!Publish(c.s, t, Sim!AdvanceCursor(c.s, t.ts), k) BY <1>1, <1>8
    <3> DEFINE u == Sim!AdvanceCursor(c.s, t.ts)
    <3> HIDE DEF u
    <3>3. u \in Starts \cup {None} /\ Sim!Publish(c.s, t, u, k) BY <3>1, <3>2 DEF u
    <3> HIDE DEF c
    <3> QED BY <1>4, <3>3, PublishSpreads DEF f
  <2>2. session' = [f EXCEPT ![k] = d] BY <1>1, <1>8
  <2>3. session' \in [Sessions -> Commands] /\ session'[k] = d BY <1>7, <2>1, <2>2
  <2>4. RunIsWhole(d, open', link')
    <3>1. CASE c.later = <<>> BY <1>3, <3>1 DEF RunIsWhole, Sim!Idle
    <3>2. CASE c.later # <<>>
      <4>1. ~d.clean BY <1>3, <1>5, <1>8, <3>2
      <4> QED BY <4>1 DEF RunIsWhole
    <3> QED BY <3>1, <3>2
  <2>5. RunsAreWhole'
    <3>1. \A o \in Sessions : o # k => session'[o] = f[o] BY <2>1, <2>2
    <3> QED BY <2>1, <2>3, <2>4, <3>1 DEF RunsAreWhole
  <2> QED BY <1>1, <2>1, <2>3, <2>5 DEF SimInv, SimTypeOK
<1>9. CASE ~c.seal
  <2>1. session' = [session EXCEPT ![k] = d] /\ UNCHANGED <<hub, open, link, behind>> BY <1>1, <1>9
  <2>2. session' \in [Sessions -> Commands] /\ session'[k] = d
    BY <1>7, <2>1 DEF SimInv, SimTypeOK
  <2>3. RunIsWhole(d, open, link)
    <3>1. CASE c.later = <<>> BY <1>3, <3>1 DEF RunIsWhole, Sim!Idle
    <3>2. CASE c.later # <<>>
      <4> SUFFICES ASSUME d.clean
                   PROVE  /\ link = "subscribed" /\ (d.seal => d.later = <<>>)
                          /\ \E i \in Nat, j \in Nat : WholeAt(d, open[d.s], i, j)
        BY DEF RunIsWhole
      <4>1. PICK i \in Nat, j \in Nat : WholeAt(c, open[c.s], i, j)
        BY <1>3, <1>5, <3>2
      <4> DEFINE b == open[c.s]
      <4>2. WholeAt(c, b, i, j) /\ b \in Bars \cup NoBars BY <1>6, <4>1
      <4> HIDE DEF b, c
      <4>3. /\ Front(b) < c.at + Len(c.rows) * Bucket
            /\ c.asked \cup Sim!RunOf(c) \subseteq c.seen \cup InOpen(b)
            /\ \A n \in c.seen : n.at <= Front(b) /\ (b.at # None => n.at < b.at)
        BY <1>1, <1>2, <4>2, WholeRunIsSent
      <4>4. /\ d \in Runs /\ d.s = c.s /\ d.sent = 0
            /\ d.at = c.at + Len(c.rows) * Bucket /\ (d.seal => d.later = <<>>)
            /\ d.seen = c.seen /\ d.asked = c.asked \cup Sim!RunOf(c)
        BY <1>3, <3>2
      <4>5. FirstOf(d, 0) = {} BY DEF FirstOf
      <4>6. d.at + 0 * Bucket = d.at /\ Len(d.rows) \in Nat BY <4>4 DEF Runs, Starts, SimAssumption
      <4>7. WholeAt(d, b, 0, 0) BY <4>3, <4>4, <4>5, <4>6 DEF WholeAt
      <4>8. link = "subscribed" BY <1>3, <1>5, <3>2
      <4>9. WholeAt(d, open[d.s], 0, 0) BY <4>4, <4>7 DEF b
      <4>10. \E m \in Nat, n \in Nat : WholeAt(d, open[d.s], m, n) BY <4>9
      <4> QED BY <4>4, <4>8, <4>10
    <3> QED BY <3>1, <3>2
  <2>4. RunsAreWhole'
    <3>1. \A o \in Sessions : o # k => session'[o] = session[o] BY <2>1 DEF SimInv, SimTypeOK
    <3>2. \A o \in Sessions : RunIsWhole(session'[o], open, link)
      BY <2>2, <2>3, <3>1 DEF SimInv, RunsAreWhole
    <3> QED BY <2>1, <3>2 DEF RunsAreWhole
  <2> QED BY <1>1, <2>1, <2>2, <2>4 DEF SimInv, SimTypeOK, HubRemembers
<1> QED BY <1>4, <1>8, <1>9

-----------------------------------------------------------------------------
(* What goes on around the runs.                                           *)
LEMMA FlushKeepsSim ==
    ASSUME SimAssumption, SimInv, NEW s \in Symbols, Sim!Flush(s)
    PROVE  SimInv'
<1> DEFINE b == open[s]
           d == Sim!NoBar(b.at)
<1>1. /\ b.at # None /\ open' = [open EXCEPT ![s] = d]
      /\ UNCHANGED <<utc, hub, link, names, tasks, behind>>
  BY DEF Sim!Flush
<1>2. b \in Bars /\ b.at \in Starts /\ b.at \in Int /\ Front(b) = b.at /\ InOpen(b) = {b}
  BY <1>1, BarsAreOpenOrNot DEF SimInv, SimTypeOK, Bars, Starts, InOpen
<1>3. d \in NoBars /\ d.at = None /\ Front(d) = b.at /\ InOpen(d) = {}
  BY <1>2 DEF Sim!NoBar, NoBars, Front, InOpen
<1> DEFINE w(k) == [session[k] EXCEPT !.seen = Sim!Seen(session[k], {b}),
                                      !.clean = @ /\ (b.at < session[k].at \/ b \in Sim!RunOf(session[k]))]
           f(k) == IF session[k].op = "bars" /\ session[k].s = s THEN w(k) ELSE session[k]
<1>4. session' = [k \in Sessions |-> f(k)]
  BY DEF Sim!Flush
<1> HIDE DEF f, w, d
<1>5. open' \in [Symbols -> Bars \cup NoBars] /\ open'[s] = d /\ \A r \in Symbols : r # s => open'[r] = open[r]
  BY <1>1, <1>3 DEF SimInv, SimTypeOK
<1>6. ASSUME NEW k \in Sessions
      PROVE  f(k) \in Commands /\ RunIsWhole(f(k), open', link)
  <2> DEFINE c == session[k]
  <2>1. c \in Commands /\ RunIsWhole(c, open, link) BY DEF SimInv, SimTypeOK, RunsAreWhole
  <2>2. CASE ~(c.op = "bars" /\ c.s = s)
    <3>1. f(k) = c BY <2>2 DEF f
    <3>2. c.op = "bars" => c.s \in Symbols /\ open'[c.s] = open[c.s]
      BY <1>5, <2>1, <2>2, KindsOfCommands DEF Runs
    <3> HIDE DEF c
    <3> QED BY <2>1, <3>1, <3>2 DEF RunIsWhole
  <2>3. CASE c.op = "bars" /\ c.s = s
    <3>1. c \in Runs BY <2>1, <2>3, KindsOfCommands
    <3>2. f(k) = w(k) BY <2>3 DEF f
    <3>3. Sim!Seen(c, {b}) \in SUBSET Bars BY <1>2, <3>1 DEF Sim!Seen, Runs
    <3> DEFINE clean == c.clean /\ (b.at < c.at \/ b \in Sim!RunOf(c))
               x == [c EXCEPT !.seen = Sim!Seen(c, {b})]
               y == [x EXCEPT !.clean = clean]
    <3>4. x \in Runs /\ x.clean = c.clean BY <3>1, <3>3 DEF Runs
    <3>5. w(k) = y BY <3>1 DEF w, Runs
    <3>6. clean \in BOOLEAN OBVIOUS
    <3>7. y \in Runs
      <4> HIDE DEF x, clean
      <4> QED BY <3>4, <3>6 DEF Runs
    <3>8. /\ y.s = c.s /\ y.at = c.at /\ y.rows = c.rows /\ y.sent = c.sent /\ y.seal = c.seal
          /\ y.later = c.later /\ y.asked = c.asked /\ y.seen = Sim!Seen(c, {b}) /\ y.clean = clean
      BY <3>1 DEF Runs
    <3> HIDE DEF x, y
    <3>9. RunIsWhole(y, open', link)
      <4> SUFFICES ASSUME y.clean
                   PROVE  /\ link = "subscribed" /\ (y.seal => y.later = <<>>)
                          /\ \E i \in Nat, j \in Nat : WholeAt(y, open'[y.s], i, j)
        BY DEF RunIsWhole
      <4>1. c.clean /\ (b.at < c.at \/ b \in Sim!RunOf(c)) BY <3>8
      <4>2. /\ link = "subscribed" /\ (c.seal => c.later = <<>>)
            /\ \E i \in Nat, j \in Nat : WholeAt(c, open[c.s], i, j)
        BY <2>1, <2>3, <4>1 DEF RunIsWhole
      <4>3. PICK i \in Nat, j \in Nat : WholeAt(c, b, i, j) BY <2>3, <4>2
      <4> HIDE DEF b, c, clean
      <4>4. y.seen = c.seen \cup {b} BY <1>2, <3>1, <3>8, <4>3, SeenBars
      <4>5. j = 0
        <5> SUFFICES ASSUME j # 0 PROVE FALSE OBVIOUS
        <5>1. /\ j \in 1..3 /\ i \in Nat /\ b = Part(c.at + i * Bucket, c.rows[i + 1], j)
          BY <4>3 DEF WholeAt
        <5>2. b.ticks = j /\ b.at = c.at + i * Bucket BY <5>1 DEF Part
        <5>3. b \notin Sim!RunOf(c)
          <6>1. \A n \in Sim!RunOf(c) : n.ticks = 4 BY DEF Sim!RunOf, Sim!ExpectedCandle
          <6> QED BY <5>1, <5>2, <6>1
        <5>4. c.at \in Starts BY <3>1 DEF Runs
        <5>5. c.at <= c.at + i * Bucket BY <5>4, LaterStarts
        <5>6. c.at \in Int BY <5>4 DEF Starts
        <5> QED BY <1>2, <4>1, <5>2, <5>3, <5>5, <5>6
      <4>6. /\ Front(b) < c.at + i * Bucket
            /\ c.asked \cup FirstOf(c, i) \subseteq c.seen \cup InOpen(b)
            /\ \A n \in c.seen : n.at <= Front(b) /\ (b.at # None => n.at < b.at)
            /\ i \in 0..Len(c.rows) /\ c.sent = 4 * i + 0
        BY <4>3, <4>5 DEF WholeAt
      <4>7. FirstOf(y, i) = FirstOf(c, i) BY <3>8 DEF FirstOf
      <4>8. \A n \in y.seen : n.at <= Front(d) /\ (d.at # None => n.at < d.at)
        BY <1>2, <1>3, <4>4, <4>6
      <4>9. WholeAt(y, d, i, 0)
        <5>1. y.asked \cup FirstOf(y, i) \subseteq y.seen \cup InOpen(d)
          BY <1>2, <3>8, <4>4, <4>6, <4>7
        <5>2. Front(d) < y.at + i * Bucket BY <1>2, <1>3, <3>8, <4>6
        <5>3. i \in 0..Len(y.rows) /\ y.sent = 4 * i + 0 /\ 0 \in 0..3 BY <3>8, <4>6
        <5> HIDE DEF FirstOf
        <5> QED BY <4>8, <5>1, <5>2, <5>3 DEF WholeAt
      <4>10. open'[y.s] = d BY <1>5, <2>3, <3>8
      <4> QED BY <3>8, <4>2, <4>9, <4>10
    <3> QED BY <3>2, <3>5, <3>7, <3>9 DEF Commands
  <2> QED BY <2>2, <2>3
<1>7. session' \in [Sessions -> Commands] BY <1>4, <1>6
<1>8. RunsAreWhole' BY <1>1, <1>4, <1>6 DEF RunsAreWhole
<1>9. HubRemembers'
  BY <1>1, <1>2, <1>3, <1>5 DEF SimInv, HubRemembers
<1> QED BY <1>1, <1>5, <1>7, <1>8, <1>9 DEF SimInv, SimTypeOK

\* Commands that are not runs, and the end of the others.
LEMMA AnotherCommand ==
    ASSUME SimInv, NEW k \in Sessions, NEW c \in Commands, c.op # "bars",
           session' = [session EXCEPT ![k] = c], UNCHANGED <<open, link>>
    PROVE  session' \in [Sessions -> Commands] /\ RunsAreWhole'
<1>1. session' \in [Sessions -> Commands] /\ session'[k] = c
  BY DEF SimInv, SimTypeOK
<1>2. \A j \in Sessions : j # k => session'[j] = session[j] BY DEF SimInv, SimTypeOK
<1>3. RunIsWhole(c, open, link) BY DEF RunIsWhole
<1>4. \A j \in Sessions : RunIsWhole(session'[j], open, link)
  BY <1>1, <1>2, <1>3 DEF SimInv, RunsAreWhole
<1> QED BY <1>1, <1>4 DEF RunsAreWhole

LEMMA IdleIsACommand == Sim!Idle \in Commands /\ Sim!Idle.op # "bars"
BY DEF Sim!Idle, Commands

LEMMA FeedKeepsSim ==
    ASSUME SimAssumption, SimInv, Sim!Clock \/ Sim!Attach \/ Sim!Subscribe \/ Sim!Drop
    PROVE  SimInv'
<1>1. /\ utc' \in Nat /\ UNCHANGED <<hub, open, names, tasks, behind>>
  BY DEF Sim!Clock, Sim!Attach, Sim!Subscribe, Sim!Drop, SimInv, SimTypeOK, SimAssumption
<1>2. HubRemembers' BY <1>1 DEF SimInv, HubRemembers
<1>3. CASE UNCHANGED session /\ (link' = link \/ link # "subscribed")
  <2>1. \A k \in Sessions : RunIsWhole(session[k], open, link')
    BY <1>3 DEF SimInv, RunsAreWhole, RunIsWhole
  <2>2. RunsAreWhole' BY <1>1, <1>3, <2>1 DEF RunsAreWhole
  <2> QED BY <1>1, <1>2, <1>3, <2>2 DEF SimInv, SimTypeOK
<1>4. CASE Sim!Drop
  <2>1. session' = [k \in Sessions |-> IF session[k].op = "bars"
                                       THEN [session[k] EXCEPT !.clean = FALSE] ELSE session[k]]
    BY <1>4 DEF Sim!Drop, Sim!Unclean
  <2>2. ASSUME NEW k \in Sessions
        PROVE  session'[k] \in Commands /\ RunIsWhole(session'[k], open', link')
    <3>1. session[k] \in Commands BY DEF SimInv, SimTypeOK
    <3>2. CASE session[k].op = "bars"
      <4>1. session[k] \in Runs BY <3>1, <3>2, KindsOfCommands
      <4>2. session'[k] = [session[k] EXCEPT !.clean = FALSE] BY <2>1, <3>2
      <4>3. session'[k] \in Runs /\ session'[k].clean = FALSE BY <4>1, <4>2 DEF Runs
      <4> QED BY <4>3 DEF Commands, RunIsWhole
    <3>3. CASE session[k].op # "bars"
      <4>1. session'[k] = session[k] BY <2>1, <3>3
      <4> QED BY <3>1, <3>3, <4>1 DEF RunIsWhole
    <3> QED BY <3>2, <3>3
  <2>3. session' \in [Sessions -> Commands] BY <2>1, <2>2
  <2>4. RunsAreWhole' BY <2>2 DEF RunsAreWhole
  <2> QED BY <1>1, <1>2, <2>3, <2>4 DEF SimInv, SimTypeOK
<1> QED BY <1>3, <1>4 DEF Sim!Clock, Sim!Attach, Sim!Subscribe

LEMMA ForgottenHub ==
    ASSUME SimAssumption, SimInv, hub' = Sim!NewHub,
           behind' = behind \cup {s \in Symbols : hub[s].ts # None}, UNCHANGED open
    PROVE  hub' \in [Symbols -> Hubs] /\ HubRemembers'
<1>1. [last |-> None, ts |-> None, cursor |-> None] \in Hubs BY DEF Hubs, SimAssumption
<1>2. hub' \in [Symbols -> Hubs] BY <1>1 DEF Sim!NewHub
<1>3. HubRemembers' BY DEF SimInv, HubRemembers
<1> QED BY <1>2, <1>3

\* A command that is stopped, started over or done leaves the series alone.
LEMMA CommandKeepsSim ==
    ASSUME SimAssumption, SimInv, NEW k \in Sessions, NEW c \in Commands, c.op # "bars",
           session' = [session EXCEPT ![k] = c],
           UNCHANGED <<utc, hub, link, open, behind>>,
           names' \in [Symbols -> Nat], tasks' \in [1..MaxTasks -> Tasks],
           \A i \in 1..MaxTasks : tasks'[i].state = "running" => tasks'[i].symbol \in Symbols
    PROVE  SimInv'
<1>1. session' \in [Sessions -> Commands] /\ RunsAreWhole' BY AnotherCommand
<1>2. HubRemembers' BY DEF SimInv, HubRemembers
<1>3. SimTypeOK' BY <1>1 DEF SimInv, SimTypeOK
<1> QED BY <1>1, <1>2, <1>3 DEF SimInv

LEMMA StopsKeepSim ==
    ASSUME SimAssumption, SimInv, NEW k \in Sessions,
           \/ \E s \in Symbols : Sim!Walk(k, s)
           \/ Sim!StopAll(k, "stop") \/ Sim!StopAll(k, "reset") \/ Sim!StopDone(k)
    PROVE  SimInv'
<1>1. /\ UNCHANGED <<utc, hub, link, open, names, tasks, behind>>
      /\ names' \in [Symbols -> Nat] /\ tasks' \in [1..MaxTasks -> Tasks]
      /\ \A i \in 1..MaxTasks : tasks'[i].state = "running" => tasks'[i].symbol \in Symbols
  BY DEF Sim!Walk, Sim!StopAll, Sim!StopDone, SimInv, SimTypeOK
<1>2. PICK c : c \in Commands /\ c.op # "bars" /\ session' = [session EXCEPT ![k] = c]
  <2>1. ASSUME NEW s \in Symbols, Sim!Walk(k, s)
        PROVE  \E c : c \in Commands /\ c.op # "bars" /\ session' = [session EXCEPT ![k] = c]
    <3>1. PICK p \in Prices \cup {None} :
              session' = [session EXCEPT ![k] =
                  [op |-> "walk", s |-> s, price |-> Sim!WalkPrice(s, p),
                   targets |-> {s}, waits |-> 0]]
      BY <2>1 DEF Sim!Walk
    <3>2. Sim!WalkPrice(s, p) \in Int
      BY DEF Sim!WalkPrice, SimAssumption, SimInv, SimTypeOK, Hubs
    <3>3. [op |-> "walk", s |-> s, price |-> Sim!WalkPrice(s, p),
           targets |-> {s}, waits |-> 0] \in Walks
      BY <3>2 DEF Walks
    <3> QED BY <3>1, <3>3 DEF Commands, Walks
  <2>2. CASE \E op \in {"stop", "reset"} : Sim!StopAll(k, op)
    <3>1. PICK op \in {"stop", "reset"} : Sim!StopAll(k, op) BY <2>2
    <3> DEFINE c == [op |-> op, targets |-> {u \in Symbols : names[u] # 0}, waits |-> 0]
    <3>2. session' = [session EXCEPT ![k] = c] BY <3>1 DEF Sim!StopAll
    <3>3. c \in Stops /\ c.op # "bars" BY DEF Stops
    <3> QED BY <3>2, <3>3 DEF Commands
  <2>3. CASE Sim!StopDone(k) BY <2>3, IdleIsACommand DEF Sim!StopDone
  <2> QED BY <2>1, <2>2, <2>3
<1> QED BY <1>1, <1>2, CommandKeepsSim

LEMMA StopOneKeepsSim ==
    ASSUME SimAssumption, SimInv, NEW k \in Sessions, NEW s \in Symbols, Sim!StopOne(k, s)
    PROVE  SimInv'
<1> DEFINE c == session[k]
           i == names[s]
           runs == i # 0 /\ tasks[i].state = "running"
           n == IF runs THEN i ELSE 0
           d == [c EXCEPT !.targets = @ \ {s}, !.waits = n]
<1>1. /\ c.op \in {"walk", "stop", "reset"}
      /\ session' = [session EXCEPT ![k].targets = @ \ {s}, ![k].waits = n]
      /\ tasks' = IF runs THEN [tasks EXCEPT ![i].state = "cancelled"] ELSE tasks
      /\ names' = [names EXCEPT ![s] = 0]
      /\ UNCHANGED <<utc, hub, link, open, behind>>
  BY DEF Sim!StopOne, Sim!Stopping
<1>2. c \in Walks \cup Stops
  BY <1>1, KindsOfCommands DEF SimInv, SimTypeOK
<1>3. n \in Nat BY DEF SimInv, SimTypeOK
<1>4. session' = [session EXCEPT ![k] = d]
  BY <1>1 DEF SimInv, SimTypeOK
<1>5. d \in Walks \cup Stops
  <2> HIDE DEF n, c
  <2>1. d = [[c EXCEPT !.targets = c.targets \ {s}] EXCEPT !.waits = n] BY <1>2 DEF Walks, Stops
  <2>2. [c EXCEPT !.targets = c.targets \ {s}] \in Walks \cup Stops BY <1>2 DEF Walks, Stops
  <2> QED BY <1>3, <2>1, <2>2 DEF Walks, Stops
<1>6. names' \in [Symbols -> Nat] BY <1>1 DEF SimInv, SimTypeOK
<1>7. /\ tasks' \in [1..MaxTasks -> Tasks]
      /\ \A j \in 1..MaxTasks : tasks'[j].state = "running" => tasks'[j].symbol \in Symbols
  <2>1. CASE ~runs BY <1>1, <2>1 DEF SimInv, SimTypeOK
  <2>2. CASE runs
    <3>1. tasks' = [tasks EXCEPT ![i].state = "cancelled"] BY <1>1, <2>2
    <3> HIDE DEF runs, c, n, d, i
    <3> QED BY <3>1 DEF SimInv, SimTypeOK, Tasks
  <2> QED BY <2>1, <2>2
<1>8. d \in Commands /\ d.op # "bars"
  <2> HIDE DEF d
  <2> QED BY <1>5 DEF Commands, Walks, Stops
<1> HIDE DEF d, runs, i, n, c
<1> QED BY <1>1, <1>4, <1>6, <1>7, <1>8, CommandKeepsSim

LEMMA WalkStartsKeepsSim ==
    ASSUME SimAssumption, SimInv, NEW k \in Sessions, Sim!WalkStarts(k)
    PROVE  SimInv'
<1> DEFINE c == session[k]
           m == IF hub[c.s].ts = None THEN utc ELSE Sim!Later(utc, hub[c.s].ts + Step)
           w == [symbol |-> c.s, state |-> "running", price |-> c.price,
                 left |-> WalkTicks, moment |-> m]
<1>1. PICK i \in 1..MaxTasks : tasks' = [tasks EXCEPT ![i] = w] /\ names' = [names EXCEPT ![c.s] = i]
  BY DEF Sim!WalkStarts
<1>2. /\ c.op = "walk" /\ session' = [session EXCEPT ![k] = Sim!Idle]
      /\ UNCHANGED <<utc, hub, link, open, behind>>
  BY DEF Sim!WalkStarts
<1>3. c \in Walks BY <1>2, KindsOfCommands DEF SimInv, SimTypeOK
<1>4. c.s \in Symbols /\ c.price \in Int BY <1>3 DEF Walks
<1>5. hub[c.s] \in Hubs /\ utc \in Nat BY <1>4 DEF SimInv, SimTypeOK
<1>6. m \in Dates
  <2>1. utc \in Dates BY <1>5, TimesGoOn DEF SimAssumption
  <2>2. CASE hub[c.s].ts = None BY <2>1, <2>2
  <2>3. CASE hub[c.s].ts # None
    <3>1. hub[c.s].ts \in Dates BY <1>5, <2>3 DEF Hubs
    <3>2. PICK u \in Int : u = hub[c.s].ts + Step /\ hub[c.s].ts <= u
      BY <3>1 DEF SimAssumption, Dates
    <3>3. u \in Dates BY <3>1, <3>2, TimesGoOn
    <3> QED BY <2>1, <2>3, <3>2, <3>3 DEF Sim!Later
  <2> QED BY <2>2, <2>3
<1>7. w \in Tasks
  <2> HIDE DEF m, c
  <2> QED BY <1>4, <1>6 DEF Tasks, SimAssumption
<1>8. w.symbol \in Symbols BY <1>4
<1> HIDE DEF w, c
<1>9. /\ tasks' \in [1..MaxTasks -> Tasks]
      /\ \A j \in 1..MaxTasks : tasks'[j].state = "running" => tasks'[j].symbol \in Symbols
  <2>1. tasks \in [1..MaxTasks -> Tasks]
        /\ \A j \in 1..MaxTasks : tasks[j].state = "running" => tasks[j].symbol \in Symbols
    BY DEF SimInv, SimTypeOK
  <2>2. \A j \in 1..MaxTasks : tasks'[j] = IF j = i THEN w ELSE tasks[j] BY <1>1, <2>1
  <2>3. tasks' \in [1..MaxTasks -> Tasks] BY <1>1, <1>7, <2>1
  <2>4. \A j \in 1..MaxTasks : tasks'[j].state = "running" => tasks'[j].symbol \in Symbols
    BY <1>8, <2>1, <2>2, Zenon
  <2> QED BY <2>3, <2>4
<1>10. names' \in [Symbols -> Nat]
  <2>1. i \in Nat BY DEF SimAssumption
  <2> QED BY <1>1, <2>1 DEF SimInv, SimTypeOK
<1> QED BY <1>2, <1>9, <1>10, IdleIsACommand, CommandKeepsSim

LEMMA EndedKeepsSim ==
    ASSUME SimAssumption, SimInv, NEW i \in 1..MaxTasks, Sim!Ended(i)
    PROVE  SimInv'
<1>1. /\ tasks' = [tasks EXCEPT ![i].state = "over"]
      /\ names' = [names EXCEPT ![tasks[i].symbol] = 0]
      /\ UNCHANGED <<utc, hub, link, open, session, behind>>
  BY DEF Sim!Ended
<1>2. /\ tasks' \in [1..MaxTasks -> Tasks]
      /\ \A j \in 1..MaxTasks : tasks'[j].state = "running" => tasks'[j].symbol \in Symbols
  BY <1>1 DEF SimInv, SimTypeOK, Tasks
<1>3. names' \in [Symbols -> Nat] BY <1>1 DEF SimInv, SimTypeOK
<1>4. RunsAreWhole' /\ HubRemembers' BY <1>1 DEF SimInv, RunsAreWhole, HubRemembers
<1> QED BY <1>1, <1>2, <1>3, <1>4 DEF SimInv, SimTypeOK

LEMMA ForgettingKeepsSim ==
    ASSUME SimAssumption, SimInv, NEW k \in Sessions, Sim!ResetDone(k)
    PROVE  SimInv'
<1>1. hub' \in [Symbols -> Hubs] /\ HubRemembers' BY ForgottenHub DEF Sim!ResetDone
<1>2. session' \in [Sessions -> Commands] /\ RunsAreWhole'
  BY AnotherCommand, IdleIsACommand DEF Sim!ResetDone
<1> QED BY <1>1, <1>2 DEF SimInv, SimTypeOK, Sim!ResetDone

LEMMA RestartKeepsSim ==
    ASSUME SimAssumption, SimInv, Sim!Restart
    PROVE  SimInv'
<1>1. /\ UNCHANGED <<utc, open>> /\ session' = [k \in Sessions |-> Sim!Idle]
      /\ names' = [s \in Symbols |-> 0]
      /\ tasks' = [i \in 1..MaxTasks |-> IF tasks[i].state = "none" THEN tasks[i]
                                         ELSE [tasks[i] EXCEPT !.state = "over"]]
  BY DEF Sim!Restart
<1>2. hub' \in [Symbols -> Hubs] /\ HubRemembers' BY ForgottenHub DEF Sim!Restart
<1>3. session' \in [Sessions -> Commands] /\ RunsAreWhole'
  BY <1>1, IdleIsACommand DEF RunsAreWhole, RunIsWhole
<1>4. /\ tasks' \in [1..MaxTasks -> Tasks]
      /\ \A j \in 1..MaxTasks : tasks'[j].state = "running" => tasks'[j].symbol \in Symbols
  <2> SUFFICES ASSUME NEW j \in 1..MaxTasks
               PROVE  tasks'[j] \in Tasks /\ tasks'[j].state # "running"
    BY <1>1
  <2>1. tasks[j] \in Tasks BY DEF SimInv, SimTypeOK
  <2> QED BY <1>1, <2>1 DEF Tasks
<1> QED BY <1>1, <1>2, <1>3, <1>4 DEF SimInv, SimTypeOK

LEMMA SimStep == SimAssumption /\ SimInv /\ [Sim!Next]_(Sim!simVars) => SimInv'
<1> SUFFICES ASSUME SimAssumption, SimInv, [Sim!Next]_(Sim!simVars) PROVE SimInv' OBVIOUS
<1>1. CASE Sim!Next
  <2>1. CASE Sim!Clock \/ Sim!Attach \/ Sim!Subscribe \/ Sim!Drop BY <2>1, FeedKeepsSim
  <2>2. CASE Sim!Restart BY <2>2, RestartKeepsSim
  <2>3. CASE \E s \in Symbols : Sim!Flush(s) BY <2>3, FlushKeepsSim
  <2>4. ASSUME NEW k \in Sessions, NEW s \in Symbols,
               Sim!Tick(k, s) \/ Sim!Bars(k, s) \/ Sim!Walk(k, s) \/ Sim!StopOne(k, s)
        PROVE  SimInv'
    BY <2>4, TickKeepsSim, BarsKeepSim, StopsKeepSim, StopOneKeepsSim
  <2>5. ASSUME NEW k \in Sessions, Sim!PlayTick(k) \/ Sim!Finish(k)
        PROVE  SimInv'
    BY <2>5, PlayTickKeepsSim, FinishKeepsSim
  <2>6. ASSUME NEW k \in Sessions,
               \/ Sim!StopAll(k, "stop") \/ Sim!StopAll(k, "reset") \/ Sim!StopDone(k)
        PROVE  SimInv'
    BY <2>6, StopsKeepSim
  <2>7. ASSUME NEW k \in Sessions, Sim!WalkStarts(k) \/ Sim!ResetDone(k)
        PROVE  SimInv'
    BY <2>7, WalkStartsKeepsSim, ForgettingKeepsSim
  <2>8. ASSUME NEW i \in 1..MaxTasks, Sim!WalkTick(i) \/ Sim!Ended(i)
        PROVE  SimInv'
    BY <2>8, WalkTickKeepsSim, EndedKeepsSim
  <2> QED BY <1>1, <2>1, <2>2, <2>3, <2>4, <2>5, <2>6, <2>7, <2>8 DEF Sim!Next
<1>2. CASE UNCHANGED Sim!simVars
  BY <1>2 DEF Sim!simVars, SimInv, SimTypeOK, HubRemembers, RunsAreWhole
<1> QED BY <1>1, <1>2

LEMMA BarsComeBackStep == SimAssumption /\ SimInv => Sim!BarsComeBack
<1> SUFFICES ASSUME SimAssumption, SimInv, NEW k \in Sessions,
                    Sim!Finish(k), session[k].clean, session[k].seal
             PROVE  LET c == session[k]
                        t == Sim!SealTick(Sim!LastOpen(c), Sim!Last(c.rows))
                    IN  c.asked \cup Sim!RunOf(c) \subseteq Sim!OnPublish(c.s, t, k)[k].seen
  BY Zenon DEF Sim!BarsComeBack
<1> DEFINE c == session[k]
           t == Sim!SealTick(Sim!LastOpen(c), Sim!Last(c.rows))
           b == open[c.s]
<1>1. c.op = "bars" /\ c.sent = 4 * Len(c.rows) BY DEF Sim!Finish
<1>2. c \in Runs BY <1>1, KindsOfCommands DEF SimInv, SimTypeOK
<1>3. c.s \in Symbols /\ b \in Bars \cup NoBars BY <1>2 DEF Runs, SimInv, SimTypeOK
<1>4. link = "subscribed" /\ \E i \in Nat, j \in Nat : WholeAt(c, b, i, j)
  BY <1>1 DEF SimInv, RunsAreWhole, RunIsWhole
<1>5. PICK i \in Nat, j \in Nat : WholeAt(c, b, i, j) BY <1>4
<1>6. t \in Ticks /\ Sim!Floor(t.ts) = c.at + Len(c.rows) * Bucket BY <1>2, SealTicks
<1> HIDE DEF c, t, b
<1>7. Front(b) < Sim!Floor(t.ts) /\ c.asked \cup Sim!RunOf(c) \subseteq c.seen \cup InOpen(b)
  BY <1>1, <1>2, <1>3, <1>5, <1>6, WholeRunIsSent
<1>8. Sim!Closes(b, t) = InOpen(b) BY <1>3, <1>6, <1>7, ResampledBar DEF Starts
<1>9. Sim!OnPublish(c.s, t, k)[k].seen = Sim!Seen(c, Sim!Closes(b, t))
  BY <1>1, <1>3, <1>4, <1>6, PublishedCommand DEF c, b, SimInv, Sim!Received
<1>10. Sim!Seen(c, InOpen(b)) = c.seen \cup InOpen(b) BY <1>2, <1>3, <1>5, SeenBars
<1> QED BY <1>7, <1>8, <1>9, <1>10 DEF c, t

(* A sealed run of bars comes back: with the feed attached all along,      *)
(* nobody else on the symbol, no bar of the run cut by the wall clock and  *)
(* a series the hub kept track of, ingestion closes every bar just as it   *)
(* was asked for, whatever ran before and in however many commands         *)
(* (qte_simulator/control.py, bars.py, verify.py).                         *)
THEOREM RunsComeBack ==
    SimAssumption => (Sim!Spec => [][Sim!BarsComeBack]_(Sim!simVars))
<1> SUFFICES ASSUME SimAssumption PROVE Sim!Spec => [][Sim!BarsComeBack]_(Sim!simVars) OBVIOUS
<1>1. Sim!Init => SimInv BY SimStart
<1>2. SimInv /\ [Sim!Next]_(Sim!simVars) => SimInv' BY SimStep
<1>3. SimInv => Sim!BarsComeBack BY BarsComeBackStep
<1> QED BY <1>1, <1>2, <1>3, PTL DEF Sim!Spec
=============================================================================
