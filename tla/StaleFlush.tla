----------------------------- MODULE StaleFlush -----------------------------
(***************************************************************************)
(* A runner's start between the restore and the subscriptions, as far as   *)
(* it concerns the cycles left open: _restore_state, the outbox recovery,  *)
(* _flush_stale_positions with _close_stale_position, and the crash at any *)
(* point of it (runner.py).                                                *)
(*                                                                         *)
(* A cycle is [pair, uxid, old]: old once its last transition is past the  *)
(* configured age.  The flush closes old cycles with R_SL when asked to,   *)
(* through the same durable outbox as every other signal: a row is staged, *)
(* the pair is uncertain until its delivery is settled, and an uncertain   *)
(* pair gets no second command.  Slots are visited in any order.           *)
(***************************************************************************)
EXTENDS Integers, FiniteSets, FiniteSetsExt, Sequences, SequencesExt

CONSTANTS Pairs,      \* the pairs this runner drives
          Worlds,     \* what Redis and the table may hold, as [redis, table]
          Modes,      \* flush_stale_positions: "off", "warn", "close"
          Stored,     \* pair -> open times of the bars Redis holds, in list order
          Decided,    \* pair -> the open time last decided on
          Now, AllowFuture,
          MaxStarts   \* bound

VARIABLES phase,      \* "down", "restored", "flushing", "trading", "refused"
          mode, redis, table,
          book,       \* the cycles on the slots
          todo,       \* those the flush has yet to look at
          sending,    \* the staged close being sent, in a set
          unsure,     \* _uncertain_pairs
          rows,       \* unfinished outbox rows: [pair, uxid, old, mode, price]
          starts

vars == <<phase, mode, redis, table, book, todo, sending, unsure, rows, starts>>

Init == /\ \E w \in Worlds : redis = w.redis /\ table = w.table
        /\ phase = "down" /\ mode = "off" /\ book = {} /\ todo = {} /\ sending = {}
        /\ unsure = {} /\ rows = {} /\ starts = 0

-----------------------------------------------------------------------------
Of(cycles, p) == {c \in cycles : c.pair = p}

\* _restore_position: Redis first, the table only behind an empty Redis.
Restored(r, t) == UNION {IF Of(r, p) # {} THEN Of(r, p) ELSE Of(t, p) : p \in Pairs}

\* _clean_history: one bar per open time, none whose bucket has not ended.
Cleaned(p) == {o \in ToSet(Stored[p]) : AllowFuture \/ o + 1 <= Now}
Buffer(p) == {o \in Cleaned(p) : o <= Decided[p]}

\* _last_known_price: the close of the newest bar, else the entry's price.
LastKnownPrice(p) == IF Buffer(p) = {} THEN -1 ELSE Max(Buffer(p))

\* _verify_position_uxids over the slots and whatever the table answered.
Shared(slots, listed) ==
  \E c, d \in slots \cup listed : c.uxid = d.uxid /\ c.pair # d.pair

BugSkips(c) == ~c.old \/ mode = "warn"
Skips(c) == c.pair \in unsure \/ ~c.old \/ mode = "warn"

-----------------------------------------------------------------------------
Without(cycles, closed) == {c \in cycles : ~\E r \in closed : r.uxid = c.uxid /\ r.pair = c.pair}

\* start(): restore, then settle what the outbox can.  A settled row was
\* either accepted, which ends the cycle, or failed, which leaves it open.
Boot ==
  /\ phase = "down" /\ starts < MaxStarts /\ starts' = starts + 1
  /\ mode' \in Modes
  /\ \E accepted \in SUBSET rows, failed \in SUBSET rows :
       /\ accepted \cap failed = {}
       /\ rows' = rows \ (accepted \cup failed)
       /\ LET r == redis \cup Restored(redis, table)
          IN /\ redis' = Without(r, accepted) /\ table' = Without(table, accepted)
             /\ book' = Without(Restored(redis, table), accepted)
  /\ unsure' = {r.pair : r \in rows'}
  /\ phase' = "restored"
  /\ UNCHANGED <<todo, sending>>

\* The duplicate check runs in every mode.  list_open answers with an empty
\* list when the table cannot be read.
Check ==
  /\ phase = "restored"
  /\ \E listed \in {table, {}} :
       IF Shared(book, listed)
       THEN phase' = "refused" /\ UNCHANGED todo
       ELSE IF mode = "off"
       THEN phase' = "trading" /\ UNCHANGED todo
       ELSE phase' = "flushing" /\ todo' = book
  /\ UNCHANGED <<mode, redis, table, book, sending, unsure, rows, starts>>

Row(c) == [pair |-> c.pair, uxid |-> c.uxid, old |-> c.old, mode |-> mode,
           price |-> LastKnownPrice(c.pair)]

Keep(c) == /\ phase = "flushing" /\ sending = {} /\ c \in todo /\ Skips(c)
           /\ todo' = todo \ {c}
           /\ UNCHANGED <<phase, mode, redis, table, book, sending, unsure, rows, starts>>

\* _emit refuses a live book in shadow mode before anything is staged.
Shadowed(c) == /\ phase = "flushing" /\ sending = {} /\ c \in todo /\ ~Skips(c)
               /\ todo' = todo \ {c}
               /\ UNCHANGED <<phase, mode, redis, table, book, sending, unsure, rows, starts>>

Stage(c) == /\ phase = "flushing" /\ sending = {} /\ c \in todo /\ ~Skips(c)
            /\ todo' = todo \ {c}
            /\ rows' = rows \cup {Row(c)} /\ sending' = {Row(c)}
            /\ unsure' = unsure \cup {c.pair}
            /\ UNCHANGED <<phase, mode, redis, table, book, starts>>

\* The insert may have committed before its connection failed.
StagingFails(c) == /\ phase = "flushing" /\ sending = {} /\ c \in todo /\ ~Skips(c)
                   /\ todo' = todo \ {c}
                   /\ rows' \in {rows, rows \cup {Row(c)}}
                   /\ unsure' = unsure \cup {c.pair}
                   /\ UNCHANGED <<phase, mode, redis, table, book, sending, starts>>

\* Accepted and written: the cycle ends everywhere and the pair is free.
Accepted == /\ sending # {} /\ sending' = {}
            /\ rows' = rows \ sending
            /\ unsure' = unsure \ {r.pair : r \in sending}
            /\ redis' = Without(redis, sending) /\ table' = Without(table, sending)
            /\ book' = Without(book, sending)
            /\ UNCHANGED <<phase, mode, todo, starts>>

\* Refused by the broker: the cycle stays open, the pair is free.
Rejected == /\ sending # {} /\ sending' = {}
            /\ rows' = rows \ sending
            /\ unsure' = unsure \ {r.pair : r \in sending}
            /\ UNCHANGED <<phase, mode, redis, table, book, todo, starts>>

Unanswered == /\ sending # {} /\ sending' = {}
              /\ UNCHANGED <<phase, mode, redis, table, book, todo, unsure, rows, starts>>

GoLive == /\ phase = "flushing" /\ todo = {} /\ sending = {}
          /\ phase' = "trading"
          /\ UNCHANGED <<mode, redis, table, book, todo, sending, unsure, rows, starts>>

Dies == /\ phase # "down"
        /\ phase' = "down" /\ book' = {} /\ todo' = {} /\ sending' = {} /\ unsure' = {}
        /\ UNCHANGED <<mode, redis, table, rows, starts>>

Next == \/ Boot \/ Check \/ Accepted \/ Rejected \/ Unanswered \/ GoLive \/ Dies
        \/ \E c \in todo : Keep(c) \/ Shadowed(c) \/ Stage(c) \/ StagingFails(c)

Spec == Init /\ [][Next]_vars

-----------------------------------------------------------------------------
(* The flush closes what it may and no more, whatever the starts and       *)
(* crashes before it: no pair ever has two closes whose fate is open, a    *)
(* close is only ever sent for an old cycle in mode "close", at a price no *)
(* unfinished bar gave, and a book in which two pairs hold one cycle id is *)
(* never traded, even while the table cannot be read.                      *)
FlushIsSafe ==
  /\ \A r, s \in rows : r.pair = s.pair => r = s
  /\ \A r \in rows : r.old /\ r.mode = "close" /\ (AllowFuture \/ r.price + 1 <= Now)
  /\ phase \in {"flushing", "trading"} =>
        \A c, d \in book : c.uxid = d.uxid => c.pair = d.pair
=============================================================================
