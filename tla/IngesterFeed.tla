------------------------------ MODULE IngesterFeed ------------------------------
(***************************************************************************)
(* Closed bars off the ingester's stream (qte_shared/providers/mt5/feed.py *)
(* and protocol.py): a receiver holds a message on a bounded queue and     *)
(* acknowledges it, a worker decodes it and hands the bar to ingestion.    *)
(* With JetStream the stream keeps what is not acknowledged and delivers   *)
(* it again; on core NATS there is no replay.                              *)
(*                                                                         *)
(* A message is a document of Documents, published in order; its number is *)
(* its bar.  MaxBreaks bounds the calls that raise and the lost links,     *)
(* MaxStops the stops and crashes of the process.                          *)
(***************************************************************************)
EXTENDS Integers, Sequences

CONSTANTS
    Documents,      \* <<...>>: what is published, in order
    JetStream,      \* jetstream of the [provider] table
    MaxPending,     \* max_pending_bars
    FetchBatch,     \* fetch_batch
    Accepted,       \* schema_versions
    HasWarmupSink,  \* on_warmup is given
    MaxBreaks, MaxStops

VARIABLES
    published,  \* messages published so far
    unacked,    \* JetStream: those the stream owes the consumer
    inFlight,   \* JetStream: those it has delivered and waits for
    receiver,   \* [step, batch]
    inbox,      \* held messages
    handling,   \* the message in the worker, or 0
    handed,     \* bars handed to ingestion, in order
    refused,    \* messages not for ingestion
    spilled,    \* messages that were in memory when the process ended
    unheard,    \* core: published while nobody listened, or answered busy
    breaks, stops

ingesterVars == <<published, unacked, inFlight, receiver, inbox, handling, handed, refused,
                  spilled, unheard, breaks, stops>>

Elements(s) == {s[i] : i \in 1..Len(s)}
Down == [step |-> "down", batch |-> <<>>]
Opening == [step |-> "opening", batch |-> <<>>]
Pulling == [step |-> "pulling", batch |-> <<>>]

(* accepts_schema_version with _full_version: a version on the wire may    *)
(* leave its tail off.                                                     *)
accepts_schema_version(version) ==
    /\ Len(version) \in 1..3
    /\ version \o [i \in 1..(3 - Len(version)) |-> 0] \in Accepted

(* _warmup_batch: absent or false is a live close; a replayed bar has to   *)
(* say where it is in its batch.                                           *)
warmup_is_bad(document) ==
    \/ document.warmup_bar \notin {"absent", "false", "true"}
    \/ /\ document.warmup_bar = "true"
       /\ ~(document.index \in Nat \ {0} /\ document.total \in Nat \ {0}
            /\ document.index <= document.total)

(* decode_bar_closed and the two filters of _handle_raw.                   *)
Decode(document) ==
    IF \/ ~document.is_bar \/ ~accepts_schema_version(document.version)
       \/ warmup_is_bad(document) \/ document.span # 1 \/ ~document.planned
    THEN "refused"
    ELSE IF document.warmup_bar # "true" THEN "live"
    ELSE IF HasWarmupSink THEN "warmup" ELSE "refused"

Init ==
    /\ published = 0 /\ unacked = {} /\ inFlight = {} /\ receiver = Opening
    /\ inbox = <<>> /\ handling = 0 /\ handed = <<>> /\ refused = {} /\ spilled = {}
    /\ unheard = {} /\ breaks = 0 /\ stops = 0

Break == breaks < MaxBreaks /\ breaks' = breaks + 1

-----------------------------------------------------------------------------
(* The ingester publishes.  On core NATS the message runs the subscription *)
(* callback at once: held, or answered busy when the queue is full.        *)
Publish ==
    /\ published < Len(Documents)
    /\ published' = published + 1
    /\ IF JetStream
       THEN unacked' = unacked \cup {published'} /\ UNCHANGED <<inbox, unheard>>
       ELSE /\ IF receiver.step = "listening" /\ Len(inbox) < MaxPending
               THEN inbox' = Append(inbox, published') /\ UNCHANGED unheard
               ELSE unheard' = unheard \cup {published'} /\ UNCHANGED inbox
            /\ UNCHANGED unacked
    /\ UNCHANGED <<inFlight, receiver, handling, handed, refused, spilled, breaks, stops>>

(* The stream waits ack_wait for an acknowledgement and owes the message   *)
(* again; as long as the receiver works on its batch it does not.          *)
Redeliver ==
    /\ \E n \in inFlight \ Elements(receiver.batch) :
         inFlight' = inFlight \ {n} /\ unacked' = unacked \cup {n}
    /\ UNCHANGED <<published, receiver, inbox, handling, handed, refused, spilled, unheard,
                   breaks, stops>>

-----------------------------------------------------------------------------
SmallerOf(a, b) == IF a < b THEN a ELSE b

(* _receive: connect and subscribe; after an error close and try again.    *)
Connect ==
    /\ receiver.step = "opening"
    /\ \/ /\ receiver' = IF JetStream THEN Pulling ELSE [Pulling EXCEPT !.step = "listening"]
          /\ UNCHANGED breaks
       \/ Break /\ UNCHANGED receiver
    /\ UNCHANGED <<published, unacked, inFlight, inbox, handling, handed, refused, spilled,
                   unheard, stops>>

LinkDrops ==
    /\ receiver.step \in {"pulling", "listening"} /\ Break
    /\ receiver' = Opening
    /\ UNCHANGED <<published, unacked, inFlight, inbox, handling, handed, refused, spilled,
                   unheard, stops>>

Room == MaxPending - Len(inbox)

(* fetch: at most FetchBatch messages and never more than the queue has    *)
(* room for, the oldest that the stream owes; it may return with fewer.    *)
IsOldest(batch) ==
    /\ \A i, j \in 1..Len(batch) : i < j => batch[i] < batch[j]
    /\ \A m \in Elements(batch), n \in unacked \ Elements(batch) : m < n

Fetch ==
    /\ receiver.step = "pulling"
    /\ \E k \in 1..SmallerOf(FetchBatch, Room) : \E batch \in [1..k -> unacked] :
          /\ IsOldest(batch)
          /\ receiver' = [step |-> "batch", batch |-> batch]
          /\ unacked' = unacked \ Elements(batch)
          /\ inFlight' = inFlight \cup Elements(batch)
    /\ UNCHANGED <<published, inbox, handling, handed, refused, spilled, unheard, breaks, stops>>

Taking == Head(receiver.batch)
AfterBatch ==
    IF Len(receiver.batch) = 1 THEN Pulling ELSE [receiver EXCEPT !.batch = Tail(@)]

BugAcksFirst ==
    /\ receiver.step = "batch"
    /\ \/ /\ inbox' = Append(inbox, Taking) /\ inFlight' = inFlight \ {Taking}
          /\ receiver' = AfterBatch /\ UNCHANGED breaks
       \/ /\ Break /\ receiver' = Opening /\ UNCHANGED inbox
          /\ inFlight' \in {inFlight, inFlight \ {Taking}}
    /\ UNCHANGED <<published, unacked, handling, handed, refused, spilled, unheard, stops>>

(* One message of the batch: held first, acknowledged second.  When the    *)
(* acknowledgement raises the link is opened again and the rest of the     *)
(* batch comes back later.                                                 *)
HoldAndAck ==
    /\ receiver.step = "batch"
    /\ inbox' = Append(inbox, Taking)
    /\ \/ inFlight' = inFlight \ {Taking} /\ receiver' = AfterBatch /\ UNCHANGED breaks
       \/ /\ Break /\ receiver' = Opening
          /\ inFlight' \in {inFlight, inFlight \ {Taking}}
    /\ UNCHANGED <<published, unacked, handling, handed, refused, spilled, unheard, stops>>

-----------------------------------------------------------------------------
(* _process: one message at a time, decoded and handed over.  A handler    *)
(* that raises has taken the bar: the worker goes on.                      *)
Take ==
    /\ receiver # Down /\ handling = 0 /\ inbox # <<>>
    /\ handling' = Head(inbox) /\ inbox' = Tail(inbox)
    /\ UNCHANGED <<published, unacked, inFlight, receiver, handed, refused, spilled, unheard,
                   breaks, stops>>

HandleRaw ==
    /\ handling # 0
    /\ handling' = 0
    /\ IF Decode(Documents[handling]) = "refused"
       THEN refused' = refused \cup {handling} /\ UNCHANGED handed
       ELSE handed' = Append(handed, handling) /\ UNCHANGED refused
    /\ UNCHANGED <<published, unacked, inFlight, receiver, inbox, spilled, unheard, breaks, stops>>

-----------------------------------------------------------------------------
(* stop cancels both tasks, and a crash ends them: the queue is gone.      *)
Stop ==
    /\ receiver # Down /\ stops < MaxStops
    /\ stops' = stops + 1
    /\ receiver' = Down
    /\ spilled' = spilled \cup Elements(inbox) \cup (IF handling = 0 THEN {} ELSE {handling})
    /\ inbox' = <<>> /\ handling' = 0
    /\ UNCHANGED <<published, unacked, inFlight, handed, refused, unheard, breaks>>

Start ==
    /\ receiver = Down
    /\ receiver' = Opening
    /\ UNCHANGED <<published, unacked, inFlight, inbox, handling, handed, refused, spilled,
                   unheard, breaks, stops>>

Next ==
    \/ Publish \/ Redeliver \/ Connect \/ LinkDrops \/ Fetch \/ HoldAndAck \/ Take
    \/ HandleRaw \/ Stop \/ Start

Spec == Init /\ [][Next]_ingesterVars

-----------------------------------------------------------------------------
InMemory == Elements(inbox) \cup ({handling} \ {0})

(* Every published bar is owed by the stream, in memory, handed over or    *)
(* refused, unless a stop caught it in memory or, without a stream, nobody *)
(* had room for it (feed.py:221).                                          *)
EveryBarIsSomewhere ==
    /\ 1..published =
         unacked \cup inFlight \cup InMemory \cup Elements(handed) \cup refused \cup spilled
         \cup unheard
    /\ JetStream => unheard = {}
    /\ stops = 0 => spilled = {}

(* A bar is handed over twice, or after a newer one of the stream, only    *)
(* when an acknowledgement failed or a batch was cut off (feed.py:226).    *)
InOrderUnlessBroken ==
    breaks = 0 /\ stops = 0 =>
        \A i, j \in 1..Len(handed) : i < j => handed[i] < handed[j]

=============================================================================
