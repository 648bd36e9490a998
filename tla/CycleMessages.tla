----------------------------- MODULE CycleMessages -----------------------------
(***************************************************************************)
(* One Telegram message per position and chat, edited in place             *)
(* (qte_strategy_engine/telegram_notify.py, with the Bot API calls of      *)
(* telegram_sink.py and the stored cycle of db/repository.py), for one     *)
(* cycle of Rows outbox rows: the entry first, the close last.             *)
(*                                                                         *)
(* The runner puts an event on a bounded queue each time a row comes back  *)
(* from delivery; one worker loads the stored cycle, folds the event in,   *)
(* edits or sends the message of every chat in turn and saves the cycle.   *)
(* Every call may fail, with and without its effect; the process may die   *)
(* between any two calls.  MaxTroubles bounds those failures and deaths,   *)
(* MaxRepeats the retries of a row that is not settled.                    *)
(***************************************************************************)
EXTENDS Integers, Sequences

CONSTANTS
    Rows,           \* outbox rows of the cycle
    Chats,          \* <<...>>: the chats in the order they are written to
    Capacity,       \* queue_capacity
    MaxBlocks,      \* MAX_ACTION_BLOCKS
    MaxTroubles, MaxRepeats

VARIABLES
    outbox,     \* [row, settled, repeats]: the newest row and what is known of it
    notifier,   \* "up", "draining" (stop waits for the queue) or "down"
    updates,    \* the queue of events
    worker,     \* what _drain_queue is doing
    cycle,      \* the stored record of the cycle
    posts,      \* per chat, the messages in it: [body, gone]
    excuses,    \* per chat, the failures after which a new message is right
    troubles    \* failures so far

messageVars == <<outbox, notifier, updates, worker, cycle, posts, excuses, troubles>>

ChatSet == {Chats[i] : i \in 1..Len(Chats)}
NoRecord == [status |-> "RUNNING", events |-> <<>>, messages |-> [c \in ChatSet |-> 0]]
Idle == [step |-> "idle"]

lifecycle_event(row, delivery) ==
    [delivery_id |-> row, delivery |-> delivery,
     action |-> IF row = 1 THEN "LONG" ELSE IF row = Rows THEN "SL" ELSE "TP1"]

is_terminal_event(event) == event.action = "SL"

BugAppends(events, event) == Append(events, event)

(* _merge_event: a row that was delivered again replaces its own event.    *)
MergedEvents(events, event) ==
    IF \E i \in 1..Len(events) : events[i].delivery_id = event.delivery_id
    THEN [i \in 1..Len(events) |->
            IF events[i].delivery_id = event.delivery_id THEN event ELSE events[i]]
    ELSE Append(events, event)

(* A block of the body: the action, and the warning that it did not arrive *)
Block(event) == [row |-> event.delivery_id, warned |-> event.delivery # "sent"]

(* format_cycle: the first event is the header, the newest MaxBlocks of    *)
(* the others follow.                                                      *)
format_cycle(record) ==
    LET actions == Tail(record.events)
        hidden == IF Len(actions) > MaxBlocks THEN Len(actions) - MaxBlocks ELSE 0
    IN  [status |-> record.status,
         entry |-> Block(record.events[1]),
         actions |-> [i \in 1..(Len(actions) - hidden) |-> Block(actions[hidden + i])]]

Init ==
    /\ outbox = [row |-> 0, settled |-> TRUE, repeats |-> 0]
    /\ notifier = "up"
    /\ updates = <<>>
    /\ worker = Idle
    /\ cycle = NoRecord
    /\ posts = [c \in ChatSet |-> <<>>]
    /\ excuses = [c \in ChatSet |-> 0]
    /\ troubles = 0

Trouble == troubles < MaxTroubles /\ troubles' = troubles + 1
Excuse(chats) ==
    excuses' = [c \in ChatSet |-> IF c \in chats THEN excuses[c] + 1 ELSE excuses[c]]

(* note_signal and enqueue: a full queue drops the newest update.          *)
enqueue(event) ==
    updates' = IF notifier = "up" /\ Len(updates) < Capacity
               THEN Append(updates, event) ELSE updates

(* _finish_delivery of the next row, or again of a row that is not         *)
(* settled: its outcome is unknown or its local writes failed.             *)
NextRow ==
    /\ notifier # "down" /\ outbox.settled /\ outbox.row < Rows
    /\ \E delivery \in {"sent", "unknown"}, settled \in BOOLEAN :
         /\ delivery = "unknown" => ~settled
         /\ outbox' = [outbox EXCEPT !.row = @ + 1, !.settled = settled]
         /\ enqueue(lifecycle_event(outbox.row + 1, delivery))
    /\ UNCHANGED <<notifier, worker, cycle, posts, excuses, troubles>>

RowAgain ==
    /\ notifier # "down" /\ ~outbox.settled /\ outbox.repeats < MaxRepeats
    /\ \E delivery \in {"sent", "unknown"}, settled \in BOOLEAN :
         /\ delivery = "unknown" => ~settled
         /\ outbox' = [outbox EXCEPT !.settled = settled, !.repeats = @ + 1]
         /\ enqueue(lifecycle_event(outbox.row, delivery))
    /\ UNCHANGED <<notifier, worker, cycle, posts, excuses, troubles>>

(* deliver: take an event, load the cycle and fold the event in.  A read   *)
(* that fails looks like a cycle that was never stored.                    *)
Fold(event, record) ==
    worker' = [step |-> "chat", at |-> 1, posting |-> FALSE,
               record |-> [record EXCEPT
                   !.events = MergedEvents(@, event),
                   !.status = IF is_terminal_event(event) THEN "CLOSED" ELSE @]]

Deliver ==
    /\ worker = Idle /\ updates # <<>>
    /\ updates' = Tail(updates)
    /\ \/ Fold(Head(updates), cycle) /\ UNCHANGED <<excuses, troubles>>
       \/ /\ Trouble /\ Fold(Head(updates), NoRecord)
          /\ Excuse({c \in ChatSet : cycle.messages[c] # 0})
    /\ UNCHANGED <<outbox, notifier, cycle, posts>>

Target == Chats[worker.at]
Stored == worker.record.messages[Target]
Chat == worker.step = "chat"
NextChat(messageId) ==
    worker' = [worker EXCEPT !.record.messages[Target] = messageId, !.posting = FALSE,
                             !.step = IF worker.at = Len(Chats) THEN "save" ELSE "chat",
                             !.at = IF worker.at = Len(Chats) THEN @ ELSE @ + 1]
SendInstead == worker' = [worker EXCEPT !.record.messages[Target] = 0, !.posting = TRUE]
Shows(i) == posts' = [posts EXCEPT ![Target][i].body = format_cycle(worker.record)]

BugSendsAfterFailure == SendInstead

(* An edit that failed for now keeps the id: the next action tries again.  *)
AfterFailedEdit == NextChat(Stored)

(* edit_message: OK, or MISSING for a message that is gone or a chat that  *)
(* does not answer to the bot, or FAILED with or without its effect.       *)
Edit ==
    /\ Chat /\ ~worker.posting /\ Stored # 0
    /\ \/ ~posts[Target][Stored].gone /\ Shows(Stored) /\ NextChat(Stored)
          /\ UNCHANGED <<excuses, troubles>>
       \/ posts[Target][Stored].gone /\ SendInstead /\ UNCHANGED <<posts, excuses, troubles>>
       \/ Trouble /\ SendInstead /\ Excuse({Target}) /\ UNCHANGED posts
       \/ /\ Trouble /\ AfterFailedEdit /\ UNCHANGED excuses
          /\ IF posts[Target][Stored].gone THEN UNCHANGED posts
             ELSE UNCHANGED posts \/ Shows(Stored)
    /\ UNCHANGED <<outbox, notifier, updates, cycle>>

(* send_message: an id, or none when nothing was sent or its answer was    *)
(* not read.                                                               *)
Send ==
    /\ Chat /\ Stored = 0
    /\ LET sent == [posts EXCEPT ![Target] =
                      Append(@, [body |-> format_cycle(worker.record), gone |-> FALSE])]
       IN  \/ posts' = sent /\ NextChat(Len(sent[Target])) /\ UNCHANGED <<excuses, troubles>>
           \/ Trouble /\ UNCHANGED <<posts, excuses>> /\ NextChat(0)
           \/ Trouble /\ posts' = sent /\ NextChat(0) /\ Excuse({Target})
    /\ UNCHANGED <<outbox, notifier, updates, cycle>>

(* The chats whose new message id is known only to the worker.             *)
Unsaved ==
    IF worker = Idle THEN {}
    ELSE {c \in ChatSet : worker.record.messages[c] \notin {0, cycle.messages[c]}}

(* TelegramCycleRepository.save                                            *)
Save ==
    /\ worker.step = "save"
    /\ worker' = Idle
    /\ \/ cycle' = worker.record /\ UNCHANGED <<excuses, troubles>>
       \/ Trouble /\ UNCHANGED cycle /\ Excuse(Unsaved)
    /\ UNCHANGED <<outbox, notifier, updates, posts>>

(* A reader deletes the message of a chat.                                 *)
Deleted ==
    /\ Trouble
    /\ \E c \in ChatSet : \E i \in 1..Len(posts[c]) :
         /\ ~posts[c][i].gone
         /\ posts' = [posts EXCEPT ![c][i].gone = TRUE]
         /\ Excuse({c})
    /\ UNCHANGED <<outbox, notifier, updates, worker, cycle>>

(* stop: no update is taken any more; the queue goes out, or the wait ends *)
(* and the worker is cancelled wherever it is.  A crash does not wait.     *)
StopBegins ==
    /\ notifier = "up" /\ notifier' = "draining"
    /\ UNCHANGED <<outbox, updates, worker, cycle, posts, excuses, troubles>>

Drained ==
    /\ notifier = "draining" /\ updates = <<>> /\ worker = Idle
    /\ notifier' = "down"
    /\ UNCHANGED <<outbox, updates, worker, cycle, posts, excuses, troubles>>

Dies ==
    /\ notifier # "down" /\ Trouble
    /\ notifier' = "down" /\ updates' = <<>> /\ worker' = Idle
    /\ Excuse(Unsaved)
    /\ UNCHANGED <<outbox, cycle, posts>>

Start ==
    /\ notifier = "down" /\ notifier' = "up"
    /\ UNCHANGED <<outbox, updates, worker, cycle, posts, excuses, troubles>>

Next ==
    \/ NextRow \/ RowAgain \/ Deliver \/ Edit \/ Send \/ Save \/ Deleted
    \/ StopBegins \/ Drained \/ Dies \/ Start

Spec == Init /\ [][Next]_messageVars

-----------------------------------------------------------------------------
(* A chat gets a second message of a cycle only after something took the   *)
(* first from the notifier: it was deleted or refused, its id was never    *)
(* read or never saved, or the stored cycle could not be read.  A failed   *)
(* edit is not one of these, nor is a retry of a row or a restart          *)
(* (telegram_notify.py:580, telegram_sink.py:171).                         *)
SecondMessageHasACause == \A c \in ChatSet : Len(posts[c]) <= 1 + excuses[c]

(* No message shows an action twice or out of order, whatever is retried,  *)
(* dropped from the queue, forgotten by a failed save or read back wrong   *)
(* (telegram_notify.py:605).                                               *)
ActionsShowOnce ==
    \A c \in ChatSet : \A i \in 1..Len(posts[c]) :
        LET shown == <<posts[c][i].body.entry>> \o posts[c][i].body.actions
        IN  \A a, b \in 1..Len(shown) : a < b => shown[a].row < shown[b].row

=============================================================================
