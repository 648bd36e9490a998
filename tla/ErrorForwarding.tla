--------------------------- MODULE ErrorForwarding ---------------------------
(***************************************************************************)
(* What a service tells the operators' chat about itself: every error that *)
(* is logged (telegram_errors.py) and its own start and stop               *)
(* (service_status.py), over the life of one process.                      *)
(*                                                                         *)
(* An error may be logged by any thread.  The handler on the root logger   *)
(* offers it; a repeat within the window is suppressed, anything else is   *)
(* marked as recent and handed to the event loop, which queues it later.   *)
(* A worker sends the queue, one chat after the other.  A send that fails  *)
(* logs an error of its own, which the handler filters out, and nobody     *)
(* tries it again.                                                         *)
(*                                                                         *)
(* Announcements are awaited, never queued, and go chat by chat as well.   *)
(***************************************************************************)
EXTENDS Naturals, Sequences

CONSTANTS Errors,      \* the errors a program logs, as their dedup keys
          SendPath,    \* those logged by the send path itself
          Chats,       \* the chats errors go to, in order
          QueueCapacity,
          Window,      \* how long a repeat is suppressed; 0 never
          Active,      \* forwarding is switched on and configured
          Announces,   \* announcing is switched on and configured
          MaxNow, MaxErrors    \* bounds

VARIABLES life,      \* "new", "starting", "announcing", "up", "stopping", "closing",
                     \* "draining", "down", "dead"
          attached,  \* the handler is on the root logger
          taking,    \* offer() still takes records: the worker is known
          recent,    \* error -> when it was last forwarded
          calls,     \* messages handed to the loop, not yet queued
          queue, sending, now,
          started,   \* the status notifier knows when the service came up
          telling,   \* the announcement under way and how many chats it still goes to
          told,      \* history: for each chat the announcements sent to it, in order
          closes,    \* how often _close_resources may still run: in start() and in stop()
          errors,
          logged,    \* history: errors logged while the handler was attached
          sent,      \* history: the worker's sends, each to one chat
          dropped    \* history: messages a full queue refused

vars == <<life, attached, taking, recent, calls, queue, sending, now, started,
          telling, told, closes, errors, logged, sent, dropped>>

NotSending == [key |-> "none", at |-> 0, left |-> 0]
Nothing == [what |-> "none", left |-> 0]
Message(e) == [key |-> e, at |-> now]

Init == /\ life = "new" /\ attached = FALSE /\ taking = FALSE
        /\ recent = [e \in {} |-> 0]
        /\ calls = <<>> /\ queue = <<>> /\ sending = NotSending /\ now = 0
        /\ started = FALSE /\ telling = Nothing
        /\ told = [n \in 1..Len(Chats) |-> <<>>] /\ closes = 2 /\ errors = 0
        /\ logged = {} /\ sent = {} /\ dropped = {}

-----------------------------------------------------------------------------
(* The process: start(), the announcements, _close_resources().            *)

Start == /\ life = "new"
         /\ life' = "starting" /\ attached' = Active /\ taking' = Active
         /\ UNCHANGED <<recent, calls, queue, sending, now, started, telling, told, closes,
                        errors, logged, sent, dropped>>

Announce(what) == telling' = [what |-> what, left |-> IF Announces THEN Len(Chats) ELSE 0]

\* The notifier takes the service for started before any chat is told.
AnnounceStarted == /\ life = "starting"
                   /\ life' = "announcing" /\ started' = TRUE /\ Announce("up")
                   /\ UNCHANGED <<attached, taking, recent, calls, queue, sending, now, told,
                                  closes, errors, logged, sent, dropped>>

\* run_forever always stops: after a start that worked, or one the audit refused;
\* a start that failed closes by itself, and is stopped as well when that cleanup
\* did not end well.
AnnounceStopped ==
  /\ \/ life \in {"new", "up"} /\ closes' = 0
     \/ life = "starting" /\ closes' = 1
     \/ life = "down" /\ closes = 1 /\ closes' = 0
  /\ life' = "stopping" /\ Announce(IF started THEN "down" ELSE "unfinished")
  /\ UNCHANGED <<attached, taking, recent, calls, queue, sending, now, started, told,
                 errors, logged, sent, dropped>>

AnnouncementEnds ==
  /\ telling # Nothing /\ telling.left = 0 /\ telling' = Nothing
  /\ IF life = "announcing" THEN life' = "up" /\ UNCHANGED started
                            ELSE life' = "closing" /\ started' = FALSE
  /\ UNCHANGED <<attached, taking, recent, calls, queue, sending, now, told, closes,
                 errors, logged, sent, dropped>>

\* Detach first, then wait for what is queued; without a worker there is
\* nothing to wait for.
StopErrors == /\ life = "closing"
              /\ life' = IF taking THEN "draining" ELSE "down"
              /\ attached' = FALSE /\ taking' = FALSE
              /\ UNCHANGED <<recent, calls, queue, sending, now, started, telling, told, closes,
                             errors, logged, sent, dropped>>

Drained == /\ life = "draining" /\ queue = <<>> /\ sending = NotSending
           /\ life' = "down"
           /\ UNCHANGED <<attached, taking, recent, calls, queue, sending, now, started, telling,
                          told, closes, errors, logged, sent, dropped>>

DrainTimesOut == /\ life = "draining" /\ (queue # <<>> \/ sending # NotSending)
                 /\ life' = "down" /\ sending' = NotSending
                 /\ UNCHANGED <<attached, taking, recent, calls, queue, now, started, telling, told,
                                closes, errors, logged, sent, dropped>>

Dies == /\ life \notin {"new", "dead"}
        /\ life' = "dead" /\ attached' = FALSE /\ taking' = FALSE
        /\ calls' = <<>> /\ queue' = <<>> /\ sending' = NotSending
        /\ recent' = [e \in {} |-> 0] /\ telling' = Nothing
        /\ UNCHANGED <<now, started, told, closes, errors, logged, sent, dropped>>

-----------------------------------------------------------------------------
(* An error is logged.                                                     *)

\* _is_repeat prunes what the window has left behind.
Pruned == [e \in {x \in DOMAIN recent : now - recent[x] < Window} |-> recent[e]]

\* The filter on the handler.
BugForwards(e) == attached /\ taking
Forwards(e) == attached /\ taking /\ e \notin SendPath

\* emit and offer: the key is marked before the queue has seen the message.
Offer(e) ==
  LET repeat == Window > 0 /\ e \in DOMAIN Pruned
  IN /\ recent' = IF ~Forwards(e) \/ Window = 0 THEN recent
                  ELSE IF repeat THEN Pruned
                  ELSE [x \in DOMAIN Pruned \cup {e} |-> IF x = e THEN now ELSE Pruned[x]]
     /\ calls' = IF Forwards(e) /\ ~repeat THEN Append(calls, Message(e)) ELSE calls
     /\ logged' = IF attached /\ e \notin SendPath THEN logged \cup {<<e, now>>} ELSE logged

LogError(e) == /\ life \notin {"new", "dead"} /\ errors < MaxErrors /\ e \notin SendPath
               /\ errors' = errors + 1
               /\ Offer(e)
               /\ UNCHANGED <<life, attached, taking, queue, sending, now, started, telling, told,
                              closes, sent, dropped>>

\* The loop runs what a thread handed it; a full queue refuses in silence.
Enqueue == /\ calls # <<>>
           /\ calls' = Tail(calls)
           /\ IF Len(queue) < QueueCapacity
              THEN queue' = Append(queue, Head(calls)) /\ UNCHANGED dropped
              ELSE dropped' = dropped \cup {Head(calls)} /\ UNCHANGED queue
           /\ UNCHANGED <<life, attached, taking, recent, sending, now, started, telling, told,
                          closes, errors, logged, sent>>

-----------------------------------------------------------------------------
(* The worker.                                                             *)

\* stop() gives the worker up before it waits for what is queued.
WorkerRuns == taking \/ life = "draining"

Take == /\ WorkerRuns /\ sending = NotSending /\ queue # <<>>
        /\ sending' = [key |-> Head(queue).key, at |-> Head(queue).at, left |-> Len(Chats)]
        /\ queue' = Tail(queue)
        /\ UNCHANGED <<life, attached, taking, recent, calls, now, started, telling, told,
                       closes, errors, logged, sent, dropped>>

\* One chat is told, or cannot be: the sink logs that and tells its caller nothing
\* that he looks at.
Reported(ok) == IF ok THEN UNCHANGED <<recent, calls, logged>>
                      ELSE \E e \in SendPath : Offer(e)

Send == /\ sending # NotSending
        /\ \E ok \in BOOLEAN :
             /\ sent' = sent \cup {[key |-> sending.key, at |-> sending.at,
                                   chat |-> Len(Chats) - sending.left + 1, ok |-> ok]}
             /\ Reported(ok)
        /\ sending' = IF sending.left = 1 THEN NotSending
                      ELSE [sending EXCEPT !.left = @ - 1]
        /\ UNCHANGED <<life, attached, taking, queue, now, started, telling, told, closes,
                       errors, dropped>>

Tell == /\ telling.left > 0
        /\ telling' = [telling EXCEPT !.left = @ - 1]
        /\ \E ok \in BOOLEAN :
             /\ told' = [told EXCEPT ![Len(Chats) - telling.left + 1] =
                           Append(@, [what |-> telling.what, ok |-> ok])]
             /\ Reported(ok)
        /\ UNCHANGED <<life, attached, taking, queue, sending, now, started, closes, errors,
                       sent, dropped>>

Tick == /\ now < MaxNow /\ now' = now + 1
        /\ UNCHANGED <<life, attached, taking, recent, calls, queue, sending, started, telling,
                       told, closes, errors, logged, sent, dropped>>

Next == \/ Start \/ AnnounceStarted \/ AnnounceStopped \/ AnnouncementEnds \/ StopErrors
        \/ Drained \/ DrainTimesOut \/ Dies \/ (\E e \in Errors : LogError(e)) \/ Enqueue
        \/ Take \/ Send \/ Tell \/ Tick

Spec == Init /\ [][Next]_vars

-----------------------------------------------------------------------------
Elements(messages) == {messages[i] : i \in 1..Len(messages)}
Forwarded == Elements(calls) \cup Elements(queue) \cup dropped
             \cup {[key |-> s.key, at |-> s.at] : s \in sent}
             \cup (IF sending = NotSending THEN {}
                   ELSE {[key |-> sending.key, at |-> sending.at]})

\* f is still on its way to the n-th chat, or was sent to it, heard or not
ComesTo(f, n) ==
  \/ f \in Elements(calls) \cup Elements(queue)
  \/ sending.key = f.key /\ sending.at = f.at /\ n > Len(Chats) - sending.left
  \/ \E ok \in BOOLEAN : [key |-> f.key, at |-> f.at, chat |-> n, ok |-> ok] \in sent

(* No error is kept from an operator without a cause, and none comes twice *)
(* within the window: while the handler is attached, each error logged, or *)
(* the same one less than a window before it, has a message that is on its *)
(* way to every chat or was sent to it; what is lost is a send that failed *)
(* or a message that a full queue refused, and either silences the error   *)
(* for no longer than the window.  Two messages of one error are a window  *)
(* apart; a failing send never queues another.                             *)
ErrorsAreHeardOnce ==
  /\ attached => \A l \in logged : \E f \in Forwarded :
       /\ f.key = l[1] /\ f.at <= l[2] /\ (f.at = l[2] \/ l[2] - f.at < Window)
       /\ f \in dropped \/ \A n \in 1..Len(Chats) : ComesTo(f, n)
  /\ \A f, g \in Forwarded : f.key = g.key /\ f.at < g.at => g.at - f.at >= Window
  /\ \A f \in Forwarded : f.key \notin SendPath

\* the announcements sent to one chat, heard or not
CameUp(news) == Len(news) = 1 /\ news[1].what = "up"
WentDown(news) == Len(news) = 2 /\ news[1].what = "up" /\ news[2].what = "down"
NeverUp(news) == \A i \in 1..Len(news) : news[i].what = "unfinished"

(* What a chat is told of a service is true of this life of it, whichever  *)
(* sends fail: it is sent one down after the up that was sent to it, so    *)
(* that it hears of the end alone only where the send of the up failed; it *)
(* is sent that the service never came up only when no chat was sent that  *)
(* it did; and once a service is down and not killed, no chat is left with *)
(* an up.                                                                  *)
DownFollowsUp ==
  /\ \A n \in DOMAIN told : CameUp(told[n]) \/ WentDown(told[n]) \/ NeverUp(told[n])
  /\ (\E n \in DOMAIN told : told[n] # <<>> /\ NeverUp(told[n]))
       => \A n \in DOMAIN told : NeverUp(told[n])
  /\ life = "down" /\ Announces =>
       \A n \in DOMAIN told : told[n] # <<>> /\ ~CameUp(told[n])
=============================================================================
